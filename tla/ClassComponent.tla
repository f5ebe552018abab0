---------------------------- MODULE ClassComponent ----------------------------
(***************************************************************************)
(* A class component of React that reads stores in its render: which       *)
(* stores it is registered at, for which paths, and whether the screen     *)
(* shows what a render would give now.  React may render the component and *)
(* throw the result away, commit it later, hide the tree and show it again *)
(* (StrictMode, Suspense, Activity); the stores go on changing in between. *)
(*                                                                         *)
(* The component reads the store its props name, in one or both of two     *)
(* ways: useCarburetor() reads the gate of that store; connectSelection()  *)
(* reads the gate and the place behind it, and selects that place.         *)
(***************************************************************************)
EXTENDS Naturals, Functions

CONSTANTS
  Stores,
  Deferred,      (* Stores whose scheduler queues; the others call at once. *)
  Props,         (* The props the parent may give.                          *)
  Source,        (* The store that each props name.                         *)
  Uses,          (* The ways in which each props make the component read.   *)
  Connection,    (* The slot of connectSelection().                         *)
  None,          (* No value, no render, no props.                          *)
  MaxPublished   (* Bound: publications begun.                              *)

ASSUME ComponentAssumption ==
  /\ Deferred \subseteq Stores
  /\ Source \in [Props -> Stores]
  /\ Uses \in [Props -> SUBSET {"tracked", "selection"}]
  /\ Connection \notin Stores
  /\ None \notin [props : Props, output : UNION {[ways -> 0..1] : ways \in SUBSET {"tracked", "selection"}}, took : BOOLEAN]
  /\ MaxPublished \in Nat

VARIABLES
  data, version,
  lastWrite,     (* The version that wrote each place last.                 *)
  unpublished,   (* Places written since the last publication.              *)
  registered,    (* The reads each registration is filed under.             *)
  queued,        (* Registrations whose callback the scheduler holds.       *)
  phase,         (* React: "new", "mounted", "hidden" or "gone".            *)
  updating,      (* React: a forceUpdate() no render has taken up.          *)
  work,          (* React: a finished render that is not committed.         *)
  shown,         (* React: the render on the screen.                        *)
  attempt,       (* pendingAttempt; "consumed" if it is committedAttempt.   *)
  committed,     (* The committed description of each slot that has one.    *)
  installed,     (* The handle of each slot that is subscribed.             *)
  snapshot,      (* The value connectSelection() gave last.                 *)
  settled        (* The committed descriptions are those of the render on   *)
                 (* the screen.                                             *)

storeVars == <<data, version, lastWrite, unpublished>>
reactVars == <<phase, updating, work, shown, attempt, snapshot, settled>>
slotVars == <<registered, queued, committed, installed>>
componentVars == <<storeVars, reactVars, slotVars>>

Places == {"gate", "on", "off"}

\* A tracked slot is keyed by its store.  A registration is that of the
\* component or of its connection, at a store.
Slots == Stores \cup {Connection}
Uids == {"tracked", "selection"}
Registrations == Stores \X Uids

SlotAt(s, uid) == IF uid = "tracked" THEN s ELSE Connection
Uid(k) == IF k = Connection THEN "selection" ELSE "tracked"

Behind(s) == IF data[s]["gate"] = 1 THEN "on" ELSE "off"
ReadsOf(s, uid) == IF uid = "tracked" THEN {"gate"} ELSE {"gate", Behind(s)}
ValueOf(s, uid) == data[s][IF uid = "tracked" THEN "gate" ELSE Behind(s)]

\* What a render gives, and what its attempt records.
Output(p) == [uid \in Uses[p] |-> ValueOf(Source[p], uid)]
SlotsOf(p) == {SlotAt(Source[p], uid) : uid \in Uses[p]}
Entries(p) ==
  [k \in SlotsOf(p) |-> [source |-> Source[p], baseline |-> version[Source[p]],
                         reads |-> ReadsOf(Source[p], Uid(k))]]

NoAttempt == [state |-> "consumed", props |-> None, entries |-> <<>>, onScreen |-> FALSE]

-----------------------------------------------------------------------------
(***************************************************************************)
(* Registrations.                                                          *)
(***************************************************************************)
\* CARBURETOR_HAS_DRIFT.
HasDrift(s, since, reads) == \E p \in reads : lastWrite[s][p] > since

Holds(handles, r) == SlotAt(r[1], r[2]) \in DOMAIN handles /\ handles[SlotAt(r[1], r[2])].source = r[1]
ReadsAt(handles, r) == handles[SlotAt(r[1], r[2])].reads

\* The registrations in `dropped` are unsubscribed and those in the domain of
\* `filed` subscribed: both cancel the call that is queued.
Refile(dropped, filed) ==
  /\ registered' = [r \in Registrations |-> IF r \in DOMAIN filed THEN filed[r]
                                             ELSE IF r \in dropped THEN {} ELSE registered[r]]
  /\ queued' = queued \ (dropped \cup DOMAIN filed)

\* A wrong variant: what is read no more, by a slot that has a description
\* still, is not left.
LeftLoose(descriptions) ==
  {r \in Registrations : Holds(installed, r) /\ SlotAt(r[1], r[2]) \notin DOMAIN descriptions}

\* What alignSubscription() unsubscribes, and what it subscribes.
Left(descriptions) == {r \in Registrations : Holds(installed, r) /\ ~Holds(descriptions, r)}
Resubscribed(descriptions) ==
  [r \in {r \in Registrations : /\ Holds(descriptions, r)
                                /\ Holds(installed, r) => ReadsAt(installed, r) # ReadsAt(descriptions, r)}
     |-> ReadsAt(descriptions, r)]

Handles(descriptions) ==
  [k \in DOMAIN descriptions |-> [source |-> descriptions[k].source, reads |-> descriptions[k].reads]]

\* What a commit goes by: a fresh attempt, which leaves nothing to the slots it
\* did not touch, or the descriptions of the last one.
Fresh == attempt.state = "fresh"
Descriptions == IF Fresh THEN attempt.entries ELSE committed

\* commitSubscriptions(): another render is due if what was read has been
\* written since.
CommitSubscriptions ==
  /\ committed' = Descriptions
  /\ installed' = Handles(Descriptions)
  /\ Refile(Left(Descriptions), Resubscribed(Descriptions))
  /\ attempt' = IF Fresh THEN [attempt EXCEPT !.state = "consumed", !.entries = <<>>] ELSE attempt
  /\ updating' = (updating \/ \E k \in DOMAIN Descriptions :
                    HasDrift(Descriptions[k].source, Descriptions[k].baseline, Descriptions[k].reads))

\* releaseSubscriptions(): the handles go, the descriptions stay.
ReleaseSubscriptions ==
  /\ installed' = <<>>
  /\ Refile({r \in Registrations : Holds(installed, r)}, <<>>)
  /\ UNCHANGED committed

-----------------------------------------------------------------------------
(***************************************************************************)
(* The stores change, and call.                                            *)
(***************************************************************************)
\* A wrong variant: a render since then does not matter.
UnmovedAnyway(s) ==
  /\ Connection \in DOMAIN committed /\ committed[Connection].source = s
  /\ ValueOf(s, "selection") = snapshot

\* selectionUnchanged(), up to its migration of the reads: the snapshot is
\* that of the committed render, and selecting anew gives the same.
Unmoved(s) ==
  /\ Connection \in DOMAIN committed /\ committed[Connection].source = s
  /\ attempt.state = "consumed" /\ attempt.props = shown.props
  /\ ValueOf(s, "selection") = snapshot

\* The callbacks of the registrations in `called`, all at the store s, whose
\* version is `now`: the component re-renders, unless it is its selection that
\* has not moved.  Then the connection migrates to the reads of today.
Called(s, called, now) ==
  /\ updating' = (updating \/ <<s, "tracked">> \in called \/ (<<s, "selection">> \in called /\ ~Unmoved(s)))
  /\ IF <<s, "selection">> \in called /\ Unmoved(s)
       THEN LET reads == ReadsOf(s, "selection")
            IN  /\ committed' = [committed EXCEPT ![Connection] = [source |-> s, baseline |-> now, reads |-> reads]]
                /\ installed' = [installed EXCEPT ![Connection].reads = reads]
                /\ registered' = [registered EXCEPT ![<<s, "selection">>] = reads]
       ELSE UNCHANGED <<committed, installed, registered>>
  /\ queued' = queued \ called

Published ==
  FoldFunction(+, 0, [s \in Stores |-> IF unpublished[s] = {} THEN version[s] ELSE version[s] + 1])

\* A write through the draft.
Mutate(s, p) ==
  /\ unpublished[s] # {} \/ Published < MaxPublished
  /\ p \notin unpublished[s]
  /\ data' = [data EXCEPT ![s][p] = 1 - @]
  /\ unpublished' = [unpublished EXCEPT ![s] = @ \cup {p}]
  /\ UNCHANGED <<version, lastWrite, reactVars, slotVars>>

\* emitUpdate().
Publish(s) ==
  /\ unpublished[s] # {}
  /\ version' = [version EXCEPT ![s] = @ + 1]
  /\ lastWrite' = [lastWrite EXCEPT ![s] = [p \in Places |-> IF p \in unpublished[s] THEN version[s] + 1 ELSE @[p]]]
  /\ unpublished' = [unpublished EXCEPT ![s] = {}]
  /\ LET matched == {r \in {s} \X Uids : registered[r] \cap unpublished[s] # {}}
     IN  IF s \in Deferred
           THEN queued' = queued \cup matched /\ UNCHANGED <<updating, committed, installed, registered>>
           ELSE Called(s, matched, version[s] + 1)
  /\ UNCHANGED <<data, phase, work, shown, attempt, snapshot, settled>>

\* The scheduler runs a callback.
RunQueued(s, uid) ==
  /\ <<s, uid>> \in queued
  /\ Called(s, {<<s, uid>>}, version[s])
  /\ UNCHANGED <<storeVars, phase, work, shown, attempt, snapshot, settled>>

-----------------------------------------------------------------------------
(***************************************************************************)
(* React.                                                                  *)
(***************************************************************************)
\* The first render, a forceUpdate(), or what shouldComponentUpdate() lets by.
Needed(p) == updating \/ p # shown.props

\* The render boundary opens an attempt, fills it and closes it.
Render(p) ==
  /\ phase # "gone" /\ work = None /\ Needed(p)
  /\ attempt' = [state |-> "fresh", props |-> p, entries |-> Entries(p), onScreen |-> FALSE]
  /\ snapshot' = IF "selection" \in Uses[p] THEN ValueOf(Source[p], "selection") ELSE snapshot
  /\ work' = [props |-> p, output |-> Output(p), took |-> updating]
  /\ updating' = FALSE
  /\ UNCHANGED <<storeVars, slotVars, phase, shown, settled>>

\* The render throws an error or a promise, before or after it has selected.
RenderThrows(p) ==
  /\ phase # "gone" /\ work = None /\ Needed(p)
  /\ attempt' = [state |-> "abandoned", props |-> p, entries |-> <<>>, onScreen |-> FALSE]
  /\ \/ UNCHANGED snapshot
     \/ "selection" \in Uses[p] /\ snapshot' = ValueOf(Source[p], "selection")
  /\ UNCHANGED <<storeVars, slotVars, phase, updating, work, shown, settled>>

\* React throws the finished render away; its updates are still to be made.
Discard ==
  /\ work # None
  /\ work' = None
  /\ updating' = (updating \/ work.took)
  /\ UNCHANGED <<storeVars, slotVars, phase, shown, attempt, snapshot, settled>>

Show == shown' = [props |-> work.props, output |-> work.output] /\ work' = None

\* componentDidMount() and componentDidUpdate() after a render, in a tree that
\* is visible or becomes so.
Commit ==
  /\ phase # "gone" /\ work # None
  /\ phase' = "mounted"
  /\ Show
  /\ CommitSubscriptions
  /\ settled' = TRUE
  /\ UNCHANGED <<storeVars, snapshot>>

\* A commit in a tree that stays hidden calls neither.
CommitHidden ==
  /\ phase \in {"new", "hidden"} /\ work # None
  /\ phase' = "hidden"
  /\ Show
  /\ attempt' = [attempt EXCEPT !.onScreen = TRUE]
  /\ settled' = FALSE
  /\ UNCHANGED <<storeVars, slotVars, updating, snapshot>>

\* componentWillUnmount() of a tree that is hidden, or replayed by StrictMode.
Hide ==
  /\ phase = "mounted" /\ work = None
  /\ phase' = "hidden"
  /\ ReleaseSubscriptions
  /\ UNCHANGED <<storeVars, updating, work, shown, attempt, snapshot, settled>>

\* componentDidMount() without a render.
Reveal ==
  /\ phase = "hidden" /\ work = None
  /\ phase' = "mounted"
  /\ CommitSubscriptions
  /\ settled' = IF Fresh THEN attempt.onScreen ELSE settled
  /\ UNCHANGED <<storeVars, work, shown, snapshot>>

\* The last componentWillUnmount().
Unmount ==
  /\ phase \in {"mounted", "hidden"}
  /\ phase' = "gone"
  /\ work' = None
  /\ ReleaseSubscriptions
  /\ UNCHANGED <<storeVars, updating, shown, attempt, snapshot, settled>>

ComponentInit ==
  /\ data = [s \in Stores |-> [p \in Places |-> 0]]
  /\ version = [s \in Stores |-> 0]
  /\ lastWrite = [s \in Stores |-> [p \in Places |-> 0]]
  /\ unpublished = [s \in Stores |-> {}]
  /\ registered = [r \in Registrations |-> {}]
  /\ queued = {}
  /\ phase = "new" /\ updating = FALSE /\ work = None
  /\ shown = [props |-> None, output |-> <<>>]
  /\ attempt = NoAttempt
  /\ committed = <<>> /\ installed = <<>>
  /\ snapshot = None
  /\ settled = FALSE

ComponentNext ==
  \/ \E s \in Stores : Publish(s) \/ (\E p \in Places : Mutate(s, p)) \/ (\E uid \in Uids : RunQueued(s, uid))
  \/ \E p \in Props : Render(p) \/ RenderThrows(p)
  \/ Discard \/ Commit \/ CommitHidden \/ Hide \/ Reveal \/ Unmount

ComponentSpec == ComponentInit /\ [][ComponentNext]_componentVars

-----------------------------------------------------------------------------
(***************************************************************************)
(* Properties.                                                             *)
(***************************************************************************)
\* The store still has to call the component.
Owes(s) == \E uid \in Uids : <<s, uid>> \in queued \/ unpublished[s] \cap registered[<<s, uid>>] # {}

(***************************************************************************)
(* What is on the screen is what a render would give now, or another       *)
(* render is due, or the store still has to call: no write is missed       *)
(* between render and commit, while the tree is hidden, or because the     *)
(* selection was found unmoved when it was called (Subscriptions.tsx,      *)
(* commitSubscriptions; Reads.tsx, selectionUnchanged).                    *)
(***************************************************************************)
ScreenIsCurrent ==
  phase = "mounted" /\ settled =>
    \/ shown.output = Output(shown.props)
    \/ updating \/ (work # None /\ work.took)
    \/ Owes(Source[shown.props])

(***************************************************************************)
(* The component is registered for what the render on the screen reads,    *)
(* and nowhere else: not at the store of earlier props, nor for what was   *)
(* only read by a render that was thrown away, nor while it is hidden or   *)
(* after it is gone.                                                       *)
(***************************************************************************)
HeldForTheScreen ==
  (phase = "mounted" => settled) =>
    \A s \in Stores, uid \in Uids :
      registered[<<s, uid>>] # {} <=> phase = "mounted" /\ Source[shown.props] = s /\ uid \in Uses[shown.props]

(***************************************************************************)
(* "A replay restores the last committed description instead of being      *)
(* mistaken for an empty render": a tree that was committed, hidden and    *)
(* shown again has the descriptions it had (Subscriptions.tsx,             *)
(* commitSubscriptions).                                                   *)
(***************************************************************************)
ReplayRestores ==
  [][Reveal /\ settled => UNCHANGED committed]_componentVars
=============================================================================
