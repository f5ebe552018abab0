-------------------------------- MODULE History --------------------------------
(***************************************************************************)
(* CarburetorHistory: undo and redo over a store, and what the store does  *)
(* for it: the fact of each publication (who changed the state, and how),  *)
(* the patches of the writes, and the registry that brings both to every   *)
(* history, at once or through a deferring scheduler that coalesces facts. *)
(*                                                                         *)
(* A state is a function from places to values.  A change the proxies can  *)
(* describe is a sequence of patches; any other one (a raw write, a native *)
(* value, a locked array, an order of keys) is opaque.  Writes are those   *)
(* of update(): they are published when they are made.                     *)
(*                                                                         *)
(* The histories hear of a publication before any subscriber does, and     *)
(* nothing but the return is left for the store and the history to do      *)
(* after the subscribers: what a callback does is what the application     *)
(* does next, and no call stack is needed.                                 *)
(***************************************************************************)
EXTENDS Naturals, Sequences, FiniteSets, SequencesExt

CONSTANTS
  Histories,     (* Histories of the one store.                            *)
  Places, Values,
  Initial,       (* The state at first.                                    *)
  Roots,         (* States the application installs.                       *)
  Unseen,        (* Places it also writes without the draft.               *)
  Policies,      (* The stores the application may choose.                 *)
  MayRefuse,     (* May a replay be refused (a restore() that throws)?     *)
  Limit,         (* `limit`: entries that can be undone.                   *)
  MaxEffort      (* Bound: calls of the application, and histories.        *)

ASSUME HistoryAssumption ==
  /\ Limit \in Nat \ {0}
  /\ Roots \cup {Initial} \subseteq [Places -> Values]
  /\ IsFiniteSet(Places)
  /\ Unseen \subseteq Places
  /\ MayRefuse \in BOOLEAN
  /\ MaxEffort \in Nat
  /\ Policies \subseteq [deferring : BOOLEAN, overridden : BOOLEAN]

VARIABLES
  policy,        (* Does the scheduler defer?  Is restore() overridden?    *)
  data,          (* The state.                                             *)
  publication,   (* `pendingPublication`, NoFact if none is pending.       *)
  transaction,   (* Is a transaction open?                                 *)
  batched,       (* Has the batch writes of the store?                     *)
  histories,     (* The fields of each history.                            *)
  queued,        (* `publicationFact` of each registration.                *)
  effort,        (* Calls of the application so far.                       *)
  blurred        (* Histories that took a raw write for their own replay.  *)

vars == <<policy, data, publication, transaction, batched, histories, queued, effort, blurred>>

States == [Places -> Values]
Origins == {"mutation", "installed", "mixed", "replay", "none"}

\* A fact: `installed` is a public replacement or restore, `replay` a restore
\* owned by the call-th replay of the history `by`.
Fact(origin) == [origin |-> origin, by |-> {}, call |-> 0]
NoFact == Fact("none")
Mutation == Fact("mutation")
Installed == Fact("installed")
Mixed == Fact("mixed")
ReplayFact(h, n) == [origin |-> "replay", by |-> {h}, call |-> n]

\* A wrong variant: the first fact stands for all.
JoinedFirst(old, new) == IF old = NoFact THEN new ELSE old

\* rememberPublication(), and the coalescing of queuePublication().
Joined(old, new) ==
  IF old = NoFact THEN new
  ELSE IF old = Mutation /\ new = Mutation THEN Mutation
  ELSE Mixed

-----------------------------------------------------------------------------
(***************************************************************************)
(* Patches.                                                                *)
(***************************************************************************)
Patch(p, s, v) == [place |-> p, previous |-> s[p], next |-> v]

\* The patches that take the patches back: in reverse order, and each installs
\* what it found.
Inverted(patches) ==
  [i \in DOMAIN patches |->
     LET patch == patches[Len(patches) + 1 - i]
     IN  [place |-> patch.place, previous |-> patch.next, next |-> patch.previous]]

Directed(patches, inverse) == IF inverse THEN Inverted(patches) ELSE patches

\* The state s with the patches installed in their order: the last one at a
\* place says what is there.
Patched(s, patches) ==
  [p \in Places |->
     LET at == {i \in DOMAIN patches : patches[i].place = p}
     IN  IF at = {} THEN s[p] ELSE patches[Max(at)].next]

\* The writes that bring s to t, one for each place that differs.
Diff(s, t) ==
  LET differ == {p \in Places : s[p] # t[p]}
  IN  [i \in DOMAIN SetToSeq(differ) |-> Patch(SetToSeq(differ)[i], s, t[SetToSeq(differ)[i]])]

\* The writes that installing the patches on s makes: those that change it.
Writes(s, patches) ==
  LET made[i \in 0..Len(patches)] ==
        IF i = 0 THEN <<>>
        ELSE LET before == made[i - 1]
                 write == Patch(patches[i].place, Patched(s, before), patches[i].next)
             IN  IF write.next = write.previous THEN before ELSE Append(before, write)
  IN  made[Len(patches)]

PlacesOf(patches) == {patches[i].place : i \in DOMAIN patches}
AgreeOn(places, s, t) == \A p \in places : s[p] = t[p]

-----------------------------------------------------------------------------
(***************************************************************************)
(* One history H: its fields, and what a publication does to them.         *)
(***************************************************************************)
Fresh(s, attached) ==
  [attached |-> attached, past |-> <<>>, future |-> <<>>, baseline |-> s, patches |-> <<>>, opaque |-> FALSE,
   owner |-> 0, attempts |-> <<>>, calls |-> 0]

HasPending(H) == H.opaque \/ H.patches # <<>>
WithoutPending(H) == [H EXCEPT !.patches = <<>>, !.opaque = FALSE]
AttemptOf(H) == H.owner # 0 /\ H.owner \in DOMAIN H.attempts
WithoutAttempt(H, n) == [H EXCEPT !.attempts = [m \in DOMAIN @ \ {n} |-> @[m]]]

\* onPatch(): patches are not collected while a replay of the draft is pending.
Collects(H, patches) ==
  IF AttemptOf(H) THEN [H EXCEPT !.attempts[H.owner].started = @ \/ patches # <<>>]
  ELSE IF H.opaque THEN H
  ELSE [H EXCEPT !.patches = @ \o patches]

CollectsOpaque(H) == IF AttemptOf(H) THEN H ELSE [H EXCEPT !.opaque = TRUE, !.patches = <<>>]

\* attempt.reconcile(): the baseline, if it is not what the patches left there.
Checked(H, n, live) ==
  IF AgreeOn(H.attempts[n].places, H.baseline, live) THEN H ELSE [H EXCEPT !.baseline = live]

\* record() of a replay of its own.
OwnReplay(H, n, live) ==
  LET reconciled == IF n \in DOMAIN H.attempts THEN WithoutAttempt(Checked(H, n, live), n)
                    ELSE [H EXCEPT !.baseline = live]
  IN  WithoutPending([reconciled EXCEPT !.owner = IF @ = n THEN 0 ELSE @])

\* record(): the replay that is pending ends with another publication.
Interrupted(H, fact, live) ==
  IF H.owner = 0 THEN H
  ELSE LET n == H.owner
           checked == IF AttemptOf(H) /\ ~H.attempts[n].started THEN Checked(H, n, live) ELSE H
       IN  [WithoutAttempt(checked, n) EXCEPT !.owner = 0, !.opaque = @ \/ fact # NoFact]

\* buildEntry(): no patches describe it, or they are those of another history.
NeedsSnapshot(H, fact) == ~HasPending(H) \/ H.opaque \/ fact.origin \in {"mixed", "replay"}

\* A batch of several writes that took back what they did.
Cancelled(H, fact, live) ==
  /\ Len(H.patches) >= 2
  /\ AgreeOn(PlacesOf(H.patches), H.baseline, live)
  /\ fact = Mutation \/ H.baseline = live

\* A wrong variant: what was undone can still be redone.
FiledBeside(H, entry, baseline) ==
  LET past == Append(H.past, entry)
  IN  WithoutPending([H EXCEPT !.past = IF Len(past) > Limit THEN Tail(past) ELSE past,
                               !.baseline = baseline])

Filed(H, entry, baseline) ==
  LET past == Append(H.past, entry)
  IN  WithoutPending([H EXCEPT !.past = IF Len(past) > Limit THEN Tail(past) ELSE past,
                               !.future = <<>>, !.baseline = baseline])

\* buildEntry() and the rest of record().
Commits(H, fact, live) ==
  IF NeedsSnapshot(H, fact) THEN
    IF H.baseline = live THEN WithoutPending(H)
    ELSE Filed(H, [kind |-> "snapshot", before |-> H.baseline, after |-> live, patches |-> <<>>], live)
  ELSE IF Cancelled(H, fact, live) THEN WithoutPending(H)
  ELSE Filed(H, [kind |-> "patches", before |-> <<>>, after |-> <<>>, patches |-> H.patches],
             Patched(H.baseline, H.patches))

Records(h, H, fact, live) ==
  IF fact.origin = "replay" /\ fact.by = {h} THEN OwnReplay(H, fact.call, live)
  ELSE Commits(Interrupted(H, fact, live), fact, live)

-----------------------------------------------------------------------------
(***************************************************************************)
(* Publication.                                                            *)
(***************************************************************************)
Attached(hs) == {h \in Histories : hs[h].attached}

\* CARBURETOR_NOTIFY_WRITES: the histories hear of the publication before the
\* subscribers do.  H are the histories as the writes have left them, s the
\* state, and fact what is pending.
Notify(H, s, fact) ==
  /\ publication' = NoFact
  /\ batched' = FALSE
  /\ IF policy.deferring
       THEN /\ queued' = [h \in Histories |-> IF h \in Attached(H) THEN Joined(queued[h], fact) ELSE queued[h]]
            /\ histories' = H
       ELSE /\ histories' = [h \in Histories |-> IF h \in Attached(H) THEN Records(h, H[h], fact, s) ELSE H[h]]
            /\ UNCHANGED queued

\* emitUpdate() after writes under the fact f: put off to the batch, or told.
Emit(H, s, f) ==
  /\ data' = s
  /\ IF transaction
       THEN /\ publication' = Joined(publication, f)
            /\ batched' = TRUE
            /\ histories' = H
            /\ UNCHANGED queued
       ELSE Notify(H, s, Joined(publication, f))

Told(patches) == [h \in Histories |-> IF histories[h].attached THEN Collects(histories[h], patches) ELSE histories[h]]
ToldOpaque == [h \in Histories |-> IF histories[h].attached THEN CollectsOpaque(histories[h]) ELSE histories[h]]

-----------------------------------------------------------------------------
(***************************************************************************)
(* The application changes the store.                                      *)
(***************************************************************************)
Calls ==
  /\ effort + Cardinality(Attached(histories)) <= MaxEffort
  /\ effort' = effort + 1
  /\ UNCHANGED <<policy, transaction>>

\* update(): a mutation through the draft.
Update(p, v) ==
  /\ Calls
  /\ data[p] # v
  /\ Emit(Told(<<Patch(p, data, v)>>), [data EXCEPT ![p] = v], Mutation)
  /\ UNCHANGED blurred

\* A mutation the draft did not see, and emitUpdate().
RawWrite(p, v) ==
  /\ Calls
  /\ data[p] # v
  /\ Emit(ToldOpaque, [data EXCEPT ![p] = v], Mutation)
  /\ blurred' = blurred \cup {h \in Histories : AttemptOf(histories[h])
                                /\ ~histories[h].attempts[histories[h].owner].started}

\* setData() or restore() of another state.
Install(s) ==
  /\ Calls
  /\ s # data
  /\ Emit(Told(Diff(data, s)), s, Installed)
  /\ UNCHANGED blurred

\* setData() of an equal state publishes nothing, but what is on its way is no
\* longer what it was (markPendingInstall).
InstallEqual ==
  /\ Calls
  /\ publication' = IF publication = NoFact THEN NoFact ELSE Mixed
  /\ queued' = [h \in Histories |-> IF queued[h] = NoFact THEN NoFact ELSE Mixed]
  /\ UNCHANGED <<data, batched, histories, blurred>>

Begin == ~transaction /\ transaction' = TRUE
         /\ UNCHANGED <<policy, data, publication, batched, histories, queued, effort, blurred>>

End ==
  /\ transaction /\ transaction' = FALSE
  /\ IF batched THEN Notify(histories, data, publication)
     ELSE UNCHANGED <<publication, batched, histories, queued>>
  /\ UNCHANGED <<policy, data, effort, blurred>>

\* deliverPublication: the scheduler runs what it was given.
Deliver(h) ==
  /\ ~transaction /\ queued[h] # NoFact
  /\ queued' = [queued EXCEPT ![h] = NoFact]
  /\ histories' = [histories EXCEPT ![h] = Records(h, @, queued[h], data)]
  /\ UNCHANGED <<policy, data, publication, transaction, batched, effort, blurred>>

-----------------------------------------------------------------------------
(***************************************************************************)
(* The application uses a history.                                         *)
(***************************************************************************)
\* A wrong variant: the cursor moves past what was collected.
Unsettled(h) == histories[h]

\* undo() and redo() first commit what was collected.
Settled(h) ==
  IF HasPending(histories[h]) THEN Records(h, histories[h], NoFact, data) ELSE histories[h]

\* What there is to undo, or to redo.
Replayable(H, inverse) == IF inverse THEN H.past ELSE H.future

\* The history, as a new call has taken the entry to the other side of the cursor.
Moved(H, inverse) ==
  LET e == Last(Replayable(H, inverse))
  IN  IF inverse THEN [H EXCEPT !.calls = @ + 1, !.past = Front(@), !.future = Append(@, e)]
      ELSE [H EXCEPT !.calls = @ + 1, !.future = Front(@), !.past = Append(@, e)]

\* A pending publication takes part in what a replay publishes, even if that
\* writes nothing.
JoinedByReplay == IF publication = NoFact THEN NoFact ELSE Mixed

\* applyPatchesEntryOnDraft(): a replay through the draft of a plain store.
\* M is the history with the entry e moved.
ReplayOnDraft(h, M, e, inverse) ==
  LET writes == Writes(data, Directed(e.patches, inverse))
      staged == [M EXCEPT
                   !.owner = M.calls,
                   !.attempts = [n \in DOMAIN @ \cup {M.calls} |->
                                   IF n = M.calls THEN [started |-> writes # <<>>, places |-> PlacesOf(e.patches)]
                                   ELSE @[n]],
                   !.baseline = Patched(@, Directed(e.patches, inverse))]
      told == [Told(writes) EXCEPT ![h] = staged]
  IN  IF writes # <<>> THEN Emit(told, Patched(data, writes), ReplayFact(h, M.calls))
      ELSE /\ histories' = told
           /\ publication' = JoinedByReplay
           /\ UNCHANGED <<data, batched, queued>>

\* The state on the other side of the entry e, from the state s.
Beyond(e, s, inverse) ==
  IF e.kind = "patches" THEN Patched(s, Directed(e.patches, inverse))
  ELSE IF inverse THEN e.before ELSE e.after

\* apply(): a replay through restore().  Its `finally` is part of it: where the
\* subscribers run before that, record() has taken the same baseline.
ReplayByRestore(h, M, e, inverse) ==
  LET s == Beyond(e, M.baseline, inverse)
      told == [Told(Diff(data, s)) EXCEPT ![h] = [M EXCEPT !.owner = M.calls, !.baseline = s]]
  IN  IF s # data THEN Emit(told, s, ReplayFact(h, M.calls))
      ELSE histories' = told /\ UNCHANGED <<data, publication, batched, queued>>

OnDraft(e) == e.kind = "patches" /\ ~policy.overridden

\* undo() and redo().
Replay(h, inverse) ==
  /\ Calls
  /\ histories[h].attached
  /\ LET H == Settled(h)
         e == Last(Replayable(H, inverse))
     IN  /\ Replayable(H, inverse) # <<>>
         /\ IF OnDraft(e) THEN ReplayOnDraft(h, Moved(H, inverse), e, inverse)
            ELSE ReplayByRestore(h, Moved(H, inverse), e, inverse)
  /\ UNCHANGED blurred

\* There is nothing to undo or redo, but what was collected is committed.
ReplayNothing(h) ==
  /\ histories[h].attached
  /\ HasPending(histories[h])
  /\ LET H == Settled(h)
     IN  (H.past = <<>> \/ H.future = <<>>) /\ histories' = [histories EXCEPT ![h] = H]
  /\ UNCHANGED <<policy, data, publication, transaction, batched, queued, effort, blurred>>

\* A replay is refused before its first write: the cursor is put back if the
\* baseline is the state.
Refused(h, inverse) ==
  /\ MayRefuse
  /\ Calls
  /\ histories[h].attached
  /\ LET H == [Settled(h) EXCEPT !.calls = @ + 1]
     IN  /\ Replayable(H, inverse) # <<>>
         /\ IF OnDraft(Last(Replayable(H, inverse)))
              THEN /\ histories' = [histories EXCEPT ![h] = [H EXCEPT !.baseline = data, !.owner = 0]]
                   /\ publication' = JoinedByReplay
              ELSE /\ \E owner \in {0, H.owner} :
                        histories' = [histories EXCEPT ![h] =
                          [(IF H.baseline = data THEN H ELSE Moved(H, inverse)) EXCEPT !.owner = owner]]
                   /\ UNCHANGED publication
         /\ blurred' = IF H.baseline = data THEN blurred ELSE blurred \cup {h}
  /\ UNCHANGED <<data, batched, queued>>

Clear(h) ==
  /\ Calls
  /\ histories[h].attached
  /\ histories' = [histories EXCEPT ![h] =
       WithoutPending([(IF AttemptOf(@) THEN WithoutAttempt(@, @.owner) ELSE @) EXCEPT
         !.past = <<>>, !.future = <<>>, !.baseline = data, !.owner = 0])]
  /\ UNCHANGED <<data, publication, batched, queued, blurred>>

\* The constructor, and disconnect().
Connect(h) ==
  /\ Calls
  /\ histories[h] = Fresh(histories[h].baseline, FALSE)
  /\ histories' = [histories EXCEPT ![h] = Fresh(data, TRUE)]
  /\ UNCHANGED <<data, publication, batched, queued, blurred>>

Disconnect(h) ==
  /\ Calls
  /\ histories[h].attached
  /\ histories' = [histories EXCEPT ![h].attached = FALSE]
  /\ queued' = [queued EXCEPT ![h] = NoFact]
  /\ UNCHANGED <<data, publication, batched, blurred>>

Init ==
  /\ policy \in Policies
  /\ data = Initial
  /\ publication = NoFact /\ transaction = FALSE /\ batched = FALSE
  /\ \E first \in Histories : histories = [h \in Histories |-> Fresh(data, h = first)]
  /\ queued = [h \in Histories |-> NoFact]
  /\ effort = 0
  /\ blurred = {}

Next ==
  \/ \E p \in Places, v \in Values : Update(p, v)
  \/ \E p \in Unseen, v \in Values : RawWrite(p, v)
  \/ \E s \in Roots : Install(s)
  \/ InstallEqual
  \/ Begin \/ End
  \/ \E h \in Histories :
       \/ Deliver(h) \/ ReplayNothing(h) \/ Clear(h) \/ Connect(h) \/ Disconnect(h)
       \/ \E inverse \in BOOLEAN : Replay(h, inverse) \/ Refused(h, inverse)

Spec == Init /\ [][Next]_vars

-----------------------------------------------------------------------------
\* The states a history H can go to, oldest first: its entries lead there from
\* its baseline, in both directions.
StepsOf(H) ==
  LET behind[i \in 1..(Len(H.past) + 1)] ==
        IF i > Len(H.past) THEN H.baseline ELSE Beyond(H.past[i], behind[i + 1], TRUE)
      ahead[i \in 0..Len(H.future)] ==
        IF i = 0 THEN H.baseline ELSE Beyond(H.future[Len(H.future) + 1 - i], ahead[i - 1], FALSE)
  IN  behind \o [i \in 1..Len(H.future) |-> ahead[i]]

Line(h) == INSTANCE Timeline WITH steps <- StepsOf(histories[h]), cursor <- Len(histories[h].past) + 1

(***************************************************************************)
(* Undo and redo move along one line of states.  Whatever the scheduler    *)
(* defers, a transaction coalesces or another history replays meanwhile,   *)
(* what a step of the program does to a history is to commit the state     *)
(* once, to go one state back or forth, or to begin anew: entries (some    *)
(* inverted as patches, some as states) never lead to a state that was not *)
(* a step, and a commit leaves nothing to redo.                            *)
(***************************************************************************)
IsTimeline ==
  /\ \A h \in Histories : Line(h)!TimelineInit
  /\ [][\A h \in Histories : h \in blurred' \/ UNCHANGED Line(h)!timelineVars \/ Line(h)!TimelineNext]_vars

\* The state on the other side of the cursor once h has gone back, or forth.
Across(h, inverse) ==
  LET cursor == Len(histories[h].past) + 1
  IN  StepsOf(histories[h])[IF inverse THEN cursor + 1 ELSE cursor - 1]

(***************************************************************************)
(* A replay can be taken back: the state that undo() or redo() leaves is   *)
(* one step away, and the store shows the step it went to.  The exception  *)
(* is the write made while a replay through the draft is still queued: the *)
(* history does not hear of it (see README, History).                      *)
(***************************************************************************)
ReplaysAreReversible ==
  [][\A h \in Histories, inverse \in BOOLEAN :
       Replay(h, inverse) /\ ~AttemptOf(histories[h]) /\ h \notin blurred =>
         histories'[h].baseline = data' /\ Across(h, inverse)' = data]_vars

(***************************************************************************)
(* What record() takes for granted of the fact that reaches it, however    *)
(* many publications were coalesced on the way: a fact that is this        *)
(* history's own replay stands for nothing else, and where patches make    *)
(* the entry, they are all that happened since the baseline.               *)
(***************************************************************************)
FactHolds(h, fact) ==
  LET H == histories[h]
  IN  IF fact.origin = "replay" /\ fact.by = {h} THEN H.baseline = data
      ELSE H.owner = 0 /\ ~NeedsSnapshot(H, fact) => Patched(H.baseline, H.patches) = data

FactsAreExact ==
  \A h \in Histories \ blurred : histories[h].attached =>
    /\ queued[h] # NoFact /\ ~transaction => FactHolds(h, queued[h])
    /\ publication # NoFact /\ ~policy.deferring => FactHolds(h, publication)

(***************************************************************************)
(* Once its publications are delivered a history has nothing left to       *)
(* commit and its private mirror is the state, so that the next write is   *)
(* the whole of the next step.  (A refused restore() that left the cursor  *)
(* moved may leave the mirror behind as well: see README, History.)        *)
(***************************************************************************)
NothingEscapes ==
  \A h \in Histories \ blurred :
    ~transaction /\ queued[h] = NoFact /\ histories[h].attached =>
      ~HasPending(histories[h]) /\ histories[h].baseline = data
=============================================================================
