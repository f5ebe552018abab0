------------------------------- MODULE Computed -------------------------------
(***************************************************************************)
(* Derived values on top of the stores.                                    *)
(*                                                                         *)
(* A Computed caches what its body returned.  While somebody observes it,  *)
(* it holds one subscription, an edge, per store its body read.  A write   *)
(* that concerns an edge makes it stale; when the outermost notification   *)
(* pass closes, the wave (UpdateWave) settles what became stale: the body  *)
(* runs again, and the observers are woken if the value is not the one     *)
(* announced before.  get() may be called at any time and must never hand  *)
(* out a value the stores have moved away from: the cache remembers the    *)
(* version of each store it read and asks it for drift.                    *)
(*                                                                         *)
(* The edges are subscriptions of Carburetor, and the call stack has two   *)
(* more kinds of frame:                                                    *)
(*   - "drain"   is UpdateWave.end between two settlements;                *)
(*   - "deliver" is Computed.deliver between two observers.                *)
(* A body reads its gate, and then other places depending on it; its value *)
(* says which of them are on.  Bodies are atomic, and read stores only.    *)
(* Left out: results that are live views of the state, the caller's        *)
(* equality, computeds read by computeds, and the snapshot revision kept   *)
(* for components.  The history variables of Carburetor (seen, since) are  *)
(* not kept for edges.                                                     *)
(***************************************************************************)
EXTENDS Carburetor, FiniteSets

CONSTANTS
  Computeds,
  Observers,
  Gate,           (* The place each body always reads.                     *)
  Then, Else,     (* The places it reads as well while its gate is on, and *)
                  (* while it is off.                                      *)
  Failing,        (* The bodies that throw when the gate is on and none of *)
                  (* the other places is.                                  *)
  MaxObserve,     (* Bound: calls of Computed.subscribe.                   *)
  MaxWrites       (* Bound: draft mutations.                               *)

Places == Stores \X Paths
Edges == Computeds \X Stores
Plain == Subscribers \ Edges

ASSUME ComputedAssumption ==
  /\ Edges \subseteq Subscribers
  /\ \A e \in Edges : Home[e] = e[2]
  /\ \A p \in Paths : <<p, p>> \in Overlaps
  /\ Gate \in [Computeds -> Places]
  /\ Then \in [Computeds -> SUBSET Places]
  /\ Else \in [Computeds -> SUBSET Places]
  /\ Failing \subseteq Computeds
  /\ Cardinality(Stores) <= 2
  /\ {MaxObserve, MaxWrites} \subseteq Nat

VARIABLES
  data,           (* The state: which places are on, published or not.     *)
  cell,           (* The fields of each computed.                          *)
  wave,           (* UpdateWave.pending: the settlements deferred.         *)
  observations,   (* Calls of Computed.subscribe so far.                   *)
  mutations       (* Draft mutations so far.                               *)

computedVars == <<data, cell, wave, observations, mutations>>
allVars == <<vars, computedVars>>

NoLeaf == [at |-> 0, reads |-> {}]
Unannounced == [value |-> {}, versions |-> [s \in Stores |-> NoLeaf]]

\* The fields of a computed.  A leaf without reads is none; checked says that
\* validatedEpoch is the current epoch; proven are the stores whose leaves
\* leafWatermarks vouches for at their present versions.
Untouched ==
  [valid |-> FALSE, value |-> {}, versions |-> [s \in Stores |-> NoLeaf],
   checked |-> TRUE, proven |-> {}, announced |-> Unannounced, observers |-> {}]

\* A settlement in the wave is of a computed, and live if it still belongs to
\* the observation that queued it.  Two kinds of frame are added: "drain" has
\* settlements to do, "deliver" a computed and the observers to wake.
ComputedInit ==
  /\ Init
  /\ data = [s \in Stores |-> [p \in Paths |-> FALSE]]
  /\ cell = [c \in Computeds |-> Untouched]
  /\ wave = <<>>
  /\ observations = 0
  /\ mutations = 0

-----------------------------------------------------------------------------
(***************************************************************************)
(* The body, on the state as it is now.                                    *)
(***************************************************************************)
On(l) == data[l[1]][l[2]]
BodyReads(c) == {Gate[c]} \cup IF On(Gate[c]) THEN Then[c] ELSE Else[c]
BodyValue(c) == {l \in BodyReads(c) : On(l)}
BodyFails(c) == c \in Failing /\ On(Gate[c]) /\ \A l \in Then[c] : ~On(l)

\* Its dependencies: the paths read, per store.
Collected(c) == [s \in Stores |-> {r \in Paths : <<s, r>> \in BodyReads(c)}]

\* recordVersions: every leaf at its store's present version.
Captured(deps) ==
  [s \in Stores |-> IF deps[s] = {} THEN NoLeaf ELSE [at |-> version[s], reads |-> deps[s]]]

Leaves(versions) == {s \in Stores : versions[s].reads # {}}

(***************************************************************************)
(* Is the cache stale?  A leaf whose store moved is asked for drift, by    *)
(* the read set its edge filed, or through the write log when there is     *)
(* none.  A store that said no is not asked again before it moves again,   *)
(* and nothing is asked again before any store publishes.                  *)
(***************************************************************************)
Moved(c) == {s \in Leaves(cell[c].versions) : version[s] # cell[c].versions[s].at}

LeafDrifted(c, s) ==
  LET leaf == cell[c].versions[s] IN
  IF <<c, s>> \in registered THEN HasDrift(<<c, s>>, leaf.at)
                             ELSE LogMatches(s, leaf.at, leaf.reads)

DriftedLeaves(c) == {s \in Moved(c) \ cell[c].proven : LeafDrifted(c, s)}

HasDrifted(c) == ~cell[c].checked /\ DriftedLeaves(c) # {}

Stale(c) == ~cell[c].valid \/ HasDrifted(c)

\* The leaves are asked in the order the body read them, the gate's first,
\* and the first one that drifted ends the questions.
ProvenNow(c) ==
  IF DriftedLeaves(c) = {} THEN cell[c].proven \cup Moved(c)
                           ELSE cell[c].proven \cup ((Moved(c) \cap {Gate[c][1]}) \ DriftedLeaves(c))

\* The fields after isStale(): what hasDrifted() remembers of its answer.
Asked(c) ==
  IF ~cell[c].valid \/ cell[c].checked THEN cell[c]
  ELSE [cell[c] EXCEPT !.checked = DriftedLeaves(c) = {}, !.proven = ProvenNow(c)]

\* The fields after recompute() with a body that returned.
Recomputed(c) ==
  [cell[c] EXCEPT !.valid = TRUE, !.value = BodyValue(c), !.versions = Captured(Collected(c)),
                  !.checked = TRUE, !.proven = {}]

\* driftedSince: has any leaf of the announcement moved, or is there a leaf
\* the announcement did not have?
AnnouncementMoved(c) ==
  LET told == cell[c].announced.versions IN
  \/ \E s \in Leaves(told) : version[s] # told[s].at
  \/ ~(Leaves(cell[c].versions) \subseteq Leaves(told))

(***************************************************************************)
(* attachDependencies, for an observed computed: an edge per store read.   *)
(* A new edge is a new registration, an edge with other reads keeps its    *)
(* registration, an edge with the same reads is left alone, and an edge    *)
(* the body no longer needs is dropped.                                    *)
(***************************************************************************)
\* A wrong variant: a retained registration keeps the paths it was filed under.
EdgeRecordUnfiled(e, reads) ==
  IF reads = {} THEN NoRecord
  ELSE IF e \in registered THEN record[e]
  ELSE [generation |-> counter[e[2]] + 1, matched |-> 0, growth |-> version[e[2]],
        reads |-> reads]

EdgeRecord(e, reads) ==
  LET s == e[2] IN
  IF reads = {} THEN NoRecord
  ELSE IF e \notin registered
    THEN [generation |-> counter[s] + 1, matched |-> 0, growth |-> version[s], reads |-> reads]
  ELSE IF record[e].reads # reads
    THEN [record[e] EXCEPT !.growth = version[s], !.reads = reads]
  ELSE record[e]

EdgesOf(c) == {<<c, s>> : s \in Stores}

AttachEdges(c, deps) ==
  LET wanted == {<<c, s>> : s \in {t \in Stores : deps[t] # {}}} IN
  /\ counter' = [s \in Stores |->
                   IF <<c, s>> \in wanted \ registered THEN counter[s] + 1 ELSE counter[s]]
  /\ registered' = (registered \ EdgesOf(c)) \cup wanted
  /\ record' = [i \in Subscribers |->
                  IF i \in EdgesOf(c) THEN EdgeRecord(i, deps[i[2]]) ELSE record[i]]

EdgesUnchanged == UNCHANGED <<counter, registered, record>>

\* The queued call of an edge goes with the edge.
Retracted(queued) ==
  [i \in Subscribers |-> IF i \in Edges \ registered' THEN 0 ELSE queued[i]]

\* releaseDependencies.
ReleaseEdges(c) == AttachEdges(c, [s \in Stores |-> {}])

\* recompute() where somebody observes c, and where nobody does.
AttachIfObserved(c, observers, deps) ==
  IF observers = {} THEN EdgesUnchanged ELSE AttachEdges(c, deps)

(***************************************************************************)
(* The wave, and the frames above it.                                      *)
(***************************************************************************)

\* A wrong variant: the wave holds one settlement.
DeferLast(c) == <<[comp |-> c, live |-> TRUE]>>

\* UpdateWave.defer: a settlement that waits already keeps its place.
Defer(c) ==
  LET again == {k \in 1..Len(wave) : wave[k].comp = c} IN
  IF again = {} THEN Append(wave, [comp |-> c, live |-> TRUE])
  ELSE [k \in 1..Len(wave) |-> IF k \in again THEN [comp |-> c, live |-> TRUE] ELSE wave[k]]

\* What an ended observation queued is never run.
Dead(queue, c) ==
  [k \in 1..Len(queue) |-> IF queue[k].comp = c THEN [queue[k] EXCEPT !.live = FALSE]
                                               ELSE queue[k]]

DeadInStack(c) ==
  [k \in 1..Len(stack) |-> IF stack[k].kind = "drain"
                             THEN [stack[k] EXCEPT !.todo = Dead(@, c)] ELSE stack[k]]

\* Observer o of c was dropped or registered again: a delivery that is under
\* way skips it.
Skipped(frames, c, o) ==
  [k \in 1..Len(frames) |-> IF frames[k].kind = "deliver" /\ frames[k].comp = c
                              THEN [frames[k] EXCEPT !.todo = @ \ {o}] ELSE frames[k]]

DeliverTo(c) == [kind |-> "deliver", comp |-> c, todo |-> cell[c].observers]

(***************************************************************************)
(* Computed.settle on top of frames, with fields k: the body runs again if *)
(* the cache is stale, and the observers are woken if the value is not the *)
(* one announced.  A body that throws wakes them as well, and announces    *)
(* nothing.                                                                *)
(***************************************************************************)
Announced(k) == [k EXCEPT !.announced = [value |-> k.value, versions |-> k.versions]]

\* A wrong variant: the edges are let go before the body runs.
SettleDetached(c, k, frames) ==
  IF Stale(c) /\ BodyFails(c)
    THEN /\ cell' = [cell EXCEPT ![c] = k]
         /\ stack' = Append(frames, DeliverTo(c))
         /\ ReleaseEdges(c)
    ELSE LET settled == IF Stale(c) THEN Recomputed(c) ELSE k IN
         /\ cell' = [cell EXCEPT ![c] = Announced(settled)]
         /\ stack' = IF settled.value = cell[c].announced.value THEN frames
                                                                ELSE Append(frames, DeliverTo(c))
         /\ IF Stale(c) THEN AttachEdges(c, Collected(c)) ELSE EdgesUnchanged

Settle(c, k, frames) ==
  IF Stale(c) /\ BodyFails(c)
    THEN /\ cell' = [cell EXCEPT ![c] = k]
         /\ stack' = Append(frames, DeliverTo(c))
         /\ EdgesUnchanged
    ELSE LET settled == IF Stale(c) THEN Recomputed(c) ELSE k IN
         /\ cell' = [cell EXCEPT ![c] = Announced(settled)]
         /\ stack' = IF settled.value = cell[c].announced.value THEN frames
                                                                ELSE Append(frames, DeliverTo(c))
         /\ IF Stale(c) THEN AttachEdges(c, Collected(c)) ELSE EdgesUnchanged

\* onDependencyChanged: the fields after it, and whether it owes a settlement.
\* A cache that a get() refreshed in the meantime still owes one, as long as
\* the announcement is older; a variant forgets that.
Marked(c) == IF Stale(c) THEN [Asked(c) EXCEPT !.valid = FALSE] ELSE Asked(c)
OwesWhenStale(c) == Stale(c)
OwesSettlement(c) == Stale(c) \/ AnnouncementMoved(c)

-----------------------------------------------------------------------------
(***************************************************************************)
(* The operations of the stores, with what they do to the computeds.       *)
(***************************************************************************)
Write(s, W) ==
  /\ mutations < MaxWrites
  /\ mutations' = mutations + 1
  /\ DraftWrite(s, W)
  /\ data' = [data EXCEPT ![s] = [p \in Paths |-> IF p \in W THEN ~@[p] ELSE @[p]]]
  /\ UNCHANGED <<cell, wave, observations>>

\* Wrong variants: a batched publication leaves the epoch alone; the proofs
\* for a store outlive its version.
PublishUnstamped(s) ==
  /\ EmitUpdate(s)
  /\ cell' = IF version' = version \/ IsActive THEN cell
             ELSE [c \in Computeds |-> [cell[c] EXCEPT !.checked = FALSE, !.proven = @ \ {s}]]
  /\ UNCHANGED <<data, wave, observations, mutations>>

\* A publication moves the shared write epoch and the store's version.
Publish(s) ==
  /\ EmitUpdate(s)
  /\ cell' = IF version' = version THEN cell
             ELSE [c \in Computeds |-> [cell[c] EXCEPT !.checked = FALSE, !.proven = @ \ {s}]]
  /\ UNCHANGED <<data, wave, observations, mutations>>

StoreStep ==
  /\ \/ BeginTransaction
     \/ EndTransaction
     \/ Return
     \/ TakeBatch
     \/ \E s \in Stores : NotifyBatched(s)
     \/ StartTask
     \/ \E i \in Plain : \/ Deliver(i)
                         \/ \E R \in ReadSets : i \notin registered /\ Subscribe(i, R)
  /\ UNCHANGED computedVars

-----------------------------------------------------------------------------
(***************************************************************************)
(* Application code.                                                       *)
(***************************************************************************)

\* get(): the value, after the body ran if the cache cannot be trusted.  A
\* body that throws leaves the cache as it was.
Get(c) ==
  /\ Running("call")
  /\ IF Stale(c) /\ ~BodyFails(c)
       THEN /\ cell' = [cell EXCEPT ![c] = Recomputed(c)]
            /\ AttachIfObserved(c, cell[c].observers, Collected(c))
       ELSE /\ cell' = [cell EXCEPT ![c] = Asked(c)]
            /\ EdgesUnchanged
  /\ scheduled' = Retracted(scheduled)
  /\ UNCHANGED <<storeVars, since, depth, pending, microtasks, stack, seen, data, wave,
                 observations, mutations>>

\* subscribe(): the first observer makes sure of the value, holds on to the
\* edges and sets the announcement; a body that throws undoes all of it.
First(c) == cell[c].observers = {}
MustRun(c) == ~cell[c].valid \/ (First(c) /\ HasDrifted(c))

\* The dependencies of the value kept.
Kept(c) == [s \in Stores |-> cell[c].versions[s].reads]

Joined(c, o) ==
  LET fresh == IF MustRun(c) THEN Recomputed(c)
               ELSE IF First(c) THEN [cell[c] EXCEPT !.versions = Captured(Kept(c)),
                                                     !.checked = TRUE, !.proven = {}]
               ELSE cell[c]
      told == IF First(c) THEN Announced(fresh) ELSE fresh
  IN [told EXCEPT !.observers = @ \cup {o}]

Observe(c, o) ==
  /\ Running("call")
  /\ observations < MaxObserve
  /\ observations' = observations + 1
  /\ IF MustRun(c) /\ BodyFails(c)
       THEN /\ cell' = [cell EXCEPT ![c] = [(IF First(c) THEN Asked(c) ELSE @) EXCEPT !.valid = FALSE]]
            /\ EdgesUnchanged
            /\ UNCHANGED stack
       ELSE /\ cell' = [cell EXCEPT ![c] = Joined(c, o)]
            /\ stack' = Skipped(stack, c, o)
            /\ IF MustRun(c) THEN AttachEdges(c, Collected(c))
               ELSE IF First(c) THEN AttachEdges(c, Kept(c)) ELSE EdgesUnchanged
  /\ scheduled' = Retracted(scheduled)
  /\ UNCHANGED <<storeVars, since, depth, pending, microtasks, seen, data, wave,
                 mutations>>

\* unsubscribe(): the last observer takes the edges, the announcement and
\* what is queued with it.
Unobserve(c, o) ==
  /\ Running("call")
  /\ o \in cell[c].observers
  /\ IF cell[c].observers = {o}
       THEN /\ cell' = [cell EXCEPT ![c].observers = {}, ![c].valid = FALSE,
                                    ![c].announced = Unannounced]
            /\ stack' = Skipped(DeadInStack(c), c, o)
            /\ wave' = Dead(wave, c)
            /\ ReleaseEdges(c)
       ELSE /\ cell' = [cell EXCEPT ![c].observers = @ \ {o}]
            /\ stack' = Skipped(stack, c, o)
            /\ UNCHANGED wave
            /\ EdgesUnchanged
  /\ scheduled' = Retracted(scheduled)
  /\ UNCHANGED <<storeVars, since, depth, pending, microtasks, seen, data, observations,
                 mutations>>

-----------------------------------------------------------------------------
(***************************************************************************)
(* The engine.                                                             *)
(***************************************************************************)

\* A pass reaches the edge of c: the settlement it owes waits for the wave.
\* A store that defers queues the call instead.
DeliverEdge(c) ==
  /\ Running("notify")
  /\ Top.told
  /\ LET e == <<c, Top.store>>
         rest == Retop([Top EXCEPT !.todo = @ \ {e}])
     IN
     /\ e \in Top.todo
     /\ stack' = rest
     /\ \/ /\ ~StillSelected(e)
           /\ UNCHANGED <<cell, wave, scheduled>>
        \/ /\ StillSelected(e)
           /\ Top.store \in Deferred
           /\ scheduled' = [scheduled EXCEPT ![e] = record[e].generation]
           /\ UNCHANGED <<cell, wave>>
        \/ /\ StillSelected(e)
           /\ Top.store \notin Deferred
           /\ cell' = [cell EXCEPT ![c] = Marked(c)]
           /\ wave' = IF OwesSettlement(c) THEN Defer(c) ELSE wave
           /\ UNCHANGED scheduled
  /\ UNCHANGED <<storeVars, subscriptionVars, depth, pending, microtasks, seen, data,
                 observations, mutations>>

\* The queued call of an edge: there is no wave, and it settles at once.
RunEdge(c, s) ==
  /\ stack = <<>>
  /\ scheduled[<<c, s>>] # 0
  /\ IF OwesSettlement(c)
       THEN Settle(c, Marked(c), stack)
       ELSE /\ cell' = [cell EXCEPT ![c] = Marked(c)]
            /\ EdgesUnchanged
            /\ UNCHANGED stack
  /\ scheduled' = Retracted([scheduled EXCEPT ![<<c, s>>] = 0])
  /\ UNCHANGED <<storeVars, since, depth, pending, microtasks, seen, data, wave, observations,
                 mutations>>

\* A notification pass or a flush has nothing left to do.  The outermost one
\* drains the wave as it ends; a flush then looks at the batch once more.
PassDone ==
  \/ Running("notify") /\ Top.told /\ Top.todo = {}
  \/ Running("flush") /\ Top.batch = NoBatch /\ pending = NoBatch

InWave == \E k \in 1..Len(stack) - 1 : stack[k].kind \in {"notify", "flush", "drain"}

EndPass ==
  /\ PassDone
  /\ IF InWave \/ wave = <<>>
       THEN stack' = Below /\ UNCHANGED wave
       ELSE /\ stack' = Append(IF Top.kind = "flush" THEN stack ELSE Below,
                               [kind |-> "drain", todo |-> wave])
            /\ wave' = <<>>
  /\ UNCHANGED <<storeVars, subscriptionVars, scheduled, depth, pending, microtasks, seen, data,
                 cell, observations, mutations>>

SettleNext ==
  /\ Running("drain")
  /\ Top.todo # <<>>
  /\ LET next == Head(Top.todo)
         rest == Retop([Top EXCEPT !.todo = Tail(@)])
     IN IF next.live THEN Settle(next.comp, Asked(next.comp), rest)
                     ELSE stack' = rest /\ UNCHANGED cell /\ EdgesUnchanged
  /\ scheduled' = Retracted(scheduled)
  /\ UNCHANGED <<storeVars, since, depth, pending, microtasks, seen, data, wave, observations,
                 mutations>>

\* A wrong variant: one round is drained.
EndDrainEarly ==
  /\ Running("drain")
  /\ Top.todo = <<>>
  /\ stack' = Below
  /\ UNCHANGED <<storeVars, subscriptionVars, scheduled, depth, pending, microtasks, seen,
                 computedVars>>

\* What the settlements deferred is drained as well.
EndDrain ==
  /\ Running("drain")
  /\ Top.todo = <<>>
  /\ stack' = IF wave = <<>> THEN Below ELSE Retop([Top EXCEPT !.todo = wave])
  /\ wave' = <<>>
  /\ UNCHANGED <<storeVars, subscriptionVars, scheduled, depth, pending, microtasks, seen, data,
                 cell, observations, mutations>>

WakeObserver(o) ==
  /\ Running("deliver")
  /\ o \in Top.todo
  /\ stack' = Append(Retop([Top EXCEPT !.todo = @ \ {o}]), Call(NoOne))
  /\ UNCHANGED <<storeVars, subscriptionVars, scheduled, depth, pending, microtasks, seen,
                 computedVars>>

EndDeliver ==
  /\ Running("deliver")
  /\ Top.todo = {}
  /\ stack' = Below
  /\ UNCHANGED <<storeVars, subscriptionVars, scheduled, depth, pending, microtasks, seen,
                 computedVars>>

ComputedNext ==
  \/ \E s \in Stores : Publish(s) \/ \E W \in WriteSets : Write(s, W)
  \/ StoreStep
  \/ \E c \in Computeds : \/ Get(c)
                          \/ \E o \in Observers : Observe(c, o) \/ Unobserve(c, o)
                          \/ DeliverEdge(c)
                          \/ \E s \in Stores : RunEdge(c, s)
  \/ EndPass
  \/ SettleNext
  \/ EndDrain
  \/ \E o \in Observers : WakeObserver(o)
  \/ EndDeliver

ComputedSpec == ComputedInit /\ [][ComputedNext]_allVars

-----------------------------------------------------------------------------
(***************************************************************************)
(* What get() would hand out from the cache without running the body is    *)
(* what the body would return, unless a place it reads was written and not *)
(* published yet.                                                          *)
(***************************************************************************)
ReadsUnpublished(c) == \E s \in Stores : Concerns(writes[s], cell[c].versions[s].reads)

TrustedIsCurrent ==
  \A c \in Computeds :
    ~Stale(c) /\ ~ReadsUnpublished(c) => ~BodyFails(c) /\ cell[c].value = BodyValue(c)

(***************************************************************************)
(* Once everything has run, what the observers were told last is the value *)
(* of the body, whichever of get(), settlement, re-registration and nested *)
(* write ran the body in between.                                          *)
(***************************************************************************)
Quiet ==
  /\ stack = <<>>
  /\ \A s \in Stores : writes[s] = {}
  /\ \A i \in Subscribers : scheduled[i] = 0

AnnouncedCatchesUp ==
  Quiet => \A c \in Computeds :
    cell[c].observers # {} /\ ~BodyFails(c) => cell[c].announced.value = BodyValue(c)

(***************************************************************************)
(* An observed computed holds exactly the edges its value depends on, with *)
(* the same paths; without observers it holds none.                        *)
(***************************************************************************)
EdgesMatchReads ==
  \A c \in Computeds, s \in Stores :
    LET e == <<c, s>> IN
    IF cell[c].observers = {} THEN e \notin registered
    ELSE record[e].reads = cell[c].versions[s].reads /\ (e \in registered <=> record[e].reads # {})

(***************************************************************************)
(* A settlement never waits without a pass to drain it.                    *)
(***************************************************************************)
NothingLeftInWave ==
  wave # <<>> => \E k \in 1..Len(stack) : stack[k].kind \in {"notify", "flush", "drain"}

=============================================================================
