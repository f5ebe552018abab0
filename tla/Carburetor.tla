------------------------------ MODULE Carburetor ------------------------------
(***************************************************************************)
(* Publication and delivery in the reactive store.                         *)
(*                                                                         *)
(* A store (Carburetor) is mutated through its draft, publishes the        *)
(* written paths with emitUpdate(), and wakes the subscriptions whose read *)
(* paths intersect them.  transaction() batches the publications of every  *)
(* store until the outermost one closes (UpdateBatch).  Everything runs on *)
(* one thread, but a callback may call any operation of any store while    *)
(* its own delivery is still on the call stack.  The stack is therefore    *)
(* part of the state: a frame of kind                                      *)
(*   - "call"   is application code (a task, a subscriber, an observer);   *)
(*   - "notify" is CARBURETOR_NOTIFY_WRITES between two subscribers;       *)
(*   - "flush"  is UpdateBatch.flush between two stores.                   *)
(* The application is unconstrained: in a call frame it may take any       *)
(* operation, in any order.                                                *)
(*                                                                         *)
(* Left to other modules or abstracted: the data (only the changed paths   *)
(* count), the index that finds the matching subscriptions and the bounded *)
(* write log (here: the complete history of writes), the wave that settles *)
(* computed values, and the publication facts handed to patch observers.   *)
(***************************************************************************)
EXTENDS Naturals, Sequences

CONSTANTS
  Stores,
  Subscribers,    (* Public subscription ids.                              *)
  Home,           (* The store each id is registered at.                   *)
  Paths,          (* Paths into the state.                                 *)
  Wildcard,       (* Reads or writes the whole state.                      *)
  Overlaps,       (* Pairs of paths one of which contains the other.       *)
  Deferred,       (* Stores whose scheduler queues; the others run inline. *)
  Observed,       (* Stores with a patch observer attached.                *)
  ReadSets,       (* The read sets a subscription may be given.            *)
  Extensions,     (* The paths a subscription may be extended by.          *)
  WriteSets,      (* The sets of paths one draft mutation may change.      *)
  Mortal,         (* The stores the application may dispose.               *)
  NoOne,          (* The owner of a call frame that is not a subscriber.   *)
  MaxVersion,     (* Bound: publications per store.                        *)
  MaxGeneration,  (* Bound: registrations per store.                       *)
  MaxStack,       (* Bound: frames on the call stack.                      *)
  MaxDepth,       (* Bound: nested transactions.                           *)
  MaxSoon         (* Bound: queued microtasks.                             *)

AllPaths == Paths \cup {Wildcard}

ASSUME CarburetorAssumption ==
  /\ Home \in [Subscribers -> Stores]
  /\ Overlaps \subseteq Paths \X Paths
  /\ ReadSets \subseteq SUBSET AllPaths
  /\ WriteSets \subseteq SUBSET AllPaths
  /\ Extensions \subseteq AllPaths
  /\ Mortal \subseteq Stores
  /\ NoOne \notin Subscribers
  /\ {MaxVersion, MaxGeneration, MaxStack, MaxDepth, MaxSoon} \subseteq Nat

VARIABLES
  version,     (* Publications so far, per store.                          *)
  notified,    (* notifiedVersion, per store.                              *)
  disposed,
  touched,     (* draftTouched: the draft was handed out since the emit.   *)
  writes,      (* Paths the draft changed since the emit.                  *)
  writeLog,    (* The paths of each publication (complete, see WriteLog).  *)
  counter,     (* subscriptionGeneration, per store.                       *)
  registered,  (* The ids that have a record.                              *)
  record,      (* The record of each id.                                   *)
  scheduled,   (* Generation whose callback waits in the scheduler, or 0.  *)
  depth,       (* Open transactions.                                       *)
  pending,     (* UpdateBatch.pending: writes held back, per store.        *)
  microtasks,  (* Queued emitSoon continuations.                           *)
  stack,       (* The call stack, the running frame last.                  *)
  seen,        (* History: store version when the id was last called.      *)
  since        (* History: version since which the id reads each path.     *)

storeVars == <<version, notified, disposed, touched, writes, writeLog>>
subscriptionVars == <<counter, registered, record, since>>
vars == <<storeVars, subscriptionVars, scheduled, depth, pending, microtasks,
          stack, seen>>

-----------------------------------------------------------------------------
Record == [generation : 0..MaxGeneration,
           matched    : 0..MaxVersion,     (* matchedVersion *)
           growth     : 0..MaxVersion,     (* growthVersion  *)
           reads      : SUBSET AllPaths]

NoRecord == [generation |-> 0, matched |-> 0, growth |-> 0, reads |-> {}]

CallFrame   == [kind : {"call"}, who : Subscribers \cup {NoOne}, opened : Nat]
NotifyFrame == [kind : {"notify"}, store : Stores, generation : 0..MaxGeneration,
                todo : SUBSET Subscribers, told : BOOLEAN]
FlushFrame  == [kind : {"flush"}, batch : [Stores -> SUBSET AllPaths]]
Frame == CallFrame \cup NotifyFrame \cup FlushFrame

Microtask == [store : Stores, at : 0..MaxVersion]

NoBatch == [s \in Stores |-> {}]

TypeOK ==
  /\ version \in [Stores -> 0..MaxVersion]
  /\ notified \in [Stores -> 0..MaxVersion]
  /\ disposed \in [Stores -> BOOLEAN]
  /\ touched \in [Stores -> BOOLEAN]
  /\ writes \in [Stores -> SUBSET AllPaths]
  /\ writeLog \in [Stores -> [1..MaxVersion -> SUBSET AllPaths]]
  /\ counter \in [Stores -> 0..MaxGeneration]
  /\ registered \in SUBSET Subscribers
  /\ record \in [Subscribers -> Record]
  /\ scheduled \in [Subscribers -> 0..MaxGeneration]
  /\ depth \in Nat
  /\ pending \in [Stores -> SUBSET AllPaths]
  /\ microtasks \in Seq(Microtask)
  /\ stack \in Seq(Frame)
  /\ seen \in [Subscribers -> 0..MaxVersion]
  /\ since \in [Subscribers -> [AllPaths -> 0..MaxVersion]]

Init ==
  /\ version = [s \in Stores |-> 0]
  /\ notified = [s \in Stores |-> 0]
  /\ disposed = [s \in Stores |-> FALSE]
  /\ touched = [s \in Stores |-> FALSE]
  /\ writes = [s \in Stores |-> {}]
  /\ writeLog = [s \in Stores |-> [v \in 1..MaxVersion |-> {}]]
  /\ counter = [s \in Stores |-> 0]
  /\ registered = {}
  /\ record = [i \in Subscribers |-> NoRecord]
  /\ scheduled = [i \in Subscribers |-> 0]
  /\ depth = 0
  /\ pending = NoBatch
  /\ microtasks = <<>>
  /\ stack = <<>>
  /\ seen = [i \in Subscribers |-> 0]
  /\ since = [i \in Subscribers |-> [p \in AllPaths |-> 0]]

-----------------------------------------------------------------------------
(***************************************************************************)
(* Paths.                                                                  *)
(***************************************************************************)
Intersects(p, q) == p = Wildcard \/ q = Wildcard \/ <<p, q>> \in Overlaps

\* A set of writes concerns a set of reads.
Concerns(W, R) == \E w \in W, r \in R : Intersects(w, r)

\* SubscriberIndex.match, by what it returns.
Match(s, W) == {i \in registered : Home[i] = s /\ Concerns(W, record[i].reads)}

\* WriteLog.matches on the complete history.
LogMatches(s, baseline, R) ==
  \E v \in 1..MaxVersion :
    baseline < v /\ v <= version[s] /\ Concerns(writeLog[s][v], R)

\* A wrong variant (see README, mutants): the O(1) answer is given although
\* the read set grew after the baseline.
HasDriftUngrown(i, baseline) ==
  IF notified[Home[i]] >= version[Home[i]]
    THEN record[i].matched > baseline
    ELSE LogMatches(Home[i], baseline, record[i].reads)

\* CARBURETOR_HAS_DRIFT for the read set filed by id i.
HasDrift(i, baseline) ==
  LET s == Home[i] IN
  IF baseline >= record[i].growth /\ notified[s] >= version[s]
    THEN record[i].matched > baseline
    ELSE LogMatches(s, baseline, record[i].reads)

(***************************************************************************)
(* The call stack.  Only application code is kept within MaxStack: it may  *)
(* start an operation when the frames that operation needs still fit, and  *)
(* what the engine does next is never held back.                           *)
(***************************************************************************)
Top == stack[Len(stack)]
Running(kind) == Len(stack) > 0 /\ Top.kind = kind
Below == SubSeq(stack, 1, Len(stack) - 1)
Retop(frame) == Append(Below, frame)
Room(n) == Len(stack) + n <= MaxStack

\* UpdateBatch.isActive.
IsActive == depth > 0

\* The scheduler drops what is queued for id i, and a variant that forgets to.
RetractNothing(i) == UNCHANGED scheduled
Retract(i) == scheduled' = [scheduled EXCEPT ![i] = 0]

Call(who) == [kind |-> "call", who |-> who, opened |-> 0]

(***************************************************************************)
(* CARBURETOR_NOTIFY_WRITES up to the first callback: the records the      *)
(* writes concern are marked, and the pass over them starts on top of      *)
(* frames.  A disposed store does nothing.                                 *)
(***************************************************************************)
NotifyWrites(s, W, at, frames) ==
  IF disposed[s]
    THEN /\ stack' = frames
         /\ UNCHANGED <<notified, record>>
    ELSE /\ stack' = Append(frames, [kind |-> "notify", store |-> s,
                                     generation |-> counter[s],
                                     todo |-> Match(s, W), told |-> s \notin Observed])
         /\ notified' = [notified EXCEPT ![s] = IF @ < at THEN at ELSE @]
         /\ record' = [i \in Subscribers |->
                         IF i \in Match(s, W) THEN [record[i] EXCEPT !.matched = at]
                                              ELSE record[i]]

(***************************************************************************)
(* emitStoreUpdate on top of frames: closes the written paths, and either  *)
(* hands them to the open transaction or notifies.  An unused draft means  *)
(* the raw state was written: the whole store changed.                     *)
(***************************************************************************)
DraftUnchanged(s) == touched[s] /\ writes[s] = {}

Closed(s) == IF writes[s] = {} THEN {Wildcard} ELSE writes[s]

CloseDraft(s) ==
  /\ touched' = [touched EXCEPT ![s] = FALSE]
  /\ writes' = [writes EXCEPT ![s] = {}]

Emit(s, frames) ==
  \/ /\ DraftUnchanged(s)
     /\ CloseDraft(s)
     /\ stack' = frames
     /\ UNCHANGED <<version, writeLog, pending, notified, record>>
  \/ /\ ~DraftUnchanged(s)
     /\ version[s] < MaxVersion
     /\ CloseDraft(s)
     /\ version' = [version EXCEPT ![s] = @ + 1]
     /\ writeLog' = [writeLog EXCEPT ![s][version[s] + 1] = Closed(s)]
     /\ IF IsActive
          THEN /\ pending' = [pending EXCEPT ![s] = @ \cup Closed(s)]
               /\ stack' = frames
               /\ UNCHANGED <<notified, record>>
          ELSE /\ NotifyWrites(s, Closed(s), version[s] + 1, frames)
               /\ UNCHANGED pending

-----------------------------------------------------------------------------
(***************************************************************************)
(* Application code: a call frame is on top.                               *)
(***************************************************************************)

\* A mutation through draft.  W = {} is a draft that was used without any
\* value changing.
DraftWrite(s, W) ==
  /\ Running("call")
  /\ version[s] < MaxVersion
  /\ touched' = [touched EXCEPT ![s] = TRUE]
  /\ writes' = [writes EXCEPT ![s] = @ \cup W]
  /\ UNCHANGED <<version, notified, disposed, writeLog, subscriptionVars, scheduled,
                 depth, pending, microtasks, stack, seen>>

\* emitUpdate(), which throws on a disposed store.
EmitUpdate(s) ==
  /\ Running("call")
  /\ ~disposed[s]
  /\ IsActive \/ Room(2)
  /\ Emit(s, stack)
  /\ UNCHANGED <<disposed, counter, registered, since, scheduled, depth, microtasks, seen>>

\* emitSoon(): the publication happens in a microtask.
EmitSoon(s) ==
  /\ Running("call")
  /\ version[s] < MaxVersion
  /\ Len(microtasks) < MaxSoon
  /\ microtasks' = Append(microtasks, [store |-> s, at |-> version[s]])
  /\ UNCHANGED <<storeVars, subscriptionVars, scheduled, depth, pending, stack, seen>>

\* transaction() opens: UpdateBatch.begin.
BeginTransaction ==
  /\ Running("call")
  /\ depth < MaxDepth
  /\ Room(3)
  /\ stack' = Retop([Top EXCEPT !.opened = @ + 1])
  /\ depth' = depth + 1
  /\ UNCHANGED <<storeVars, subscriptionVars, scheduled, pending, microtasks, seen>>

\* transaction() closes in the frame that opened it: UpdateBatch.end.  The
\* outermost one starts a flush.
EndTransaction ==
  /\ Running("call")
  /\ Top.opened > 0
  /\ depth' = IF depth > 1 THEN depth - 1 ELSE 0
  /\ LET closed == Retop([Top EXCEPT !.opened = @ - 1]) IN
     stack' = IF depth > 1 THEN closed
                           ELSE Append(closed, [kind |-> "flush", batch |-> NoBatch])
  /\ UNCHANGED <<storeVars, subscriptionVars, scheduled, pending, microtasks, seen>>

\* subscribe(): a registration of its own generation, which replaces an
\* earlier one under the same id and cancels what was scheduled for it.
Subscribe(i, R) ==
  LET s == Home[i] IN
  /\ Running("call")
  /\ counter[s] < MaxGeneration
  /\ Retract(i)
  /\ counter' = [counter EXCEPT ![s] = @ + 1]
  /\ registered' = registered \cup {i}
  /\ record' = [record EXCEPT ![i] = [generation |-> counter[s] + 1, matched |-> 0,
                                      growth |-> version[s], reads |-> R]]
  /\ seen' = [seen EXCEPT ![i] = version[s]]
  /\ since' = [since EXCEPT ![i] = [p \in AllPaths |-> version[s]]]
  /\ UNCHANGED <<storeVars, depth, pending, microtasks, stack>>

\* Paths read for the first time are watched from now on.
WatchedSince(i, R) ==
  [p \in AllPaths |-> IF p \in R \ record[i].reads THEN version[Home[i]] ELSE since[i][p]]

\* subscribe() with READS_RETAIN and the same callback: new reads, the same
\* registration, and what was scheduled for it stays scheduled.
Retain(i, R) ==
  /\ Running("call")
  /\ i \in registered
  /\ record' = [record EXCEPT ![i].growth = version[Home[i]], ![i].reads = R]
  /\ since' = [since EXCEPT ![i] = WatchedSince(i, R)]
  /\ UNCHANGED <<storeVars, counter, registered, scheduled, depth, pending, microtasks,
                 stack, seen>>

\* CARBURETOR_EXTEND: one more path for a registered id.
Extend(i, p) ==
  /\ Running("call")
  /\ i \in registered
  /\ record' = [record EXCEPT ![i].growth = version[Home[i]],
                              ![i].reads = @ \cup {p}]
  /\ since' = [since EXCEPT ![i] = WatchedSince(i, record[i].reads \cup {p})]
  /\ UNCHANGED <<storeVars, counter, registered, scheduled, depth, pending, microtasks,
                 stack, seen>>

Unsubscribe(i) ==
  /\ Running("call")
  /\ i \in registered
  /\ Retract(i)
  /\ registered' = registered \ {i}
  /\ record' = [record EXCEPT ![i] = NoRecord]
  /\ seen' = [seen EXCEPT ![i] = 0]
  /\ since' = [since EXCEPT ![i] = [p \in AllPaths |-> 0]]
  /\ UNCHANGED <<storeVars, counter, depth, pending, microtasks, stack>>

\* dispose(): the scheduled callbacks are cancelled; the records stay.
Dispose(s) ==
  /\ Running("call")
  /\ ~disposed[s]
  /\ disposed' = [disposed EXCEPT ![s] = TRUE]
  /\ scheduled' = [i \in Subscribers |->
                     IF i \in registered /\ Home[i] = s THEN 0 ELSE scheduled[i]]
  /\ UNCHANGED <<version, notified, touched, writes, writeLog, subscriptionVars, depth,
                 pending, microtasks, stack, seen>>

\* The callback or task returns (or throws: a failure is reported, and the
\* pass goes on).  transaction() closes in a finally, so nothing stays open.
Return ==
  /\ Running("call")
  /\ Top.opened = 0
  /\ stack' = Below
  /\ UNCHANGED <<storeVars, subscriptionVars, scheduled, depth, pending, microtasks, seen>>

-----------------------------------------------------------------------------
(***************************************************************************)
(* The engine, between two callbacks.                                      *)
(***************************************************************************)

\* A notification pass tells the patch observers first.
TellObservers ==
  /\ Running("notify")
  /\ ~Top.told
  /\ stack' = Append(Retop([Top EXCEPT !.told = TRUE]), Call(NoOne))
  /\ UNCHANGED <<storeVars, subscriptionVars, scheduled, depth, pending, microtasks, seen>>

\* A wrong variant: the last registration before the pass counts as newer than it.
StillSelectedStrict(i) ==
  ~disposed[Top.store] /\ i \in registered /\ record[i].generation < Top.generation

\* Is id i still the registration this pass selected?
StillSelected(i) ==
  /\ ~disposed[Top.store]
  /\ i \in registered
  /\ record[i].generation <= Top.generation

\* The pass reaches id i and hands its callback to the scheduler, which runs
\* it now or queues it.
Deliver(i) ==
  /\ Running("notify")
  /\ Top.told
  /\ i \in Top.todo
  /\ LET rest == Retop([Top EXCEPT !.todo = @ \ {i}]) IN
     \/ /\ ~StillSelected(i)
        /\ stack' = rest
        /\ UNCHANGED <<scheduled, seen>>
     \/ /\ StillSelected(i)
        /\ Top.store \in Deferred
        /\ stack' = rest
        /\ scheduled' = [scheduled EXCEPT ![i] = record[i].generation]
        /\ UNCHANGED seen
     \/ /\ StillSelected(i)
        /\ Top.store \notin Deferred
        /\ stack' = Append(rest, Call(i))
        /\ seen' = [seen EXCEPT ![i] = version[Top.store]]
        /\ UNCHANGED scheduled
  /\ UNCHANGED <<storeVars, subscriptionVars, depth, pending, microtasks>>

EndNotify ==
  /\ Running("notify")
  /\ Top.told
  /\ Top.todo = {}
  /\ stack' = Below
  /\ UNCHANGED <<storeVars, subscriptionVars, scheduled, depth, pending, microtasks, seen>>

\* UpdateBatch.flush takes everything collected so far...
TakeBatch ==
  /\ Running("flush")
  /\ Top.batch = NoBatch
  /\ pending # NoBatch
  /\ stack' = Retop([Top EXCEPT !.batch = pending])
  /\ pending' = NoBatch
  /\ UNCHANGED <<storeVars, subscriptionVars, scheduled, depth, microtasks, seen>>

\* ...notifies one store after the other...
NotifyBatched(s) ==
  /\ Running("flush")
  /\ Top.batch[s] # {}
  /\ NotifyWrites(s, Top.batch[s], version[s], Retop([Top EXCEPT !.batch[s] = {}]))
  /\ UNCHANGED <<version, disposed, touched, writes, writeLog, counter, registered, since,
                 scheduled, depth, pending, microtasks, seen>>

\* A wrong variant: the flush ends without looking at the batch again.
EndFlushEarly ==
  /\ Running("flush")
  /\ Top.batch = NoBatch
  /\ stack' = Below
  /\ UNCHANGED <<storeVars, subscriptionVars, scheduled, depth, pending, microtasks, seen>>

\* ...and ends when nothing is left.
EndFlush ==
  /\ Running("flush")
  /\ Top.batch = NoBatch
  /\ pending = NoBatch
  /\ stack' = Below
  /\ UNCHANGED <<storeVars, subscriptionVars, scheduled, depth, pending, microtasks, seen>>

-----------------------------------------------------------------------------
(***************************************************************************)
(* The event loop, with an empty stack.                                    *)
(***************************************************************************)

\* Is there still something for the emitSoon continuation to publish?  And a
\* variant that takes any later publication for its own.
StillUnpublishedAt(s, at) == ~disposed[s] /\ version[s] = at
StillUnpublished(s, at) ==
  ~disposed[s] /\ (version[s] = at \/ touched[s] \/ writes[s] # {})

\* The emitSoon continuation publishes unless a synchronous emit already did.
RunMicrotask ==
  /\ stack = <<>>
  /\ microtasks # <<>>
  /\ microtasks' = Tail(microtasks)
  /\ LET s == Head(microtasks).store IN
     IF StillUnpublished(s, Head(microtasks).at)
       THEN Emit(s, stack)
       ELSE UNCHANGED <<version, notified, touched, writes, writeLog, record, pending, stack>>
  /\ UNCHANGED <<disposed, counter, registered, since, scheduled, depth, seen>>

\* A deferring scheduler runs one queued callback.  One timer may run several,
\* with no microtask in between.
RunScheduled(i) ==
  /\ stack = <<>>
  /\ scheduled[i] # 0
  /\ scheduled' = [scheduled EXCEPT ![i] = 0]
  /\ stack' = <<Call(i)>>
  /\ seen' = [seen EXCEPT ![i] = version[Home[i]]]
  /\ UNCHANGED <<storeVars, subscriptionVars, depth, pending, microtasks>>

StartTask ==
  /\ stack = <<>>
  /\ microtasks = <<>>
  /\ stack' = <<Call(NoOne)>>
  /\ UNCHANGED <<storeVars, subscriptionVars, scheduled, depth, pending, microtasks, seen>>

Application ==
  \/ \E s \in Stores : \/ \E W \in WriteSets : DraftWrite(s, W)
                       \/ EmitUpdate(s)
                       \/ EmitSoon(s)
  \/ \E s \in Mortal : Dispose(s)
  \/ BeginTransaction
  \/ \E i \in Subscribers : \/ \E R \in ReadSets : Subscribe(i, R) \/ Retain(i, R)
                            \/ \E p \in Extensions : Extend(i, p)
                            \/ Unsubscribe(i)

Engine ==
  \/ TellObservers
  \/ \E i \in Subscribers : Deliver(i) \/ RunScheduled(i)
  \/ EndNotify
  \/ TakeBatch
  \/ \E s \in Stores : NotifyBatched(s)
  \/ EndFlush
  \/ RunMicrotask

Next ==
  \/ Application
  \/ EndTransaction
  \/ Return
  \/ Engine
  \/ StartTask

Spec == Init /\ [][Next]_vars

(***************************************************************************)
(* Fairness: the engine runs on, callbacks and tasks terminate, and the    *)
(* event loop starves no queued callback.                                  *)
(***************************************************************************)
Fairness ==
  /\ WF_vars(Engine)
  /\ SF_vars(EndTransaction)
  /\ SF_vars(Return)
  /\ \A i \in Subscribers : SF_vars(RunScheduled(i))

FairSpec == Spec /\ Fairness

-----------------------------------------------------------------------------
(***************************************************************************)
(* What the store owes its subscriptions.                                  *)
(***************************************************************************)
Frames(kind) == {k \in 1..Len(stack) : stack[k].kind = kind}

\* Paths of s that were published and not matched yet.
Unmatched(s) == pending[s] \cup UNION {stack[k].batch[s] : k \in Frames("flush")}

\* Publication v changed path r, and id i was not called since.
Missed(i, r, v) ==
  /\ since[i][r] < v
  /\ seen[i] < v
  /\ v <= version[Home[i]]
  /\ Concerns(writeLog[Home[i]][v], {r})

\* A call of i for path r is still on its way.
Owed(i, r) ==
  \/ Concerns(Unmatched(Home[i]), {r})
  \/ \E k \in Frames("notify") : /\ stack[k].store = Home[i]
                                 /\ i \in stack[k].todo
                                 /\ record[i].generation <= stack[k].generation
  \/ scheduled[i] = record[i].generation

Behind(i) ==
  /\ i \in registered
  /\ ~disposed[Home[i]]
  /\ \E r \in record[i].reads, v \in 1..MaxVersion : Missed(i, r, v)

(***************************************************************************)
(* No update is lost: a registered subscription that has not been called   *)
(* since a publication changed one of its paths still has a call coming,   *)
(* through any nesting of callbacks, transactions, re-registrations and    *)
(* extensions of its read set.                                             *)
(***************************************************************************)
NoLostUpdate ==
  \A i \in registered : \A r \in record[i].reads, v \in 1..MaxVersion :
    ~disposed[Home[i]] /\ Missed(i, r, v) => Owed(i, r)

(***************************************************************************)
(* CARBURETOR_HAS_DRIFT never denies a write it could have seen: `false`   *)
(* means that no publication after the baseline concerns the read set, as  *)
(* long as the store lives and no flush still holds writes of it.  (While  *)
(* one does, a direct pass may raise notifiedVersion past them, and the    *)
(* answer may be wrong: see README, findings.)                             *)
(***************************************************************************)
DriftIsSoundOnceMatched ==
  \A i \in registered : \A b \in 0..MaxVersion :
    /\ ~disposed[Home[i]]
    /\ Unmatched(Home[i]) = {}
    /\ LogMatches(Home[i], b, record[i].reads)
    => HasDrift(i, b)

(***************************************************************************)
(* Between two tasks nothing is left in the batch, and no transaction is   *)
(* open: a flush that a callback starts inside another flush hands over    *)
(* everything, whichever of the two closes last.                           *)
(***************************************************************************)
QuiescentBatch == stack = <<>> => depth = 0 /\ pending = NoBatch

(***************************************************************************)
(* Writes wait in the batch only for an open transaction or for the flush  *)
(* that is about to take them, so a pass never starts on a store while     *)
(* another part of the same transaction sits in the batch.                 *)
(***************************************************************************)
CallStarts(i) ==
  /\ Len(stack') = Len(stack) + 1
  /\ stack'[Len(stack')].kind = "call"
  /\ stack'[Len(stack')].who = i

BatchIsTakenWhole ==
  [][\A i \in Subscribers : CallStarts(i) => depth = 0 /\ pending = NoBatch]_vars

(***************************************************************************)
(* A callback starts only for a registration that is still there, of a     *)
(* store that is not disposed, and never for a registration that replaced  *)
(* the one the call was queued for.                                        *)
(***************************************************************************)
CallsOnlyTheLiving ==
  [][\A i \in Subscribers : CallStarts(i) =>
       /\ i \in registered
       /\ ~disposed[Home[i]]
       /\ stack = <<>> => scheduled[i] = record[i].generation]_vars

(***************************************************************************)
(* Every subscription catches up.                                          *)
(***************************************************************************)
EventuallyCalled == \A i \in Subscribers : Behind(i) ~> ~Behind(i)

(***************************************************************************)
(* What an emitSoon() finds in the draft is published, whatever else       *)
(* publishes or throws in between, unless the store is disposed first.     *)
(***************************************************************************)
Soon(s) == \E k \in 1..Len(microtasks) : microtasks[k].store = s

SoonIsPublished ==
  \A s \in Stores : Soon(s) /\ writes[s] # {} ~> writes[s] = {} \/ disposed[s]

=============================================================================
