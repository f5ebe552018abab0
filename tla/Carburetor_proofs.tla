-------------------------- MODULE Carburetor_proofs --------------------------
(***************************************************************************)
(* What holds of the store's delivery for every number of stores,          *)
(* subscriptions and paths, and every bound; and, in its second part, of   *)
(* the events that are delivered after it.                                 *)
(***************************************************************************)
EXTENDS Carburetor, EventQueue, SequenceTheorems, TLAPS

-----------------------------------------------------------------------------
(***************************************************************************)
(* The call stack.                                                         *)
(***************************************************************************)

\* Pushing a frame keeps the frames below it.
LEMMA PushLemma ==
  ASSUME NEW frames \in Seq(Frame), NEW f \in Frame
  PROVE  /\ Append(frames, f) \in Seq(Frame)
         /\ Len(Append(frames, f)) = Len(frames) + 1
         /\ \A k \in 1..Len(frames) : Append(frames, f)[k] = frames[k]
         /\ Append(frames, f)[Len(frames) + 1] = f
OBVIOUS

\* Popping keeps the frames below the top.
LEMMA BelowLemma ==
  ASSUME stack \in Seq(Frame), Len(stack) > 0
  PROVE  /\ Below \in Seq(Frame)
         /\ Len(Below) = Len(stack) - 1
         /\ \A k \in 1..Len(stack) - 1 : Below[k] = stack[k]
         /\ Top \in Frame
<1>. DEFINE n == Len(stack) - 1
<1>1. n \in Nat /\ \A k \in 1..n : stack[k] \in Frame
  OBVIOUS
<1>2. /\ SubSeq(stack, 1, n) \in Seq(Frame)
      /\ Len(SubSeq(stack, 1, n)) = IF 1 <= n THEN n - 1 + 1 ELSE 0
      /\ \A k \in 1..n - 1 + 1 : SubSeq(stack, 1, n)[k] = stack[1 + k - 1]
  <2>. HIDE DEF n
  <2>. QED  BY <1>1, SubSeqProperties
<1>3. n - 1 + 1 = n /\ \A k \in Nat : 1 + k - 1 = k
  BY <1>1
<1>4. \A k \in 1..n : SubSeq(stack, 1, n)[k] = stack[k]
  <2>. HIDE DEF n
  <2>. QED  BY <1>1, <1>2, <1>3
<1>5. Len(SubSeq(stack, 1, n)) = n
  <2>. HIDE DEF n
  <2>. QED  BY <1>1, <1>2, <1>3
<1>6. Top \in Frame
  BY DEF Top
<1>. QED  BY <1>2, <1>4, <1>5, <1>6 DEF Below

\* Replacing the top frame keeps the others.
LEMMA RetopLemma ==
  ASSUME stack \in Seq(Frame), Len(stack) > 0, NEW f \in Frame
  PROVE  /\ Retop(f) \in Seq(Frame)
         /\ Len(Retop(f)) = Len(stack)
         /\ \A k \in 1..Len(stack) - 1 : Retop(f)[k] = stack[k]
         /\ Retop(f)[Len(stack)] = f
<1>1. Below \in Seq(Frame) /\ Len(Below) = Len(stack) - 1
  BY BelowLemma
<1>. QED  BY <1>1, BelowLemma, PushLemma DEF Retop

-----------------------------------------------------------------------------
(***************************************************************************)
(* Type correctness.                                                       *)
(***************************************************************************)
USE DEF storeVars, subscriptionVars

LEMMA BoundsLemma ==
  /\ MaxVersion \in Nat /\ MaxGeneration \in Nat
  /\ \A i \in Subscribers : Home[i] \in Stores
BY CarburetorAssumption

LEMMA MatchType ==
  ASSUME NEW s, NEW W, TypeOK
  PROVE  Match(s, W) \in SUBSET Subscribers
BY DEF Match, TypeOK

\* What a frame on top is, by its kind.
LEMMA TopLemma ==
  ASSUME TypeOK, Len(stack) > 0
  PROVE  /\ Top \in Frame
         /\ Top.kind = "call" => Top \in CallFrame
         /\ Top.kind = "notify" => Top \in NotifyFrame
         /\ Top.kind = "flush" => Top \in FlushFrame
<1>1. Top \in Frame
  BY BelowLemma DEF TypeOK
<1>. QED  BY <1>1 DEF Frame, CallFrame, NotifyFrame, FlushFrame

LEMMA InitType == Init => TypeOK
BY CarburetorAssumption
DEF Init, TypeOK, NoBatch, NoRecord, Record, AllPaths

LEMMA NotifyWritesType ==
  ASSUME TypeOK, NEW s \in Stores, NEW W, NEW at \in 0..MaxVersion,
         NEW frames \in Seq(Frame), NotifyWrites(s, W, at, frames)
  PROVE  /\ stack' \in Seq(Frame)
         /\ notified' \in [Stores -> 0..MaxVersion]
         /\ record' \in [Subscribers -> Record]
<1>1. CASE disposed[s]
  BY <1>1 DEF NotifyWrites, TypeOK
<1>2. CASE ~disposed[s]
  <2>. DEFINE f == [kind |-> "notify", store |-> s, generation |-> counter[s],
                    todo |-> Match(s, W), told |-> s \notin Observed]
  <2>1. counter[s] \in 0..MaxGeneration
    BY DEF TypeOK
  <2>2. f \in Frame
    BY <2>1, MatchType DEF Frame, NotifyFrame
  <2>3. stack' = Append(frames, f)
    BY <1>2 DEF NotifyWrites
  <2>4. stack' \in Seq(Frame)
    BY <2>2, <2>3, PushLemma
  <2>5. notified' \in [Stores -> 0..MaxVersion]
    BY <1>2 DEF NotifyWrites, TypeOK
  <2>6. \A i \in Subscribers : [record[i] EXCEPT !.matched = at] \in Record
    BY DEF TypeOK, Record
  <2>7. record' \in [Subscribers -> Record]
    <3>. DEFINE marked(i) == IF i \in Match(s, W) THEN [record[i] EXCEPT !.matched = at]
                                                  ELSE record[i]
    <3>1. record' = [i \in Subscribers |-> marked(i)]
      BY <1>2 DEF NotifyWrites
    <3>2. \A i \in Subscribers : marked(i) \in Record
      BY <2>6 DEF TypeOK
    <3>. HIDE DEF marked
    <3>. QED  BY <3>1, <3>2
  <2>. QED  BY <2>4, <2>5, <2>7
<1>. QED  BY <1>1, <1>2

LEMMA EmitType ==
  ASSUME TypeOK, NEW s \in Stores, NEW frames \in Seq(Frame), Emit(s, frames)
  PROVE  /\ version' \in [Stores -> 0..MaxVersion]
         /\ notified' \in [Stores -> 0..MaxVersion]
         /\ touched' \in [Stores -> BOOLEAN]
         /\ writes' \in [Stores -> SUBSET AllPaths]
         /\ writeLog' \in [Stores -> [1..MaxVersion -> SUBSET AllPaths]]
         /\ record' \in [Subscribers -> Record]
         /\ pending' \in [Stores -> SUBSET AllPaths]
         /\ stack' \in Seq(Frame)
<1>1. touched' \in [Stores -> BOOLEAN] /\ writes' \in [Stores -> SUBSET AllPaths]
  BY DEF Emit, CloseDraft, TypeOK
<1>2. CASE DraftUnchanged(s)
  BY <1>1, <1>2 DEF Emit, TypeOK
<1>3. CASE ~DraftUnchanged(s)
  <2>1. version[s] + 1 \in 1..MaxVersion
    BY <1>3, BoundsLemma DEF Emit, TypeOK
  <2>2. Closed(s) \in SUBSET AllPaths
    BY DEF Closed, TypeOK, AllPaths
  <2>3. version' \in [Stores -> 0..MaxVersion]
    BY <1>3, <2>1, BoundsLemma DEF Emit, TypeOK
  <2>4. writeLog' \in [Stores -> [1..MaxVersion -> SUBSET AllPaths]]
    <3>1. [writeLog[s] EXCEPT ![version[s] + 1] = Closed(s)]
            \in [1..MaxVersion -> SUBSET AllPaths]
      BY <2>2 DEF TypeOK
    <3>2. writeLog' = [writeLog EXCEPT ![s] = [@ EXCEPT ![version[s] + 1] = Closed(s)]]
      BY <1>3 DEF Emit
    <3>. QED  BY <3>1, <3>2 DEF TypeOK
  <2>5. CASE IsActive
    <3>1. /\ pending' = [pending EXCEPT ![s] = @ \cup Closed(s)]
          /\ stack' = frames
          /\ UNCHANGED <<notified, record>>
      BY <1>3, <2>5 DEF Emit
    <3>2. pending' \in [Stores -> SUBSET AllPaths]
      BY <2>2, <3>1 DEF TypeOK
    <3>. QED  BY <1>1, <2>3, <2>4, <3>1, <3>2 DEF TypeOK
  <2>6. CASE ~IsActive
    <3>1. NotifyWrites(s, Closed(s), version[s] + 1, frames) /\ UNCHANGED pending
      BY <1>3, <2>6 DEF Emit
    <3>2. version[s] + 1 \in 0..MaxVersion
      BY <2>1
    <3>. QED  BY <1>1, <2>3, <2>4, <3>1, <3>2, NotifyWritesType DEF TypeOK
  <2>. QED  BY <2>5, <2>6
<1>. QED  BY <1>2, <1>3

\* Every step keeps the types: one step of the proof per action.
LEMMA NextType == TypeOK /\ [Next]_vars => TypeOK'
<1>. SUFFICES ASSUME TypeOK, [Next]_vars PROVE TypeOK'
  OBVIOUS
<1>. USE BoundsLemma
<1>1. ASSUME NEW s \in Stores, NEW W \in WriteSets, DraftWrite(s, W) PROVE TypeOK'
  <2>1. W \in SUBSET AllPaths
    BY CarburetorAssumption
  <2>. QED  BY <1>1, <2>1 DEF DraftWrite, TypeOK
<1>2. ASSUME NEW s \in Stores, EmitUpdate(s) PROVE TypeOK'
  BY <1>2, EmitType DEF EmitUpdate, TypeOK
<1>3. ASSUME NEW s \in Stores, EmitSoon(s) PROVE TypeOK'
  <2>1. [store |-> s, at |-> version[s]] \in Microtask
    BY DEF TypeOK, Microtask
  <2>. QED  BY <1>3, <2>1 DEF EmitSoon, TypeOK
<1>4. ASSUME NEW s \in Stores, Dispose(s) PROVE TypeOK'
  BY <1>4 DEF Dispose, TypeOK
<1>5. ASSUME BeginTransaction PROVE TypeOK'
  <2>1. [Top EXCEPT !.opened = @ + 1] \in Frame
    BY <1>5, TopLemma DEF BeginTransaction, Running, Frame, CallFrame
  <2>. QED  BY <1>5, <2>1, RetopLemma DEF BeginTransaction, Running, TypeOK
<1>6. ASSUME EndTransaction PROVE TypeOK'
  <2>. DEFINE closed == Retop([Top EXCEPT !.opened = @ - 1])
              flush == [kind |-> "flush", batch |-> NoBatch]
  <2>1. [Top EXCEPT !.opened = @ - 1] \in Frame
    BY <1>6, TopLemma DEF EndTransaction, Running, Frame, CallFrame
  <2>2. closed \in Seq(Frame)
    BY <1>6, <2>1, RetopLemma DEF EndTransaction, Running, TypeOK
  <2>3. flush \in Frame
    BY DEF Frame, FlushFrame, NoBatch
  <2>4. stack' \in Seq(Frame)
    <3>. HIDE DEF flush, closed
    <3>1. stack' = closed \/ stack' = Append(closed, flush)
      BY <1>6 DEF EndTransaction, closed, flush
    <3>. QED  BY <2>2, <2>3, <3>1, PushLemma
  <2>. QED  BY <1>6, <2>4 DEF EndTransaction, TypeOK
<1>7. ASSUME NEW i \in Subscribers, NEW R \in ReadSets, Subscribe(i, R) PROVE TypeOK'
  <2>1. R \in SUBSET AllPaths
    BY CarburetorAssumption
  <2>2. counter[Home[i]] + 1 \in 0..MaxGeneration /\ version[Home[i]] \in 0..MaxVersion
    BY <1>7 DEF Subscribe, TypeOK
  <2>3. [generation |-> counter[Home[i]] + 1, matched |-> 0,
         growth |-> version[Home[i]], reads |-> R] \in Record
    BY <2>1, <2>2 DEF Record
  <2>. QED  BY <1>7, <2>2, <2>3 DEF Subscribe, Retract, TypeOK
<1>8. ASSUME NEW i \in Subscribers, NEW R \in ReadSets, Retain(i, R) PROVE TypeOK'
  <2>1. R \in SUBSET AllPaths
    BY CarburetorAssumption
  <2>2. record[i] \in Record /\ version[Home[i]] \in 0..MaxVersion
    BY DEF TypeOK
  <2>3. [record[i] EXCEPT !.growth = version[Home[i]], !.reads = R] \in Record
    BY <2>1, <2>2 DEF Record
  <2>4. WatchedSince(i, R) \in [AllPaths -> 0..MaxVersion]
    BY <2>2 DEF WatchedSince, TypeOK
  <2>5. record' \in [Subscribers -> Record]
    BY <1>8, <2>3 DEF Retain, TypeOK
  <2>. QED  BY <1>8, <2>4, <2>5 DEF Retain, TypeOK
<1>9. ASSUME NEW i \in Subscribers, NEW p \in Extensions, Extend(i, p) PROVE TypeOK'
  <2>1. p \in AllPaths
    BY CarburetorAssumption
  <2>2. record[i] \in Record /\ version[Home[i]] \in 0..MaxVersion
    BY DEF TypeOK
  <2>3. [record[i] EXCEPT !.growth = version[Home[i]], !.reads = @ \cup {p}] \in Record
    BY <2>1, <2>2 DEF Record
  <2>4. WatchedSince(i, record[i].reads \cup {p}) \in [AllPaths -> 0..MaxVersion]
    BY <2>2 DEF WatchedSince, TypeOK
  <2>5. record' \in [Subscribers -> Record]
    BY <1>9, <2>3 DEF Extend, TypeOK
  <2>. QED  BY <1>9, <2>4, <2>5 DEF Extend, TypeOK
<1>10. ASSUME NEW i \in Subscribers, Unsubscribe(i) PROVE TypeOK'
  <2>1. NoRecord \in Record
    BY DEF NoRecord, Record
  <2>. QED  BY <1>10, <2>1 DEF Unsubscribe, Retract, TypeOK
<1>11. ASSUME Return PROVE TypeOK'
  BY <1>11, BelowLemma DEF Return, Running, TypeOK
<1>12. ASSUME TellObservers PROVE TypeOK'
  <2>1. [Top EXCEPT !.told = TRUE] \in Frame
    BY <1>12, TopLemma DEF TellObservers, Running, Frame, NotifyFrame
  <2>2. Call(NoOne) \in Frame
    BY DEF Call, Frame, CallFrame
  <2>3. Retop([Top EXCEPT !.told = TRUE]) \in Seq(Frame)
    BY <1>12, <2>1, RetopLemma DEF TellObservers, Running, TypeOK
  <2>4. stack' \in Seq(Frame)
    BY <1>12, <2>2, <2>3, PushLemma DEF TellObservers
  <2>. QED  BY <1>12, <2>4 DEF TellObservers, TypeOK
<1>13. ASSUME NEW i \in Subscribers, Deliver(i) PROVE TypeOK'
  <2>. DEFINE rest == Retop([Top EXCEPT !.todo = @ \ {i}])
  <2>0. Top \in NotifyFrame /\ Len(stack) > 0
    BY <1>13, TopLemma DEF Deliver, Running
  <2>1. [Top EXCEPT !.todo = @ \ {i}] \in Frame
    BY <2>0 DEF Frame, NotifyFrame
  <2>2. Call(i) \in Frame
    BY DEF Call, Frame, CallFrame
  <2>3. rest \in Seq(Frame)
    BY <2>0, <2>1, RetopLemma DEF TypeOK
  <2>4. /\ stack' = rest \/ stack' = Append(rest, Call(i))
        /\ scheduled' = scheduled
             \/ scheduled' = [scheduled EXCEPT ![i] = record[i].generation]
        /\ seen' = seen \/ seen' = [seen EXCEPT ![i] = version[Top.store]]
    BY <1>13 DEF Deliver
  <2>5. stack' \in Seq(Frame)
    <3>. HIDE DEF rest
    <3>. QED  BY <2>2, <2>3, <2>4, PushLemma
  <2>6. record[i].generation \in 0..MaxGeneration /\ version[Top.store] \in 0..MaxVersion
    BY <2>0 DEF TypeOK, Record, NotifyFrame
  <2>7. scheduled' \in [Subscribers -> 0..MaxGeneration] /\ seen' \in [Subscribers -> 0..MaxVersion]
    BY <2>4, <2>6 DEF TypeOK
  <2>. QED  BY <1>13, <2>5, <2>7 DEF Deliver, TypeOK
<1>14. ASSUME EndNotify PROVE TypeOK'
  BY <1>14, BelowLemma DEF EndNotify, Running, TypeOK
<1>15. ASSUME TakeBatch PROVE TypeOK'
  <2>1. [Top EXCEPT !.batch = pending] \in Frame
    BY <1>15, TopLemma DEF TakeBatch, Running, Frame, FlushFrame, TypeOK
  <2>2. NoBatch \in [Stores -> SUBSET AllPaths]
    BY DEF NoBatch
  <2>. QED  BY <1>15, <2>1, <2>2, RetopLemma DEF TakeBatch, Running, TypeOK
<1>16. ASSUME NEW s \in Stores, NotifyBatched(s) PROVE TypeOK'
  <2>1. Top \in FlushFrame /\ Len(stack) > 0
    BY <1>16, TopLemma DEF NotifyBatched, Running
  <2>2. [Top EXCEPT !.batch[s] = {}] \in Frame
    BY <2>1 DEF Frame, FlushFrame
  <2>3. Retop([Top EXCEPT !.batch[s] = {}]) \in Seq(Frame)
    BY <2>1, <2>2, RetopLemma DEF TypeOK
  <2>4. version[s] \in 0..MaxVersion
    BY DEF TypeOK
  <2>5. /\ stack' \in Seq(Frame)
        /\ notified' \in [Stores -> 0..MaxVersion]
        /\ record' \in [Subscribers -> Record]
    BY <1>16, <2>3, <2>4, NotifyWritesType DEF NotifyBatched
  <2>. QED  BY <1>16, <2>5 DEF NotifyBatched, TypeOK
<1>17. ASSUME EndFlush PROVE TypeOK'
  BY <1>17, BelowLemma DEF EndFlush, Running, TypeOK
<1>18. ASSUME RunMicrotask PROVE TypeOK'
  <2>. DEFINE s == Head(microtasks).store
  <2>1. microtasks' \in Seq(Microtask) /\ s \in Stores
    <3>1. microtasks \in Seq(Microtask) /\ microtasks # <<>>
      BY <1>18 DEF RunMicrotask, TypeOK
    <3>2. Head(microtasks) \in Microtask /\ Tail(microtasks) \in Seq(Microtask)
      BY <3>1, HeadTailProperties
    <3>. QED  BY <1>18, <3>2 DEF RunMicrotask, Microtask
  <2>2. CASE Emit(s, stack)
    <3>. HIDE DEF s
    <3>1. stack \in Seq(Frame)
      BY DEF TypeOK
    <3>. QED  BY <1>18, <2>1, <2>2, <3>1, EmitType DEF RunMicrotask, TypeOK
  <2>3. CASE UNCHANGED <<version, notified, touched, writes, writeLog, record, pending, stack>>
    BY <1>18, <2>1, <2>3 DEF RunMicrotask, TypeOK
  <2>. QED  BY <1>18, <2>2, <2>3 DEF RunMicrotask
<1>19. ASSUME NEW i \in Subscribers, RunScheduled(i) PROVE TypeOK'
  <2>1. Call(i) \in Frame
    BY DEF Call, Frame, CallFrame
  <2>. QED  BY <1>19, <2>1 DEF RunScheduled, TypeOK
<1>20. ASSUME StartTask PROVE TypeOK'
  <2>1. Call(NoOne) \in Frame
    BY DEF Call, Frame, CallFrame
  <2>. QED  BY <1>20, <2>1 DEF StartTask, TypeOK
<1>21. CASE UNCHANGED vars
  BY <1>21 DEF vars, TypeOK
<1>. QED
  BY <1>1, <1>2, <1>3, <1>4, <1>5, <1>6, <1>7, <1>8, <1>9, <1>10, <1>11, <1>12, <1>13,
     <1>14, <1>15, <1>16, <1>17, <1>18, <1>19, <1>20, <1>21, CarburetorAssumption
  DEF Next, Application, Engine

(***************************************************************************)
(* The state of the stores, subscriptions, batch and call stack is always  *)
(* well-typed.                                                             *)
(***************************************************************************)
THEOREM TypeCorrect == Spec => []TypeOK
BY InitType, NextType, PTL DEF Spec

-----------------------------------------------------------------------------
(***************************************************************************)
(* No update is lost, for every number of stores, subscriptions and paths. *)
(* A publication is owed through three places in turn: the batch of a      *)
(* transaction, the pass that selected the subscription, the scheduler.    *)
(* The proof follows it from one to the next.                              *)
(***************************************************************************)

(***************************************************************************)
(* The inductive invariant.  A pass selects registrations of its own store *)
(* only, and none that is newer than the store's counter: otherwise its    *)
(* frame would not count for the subscription it was made for.             *)
(***************************************************************************)
GenerationsBounded ==
  \A i \in registered : record[i].generation <= counter[Home[i]]

SelectedAtHome ==
  \A k \in Frames("notify") : \A i \in stack[k].todo : Home[i] = stack[k].store

\* A publication that concerns the reads of a registration has raised its
\* matchedVersion, unless the paths it changed are not matched yet.
Covered(i, v) ==
  record[i].matched >= v \/ Concerns(Unmatched(Home[i]), record[i].reads)

Marked ==
  \A i \in registered, v \in 1..MaxVersion :
    /\ ~disposed[Home[i]]
    /\ record[i].growth < v
    /\ v <= version[Home[i]]
    /\ Concerns(writeLog[Home[i]][v], record[i].reads)
    => Covered(i, v)

IInv == TypeOK /\ GenerationsBounded /\ SelectedAtHome /\ NoLostUpdate /\ Marked

-----------------------------------------------------------------------------
(***************************************************************************)
(* What is owed, place by place, and what a step must keep on the stack.   *)
(***************************************************************************)
BatchOwes(i, r) ==
  \/ Concerns(pending[Home[i]], {r})
  \/ \E k \in Frames("flush") : Concerns(stack[k].batch[Home[i]], {r})

PassOwes(i) ==
  \E k \in Frames("notify") : /\ stack[k].store = Home[i]
                              /\ i \in stack[k].todo
                              /\ record[i].generation <= stack[k].generation

\* Every pass and every flush of the stack that has work left is also in
\* frames, with the same work.
Carries(frames) ==
  /\ \A k \in Frames("notify") :
       stack[k].todo # {} => /\ k <= Len(frames)
                             /\ frames[k].kind = "notify"
                             /\ frames[k].store = stack[k].store
                             /\ frames[k].generation = stack[k].generation
                             /\ frames[k].todo = stack[k].todo
  /\ \A k \in Frames("flush") :
       stack[k].batch # NoBatch => /\ k <= Len(frames)
                                   /\ frames[k].kind = "flush"
                                   /\ frames[k].batch = stack[k].batch

\* A frame that selects subscriptions of its own store, and a stack of them.
AtHome(f) == f.kind = "notify" => \A i \in f.todo : Home[i] = f.store
AllAtHome(frames) == \A k \in 1..Len(frames) : AtHome(frames[k])

LEMMA OwedLemma ==
  ASSUME NEW i, NEW r
  PROVE  Owed(i, r) <=> BatchOwes(i, r) \/ PassOwes(i)
                        \/ scheduled[i] = record[i].generation
BY DEF Owed, BatchOwes, PassOwes, Unmatched, Concerns

LEMMA AtHomeLemma == SelectedAtHome <=> AllAtHome(stack)
BY DEF SelectedAtHome, AllAtHome, AtHome, Frames

\* What is owed stays owed when the stack carries over.
LEMMA CarryLemma ==
  ASSUME TypeOK, NEW i \in Subscribers, NEW r,
         stack' \in Seq(Frame), Carries(stack'),
         pending[Home[i]] \subseteq pending'[Home[i]],
         scheduled'[i] = scheduled[i],
         record'[i].generation = record[i].generation,
         Owed(i, r)
  PROVE  Owed(i, r)'
<1>. USE BoundsLemma
<1>1. CASE BatchOwes(i, r)
  <2>1. CASE Concerns(pending[Home[i]], {r})
    BY <2>1 DEF Owed, Unmatched, Concerns
  <2>2. ASSUME NEW k \in Frames("flush"), Concerns(stack[k].batch[Home[i]], {r})
        PROVE  Owed(i, r)'
    <3>1. stack[k].batch # NoBatch
      BY <2>2 DEF NoBatch, Concerns
    <3>2. k \in Frames("flush")' /\ stack'[k].batch = stack[k].batch
      BY <3>1 DEF Carries, Frames
    <3>. QED  BY <2>2, <3>2 DEF Owed, Unmatched, Concerns
  <2>. QED  BY <1>1, <2>1, <2>2 DEF BatchOwes
<1>2. CASE PassOwes(i)
  <2>1. PICK k \in Frames("notify") : /\ stack[k].store = Home[i]
                                      /\ i \in stack[k].todo
                                      /\ record[i].generation <= stack[k].generation
    BY <1>2 DEF PassOwes
  <2>2. /\ k \in Frames("notify")'
        /\ stack'[k].store = stack[k].store
        /\ stack'[k].generation = stack[k].generation
        /\ stack'[k].todo = stack[k].todo
    BY <2>1 DEF Carries, Frames
  <2>. QED  BY <2>1, <2>2 DEF Owed
<1>3. CASE scheduled[i] = record[i].generation
  BY <1>3 DEF Owed
<1>. QED  BY <1>1, <1>2, <1>3, OwedLemma

-----------------------------------------------------------------------------
(***************************************************************************)
(* How a step changes the stack.                                           *)
(***************************************************************************)
LEMMA SameCarries == Carries(stack)
BY DEF Carries, Frames

LEMMA PushCarries ==
  ASSUME NEW frames \in Seq(Frame), NEW f \in Frame, Len(stack) \in Nat
  PROVE  /\ Carries(frames) => Carries(Append(frames, f))
         /\ AllAtHome(frames) /\ AtHome(f) => AllAtHome(Append(frames, f))
<1>. DEFINE g == Append(frames, f)
<1>1. /\ Len(g) = Len(frames) + 1
      /\ \A k \in 1..Len(frames) : g[k] = frames[k]
      /\ g[Len(frames) + 1] = f
      /\ Len(frames) \in Nat
  BY PushLemma
<1>. HIDE DEF g
<1>2. ASSUME Carries(frames) PROVE Carries(g)
  BY <1>1, <1>2 DEF Carries, Frames
<1>3. ASSUME AllAtHome(frames), AtHome(f) PROVE AllAtHome(g)
  BY <1>1, <1>3 DEF AllAtHome
<1>. QED  BY <1>2, <1>3 DEF g

LEMMA PopCarries ==
  ASSUME TypeOK, Len(stack) > 0, AllAtHome(stack),
         \/ Top.kind = "call"
         \/ Top.kind = "notify" /\ Top.todo = {}
         \/ Top.kind = "flush" /\ Top.batch = NoBatch
  PROVE  Carries(Below) /\ AllAtHome(Below) /\ Below \in Seq(Frame)
<1>1. /\ Below \in Seq(Frame) /\ Len(stack) \in Nat
      /\ Len(Below) = Len(stack) - 1
      /\ \A k \in 1..Len(stack) - 1 : Below[k] = stack[k]
  BY BelowLemma DEF TypeOK
<1>2. Carries(Below)
  BY <1>1 DEF Carries, Frames, Top
<1>3. AllAtHome(Below)
  BY <1>1 DEF AllAtHome
<1>. QED  BY <1>1, <1>2, <1>3

LEMMA RetopCarries ==
  ASSUME TypeOK, Len(stack) > 0, AllAtHome(stack), NEW f \in Frame, AtHome(f)
  PROVE  /\ Retop(f) \in Seq(Frame)
         /\ AllAtHome(Retop(f))
         /\ \/ Top.kind = "call"
            \/ /\ Top.kind = "notify"  /\ f.kind = "notify"
               /\ f.store = Top.store /\ f.generation = Top.generation /\ f.todo = Top.todo
            => Carries(Retop(f))
<1>1. /\ Retop(f) \in Seq(Frame) /\ Len(stack) \in Nat
      /\ Len(Retop(f)) = Len(stack)
      /\ \A k \in 1..Len(stack) - 1 : Retop(f)[k] = stack[k]
      /\ Retop(f)[Len(stack)] = f
  BY RetopLemma DEF TypeOK
<1>2. AllAtHome(Retop(f))
  <2>1. \A k \in 1..Len(stack) : k \in 1..Len(stack) - 1 \/ k = Len(stack)
    BY <1>1
  <2>. QED  BY <1>1, <2>1 DEF AllAtHome
<1>3. ASSUME \/ Top.kind = "call"
             \/ /\ Top.kind = "notify"  /\ f.kind = "notify"
                /\ f.store = Top.store /\ f.generation = Top.generation /\ f.todo = Top.todo
      PROVE  Carries(Retop(f))
  BY <1>1, <1>3 DEF Carries, Frames, Top
<1>. QED  BY <1>1, <1>2, <1>3

-----------------------------------------------------------------------------
(***************************************************************************)
(* What waits to be matched still waits when the stack carries over, and a *)
(* record that nothing happened to, or that grew just now, stays covered.  *)
(***************************************************************************)
UnmatchedKept == \A s \in Stores : Unmatched(s) \subseteq Unmatched(s)'

LEMMA KeptLemma ==
  ASSUME Carries(stack'), \A s \in Stores : pending[s] \subseteq pending'[s],
         stack \in Seq(Frame), stack' \in Seq(Frame)
  PROVE  UnmatchedKept
<1>. SUFFICES ASSUME NEW s \in Stores, NEW k \in Frames("flush")
              PROVE  stack[k].batch[s] \subseteq Unmatched(s)'
  BY DEF Unmatched, UnmatchedKept
<1>1. CASE stack[k].batch = NoBatch
  BY <1>1 DEF NoBatch
<1>2. CASE stack[k].batch # NoBatch
  <2>1. k \in Frames("flush")' /\ stack'[k].batch = stack[k].batch
    BY <1>2 DEF Carries, Frames
  <2>. QED  BY <2>1 DEF Unmatched
<1>. QED  BY <1>1, <1>2

LEMMA MarkedLemma ==
  ASSUME IInv, UnmatchedKept, UNCHANGED <<version, writeLog>>,
         \A s \in Stores : disposed[s] => disposed'[s],
         registered' \subseteq Subscribers,
         \A i \in registered' : \/ record'[i].growth = version[Home[i]]
                                \/ i \in registered /\ record'[i] = record[i]
  PROVE  Marked'
<1>. SUFFICES ASSUME NEW i \in registered', NEW v \in 1..MaxVersion,
                     ~disposed'[Home[i]], record'[i].growth < v, v <= version[Home[i]],
                     Concerns(writeLog[Home[i]][v], record'[i].reads)
              PROVE  Covered(i, v)'
  BY DEF Marked
<1>0. i \in Subscribers /\ Home[i] \in Stores /\ version[Home[i]] \in Nat
  BY BoundsLemma DEF IInv, TypeOK
<1>1. CASE record'[i].growth = version[Home[i]]
  BY <1>0, <1>1, BoundsLemma
<1>2. CASE i \in registered /\ record'[i] = record[i]
  <2>1. Covered(i, v)
    BY <1>0, <1>2 DEF IInv, Marked
  <2>. QED  BY <1>0, <1>2, <2>1 DEF Covered, UnmatchedKept, Concerns
<1>. QED  BY <1>1, <1>2

-----------------------------------------------------------------------------
(***************************************************************************)
(* Steps that publish nothing and call nobody.                             *)
(***************************************************************************)
Safe == GenerationsBounded /\ SelectedAtHome /\ NoLostUpdate /\ Marked

LEMMA QuietLemma ==
  ASSUME IInv, stack' \in Seq(Frame), Carries(stack'), AllAtHome(stack'),
         UNCHANGED <<version, disposed, writeLog, counter, registered, record, since,
                     scheduled, pending, seen>>
  PROVE  Safe'
<1>1. GenerationsBounded'
  BY DEF GenerationsBounded, IInv
<1>2. SelectedAtHome'
  BY DEF SelectedAtHome, AllAtHome, AtHome, Frames
<1>3. NoLostUpdate'
  <2>. SUFFICES ASSUME NEW i \in registered, NEW r \in record[i].reads,
                       NEW v \in 1..MaxVersion, ~disposed[Home[i]], Missed(i, r, v)
                PROVE  Owed(i, r)'
    BY DEF NoLostUpdate, Missed
  <2>1. Owed(i, r) /\ TypeOK /\ i \in Subscribers
    BY DEF IInv, NoLostUpdate, TypeOK
  <2>. QED  BY <2>1, CarryLemma
<1>4. Marked'
  <2>1. UnmatchedKept
    BY KeptLemma DEF IInv, TypeOK
  <2>. QED  BY <2>1, MarkedLemma DEF IInv, TypeOK
<1>. QED  BY <1>1, <1>2, <1>3, <1>4 DEF Safe

(***************************************************************************)
(* A notification pass selects every registration the writes concern.      *)
(***************************************************************************)
LEMMA NotifyLemma ==
  ASSUME TypeOK, GenerationsBounded, NEW s \in Stores, NEW W, NEW at \in 0..MaxVersion,
         NEW frames \in Seq(Frame), NotifyWrites(s, W, at, frames)
  PROVE  /\ \A i \in Subscribers : /\ record'[i].generation = record[i].generation
                                  /\ record'[i].reads = record[i].reads
                                  /\ record'[i].growth = record[i].growth
                                  /\ \/ record'[i].matched = record[i].matched
                                     \/ Home[i] = s /\ record'[i].matched = at
         /\ \A i \in registered :
              ~disposed[s] /\ Home[i] = s /\ Concerns(W, record[i].reads)
              => record'[i].matched = at
         /\ stack' \in Seq(Frame)
         /\ Carries(frames) => Carries(stack')
         /\ AllAtHome(frames) => AllAtHome(stack')
         /\ \A i \in registered : \A r \in record[i].reads :
              ~disposed[s] /\ Home[i] = s /\ Concerns(W, {r}) => PassOwes(i)'
<1>1. stack' \in Seq(Frame)
  BY NotifyWritesType
<1>2. CASE disposed[s]
  BY <1>1, <1>2 DEF NotifyWrites
<1>3. CASE ~disposed[s]
  <2>0. ASSUME NEW i \in Subscribers
        PROVE  record'[i] = IF i \in Match(s, W) THEN [record[i] EXCEPT !.matched = at]
                                                 ELSE record[i]
    BY <1>3 DEF NotifyWrites
  <2>. DEFINE f == [kind |-> "notify", store |-> s, generation |-> counter[s],
                    todo |-> Match(s, W), told |-> s \notin Observed]
  <2>1. stack' = Append(frames, f)
    BY <1>3 DEF NotifyWrites
  <2>2. f \in Frame /\ AtHome(f) /\ Len(stack) \in Nat
    <3>1. counter[s] \in 0..MaxGeneration
      BY DEF TypeOK
    <3>2. f \in NotifyFrame
      BY <3>1, MatchType DEF NotifyFrame
    <3>. QED  BY <3>2 DEF Frame, AtHome, Match, TypeOK
  <2>3. /\ Carries(frames) => Carries(stack')
        /\ AllAtHome(frames) => AllAtHome(stack')
    <3>. HIDE DEF f
    <3>. QED  BY <2>1, <2>2, PushCarries
  <2>4. \A i \in Subscribers : /\ record'[i].generation = record[i].generation
                              /\ record'[i].reads = record[i].reads
                              /\ record'[i].growth = record[i].growth
                              /\ \/ record'[i].matched = record[i].matched
                                 \/ Home[i] = s /\ record'[i].matched = at
    <3>1. \A i \in Subscribers : record[i] \in Record
      BY DEF TypeOK
    <3>. QED  BY <2>0, <3>1 DEF Record, Match
  <2>6. ASSUME NEW i \in registered, Home[i] = s, Concerns(W, record[i].reads)
        PROVE  record'[i].matched = at
    <3>1. i \in Subscribers /\ i \in Match(s, W) /\ record[i] \in Record
      BY <2>6 DEF Match, TypeOK
    <3>. QED  BY <2>0, <3>1 DEF Record
  <2>5. ASSUME NEW i \in registered, NEW r \in record[i].reads,
               Home[i] = s, Concerns(W, {r})
        PROVE  PassOwes(i)'
    <3>1. i \in Match(s, W) /\ i \in Subscribers
      BY <2>5 DEF Match, Concerns, TypeOK
    <3>2. record'[i].generation <= counter[s]
      BY <2>4, <2>5, <3>1 DEF GenerationsBounded
    <3>3. Len(stack') = Len(frames) + 1 /\ stack'[Len(frames) + 1] = f /\ Len(frames) \in Nat
      <4>. HIDE DEF f
      <4>. QED  BY <2>1, <2>2, PushLemma
    <3>. QED  BY <2>5, <3>1, <3>2, <3>3 DEF PassOwes, Frames
  <2>. QED  BY <1>1, <2>3, <2>4, <2>5, <2>6
<1>. QED  BY <1>2, <1>3

(***************************************************************************)
(* A publication outside a transaction is owed by its pass, and one inside *)
(* a transaction by the batch.                                             *)
(***************************************************************************)
LEMMA EmitLemma ==
  ASSUME IInv, NEW s \in Stores, ~disposed[s], Emit(s, stack),
         UNCHANGED <<disposed, counter, registered, since, scheduled, seen>>
  PROVE  Safe'
<1>. USE BoundsLemma DEF IInv
<1>0. stack \in Seq(Frame) /\ Carries(stack) /\ AllAtHome(stack)
  BY SameCarries, AtHomeLemma DEF TypeOK
<1>1. CASE DraftUnchanged(s)
  BY <1>0, <1>1, QuietLemma DEF Emit
<1>2. CASE ~DraftUnchanged(s)
  <2>. DEFINE W == Closed(s)
              n == version[s] + 1
  <2>1. /\ n \in 1..MaxVersion /\ n \in 0..MaxVersion
        /\ version' = [version EXCEPT ![s] = n]
        /\ writeLog' = [writeLog EXCEPT ![s][n] = W]
    BY <1>2 DEF Emit, TypeOK
  <2>2. \/ /\ pending' = [pending EXCEPT ![s] = @ \cup W]
           /\ UNCHANGED <<stack, record>>
        \/ NotifyWrites(s, W, n, stack) /\ UNCHANGED pending
    BY <1>2 DEF Emit
  <2>3. /\ \A i \in Subscribers : /\ record'[i].generation = record[i].generation
                                 /\ record'[i].reads = record[i].reads
                                 /\ record'[i].growth = record[i].growth
                                 /\ \/ record'[i].matched = record[i].matched
                                    \/ Home[i] = s /\ record'[i].matched = n
        /\ stack' \in Seq(Frame) /\ Carries(stack') /\ AllAtHome(stack')
    <3>. HIDE DEF W, n
    <3>. QED  BY <1>0, <2>1, <2>2, NotifyLemma
  <2>4. \A t \in Stores : pending[t] \subseteq pending'[t]
    BY <2>2 DEF TypeOK
  <2>5. ASSUME NEW i \in registered, NEW r \in record[i].reads, Home[i] = s, Concerns(W, {r})
        PROVE  Owed(i, r)'
    <3>1. CASE pending' = [pending EXCEPT ![s] = @ \cup W]
      <4>1. W \subseteq pending'[Home[i]]
        BY <2>5, <3>1 DEF TypeOK
      <4>. QED  BY <2>5, <4>1 DEF Owed, Unmatched, Concerns
    <3>2. CASE NotifyWrites(s, W, n, stack)
      <4>1. PassOwes(i)'
        <5>. HIDE DEF W, n
        <5>. QED  BY <1>0, <2>1, <2>5, <3>2, NotifyLemma
      <4>. QED  BY <4>1 DEF PassOwes, Owed
    <3>. QED  BY <2>2, <3>1, <3>2
  <2>6. NoLostUpdate'
    <3>. SUFFICES ASSUME NEW i \in registered, NEW r \in record[i].reads,
                         NEW v \in 1..MaxVersion, ~disposed[Home[i]], Missed(i, r, v)'
                  PROVE  Owed(i, r)'
      BY <2>3 DEF NoLostUpdate, TypeOK
    <3>1. CASE Home[i] = s /\ v = n
      <4>1. writeLog'[s][n] = W
        BY <2>1 DEF TypeOK
      <4>. QED  BY <2>5, <3>1, <4>1 DEF Missed
    <3>2. CASE ~(Home[i] = s /\ v = n)
      <4>0. i \in Subscribers /\ Home[i] \in Stores
        BY DEF TypeOK
      <4>1. writeLog'[Home[i]][v] = writeLog[Home[i]][v]
        BY <2>1, <3>2, <4>0 DEF TypeOK
      <4>2. v <= version[Home[i]]
        <5>1. v <= version'[Home[i]]
          BY DEF Missed
        <5>. QED  BY <2>1, <3>2, <4>0, <5>1 DEF TypeOK
      <4>3. Missed(i, r, v)
        BY <4>1, <4>2 DEF Missed
      <4>4. Owed(i, r)
        BY <4>3 DEF NoLostUpdate
      <4>. QED  BY <2>3, <2>4, <4>0, <4>4, CarryLemma
    <3>. QED  BY <3>1, <3>2
  <2>7. GenerationsBounded'
    BY <2>3 DEF GenerationsBounded, TypeOK
  <2>8. SelectedAtHome'
    BY <2>3 DEF SelectedAtHome, AllAtHome, AtHome, Frames
  <2>9. Marked'
    <3>. SUFFICES ASSUME NEW i \in registered, NEW v \in 1..MaxVersion,
                         ~disposed[Home[i]], record[i].growth < v, v <= version'[Home[i]],
                         Concerns(writeLog'[Home[i]][v], record[i].reads)
                  PROVE  Covered(i, v)'
      BY <2>3 DEF Marked, TypeOK
    <3>0. /\ i \in Subscribers /\ Home[i] \in Stores /\ version[Home[i]] \in Nat
          /\ record[i].matched \in Nat /\ record'[i].reads = record[i].reads
      BY <2>3 DEF TypeOK, Record
    <3>1. CASE Home[i] = s /\ v = n
      <4>0. Concerns(W, record[i].reads)
        BY <2>1, <3>1 DEF TypeOK
      <4>1. CASE pending' = [pending EXCEPT ![s] = @ \cup W]
        <5>1. W \subseteq Unmatched(s)'
          BY <4>1 DEF Unmatched, TypeOK
        <5>. QED  BY <3>0, <3>1, <4>0, <5>1 DEF Covered, Concerns
      <4>2. CASE NotifyWrites(s, W, n, stack)
        <5>. HIDE DEF W, n
        <5>1. \A j \in registered :
                ~disposed[s] /\ Home[j] = s /\ Concerns(W, record[j].reads)
                => record'[j].matched = n
          BY <1>0, <2>1, <4>2, NotifyLemma
        <5>. QED  BY <2>1, <3>1, <4>0, <5>1 DEF Covered
      <4>. QED  BY <2>2, <4>1, <4>2
    <3>2. CASE ~(Home[i] = s /\ v = n)
      <4>1. writeLog'[Home[i]][v] = writeLog[Home[i]][v] /\ v <= version[Home[i]]
        BY <2>1, <3>0, <3>2 DEF TypeOK
      <4>2. Covered(i, v)
        BY <4>1 DEF Marked
      <4>3. UnmatchedKept
        BY <1>0, <2>3, <2>4, KeptLemma
      <4>4. CASE Concerns(Unmatched(Home[i]), record[i].reads)
        BY <3>0, <4>3, <4>4 DEF Covered, UnmatchedKept, Concerns
      <4>5. CASE record[i].matched >= v
        <5>1. \/ record'[i].matched = record[i].matched
              \/ Home[i] = s /\ record'[i].matched = n
          BY <2>3, <3>0
        <5>. QED  BY <3>0, <4>1, <4>5, <5>1 DEF Covered
      <4>. QED  BY <4>2, <4>4, <4>5 DEF Covered
    <3>. QED  BY <3>1, <3>2
  <2>. QED  BY <2>6, <2>7, <2>8, <2>9 DEF Safe
<1>. QED  BY <1>1, <1>2

(***************************************************************************)
(* The flush hands what the batch held for store s to a pass, and keeps    *)
(* the rest.                                                               *)
(***************************************************************************)
LEMMA NotifyBatchedLemma ==
  ASSUME IInv, NEW s \in Stores, NotifyBatched(s)
  PROVE  Safe'
<1>. USE BoundsLemma DEF IInv
<1>. DEFINE f == [Top EXCEPT !.batch[s] = {}]
            n == Len(stack)
<1>1. /\ Top \in FlushFrame /\ n > 0 /\ n \in Nat /\ AllAtHome(stack)
      /\ stack \in Seq(Frame)
  BY TopLemma, AtHomeLemma DEF NotifyBatched, Running, TypeOK
<1>2. /\ f \in Frame /\ AtHome(f) /\ f.kind = "flush" /\ f.batch[s] = {}
      /\ \A t \in Stores : t # s => f.batch[t] = Top.batch[t]
  BY <1>1 DEF Frame, FlushFrame, AtHome
<1>. DEFINE frames == Retop(f)
<1>3. /\ frames \in Seq(Frame) /\ AllAtHome(frames) /\ Len(frames) = n
      /\ \A k \in 1..n - 1 : frames[k] = stack[k]
      /\ frames[n] = f
  <2>. HIDE DEF f
  <2>. QED  BY <1>1, <1>2, RetopCarries, RetopLemma
<1>4. /\ NotifyWrites(s, Top.batch[s], version[s], frames)
      /\ UNCHANGED <<version, disposed, writeLog, counter, registered, since,
                     scheduled, pending, seen>>
  BY DEF NotifyBatched
<1>5. version[s] \in 0..MaxVersion
  BY DEF TypeOK
<1>. HIDE DEF f, frames
<1>6. /\ \A i \in Subscribers : /\ record'[i].generation = record[i].generation
                              /\ record'[i].reads = record[i].reads
                              /\ record'[i].growth = record[i].growth
                              /\ \/ record'[i].matched = record[i].matched
                                 \/ Home[i] = s /\ record'[i].matched = version[s]
      /\ \A i \in registered :
              ~disposed[s] /\ Home[i] = s /\ Concerns(Top.batch[s], record[i].reads)
              => record'[i].matched = version[s]
      /\ stack' \in Seq(Frame) /\ AllAtHome(stack')
      /\ \A i \in registered : \A r \in record[i].reads :
              ~disposed[s] /\ Home[i] = s /\ Concerns(Top.batch[s], {r}) => PassOwes(i)'
  BY <1>3, <1>4, <1>5, NotifyLemma
<1>7. \A k \in 1..n : k \in 1..Len(stack') /\ stack'[k] = frames[k]
  <2>1. CASE disposed[s]
    BY <1>1, <1>3, <1>4, <2>1 DEF NotifyWrites
  <2>2. CASE ~disposed[s]
    <3>1. PICK g : stack' = Append(frames, g)
      BY <1>4, <2>2 DEF NotifyWrites
    <3>2. Len(stack') = n + 1 /\ \A k \in 1..n : stack'[k] = frames[k]
      BY <1>1, <1>3, <3>1
    <3>. QED  BY <1>1, <3>2
  <2>. QED  BY <2>1, <2>2
<1>8. ASSUME NEW i \in registered, NEW r \in record[i].reads, ~disposed[Home[i]], Owed(i, r)
      PROVE  Owed(i, r)'
  <2>0. i \in Subscribers /\ Home[i] \in Stores
    BY DEF TypeOK
  <2>1. ASSUME NEW k \in Frames("flush"), Concerns(stack[k].batch[Home[i]], {r})
        PROVE  Owed(i, r)'
    <3>1. CASE k = n /\ Home[i] = s
      <4>1. PassOwes(i)'
        BY <1>6, <1>8, <2>1, <3>1 DEF Top
      <4>. QED  BY <4>1 DEF PassOwes, Owed
    <3>2. CASE ~(k = n /\ Home[i] = s)
      <4>1. k \in 1..n /\ stack[k].kind = "flush"
        BY DEF Frames
      <4>2. stack'[k].kind = "flush" /\ stack'[k].batch[Home[i]] = stack[k].batch[Home[i]]
        <5>1. CASE k = n
          BY <1>2, <1>3, <1>7, <2>0, <3>2, <4>1, <5>1 DEF Top
        <5>2. CASE k # n
          <6>1. k \in 1..n - 1
            BY <1>1, <4>1, <5>2
          <6>. QED  BY <1>3, <1>7, <4>1, <6>1
        <5>. QED  BY <5>1, <5>2
      <4>3. k \in Frames("flush")'
        BY <1>7, <4>1, <4>2 DEF Frames
      <4>4. BatchOwes(i, r)'
        BY <2>1, <4>2, <4>3 DEF BatchOwes
      <4>. QED  BY <4>4 DEF BatchOwes, Owed, Unmatched, Concerns
    <3>. QED  BY <3>1, <3>2
  <2>2. CASE Concerns(pending[Home[i]], {r})
    BY <1>4, <2>2 DEF Owed, Unmatched, Concerns
  <2>3. CASE PassOwes(i)
    <3>1. PICK k \in Frames("notify") : /\ stack[k].store = Home[i]
                                        /\ i \in stack[k].todo
                                        /\ record[i].generation <= stack[k].generation
      BY <2>3 DEF PassOwes
    <3>2. k \in 1..n /\ k # n
      BY <1>1 DEF Frames, Top, FlushFrame
    <3>3. k \in 1..n - 1
      BY <1>1, <3>2
    <3>4. stack'[k] = stack[k] /\ k \in 1..Len(stack')
      BY <1>3, <1>7, <3>2, <3>3
    <3>. QED  BY <1>6, <2>0, <3>1, <3>4 DEF Owed, Frames
  <2>4. CASE scheduled[i] = record[i].generation
    BY <1>4, <1>6, <2>0, <2>4 DEF Owed
  <2>. QED  BY <1>8, <2>1, <2>2, <2>3, <2>4, OwedLemma DEF BatchOwes
<1>9. NoLostUpdate'
  BY <1>4, <1>6, <1>8 DEF NoLostUpdate, Missed, TypeOK
<1>10. GenerationsBounded'
  BY <1>4, <1>6 DEF GenerationsBounded, TypeOK
<1>11. SelectedAtHome'
  BY <1>6 DEF SelectedAtHome, AllAtHome, AtHome, Frames
<1>12. ASSUME NEW t \in Stores
       PROVE  Unmatched(t) \subseteq Unmatched(t)' \cup {p \in Top.batch[s] : t = s}
  <2>. SUFFICES ASSUME NEW k \in Frames("flush"), k # n \/ t # s
                PROVE  stack[k].batch[t] \subseteq Unmatched(t)'
    BY <1>4 DEF Unmatched, Top
  <2>1. k \in 1..n /\ stack[k].kind = "flush" /\ (k = n \/ k \in 1..n - 1)
    BY <1>1 DEF Frames
  <2>2. stack'[k].kind = "flush" /\ stack'[k].batch[t] = stack[k].batch[t]
    BY <1>2, <1>3, <1>7, <2>1 DEF Top
  <2>3. k \in Frames("flush")'
    BY <1>7, <2>1, <2>2 DEF Frames
  <2>. QED  BY <2>2, <2>3 DEF Unmatched
<1>13. Marked'
  <2>. SUFFICES ASSUME NEW i \in registered, NEW v \in 1..MaxVersion,
                       ~disposed[Home[i]], record[i].growth < v, v <= version[Home[i]],
                       Concerns(writeLog[Home[i]][v], record[i].reads)
                PROVE  Covered(i, v)'
    BY <1>4, <1>6 DEF Marked, TypeOK
  <2>0. /\ i \in Subscribers /\ Home[i] \in Stores /\ version[Home[i]] \in Nat
        /\ record[i].matched \in Nat /\ record'[i].reads = record[i].reads
    BY <1>6 DEF TypeOK, Record
  <2>1. Covered(i, v)
    BY DEF Marked
  <2>2. CASE Home[i] = s /\ Concerns(Top.batch[s], record[i].reads)
    <3>1. record'[i].matched = version[s]
      BY <1>6, <2>2
    <3>. QED  BY <2>0, <2>2, <3>1 DEF Covered
  <2>3. CASE /\ Concerns(Unmatched(Home[i]), record[i].reads)
             /\ ~(Home[i] = s /\ Concerns(Top.batch[s], record[i].reads))
    BY <1>12, <2>0, <2>3 DEF Covered, Concerns
  <2>4. CASE record[i].matched >= v
    <3>1. \/ record'[i].matched = record[i].matched
          \/ Home[i] = s /\ record'[i].matched = version[s]
      BY <1>6, <2>0
    <3>. QED  BY <2>0, <2>4, <3>1 DEF Covered
  <2>. QED  BY <2>1, <2>2, <2>3, <2>4 DEF Covered
<1>. QED  BY <1>9, <1>10, <1>11, <1>13 DEF Safe

(***************************************************************************)
(* A flush takes the batch over unchanged.                                 *)
(***************************************************************************)
LEMMA TakeBatchLemma ==
  ASSUME IInv, TakeBatch
  PROVE  Safe'
<1>. USE BoundsLemma DEF IInv
<1>. DEFINE f == [Top EXCEPT !.batch = pending]
            n == Len(stack)
<1>1. /\ Top \in FlushFrame /\ n > 0 /\ n \in Nat /\ AllAtHome(stack)
      /\ stack \in Seq(Frame)
  BY TopLemma, AtHomeLemma DEF TakeBatch, Running, TypeOK
<1>2. f \in Frame /\ AtHome(f) /\ f.kind = "flush" /\ f.batch = pending
  BY <1>1 DEF Frame, FlushFrame, AtHome, TypeOK
<1>3. /\ stack' = Retop(f) /\ Top.batch = NoBatch
      /\ UNCHANGED <<version, disposed, writeLog, counter, registered, record, since,
                     scheduled, seen>>
  BY DEF TakeBatch
<1>. HIDE DEF f
<1>4. /\ stack' \in Seq(Frame) /\ AllAtHome(stack') /\ Len(stack') = n
      /\ \A k \in 1..n - 1 : stack'[k] = stack[k]
      /\ stack'[n] = f
  BY <1>1, <1>2, <1>3, RetopCarries, RetopLemma
<1>5. ASSUME NEW i \in registered, NEW r, Owed(i, r)
      PROVE  Owed(i, r)'
  <2>0. i \in Subscribers /\ Home[i] \in Stores
    BY DEF TypeOK
  <2>1. ASSUME NEW k \in 1..n, k # n PROVE stack'[k] = stack[k] /\ k \in 1..Len(stack')
    BY <1>1, <1>4, <2>1
  <2>2. CASE Concerns(pending[Home[i]], {r})
    <3>1. n \in Frames("flush")' /\ stack'[n].batch = pending
      BY <1>1, <1>2, <1>4 DEF Frames
    <3>. QED  BY <2>2, <3>1 DEF Owed, Unmatched, Concerns
  <2>3. ASSUME NEW k \in Frames("flush"), Concerns(stack[k].batch[Home[i]], {r})
        PROVE  Owed(i, r)'
    <3>1. k \in 1..n /\ k # n
      BY <1>3, <2>0, <2>3 DEF Frames, Top, NoBatch, Concerns
    <3>2. k \in Frames("flush")' /\ stack'[k] = stack[k]
      BY <2>1, <3>1 DEF Frames
    <3>. QED  BY <2>3, <3>2 DEF Owed, Unmatched, Concerns
  <2>4. CASE PassOwes(i)
    <3>1. PICK k \in Frames("notify") : /\ stack[k].store = Home[i]
                                        /\ i \in stack[k].todo
                                        /\ record[i].generation <= stack[k].generation
      BY <2>4 DEF PassOwes
    <3>2. k \in 1..n /\ k # n
      BY <1>1 DEF Frames, Top, FlushFrame
    <3>3. k \in Frames("notify")' /\ stack'[k] = stack[k]
      BY <2>1, <3>2 DEF Frames
    <3>. QED  BY <1>3, <3>1, <3>3 DEF Owed
  <2>5. CASE scheduled[i] = record[i].generation
    BY <1>3, <2>5 DEF Owed
  <2>. QED  BY <1>5, <2>2, <2>3, <2>4, <2>5, OwedLemma DEF BatchOwes
<1>6. NoLostUpdate'
  BY <1>3, <1>5 DEF NoLostUpdate, Missed
<1>7. GenerationsBounded'
  BY <1>3 DEF GenerationsBounded
<1>8. SelectedAtHome'
  BY <1>4 DEF SelectedAtHome, AllAtHome, AtHome, Frames
<1>9. UnmatchedKept
  <2>. SUFFICES ASSUME NEW t \in Stores, NEW p \in Unmatched(t) PROVE p \in Unmatched(t)'
    BY DEF UnmatchedKept
  <2>1. CASE p \in pending[t]
    <3>1. n \in Frames("flush")' /\ stack'[n].batch = pending
      BY <1>1, <1>2, <1>4 DEF Frames
    <3>. QED  BY <2>1, <3>1 DEF Unmatched
  <2>2. ASSUME NEW k \in Frames("flush"), p \in stack[k].batch[t]
        PROVE  p \in Unmatched(t)'
    <3>1. k \in 1..n - 1
      BY <1>1, <1>3, <2>2 DEF Frames, Top, NoBatch
    <3>2. k \in Frames("flush")' /\ stack'[k] = stack[k]
      BY <1>1, <1>4, <3>1 DEF Frames
    <3>. QED  BY <2>2, <3>2 DEF Unmatched
  <2>. QED  BY <2>1, <2>2 DEF Unmatched
<1>10. Marked'
  BY <1>3, <1>9, MarkedLemma DEF TypeOK
<1>. QED  BY <1>6, <1>7, <1>8, <1>10 DEF Safe

(***************************************************************************)
(* The pass reaches id i: its callback runs, or waits in the scheduler, or *)
(* the registration is not the one the pass selected.                      *)
(***************************************************************************)
LEMMA DeliverLemma ==
  ASSUME IInv, NEW d \in Subscribers, Deliver(d)
  PROVE  Safe'
<1>. USE BoundsLemma DEF IInv
<1>. DEFINE f == [Top EXCEPT !.todo = @ \ {d}]
            n == Len(stack)
            rest == Retop(f)
<1>1. /\ Top \in NotifyFrame /\ n > 0 /\ n \in Nat /\ AllAtHome(stack)
      /\ stack \in Seq(Frame)
  BY TopLemma, AtHomeLemma DEF Deliver, Running, TypeOK
<1>2. AtHome(Top) /\ Home[d] = Top.store
  <2>1. AtHome(stack[n])
    BY <1>1 DEF AllAtHome
  <2>. QED  BY <1>1, <2>1 DEF AtHome, NotifyFrame, Top, Deliver
<1>3. /\ f \in Frame /\ AtHome(f) /\ f.kind = "notify" /\ f.store = Top.store
      /\ f.generation = Top.generation /\ f.todo = Top.todo \ {d}
  BY <1>1, <1>2 DEF Frame, NotifyFrame, AtHome
<1>4. /\ rest \in Seq(Frame) /\ AllAtHome(rest) /\ Len(rest) = n
      /\ \A k \in 1..n - 1 : rest[k] = stack[k]
      /\ rest[n] = f
  <2>. HIDE DEF f
  <2>. QED  BY <1>1, <1>3, RetopCarries, RetopLemma
<1>5. /\ UNCHANGED <<version, disposed, writeLog, counter, registered, record, since, pending>>
      /\ \/ ~StillSelected(d) /\ stack' = rest /\ UNCHANGED <<scheduled, seen>>
         \/ /\ stack' = rest
            /\ scheduled' = [scheduled EXCEPT ![d] = record[d].generation]
            /\ UNCHANGED seen
         \/ /\ stack' = Append(rest, Call(d))
            /\ seen' = [seen EXCEPT ![d] = version[Top.store]]
            /\ UNCHANGED scheduled
  BY DEF Deliver
<1>6. Call(d) \in Frame /\ AtHome(Call(d))
  BY DEF Call, Frame, CallFrame, AtHome
<1>. HIDE DEF f, rest
<1>7. /\ stack' \in Seq(Frame) /\ AllAtHome(stack')
      /\ \A k \in 1..n : k \in 1..Len(stack') /\ stack'[k] = rest[k]
  <2>1. CASE stack' = rest
    BY <1>1, <1>4, <2>1
  <2>2. CASE stack' = Append(rest, Call(d))
    <3>1. /\ stack' \in Seq(Frame) /\ Len(stack') = n + 1
          /\ \A k \in 1..n : stack'[k] = rest[k]
      BY <1>4, <1>6, <2>2, PushLemma
    <3>2. AllAtHome(stack')
      BY <1>1, <1>4, <1>6, <2>2, PushCarries
    <3>. QED  BY <1>1, <3>1, <3>2
  <2>. QED  BY <1>5, <2>1, <2>2
<1>8. \A k \in 1..n : \/ k # n /\ stack'[k] = stack[k]
                      \/ k = n /\ stack'[k] = f
  <2>. SUFFICES ASSUME NEW k \in 1..n, k # n PROVE rest[k] = stack[k]
    BY <1>1, <1>4, <1>7
  <2>1. k \in 1..n - 1
    BY <1>1
  <2>. QED  BY <1>4, <2>1
<1>9. ASSUME NEW i \in registered, NEW r \in record[i].reads, NEW v \in 1..MaxVersion,
             ~disposed[Home[i]], Missed(i, r, v)'
      PROVE  Owed(i, r)'
  <2>0. i \in Subscribers /\ Home[i] \in Stores
    BY DEF TypeOK
  <2>1. Missed(i, r, v) /\ (i = d => UNCHANGED seen)
    <3>1. CASE UNCHANGED seen
      BY <1>5, <1>9, <3>1 DEF Missed
    <3>2. CASE seen' = [seen EXCEPT ![d] = version[Top.store]]
      <4>1. CASE i = d
        <5>1. seen'[i] = version[Home[i]] /\ version[Home[i]] \in 0..MaxVersion
          BY <1>2, <2>0, <3>2, <4>1 DEF TypeOK
        <5>2. seen'[i] < v /\ v <= version[Home[i]]
          BY <1>5, <1>9 DEF Missed
        <5>. QED  BY <5>1, <5>2
      <4>2. CASE i # d
        <5>1. seen'[i] = seen[i]
          BY <2>0, <3>2, <4>2 DEF TypeOK
        <5>. QED  BY <1>5, <1>9, <4>2, <5>1 DEF Missed
      <4>. QED  BY <4>1, <4>2
    <3>. QED  BY <1>5, <3>1, <3>2
  <2>2. Owed(i, r)
    BY <1>9, <2>1 DEF NoLostUpdate
  <2>3. CASE Concerns(pending[Home[i]], {r})
    BY <1>5, <2>3 DEF Owed, Unmatched, Concerns
  <2>4. ASSUME NEW k \in Frames("flush"), Concerns(stack[k].batch[Home[i]], {r})
        PROVE  Owed(i, r)'
    <3>1. k \in 1..n /\ k # n
      BY <1>1, <2>4 DEF Frames, Top, NotifyFrame
    <3>2. k \in Frames("flush")' /\ stack'[k] = stack[k]
      BY <1>7, <1>8, <3>1 DEF Frames
    <3>. QED  BY <2>4, <3>2 DEF Owed, Unmatched, Concerns
  <2>5. CASE scheduled[i] = record[i].generation
    <3>1. scheduled'[i] = record[i].generation
      BY <1>5, <2>0, <2>5 DEF TypeOK
    <3>. QED  BY <1>5, <3>1 DEF Owed
  <2>6. ASSUME NEW k \in Frames("notify"), stack[k].store = Home[i], i \in stack[k].todo,
               record[i].generation <= stack[k].generation
        PROVE  Owed(i, r)'
    <3>0. k \in 1..n /\ stack[k].kind = "notify"
      BY DEF Frames
    <3>1. CASE k # n
      <4>1. k \in Frames("notify")' /\ stack'[k] = stack[k]
        BY <1>7, <1>8, <3>0, <3>1 DEF Frames
      <4>. QED  BY <1>5, <2>6, <4>1 DEF Owed
    <3>2. CASE k = n /\ i # d
      <4>1. k \in Frames("notify")' /\ stack'[k] = f
        BY <1>3, <1>7, <1>8, <3>0, <3>2 DEF Frames
      <4>2. i \in f.todo /\ f.store = Home[i] /\ record[i].generation <= f.generation
        BY <1>3, <2>6, <3>2 DEF Top
      <4>. QED  BY <1>5, <4>1, <4>2 DEF Owed
    <3>3. CASE k = n /\ i = d
      <4>1. StillSelected(d)
        BY <1>2, <1>9, <2>6, <3>3 DEF StillSelected, Top
      <4>2. UNCHANGED seen
        BY <2>1, <3>3
      <4>3. scheduled' = [scheduled EXCEPT ![d] = record[d].generation]
              \/ seen' = [seen EXCEPT ![d] = version[Top.store]]
        BY <1>5, <4>1
      <4>4. CASE scheduled' = [scheduled EXCEPT ![d] = record[d].generation]
        <5>1. scheduled'[i] = record[i].generation
          BY <2>0, <3>3, <4>4 DEF TypeOK
        <5>. QED  BY <1>5, <5>1 DEF Owed
      <4>5. CASE seen' = [seen EXCEPT ![d] = version[Top.store]]
        <5>1. seen'[i] = version[Home[i]] /\ version[Home[i]] \in 0..MaxVersion
          BY <1>2, <2>0, <3>3, <4>5 DEF TypeOK
        <5>2. seen'[i] < v /\ v <= version[Home[i]]
          BY <1>5, <1>9 DEF Missed
        <5>. QED  BY <5>1, <5>2
      <4>. QED  BY <4>3, <4>4, <4>5
    <3>. QED  BY <3>1, <3>2, <3>3
  <2>. QED  BY <2>2, <2>3, <2>4, <2>5, <2>6, OwedLemma DEF BatchOwes, PassOwes
<1>10. NoLostUpdate'
  BY <1>5, <1>9 DEF NoLostUpdate
<1>11. GenerationsBounded'
  BY <1>5 DEF GenerationsBounded
<1>12. SelectedAtHome'
  BY <1>7 DEF SelectedAtHome, AllAtHome, AtHome, Frames
<1>13. UnmatchedKept
  <2>. SUFFICES ASSUME NEW t \in Stores, NEW k \in Frames("flush")
                PROVE  stack[k].batch[t] \subseteq Unmatched(t)'
    BY <1>5 DEF UnmatchedKept, Unmatched
  <2>1. k \in 1..n /\ k # n
    BY <1>1 DEF Frames, Top, NotifyFrame
  <2>2. k \in Frames("flush")' /\ stack'[k] = stack[k]
    BY <1>7, <1>8, <2>1 DEF Frames
  <2>. QED  BY <2>2 DEF Unmatched
<1>14. Marked'
  BY <1>5, <1>13, MarkedLemma DEF TypeOK
<1>. QED  BY <1>10, <1>11, <1>12, <1>14 DEF Safe

-----------------------------------------------------------------------------
(***************************************************************************)
(* Steps that change the registrations and leave the stack alone.          *)
(***************************************************************************)

\* Whatever happens to the others, an id nothing happened to is still owed
\* what it was owed.
LEMMA OthersLemma ==
  ASSUME IInv, NEW i \in registered, NEW r \in record[i].reads, NEW v \in 1..MaxVersion,
         ~disposed[Home[i]], Missed(i, r, v), UNCHANGED <<stack, pending>>,
         scheduled'[i] = scheduled[i], record'[i].generation = record[i].generation
  PROVE  Owed(i, r)'
<1>1. Owed(i, r) /\ i \in Subscribers /\ TypeOK
  BY DEF IInv, NoLostUpdate, TypeOK
<1>. QED  BY <1>1, CarryLemma, SameCarries DEF TypeOK

LEMMA StackAlone ==
  ASSUME IInv, UNCHANGED <<stack, pending>>
  PROVE  SelectedAtHome' /\ UnmatchedKept
BY DEF IInv, SelectedAtHome, UnmatchedKept, Unmatched, Frames

LEMMA SubscribeLemma ==
  ASSUME IInv, NEW j \in Subscribers, NEW R \in ReadSets, Subscribe(j, R)
  PROVE  Safe'
<1>. USE BoundsLemma DEF IInv
<1>. DEFINE new == [generation |-> counter[Home[j]] + 1, matched |-> 0,
                    growth |-> version[Home[j]], reads |-> R]
<1>1. /\ \A i \in Subscribers \ {j} : /\ record'[i] = record[i] /\ seen'[i] = seen[i]
                                     /\ scheduled'[i] = scheduled[i] /\ since'[i] = since[i]
      /\ record'[j] = new /\ seen'[j] = version[Home[j]]
      /\ registered' = registered \cup {j}
      /\ UNCHANGED <<version, writeLog, disposed, pending, stack>>
  BY DEF Subscribe, Retract, TypeOK
<1>2. NoLostUpdate'
  <2>. SUFFICES ASSUME NEW i \in registered', NEW r \in record'[i].reads,
                       NEW v \in 1..MaxVersion, ~disposed[Home[i]], Missed(i, r, v)'
                PROVE  Owed(i, r)'
    BY <1>1 DEF NoLostUpdate
  <2>1. i # j
    <3>. SUFFICES ASSUME i = j PROVE FALSE
      OBVIOUS
    <3>1. version[Home[j]] < v /\ v <= version[Home[j]] /\ version[Home[j]] \in 0..MaxVersion
      BY <1>1 DEF Missed, TypeOK
    <3>. QED  BY <3>1
  <2>2. i \in registered /\ i \in Subscribers \ {j}
    BY <1>1, <2>1 DEF TypeOK
  <2>3. Missed(i, r, v) /\ r \in record[i].reads
    BY <1>1, <2>2 DEF Missed
  <2>. QED  BY <1>1, <2>2, <2>3, OthersLemma
<1>3. GenerationsBounded'
  <2>1. \A s \in Stores : counter[s] <= counter'[s] /\ counter[s] \in Nat /\ counter'[s] \in Nat
    BY DEF Subscribe, TypeOK
  <2>2. counter'[Home[j]] = counter[Home[j]] + 1
    BY DEF Subscribe, TypeOK
  <2>3. \A i \in Subscribers : record[i].generation \in Nat
    BY DEF TypeOK, Record
  <2>4. ASSUME NEW i \in registered' PROVE record'[i].generation <= counter'[Home[i]]
    <3>1. CASE i = j
      BY <1>1, <2>1, <2>2, <3>1
    <3>2. CASE i # j
      <4>1. i \in registered /\ i \in Subscribers /\ record'[i] = record[i]
        BY <1>1, <3>2 DEF TypeOK
      <4>2. record[i].generation <= counter[Home[i]]
        BY <4>1 DEF GenerationsBounded
      <4>. QED  BY <2>1, <2>3, <4>1, <4>2
    <3>. QED  BY <3>1, <3>2
  <2>. QED  BY <2>4 DEF GenerationsBounded
<1>4. Marked'
  <2>1. \A i \in registered' : \/ record'[i].growth = version[Home[i]]
                               \/ i \in registered /\ record'[i] = record[i]
    BY <1>1 DEF TypeOK
  <2>. QED  BY <1>1, <2>1, StackAlone, MarkedLemma DEF TypeOK
<1>. QED  BY <1>1, <1>2, <1>3, <1>4, StackAlone DEF Safe

\* New reads for id j: a path it already read is watched since the same
\* version, a new one from now on.
LEMMA RereadLemma ==
  ASSUME IInv, NEW j \in registered, NEW R,
         \A i \in Subscribers \ {j} : record'[i] = record[i] /\ since'[i] = since[i],
         record'[j].generation = record[j].generation, record'[j].reads = R,
         record'[j].growth = version[Home[j]], R \subseteq AllPaths, since'[j] = WatchedSince(j, R),
         UNCHANGED <<version, writeLog, disposed, counter, registered, scheduled, pending,
                     stack, seen>>
  PROVE  Safe'
<1>. USE BoundsLemma DEF IInv
<1>1. NoLostUpdate'
  <2>. SUFFICES ASSUME NEW i \in registered, NEW r \in record'[i].reads,
                       NEW v \in 1..MaxVersion, ~disposed[Home[i]], Missed(i, r, v)'
                PROVE  Owed(i, r)'
    BY DEF NoLostUpdate
  <2>0. i \in Subscribers
    BY DEF TypeOK
  <2>1. CASE i = j
    <3>1. since'[j][r] = IF r \in R \ record[j].reads THEN version[Home[j]] ELSE since[j][r]
      BY <2>1 DEF WatchedSince
    <3>2. since'[j][r] < v /\ v <= version[Home[j]] /\ version[Home[j]] \in 0..MaxVersion
      BY <2>0, <2>1 DEF Missed, TypeOK
    <3>3. r \in record[j].reads
      BY <2>1, <3>1, <3>2
    <3>4. Missed(i, r, v)
      BY <2>1, <3>1, <3>3 DEF Missed
    <3>. QED  BY <2>0, <2>1, <3>3, <3>4, OthersLemma
  <2>2. CASE i # j
    <3>1. Missed(i, r, v) /\ r \in record[i].reads /\ record'[i] = record[i]
      BY <2>0, <2>2 DEF Missed
    <3>. QED  BY <2>0, <3>1, OthersLemma
  <2>. QED  BY <2>1, <2>2
<1>2. GenerationsBounded'
  BY DEF GenerationsBounded, TypeOK
<1>3. Marked'
  <2>1. \A i \in registered : record'[i].growth = version[Home[i]] \/ record'[i] = record[i]
    BY DEF TypeOK
  <2>. QED  BY <2>1, StackAlone, MarkedLemma DEF TypeOK
<1>. QED  BY <1>1, <1>2, <1>3, StackAlone DEF Safe

LEMMA UnsubscribeLemma ==
  ASSUME IInv, NEW j \in Subscribers, Unsubscribe(j)
  PROVE  Safe'
<1>. USE DEF IInv
<1>1. /\ \A i \in Subscribers \ {j} : /\ record'[i] = record[i] /\ seen'[i] = seen[i]
                                     /\ scheduled'[i] = scheduled[i] /\ since'[i] = since[i]
      /\ registered' = registered \ {j}
      /\ UNCHANGED <<version, writeLog, disposed, counter, pending, stack>>
  BY DEF Unsubscribe, Retract, TypeOK
<1>2. \A i \in registered' : i \in registered /\ i \in Subscribers \ {j}
  BY <1>1 DEF TypeOK
<1>3. NoLostUpdate'
  <2>. SUFFICES ASSUME NEW i \in registered', NEW r \in record'[i].reads,
                       NEW v \in 1..MaxVersion, ~disposed[Home[i]], Missed(i, r, v)'
                PROVE  Owed(i, r)'
    BY <1>1 DEF NoLostUpdate
  <2>1. Missed(i, r, v) /\ r \in record[i].reads
    BY <1>1, <1>2 DEF Missed
  <2>. QED  BY <1>1, <1>2, <2>1, OthersLemma
<1>4. GenerationsBounded'
  BY <1>1, <1>2 DEF GenerationsBounded
<1>5. Marked'
  BY <1>1, <1>2, StackAlone, MarkedLemma
<1>. QED  BY <1>1, <1>3, <1>4, <1>5, StackAlone DEF Safe

LEMMA DisposeLemma ==
  ASSUME IInv, NEW s \in Mortal, Dispose(s)
  PROVE  Safe'
<1>. USE BoundsLemma DEF IInv
<1>1. /\ disposed' = [disposed EXCEPT ![s] = TRUE]
      /\ \A i \in Subscribers : Home[i] # s => scheduled'[i] = scheduled[i]
      /\ UNCHANGED <<version, writeLog, counter, registered, record, since, pending, stack, seen>>
  BY DEF Dispose
<1>2. NoLostUpdate'
  <2>. SUFFICES ASSUME NEW i \in registered, NEW r \in record[i].reads,
                       NEW v \in 1..MaxVersion, ~disposed'[Home[i]], Missed(i, r, v)'
                PROVE  Owed(i, r)'
    BY <1>1 DEF NoLostUpdate
  <2>1. i \in Subscribers /\ Home[i] \in Stores /\ s \in Stores
    BY CarburetorAssumption DEF TypeOK
  <2>2. Home[i] # s /\ ~disposed[Home[i]]
    BY <1>1, <2>1 DEF TypeOK
  <2>3. Missed(i, r, v)
    BY <1>1 DEF Missed
  <2>. QED  BY <1>1, <2>1, <2>2, <2>3, OthersLemma
<1>3. GenerationsBounded'
  BY <1>1 DEF GenerationsBounded
<1>4. Marked'
  <2>1. \A t \in Stores : disposed[t] => disposed'[t]
    BY <1>1 DEF TypeOK
  <2>. QED  BY <1>1, <2>1, StackAlone, MarkedLemma DEF TypeOK
<1>. QED  BY <1>1, <1>2, <1>3, <1>4, StackAlone DEF Safe

\* The event loop runs a queued callback.
LEMMA RunScheduledLemma ==
  ASSUME IInv, NEW j \in Subscribers, RunScheduled(j)
  PROVE  Safe'
<1>. USE BoundsLemma DEF IInv
<1>1. /\ stack = <<>> /\ stack' = <<Call(j)>>
      /\ \A i \in Subscribers \ {j} : scheduled'[i] = scheduled[i] /\ seen'[i] = seen[i]
      /\ seen'[j] = version[Home[j]]
      /\ UNCHANGED <<version, writeLog, disposed, counter, registered, record, since, pending>>
  BY DEF RunScheduled, TypeOK
<1>2. stack' \in Seq(Frame) /\ Carries(stack')
  <2>1. Call(j) \in Frame
    BY DEF Call, Frame, CallFrame
  <2>. QED  BY <1>1, <2>1 DEF Carries, Frames
<1>3. NoLostUpdate'
  <2>. SUFFICES ASSUME NEW i \in registered, NEW r \in record[i].reads,
                       NEW v \in 1..MaxVersion, ~disposed[Home[i]], Missed(i, r, v)'
                PROVE  Owed(i, r)'
    BY <1>1 DEF NoLostUpdate
  <2>0. i \in Subscribers
    BY DEF TypeOK
  <2>1. i # j
    <3>. SUFFICES ASSUME i = j PROVE FALSE
      OBVIOUS
    <3>1. version[Home[j]] < v /\ v <= version[Home[j]] /\ version[Home[j]] \in 0..MaxVersion
      BY <1>1 DEF Missed, TypeOK
    <3>. QED  BY <3>1
  <2>2. Missed(i, r, v)
    BY <1>1, <2>0, <2>1 DEF Missed
  <2>3. Owed(i, r)
    BY <2>2 DEF NoLostUpdate
  <2>. QED  BY <1>1, <1>2, <2>0, <2>1, <2>3, CarryLemma
<1>4. GenerationsBounded'
  BY <1>1 DEF GenerationsBounded
<1>5. SelectedAtHome'
  BY <1>1 DEF SelectedAtHome, Frames, Call
<1>6. UnmatchedKept
  BY <1>1, <1>2, KeptLemma DEF TypeOK
<1>7. Marked'
  BY <1>1, <1>6, MarkedLemma DEF TypeOK
<1>. QED  BY <1>3, <1>4, <1>5, <1>7 DEF Safe

-----------------------------------------------------------------------------
(***************************************************************************)
(* The invariant is inductive: one step of the proof per action.           *)
(***************************************************************************)
LEMMA InitSafe == Init => Safe
BY DEF Init, Safe, GenerationsBounded, SelectedAtHome, NoLostUpdate, Marked, Frames

LEMMA NextSafe == IInv /\ [Next]_vars => Safe'
<1>. SUFFICES ASSUME IInv, [Next]_vars PROVE Safe'
  OBVIOUS
<1>. USE BoundsLemma
<1>0. TypeOK /\ stack \in Seq(Frame) /\ Carries(stack) /\ AllAtHome(stack) /\ Len(stack) \in Nat
  BY SameCarries, AtHomeLemma DEF IInv, TypeOK
<1>1. ASSUME NEW s \in Stores, NEW W \in WriteSets, DraftWrite(s, W) PROVE Safe'
  BY <1>0, <1>1, QuietLemma DEF DraftWrite
<1>2. ASSUME NEW s \in Stores, EmitUpdate(s) PROVE Safe'
  BY <1>2, EmitLemma DEF EmitUpdate
<1>3. ASSUME NEW s \in Stores, EmitSoon(s) PROVE Safe'
  BY <1>0, <1>3, QuietLemma DEF EmitSoon
<1>4. ASSUME NEW s \in Mortal, Dispose(s) PROVE Safe'
  BY <1>4, DisposeLemma
<1>5. ASSUME BeginTransaction PROVE Safe'
  <2>. DEFINE f == [Top EXCEPT !.opened = @ + 1]
  <2>1. Len(stack) > 0 /\ Top.kind = "call" /\ Top \in CallFrame
    BY <1>0, <1>5, TopLemma DEF BeginTransaction, Running
  <2>2. f \in Frame /\ AtHome(f)
    BY <2>1 DEF Frame, CallFrame, AtHome
  <2>. HIDE DEF f
  <2>3. Retop(f) \in Seq(Frame) /\ Carries(Retop(f)) /\ AllAtHome(Retop(f))
    BY <1>0, <2>1, <2>2, RetopCarries
  <2>. QED  BY <1>5, <2>3, QuietLemma DEF BeginTransaction, f
<1>6. ASSUME EndTransaction PROVE Safe'
  <2>. DEFINE f == [Top EXCEPT !.opened = @ - 1]
              flush == [kind |-> "flush", batch |-> NoBatch]
  <2>1. Len(stack) > 0 /\ Top.kind = "call" /\ Top \in CallFrame
    BY <1>0, <1>6, TopLemma DEF EndTransaction, Running
  <2>2. f \in Frame /\ AtHome(f) /\ flush \in Frame /\ AtHome(flush)
    BY <1>6, <2>1 DEF EndTransaction, Frame, CallFrame, FlushFrame, NoBatch, AtHome
  <2>3. /\ stack' = Retop(f) \/ stack' = Append(Retop(f), flush)
        /\ UNCHANGED <<version, disposed, writeLog, counter, registered, record, since,
                       scheduled, pending, seen>>
    BY <1>6 DEF EndTransaction
  <2>. HIDE DEF f, flush
  <2>4. Retop(f) \in Seq(Frame) /\ Carries(Retop(f)) /\ AllAtHome(Retop(f))
    BY <1>0, <2>1, <2>2, RetopCarries
  <2>5. stack' \in Seq(Frame) /\ Carries(stack') /\ AllAtHome(stack')
    BY <1>0, <2>2, <2>3, <2>4, PushCarries, PushLemma
  <2>. QED  BY <2>3, <2>5, QuietLemma
<1>7. ASSUME NEW i \in Subscribers, NEW R \in ReadSets, Subscribe(i, R) PROVE Safe'
  BY <1>7, SubscribeLemma
<1>8. ASSUME NEW i \in Subscribers, NEW R \in ReadSets, Retain(i, R) PROVE Safe'
  <2>1. R \subseteq AllPaths /\ record[i] \in Record
    BY <1>0, CarburetorAssumption DEF TypeOK
  <2>2. /\ \A j \in Subscribers \ {i} : record'[j] = record[j] /\ since'[j] = since[j]
        /\ record'[i].generation = record[i].generation /\ record'[i].reads = R
        /\ record'[i].growth = version[Home[i]] /\ since'[i] = WatchedSince(i, R)
    BY <1>0, <1>8, <2>1 DEF Retain, TypeOK, Record
  <2>. QED  BY <1>8, <2>1, <2>2, RereadLemma DEF Retain
<1>9. ASSUME NEW i \in Subscribers, NEW p \in Extensions, Extend(i, p) PROVE Safe'
  <2>. DEFINE R == record[i].reads \cup {p}
  <2>1. R \subseteq AllPaths /\ record[i] \in Record
    BY <1>0, CarburetorAssumption DEF TypeOK, Record
  <2>2. /\ \A j \in Subscribers \ {i} : record'[j] = record[j] /\ since'[j] = since[j]
        /\ record'[i].generation = record[i].generation /\ record'[i].reads = R
        /\ record'[i].growth = version[Home[i]] /\ since'[i] = WatchedSince(i, R)
    BY <1>0, <1>9, <2>1 DEF Extend, TypeOK, Record
  <2>. HIDE DEF R
  <2>. QED  BY <1>9, <2>1, <2>2, RereadLemma DEF Extend
<1>10. ASSUME NEW i \in Subscribers, Unsubscribe(i) PROVE Safe'
  BY <1>10, UnsubscribeLemma
<1>11. ASSUME Return \/ EndNotify \/ EndFlush PROVE Safe'
  <2>1. /\ Len(stack) > 0 /\ stack' = Below
        /\ \/ Top.kind = "call"
           \/ Top.kind = "notify" /\ Top.todo = {}
           \/ Top.kind = "flush" /\ Top.batch = NoBatch
        /\ UNCHANGED <<version, disposed, writeLog, counter, registered, record, since,
                       scheduled, pending, seen>>
    BY <1>11 DEF Return, EndNotify, EndFlush, Running
  <2>2. Below \in Seq(Frame) /\ Carries(Below) /\ AllAtHome(Below)
    BY <1>0, <2>1, PopCarries
  <2>. QED  BY <2>1, <2>2, QuietLemma
<1>12. ASSUME TellObservers PROVE Safe'
  <2>. DEFINE f == [Top EXCEPT !.told = TRUE]
  <2>1. Len(stack) > 0 /\ Top.kind = "notify" /\ Top \in NotifyFrame
    BY <1>0, <1>12, TopLemma DEF TellObservers, Running
  <2>2. AtHome(Top)
    BY <1>0, <2>1 DEF AllAtHome, Top
  <2>3. /\ f \in Frame /\ AtHome(f) /\ f.kind = "notify"
        /\ f.store = Top.store /\ f.generation = Top.generation /\ f.todo = Top.todo
        /\ Call(NoOne) \in Frame /\ AtHome(Call(NoOne))
    BY <2>1, <2>2 DEF Frame, NotifyFrame, CallFrame, AtHome, Call
  <2>4. /\ stack' = Append(Retop(f), Call(NoOne))
        /\ UNCHANGED <<version, disposed, writeLog, counter, registered, record, since,
                       scheduled, pending, seen>>
    BY <1>12 DEF TellObservers
  <2>. HIDE DEF f
  <2>5. Retop(f) \in Seq(Frame) /\ Carries(Retop(f)) /\ AllAtHome(Retop(f))
    BY <1>0, <2>1, <2>3, RetopCarries
  <2>6. stack' \in Seq(Frame) /\ Carries(stack') /\ AllAtHome(stack')
    BY <1>0, <2>3, <2>4, <2>5, PushCarries, PushLemma
  <2>. QED  BY <2>4, <2>6, QuietLemma
<1>13. ASSUME NEW i \in Subscribers, Deliver(i) PROVE Safe'
  BY <1>13, DeliverLemma
<1>14. ASSUME TakeBatch PROVE Safe'
  BY <1>14, TakeBatchLemma
<1>15. ASSUME NEW s \in Stores, NotifyBatched(s) PROVE Safe'
  BY <1>15, NotifyBatchedLemma
<1>16. ASSUME RunMicrotask PROVE Safe'
  <2>. DEFINE s == Head(microtasks).store
  <2>1. s \in Stores
    <3>1. Head(microtasks) \in Microtask
      BY <1>0, <1>16, HeadTailProperties DEF RunMicrotask, TypeOK
    <3>. QED  BY <3>1 DEF Microtask
  <2>2. UNCHANGED <<disposed, counter, registered, since, scheduled, seen>>
    BY <1>16 DEF RunMicrotask
  <2>3. CASE StillUnpublished(s, Head(microtasks).at)
    <3>1. Emit(s, stack) /\ ~disposed[s]
      BY <1>16, <2>3 DEF RunMicrotask, StillUnpublished
    <3>. HIDE DEF s
    <3>. QED  BY <2>1, <2>2, <3>1, EmitLemma
  <2>4. CASE ~StillUnpublished(s, Head(microtasks).at)
    <3>1. UNCHANGED <<version, writeLog, record, pending, stack>>
      BY <1>16, <2>4 DEF RunMicrotask
    <3>. QED  BY <1>0, <2>2, <3>1, QuietLemma
  <2>. QED  BY <2>3, <2>4
<1>17. ASSUME NEW i \in Subscribers, RunScheduled(i) PROVE Safe'
  BY <1>17, RunScheduledLemma
<1>18. ASSUME StartTask PROVE Safe'
  <2>1. Call(NoOne) \in Frame /\ Call(NoOne).kind = "call" /\ stack = <<>> /\ stack' = <<Call(NoOne)>>
    BY <1>18 DEF StartTask, Call, Frame, CallFrame
  <2>2. stack' \in Seq(Frame) /\ Carries(stack') /\ AllAtHome(stack')
    BY <2>1 DEF Carries, Frames, AllAtHome, AtHome
  <2>. QED  BY <1>18, <2>2, QuietLemma DEF StartTask
<1>19. CASE UNCHANGED vars
  BY <1>0, <1>19, QuietLemma DEF vars
<1>. QED
  BY <1>1, <1>2, <1>3, <1>4, <1>5, <1>6, <1>7, <1>8, <1>9, <1>10, <1>11, <1>12, <1>13,
     <1>14, <1>15, <1>16, <1>17, <1>18, <1>19
  DEF Next, Application, Engine

(***************************************************************************)
(* No update is lost: a registered subscription that missed a publication  *)
(* of one of its paths still has a call coming, whatever the application   *)
(* does in its callbacks.                                                  *)
(***************************************************************************)
THEOREM NothingLost == Spec => []NoLostUpdate
<1>1. Init => IInv
  BY InitType, InitSafe DEF IInv, Safe
<1>2. IInv /\ [Next]_vars => IInv'
  BY NextType, NextSafe DEF IInv, Safe
<1>3. IInv => NoLostUpdate
  BY DEF IInv
<1>. QED  BY <1>1, <1>2, <1>3, PTL DEF Spec

(***************************************************************************)
(* The drift answer denies no write it could have seen: once everything    *)
(* published is matched, every publication that concerns a read set since  *)
(* it last grew shows in matchedVersion, and before that the log is asked. *)
(***************************************************************************)
THEOREM DriftSound == Spec => []DriftIsSoundOnceMatched
<1>1. Init => IInv
  BY InitType, InitSafe DEF IInv, Safe
<1>2. IInv /\ [Next]_vars => IInv'
  BY NextType, NextSafe DEF IInv, Safe
<1>3. IInv => DriftIsSoundOnceMatched
  <2>. SUFFICES ASSUME IInv, NEW i \in registered, NEW b \in 0..MaxVersion,
                       ~disposed[Home[i]], Unmatched(Home[i]) = {},
                       LogMatches(Home[i], b, record[i].reads), b >= record[i].growth
                PROVE  record[i].matched > b
    BY DEF DriftIsSoundOnceMatched, HasDrift
  <2>0. record[i].growth \in Nat /\ record[i].matched \in Nat
    BY BoundsLemma DEF IInv, TypeOK, Record
  <2>1. PICK v \in 1..MaxVersion :
          b < v /\ v <= version[Home[i]] /\ Concerns(writeLog[Home[i]][v], record[i].reads)
    BY DEF LogMatches
  <2>2. Covered(i, v)
    BY <2>0, <2>1, BoundsLemma DEF IInv, Marked
  <2>3. record[i].matched >= v
    BY <2>2 DEF Covered, Concerns
  <2>. QED  BY <2>0, <2>1, <2>3, BoundsLemma
<1>. QED  BY <1>1, <1>2, <1>3, PTL DEF Spec

-----------------------------------------------------------------------------
(***************************************************************************)
(* When callbacks start, for every number of stores and subscriptions:     *)
(* only for living registrations, and never while a transaction holds      *)
(* writes back.                                                            *)
(***************************************************************************)

(***************************************************************************)
(* The inductive invariant, beside that of delivery.  What the scheduler   *)
(* holds is the call of a registration that lives.  The open transactions  *)
(* are those of the frame on top: below it nothing is open, because a      *)
(* frame that opened one is not left before it closed it, except into the  *)
(* flush that closing starts.  Then what is in the batch is waiting for    *)
(* that frame, or for the flush on top.                                    *)
(***************************************************************************)
ScheduledLives ==
  \A i \in Subscribers : scheduled[i] # 0 =>
    i \in registered /\ ~disposed[Home[i]] /\ scheduled[i] = record[i].generation

Idle(f) == f.kind = "call" => f.opened = 0
AllIdle(frames) == \A k \in 1..Len(frames) : Idle(frames[k])

OpenOnTop ==
  /\ depth = IF Running("call") THEN Top.opened ELSE 0
  /\ \A k \in 1..Len(stack) - 1 : Idle(stack[k])

BatchAwaited == pending # NoBatch => depth > 0 \/ (Running("flush") /\ Top.batch = NoBatch)

JInv == ScheduledLives /\ OpenOnTop /\ BatchAwaited

-----------------------------------------------------------------------------
(***************************************************************************)
(* The stack.                                                              *)
(***************************************************************************)
LEMMA IdlePush ==
  ASSUME NEW frames \in Seq(Frame), NEW f \in Frame, AllIdle(frames), Idle(f)
  PROVE  AllIdle(Append(frames, f))
<1>. DEFINE g == Append(frames, f)
<1>1. /\ Len(g) = Len(frames) + 1
      /\ \A k \in 1..Len(frames) : g[k] = frames[k]
      /\ g[Len(frames) + 1] = f
      /\ Len(frames) \in Nat
  BY PushLemma
<1>. HIDE DEF g
<1>2. AllIdle(g)
  BY <1>1 DEF AllIdle
<1>. QED  BY <1>2 DEF g

LEMMA IdlePop ==
  ASSUME TypeOK, Len(stack) > 0, \A k \in 1..Len(stack) - 1 : Idle(stack[k])
  PROVE  Below \in Seq(Frame) /\ AllIdle(Below)
<1>1. /\ Below \in Seq(Frame) /\ Len(stack) \in Nat
      /\ Len(Below) = Len(stack) - 1
      /\ \A k \in 1..Len(stack) - 1 : Below[k] = stack[k]
  BY BelowLemma DEF TypeOK
<1>. QED  BY <1>1 DEF AllIdle

LEMMA IdleRetop ==
  ASSUME TypeOK, Len(stack) > 0, \A k \in 1..Len(stack) - 1 : Idle(stack[k]),
         NEW f \in Frame, Idle(f)
  PROVE  Retop(f) \in Seq(Frame) /\ AllIdle(Retop(f))
<1>1. Below \in Seq(Frame) /\ AllIdle(Below)
  BY IdlePop
<1>2. Retop(f) \in Seq(Frame)
  BY RetopLemma DEF TypeOK
<1>. QED  BY <1>1, <1>2, IdlePush DEF Retop

\* Nothing is open if the frame on top opened nothing.
LEMMA IdleLemma ==
  ASSUME TypeOK, OpenOnTop, Running("call") => Top.opened = 0
  PROVE  depth = 0 /\ AllIdle(stack)
<1>1. depth = 0
  BY DEF OpenOnTop
<1>2. Len(stack) \in Nat
  BY DEF TypeOK
<1>3. ASSUME NEW k \in 1..Len(stack) PROVE Idle(stack[k])
  <2>1. CASE k = Len(stack)
    BY <1>2, <2>1 DEF Idle, Running, Top
  <2>2. CASE k # Len(stack)
    BY <1>2, <2>2 DEF OpenOnTop
  <2>. QED  BY <2>1, <2>2
<1>. QED  BY <1>1, <1>3 DEF AllIdle

LEMMA IdleNotify ==
  ASSUME TypeOK, NEW s \in Stores, NEW W, NEW at,
         NEW frames \in Seq(Frame), AllIdle(frames), NotifyWrites(s, W, at, frames)
  PROVE  AllIdle(stack')
<1>. DEFINE f == [kind |-> "notify", store |-> s, generation |-> counter[s],
                  todo |-> Match(s, W), told |-> s \notin Observed]
<1>1. counter[s] \in 0..MaxGeneration
  BY DEF TypeOK
<1>2. f \in Frame /\ Idle(f)
  BY <1>1, MatchType DEF Frame, NotifyFrame, Idle
<1>3. stack' = frames \/ stack' = Append(frames, f)
  BY DEF NotifyWrites
<1>. HIDE DEF f
<1>. QED  BY <1>2, <1>3, IdlePush

-----------------------------------------------------------------------------
(***************************************************************************)
(* Transactions.                                                           *)
(***************************************************************************)
Batched == OpenOnTop /\ BatchAwaited

\* A step that leaves nothing open on the stack, and nothing in the batch.
LEMMA IdleStep ==
  ASSUME stack' \in Seq(Frame), AllIdle(stack'), depth' = 0, pending' = NoBatch
  PROVE  Batched'
<1>1. Len(stack') \in Nat
  OBVIOUS
<1>2. OpenOnTop'
  BY <1>1 DEF OpenOnTop, AllIdle, Idle, Running, Top
<1>. QED  BY <1>2 DEF Batched, BatchAwaited

\* Between two steps of the engine nothing waits in the batch, unless a flush
\* is about to take it.
LEMMA NothingWaits ==
  ASSUME TypeOK, Batched, Running("call") => Top.opened = 0,
         Running("flush") => Top.batch # NoBatch
  PROVE  depth = 0 /\ pending = NoBatch /\ AllIdle(stack)
BY IdleLemma DEF Batched, BatchAwaited

LEMMA EmitBatched ==
  ASSUME TypeOK, TypeOK', Batched, NEW s \in Stores, Emit(s, stack), depth' = depth,
         Running("call") \/ stack = <<>>
  PROVE  Batched'
<1>0. stack' \in Seq(Frame) /\ stack \in Seq(Frame) /\ depth \in Nat
  BY DEF TypeOK
<1>1. CASE IsActive
  <2>1. stack' = stack
    BY <1>1 DEF Emit
  <2>. QED  BY <1>1, <2>1 DEF Batched, OpenOnTop, BatchAwaited, IsActive, Running, Top
<1>2. CASE ~IsActive
  <2>1. depth = 0 /\ (Running("call") => Top.opened = 0)
    BY <1>0, <1>2 DEF IsActive, Batched, OpenOnTop
  <2>2. ~Running("flush")
    BY DEF Running
  <2>3. pending = NoBatch /\ AllIdle(stack)
    BY <2>1, <2>2, NothingWaits
  <2>4. pending' = pending /\ AllIdle(stack')
    <3>1. CASE DraftUnchanged(s)
      BY <2>3, <3>1 DEF Emit
    <3>2. CASE ~DraftUnchanged(s)
      <4>1. NotifyWrites(s, Closed(s), version[s] + 1, stack) /\ UNCHANGED pending
        BY <1>2, <3>2 DEF Emit
      <4>. QED  BY <1>0, <2>3, <4>1, IdleNotify
    <3>. QED  BY <3>1, <3>2
  <2>. QED  BY <1>0, <2>1, <2>3, <2>4, IdleStep
<1>. QED  BY <1>1, <1>2

LEMMA BeginBatched ==
  ASSUME TypeOK, TypeOK', Batched, BeginTransaction
  PROVE  Batched'
<1>. DEFINE f == [Top EXCEPT !.opened = @ + 1]
<1>1. Len(stack) > 0 /\ Top.kind = "call" /\ Top \in CallFrame /\ Len(stack) \in Nat
  BY TopLemma DEF BeginTransaction, Running, TypeOK
<1>2. f \in Frame /\ f.kind = "call" /\ f.opened = Top.opened + 1 /\ Top.opened \in Nat
  BY <1>1 DEF Frame, CallFrame
<1>3. stack' = Retop(f) /\ depth' = depth + 1 /\ pending' = pending
  BY DEF BeginTransaction
<1>. HIDE DEF f
<1>4. /\ Len(stack') = Len(stack)
      /\ \A k \in 1..Len(stack) - 1 : stack'[k] = stack[k]
      /\ stack'[Len(stack)] = f
  <2>1. stack \in Seq(Frame)
    BY DEF TypeOK
  <2>. QED  BY <1>1, <1>2, <1>3, <2>1, RetopLemma
<1>5. OpenOnTop'
  BY <1>1, <1>2, <1>3, <1>4 DEF Batched, OpenOnTop, Running, Top
<1>. QED  BY <1>1, <1>2, <1>3, <1>5 DEF Batched, BatchAwaited, OpenOnTop, Running

LEMMA EndBatched ==
  ASSUME TypeOK, TypeOK', Batched, EndTransaction
  PROVE  Batched'
<1>. DEFINE f == [Top EXCEPT !.opened = @ - 1]
            flush == [kind |-> "flush", batch |-> NoBatch]
<1>0. stack \in Seq(Frame)
  BY DEF TypeOK
<1>1. Len(stack) > 0 /\ Top.kind = "call" /\ Top \in CallFrame /\ Len(stack) \in Nat
  BY TopLemma DEF EndTransaction, Running, TypeOK
<1>2. /\ f.kind = "call" /\ f.opened = Top.opened - 1
      /\ Top.opened \in Nat \ {0} /\ depth = Top.opened
  BY <1>1 DEF CallFrame, EndTransaction, Batched, OpenOnTop, Running
<1>3. f \in Frame /\ flush \in Frame /\ Idle(flush)
  BY <1>1, <1>2 DEF Frame, CallFrame, FlushFrame, NoBatch, Idle
<1>4. /\ depth > 1 => stack' = Retop(f) /\ depth' = depth - 1
      /\ depth = 1 => stack' = Append(Retop(f), flush) /\ depth' = 0
      /\ pending' = pending
  BY <1>2 DEF EndTransaction
<1>5. flush.kind = "flush" /\ flush.batch = NoBatch
  OBVIOUS
<1>. HIDE DEF f, flush
<1>6. CASE depth > 1
  <2>1. /\ Len(stack') = Len(stack)
        /\ \A k \in 1..Len(stack) - 1 : stack'[k] = stack[k]
        /\ stack'[Len(stack)] = f
    <3>1. stack' = Retop(f)
      BY <1>4, <1>6
    <3>. QED  BY <1>0, <1>1, <1>3, <3>1, RetopLemma
  <2>2. OpenOnTop'
    BY <1>1, <1>2, <1>4, <1>6, <2>1 DEF Batched, OpenOnTop, Running, Top
  <2>. QED  BY <1>2, <1>4, <1>6, <2>2 DEF Batched, BatchAwaited
<1>7. CASE depth = 1
  <2>1. Idle(f) /\ \A k \in 1..Len(stack) - 1 : Idle(stack[k])
    BY <1>2, <1>7 DEF Idle, Batched, OpenOnTop
  <2>2. Retop(f) \in Seq(Frame) /\ AllIdle(Retop(f))
    BY <1>1, <1>3, <2>1, IdleRetop
  <2>3. AllIdle(stack')
    BY <1>3, <1>4, <1>7, <2>2, IdlePush
  <2>4. /\ stack' \in Seq(Frame) /\ Len(stack') \in Nat /\ Len(stack') > 0
        /\ stack'[Len(stack')] = flush
    BY <1>3, <1>4, <1>7, <2>2, PushLemma DEF TypeOK
  <2>5. OpenOnTop'
    BY <1>4, <1>5, <1>7, <2>3, <2>4 DEF OpenOnTop, AllIdle, Running, Top
  <2>6. BatchAwaited'
    BY <1>5, <2>4 DEF BatchAwaited, Running, Top
  <2>. QED  BY <2>5, <2>6 DEF Batched
<1>. QED  BY <1>2, <1>6, <1>7

\* One step of the proof per action.
LEMMA NextBatched == TypeOK /\ TypeOK' /\ Batched /\ [Next]_vars => Batched'
<1>. SUFFICES ASSUME TypeOK, TypeOK', Batched, [Next]_vars PROVE Batched'
  OBVIOUS
<1>. USE BoundsLemma
<1>0. stack \in Seq(Frame) /\ stack' \in Seq(Frame) /\ Len(stack) \in Nat
  BY DEF TypeOK
<1>1. ASSUME UNCHANGED <<stack, depth, pending>> PROVE Batched'
  BY <1>1 DEF Batched, OpenOnTop, BatchAwaited, Running, Top
<1>2. ASSUME NEW s \in Stores, EmitUpdate(s) PROVE Batched'
  BY <1>2, EmitBatched DEF EmitUpdate
<1>3. ASSUME BeginTransaction PROVE Batched'
  BY <1>3, BeginBatched
<1>4. ASSUME EndTransaction PROVE Batched'
  BY <1>4, EndBatched
<1>5. ASSUME Return \/ EndNotify \/ EndFlush PROVE Batched'
  <2>1. /\ Len(stack) > 0 /\ stack' = Below /\ depth' = depth /\ pending' = pending
        /\ Top.kind = "call" => Top.opened = 0
        /\ Top.kind = "flush" => pending = NoBatch
    BY <1>5 DEF Return, EndNotify, EndFlush, Running
  <2>2. depth = 0 /\ AllIdle(stack)
    BY <2>1, IdleLemma DEF Batched, Running
  <2>3. pending = NoBatch
    BY <2>1, <2>2, <1>0 DEF Batched, BatchAwaited, Running
  <2>4. AllIdle(Below)
    BY <1>0, <2>1, <2>2, IdlePop DEF Batched, OpenOnTop
  <2>. QED  BY <1>0, <2>1, <2>2, <2>3, <2>4, IdleStep
<1>6. ASSUME TellObservers PROVE Batched'
  <2>. DEFINE f == [Top EXCEPT !.told = TRUE]
  <2>1. Len(stack) > 0 /\ Top.kind = "notify" /\ Top \in NotifyFrame
    BY <1>6, TopLemma DEF TellObservers, Running
  <2>2. f \in Frame /\ Idle(f) /\ Call(NoOne) \in Frame /\ Idle(Call(NoOne))
    BY <2>1 DEF Frame, NotifyFrame, CallFrame, Idle, Call
  <2>3. stack' = Append(Retop(f), Call(NoOne)) /\ depth' = depth /\ pending' = pending
    BY <1>6 DEF TellObservers
  <2>. HIDE DEF f
  <2>4. depth = 0 /\ pending = NoBatch
    BY <2>1, NothingWaits DEF Running
  <2>5. Retop(f) \in Seq(Frame) /\ AllIdle(Retop(f))
    BY <2>1, <2>2, IdleRetop DEF Batched, OpenOnTop
  <2>6. AllIdle(stack')
    BY <2>2, <2>3, <2>5, IdlePush
  <2>. QED  BY <1>0, <2>3, <2>4, <2>6, IdleStep
<1>7. ASSUME NEW i \in Subscribers, Deliver(i) PROVE Batched'
  <2>. DEFINE f == [Top EXCEPT !.todo = @ \ {i}]
  <2>1. Len(stack) > 0 /\ Top.kind = "notify" /\ Top \in NotifyFrame
    BY <1>7, TopLemma DEF Deliver, Running
  <2>2. f \in Frame /\ Idle(f) /\ Call(i) \in Frame /\ Idle(Call(i))
    BY <2>1 DEF Frame, NotifyFrame, CallFrame, Idle, Call
  <2>3. /\ stack' = Retop(f) \/ stack' = Append(Retop(f), Call(i))
        /\ depth' = depth /\ pending' = pending
    BY <1>7 DEF Deliver
  <2>. HIDE DEF f
  <2>4. depth = 0 /\ pending = NoBatch
    BY <2>1, NothingWaits DEF Running
  <2>5. Retop(f) \in Seq(Frame) /\ AllIdle(Retop(f))
    BY <2>1, <2>2, IdleRetop DEF Batched, OpenOnTop
  <2>6. AllIdle(stack')
    BY <2>2, <2>3, <2>5, IdlePush
  <2>. QED  BY <1>0, <2>3, <2>4, <2>6, IdleStep
<1>8. ASSUME TakeBatch PROVE Batched'
  <2>. DEFINE f == [Top EXCEPT !.batch = pending]
  <2>1. Len(stack) > 0 /\ Top.kind = "flush" /\ Top \in FlushFrame
    BY <1>8, TopLemma DEF TakeBatch, Running
  <2>2. f \in Frame /\ Idle(f)
    BY <2>1 DEF Frame, FlushFrame, Idle, TypeOK
  <2>3. stack' = Retop(f) /\ depth' = depth /\ pending' = NoBatch
    BY <1>8 DEF TakeBatch
  <2>. HIDE DEF f
  <2>4. depth = 0 /\ AllIdle(stack)
    BY <2>1, IdleLemma DEF Batched, Running
  <2>5. AllIdle(stack')
    BY <2>1, <2>2, <2>3, IdleRetop DEF Batched, OpenOnTop
  <2>. QED  BY <1>0, <2>3, <2>4, <2>5, IdleStep
<1>9. ASSUME NEW s \in Stores, NotifyBatched(s) PROVE Batched'
  <2>. DEFINE f == [Top EXCEPT !.batch[s] = {}]
  <2>1. Len(stack) > 0 /\ Top.kind = "flush" /\ Top \in FlushFrame /\ Top.batch[s] # {}
    BY <1>9, TopLemma DEF NotifyBatched, Running
  <2>2. f \in Frame /\ Idle(f)
    BY <2>1 DEF Frame, FlushFrame, Idle
  <2>3. NotifyWrites(s, Top.batch[s], version[s], Retop(f)) /\ depth' = depth /\ pending' = pending
    BY <1>9 DEF NotifyBatched
  <2>. HIDE DEF f
  <2>4. Top.batch # NoBatch
    BY <2>1 DEF NoBatch
  <2>5. depth = 0 /\ pending = NoBatch
    BY <2>1, <2>4, NothingWaits DEF Running
  <2>6. Retop(f) \in Seq(Frame) /\ AllIdle(Retop(f))
    BY <2>1, <2>2, IdleRetop DEF Batched, OpenOnTop
  <2>7. AllIdle(stack')
    BY <2>3, <2>6, IdleNotify
  <2>. QED  BY <1>0, <2>3, <2>5, <2>7, IdleStep
<1>10. ASSUME RunMicrotask PROVE Batched'
  <2>. DEFINE s == Head(microtasks).store
  <2>1. s \in Stores
    <3>1. Head(microtasks) \in Microtask
      BY <1>10, HeadTailProperties DEF RunMicrotask, TypeOK
    <3>. QED  BY <3>1 DEF Microtask
  <2>2. stack = <<>> /\ depth' = depth
        /\ (Emit(s, stack) \/ UNCHANGED <<stack, pending>>)
    BY <1>10 DEF RunMicrotask
  <2>. HIDE DEF s
  <2>. QED  BY <1>1, <2>1, <2>2, EmitBatched
<1>11. ASSUME NEW w \in Subscribers \cup {NoOne}, stack = <<>>, stack' = <<Call(w)>>,
              UNCHANGED <<depth, pending>>
       PROVE  Batched'
  <2>1. ~Running("call") /\ ~Running("flush")
    BY <1>11 DEF Running
  <2>2. depth = 0 /\ pending = NoBatch
    BY <2>1, NothingWaits
  <2>3. AllIdle(stack')
    BY <1>11 DEF AllIdle, Idle, Call
  <2>. QED  BY <1>0, <1>11, <2>2, <2>3, IdleStep
<1>12. ASSUME NEW i \in Subscribers, RunScheduled(i) PROVE Batched'
  BY <1>11, <1>12 DEF RunScheduled
<1>13. ASSUME StartTask PROVE Batched'
  BY <1>11, <1>13 DEF StartTask
<1>14. ASSUME NEW s \in Stores, NEW W \in WriteSets, DraftWrite(s, W) PROVE Batched'
  BY <1>1, <1>14 DEF DraftWrite
<1>15. ASSUME NEW s \in Stores, EmitSoon(s) \/ Dispose(s) PROVE Batched'
  BY <1>1, <1>15 DEF EmitSoon, Dispose
<1>16. ASSUME NEW i \in Subscribers, NEW R \in ReadSets, Subscribe(i, R) \/ Retain(i, R) PROVE Batched'
  BY <1>1, <1>16 DEF Subscribe, Retain
<1>17. ASSUME NEW i \in Subscribers, NEW p \in Extensions, Extend(i, p) PROVE Batched'
  BY <1>1, <1>17 DEF Extend
<1>18. ASSUME NEW i \in Subscribers, Unsubscribe(i) PROVE Batched'
  BY <1>1, <1>18 DEF Unsubscribe
<1>19. CASE UNCHANGED vars
  BY <1>1, <1>19 DEF vars
<1>. QED
  BY <1>2, <1>3, <1>4, <1>5, <1>6, <1>7, <1>8, <1>9, <1>10, <1>12, <1>13, <1>14, <1>15,
     <1>16, <1>17, <1>18, <1>19, CarburetorAssumption
  DEF Next, Application, Engine

-----------------------------------------------------------------------------
(***************************************************************************)
(* What the scheduler holds.                                               *)
(***************************************************************************)
LEMMA NextScheduled == IInv /\ ScheduledLives /\ [Next]_vars => ScheduledLives'
<1>. SUFFICES ASSUME IInv, ScheduledLives, [Next]_vars PROVE ScheduledLives'
  OBVIOUS
<1>. USE BoundsLemma
<1>0. TypeOK /\ stack \in Seq(Frame) /\ Len(stack) \in Nat
  BY DEF IInv, TypeOK
<1>1. ASSUME UNCHANGED <<scheduled, registered, disposed>>,
             \A i \in Subscribers : record'[i].generation = record[i].generation
      PROVE  ScheduledLives'
  BY <1>1 DEF ScheduledLives
<1>2. ASSUME NEW s \in Stores, NEW W, NEW at \in 0..MaxVersion, NEW frames \in Seq(Frame),
             NotifyWrites(s, W, at, frames)
      PROVE  \A i \in Subscribers : record'[i].generation = record[i].generation
  BY <1>0, <1>2, NotifyLemma DEF IInv
<1>3. ASSUME NEW s \in Stores, Emit(s, stack), UNCHANGED <<scheduled, registered, disposed>>
      PROVE  ScheduledLives'
  <2>1. CASE UNCHANGED record
    BY <1>1, <1>3, <2>1
  <2>2. CASE NotifyWrites(s, Closed(s), version[s] + 1, stack) /\ version[s] < MaxVersion
    <3>1. version[s] + 1 \in 0..MaxVersion
      BY <1>0, <2>2 DEF TypeOK
    <3>. QED  BY <1>0, <1>1, <1>2, <1>3, <2>2, <3>1
  <2>. QED  BY <1>3, <2>1, <2>2 DEF Emit
<1>4. ASSUME NEW s \in Stores, EmitUpdate(s) PROVE ScheduledLives'
  BY <1>3, <1>4 DEF EmitUpdate
<1>5. ASSUME NEW j \in Subscribers, NEW R \in ReadSets, Subscribe(j, R) PROVE ScheduledLives'
  <2>1. /\ scheduled'[j] = 0 /\ registered \subseteq registered' /\ UNCHANGED disposed
        /\ \A i \in Subscribers \ {j} : record'[i] = record[i] /\ scheduled'[i] = scheduled[i]
    BY <1>0, <1>5 DEF Subscribe, Retract, TypeOK
  <2>. QED  BY <2>1 DEF ScheduledLives
<1>6. ASSUME NEW j \in Subscribers, Unsubscribe(j) PROVE ScheduledLives'
  <2>1. /\ scheduled'[j] = 0 /\ registered' = registered \ {j} /\ UNCHANGED disposed
        /\ \A i \in Subscribers \ {j} : record'[i] = record[i] /\ scheduled'[i] = scheduled[i]
    BY <1>0, <1>6 DEF Unsubscribe, Retract, TypeOK
  <2>. QED  BY <2>1 DEF ScheduledLives
<1>7. ASSUME NEW j \in Subscribers, NEW R \in ReadSets, Retain(j, R) PROVE ScheduledLives'
  <2>1. \A i \in Subscribers : record'[i].generation = record[i].generation
    BY <1>0, <1>7 DEF Retain, TypeOK, Record
  <2>. QED  BY <1>1, <1>7, <2>1 DEF Retain
<1>8. ASSUME NEW j \in Subscribers, NEW p \in Extensions, Extend(j, p) PROVE ScheduledLives'
  <2>1. \A i \in Subscribers : record'[i].generation = record[i].generation
    BY <1>0, <1>8 DEF Extend, TypeOK, Record
  <2>. QED  BY <1>1, <1>8, <2>1 DEF Extend
<1>9. ASSUME NEW s \in Stores, Dispose(s) PROVE ScheduledLives'
  <2>1. /\ disposed' = [disposed EXCEPT ![s] = TRUE] /\ UNCHANGED <<registered, record>>
        /\ \A i \in Subscribers :
             scheduled'[i] = IF i \in registered /\ Home[i] = s THEN 0 ELSE scheduled[i]
    BY <1>9 DEF Dispose
  <2>2. ASSUME NEW i \in Subscribers, scheduled'[i] # 0
        PROVE  i \in registered /\ ~disposed'[Home[i]] /\ scheduled'[i] = record[i].generation
    <3>1. scheduled'[i] = scheduled[i] /\ i \in registered /\ Home[i] # s
          /\ ~disposed[Home[i]] /\ scheduled[i] = record[i].generation
      BY <2>1, <2>2 DEF ScheduledLives
    <3>. QED  BY <1>0, <2>1, <3>1 DEF TypeOK
  <2>. QED  BY <2>1, <2>2 DEF ScheduledLives
<1>10. ASSUME NEW j \in Subscribers, Deliver(j) PROVE ScheduledLives'
  <2>1. UNCHANGED <<registered, disposed, record>>
    BY <1>10 DEF Deliver
  <2>2. CASE UNCHANGED scheduled
    BY <1>1, <2>1, <2>2
  <2>3. CASE StillSelected(j) /\ scheduled' = [scheduled EXCEPT ![j] = record[j].generation]
    <3>1. Len(stack) \in Frames("notify") /\ j \in stack[Len(stack)].todo
      BY <1>0, <1>10 DEF Deliver, Running, Top, Frames
    <3>2. Home[j] = Top.store
      BY <3>1 DEF IInv, SelectedAtHome, Top
    <3>3. j \in registered /\ ~disposed[Home[j]]
      BY <2>3, <3>2 DEF StillSelected
    <3>4. /\ scheduled'[j] = record[j].generation
          /\ \A i \in Subscribers \ {j} : scheduled'[i] = scheduled[i]
      BY <1>0, <2>3 DEF TypeOK
    <3>. QED  BY <2>1, <3>3, <3>4 DEF ScheduledLives
  <2>. QED  BY <1>10, <2>2, <2>3 DEF Deliver
<1>11. ASSUME NEW j \in Subscribers, RunScheduled(j) PROVE ScheduledLives'
  <2>1. /\ scheduled'[j] = 0 /\ UNCHANGED <<registered, disposed, record>>
        /\ \A i \in Subscribers \ {j} : scheduled'[i] = scheduled[i]
    BY <1>0, <1>11 DEF RunScheduled, TypeOK
  <2>. QED  BY <2>1 DEF ScheduledLives
<1>12. ASSUME NEW s \in Stores, NotifyBatched(s) PROVE ScheduledLives'
  <2>. DEFINE frames == Retop([Top EXCEPT !.batch[s] = {}])
  <2>1. Top \in FlushFrame /\ Len(stack) > 0
    BY <1>0, <1>12, TopLemma DEF NotifyBatched, Running
  <2>2. [Top EXCEPT !.batch[s] = {}] \in Frame
    BY <2>1 DEF Frame, FlushFrame
  <2>3. frames \in Seq(Frame) /\ version[s] \in 0..MaxVersion
    BY <1>0, <2>1, <2>2, RetopLemma DEF TypeOK
  <2>4. /\ NotifyWrites(s, Top.batch[s], version[s], frames)
        /\ UNCHANGED <<scheduled, registered, disposed>>
    BY <1>12 DEF NotifyBatched
  <2>. HIDE DEF frames
  <2>. QED  BY <1>1, <1>2, <2>3, <2>4
<1>13. ASSUME RunMicrotask PROVE ScheduledLives'
  <2>. DEFINE s == Head(microtasks).store
  <2>1. s \in Stores
    <3>1. Head(microtasks) \in Microtask
      BY <1>0, <1>13, HeadTailProperties DEF RunMicrotask, TypeOK
    <3>. QED  BY <3>1 DEF Microtask
  <2>2. UNCHANGED <<scheduled, registered, disposed>> /\ (Emit(s, stack) \/ UNCHANGED record)
    BY <1>13 DEF RunMicrotask
  <2>. HIDE DEF s
  <2>. QED  BY <1>1, <1>3, <2>1, <2>2
<1>14. ASSUME UNCHANGED <<scheduled, registered, disposed, record>> PROVE ScheduledLives'
  BY <1>1, <1>14
<1>15. ASSUME NEW s \in Stores, NEW W \in WriteSets, DraftWrite(s, W) PROVE ScheduledLives'
  BY <1>14, <1>15 DEF DraftWrite
<1>16. ASSUME NEW s \in Stores, EmitSoon(s) PROVE ScheduledLives'
  BY <1>14, <1>16 DEF EmitSoon
<1>17. ASSUME BeginTransaction \/ EndTransaction \/ Return PROVE ScheduledLives'
  BY <1>14, <1>17 DEF BeginTransaction, EndTransaction, Return
<1>18. ASSUME TellObservers \/ EndNotify \/ TakeBatch \/ EndFlush \/ StartTask PROVE ScheduledLives'
  BY <1>14, <1>18 DEF TellObservers, EndNotify, TakeBatch, EndFlush, StartTask
<1>19. CASE UNCHANGED vars
  BY <1>14, <1>19 DEF vars
<1>. QED
  BY <1>4, <1>5, <1>6, <1>7, <1>8, <1>9, <1>10, <1>11, <1>12, <1>13, <1>15, <1>16, <1>17,
     <1>18, <1>19, CarburetorAssumption
  DEF Next, Application, Engine

-----------------------------------------------------------------------------
(***************************************************************************)
(* Only a pass and the event loop start the callback of a subscription.    *)
(***************************************************************************)

\* A step after which the stack is not higher, or has something else on top.
LEMMA NoStart ==
  ASSUME NEW i \in Subscribers, Len(stack) \in Nat,
         \/ Len(stack') \in Nat /\ Len(stack') <= Len(stack)
         \/ Len(stack') > 0 /\ stack'[Len(stack')].kind # "call"
         \/ Len(stack') > 0 /\ stack'[Len(stack')].who = NoOne
  PROVE  ~CallStarts(i)
BY CarburetorAssumption DEF CallStarts

LEMMA NotifyNoStart ==
  ASSUME TypeOK, NEW s \in Stores, NEW W, NEW at, NEW frames \in Seq(Frame),
         NotifyWrites(s, W, at, frames), Len(frames) = Len(stack), NEW i \in Subscribers
  PROVE  ~CallStarts(i)
<1>. DEFINE f == [kind |-> "notify", store |-> s, generation |-> counter[s],
                  todo |-> Match(s, W), told |-> s \notin Observed]
<1>1. counter[s] \in 0..MaxGeneration /\ Len(stack) \in Nat
  BY DEF TypeOK
<1>2. f \in Frame /\ f.kind = "notify"
  BY <1>1, MatchType DEF Frame, NotifyFrame
<1>3. stack' = frames \/ stack' = Append(frames, f)
  BY DEF NotifyWrites
<1>. HIDE DEF f
<1>4. Len(frames) \in Nat
  OBVIOUS
<1>5. CASE stack' = frames
  BY <1>1, <1>5, NoStart
<1>6. CASE stack' = Append(frames, f)
  <2>1. Len(stack') = Len(frames) + 1 /\ stack'[Len(frames) + 1] = f
    BY <1>2, <1>6, PushLemma
  <2>. QED  BY <1>1, <1>2, <1>4, <2>1, NoStart
<1>. QED  BY <1>3, <1>5, <1>6

LEMMA EmitNoStart ==
  ASSUME TypeOK, NEW s \in Stores, Emit(s, stack), NEW i \in Subscribers
  PROVE  ~CallStarts(i)
<1>1. stack \in Seq(Frame) /\ Len(stack) \in Nat
  BY DEF TypeOK
<1>2. stack' = stack \/ NotifyWrites(s, Closed(s), version[s] + 1, stack)
  BY DEF Emit
<1>. QED  BY <1>1, <1>2, NoStart, NotifyNoStart

LEMMA StartsLemma ==
  ASSUME TypeOK, [Next]_vars, NEW i \in Subscribers, CallStarts(i)
  PROVE  \/ Deliver(i) /\ StillSelected(i)
         \/ RunScheduled(i)
<1>0. stack \in Seq(Frame) /\ Len(stack) \in Nat
  BY DEF TypeOK
<1>1. ASSUME stack' = stack PROVE FALSE
  BY <1>0, <1>1, NoStart
<1>2. ASSUME Len(stack) > 0, stack' = Below PROVE FALSE
  <2>1. Len(stack') = Len(stack) - 1
    BY <1>0, <1>2, BelowLemma
  <2>. QED  BY <1>0, <2>1, NoStart
<1>3. ASSUME NEW f \in Frame, Len(stack) > 0, stack' = Retop(f) PROVE FALSE
  <2>1. Len(stack') = Len(stack)
    BY <1>0, <1>3, RetopLemma
  <2>. QED  BY <1>0, <2>1, NoStart
<1>4. ASSUME NEW f \in Frame, NEW g \in Frame, Len(stack) > 0, stack' = Append(Retop(f), g),
             g.kind # "call" \/ g.who = NoOne
      PROVE  FALSE
  <2>1. Retop(f) \in Seq(Frame) /\ Len(Retop(f)) \in Nat
    BY <1>0, <1>4, RetopLemma
  <2>2. Len(stack') = Len(Retop(f)) + 1 /\ stack'[Len(Retop(f)) + 1] = g
    BY <1>4, <2>1, PushLemma
  <2>. QED  BY <1>0, <1>4, <2>1, <2>2, NoStart
<1>5. ASSUME NEW s \in Stores, EmitUpdate(s) PROVE FALSE
  BY <1>5, EmitNoStart DEF EmitUpdate
<1>6. ASSUME BeginTransaction PROVE FALSE
  <2>1. Len(stack) > 0 /\ Top \in CallFrame
    BY <1>6, TopLemma DEF BeginTransaction, Running
  <2>2. [Top EXCEPT !.opened = @ + 1] \in Frame
    BY <2>1 DEF Frame, CallFrame
  <2>. QED  BY <1>3, <1>6, <2>1, <2>2 DEF BeginTransaction
<1>7. ASSUME EndTransaction PROVE FALSE
  <2>. DEFINE f == [Top EXCEPT !.opened = @ - 1]
              flush == [kind |-> "flush", batch |-> NoBatch]
  <2>1. Len(stack) > 0 /\ Top \in CallFrame /\ Top.opened > 0
    BY <1>7, TopLemma DEF EndTransaction, Running
  <2>2. f \in Frame /\ flush \in Frame /\ flush.kind # "call"
    BY <2>1 DEF Frame, CallFrame, FlushFrame, NoBatch
  <2>3. stack' = Retop(f) \/ stack' = Append(Retop(f), flush)
    BY <1>7 DEF EndTransaction
  <2>. HIDE DEF f, flush
  <2>. QED  BY <1>3, <1>4, <2>1, <2>2, <2>3
<1>8. ASSUME Return \/ EndNotify \/ EndFlush PROVE FALSE
  BY <1>2, <1>8 DEF Return, EndNotify, EndFlush, Running
<1>9. ASSUME TellObservers PROVE FALSE
  <2>. DEFINE f == [Top EXCEPT !.told = TRUE]
  <2>1. Len(stack) > 0 /\ Top \in NotifyFrame
    BY <1>9, TopLemma DEF TellObservers, Running
  <2>2. f \in Frame /\ Call(NoOne) \in Frame /\ Call(NoOne).who = NoOne
    BY <2>1 DEF Frame, NotifyFrame, CallFrame, Call
  <2>3. stack' = Append(Retop(f), Call(NoOne))
    BY <1>9 DEF TellObservers
  <2>. HIDE DEF f
  <2>. QED  BY <1>4, <2>1, <2>2, <2>3
<1>10. ASSUME NEW j \in Subscribers, Deliver(j) PROVE j = i /\ StillSelected(i)
  <2>. DEFINE f == [Top EXCEPT !.todo = @ \ {j}]
  <2>1. Len(stack) > 0 /\ Top \in NotifyFrame
    BY <1>10, TopLemma DEF Deliver, Running
  <2>2. f \in Frame /\ Call(j) \in Frame /\ Call(j).who = j
    BY <2>1 DEF Frame, NotifyFrame, CallFrame, Call
  <2>3. stack' = Retop(f) \/ (StillSelected(j) /\ stack' = Append(Retop(f), Call(j)))
    BY <1>10 DEF Deliver
  <2>. HIDE DEF f
  <2>4. StillSelected(j) /\ stack' = Append(Retop(f), Call(j))
    BY <1>3, <2>1, <2>2, <2>3
  <2>5. Retop(f) \in Seq(Frame) /\ Len(Retop(f)) \in Nat
    BY <1>0, <2>1, <2>2, RetopLemma
  <2>6. Len(stack') = Len(Retop(f)) + 1 /\ stack'[Len(Retop(f)) + 1] = Call(j)
    BY <2>2, <2>4, <2>5, PushLemma
  <2>. QED  BY <2>2, <2>4, <2>5, <2>6 DEF CallStarts
<1>11. ASSUME TakeBatch PROVE FALSE
  <2>1. Len(stack) > 0 /\ Top \in FlushFrame
    BY <1>11, TopLemma DEF TakeBatch, Running
  <2>2. [Top EXCEPT !.batch = pending] \in Frame
    BY <2>1 DEF Frame, FlushFrame, TypeOK
  <2>. QED  BY <1>3, <1>11, <2>1, <2>2 DEF TakeBatch
<1>12. ASSUME NEW s \in Stores, NotifyBatched(s) PROVE FALSE
  <2>. DEFINE f == [Top EXCEPT !.batch[s] = {}]
  <2>1. Len(stack) > 0 /\ Top \in FlushFrame
    BY <1>12, TopLemma DEF NotifyBatched, Running
  <2>2. f \in Frame
    BY <2>1 DEF Frame, FlushFrame
  <2>3. NotifyWrites(s, Top.batch[s], version[s], Retop(f))
    BY <1>12 DEF NotifyBatched
  <2>. HIDE DEF f
  <2>4. Retop(f) \in Seq(Frame) /\ Len(Retop(f)) = Len(stack)
    BY <1>0, <2>1, <2>2, RetopLemma
  <2>. QED  BY <2>3, <2>4, NotifyNoStart
<1>13. ASSUME RunMicrotask PROVE FALSE
  <2>. DEFINE s == Head(microtasks).store
  <2>1. s \in Stores
    <3>1. Head(microtasks) \in Microtask
      BY <1>13, HeadTailProperties DEF RunMicrotask, TypeOK
    <3>. QED  BY <3>1 DEF Microtask
  <2>2. Emit(s, stack) \/ stack' = stack
    BY <1>13 DEF RunMicrotask
  <2>. HIDE DEF s
  <2>. QED  BY <1>1, <2>1, <2>2, EmitNoStart
<1>14. ASSUME NEW j \in Subscribers, RunScheduled(j) PROVE j = i
  <2>1. stack = <<>> /\ stack' = <<Call(j)>> /\ Call(j).who = j
    BY <1>14 DEF RunScheduled, Call
  <2>. QED  BY <2>1 DEF CallStarts
<1>15. ASSUME StartTask PROVE FALSE
  <2>1. stack' = <<Call(NoOne)>> /\ Call(NoOne).who = NoOne
    BY <1>15 DEF StartTask, Call
  <2>. QED  BY <1>0, <2>1, NoStart
<1>16. ASSUME NEW s \in Stores, NEW W \in WriteSets, DraftWrite(s, W) PROVE FALSE
  BY <1>1, <1>16 DEF DraftWrite
<1>17. ASSUME NEW s \in Stores, EmitSoon(s) \/ Dispose(s) PROVE FALSE
  BY <1>1, <1>17 DEF EmitSoon, Dispose
<1>18. ASSUME NEW j \in Subscribers, NEW R \in ReadSets, Subscribe(j, R) \/ Retain(j, R) PROVE FALSE
  BY <1>1, <1>18 DEF Subscribe, Retain
<1>19. ASSUME NEW j \in Subscribers, NEW p \in Extensions, Extend(j, p) PROVE FALSE
  BY <1>1, <1>19 DEF Extend
<1>20. ASSUME NEW j \in Subscribers, Unsubscribe(j) PROVE FALSE
  BY <1>1, <1>20 DEF Unsubscribe
<1>21. ASSUME UNCHANGED vars PROVE FALSE
  BY <1>1, <1>21 DEF vars
<1>. QED
  BY <1>5, <1>6, <1>7, <1>8, <1>9, <1>10, <1>11, <1>12, <1>13, <1>14, <1>15, <1>16, <1>17,
     <1>18, <1>19, <1>20, <1>21, CarburetorAssumption
  DEF Next, Application, Engine

-----------------------------------------------------------------------------
LEMMA InitJ == Init => JInv
BY DEF Init, JInv, ScheduledLives, OpenOnTop, BatchAwaited, Running

LEMMA NextJ == IInv /\ IInv' /\ JInv /\ [Next]_vars => JInv'
BY NextBatched, NextScheduled DEF IInv, JInv, Batched

LEMMA Invariants == Spec => [](IInv /\ JInv)
<1>1. Init => IInv
  BY InitType, InitSafe DEF IInv, Safe
<1>2. IInv /\ [Next]_vars => IInv'
  BY NextType, NextSafe DEF IInv, Safe
<1>. QED  BY <1>1, <1>2, InitJ, NextJ, PTL DEF Spec

(***************************************************************************)
(* Between two tasks the batch is empty and no transaction is open,        *)
(* however transactions and the flushes they start are nested.             *)
(***************************************************************************)
THEOREM NothingLeftInBatch == Spec => []QuiescentBatch
<1>1. IInv /\ JInv => QuiescentBatch
  BY DEF JInv, OpenOnTop, BatchAwaited, Running, QuiescentBatch
<1>. QED  BY <1>1, Invariants, PTL

(***************************************************************************)
(* A callback starts only when no transaction is open and nothing of one   *)
(* waits to be told.                                                       *)
(***************************************************************************)
THEOREM TakenWhole == Spec => BatchIsTakenWhole
<1>1. ASSUME IInv, JInv, [Next]_vars
      PROVE  \A i \in Subscribers : CallStarts(i) => depth = 0 /\ pending = NoBatch
  <2>. SUFFICES ASSUME NEW i \in Subscribers, CallStarts(i) PROVE depth = 0 /\ pending = NoBatch
    OBVIOUS
  <2>1. TypeOK /\ Batched
    BY <1>1 DEF IInv, JInv, Batched
  <2>2. Deliver(i) \/ RunScheduled(i)
    BY <1>1, <2>1, StartsLemma
  <2>3. ~Running("call") /\ ~Running("flush")
    BY <2>2 DEF Deliver, RunScheduled, Running
  <2>. QED  BY <2>1, <2>3, NothingWaits
<1>. QED  BY <1>1, Invariants, PTL DEF BatchIsTakenWhole, Spec

(***************************************************************************)
(* A callback starts only for a registration that is there, of a store     *)
(* that is not disposed; from the scheduler, only for the one it was       *)
(* queued for.                                                             *)
(***************************************************************************)
THEOREM OnlyTheLiving == Spec => CallsOnlyTheLiving
<1>1. ASSUME IInv, JInv, [Next]_vars
      PROVE  \A i \in Subscribers : CallStarts(i) =>
               /\ i \in registered
               /\ ~disposed[Home[i]]
               /\ stack = <<>> => scheduled[i] = record[i].generation
  <2>. SUFFICES ASSUME NEW i \in Subscribers, CallStarts(i)
                PROVE  /\ i \in registered
                       /\ ~disposed[Home[i]]
                       /\ stack = <<>> => scheduled[i] = record[i].generation
    OBVIOUS
  <2>0. TypeOK /\ SelectedAtHome /\ ScheduledLives /\ Len(stack) \in Nat
    BY <1>1 DEF IInv, JInv, TypeOK
  <2>1. CASE Deliver(i) /\ StillSelected(i)
    <3>1. /\ Len(stack) \in Frames("notify") /\ i \in stack[Len(stack)].todo
          /\ stack # <<>>
      BY <2>0, <2>1 DEF Deliver, Running, Top, Frames
    <3>2. Home[i] = Top.store
      BY <2>0, <3>1 DEF SelectedAtHome, Top
    <3>. QED  BY <2>1, <3>1, <3>2 DEF StillSelected
  <2>2. CASE RunScheduled(i)
    BY <2>0, <2>2 DEF RunScheduled, ScheduledLives
  <2>. QED  BY <1>1, <2>0, <2>1, <2>2, StartsLemma
<1>. QED  BY <1>1, Invariants, PTL DEF CallsOnlyTheLiving, Spec

-----------------------------------------------------------------------------
(***************************************************************************)
(* The event queue.  Events arrive after the states they were emitted      *)
(* after, in the order of their emission, and none is forgotten: for every *)
(* number of publishers and listeners, and however deep callbacks nest.    *)
(***************************************************************************)
Publication == [store : Publishers, at : Nat]
Delivery == [kind : {"event"}, event : Nat, after : Nat, to : SUBSET Listeners]

EventFrame ==
  [kind : {"call"}, opened : Nat]
    \cup [kind : {"pass", "flush"}, tells : SUBSET Publication]
    \cup [kind : {"settling", "draining"}]
    \cup Delivery

-----------------------------------------------------------------------------
(***************************************************************************)
(* The inductive invariant.  Transactions are open in the frame on top     *)
(* only.  What the batch holds waits for that frame, or for the flush on   *)
(* top that has told what it took.  A pass that tells stores of the batch  *)
(* is above the flush that called it, and events are never delivered above *)
(* a flush.  A delivery that waits, waits for an open transaction, or for  *)
(* a flush or a drain on the stack.                                        *)
(***************************************************************************)
Present(s, kinds) == \E k \in 1..Len(s) : s[k].kind \in kinds

IdleCall(f) == f.kind = "call" => f.opened = 0
AllIdleCalls(s) == \A k \in 1..Len(s) : IdleCall(s[k])

\* May frame f stand above the frames s?
Sits(f, s) ==
  /\ f.kind = "pass" /\ f.tells # {} => Present(s, {"flush"})
  /\ f.kind = "draining" => ~Present(s, Flushing)

Nested(s) == \A k \in 1..Len(s) : Sits(s[k], SubSeq(s, 1, k - 1))

Drains == Flushing \cup {"draining"}

\* The top frame f accounts for the open transactions t and for what waits:
\* publications u in the batch, and deliveries, if any (w).
Accounts(f, below, t, u, w) ==
  /\ t = IF f.kind = "call" THEN f.opened ELSE 0
  /\ u # {} => t > 0 \/ (f.kind = "flush" /\ f.tells = {})
  /\ w => t > 0 \/ f.kind \in Drains \/ Present(below, Drains)

StackSound(s, t, u, w) ==
  /\ s \in Seq(EventFrame)
  /\ Nested(s)
  /\ s = <<>> => t = 0 /\ u = {} /\ ~w
  /\ \A below \in Seq(EventFrame), f \in EventFrame :
       s = Append(below, f) => AllIdleCalls(below) /\ Accounts(f, below, t, u, w)

\* The deliveries that wait are in the order of their events.
InOrder ==
  /\ afterFlush \in Seq(Delivery)
  /\ \A i, j \in 1..Len(afterFlush) : i < j => afterFlush[i].event < afterFlush[j].event
  /\ \A i \in 1..Len(afterFlush) : afterFlush[i].event <= emitted
  /\ \A n \in unheard : \E i \in 1..Len(afterFlush) : afterFlush[i].event = n

EventTypes ==
  /\ untold \subseteq Publication
  /\ emitted \in Nat /\ announced \in Nat

EventInv ==
  /\ EventTypes
  /\ StackSound(calls, transactions, untold, afterFlush # <<>>)
  /\ InOrder

-----------------------------------------------------------------------------
(***************************************************************************)
(* The stack.                                                              *)
(***************************************************************************)

\* What is said of a stack, of a frame more.
LEMMA PushCallLemma ==
  ASSUME NEW s \in Seq(EventFrame), NEW f \in EventFrame
  PROVE  /\ Append(s, f) \in Seq(EventFrame)
         /\ Append(s, f) # <<>>
         /\ Front(Append(s, f)) = s
         /\ Last(Append(s, f)) = f
         /\ AllIdleCalls(Append(s, f)) <=> AllIdleCalls(s) /\ IdleCall(f)
         /\ Nested(Append(s, f)) <=> Nested(s) /\ Sits(f, s)
<1>. DEFINE g == Append(s, f)
            n == Len(s)
<1>1. /\ g \in Seq(EventFrame) /\ g # <<>>
      /\ n \in Nat /\ Len(g) = n + 1
      /\ \A k \in 1..n : g[k] = s[k]
      /\ g[n + 1] = f
  BY AppendProperties, LenProperties
<1>2. \A k \in 1..n + 1 : SubSeq(g, 1, k - 1) = SubSeq(s, 1, k - 1)
  <2>. SUFFICES ASSUME NEW k \in 1..n + 1 PROVE SubSeq(g, 1, k - 1) = SubSeq(s, 1, k - 1)
    OBVIOUS
  <2>. DEFINE a == SubSeq(g, 1, k - 1)
              b == SubSeq(s, 1, k - 1)
  <2>1. k - 1 \in 0..n /\ k - 1 \in 0..Len(g)
    BY <1>1
  <2>2. a = Restrict(g, 1..k - 1) /\ b = Restrict(s, 1..k - 1)
    BY <1>1, <2>1, SubSeqRestrict
  <2>3. \A j \in 1..k - 1 : g[j] = s[j]
    BY <1>1
  <2>. QED  BY <2>2, <2>3 DEF Restrict
<1>3. SubSeq(s, 1, n) = s
  BY SubSeqFull
<1>. HIDE DEF g, n
<1>4. Front(g) = s /\ Last(g) = f
  BY <1>1, <1>2, <1>3 DEF Front, Last
<1>5. AllIdleCalls(g) <=> AllIdleCalls(s) /\ IdleCall(f)
  BY <1>1 DEF AllIdleCalls, n
<1>6. Nested(g) <=> Nested(s) /\ Sits(f, s)
  <2>. DEFINE Pre(q, k) == SubSeq(q, 1, k - 1)
  <2>1. /\ \A k \in 1..n + 1 : Pre(g, k) = Pre(s, k)
        /\ Pre(s, n + 1) = s
    BY <1>1, <1>2, <1>3
  <2>2. /\ Nested(g) <=> \A k \in 1..n + 1 : Sits(g[k], Pre(g, k))
        /\ Nested(s) <=> \A k \in 1..n : Sits(s[k], Pre(s, k))
    BY <1>1 DEF Nested, n
  <2>. HIDE DEF Pre
  <2>. QED  BY <1>1, <2>1, <2>2
<1>. QED  BY <1>1, <1>4, <1>5, <1>6 DEF g

LEMMA PresentLemma ==
  ASSUME NEW s \in Seq(EventFrame), NEW f \in EventFrame, NEW kinds
  PROVE  Present(Append(s, f), kinds) <=> Present(s, kinds) \/ f.kind \in kinds
<1>1. /\ Len(s) \in Nat /\ Len(Append(s, f)) = Len(s) + 1
      /\ \A k \in 1..Len(s) : Append(s, f)[k] = s[k]
      /\ Append(s, f)[Len(s) + 1] = f
  BY AppendProperties, LenProperties
<1>. QED  BY <1>1 DEF Present

\* A stack that is not empty has a top.
LEMMA TopCallLemma ==
  ASSUME NEW s \in Seq(EventFrame), s # <<>>
  PROVE  /\ Front(s) \in Seq(EventFrame)
         /\ Last(s) \in EventFrame
         /\ s = Append(Front(s), Last(s))
<1>1. PICK below \in Seq(EventFrame), f \in EventFrame : s = Append(below, f)
  BY SequenceEmptyOrAppend
<1>. QED  BY <1>1, PushCallLemma

\* The code writes what is left and what is put on top as one sequence.
LEMMA ConcatLemma ==
  ASSUME NEW s \in Seq(EventFrame), NEW f \in EventFrame, NEW g \in EventFrame
  PROVE  /\ s \o <<f>> = Append(s, f)
         /\ s \o <<f, g>> = Append(Append(s, f), g)
OBVIOUS

\* A stack with a frame on top is sound if what is below is well nested and
\* idle, and the frame accounts for everything.
LEMMA SoundLemma ==
  ASSUME NEW below \in Seq(EventFrame), NEW f \in EventFrame,
         NEW t, NEW u, NEW w
  PROVE  StackSound(Append(below, f), t, u, w) <=>
           Nested(below) /\ Sits(f, below) /\ AllIdleCalls(below) /\ Accounts(f, below, t, u, w)
<1>1. /\ Append(below, f) \in Seq(EventFrame) /\ Append(below, f) # <<>>
      /\ Nested(Append(below, f)) <=> Nested(below) /\ Sits(f, below)
  BY PushCallLemma
<1>2. \A b \in Seq(EventFrame), h \in EventFrame :
        Append(below, f) = Append(b, h) <=> b = below /\ h = f
  BY AppendInjective
<1>. QED  BY <1>1, <1>2 DEF StackSound

\* What is left when the top frame goes is sound, if nothing is open, and no
\* publication waits, and deliveries only for frames that stay.
LEMMA PopLemma ==
  ASSUME NEW s \in Seq(EventFrame), NEW w, Nested(s), AllIdleCalls(s),
         w => Present(s, Drains), w \in BOOLEAN
  PROVE  StackSound(s, 0, {}, w)
<1>1. CASE s = <<>>
  <2>1. ~Present(s, Drains)
    BY <1>1 DEF Present
  <2>2. \A below \in Seq(EventFrame), f \in EventFrame : s # Append(below, f)
    BY <1>1, AppendProperties
  <2>. QED  BY <1>1, <2>1, <2>2 DEF StackSound
<1>2. CASE s # <<>>
  <2>. DEFINE below == Front(s)
              f == Last(s)
  <2>1. below \in Seq(EventFrame) /\ f \in EventFrame /\ s = Append(below, f)
    BY <1>2, TopCallLemma
  <2>. HIDE DEF below, f
  <2>2. Nested(below) /\ Sits(f, below) /\ AllIdleCalls(below) /\ IdleCall(f)
    BY <2>1, PushCallLemma
  <2>3. w => Present(below, Drains) \/ f.kind \in Drains
    BY <2>1, PresentLemma
  <2>4. Accounts(f, below, 0, {}, w)
    BY <2>2, <2>3 DEF Accounts, IdleCall
  <2>. QED  BY <2>1, <2>2, <2>4, SoundLemma
<1>. QED  BY <1>1, <1>2

\* A task begins on an empty stack, with one idle frame.
LEMMA TaskLemma ==
  ASSUME NEW w, w => FALSE
  PROVE  StackSound(Append(<<>>, Code), 0, {}, w)
<1>1. <<>> \in Seq(EventFrame) /\ Len(<<>>) = 0 /\ Code \in EventFrame
  BY DEF EventFrame, Code
<1>2. Nested(<<>>) /\ AllIdleCalls(<<>>) /\ Sits(Code, <<>>) /\ Accounts(Code, <<>>, 0, {}, w)
  BY DEF Nested, AllIdleCalls, Sits, Accounts, Code
<1>. QED  BY <1>1, <1>2, SoundLemma

\* What the invariant says of the running frame.
LEMMA RunningLemma ==
  ASSUME NEW t, NEW u, NEW w, StackSound(calls, t, u, w), calls # <<>>
  PROVE  /\ calls \in Seq(EventFrame)
         /\ Front(calls) \in Seq(EventFrame) /\ Last(calls) \in EventFrame
         /\ calls = Append(Front(calls), Last(calls))
         /\ Nested(calls) /\ Nested(Front(calls)) /\ AllIdleCalls(Front(calls))
         /\ Sits(Last(calls), Front(calls))
         /\ Accounts(Last(calls), Front(calls), t, u, w)
<1>1. calls \in Seq(EventFrame) /\ Nested(calls)
  BY DEF StackSound
<1>2. /\ Front(calls) \in Seq(EventFrame) /\ Last(calls) \in EventFrame
      /\ calls = Append(Front(calls), Last(calls))
  BY <1>1, TopCallLemma
<1>. DEFINE below == Front(calls)
            f == Last(calls)
<1>. HIDE DEF below, f
<1>3. Nested(below) /\ Sits(f, below) /\ AllIdleCalls(below) /\ Accounts(f, below, t, u, w)
  <2>1. below \in Seq(EventFrame) /\ f \in EventFrame /\ StackSound(Append(below, f), t, u, w)
    BY <1>2 DEF below, f
  <2>. QED  BY <2>1, SoundLemma
<1>. QED  BY <1>1, <1>2, <1>3 DEF below, f

LEMMA LookLemma ==
  ASSUME calls \in Seq(EventFrame), NEW kinds
  PROVE  /\ OnStack(kinds) <=> Present(calls, kinds)
         /\ calls # <<>> => (Underneath(kinds) <=> Present(Front(calls), kinds))
<1>1. OnStack(kinds) <=> Present(calls, kinds)
  BY DEF OnStack, Present
<1>2. ASSUME calls # <<>> PROVE Underneath(kinds) <=> Present(Front(calls), kinds)
  <2>. DEFINE below == Front(calls)
              f == Last(calls)
  <2>1. below \in Seq(EventFrame) /\ f \in EventFrame /\ calls = Append(below, f)
    BY <1>2, TopCallLemma
  <2>. HIDE DEF below, f
  <2>2. /\ Len(below) \in Nat /\ Len(calls) = Len(below) + 1
        /\ \A k \in 1..Len(below) : calls[k] = below[k]
    BY <2>1, AppendProperties, LenProperties
  <2>3. Underneath(kinds) <=> Present(below, kinds)
    BY <2>2 DEF Underneath, Present
  <2>. QED  BY <2>3 DEF below
<1>. QED  BY <1>1, <1>2

\* The frames of the code are frames, and their kinds tell their fields.
LEMMA FrameLemma ==
  /\ Code \in EventFrame
  /\ \A told \in SUBSET Publication : Pass(told) \in EventFrame /\ Flush(told) \in EventFrame
  /\ [kind |-> "settling"] \in EventFrame /\ [kind |-> "draining"] \in EventFrame
  /\ Delivery \subseteq EventFrame
  /\ \A f \in EventFrame :
       /\ f.kind = "call" => f \in [kind : {"call"}, opened : Nat]
       /\ f.kind = "pass" => f \in [kind : {"pass"}, tells : SUBSET Publication]
       /\ f.kind = "flush" => f \in [kind : {"flush"}, tells : SUBSET Publication]
       /\ f.kind = "event" => f \in Delivery
BY DEF EventFrame, Code, Pass, Flush, Delivery

\* Frames that need nothing below them.
LEMMA SitsLemma ==
  ASSUME NEW f, NEW s, f.kind \in {"call", "flush", "settling", "event"}
  PROVE  Sits(f, s)
BY DEF Sits

-----------------------------------------------------------------------------
(***************************************************************************)
(* The steps.                                                              *)
(***************************************************************************)
\* Above a frame that opened nothing and is not a flush, no transaction is
\* open, the batch is empty, and deliveries wait only for frames of the stack.
LEMMA RestLemma ==
  ASSUME EventInv, calls # <<>>, IdleCall(Last(calls)), Last(calls).kind # "flush"
  PROVE  /\ transactions = 0 /\ untold = {}
         /\ afterFlush # <<>> => Present(calls, Drains)
         /\ AllIdleCalls(calls)
<1>1. /\ Front(calls) \in Seq(EventFrame) /\ Last(calls) \in EventFrame
      /\ calls = Append(Front(calls), Last(calls)) /\ AllIdleCalls(Front(calls))
      /\ Accounts(Last(calls), Front(calls), transactions, untold, afterFlush # <<>>)
  BY RunningLemma DEF EventInv
<1>2. transactions = 0
  BY <1>1 DEF Accounts, IdleCall
<1>3. untold = {}
  BY <1>1, <1>2 DEF Accounts
<1>4. afterFlush # <<>> => Last(calls).kind \in Drains \/ Present(Front(calls), Drains)
  BY <1>1, <1>2 DEF Accounts
<1>. DEFINE below == Front(calls)
            f == Last(calls)
<1>5. /\ below \in Seq(EventFrame) /\ f \in EventFrame /\ calls = Append(below, f)
      /\ AllIdleCalls(below) /\ IdleCall(f)
      /\ afterFlush # <<>> => f.kind \in Drains \/ Present(below, Drains)
  BY <1>1, <1>4
<1>. HIDE DEF below, f
<1>6. (afterFlush # <<>> => Present(calls, Drains)) /\ AllIdleCalls(calls)
  BY <1>5, PresentLemma, PushCallLemma
<1>. QED  BY <1>2, <1>3, <1>6

\* A frame is put on such a frame.
LEMMA PushStep ==
  ASSUME EventInv, calls # <<>>, IdleCall(Last(calls)), Last(calls).kind # "flush",
         NEW f \in EventFrame, f.kind = "call" => f.opened = 0, Sits(f, calls),
         NEW w \in BOOLEAN, w => Present(calls, Drains)
  PROVE  StackSound(Append(calls, f), transactions, untold, w)
<1>1. calls \in Seq(EventFrame) /\ Nested(calls)
  BY RunningLemma DEF EventInv
<1>2. transactions = 0 /\ untold = {} /\ AllIdleCalls(calls)
  BY RestLemma
<1>3. Accounts(f, calls, transactions, untold, w)
  BY <1>2 DEF Accounts
<1>. QED  BY <1>1, <1>2, <1>3, SoundLemma

\* Such a frame goes.
LEMMA PopStep ==
  ASSUME EventInv, calls # <<>>, IdleCall(Last(calls)), Last(calls).kind # "flush",
         afterFlush # <<>> => Present(Front(calls), Drains)
  PROVE  StackSound(Front(calls), transactions, untold, afterFlush # <<>>)
<1>1. /\ Front(calls) \in Seq(EventFrame)
      /\ Nested(Front(calls)) /\ AllIdleCalls(Front(calls))
  BY RunningLemma DEF EventInv
<1>2. transactions = 0 /\ untold = {}
  BY RestLemma
<1>. QED  BY <1>1, <1>2, PopLemma

\* Another frame takes the place of the top.
LEMMA ReplaceStep ==
  ASSUME EventInv, calls # <<>>, NEW f \in EventFrame, Sits(f, Front(calls)),
         NEW t, NEW u, NEW w, Accounts(f, Front(calls), t, u, w)
  PROVE  StackSound(Append(Front(calls), f), t, u, w)
<1>1. /\ Front(calls) \in Seq(EventFrame)
      /\ Nested(Front(calls)) /\ AllIdleCalls(Front(calls))
  BY RunningLemma DEF EventInv
<1>. QED  BY <1>1, SoundLemma

\* Another frame takes the place of the top, and one is put on it.
LEMMA ReplacePushStep ==
  ASSUME EventInv, calls # <<>>, NEW f \in EventFrame, Sits(f, Front(calls)), IdleCall(f),
         NEW g \in EventFrame, Sits(g, Append(Front(calls), f)),
         NEW t, NEW u, NEW w, Accounts(g, Append(Front(calls), f), t, u, w)
  PROVE  StackSound(Append(Append(Front(calls), f), g), t, u, w)
<1>. DEFINE s == Append(Front(calls), f)
<1>1. /\ Front(calls) \in Seq(EventFrame)
      /\ Nested(Front(calls)) /\ AllIdleCalls(Front(calls))
  BY RunningLemma DEF EventInv
<1>2. s \in Seq(EventFrame) /\ Nested(s) /\ AllIdleCalls(s)
  BY <1>1, PushCallLemma
<1>3. Sits(g, s) /\ Accounts(g, s, t, u, w)
  OBVIOUS
<1>. HIDE DEF s
<1>4. StackSound(Append(s, g), t, u, w)
  BY <1>2, <1>3, SoundLemma
<1>. QED  BY <1>4 DEF s

LEMMA NextTypes == EventInv /\ [EventNext]_eventVars => EventTypes'
<1>. SUFFICES ASSUME EventInv, [EventNext]_eventVars PROVE EventTypes'
  OBVIOUS
<1>. USE DEF EventInv, EventTypes, batchVars, hubVars, queueVars
<1>1. ASSUME NEW s \in Publishers, Announce(s) PROVE EventTypes'
  BY <1>1 DEF Announce, Publication
<1>2. ASSUME NEW s \in Publishers, TellStore(s) PROVE EventTypes'
  BY <1>2 DEF TellStore
<1>3. ASSUME NEW l \in Listeners, Listen(l) \/ Unlisten(l) \/ CallListener(l) PROVE EventTypes'
  BY <1>3 DEF Listen, Unlisten, CallListener
<1>4. CASE Open \/ Close \/ CloseHub \/ ReturnCode \/ CallSubscriber \/ EndPass
  BY <1>4 DEF Open, Close, CloseHub, ReturnCode, CallSubscriber, EndPass
<1>5. CASE EmitEvent
  BY <1>5 DEF EmitEvent
<1>6. CASE TakeUntold \/ CloseWave \/ SettleOne \/ FlushEnds
  BY <1>6 DEF TakeUntold, CloseWave, SettleOne, FlushEnds
<1>7. CASE DeliverNext \/ EndDrain \/ EndDelivery \/ StartCode
  BY <1>7 DEF DeliverNext, EndDrain, EndDelivery, StartCode
<1>8. CASE UNCHANGED eventVars
  BY <1>8 DEF eventVars
<1>. QED  BY <1>1, <1>2, <1>3, <1>4, <1>5, <1>6, <1>7, <1>8 DEF EventNext

LEMMA NextStack ==
  EventInv /\ [EventNext]_eventVars => StackSound(calls, transactions, untold, afterFlush # <<>>)'
<1>. SUFFICES ASSUME EventInv, [EventNext]_eventVars
              PROVE  StackSound(calls', transactions', untold', afterFlush' # <<>>)
  OBVIOUS
<1>. DEFINE Sound == StackSound(calls', transactions', untold', afterFlush' # <<>>)
            below == Front(calls)
            top == Last(calls)
<1>. USE DEF batchVars, hubVars, queueVars
<1>0. /\ StackSound(calls, transactions, untold, afterFlush # <<>>)
      /\ calls \in Seq(EventFrame) /\ afterFlush \in Seq(Delivery)
      /\ untold \subseteq Publication /\ announced \in Nat /\ emitted \in Nat
  BY DEF EventInv, StackSound, EventTypes, InOrder
<1>r. ASSUME calls # <<>>
      PROVE  /\ below \in Seq(EventFrame) /\ top \in EventFrame
             /\ calls = Append(below, top)
             /\ Sits(top, below)
             /\ Accounts(top, below, transactions, untold, afterFlush # <<>>)
  BY <1>r, <1>0, RunningLemma
<1>c. ASSUME OnTop("call")
      PROVE  /\ calls # <<>> /\ top \in [kind : {"call"}, opened : Nat] /\ transactions = top.opened
             /\ Accounts(top, below, transactions, untold, afterFlush # <<>>)
  BY <1>c, <1>r, FrameLemma DEF OnTop, Accounts
<1>1. ASSUME NEW s \in Publishers, Announce(s) PROVE Sound
  <2>1. CASE transactions > 0
    <3>1. Accounts(top, below, transactions, untold', afterFlush # <<>>)
      BY <1>1, <1>c, <2>1 DEF Announce, Accounts
    <3>2. calls' = calls /\ transactions' = transactions /\ afterFlush' = afterFlush
      BY <1>1, <2>1 DEF Announce
    <3>3. Sits(top, below)
      BY <1>1, <1>c, <1>r DEF Announce
    <3>. QED  BY <1>1, <1>c, <1>r, <3>1, <3>2, <3>3, ReplaceStep DEF Announce
  <2>2. CASE ~(transactions > 0)
    <3>1. calls' = Append(calls, Pass({})) /\ UNCHANGED <<transactions, untold, afterFlush>>
      BY <1>1, <2>2 DEF Announce, Pushed
    <3>2. IdleCall(top) /\ top.kind = "call" /\ calls # <<>>
      BY <1>1, <1>c, <2>2 DEF Announce, IdleCall, OnTop
    <3>3. Pass({}) \in EventFrame /\ Sits(Pass({}), calls) /\ Pass({}).kind = "pass"
      BY FrameLemma DEF Sits, Pass
    <3>. QED  BY <3>1, <3>2, <3>3, RestLemma, PushStep
  <2>. QED  BY <2>1, <2>2
<1>2. CASE Open
  <2>. DEFINE f == [top EXCEPT !.opened = @ + 1]
  <2>1. calls' = Append(below, f) /\ transactions' = transactions + 1 /\ UNCHANGED <<untold, afterFlush>>
    BY <1>2 DEF Open, Replaced
  <2>2. top \in [kind : {"call"}, opened : Nat] /\ transactions = top.opened /\ calls # <<>>
    BY <1>2, <1>c DEF Open
  <2>3. f \in EventFrame /\ f.kind = "call" /\ f.opened = transactions + 1 /\ transactions \in Nat
    BY <2>2 DEF EventFrame
  <2>. HIDE DEF f
  <2>4. Sits(f, below) /\ Accounts(f, below, transactions + 1, untold, afterFlush # <<>>)
    BY <2>3, SitsLemma DEF Accounts
  <2>. QED  BY <2>1, <2>2, <2>3, <2>4, ReplaceStep
<1>3. CASE Close
  <2>. DEFINE f == [top EXCEPT !.opened = @ - 1]
  <2>1. /\ calls' = below \o (IF transactions > 1 THEN <<f>> ELSE <<f, Flush({})>>)
        /\ transactions' = transactions - 1 /\ UNCHANGED <<untold, afterFlush>>
    BY <1>3 DEF Close
  <2>2. /\ top \in [kind : {"call"}, opened : Nat] /\ transactions = top.opened /\ calls # <<>>
        /\ top.opened > 0 /\ below \in Seq(EventFrame)
    BY <1>3, <1>c, <1>r DEF Close
  <2>3. f \in EventFrame /\ f.kind = "call" /\ f.opened = transactions - 1 /\ transactions \in Nat
    BY <2>2 DEF EventFrame
  <2>. HIDE DEF f
  <2>4. Sits(f, below)
    BY <2>3, SitsLemma
  <2>5. CASE transactions > 1
    <3>1. Accounts(f, below, transactions - 1, untold, afterFlush # <<>>)
      BY <2>3, <2>5 DEF Accounts
    <3>2. calls' = Append(below, f)
      BY <2>1, <2>2, <2>3, <2>5, ConcatLemma
    <3>. QED  BY <2>1, <2>2, <2>3, <2>4, <3>1, <3>2, ReplaceStep
  <2>6. CASE ~(transactions > 1)
    <3>1. Flush({}) \in EventFrame /\ Flush({}).kind = "flush" /\ Flush({}).tells = {}
      BY FrameLemma DEF Flush
    <3>2. calls' = Append(Append(below, f), Flush({})) /\ transactions' = 0
      BY <2>1, <2>2, <2>3, <2>6, <3>1, ConcatLemma
    <3>3. Accounts(Flush({}), Append(below, f), 0, untold, afterFlush # <<>>)
      BY <3>1 DEF Accounts, Drains, Flushing
    <3>4. IdleCall(f) /\ Sits(Flush({}), Append(below, f))
      BY <2>2, <2>3, <2>6, <3>1, SitsLemma DEF IdleCall
    <3>5. StackSound(Append(Append(below, f), Flush({})), 0, untold, afterFlush # <<>>)
      <4>. HIDE DEF Sound
      <4>. QED  BY <2>2, <2>3, <2>4, <3>1, <3>3, <3>4, ReplacePushStep
    <3>. QED  BY <2>1, <3>2, <3>5
  <2>. QED  BY <2>5, <2>6
<1>4. ASSUME NEW l \in Listeners, Listen(l) \/ Unlisten(l) PROVE Sound
  BY <1>4, <1>0 DEF Listen, Unlisten
<1>5. CASE CloseHub
  BY <1>5, <1>0 DEF CloseHub
<1>6. CASE EmitEvent
  <2>. DEFINE heard == {l \in Listeners : listener[l] = "on"}
              d == [kind |-> "event", event |-> emitted + 1, after |-> announced, to |-> heard]
  <2>1. /\ \/ MustWait /\ afterFlush' = Append(afterFlush, d) /\ UNCHANGED calls
           \/ ~MustWait /\ calls' = Append(calls, d) /\ UNCHANGED afterFlush
        /\ UNCHANGED <<transactions, untold>>
        /\ OnTop("call")
    BY <1>6 DEF EmitEvent, Enqueue, Pushed
  <2>2. d \in Delivery
    BY <1>0 DEF Delivery
  <2>. HIDE DEF d
  <2>3. MustWait <=> transactions > 0 \/ Present(calls, Drains)
    BY <1>0, LookLemma DEF MustWait, Drains
  <2>4. CASE MustWait /\ afterFlush' = Append(afterFlush, d) /\ UNCHANGED calls
    <3>1. transactions > 0 \/ top.kind \in Drains \/ Present(below, Drains)
      BY <1>c, <1>r, <2>1, <2>3, <2>4, PresentLemma
    <3>2. Accounts(top, below, transactions, untold, afterFlush' # <<>>)
      BY <1>c, <2>1, <3>1 DEF Accounts
    <3>. QED  BY <1>c, <1>r, <2>1, <2>4, <3>2, ReplaceStep
  <2>5. CASE ~MustWait /\ calls' = Append(calls, d) /\ UNCHANGED afterFlush
    <3>1. calls # <<>> /\ IdleCall(top) /\ top.kind = "call"
      BY <1>c, <2>1, <2>3, <2>5 DEF IdleCall, OnTop
    <3>2. d \in EventFrame /\ d.kind = "event" /\ Sits(d, calls)
      BY <2>2, FrameLemma, SitsLemma DEF Delivery
    <3>3. StackSound(Append(calls, d), transactions, untold, afterFlush # <<>>)
      BY <3>1, <3>2, RestLemma, PushStep
    <3>. QED  BY <2>1, <2>5, <3>3
  <2>. QED  BY <2>1, <2>4, <2>5
<1>7. CASE ReturnCode
  <2>1. /\ calls # <<>> /\ IdleCall(top) /\ top.kind = "call" /\ calls' = below
        /\ UNCHANGED <<transactions, untold, afterFlush>>
        /\ transactions = 0
    BY <1>7, <1>c DEF ReturnCode, IdleCall, OnTop
  <2>2. afterFlush # <<>> => Present(below, Drains)
    BY <1>r, <2>1 DEF Accounts, Drains, Flushing
  <2>3. StackSound(below, transactions, untold, afterFlush # <<>>)
    BY <2>1, <2>2, PopStep
  <2>. QED  BY <2>1, <2>3
<1>8. CASE CallSubscriber \/ SettleOne
  <2>1. /\ calls # <<>> /\ IdleCall(top) /\ top.kind # "flush" /\ calls' = Append(calls, Code)
        /\ UNCHANGED <<transactions, untold, afterFlush>>
    BY <1>8 DEF CallSubscriber, SettleOne, OnTop, Pushed, IdleCall
  <2>2. Code \in EventFrame /\ Code.kind = "call" /\ Code.opened = 0 /\ Sits(Code, calls)
    BY FrameLemma, SitsLemma DEF Code
  <2>3. StackSound(Append(calls, Code), transactions, untold, afterFlush # <<>>)
    BY <2>1, <2>2, RestLemma, PushStep
  <2>. QED  BY <2>1, <2>3
<1>9. CASE EndPass \/ EndDelivery
  <2>1. /\ calls # <<>> /\ IdleCall(top) /\ top.kind \in {"pass", "event"} /\ calls' = below
        /\ UNCHANGED <<transactions, untold, afterFlush>>
    BY <1>9 DEF EndPass, EndDelivery, OnTop, IdleCall
  <2>2. afterFlush # <<>> => Present(below, Drains)
    BY <1>r, <2>1, RestLemma DEF Accounts, Drains, Flushing
  <2>3. StackSound(below, transactions, untold, afterFlush # <<>>)
    BY <2>1, <2>2, PopStep
  <2>. QED  BY <2>1, <2>3
<1>f. ASSUME OnTop("flush")
      PROVE  /\ calls # <<>> /\ top \in [kind : {"flush"}, tells : SUBSET Publication]
             /\ top.kind = "flush" /\ transactions = 0 /\ (untold # {} => top.tells = {})
  BY <1>f, <1>r, FrameLemma DEF OnTop, Accounts
<1>10. CASE TakeUntold
  <2>1. /\ OnTop("flush") /\ calls' = Append(below, Flush(untold)) /\ untold' = {}
        /\ UNCHANGED <<transactions, afterFlush>>
    BY <1>10 DEF TakeUntold, Replaced
  <2>2. Flush(untold) \in EventFrame /\ Flush(untold).kind = "flush"
    BY <1>0, FrameLemma DEF Flush
  <2>3. Accounts(Flush(untold), below, 0, {}, afterFlush # <<>>) /\ Sits(Flush(untold), below)
    BY <2>2, SitsLemma DEF Accounts, Drains, Flushing
  <2>4. StackSound(Append(below, Flush(untold)), 0, {}, afterFlush # <<>>)
    BY <1>f, <2>1, <2>2, <2>3, ReplaceStep
  <2>. QED  BY <1>f, <2>1, <2>4
<1>11. ASSUME NEW s \in Publishers, TellStore(s) PROVE Sound
  <2>. DEFINE told == {u \in top.tells : u.store = s}
              f == Flush(top.tells \ told)
              g == Pass(told)
  <2>1. /\ OnTop("flush") /\ told # {} /\ calls' = below \o <<f, g>>
        /\ UNCHANGED <<transactions, untold, afterFlush>>
    BY <1>11 DEF TellStore
  <2>2. f \in EventFrame /\ f.kind = "flush" /\ g \in EventFrame /\ g.kind = "pass"
    BY <1>f, <2>1, FrameLemma DEF Flush, Pass
  <2>3. top.tells # {}
    BY <2>1
  <2>. HIDE DEF told, f, g
  <2>4. below \in Seq(EventFrame) /\ transactions = 0 /\ untold = {}
    BY <1>f, <1>r, <2>1, <2>3
  <2>5. calls' = Append(Append(below, f), g)
    BY <2>1, <2>2, <2>4, ConcatLemma
  <2>6. Present(Append(below, f), {"flush"}) /\ Present(Append(below, f), Drains)
    BY <2>2, <2>4, PresentLemma DEF Drains, Flushing
  <2>7. /\ Sits(f, below) /\ IdleCall(f)
        /\ Sits(g, Append(below, f)) /\ Accounts(g, Append(below, f), 0, {}, afterFlush # <<>>)
    BY <2>2, <2>6 DEF Sits, IdleCall, Accounts
  <2>8. StackSound(Append(Append(below, f), g), 0, {}, afterFlush # <<>>)
    BY <1>f, <2>1, <2>2, <2>7, ReplacePushStep
  <2>. QED  BY <2>1, <2>4, <2>5, <2>8
<1>12. CASE CloseWave
  <2>. DEFINE f == [kind |-> "settling"]
  <2>1. /\ OnTop("flush") /\ calls' = Append(below, f) /\ untold = {}
        /\ UNCHANGED <<transactions, untold, afterFlush>>
    BY <1>12 DEF CloseWave, Replaced
  <2>2. f \in EventFrame /\ f.kind = "settling"
    BY FrameLemma
  <2>. HIDE DEF f
  <2>3. Accounts(f, below, 0, {}, afterFlush # <<>>) /\ Sits(f, below)
    BY <2>2, SitsLemma DEF Accounts, Drains, Flushing
  <2>4. StackSound(Append(below, f), 0, {}, afterFlush # <<>>)
    BY <1>f, <2>1, <2>2, <2>3, ReplaceStep
  <2>. QED  BY <1>f, <2>1, <2>4
<1>13. CASE FlushEnds
  <2>1. /\ calls # <<>> /\ IdleCall(top) /\ top.kind = "settling"
        /\ UNCHANGED <<transactions, untold, afterFlush>>
    BY <1>13 DEF FlushEnds, OnTop, IdleCall
  <2>2. transactions = 0 /\ untold = {}
    BY <2>1, RestLemma
  <2>3. Underneath(Flushing \cup {"draining"}) <=> Present(below, Drains)
    BY <1>0, <2>1, LookLemma DEF Drains
  <2>4. CASE Present(below, Drains) \/ afterFlush = <<>>
    <3>1. calls' = below
      BY <1>13, <2>3, <2>4 DEF FlushEnds
    <3>2. StackSound(below, transactions, untold, afterFlush # <<>>)
      BY <2>1, <2>4, PopStep
    <3>. QED  BY <2>1, <3>1, <3>2
  <2>5. CASE ~(Present(below, Drains) \/ afterFlush = <<>>)
    <3>. DEFINE f == [kind |-> "draining"]
    <3>1. calls' = Append(below, f)
      BY <1>13, <2>2, <2>3, <2>5 DEF FlushEnds, Replaced
    <3>2. f \in EventFrame /\ f.kind = "draining"
      BY FrameLemma
    <3>. HIDE DEF f
    <3>3. Sits(f, below) /\ Accounts(f, below, 0, {}, afterFlush # <<>>)
      BY <2>5, <3>2 DEF Sits, Accounts, Present, Drains
    <3>4. StackSound(Append(below, f), 0, {}, afterFlush # <<>>)
      BY <2>1, <3>2, <3>3, ReplaceStep
    <3>. QED  BY <2>1, <2>2, <3>1, <3>4
  <2>. QED  BY <2>4, <2>5
<1>14. CASE DeliverNext
  <2>1. /\ calls # <<>> /\ IdleCall(top) /\ top.kind = "draining" /\ afterFlush # <<>>
        /\ calls' = Append(calls, Head(afterFlush))
        /\ UNCHANGED <<transactions, untold>>
    BY <1>14 DEF DeliverNext, OnTop, IdleCall, Pushed
  <2>. DEFINE d == Head(afterFlush)
  <2>a. d \in Delivery
    BY <1>0, <2>1, HeadTailProperties
  <2>. HIDE DEF d
  <2>2. d \in EventFrame /\ d.kind = "event" /\ Sits(d, calls)
    BY <2>a, FrameLemma, SitsLemma DEF Delivery
  <2>b. top.kind \in Drains
    BY <2>1 DEF Drains
  <2>3. Present(calls, Drains)
    <3>. HIDE DEF below, top
    <3>. QED  BY <1>r, <2>1, <2>b, PresentLemma
  <2>4. StackSound(Append(calls, d), transactions, untold, afterFlush' # <<>>)
    BY <2>1, <2>2, <2>3, PushStep
  <2>. QED  BY <2>1, <2>4 DEF d
<1>15. CASE EndDrain
  <2>1. /\ calls # <<>> /\ IdleCall(top) /\ top.kind = "draining" /\ calls' = below
        /\ afterFlush = <<>>
        /\ UNCHANGED <<transactions, untold, afterFlush>>
    BY <1>15 DEF EndDrain, OnTop, IdleCall
  <2>2. StackSound(below, transactions, untold, afterFlush # <<>>)
    BY <2>1, PopStep
  <2>. QED  BY <2>1, <2>2
<1>16. ASSUME NEW l \in Listeners, CallListener(l) PROVE Sound
  <2>. DEFINE f == [top EXCEPT !.to = @ \ {l}]
  <2>1. /\ calls # <<>> /\ top.kind = "event"
        /\ calls' = below \o (IF listener[l] = "on" THEN <<f, Code>> ELSE <<f>>)
        /\ UNCHANGED <<transactions, untold, afterFlush>>
    BY <1>16 DEF CallListener, OnTop
  <2>2. f \in EventFrame /\ f.kind = "event" /\ below \in Seq(EventFrame)
    <3>1. top \in Delivery
      BY <1>r, <2>1, FrameLemma
    <3>2. f \in Delivery
      BY <3>1 DEF Delivery
    <3>. QED  BY <1>r, <2>1, <3>2, FrameLemma DEF Delivery
  <2>. HIDE DEF f
  <2>3. /\ transactions = 0 /\ untold = {}
        /\ afterFlush # <<>> => Present(below, Drains)
    BY <1>r, <2>1, RestLemma DEF Accounts, Drains, Flushing, IdleCall
  <2>4. Sits(f, below) /\ IdleCall(f) /\ Accounts(f, below, 0, {}, afterFlush # <<>>)
    BY <2>2, <2>3, SitsLemma DEF IdleCall, Accounts
  <2>5. CASE listener[l] = "on"
    <3>1. Code \in EventFrame /\ Code.kind = "call" /\ Code.opened = 0
      BY FrameLemma DEF Code
    <3>2. calls' = Append(Append(below, f), Code)
      BY <2>1, <2>2, <2>5, <3>1, ConcatLemma
    <3>3. /\ Sits(Code, Append(below, f))
          /\ Accounts(Code, Append(below, f), 0, {}, afterFlush # <<>>)
      BY <2>2, <2>3, <3>1, PresentLemma, SitsLemma DEF Accounts
    <3>4. StackSound(Append(Append(below, f), Code), 0, {}, afterFlush # <<>>)
      BY <2>1, <2>2, <2>4, <3>1, <3>3, ReplacePushStep
    <3>. QED  BY <2>1, <2>3, <3>2, <3>4
  <2>6. CASE listener[l] # "on"
    <3>1. calls' = Append(below, f)
      BY <2>1, <2>2, <2>6, ConcatLemma
    <3>2. StackSound(Append(below, f), 0, {}, afterFlush # <<>>)
      BY <2>1, <2>2, <2>4, ReplaceStep
    <3>. QED  BY <2>1, <2>3, <3>1, <3>2
  <2>. QED  BY <2>5, <2>6
<1>17. CASE StartCode
  <2>1. /\ calls = <<>> /\ calls' = Append(<<>>, Code) /\ UNCHANGED <<transactions, untold, afterFlush>>
    BY <1>17 DEF StartCode, Pushed
  <2>2. transactions = 0 /\ untold = {} /\ afterFlush = <<>>
    BY <1>0, <2>1 DEF StackSound
  <2>. QED  BY <2>1, <2>2, TaskLemma
<1>18. CASE UNCHANGED eventVars
  BY <1>18, <1>0 DEF eventVars
<1>. HIDE DEF Sound
<1>. QED
  <2>. HIDE DEF below, top
  <2>1. CASE \E s \in Publishers : Announce(s) \/ TellStore(s)
    BY <1>1, <1>11, <2>1 DEF Sound
  <2>2. CASE \E l \in Listeners : Listen(l) \/ Unlisten(l) \/ CallListener(l)
    BY <1>4, <1>16, <2>2 DEF Sound
  <2>. QED  BY <2>1, <2>2, <1>2, <1>3, <1>5, <1>6, <1>7, <1>8, <1>9, <1>10, <1>12, <1>13,
               <1>14, <1>15, <1>17, <1>18 DEF EventNext, Sound

LEMMA EventOfLemma ==
  ASSUME NEW q \in Seq(Delivery), NEW i \in 1..Len(q)
  PROVE  q[i] \in Delivery /\ q[i].event \in Nat
<1>1. q[i] \in Delivery
  BY ElementOfSeq
<1>. QED  BY <1>1 DEF Delivery

\* What waits stays in the order of emission: an event joins at the end, and
\* the first one leaves.
LEMMA NextOrder == EventInv /\ [EventNext]_eventVars => InOrder'
<1>. SUFFICES ASSUME EventInv, [EventNext]_eventVars PROVE InOrder'
  OBVIOUS
<1>. USE DEF batchVars, hubVars, queueVars
<1>0. InOrder /\ emitted \in Nat /\ announced \in Nat /\ Len(afterFlush) \in Nat
  BY LenProperties DEF EventInv, EventTypes, InOrder
<1>e. \A i \in 1..Len(afterFlush) : afterFlush[i].event \in Nat
  BY <1>0, EventOfLemma DEF InOrder
<1>u. ASSUME UNCHANGED queueVars PROVE InOrder'
  BY <1>u, <1>0 DEF InOrder
<1>1. CASE EmitEvent
  <2>. DEFINE heard == {l \in Listeners : listener[l] = "on"}
              d == [kind |-> "event", event |-> emitted + 1, after |-> announced, to |-> heard]
  <2>1. /\ emitted' = emitted + 1
        /\ \/ afterFlush' = Append(afterFlush, d) /\ unheard' = unheard \cup {emitted + 1}
           \/ UNCHANGED <<afterFlush, unheard>>
    BY <1>1 DEF EmitEvent, Enqueue
  <2>2. d \in Delivery /\ d.event = emitted + 1
    BY <1>0 DEF Delivery
  <2>. HIDE DEF d
  <2>3. CASE UNCHANGED <<afterFlush, unheard>>
    <3>. QED  BY <1>0, <1>e, <2>1, <2>3 DEF InOrder
  <2>4. CASE afterFlush' = Append(afterFlush, d) /\ unheard' = unheard \cup {emitted + 1}
    <3>. DEFINE n == Len(afterFlush)
    <3>1. /\ afterFlush' \in Seq(Delivery)
          /\ Len(afterFlush') = n + 1
          /\ \A i \in 1..n : afterFlush'[i] = afterFlush[i]
          /\ afterFlush'[n + 1] = d
      BY <1>0, <2>2, <2>4, AppendProperties DEF InOrder
    <3>2. \A i \in 1..n : afterFlush[i].event \in Nat /\ afterFlush[i].event <= emitted
      BY <1>0, <1>e DEF InOrder
    <3>3. \A i \in 1..n + 1 : afterFlush'[i].event <= emitted'
      BY <1>0, <2>1, <2>2, <3>1, <3>2
    <3>4. \A i, j \in 1..n + 1 : i < j => afterFlush'[i].event < afterFlush'[j].event
      BY <1>0, <2>2, <3>1, <3>2 DEF InOrder
    <3>5. \A m \in unheard' : \E i \in 1..n + 1 : afterFlush'[i].event = m
      <4>1. \A m \in unheard : \E i \in 1..n : afterFlush'[i].event = m
        BY <1>0, <3>1 DEF InOrder
      <4>. QED  BY <1>0, <2>2, <2>4, <3>1, <4>1
    <3>. QED  BY <3>1, <3>3, <3>4, <3>5 DEF InOrder
  <2>. QED  BY <2>1, <2>3, <2>4
<1>2. CASE DeliverNext
  <2>. DEFINE n == Len(afterFlush)
  <2>1. /\ afterFlush # <<>> /\ afterFlush' = Tail(afterFlush) /\ emitted' = emitted
        /\ unheard' = unheard \ {Head(afterFlush).event}
    BY <1>2 DEF DeliverNext
  <2>2. /\ afterFlush' \in Seq(Delivery)
        /\ Len(afterFlush') = n - 1
        /\ \A i \in 1..n - 1 : afterFlush'[i] = afterFlush[i + 1]
        /\ Head(afterFlush) = afterFlush[1]
    BY <1>0, <2>1, HeadTailProperties DEF InOrder
  <2>3. \A m \in unheard' : \E i \in 1..n - 1 : afterFlush'[i].event = m
    <3>. SUFFICES ASSUME NEW m \in unheard' PROVE \E i \in 1..n - 1 : afterFlush'[i].event = m
      OBVIOUS
    <3>1. PICK i \in 1..n : afterFlush[i].event = m
      BY <1>0, <2>1 DEF InOrder
    <3>2. i # 1
      BY <2>1, <2>2, <3>1
    <3>3. i - 1 \in 1..n - 1 /\ (i - 1) + 1 = i
      BY <1>0, <3>2
    <3>. QED  BY <2>2, <3>1, <3>3
  <2>4. \A i, j \in 1..n - 1 : i < j => afterFlush'[i].event < afterFlush'[j].event
    <3>. SUFFICES ASSUME NEW i \in 1..n - 1, NEW j \in 1..n - 1, i < j
                  PROVE  afterFlush'[i].event < afterFlush'[j].event
      OBVIOUS
    <3>1. i + 1 \in 1..n /\ j + 1 \in 1..n /\ i + 1 < j + 1
      BY <1>0
    <3>. QED  BY <1>0, <2>2, <3>1 DEF InOrder
  <2>5. \A i \in 1..n - 1 : afterFlush'[i].event <= emitted'
    <3>. SUFFICES ASSUME NEW i \in 1..n - 1 PROVE afterFlush'[i].event <= emitted'
      OBVIOUS
    <3>1. i + 1 \in 1..n
      BY <1>0
    <3>. QED  BY <1>0, <2>1, <2>2, <3>1 DEF InOrder
  <2>. QED  BY <2>2, <2>3, <2>4, <2>5 DEF InOrder
<1>3. ASSUME NEW s \in Publishers, Announce(s) \/ TellStore(s) PROVE UNCHANGED queueVars
  BY <1>3 DEF Announce, TellStore
<1>4. ASSUME NEW l \in Listeners, Listen(l) \/ Unlisten(l) \/ CallListener(l) PROVE UNCHANGED queueVars
  BY <1>4 DEF Listen, Unlisten, CallListener
<1>5. CASE Open \/ Close \/ CloseHub \/ ReturnCode \/ CallSubscriber \/ EndPass
  BY <1>5, <1>u DEF Open, Close, CloseHub, ReturnCode, CallSubscriber, EndPass
<1>6. CASE TakeUntold \/ CloseWave \/ SettleOne \/ FlushEnds \/ EndDrain \/ EndDelivery \/ StartCode
  BY <1>6, <1>u DEF TakeUntold, CloseWave, SettleOne, FlushEnds, EndDrain, EndDelivery, StartCode
<1>7. CASE UNCHANGED eventVars
  BY <1>7, <1>u DEF eventVars
<1>. QED  BY <1>u, <1>1, <1>2, <1>3, <1>4, <1>5, <1>6, <1>7 DEF EventNext

LEMMA InitEvents == EventInit => EventInv
<1>. SUFFICES ASSUME EventInit PROVE EventInv
  OBVIOUS
<1>1. <<>> \in Seq(EventFrame) /\ <<>> \in Seq(Delivery) /\ Len(<<>>) = 0
  OBVIOUS
<1>2. Nested(<<>>) /\ AllIdleCalls(<<>>)
  BY DEF Nested, AllIdleCalls
<1>3. StackSound(<<>>, 0, {}, FALSE)
  BY <1>1, <1>2, PopLemma
<1>4. calls = <<>> /\ transactions = 0 /\ untold = {} /\ afterFlush = <<>>
  BY DEF EventInit
<1>5. StackSound(calls, transactions, untold, afterFlush # <<>>)
  BY <1>3, <1>4
<1>6. InOrder
  <2>1. unheard = {} /\ afterFlush \in Seq(Delivery) /\ Len(afterFlush) = 0
    BY <1>1, <1>4 DEF EventInit
  <2>. QED  BY <2>1 DEF InOrder
<1>7. EventTypes
  BY DEF EventInit, EventTypes
<1>. QED  BY <1>5, <1>6, <1>7 DEF EventInv

LEMMA EventsSound == EventSpec => []EventInv
<1>1. EventInv /\ [EventNext]_eventVars => EventInv'
  BY NextTypes, NextStack, NextOrder DEF EventInv
<1>. QED  BY <1>1, InitEvents, PTL DEF EventSpec

-----------------------------------------------------------------------------
(***************************************************************************)
(* No event is forgotten: between two tasks nothing waits, neither an      *)
(* event nor a publication.                                                *)
(***************************************************************************)
THEOREM NoneForgotten == EventSpec => []NoEventIsForgotten
<1>1. EventInv => NoEventIsForgotten
  <2>. SUFFICES ASSUME EventInv, calls = <<>> PROVE afterFlush = <<>> /\ unheard = {} /\ untold = {}
    BY DEF NoEventIsForgotten
  <2>1. untold = {} /\ afterFlush = <<>>
    BY DEF EventInv, StackSound
  <2>2. unheard = {}
    BY <2>1 DEF EventInv, InOrder
  <2>. QED  BY <2>1, <2>2
<1>. QED  BY <1>1, EventsSound, PTL

\* A delivery starts in two steps only: at once, or as the next that waits.
LEMMA LongerLemma ==
  ASSUME NEW s \in Seq(EventFrame), NEW f, NEW g
  PROVE  /\ Len(Append(s, f)) = Len(s) + 1 /\ Last(Append(s, f)) = f
         /\ s \o <<f>> = Append(s, f)
         /\ Last(s \o <<f, g>>) = g
BY DEF Last

LEMMA EventStartsLemma ==
  ASSUME EventInv, [EventNext]_eventVars, EventStarts
  PROVE  (EmitEvent /\ ~MustWait) \/ DeliverNext
<1>. DEFINE below == Front(calls)
            top == Last(calls)
<1>0. calls \in Seq(EventFrame) /\ Len(calls) \in Nat
  BY LenProperties DEF EventInv, StackSound
<1>1. ASSUME calls # <<>>
      PROVE  below \in Seq(EventFrame) /\ Len(calls) = Len(below) + 1
  <2>1. below \in Seq(EventFrame) /\ top \in EventFrame /\ calls = Append(below, top)
    BY <1>0, <1>1, TopCallLemma
  <2>. HIDE DEF below, top
  <2>. QED  BY <2>1, LongerLemma
<1>. HIDE DEF below
<1>2. /\ calls # calls'
      /\ calls # <<>> => calls' # below
  BY <1>0, <1>1, LenProperties DEF EventStarts
<1>3. \A f : calls' = Append(calls, f) => f.kind = "event"
  BY <1>0, LongerLemma DEF EventStarts
<1>4. ASSUME calls # <<>> PROVE \A f : calls' # below \o <<f>>
  BY <1>0, <1>1, <1>4, LongerLemma DEF EventStarts
<1>5. ASSUME calls # <<>> PROVE \A f, g : calls' = below \o <<f, g>> => g.kind = "event"
  BY <1>1, <1>5, LongerLemma DEF EventStarts
<1>6. ASSUME calls # <<>> PROVE \A f : calls' # Append(below, f)
  BY <1>1, <1>4, <1>6, LongerLemma
<1>. USE DEF OnTop, below
<1>7. ASSUME NEW s \in Publishers, Announce(s) PROVE FALSE
  BY <1>2, <1>3, <1>7 DEF Announce, Pushed, Pass
<1>8. ASSUME NEW s \in Publishers, TellStore(s) PROVE FALSE
  <2>1. PICK f, g : calls # <<>> /\ calls' = below \o <<f, g>> /\ g.kind = "pass"
    <3>. DEFINE told == {u \in Last(calls).tells : u.store = s}
    <3>1. calls # <<>> /\ calls' = below \o <<Flush(Last(calls).tells \ told), Pass(told)>>
      BY <1>8 DEF TellStore
    <3>2. Pass(told).kind = "pass"
      BY DEF Pass
    <3>. QED  BY <3>1, <3>2
  <2>. QED  BY <1>5, <2>1
<1>9. ASSUME NEW l \in Listeners, Listen(l) \/ Unlisten(l) PROVE FALSE
  BY <1>2, <1>9 DEF Listen, Unlisten
<1>10. ASSUME NEW l \in Listeners, CallListener(l) PROVE FALSE
  <2>. DEFINE rest == [Last(calls) EXCEPT !.to = @ \ {l}]
  <2>1. calls # <<>> /\ calls' = below \o (IF listener[l] = "on" THEN <<rest, Code>> ELSE <<rest>>)
    BY <1>10 DEF CallListener
  <2>2. Code.kind = "call"
    BY DEF Code
  <2>. HIDE DEF rest
  <2>3. calls' = below \o <<rest, Code>> \/ calls' = below \o <<rest>>
    BY <2>1
  <2>. QED  BY <1>4, <1>5, <2>1, <2>2, <2>3
<1>11. ~Open
  BY <1>6 DEF Open, Replaced
<1>12. ~Close
  <2>. SUFFICES ASSUME Close PROVE FALSE
    OBVIOUS
  <2>. DEFINE closed == [Last(calls) EXCEPT !.opened = @ - 1]
  <2>1. calls # <<>> /\ calls' = below \o (IF transactions > 1 THEN <<closed>> ELSE <<closed, Flush({})>>)
    BY DEF Close
  <2>2. Flush({}).kind = "flush"
    BY DEF Flush
  <2>. HIDE DEF closed
  <2>3. calls' = below \o <<closed, Flush({})>> \/ calls' = below \o <<closed>>
    BY <2>1
  <2>. QED  BY <1>4, <1>5, <2>1, <2>2, <2>3
<1>13. ~CloseHub
  BY <1>2 DEF CloseHub
<1>14. ~ReturnCode /\ ~EndPass /\ ~EndDrain /\ ~EndDelivery
  BY <1>2 DEF ReturnCode, EndPass, EndDrain, EndDelivery
<1>15. ~CallSubscriber /\ ~SettleOne /\ ~StartCode
  BY <1>3 DEF CallSubscriber, SettleOne, StartCode, Pushed, Code
<1>16. ~TakeUntold /\ ~CloseWave
  BY <1>6 DEF TakeUntold, CloseWave, Replaced
<1>17. ~FlushEnds
  BY <1>2, <1>6 DEF FlushEnds, Replaced
<1>18. EmitEvent => ~MustWait
  BY <1>2 DEF EmitEvent
<1>19. ~UNCHANGED eventVars
  BY <1>2 DEF eventVars
<1>. QED  BY <1>7, <1>8, <1>9, <1>10, <1>11, <1>12, <1>13, <1>14, <1>15, <1>16, <1>17, <1>18, <1>19
          DEF EventNext

\* No flush on the stack: nothing is told any more, by a pass either.
LEMMA AllToldLemma ==
  ASSUME calls \in Seq(EventFrame), Nested(calls), ~Present(calls, Flushing)
  PROVE  Untold = untold
<1>. SUFFICES ASSUME NEW k \in DOMAIN calls, calls[k].kind \in {"flush", "pass"}
              PROVE  calls[k].tells = {}
  BY DEF Untold
<1>1. k \in 1..Len(calls) /\ DOMAIN calls = 1..Len(calls) /\ Len(calls) \in Nat
  BY LenProperties
<1>2. calls[k].kind = "pass"
  BY <1>1 DEF Present, Flushing
<1>. DEFINE under == SubSeq(calls, 1, k - 1)
<1>3. calls[k].tells # {} => Present(under, {"flush"})
  BY <1>1, <1>2 DEF Nested, Sits
<1>4. Len(under) = k - 1 /\ \A j \in 1..k - 1 : under[j] = calls[j]
  BY <1>1
<1>. HIDE DEF under
<1>5. ~Present(under, {"flush"})
  BY <1>1, <1>4 DEF Present, Flushing
<1>. QED  BY <1>3, <1>5

(***************************************************************************)
(* An event arrives after the states it was emitted after, and in its      *)
(* turn: when its delivery starts, the batch is told, by every flush and   *)
(* every pass of one, and no earlier event waits.                          *)
(***************************************************************************)
THEOREM EventsInOrder == EventSpec => EventsFollowTheirStates
<1>1. ASSUME EventInv, [EventNext]_eventVars, EventStarts
      PROVE  /\ \A u \in Untold : u.at > Last(calls').after
             /\ \A n \in unheard : n >= Last(calls').event
  <2>0. /\ calls \in Seq(EventFrame) /\ Nested(calls) /\ InOrder /\ calls # <<>>
        /\ IdleCall(Last(calls)) /\ Last(calls).kind # "flush"
        /\ ~Present(calls, Flushing)
        /\ \A n \in unheard : n >= Last(calls').event
    <3>. SUFFICES ASSUME TRUE
                  PROVE  /\ calls # <<>>
                         /\ IdleCall(Last(calls)) /\ Last(calls).kind # "flush"
                         /\ ~Present(calls, Flushing)
                         /\ \A n \in unheard : n >= Last(calls').event
      BY <1>1 DEF EventInv, StackSound
    <3>0. calls \in Seq(EventFrame) /\ Nested(calls) /\ InOrder
      BY <1>1 DEF EventInv, StackSound
    <3>a. ASSUME calls # <<>>
          PROVE  /\ Front(calls) \in Seq(EventFrame) /\ Last(calls) \in EventFrame
                 /\ calls = Append(Front(calls), Last(calls))
                 /\ Sits(Last(calls), Front(calls))
                 /\ Accounts(Last(calls), Front(calls), transactions, untold, afterFlush # <<>>)
      BY <1>1, <3>a, RunningLemma DEF EventInv
    <3>1. CASE EmitEvent /\ ~MustWait
      <4>1. calls # <<>> /\ Last(calls).kind = "call"
        BY <3>1 DEF EmitEvent, OnTop
      <4>2. ~(transactions > 0) /\ ~Present(calls, Drains)
        BY <3>0, <3>1, LookLemma DEF MustWait, Drains
      <4>3. ~Present(calls, Flushing)
        BY <4>2 DEF Present, Drains
      <4>4. Last(calls) \in [kind : {"call"}, opened : Nat] /\ transactions = Last(calls).opened
        BY <3>a, <4>1, FrameLemma DEF Accounts
      <4>5. IdleCall(Last(calls))
        BY <4>2, <4>4 DEF IdleCall
      <4>6. afterFlush = <<>>
        BY <1>1, <4>1, <4>2, <4>5, RestLemma
      <4>7. unheard = {}
        BY <3>0, <4>6 DEF InOrder
      <4>. QED  BY <4>1, <4>3, <4>5, <4>7
    <3>2. CASE DeliverNext
      <4>1. /\ calls # <<>> /\ Last(calls).kind = "draining" /\ afterFlush # <<>>
            /\ calls' = Append(calls, Head(afterFlush))
        BY <3>2 DEF DeliverNext, OnTop, Pushed
      <4>2. ~Present(Front(calls), Flushing) /\ ~(Last(calls).kind \in Flushing)
        BY <3>a, <4>1 DEF Sits, Flushing
      <4>3. ~Present(calls, Flushing)
        <5>. DEFINE b == Front(calls)
                    f == Last(calls)
        <5>1. b \in Seq(EventFrame) /\ f \in EventFrame /\ calls = Append(b, f)
          BY <3>a, <4>1
        <5>2. ~Present(b, Flushing) /\ ~(f.kind \in Flushing)
          BY <4>2
        <5>. HIDE DEF b, f
        <5>. QED  BY <5>1, <5>2, PresentLemma
      <4>4. Last(calls') = afterFlush[1]
        <5>1. Head(afterFlush) = afterFlush[1]
          BY <3>0, <4>1 DEF InOrder
        <5>. QED  BY <3>0, <4>1, <5>1, LongerLemma
      <4>5. ASSUME NEW n \in unheard PROVE n >= afterFlush[1].event
        <5>1. PICK i \in 1..Len(afterFlush) : afterFlush[i].event = n
          BY <3>0 DEF InOrder
        <5>2. Len(afterFlush) \in Nat /\ 1 \in 1..Len(afterFlush)
          BY <3>0, <5>1, LenProperties DEF InOrder
        <5>3. afterFlush[i].event \in Nat /\ afterFlush[1].event \in Nat
          BY <3>0, <5>2, EventOfLemma DEF InOrder
        <5>4. i = 1 \/ afterFlush[1].event < afterFlush[i].event
          BY <3>0, <5>2 DEF InOrder
        <5>. QED  BY <5>1, <5>3, <5>4
      <4>. QED  BY <4>1, <4>3, <4>4, <4>5 DEF IdleCall
    <3>. QED  BY <1>1, <3>1, <3>2, EventStartsLemma
  <2>1. Untold = untold
    BY <2>0, AllToldLemma
  <2>2. untold = {}
    BY <1>1, <2>0, RestLemma
  <2>. QED  BY <2>0, <2>1, <2>2
<1>. QED  BY <1>1, EventsSound, PTL DEF EventsFollowTheirStates, EventSpec
=============================================================================
