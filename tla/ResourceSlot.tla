----------------------------- MODULE ResourceSlot -----------------------------
(***************************************************************************)
(* ResourceCarburetor: one slot that holds the answer of a loader.         *)
(*                                                                         *)
(* A request is known by the operationVersion it was started with, its     *)
(* `generation`.  The slot belongs to one request, or to none; an answer   *)
(* that comes for any other is dropped.  Everything runs on one thread,    *)
(* but the application is called back in the middle of operations: by the  *)
(* abort listeners of the request an operation cancels, by subscribers of  *)
(* what it publishes, by the loader, and by the text of an error.  There   *)
(* it may take any operation.  The call stack is therefore part of the     *)
(* state: a "call" frame is application code, a frame of another kind is   *)
(* an operation that continues when the code above it returns.             *)
(*                                                                         *)
(* The data are abstracted to where they come from: the request that       *)
(* loaded them, or the application.  Left out: the observers of patches,   *)
(* the emission that a render defers, and the use of a disposed slot.      *)
(***************************************************************************)
EXTENDS Naturals, Sequences, SequencesExt, Selection

CONSTANTS
  Keys,             (* Encoded arguments of the loader.                    *)
  NoKey,
  TTL,              (* `ttl`: how long an answer is fresh.                 *)
  MaxEntries,       (* `maxEntries` of the memory of answers.              *)
  MayThrow,         (* May a publication fail (preEmit of a subclass)?     *)
  MayLock,          (* May the application install a state it has frozen?  *)
  MaxOps,           (* Bound: operations that take the slot.               *)
  MaxRoot,          (* Bound: setData() calls, by the roots in use.        *)
  MaxStack,         (* Bound: frames on the call stack.                    *)
  MaxTime           (* Bound: the clock.                                   *)

ASSUME SlotAssumption ==
  /\ NoKey \notin Keys
  /\ {TTL, MaxEntries, MaxOps, MaxRoot, MaxStack, MaxTime} \subseteq Nat
  /\ MaxTime > 0
  /\ {MayThrow, MayLock} \subseteq BOOLEAN

Requests == 1..MaxOps
Written == MaxOps + 1          (* Data of the application.                 *)
Data == 0..Written             (* 0: none.                                 *)
Statuses == {"Idle", "Pending", "Success", "Error"}

VARIABLES
  state,            (* `data`: the state object and what it holds.         *)
  answer,           (* runtime.answer                                      *)
  request,          (* runtime.request, or 0.                              *)
  operationVersion,
  requests,         (* What is known of each request.                      *)
  memory,           (* The memory of answers, the most recent last.        *)
  saved,            (* A snapshot() the application keeps.                 *)
  now,              (* Date.now()                                          *)
  disposed,
  stack,            (* The call stack, the running frame last.             *)
  stranded          (* History: see Recover.                               *)

vars == <<state, answer, request, operationVersion, requests, memory, saved, now,
          disposed, stack, stranded>>

-----------------------------------------------------------------------------
\* The identity of a state object is its root; a locked one is not writable.
State == [root : Nat \ {0}, locked : BOOLEAN, status : Statuses, data : Data,
          at : 0..MaxTime]

InitialState(root) == [root |-> root, locked |-> FALSE, status |-> "Idle", data |-> 0, at |-> 0]

\* The owner is the state object the answer was written to, or 0: no answer.
Answer == [key : Keys \cup {NoKey}, owner : Nat, failed : BOOLEAN]
NoAnswer == [key |-> NoKey, owner |-> 0, failed |-> FALSE]

\* The promise of a request is open, settled, or follows that of a later one.
Request == [key : Keys \cup {NoKey}, background : BOOLEAN,
            loader : {"none", "running", "done"},
            promise : {"open", "settled", "follows"}, successor : 0..MaxOps,
            replacing : 0..MaxOps]
NoRequest == [key |-> NoKey, background |-> FALSE, loader |-> "none", promise |-> "settled",
              successor |-> 0, replacing |-> 0]

Remembered == [key : Keys, data : Data, at : 0..MaxTime]
Snapshot == [status : Statuses, data : Data, at : 0..MaxTime, key : Keys \cup {NoKey}]

CallFrame == [kind |-> "call"]
Frame ==
  [kind : {"call"}] \cup
  [kind : {"abort", "clear", "restore"}, op : Requests] \cup
  [kind : {"recall"}, op : Requests, entry : Remembered, deferred : BOOLEAN] \cup
  [kind : {"start"}, op : Requests, key : Keys, superseded : 0..MaxOps, before : Nat,
   deferred : BOOLEAN, background : BOOLEAN] \cup
  [kind : {"publish", "recover"}, op : Requests, superseded : 0..MaxOps,
   previous : State, prior : Answer, deferred : BOOLEAN] \cup
  [kind : {"load"}, op : Requests, superseded : 0..MaxOps] \cup
  [kind : {"describe"}, op : Requests] \cup
  [kind : {"remember"}, op : Requests, at : 0..MaxTime]

TypeOK ==
  /\ state \in State
  /\ answer \in Answer
  /\ request \in 0..operationVersion
  /\ operationVersion \in 0..MaxOps
  /\ requests \in [Requests -> Request]
  /\ memory \in Seq(Remembered) /\ Len(memory) <= MaxEntries
  /\ saved \in Snapshot
  /\ now \in 1..MaxTime
  /\ disposed \in BOOLEAN
  /\ stack \in Seq(Frame)
  /\ stranded \in BOOLEAN

Init ==
  /\ state = InitialState(1)
  /\ answer = NoAnswer
  /\ request = 0
  /\ operationVersion = 0
  /\ requests = [r \in Requests |-> NoRequest]
  /\ memory = <<>>
  /\ saved = [status |-> "Idle", data |-> 0, at |-> 0, key |-> NoKey]
  /\ now = 1
  /\ disposed = FALSE
  /\ stack = <<>>
  /\ stranded = FALSE

-----------------------------------------------------------------------------
(***************************************************************************)
(* The call stack.                                                         *)
(***************************************************************************)
Top == Last(stack)
Below == Front(stack)
Runs(kind) == stack # <<>> /\ Top.kind = kind

\* Application code runs, and calls the slot.
Application == (stack = <<>> \/ Runs("call")) /\ ~disposed /\ Len(stack) < MaxStack

Return == Runs("call") /\ stack' = Below
          /\ UNCHANGED <<state, answer, request, operationVersion, requests, memory, saved,
                         now, disposed, stranded>>

-----------------------------------------------------------------------------
(***************************************************************************)
(* The memory of answers.                                                  *)
(***************************************************************************)
IsFresh(at) == at # 0 /\ now - at < TTL

Without(k) == Filtered(memory, {e \in Remembered : e.key # k})
Recent == {e \in Remembered : IsFresh(e.at)}
HitsOf(k) == {e \in ToSet(memory) : e.key = k /\ IsFresh(e.at)}

\* fresh(): a hit becomes the most recent one, and what has expired goes.
Looked(k) ==
  IF HitsOf(k) = {} THEN Without(k) ELSE Append(Without(k), CHOOSE e \in HitsOf(k) : TRUE)

\* A wrong variant (see README, mutants): it keeps one answer too many.
RememberOneMore(k, d, at) ==
  LET kept == Filtered(Append(Without(k), [key |-> k, data |-> d, at |-> at]), Recent)
  IN  IF Len(kept) > MaxEntries + 1 THEN Tail(kept) ELSE kept

\* remember(): what has expired goes, then the oldest over the budget.
Remember(k, d, at) ==
  LET kept == Filtered(Append(Without(k), [key |-> k, data |-> d, at |-> at]), Recent)
  IN  IF Len(kept) > MaxEntries
        THEN SubSeq(kept, Len(kept) - MaxEntries + 1, Len(kept)) ELSE kept

-----------------------------------------------------------------------------
(***************************************************************************)
(* Publication of a state t, and what it does to the answer.               *)
(***************************************************************************)
\* Writes go to a copy when the state object is locked.
Writable == [state EXCEPT !.root = IF state.locked THEN @ + 1 ELSE @, !.locked = FALSE]

Moved(t) == <<t.status, t.data, t.at>> # <<state.status, state.data, state.at>>

\* Subscribers are called if anything has moved, or the key has.
Callbacks(t, keyMoved) == IF Moved(t) \/ keyMoved THEN <<CallFrame>> ELSE <<>>

\* didSetData() and reconcileError(): a failure belongs to the error it came with.
Reconciled(a, t) ==
  LET owned == IF a.owner = t.root THEN a ELSE NoAnswer
  IN  CASE t.status = "Error" -> [owned EXCEPT !.owner = t.root, !.failed = TRUE]
        [] OTHER -> [owned EXCEPT !.failed = FALSE]

Publish(t, a, keyMoved, rest) ==
  /\ state' = t
  /\ answer' = Reconciled(a, t)
  /\ stack' = rest \o Callbacks(t, keyMoved)

-----------------------------------------------------------------------------
(***************************************************************************)
(* Ownership.                                                              *)
(***************************************************************************)
Requested(k) == request # 0 /\ requests[request].key = k
IsCurrent(r) == request = r

\* ++operationVersion and cancelInFlight(): the request is detached before its
\* abort listeners run, and the operation goes on after them.
TakeOver(frame) ==
  /\ operationVersion < MaxOps
  /\ operationVersion' = operationVersion + 1
  /\ request' = 0
  /\ stack' = stack \o <<frame>> \o (IF request = 0 THEN <<>> ELSE <<CallFrame>>)

\* The promise of r, if it is open, settles.
Settled(r) == [requests EXCEPT ![r].promise = IF @ = "open" THEN "settled" ELSE @]

\* adopt(): the awaiters of r, if any, observe the outcome of its successor.
Adopted(q, r, s) ==
  IF r # 0 /\ q[r].promise = "open"
    THEN [q EXCEPT ![r].promise = "follows", ![r].successor = s] ELSE q

Start(k, deferred, background) ==
  TakeOver([kind |-> "start", op |-> operationVersion + 1, key |-> k,
            superseded |-> IF Requested(k) THEN request ELSE 0, before |-> state.root,
            deferred |-> deferred, background |-> background])

Recall(k, deferred) ==
  \E e \in HitsOf(k) :
    TakeOver([kind |-> "recall", op |-> operationVersion + 1, entry |-> e, deferred |-> deferred])

\* A request, unless the memory has an answer.
Ask(k, deferred) ==
  /\ memory' = Looked(k)
  /\ \/ Recall(k, deferred)
     \/ HitsOf(k) = {} /\ Start(k, deferred, FALSE)

HasAnswer(k, status) == state.status = status /\ answer.owner # 0 /\ answer.key = k

-----------------------------------------------------------------------------
(***************************************************************************)
(* The operations.  One that finds its answer, or joins the request in     *)
(* flight, changes nothing and is left out.                                *)
(***************************************************************************)
Load(k) ==
  /\ Application
  /\ ~(HasAnswer(k, "Success") /\ IsFresh(state.at))
  /\ ~Requested(k)
  /\ Ask(k, FALSE)
  /\ UNCHANGED <<state, answer, requests, saved, now, disposed, stranded>>

Refresh(k) ==
  /\ Application
  /\ Start(k, FALSE, FALSE)
  /\ UNCHANGED <<state, answer, requests, memory, saved, now, disposed, stranded>>

\* A wrong variant (see README, mutants): any answer is served and revalidated.
SuspendAnyKey(k) ==
  /\ Application
  /\ ~Requested(k)
  /\ ~HasAnswer(k, "Error")
  /\ IF state.status = "Success"
       THEN ~IsFresh(state.at) /\ Start(k, TRUE, TRUE) /\ UNCHANGED memory
       ELSE Ask(k, TRUE)
  /\ UNCHANGED <<state, answer, requests, saved, now, disposed, stranded>>

\* A read in a render: it publishes nothing at once, and serves a stale answer
\* while that is requested anew in the background.
Suspend(k) ==
  /\ Application
  /\ ~Requested(k)
  /\ ~HasAnswer(k, "Error")
  /\ IF HasAnswer(k, "Success")
       THEN ~IsFresh(state.at) /\ Start(k, TRUE, TRUE) /\ UNCHANGED memory
       ELSE Ask(k, TRUE)
  /\ UNCHANGED <<state, answer, requests, saved, now, disposed, stranded>>

Operation(kind) ==
  /\ Application
  /\ TakeOver([kind |-> kind, op |-> operationVersion + 1])
  /\ UNCHANGED <<state, answer, requests, memory, saved, now, disposed, stranded>>

Abort == request # 0 /\ Operation("abort")
Clear == Operation("clear")
Restore == Operation("restore")

\* setData(): another state object; what is in flight stays in flight.
SetData(status, locked) ==
  /\ Application
  /\ state.root < MaxRoot
  /\ LET t == [root |-> state.root + 1, locked |-> locked, status |-> status,
               data |-> Written, at |-> 0]
     IN  Publish(t, answer, answer.key # NoKey, stack)
  /\ UNCHANGED <<request, operationVersion, requests, memory, saved, now, disposed, stranded>>

\* The application writes the data through the draft and publishes them.
Update ==
  /\ Application
  /\ ~state.locked
  /\ Publish([state EXCEPT !.data = Written], answer, FALSE, stack)
  /\ UNCHANGED <<request, operationVersion, requests, memory, saved, now, disposed, stranded>>

\* snapshot(), which is taken between tasks here.
TakeSnapshot ==
  /\ Application
  /\ stack = <<>>
  /\ saved' = [status |-> state.status, data |-> state.data, at |-> state.at, key |-> answer.key]
  /\ UNCHANGED <<state, answer, request, operationVersion, requests, memory, now, disposed,
                 stack, stranded>>

\* didDispose(); what its abort listeners call finds the slot disposed.
Dispose ==
  /\ Application
  /\ operationVersion < MaxOps
  /\ disposed' = TRUE
  /\ operationVersion' = operationVersion + 1
  /\ request' = 0
  /\ answer' = NoAnswer
  /\ memory' = <<>>
  /\ UNCHANGED <<state, requests, saved, now, stack, stranded>>

-----------------------------------------------------------------------------
(***************************************************************************)
(* start(), after the abort listeners of the request it cancelled.         *)
(***************************************************************************)
\* A wrong variant (see README, mutants): only the state is compared.
OvertakenByState(f) == state.root # f.before

Overtaken(f) == operationVersion # f.op \/ state.root # f.before

\* Another operation came in between: the caller joins a request of the same
\* key, or is rejected.
StartOvertaken ==
  /\ Runs("start")
  /\ disposed \/ Overtaken(Top)
  /\ stack' = Below
  /\ requests' =
       IF disposed THEN (IF Top.superseded # 0 THEN Settled(Top.superseded) ELSE requests)
       ELSE IF Requested(Top.key) THEN Adopted(requests, Top.superseded, request)
       ELSE requests
  /\ UNCHANGED <<state, answer, request, operationVersion, memory, saved, now, disposed, stranded>>

\* The request is installed before Pending is published.
Install ==
  /\ Runs("start")
  /\ ~disposed
  /\ ~Overtaken(Top)
  /\ request' = Top.op
  /\ requests' = [requests EXCEPT ![Top.op] =
       [key |-> Top.key, background |-> Top.background, loader |-> "none", promise |-> "open",
        successor |-> 0, replacing |-> Top.superseded]]
  /\ LET t == [Writable EXCEPT !.status = "Pending"]
         f == [kind |-> "publish", op |-> Top.op, superseded |-> Top.superseded,
               previous |-> state, prior |-> answer, deferred |-> Top.deferred]
     IN  /\ state' = t
         /\ answer' = NoAnswer
         /\ stack' = Append(Below, f) \o (IF Top.deferred THEN <<>> ELSE Callbacks(t, FALSE))
  /\ UNCHANGED <<operationVersion, memory, saved, now, disposed, stranded>>

\* A wrong variant (see README, mutants): the promise is left as it is.
DisownedSilently ==
  /\ Runs("publish")
  /\ ~IsCurrent(Top.op)
  /\ stack' = Below
  /\ UNCHANGED <<state, answer, request, operationVersion, requests, memory, saved, now,
                 disposed, stranded>>

\* Whoever took the slot meanwhile keeps it.
Disowned ==
  /\ Runs("publish")
  /\ ~IsCurrent(Top.op)
  /\ requests' = Settled(Top.op)
  /\ stack' = Below
  /\ UNCHANGED <<state, answer, request, operationVersion, memory, saved, now, disposed, stranded>>

CallLoader ==
  /\ Runs("publish")
  /\ IsCurrent(Top.op)
  /\ stack' = Below \o <<[kind |-> "load", op |-> Top.op, superseded |-> Top.superseded], CallFrame>>
  /\ UNCHANGED <<state, answer, request, operationVersion, requests, memory, saved, now, disposed,
                 stranded>>

\* The loader has returned its promise.
Loading ==
  /\ Runs("load")
  /\ requests' = Adopted([requests EXCEPT ![Top.op].loader = "running"], Top.superseded, Top.op)
  /\ stack' = Below
  /\ UNCHANGED <<state, answer, request, operationVersion, memory, saved, now, disposed, stranded>>

\* The publication of Pending failed: the request gives the slot back.
PublicationFails ==
  /\ MayThrow
  /\ Runs("publish")
  /\ ~Top.deferred
  /\ IsCurrent(Top.op)
  /\ request' = 0
  /\ answer' = Top.prior
  /\ stack' = Below \o <<[Top EXCEPT !.kind = "recover"], CallFrame>>
  /\ UNCHANGED <<state, operationVersion, requests, memory, saved, now, disposed, stranded>>

\* Unless the abort listeners took the slot, the state is put back, even to the
\* Pending of a request that was cancelled (`stranded` records this).
Recover ==
  /\ Runs("recover")
  /\ requests' = Settled(Top.op)
  /\ LET p == Top.previous
         back == IF p.locked THEN p ELSE [state EXCEPT !.status = p.status]
     IN  IF /\ operationVersion = Top.op
            /\ state.root = IF p.locked THEN p.root + 1 ELSE p.root
           THEN /\ Publish(back, answer, FALSE, Below)
                /\ stranded' = (stranded \/ p.status = "Pending")
           ELSE stack' = Below /\ UNCHANGED <<state, answer, stranded>>
  /\ UNCHANGED <<request, operationVersion, memory, saved, now, disposed>>

-----------------------------------------------------------------------------
(***************************************************************************)
(* The other operations, after the abort listeners.                        *)
(***************************************************************************)
Continues(kind) == Runs(kind) /\ operationVersion = Top.op

GiveWay ==
  /\ \E kind \in {"abort", "clear", "restore", "recall"} : Runs(kind)
  /\ operationVersion # Top.op
  /\ stack' = Below
  /\ UNCHANGED <<state, answer, request, operationVersion, requests, memory, saved, now, disposed,
                 stranded>>

Aborted ==
  /\ Continues("abort")
  /\ Publish([Writable EXCEPT !.status = "Idle"], NoAnswer, FALSE, Below)
  /\ UNCHANGED <<request, operationVersion, requests, memory, saved, now, disposed, stranded>>

Cleared ==
  /\ Continues("clear")
  /\ memory' = <<>>
  /\ Publish(InitialState(state.root + 1), NoAnswer, answer # NoAnswer, Below)
  /\ UNCHANGED <<request, operationVersion, requests, saved, now, disposed, stranded>>

\* A wrong variant (see README, mutants): the status is restored as it was.
RestoredAsItWas ==
  /\ Continues("restore")
  /\ Publish([root |-> state.root + 1, locked |-> FALSE, data |-> saved.data, at |-> saved.at,
              status |-> saved.status],
             [key |-> saved.key, owner |-> state.root + 1, failed |-> FALSE], TRUE, Below)
  /\ UNCHANGED <<request, operationVersion, requests, memory, saved, now, disposed, stranded>>

\* A snapshot that was Pending has no request behind it.
Restored ==
  /\ Continues("restore")
  /\ LET t == [root |-> state.root + 1, locked |-> FALSE, data |-> saved.data, at |-> saved.at,
               status |-> IF saved.status = "Pending" THEN "Idle" ELSE saved.status]
         settled == saved.status \in {"Success", "Error"}
     IN  Publish(t, IF settled THEN [key |-> saved.key, owner |-> t.root,
                                     failed |-> saved.status = "Error"] ELSE NoAnswer,
                 answer.key # (IF settled THEN saved.key ELSE NoKey), Below)
  /\ UNCHANGED <<request, operationVersion, requests, memory, saved, now, disposed, stranded>>

\* publishMemory()
Recalled ==
  /\ Continues("recall")
  /\ LET e == Top.entry
         t == [Writable EXCEPT !.status = "Success", !.data = e.data, !.at = e.at]
         a == [key |-> e.key, owner |-> t.root, failed |-> FALSE]
     IN  /\ state' = t
         /\ answer' = a
         /\ stack' = Below \o
              (IF Top.deferred THEN <<>> ELSE Callbacks(t, answer.key # e.key))
  /\ UNCHANGED <<request, operationVersion, requests, memory, saved, now, disposed, stranded>>

-----------------------------------------------------------------------------
(***************************************************************************)
(* Settlement, in a task of its own.                                       *)
(***************************************************************************)
Answers(r) == stack = <<>> /\ requests[r].loader = "running"

AnsweredTo(r) == [Settled(r) EXCEPT ![r].loader = "done"]

\* An answer for a request that lost the slot.
LateAnswer(r) ==
  /\ Answers(r)
  /\ ~IsCurrent(r)
  /\ requests' = AnsweredTo(r)
  /\ UNCHANGED <<state, answer, request, operationVersion, memory, saved, now, disposed, stack,
                 stranded>>

\* settleSuccess(): a locked state is replaced first and remembered after.
SettleSuccess(r) ==
  /\ Answers(r)
  /\ IsCurrent(r)
  /\ request' = 0
  /\ requests' = AnsweredTo(r)
  /\ LET t == [Writable EXCEPT !.status = "Success", !.data = r, !.at = now]
         k == requests[r].key
     IN  /\ Publish(t, [key |-> k, owner |-> t.root, failed |-> FALSE], FALSE,
                    IF state.locked THEN <<[kind |-> "remember", op |-> r, at |-> now]>> ELSE <<>>)
         /\ memory' = IF state.locked THEN memory ELSE Remember(k, r, now)
  /\ UNCHANGED <<operationVersion, saved, now, disposed, stranded>>

RememberAfter ==
  /\ Runs("remember")
  /\ memory' = Remember(requests[Top.op].key, Top.op, Top.at)
  /\ stack' = Below
  /\ UNCHANGED <<state, answer, request, operationVersion, requests, saved, now, disposed, stranded>>

\* settleError(): the text of the error is code of the application.
LoaderFails(r) ==
  /\ Answers(r)
  /\ IsCurrent(r)
  /\ requests' = [requests EXCEPT ![r].loader = "done"]
  /\ stack' = <<[kind |-> "describe", op |-> r], CallFrame>>
  /\ UNCHANGED <<state, answer, request, operationVersion, memory, saved, now, disposed, stranded>>

SettleError ==
  /\ Runs("describe")
  /\ LET r == Top.op
         k == requests[r].key
         t == [Writable EXCEPT !.status = "Error", !.at = now]
     IN  /\ requests' = Settled(r)
         /\ IF operationVersion = r /\ IsCurrent(r)
              THEN /\ request' = 0
                   /\ memory' = Without(k)
                   /\ Publish(t, [key |-> k, owner |-> t.root, failed |-> TRUE], FALSE, Below)
              ELSE stack' = Below /\ UNCHANGED <<state, answer, request, memory>>
  /\ UNCHANGED <<operationVersion, saved, now, disposed, stranded>>

Tick ==
  /\ stack = <<>>
  /\ now < MaxTime
  /\ now' = now + 1
  /\ UNCHANGED <<state, answer, request, operationVersion, requests, memory, saved, disposed, stack,
                 stranded>>

-----------------------------------------------------------------------------
Operations ==
  \/ \E k \in Keys : Load(k) \/ Refresh(k) \/ Suspend(k)
  \/ Abort \/ Clear \/ Restore \/ Update \/ TakeSnapshot \/ Dispose
  \/ SetData("Idle", FALSE) \/ SetData("Error", FALSE)
  \/ \E locked \in {FALSE, MayLock} : SetData("Success", locked)

Continuations ==
  \/ Return
  \/ StartOvertaken \/ Install \/ Disowned \/ CallLoader \/ Loading
  \/ PublicationFails \/ Recover
  \/ GiveWay \/ Aborted \/ Cleared \/ Restored \/ Recalled
  \/ RememberAfter \/ SettleError

Settlements ==
  \/ \E r \in Requests : LateAnswer(r) \/ SettleSuccess(r) \/ LoaderFails(r)
  \/ Tick

Next == Operations \/ Continuations \/ Settlements

Spec == Init /\ [][Next]_vars

-----------------------------------------------------------------------------
(***************************************************************************)
(* What suspend(k) returns now, when it needs no request for it: the       *)
(* answer in the slot, what is visible while that is loaded anew, or what  *)
(* the memory has.                                                         *)
(***************************************************************************)
Served(k) ==
  (IF HasAnswer(k, "Success") \/ (Requested(k) /\ requests[request].background)
     THEN {state.data} ELSE {})
  \cup (IF Requested(k) \/ HasAnswer(k, "Error") THEN {} ELSE {e.data : e \in HitsOf(k)})

(***************************************************************************)
(* "suspend serves only the key an answer settled under": whatever         *)
(* operations came in between and inside of one another, what is served    *)
(* for a key was loaded for it, or written by the application.             *)
(***************************************************************************)
ServedUnderItsKey ==
  \A k \in Keys : \A d \in Served(k) \cap Requests : requests[d].key = k

(***************************************************************************)
(* Once another operation has taken the slot, the answer of a request      *)
(* changes neither the state nor what the slot knows of it.                *)
(***************************************************************************)
LateAnswerIsIgnored ==
  [][\A r \in Requests :
       requests[r].loader = "running" /\ requests'[r].loader = "done" /\ operationVersion # r
         => UNCHANGED <<state, answer, request, memory>>]_vars

(***************************************************************************)
(* Between tasks, Pending means that a loader is at work for the slot,     *)
(* whichever way the operations before ended; except after a failed        *)
(* publication that put back the Pending of a request it had cancelled.    *)
(***************************************************************************)
PendingIsRequested ==
  stack = <<>> /\ ~disposed /\ state.status = "Pending" /\ ~stranded
    => request # 0 /\ requests[request].loader = "running"

(***************************************************************************)
(* Between tasks, every promise that was handed out is settled, has a      *)
(* loader to settle it, or follows that of a later request.                *)
(***************************************************************************)
NoAwaiterForgotten ==
  stack = <<>> => \A r \in Requests :
    \/ requests[r].promise = "settled"
    \/ requests[r].loader = "running"
    \/ requests[r].promise = "follows" /\ requests[r].successor > r
=============================================================================
