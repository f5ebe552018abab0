---------------------------- MODULE UpdateThrottle ----------------------------
(***************************************************************************)
(* The scheduler that coalesces updates (ComponentUpdateThrottle).         *)
(*                                                                         *)
(* schedule() queues one update per key and arms a timer; the timer, or    *)
(* flushPendingUpdates(), runs letsUpdate(), which takes the queue round   *)
(* by round until it is empty.  An update is application code: it may      *)
(* schedule and cancel, also what the round under way still has to run,    *)
(* and a subclass may call letsUpdate() from it.  A chain of flushes that  *)
(* takes too many rounds is given up with an error, which an update that   *)
(* flushed may catch.                                                      *)
(*                                                                         *)
(* On the call stack, a "flush" frame is letsUpdate() with the updates     *)
(* left in its round, and a "call" frame the update of a key.  The order   *)
(* of the updates within a round is left open, and so is what they throw:  *)
(* any other error is caught by the flush.                                 *)
(***************************************************************************)
EXTENDS Naturals, Sequences

CONSTANTS
  Keys,             (* Delivery keys.                                      *)
  MaxUpdateDepth,   (* maxUpdateDepth.                                     *)
  Rethrows          (* May an update rethrow the depth error it caught?    *)

ASSUME ThrottleAssumption ==
  /\ MaxUpdateDepth \in Nat
  /\ Rethrows \in BOOLEAN

VARIABLES
  updaters,     (* Keys queued for the next round.                         *)
  stack,        (* The call stack, the running frame last.                 *)
  timeout,      (* The handle: none, of a timer to come, or of a fired one. *)
  flushDepth,   (* Rounds spent by this chain of flushes.                  *)
  raised        (* The depth error is on its way up the stack.             *)

vars == <<updaters, stack, timeout, flushDepth, raised>>

FlushFrame == [kind : {"flush"}, todo : SUBSET Keys]
CallFrame == [kind : {"call"}, key : Keys, caught : BOOLEAN]
Frame == FlushFrame \cup CallFrame

Init ==
  /\ updaters = {}
  /\ stack = <<>>
  /\ timeout = "none"
  /\ flushDepth = 0
  /\ raised = FALSE

-----------------------------------------------------------------------------
Top == stack[Len(stack)]
Running(kind) == Len(stack) > 0 /\ Top.kind = kind
Below == SubSeq(stack, 1, Len(stack) - 1)
Retop(frame) == Append(Below, frame)

Flushes == {k \in 1..Len(stack) : stack[k].kind = "flush"}

\* Application code is running: a task, or an update.
Application == ~raised /\ (stack = <<>> \/ Running("call"))

\* A wrong variant: no round is looked at.
CancelNothing(K) == [k \in 1..Len(stack) |-> stack[k]]

\* cancelActive: the keys in K are taken out of every round.
CancelActive(K) ==
  [k \in 1..Len(stack) |-> IF k \in Flushes THEN [stack[k] EXCEPT !.todo = @ \ K] ELSE stack[k]]

-----------------------------------------------------------------------------
\* schedule(): the update leaves the rounds under way, and waits for the next.
Schedule(u) ==
  /\ Application
  /\ stack' = CancelActive({u})
  /\ updaters' = updaters \cup {u}
  /\ timeout' = IF timeout = "none" THEN "armed" ELSE timeout
  /\ UNCHANGED <<flushDepth, raised>>

Cancel(u) ==
  /\ Application
  /\ stack' = CancelActive({u})
  /\ updaters' = updaters \ {u}
  /\ UNCHANGED <<timeout, flushDepth, raised>>

\* letsUpdate() begins.
Flush == Append(stack, [kind |-> "flush", todo |-> {}])

TimerFires ==
  /\ stack = <<>>
  /\ timeout = "armed"
  /\ timeout' = "fired"
  /\ stack' = Flush
  /\ UNCHANGED <<updaters, flushDepth, raised>>

\* flushPendingUpdates() does nothing while a round is under way.
FlushPending ==
  /\ stack = <<>>
  /\ updaters # {}
  /\ stack' = Flush
  /\ UNCHANGED <<updaters, timeout, flushDepth, raised>>

\* An update calls letsUpdate() itself.
FlushAgain ==
  /\ ~raised
  /\ Running("call")
  /\ stack' = Flush
  /\ UNCHANGED <<updaters, timeout, flushDepth, raised>>

\* The finally of letsUpdate(), with frames left below it; and a variant that
\* leaves the handle in place.
LeaveArmed(frames) ==
  /\ stack' = frames
  /\ UNCHANGED timeout
  /\ flushDepth' = IF \E k \in 1..Len(frames) : frames[k].kind = "flush" THEN flushDepth ELSE 0

Leave(frames) ==
  /\ stack' = frames
  /\ timeout' = "none"
  /\ flushDepth' = IF \E k \in 1..Len(frames) : frames[k].kind = "flush" THEN flushDepth ELSE 0

\* The round is over: the queue is the next one...
NextRound ==
  /\ Running("flush")
  /\ Top.todo = {}
  /\ updaters # {}
  /\ flushDepth < MaxUpdateDepth
  /\ flushDepth' = flushDepth + 1
  /\ stack' = Retop([Top EXCEPT !.todo = updaters])
  /\ updaters' = {}
  /\ UNCHANGED <<timeout, raised>>

\* A wrong variant: the enclosing rounds are kept.
GiveUpAlone ==
  /\ Running("flush")
  /\ Top.todo = {}
  /\ updaters # {}
  /\ flushDepth >= MaxUpdateDepth
  /\ updaters' = {}
  /\ Leave(Below)
  /\ raised' = (Len(stack) > 1)

\* ...unless the chain has spent its rounds: everything queued is dropped, in
\* the enclosing rounds too, and the error is thrown.
GiveUp ==
  /\ Running("flush")
  /\ Top.todo = {}
  /\ updaters # {}
  /\ flushDepth >= MaxUpdateDepth
  /\ updaters' = {}
  /\ LET cleared == CancelActive(Keys) IN Leave(SubSeq(cleared, 1, Len(stack) - 1))
  /\ raised' = (Len(stack) > 1)

RunUpdater(u) ==
  /\ Running("flush")
  /\ u \in Top.todo
  /\ stack' = Append(Retop([Top EXCEPT !.todo = @ \ {u}]),
                     [kind |-> "call", key |-> u, caught |-> FALSE])
  /\ UNCHANGED <<updaters, timeout, flushDepth, raised>>

\* The update returns, or throws an error of its own.
Return ==
  /\ ~raised
  /\ Running("call")
  /\ stack' = Below
  /\ UNCHANGED <<updaters, timeout, flushDepth, raised>>

\* The update catches the depth error and goes on.
Catch ==
  /\ raised
  /\ raised' = FALSE
  /\ stack' = Retop([Top EXCEPT !.caught = TRUE])
  /\ UNCHANGED <<updaters, timeout, flushDepth>>

\* The depth error passes through the update and ends the flush that ran it:
\* because the update does not catch it, or because it rethrows it.
Throw ==
  /\ Running("call")
  /\ raised \/ (Rethrows /\ Top.caught)
  /\ Leave(SubSeq(stack, 1, Len(stack) - 2))
  /\ raised' = (Len(stack) > 2)
  /\ UNCHANGED updaters

EndFlush ==
  /\ Running("flush")
  /\ Top.todo = {}
  /\ updaters = {}
  /\ Leave(Below)
  /\ UNCHANGED <<updaters, raised>>

Engine ==
  \/ TimerFires
  \/ NextRound
  \/ GiveUp
  \/ \E u \in Keys : RunUpdater(u)
  \/ Throw
  \/ EndFlush

Next ==
  \/ \E u \in Keys : Schedule(u) \/ Cancel(u)
  \/ FlushPending
  \/ FlushAgain
  \/ Return
  \/ Catch
  \/ Engine

Spec == Init /\ [][Next]_vars

(***************************************************************************)
(* Fairness: timers fire, the flush runs on, and updates return.           *)
(***************************************************************************)
Fairness ==
  /\ WF_vars(TimerFires)
  /\ WF_vars(NextRound)
  /\ WF_vars(GiveUp)
  /\ WF_vars(\E u \in Keys : RunUpdater(u))
  /\ WF_vars(EndFlush)
  /\ WF_vars(Throw \/ Catch)
  /\ SF_vars(Return)

FairSpec == Spec /\ Fairness

-----------------------------------------------------------------------------
\* The frames alternate, with application code on top of flushes only.
WellStacked ==
  \A k \in 1..Len(stack) : stack[k].kind = (IF k % 2 = 1 THEN "flush" ELSE "call")

(***************************************************************************)
(* The variables have their types, and the stack its shape.                *)
(***************************************************************************)
TypeOK ==
  /\ updaters \subseteq Keys
  /\ stack \in Seq(Frame)
  /\ timeout \in {"none", "armed", "fired"}
  /\ flushDepth \in 0..MaxUpdateDepth
  /\ raised \in BOOLEAN
  /\ WellStacked
  /\ raised => Running("call")

(***************************************************************************)
(* An update waits in one place only: a newer schedule() takes it out of   *)
(* every round under way, however deep, so it cannot run twice.            *)
(***************************************************************************)
WaitsOnce ==
  /\ \A k \in Flushes : stack[k].todo \cap updaters = {}
  /\ \A j, k \in Flushes : j # k => stack[j].todo \cap stack[k].todo = {}

(***************************************************************************)
(* Once the depth error was thrown, nothing waits in the rounds it has to  *)
(* pass through, so the flushes it ends lose no update.                    *)
(***************************************************************************)
NothingLeftBehind ==
  /\ raised => \A j \in Flushes : stack[j].todo = {}
  /\ \A k \in 1..Len(stack) : stack[k].kind = "call" /\ stack[k].caught =>
       \A j \in Flushes : j < k => stack[j].todo = {}

(***************************************************************************)
(* The throttle is a scheduler: it owes the keys that wait, and runs the   *)
(* keys of its call frames.                                                *)
(***************************************************************************)
Owed == updaters \cup UNION {stack[k].todo : k \in Flushes}
RunningKeys == [k \in 1..(Len(stack) \div 2) |-> stack[2 * k].key]

Promise == INSTANCE Scheduler WITH owed <- Owed, running <- RunningKeys

ImplementsScheduler == Promise!SchedulerSpec

(***************************************************************************)
(* Each operation does to what is owed what the same operation of a        *)
(* scheduler does: after cancel() nothing is left to run for the key, in   *)
(* no round of no flush, and an update that starts is not owed any more.   *)
(***************************************************************************)
OperationsKeepPromise ==
  [][\A u \in Keys :
       /\ Schedule(u) => Promise!Schedule(u)
       /\ Cancel(u) => Promise!Cancel(u)
       /\ RunUpdater(u) => Promise!Run(u)]_vars

(***************************************************************************)
(* An update that is owed is run, cancelled or given up in the end.        *)
(***************************************************************************)
EventuallyPaid == \A u \in Keys : u \in Owed ~> u \notin Owed
=============================================================================
