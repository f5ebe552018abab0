------------------------------- MODULE EventQueue -------------------------------
(***************************************************************************)
(* One-off events of a store, and the part of the batch that holds them    *)
(* back.  emit() captures the listeners there are.  Outside transactions   *)
(* it calls them at once; in a transaction, in a flush, or while events    *)
(* are delivered, the delivery waits, and the outermost flush delivers     *)
(* what waits, first in first out, when every store has been told.         *)
(*                                                                         *)
(* Callbacks of every kind (subscribers, settlements, listeners) are       *)
(* application code and may take any operation.  On the call stack a frame *)
(* is application code ("call"), a notification pass ("pass"), a delivery  *)
(* ("event"), or a flush: while it tells the stores ("flush"), while its   *)
(* wave settles ("settling"), and while it delivers events ("draining").   *)
(***************************************************************************)
EXTENDS Naturals, SequencesExt

CONSTANTS
  Publishers,      (* Stores that publish.                                 *)
  Listeners,       (* Registrations that on() may make.                    *)
  MaxEmitted,      (* Bound: events.                                       *)
  MaxOpen,         (* Bound: nested transactions.                          *)
  MaxAnnounced,    (* Bound: publications.                                 *)
  MaxCalls         (* Bound: frames on the call stack.                     *)

ASSUME EventAssumption == {MaxEmitted, MaxOpen, MaxAnnounced, MaxCalls} \subseteq Nat

VARIABLES
  transactions,    (* depth: open transactions.                            *)
  untold,          (* pending: publications the batch holds back.          *)
  afterFlush,      (* Deliveries that wait.                                *)
  calls,           (* The call stack, the running frame last.              *)
  listener,        (* Of each registration: is it to come, on or off?      *)
  hubClosed,       (* The store of the events is disposed.                 *)
  emitted,         (* Events so far.                                       *)
  announced,       (* Publications so far.                                 *)
  unheard          (* History: events that wait, their delivery to start.  *)

batchVars == <<transactions, untold, announced>>
hubVars == <<listener, hubClosed>>
queueVars == <<afterFlush, emitted, unheard>>
eventVars == <<batchVars, hubVars, queueVars, calls>>

EventInit ==
  /\ transactions = 0 /\ untold = {} /\ announced = 0
  /\ listener = [l \in Listeners |-> "to come"] /\ hubClosed = FALSE
  /\ afterFlush = <<>> /\ emitted = 0 /\ unheard = {}
  /\ calls = <<>>

OnTop(kind) == calls # <<>> /\ Last(calls).kind = kind
Pushed(frame) == calls' = Append(calls, frame)
Replaced(frame) == calls' = Append(Front(calls), frame)
Fits(n) == Len(calls) + n <= MaxCalls

Code == [kind |-> "call", opened |-> 0]
Pass(told) == [kind |-> "pass", tells |-> told]
Flush(told) == [kind |-> "flush", tells |-> told]

\* Is there a frame of one of these kinds below the running one, or at all?
Underneath(kinds) == \E k \in 1..Len(calls) - 1 : calls[k].kind \in kinds
OnStack(kinds) == \E k \in 1..Len(calls) : calls[k].kind \in kinds

Flushing == {"flush", "settling"}

-----------------------------------------------------------------------------
(***************************************************************************)
(* Application code.                                                       *)
(***************************************************************************)

\* emitUpdate(): into the batch of an open transaction, or a pass at once.
Announce(s) ==
  /\ OnTop("call") /\ announced < MaxAnnounced
  /\ announced' = announced + 1
  /\ IF transactions > 0
       THEN untold' = untold \cup {[store |-> s, at |-> announced + 1]} /\ UNCHANGED calls
       ELSE Fits(2) /\ Pushed(Pass({})) /\ UNCHANGED untold
  /\ UNCHANGED <<transactions, hubVars, queueVars>>

\* transaction() opens, and closes in the frame that opened it.
Open ==
  /\ OnTop("call") /\ transactions < MaxOpen /\ Fits(3)
  /\ transactions' = transactions + 1
  /\ Replaced([Last(calls) EXCEPT !.opened = @ + 1])
  /\ UNCHANGED <<untold, announced, hubVars, queueVars>>

Close ==
  /\ OnTop("call") /\ Last(calls).opened > 0
  /\ transactions' = transactions - 1
  /\ LET closed == [Last(calls) EXCEPT !.opened = @ - 1]
     IN  calls' = Front(calls) \o (IF transactions > 1 THEN <<closed>> ELSE <<closed, Flush({})>>)
  /\ UNCHANGED <<untold, announced, hubVars, queueVars>>

\* on(), its disposer, and dispose() of the store.
Listen(l) ==
  /\ OnTop("call") /\ listener[l] = "to come" /\ ~hubClosed
  /\ listener' = [listener EXCEPT ![l] = "on"]
  /\ UNCHANGED <<batchVars, hubClosed, queueVars, calls>>

Unlisten(l) ==
  /\ OnTop("call") /\ listener[l] = "on"
  /\ listener' = [listener EXCEPT ![l] = "off"]
  /\ UNCHANGED <<batchVars, hubClosed, queueVars, calls>>

CloseHub ==
  /\ OnTop("call") /\ ~hubClosed
  /\ hubClosed' = TRUE
  /\ listener' = [l \in Listeners |-> IF listener[l] = "on" THEN "off" ELSE listener[l]]
  /\ UNCHANGED <<batchVars, queueVars, calls>>

\* Has a delivery to wait?  And two wrong variants: one that does not see the
\* flush, and one that does not see the events before it.
MustWaitForTransaction == transactions > 0 \/ OnStack({"draining"})
MustWaitForStates == transactions > 0 \/ OnStack(Flushing)
MustWait == transactions > 0 \/ OnStack(Flushing \cup {"draining"})

\* enqueueAfterFlush, and a wrong variant: what is added to the queue that is
\* being delivered goes with it.
EnqueueUndrained(delivery) ==
  afterFlush' = IF OnStack({"draining"}) THEN afterFlush ELSE Append(afterFlush, delivery)
Enqueue(delivery) == afterFlush' = Append(afterFlush, delivery)

\* emit().  An event nobody listens to is nothing.
EmitEvent ==
  /\ OnTop("call") /\ emitted < MaxEmitted
  /\ emitted' = emitted + 1
  /\ LET heard == {l \in Listeners : listener[l] = "on"}
         delivery == [kind |-> "event", event |-> emitted + 1, after |-> announced, to |-> heard]
     IN  /\ heard # {}
         /\ \/ MustWait /\ Enqueue(delivery) /\ unheard' = unheard \cup {emitted + 1} /\ UNCHANGED calls
            \/ ~MustWait /\ Fits(2) /\ Pushed(delivery) /\ UNCHANGED <<afterFlush, unheard>>
  /\ UNCHANGED <<batchVars, hubVars>>

\* The code returns, or throws and is reported.
ReturnCode ==
  /\ OnTop("call") /\ Last(calls).opened = 0
  /\ calls' = Front(calls)
  /\ UNCHANGED <<batchVars, hubVars, queueVars>>

-----------------------------------------------------------------------------
(***************************************************************************)
(* The engine.                                                             *)
(***************************************************************************)

\* A pass calls subscribers, and in the end what its wave settles.
CallSubscriber ==
  /\ OnTop("pass")
  /\ Pushed(Code)
  /\ UNCHANGED <<batchVars, hubVars, queueVars>>

EndPass ==
  /\ OnTop("pass")
  /\ calls' = Front(calls)
  /\ UNCHANGED <<batchVars, hubVars, queueVars>>

\* A flush takes what the batch holds, and tells one store after the other.
TakeUntold ==
  /\ OnTop("flush") /\ Last(calls).tells = {} /\ untold # {}
  /\ Replaced(Flush(untold))
  /\ untold' = {}
  /\ UNCHANGED <<transactions, announced, hubVars, queueVars>>

TellStore(s) ==
  /\ OnTop("flush")
  /\ LET told == {u \in Last(calls).tells : u.store = s}
     IN  /\ told # {}
         /\ calls' = Front(calls) \o <<Flush(Last(calls).tells \ told), Pass(told)>>
  /\ UNCHANGED <<batchVars, hubVars, queueVars>>

\* Its wave ends.  The outermost wave settles what it deferred.
CloseWave ==
  /\ OnTop("flush") /\ Last(calls).tells = {} /\ untold = {}
  /\ Replaced([kind |-> "settling"])
  /\ UNCHANGED <<batchVars, hubVars, queueVars>>

SettleOne ==
  /\ OnTop("settling") /\ ~Underneath({"pass"} \cup Flushing)
  /\ Pushed(Code)
  /\ UNCHANGED <<batchVars, hubVars, queueVars>>

\* The flush is over.  It does look at the batch once more, but a transaction
\* that a settlement opened has been flushed when it closed.  The outermost
\* flush goes on to the events.
FlushEnds ==
  /\ OnTop("settling")
  /\ IF transactions > 0 \/ Underneath(Flushing \cup {"draining"}) \/ afterFlush = <<>>
       THEN calls' = Front(calls)
       ELSE Replaced([kind |-> "draining"])
  /\ UNCHANGED <<batchVars, hubVars, queueVars>>

\* drainEvents: the delivery that has waited longest, until none is left.
DeliverNext ==
  /\ OnTop("draining") /\ afterFlush # <<>>
  /\ Pushed(Head(afterFlush))
  /\ afterFlush' = Tail(afterFlush)
  /\ unheard' = unheard \ {Head(afterFlush).event}
  /\ UNCHANGED <<batchVars, hubVars, emitted>>

EndDrain ==
  /\ OnTop("draining") /\ afterFlush = <<>>
  /\ calls' = Front(calls)
  /\ UNCHANGED <<batchVars, hubVars, queueVars>>

\* A delivery reaches a listener, and skips it if it is off by now.
CallListener(l) ==
  /\ OnTop("event") /\ l \in Last(calls).to
  /\ LET rest == [Last(calls) EXCEPT !.to = @ \ {l}]
     IN  calls' = Front(calls) \o (IF listener[l] = "on" THEN <<rest, Code>> ELSE <<rest>>)
  /\ UNCHANGED <<batchVars, hubVars, queueVars>>

EndDelivery ==
  /\ OnTop("event") /\ Last(calls).to = {}
  /\ calls' = Front(calls)
  /\ UNCHANGED <<batchVars, hubVars, queueVars>>

\* The event loop starts a task.
StartCode ==
  /\ calls = <<>>
  /\ Pushed(Code)
  /\ UNCHANGED <<batchVars, hubVars, queueVars>>

EventNext ==
  \/ \E s \in Publishers : Announce(s) \/ TellStore(s)
  \/ \E l \in Listeners : Listen(l) \/ Unlisten(l) \/ CallListener(l)
  \/ Open \/ Close \/ CloseHub \/ EmitEvent \/ ReturnCode
  \/ CallSubscriber \/ EndPass \/ TakeUntold \/ CloseWave \/ SettleOne \/ FlushEnds
  \/ DeliverNext \/ EndDrain \/ EndDelivery
  \/ StartCode

EventSpec == EventInit /\ [][EventNext]_eventVars

-----------------------------------------------------------------------------
(***************************************************************************)
(* An event arrives when the states it was emitted after have: when its    *)
(* delivery starts, no publication before it waits in the batch, in a      *)
(* flush or in a pass of one that has not called everybody, and no earlier *)
(* event waits either.  (enqueueAfterFlush, flush and drainEvents, however *)
(* transactions, passes, settlements and listeners are nested.)            *)
(***************************************************************************)
Untold == untold \cup UNION {calls[k].tells : k \in {k \in DOMAIN calls : calls[k].kind \in {"flush", "pass"}}}

EventStarts == Len(calls') > Len(calls) /\ Last(calls').kind = "event"

EventsFollowTheirStates ==
  [][EventStarts => /\ \A u \in Untold : u.at > Last(calls').after
                    /\ \A n \in unheard : n >= Last(calls').event]_eventVars

(***************************************************************************)
(* No event is forgotten: between two tasks every event that had to wait   *)
(* has been delivered, those that listeners emitted meanwhile too.         *)
(***************************************************************************)
NoEventIsForgotten == calls = <<>> => afterFlush = <<>> /\ unheard = {} /\ untold = {}
=============================================================================
