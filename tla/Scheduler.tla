------------------------------ MODULE Scheduler ------------------------------
(***************************************************************************)
(* What a store expects of the scheduler it hands its callbacks to         *)
(* (IUpdateScheduler): a key that was scheduled is owed one run, until it  *)
(* runs or is cancelled; nothing runs that is not owed.  A scheduler that  *)
(* detects an endless update loop may give up on everything it owes.       *)
(***************************************************************************)
EXTENDS Naturals, Sequences

CONSTANT Keys

VARIABLES
  owed,      (* Keys with a run ahead.                          *)
  running    (* Keys whose callback is running, innermost last. *)

schedulerVars == <<owed, running>>

SchedulerInit == owed = {} /\ running = <<>>

Schedule(k) == owed' = owed \cup {k} /\ UNCHANGED running
Cancel(k) == owed' = owed \ {k} /\ UNCHANGED running
Run(k) == k \in owed /\ owed' = owed \ {k} /\ running' = Append(running, k)
Finish ==
  /\ running # <<>>
  /\ running' = SubSeq(running, 1, Len(running) - 1)
  /\ UNCHANGED owed

GiveUp == owed' = {} /\ UNCHANGED running

SchedulerNext ==
  \/ \E k \in Keys : Schedule(k) \/ Cancel(k) \/ Run(k)
  \/ Finish
  \/ GiveUp

SchedulerSpec == SchedulerInit /\ [][SchedulerNext]_schedulerVars
=============================================================================
