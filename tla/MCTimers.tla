------------------------------- MODULE MCTimers -------------------------------
(***************************************************************************)
(* The two parts of the library that live on timers: the throttle, and the *)
(* mirror of the branches of a store under every combination of options.   *)
(* They share nothing, so they are explored one beside the other: the      *)
(* branches before the throttle's first step, and the throttle while the   *)
(* branches are as they were at first, in one of their initial states.     *)
(***************************************************************************)
EXTENDS UpdateThrottle, MCPersist

NothingYet ==
  /\ PersistInit
  /\ options = CHOOSE o \in Options : TRUE
  /\ wire = [b \in Partitions |-> Absent] /\ stored = wire

TimersInit == Init /\ PersistInit
TimersNext ==
  \/ Init /\ PersistNext /\ UNCHANGED vars
  \/ NothingYet /\ Next /\ UNCHANGED persistVars

TimersSpec == TimersInit /\ [][TimersNext]_<<vars, persistVars>> /\ Fairness /\ PersistFairness
=============================================================================
