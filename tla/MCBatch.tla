------------------------------- MODULE MCBatch -------------------------------
(***************************************************************************)
(* What a transaction holds back: the writes of its stores, and events.    *)
(* The two share only the order of their steps, which EventQueue has of    *)
(* its own, so each is explored by itself: which one, is chosen at the     *)
(* start.                                                                  *)
(***************************************************************************)
EXTENDS MCCarburetor, EventQueue

VARIABLE part

BatchInit == Init /\ EventInit /\ part \in {"writes", "events"}

BatchNext ==
  /\ \/ part = "writes" /\ Next /\ UNCHANGED eventVars
     \/ part = "events" /\ EventNext /\ UNCHANGED vars
  /\ UNCHANGED part

BatchSpec == BatchInit /\ [][BatchNext]_<<vars, eventVars, part>>
=============================================================================
