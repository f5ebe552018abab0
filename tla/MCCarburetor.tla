---------------------------- MODULE MCCarburetor ----------------------------
(***************************************************************************)
(* Up to two stores and two subscriptions, over two disjoint paths.  With  *)
(* two stores, a lives at x and b at y; with one, both live at x.          *)
(***************************************************************************)
EXTENDS Carburetor, TLC

CONSTANTS x, y, a, b, p, q

MCHome == [i \in Subscribers |-> IF i = b /\ y \in Stores THEN y ELSE x]
MCOverlaps == {<<r, r>> : r \in Paths}
=============================================================================
