--------------------------------- MODULE Paths ---------------------------------
(***************************************************************************)
(* Paths into the data of a store, and which reads a write touches.  Only  *)
(* the nesting of paths matters: Above[p] are the proper ancestors of p.   *)
(***************************************************************************)
CONSTANTS
  Paths,
  Above,
  Wildcard      (* Read: everything.  Written: everything may have changed. *)

ASSUME PathsAssumption ==
  /\ Wildcard \notin Paths
  /\ Above \in [Paths -> SUBSET Paths]
  /\ \A p \in Paths : p \notin Above[p]
  /\ \A p, q \in Paths : q \in Above[p] => Above[q] \subseteq Above[p]

PathSets == SUBSET (Paths \cup {Wildcard})

\* pathsTouch: a path is written at a read one, above it or below it.
Touches(r, w) == r = w \/ w \in Above[r] \/ r \in Above[w]

\* pathsIntersect.
PathsIntersect(R, W) ==
  \/ Wildcard \in R \cup W
  \/ \E r \in R, w \in W : Touches(r, w)
=============================================================================
