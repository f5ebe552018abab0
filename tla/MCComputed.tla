------------------------------ MODULE MCComputed ------------------------------
(***************************************************************************)
(* Computeds c, d and f over one or two stores.  c reads x.p, and          *)
(* while that is on also q, of the last store there is.  d reads only that *)
(* place q.  f reads x.p and x.q, and fails while only p is on.            *)
(***************************************************************************)
EXTENDS Computed, TLC

CONSTANTS x, y, a, c, d, f, p, q

Far == IF y \in Stores THEN y ELSE x

MCSubscribers == (Computeds \X Stores) \cup {a}
MCHome == [i \in MCSubscribers |-> IF i = a THEN Far ELSE i[2]]
MCOverlaps == {<<r, r>> : r \in Paths}
MCGate == [k \in Computeds |-> IF k = d THEN <<Far, q>> ELSE <<x, p>>]
MCThen == [k \in Computeds |-> IF k = d THEN {} ELSE {<<Far, q>>}]
MCElse == [k \in Computeds |-> IF k = f THEN {<<Far, q>>} ELSE {}]
=============================================================================
