------------------------------- MODULE Selection -------------------------------
(***************************************************************************)
(* What the filters of the resource modules return: the elements of a      *)
(* sequence that are in a set, in their order.  SelectSeq says the same of *)
(* a predicate, but is a primitive to the provers.                         *)
(***************************************************************************)
EXTENDS Integers, Sequences

Filtered(s, T) ==
  LET kept[n \in 0..Len(s)] ==
        IF n = 0 THEN <<>>
        ELSE IF s[n] \in T THEN Append(kept[n - 1], s[n]) ELSE kept[n - 1]
  IN  kept[Len(s)]

=============================================================================
