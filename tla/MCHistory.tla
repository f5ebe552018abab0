------------------------------- MODULE MCHistory -------------------------------
EXTENDS History, TLC
EveryPolicy == [deferring : BOOLEAN, overridden : BOOLEAN]
Interchangeable == Permutations(Histories)
Zero == [p \in Places |-> 0]
Ones == {[p \in Places |-> 1]}
=============================================================================
