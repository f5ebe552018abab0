------------------------------- MODULE MCPersist -------------------------------
(***************************************************************************)
(* Two branches with two texts; every combination of the options.          *)
(***************************************************************************)
EXTENDS PersistPartitions, TLC

EveryOption ==
  {o \in [coalesce : BOOLEAN, throttled : BOOLEAN, deferred : BOOLEAN] : o.throttled => o.coalesce}

\* A throttled subscription to a store with a deferring scheduler.
Held == {[coalesce |-> TRUE, throttled |-> TRUE, deferred |-> TRUE]}
=============================================================================
