------------------------------ MODULE MCComponent ------------------------------
(***************************************************************************)
(* A component over two stores, of which the second has a scheduler that   *)
(* queues: with one props it selects from the first store, with the other  *)
(* it reads the second in both ways.                                       *)
(***************************************************************************)
EXTENDS ClassComponent, TLC

CONSTANTS direct, queuing, directProps, queuingProps

MCSource == directProps :> direct @@ queuingProps :> queuing
MCUses == directProps :> {"selection"} @@ queuingProps :> {"selection", "tracked"}
=============================================================================
