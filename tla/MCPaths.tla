-------------------------------- MODULE MCPaths --------------------------------
(***************************************************************************)
(* The index and the log of a store over the paths doc, doc.a, doc.b and   *)
(* doc.a.x.  They share nothing but the paths, so they are explored one    *)
(* beside the other: the index before the first publication, and the log   *)
(* while nobody is registered.                                             *)
(***************************************************************************)
EXTENDS SubscriberIndex, WriteLog, TLC

CONSTANTS doc, docA, docB, docAX

MCAbove == [p \in Paths |-> CASE p = doc -> {} [] p = docAX -> {doc, docA} [] OTHER -> {doc}]

\* One path, or two in either order.
Publications ==
  UNION {SetToSeqs(S) : S \in {S \in PathSets : Cardinality(S) \in 1..2}}

Interchangeable == Permutations(Ids)

PathsInit == IndexInit /\ LogInit
PathsNext ==
  \/ logVersion = 0 /\ Tracking /\ IndexNext /\ UNCHANGED logVars
  \/ Registered = {} /\ LogNext(Publications) /\ UNCHANGED indexVars

PathsSpec == PathsInit /\ [][PathsNext]_<<indexVars, logVars>>
=============================================================================
