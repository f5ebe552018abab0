------------------------------ MODULE MCReaders ------------------------------
(***************************************************************************)
(* What stands between a store and those who read it: the index and the    *)
(* log of its paths, a component that reads it, and the scopes that hand   *)
(* it out.  They share nothing, so each is explored by itself: which one,  *)
(* is chosen at the start.                                                 *)
(***************************************************************************)
EXTENDS MCPaths, MCComponent, Scope

CONSTANTS root, child, formToken, userToken

MCParent == root :> NoScope @@ child :> root
MCLocal == root :> {} @@ child :> {formToken}

VARIABLE part

ReadersInit ==
  /\ PathsInit /\ ComponentInit /\ ScopeInit
  /\ part \in {"paths", "component", "scope"}
  /\ part = "paths" \/ trackedSince = 0

ReadersNext ==
  /\ \/ part = "paths" /\ PathsNext /\ UNCHANGED <<componentVars, scopeVars>>
     \/ part = "component" /\ ComponentNext /\ UNCHANGED <<indexVars, logVars, scopeVars>>
     \/ part = "scope" /\ ScopeNext /\ UNCHANGED <<indexVars, logVars, componentVars>>
  /\ UNCHANGED part

ReadersSpec == ReadersInit /\ [][ReadersNext]_<<indexVars, logVars, componentVars, scopeVars, part>>

-----------------------------------------------------------------------------
(***************************************************************************)
(* While the index is what is explored: a match finds exactly the          *)
(* subscribers one of whose reads is touched (SubscriberIndex.match), and  *)
(* a path has a reader exactly if somebody reads it (hasReaderAt).         *)
(***************************************************************************)
LookupsAreExact == part = "paths" => MatchIsPathsIntersect /\ ReadersAreSeen
=============================================================================
