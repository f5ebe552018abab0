------------------------------ MODULE MCResources ------------------------------
(***************************************************************************)
(* A slot and a cache, each with two keys and room for one answer.  They   *)
(* share nothing but the keys, so they are explored one beside the other:  *)
(* the cache before the slot's first step, and the slot while the cache    *)
(* is as it was at first.                                                  *)
(***************************************************************************)
EXTENDS ResourceSlot, FiniteSets, TLC

CONSTANTS MaxRequests, MaxRoots, MaxNesting, MaxEffort

VARIABLES entries, root, runtime, fetches, lastUsed, count, retainedAt, reads, restores, writes,
          frames, invalidatedAt, overrun, unreported

Cache == INSTANCE ResourceCache_proofs

cache == <<entries, root, runtime, fetches, lastUsed, count, retainedAt, reads, restores, writes,
           frames, invalidatedAt, overrun, unreported>>

\* What the theorems about the cache assume of its constants.
ASSUME CacheAssumed == Cache!CacheAssumption

Interchangeable == Permutations(Keys)

\* Bound: requests, roots installed, and a second key, together.
Effort ==
  LET used == DOMAIN entries \cup reads \cup {fetches[r].key : r \in DOMAIN fetches}
  IN  Len(fetches) + (IF root > restores THEN root ELSE restores)
      + (IF Cardinality(used) > 1 THEN 1 ELSE 0)

CacheUntouched == fetches = <<>> /\ root = 0 /\ restores = 0 /\ lastUsed = <<>> /\ reads = {} /\ frames = <<>>

ResourcesInit == Init /\ Cache!CacheInit
ResourcesNext ==
  \/ Init /\ Cache!CacheNext /\ Effort' <= MaxEffort /\ UNCHANGED vars
  \/ CacheUntouched /\ Next /\ UNCHANGED cache

ResourcesSpec == ResourcesInit /\ [][ResourcesNext]_<<vars, cache>>

-----------------------------------------------------------------------------
\* Both are well typed; the memory of the slot keeps to its limit, and the
\* ledger of the cache lists no key twice.
ResourcesTypeOK == TypeOK /\ Cache!CacheTypeOK

\* Between tasks, every promise that load(), refresh() or suspend() handed out
\* is settled, has a loader to settle it, or follows that of a later request.
EveryPromiseEnds == NoAwaiterForgotten /\ Cache!EveryFetchEnds

\* An answer that was asked for before the last invalidation of its key counts
\* as stale.
InvalidatedStaysStale == Cache!InvalidatedStaysStale

\* An answer in the cache is never replaced by that of an earlier request.
NewestAnswerWins == Cache!NewestAnswerWins

\* Between tasks the ledger of the cache counts and lists its entries.
LedgerExact == Cache!LedgerExact

\* While the ledger skips its scans, nothing could be evicted.
FreedIsReported == Cache!FreedIsReported
=============================================================================
