-------------------------------- MODULE WriteLog --------------------------------
(***************************************************************************)
(* The log of the versions at which paths were last written, with which a  *)
(* store answers whether a write since some version concerns a read set,   *)
(* and which paths were written since.  Its size is bounded: the oldest    *)
(* entries go, and below the watermark it does not know.                   *)
(*                                                                         *)
(* record() runs path by path, one step each, so that an eviction happens  *)
(* where the code has it.  `published` is not in the code: it is the whole *)
(* history, against which the answers are judged.                          *)
(***************************************************************************)
EXTENDS Paths, Naturals, Sequences, FiniteSets

CONSTANTS
  Capacity,     (* Entries the log may hold.                               *)
  MaxWrites     (* Bound: publications.                                    *)

ASSUME LogAssumption ==
  /\ Capacity \in Nat
  /\ MaxWrites \in Nat

VARIABLES
  last,             (* The version each path was last written at, or 0.    *)
  under,            (* The same for writes below the path.                 *)
  wildcardVersion,
  watermark,
  trackedSince,     (* Version from which recent paths are kept, or Never. *)
  recent,           (* Recently written paths, the latest at the end.      *)
  logVersion,       (* The version of the store.                           *)
  todo,             (* Paths of the publication being recorded.            *)
  published         (* The paths published at each version.                *)

logVars == <<last, under, wildcardVersion, watermark, trackedSince, recent, logVersion, todo,
             published>>

Versions == 0..MaxWrites
Never == MaxWrites + 1

\* A batch of evictions leaves seven eighths of the capacity.
Retained == Capacity - Capacity \div 8

-----------------------------------------------------------------------------
\* The entries of both maps, and the version of each.
EntriesOf(l, u) == ({"last"} \X {p \in Paths : l[p] > 0})
                     \cup ({"under"} \X {p \in Paths : u[p] > 0})
VersionOf(l, u, e) == IF e[1] = "last" THEN l[e[2]] ELSE u[e[2]]

\* evictOldest takes the `excess` oldest entries, up to a cutoff; of those at
\* the cutoff, entries of `under` first.
IsOldest(l, u, gone, cutoff) ==
  /\ gone \subseteq EntriesOf(l, u)
  /\ \E e \in gone : VersionOf(l, u, e) = cutoff
  /\ \A e \in EntriesOf(l, u) :
       /\ VersionOf(l, u, e) < cutoff => e \in gone
       /\ e \in gone => VersionOf(l, u, e) <= cutoff
       /\ e \in gone /\ e[1] = "last" /\ VersionOf(l, u, e) = cutoff =>
            \A f \in EntriesOf(l, u) : f[1] = "under" /\ VersionOf(l, u, f) = cutoff => f \in gone

Oldest(l, u, gone, cutoff) ==
  /\ Cardinality(gone) + Retained = Cardinality(EntriesOf(l, u))
  /\ IsOldest(l, u, gone, cutoff)

\* RecentWritePaths: record moves a path to the end, prune walks from the oldest
\* path to the first one above the boundary, and since from the latest back to
\* the last one above the baseline.
PlacesOf(list, p) == {i \in DOMAIN list : list[i].path = p}
WithoutPlace(list, i) == SubSeq(list, 1, i - 1) \o SubSeq(list, i + 1, Len(list))
Moved(list, p, v) ==
  Append(IF PlacesOf(list, p) = {} THEN list ELSE WithoutPlace(list, CHOOSE i \in PlacesOf(list, p) : TRUE),
         [path |-> p, version |-> v])

Pruned(list, boundary) ==
  LET dropped == {i \in DOMAIN list : \A j \in 1..i : list[j].version <= boundary}
  IN  SubSeq(list, Cardinality(dropped) + 1, Len(list))

Since(list, b) ==
  LET kept == {i \in DOMAIN list : \A j \in i..Len(list) : list[j].version > b}
  IN  {list[i].path : i \in kept}

Tracking == trackedSince # Never

-----------------------------------------------------------------------------
LogInit ==
  /\ last = [p \in Paths |-> 0]
  /\ under = [p \in Paths |-> 0]
  /\ wildcardVersion = 0
  /\ watermark = 0
  /\ trackedSince \in {0, Never}
  /\ recent = <<>>
  /\ logVersion = 0
  /\ todo = <<>>
  /\ published = [v \in Versions |-> {}]

\* A publication of the store calls record() with the paths W, in their order.
BeginRecord(W) ==
  /\ todo = <<>>
  /\ logVersion < MaxWrites
  /\ W # <<>>
  /\ logVersion' = logVersion + 1
  /\ todo' = W
  /\ published' = [published EXCEPT ![logVersion'] = {W[i] : i \in DOMAIN W}]
  /\ UNCHANGED <<last, under, wildcardVersion, watermark, trackedSince, recent>>

RecordWildcard ==
  /\ todo # <<>>
  /\ Head(todo) = Wildcard
  /\ todo' = Tail(todo)
  /\ wildcardVersion' = logVersion
  /\ UNCHANGED <<last, under, watermark, trackedSince, recent, logVersion, published>>

RecordedLast(p) == [last EXCEPT ![p] = logVersion]
RecordedUnder(p) == [q \in Paths |-> IF q \in Above[p] THEN logVersion ELSE under[q]]
RecordedRecent(p) == IF Tracking THEN Moved(recent, p, logVersion) ELSE recent

IsFull(l, u) == Cardinality(EntriesOf(l, u)) > Capacity

\* The next path fits in.
RecordPath ==
  /\ todo # <<>>
  /\ Head(todo) # Wildcard
  /\ todo' = Tail(todo)
  /\ last' = RecordedLast(Head(todo))
  /\ under' = RecordedUnder(Head(todo))
  /\ ~IsFull(last', under')
  /\ recent' = RecordedRecent(Head(todo))
  /\ UNCHANGED <<wildcardVersion, watermark, trackedSince, logVersion, published>>

Higher(v, w) == IF v > w THEN v ELSE w

\* A wrong variant (see README, mutants): the watermark stays one below.
EvictBelow(l, u, r, gone, cutoff) ==
  /\ last' = [p \in Paths |-> IF <<"last", p>> \in gone THEN 0 ELSE l[p]]
  /\ under' = [p \in Paths |-> IF <<"under", p>> \in gone THEN 0 ELSE u[p]]
  /\ watermark' = Higher(watermark, cutoff - 1)
  /\ recent' = Pruned(r, watermark')

\* It does not, and the oldest entries go.
Evict(l, u, r, gone, cutoff) ==
  /\ last' = [p \in Paths |-> IF <<"last", p>> \in gone THEN 0 ELSE l[p]]
  /\ under' = [p \in Paths |-> IF <<"under", p>> \in gone THEN 0 ELSE u[p]]
  /\ watermark' = Higher(watermark, cutoff)
  /\ recent' = Pruned(r, watermark')

RecordPathEvicting ==
  /\ todo # <<>>
  /\ Head(todo) # Wildcard
  /\ todo' = Tail(todo)
  /\ LET l == RecordedLast(Head(todo))
         u == RecordedUnder(Head(todo))
     IN  /\ IsFull(l, u)
         /\ \E gone \in SUBSET EntriesOf(l, u), cutoff \in 1..logVersion :
              /\ Oldest(l, u, gone, cutoff)
              /\ Evict(l, u, RecordedRecent(Head(todo)), gone, cutoff)
  /\ UNCHANGED <<wildcardVersion, trackedSince, logVersion, published>>

\* A wrong variant (see README, mutants): it claims to know what came before.
TrackAnew ==
  /\ todo = <<>>
  /\ ~Tracking
  /\ trackedSince' = 0
  /\ UNCHANGED <<last, under, wildcardVersion, watermark, recent, logVersion, todo, published>>

\* A consumer of the recent paths comes, and the last one goes.
Track ==
  /\ todo = <<>>
  /\ ~Tracking
  /\ trackedSince' = logVersion
  /\ UNCHANGED <<last, under, wildcardVersion, watermark, recent, logVersion, todo, published>>

Untrack ==
  /\ todo = <<>>
  /\ Tracking
  /\ trackedSince' = Never
  /\ recent' = <<>>
  /\ UNCHANGED <<last, under, wildcardVersion, watermark, logVersion, todo, published>>

\* The publications are those the application may make.
LogNext(Publications) ==
  \/ \E W \in Publications : BeginRecord(W)
  \/ RecordWildcard
  \/ RecordPath
  \/ RecordPathEvicting
  \/ Track
  \/ Untrack

LogSpec == LogInit /\ [][LogNext(Seq(Paths \cup {Wildcard}))]_logVars

-----------------------------------------------------------------------------
\* matches: could a write since version b concern the reads R?
Matches(b, R) ==
  \/ b < watermark
  \/ wildcardVersion > b
  \/ Wildcard \in R
  \/ \E r \in R : \/ last[r] > b
                  \/ under[r] > b
                  \/ \E a \in Above[r] : last[a] > b

\* Does pathsSince have an answer?  It is Since(recent, b).
KnowsPathsSince(b) == b >= watermark /\ b >= trackedSince /\ wildcardVersion <= b

PublishedSince(b) == UNION {published[v] : v \in {v \in Versions : v > b}}

-----------------------------------------------------------------------------
(***************************************************************************)
(* The types of the variables.                                             *)
(***************************************************************************)
Recents == [path : Paths, version : Versions]

LogTypeOK ==
  /\ last \in [Paths -> 0..logVersion]
  /\ under \in [Paths -> 0..logVersion]
  /\ wildcardVersion \in 0..logVersion
  /\ watermark \in 0..logVersion
  /\ trackedSince \in Versions \cup {Never}
  /\ recent \in Seq(Recents)
  /\ logVersion \in Versions
  /\ todo \in Seq(Paths \cup {Wildcard})
  /\ published \in [Versions -> PathSets]

(***************************************************************************)
(* The log never denies a write: when matches() is false, no publication   *)
(* since the baseline touched the reads, whatever has been evicted.        *)
(***************************************************************************)
NeverDenies ==
  todo = <<>> =>
    \A b \in 0..logVersion : \A R \in SUBSET Paths :
      ~Matches(b, R) => ~PathsIntersect(R, PublishedSince(b))

(***************************************************************************)
(* Nor does it make writes up: where it still knows, matches() is true     *)
(* only if there was one.                                                  *)
(***************************************************************************)
InventsNothing ==
  todo = <<>> =>
    \A b \in watermark..logVersion : \A R \in SUBSET Paths :
      Matches(b, R) => PathsIntersect(R, PublishedSince(b))

(***************************************************************************)
(* pathsSince(), where it has an answer, lists exactly the paths published *)
(* since the baseline.                                                     *)
(***************************************************************************)
PathsSinceIsExact ==
  todo = <<>> =>
    \A b \in 0..logVersion :
      KnowsPathsSince(b) => Since(recent, b) = PublishedSince(b)
=============================================================================
