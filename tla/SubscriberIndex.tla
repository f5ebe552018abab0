---------------------------- MODULE SubscriberIndex ----------------------------
(***************************************************************************)
(* The index that finds the subscribers of a set of written paths.  A path *)
(* has two buckets: `exact`, of the subscribers that read exactly it, and  *)
(* `branch`, of those that read below it, with how many paths each.        *)
(*                                                                         *)
(* A bucket changes its form with its contents: one subscriber is a bare   *)
(* id, several are a set or a map of counts, and one subscriber with       *)
(* several paths below a branch is an id with a count.                     *)
(***************************************************************************)
EXTENDS Paths, Naturals, FiniteSets, Functions, FiniteSetsExt, SequencesExt

CONSTANT Ids

ASSUME IndexAssumption ==
  /\ IsFiniteSet(Paths)
  /\ IsFiniteSet(Ids)

VARIABLES
  exact,        (* The bucket of each path.                                *)
  branch,       (* The bucket of each path for the reads below it.         *)
  wildcard,     (* Subscribers of everything.                              *)
  readsById     (* The read set of each registered subscriber.             *)

indexVars == <<exact, branch, wildcard, readsById>>

Empty == [form |-> "none"]
Bare(id) == [form |-> "id", id |-> id]
Many(ids) == [form |-> "set", ids |-> ids]
Counted(id, n) == [form |-> "count", id |-> id, count |-> n]
Counts(f) == [form |-> "map", counts |-> f]

\* The subscribers in a bucket (what `collect` adds to a match).
Held(bucket) ==
  CASE bucket.form = "none" -> {}
    [] bucket.form \in {"id", "count"} -> {bucket.id}
    [] bucket.form = "set" -> bucket.ids
    [] bucket.form = "map" -> DOMAIN bucket.counts

-----------------------------------------------------------------------------
Register(bucket, id) ==
  CASE bucket.form = "none" -> Bare(id)
    [] bucket.form = "id" -> IF bucket.id = id THEN bucket ELSE Many({bucket.id, id})
    [] bucket.form = "set" -> Many(bucket.ids \cup {id})

\* A wrong variant (see README, mutants): a set of one, or of none, stays a set.
UnregisterUndemoted(bucket, id) ==
  CASE bucket.form = "none" -> bucket
    [] bucket.form = "id" -> IF bucket.id = id THEN Empty ELSE bucket
    [] bucket.form = "set" -> Many(bucket.ids \ {id})

Unregister(bucket, id) ==
  CASE bucket.form = "none" -> bucket
    [] bucket.form = "id" -> IF bucket.id = id THEN Empty ELSE bucket
    [] bucket.form = "set" ->
         LET rest == bucket.ids \ {id}
         IN  IF Cardinality(rest) = 1 THEN Bare(CHOOSE i \in rest : TRUE) ELSE Many(rest)

RegisterBranch(bucket, id) ==
  CASE bucket.form = "none" -> Bare(id)
    [] bucket.form = "id" -> IF bucket.id = id THEN Counted(id, 2)
                             ELSE Counts([i \in {bucket.id, id} |-> 1])
    [] bucket.form = "count" -> IF bucket.id = id THEN Counted(id, bucket.count + 1)
                                ELSE Counts([i \in {bucket.id, id} |->
                                               IF i = id THEN 1 ELSE bucket.count])
    [] bucket.form = "map" ->
         Counts([i \in DOMAIN bucket.counts \cup {id} |->
                   (IF i \in DOMAIN bucket.counts THEN bucket.counts[i] ELSE 0)
                     + (IF i = id THEN 1 ELSE 0)])

\* A wrong variant (see README, mutants): it forgets the count of the one left.
DemoteBare(counts) ==
  IF Cardinality(DOMAIN counts) = 1
    THEN Bare(CHOOSE i \in DOMAIN counts : TRUE)
    ELSE Counts(counts)

\* What is left of a map of counts: one subscriber needs no map.
Demote(counts) ==
  IF Cardinality(DOMAIN counts) = 1
    THEN LET i == CHOOSE i \in DOMAIN counts : TRUE
         IN  IF counts[i] = 1 THEN Bare(i) ELSE Counted(i, counts[i])
    ELSE Counts(counts)

UnregisterBranch(bucket, id) ==
  CASE bucket.form = "none" -> bucket
    [] bucket.form = "id" -> IF bucket.id = id THEN Empty ELSE bucket
    [] bucket.form = "count" ->
         IF bucket.id # id THEN bucket
         ELSE IF bucket.count = 2 THEN Bare(id) ELSE Counted(id, bucket.count - 1)
    [] bucket.form = "map" ->
         IF id \notin DOMAIN bucket.counts THEN bucket
         ELSE IF bucket.counts[id] > 1
           THEN Counts([bucket.counts EXCEPT ![id] = @ - 1])
           ELSE Demote(Restrict(bucket.counts, DOMAIN bucket.counts \ {id}))

\* file and unfile, for one path of a subscriber and all its ancestors.
File(id, p, index) ==
  [exact |-> [index.exact EXCEPT ![p] = Register(@, id)],
   branch |-> [q \in Paths |-> IF q \in Above[p] THEN RegisterBranch(index.branch[q], id)
                                                 ELSE index.branch[q]]]

Unfile(id, p, index) ==
  [exact |-> [index.exact EXCEPT ![p] = Unregister(@, id)],
   branch |-> [q \in Paths |-> IF q \in Above[p] THEN UnregisterBranch(index.branch[q], id)
                                                 ELSE index.branch[q]]]

Index == [exact |-> exact, branch |-> branch]

FileAll(id, new, index) == FoldSet(LAMBDA p, x : File(id, p, x), index, new)
UnfileAll(id, old, index) == FoldSet(LAMBDA p, x : Unfile(id, p, x), index, old)

Becomes(index) ==
  /\ exact' = index.exact
  /\ branch' = index.branch

-----------------------------------------------------------------------------
IndexInit ==
  /\ exact = [p \in Paths |-> Empty]
  /\ branch = [p \in Paths |-> Empty]
  /\ wildcard = {}
  /\ readsById = <<>>

Registered == DOMAIN readsById

\* add: files what is new in the read set, and unfiles what has gone.
Add(id, reads) ==
  LET previous == IF id \in Registered THEN readsById[id] ELSE {}
  IN  /\ readsById' = [i \in Registered \cup {id} |-> IF i = id THEN reads ELSE readsById[i]]
      /\ Becomes(FileAll(id, (reads \ previous) \ {Wildcard},
                   UnfileAll(id, (previous \ reads) \ {Wildcard}, Index)))
      /\ wildcard' = IF Wildcard \in reads THEN wildcard \cup {id} ELSE wildcard \ {id}

\* A wrong variant (see README, mutants): it asks the read set, to which a
\* caller that shares it has already added the path.
IsFiledByReads(p, id) == p \in readsById'[id]

\* isFiledAt.
IsFiledAt(p, id) == id \in Held(exact[p])

\* addPath.  A caller that shares the read set with the index may already have
\* added the path to it.
AddPath(id, p) ==
  /\ id \in Registered
  /\ readsById' = [readsById EXCEPT ![id] = @ \cup {p}]
  /\ IF p = Wildcard
       THEN wildcard' = wildcard \cup {id} /\ UNCHANGED <<exact, branch>>
       ELSE /\ UNCHANGED wildcard
            /\ Becomes(IF IsFiledAt(p, id) THEN Index ELSE File(id, p, Index))

RemoveId(id) ==
  /\ id \in Registered
  /\ readsById' = Restrict(readsById, Registered \ {id})
  /\ wildcard' = wildcard \ {id}
  /\ Becomes(UnfileAll(id, readsById[id] \ {Wildcard}, Index))

IndexNext ==
  \E id \in Ids :
    \/ \E reads \in PathSets : Add(id, reads)
    \/ \E p \in Paths \cup {Wildcard} : AddPath(id, p)
    \/ RemoveId(id)

IndexSpec == IndexInit /\ [][IndexNext]_indexVars

-----------------------------------------------------------------------------
HeldAll(buckets) == UNION {Held(b) : b \in buckets}

\* match, for one written path.
MatchOne(w) == HeldAll({exact[w], branch[w]} \cup {exact[a] : a \in Above[w]})

\* Has a path a bucket that is a set, which matchMultiple visits only once?
IsShared(p) == exact[p].form = "set"

\* A wrong variant (see README, mutants): those of all written paths.
BackfillAll(W, i) == {p \in {W[j] : j \in 1..Len(W)} : IsShared(p)}

\* The buckets that count as visited when the first shared ancestor is met, at
\* the i-th written path: those of the paths up to it.
Backfill(W, i) == {p \in {W[j] : j \in 1..i} : IsShared(p)}

\* One turn of the loop of matchMultiple; `visited` is a record whose `on` says
\* if visits are remembered yet.
MatchTurn(W, i, acc) ==
  LET w == W[i]
      own == IF acc.on /\ w \in acc.visited THEN {} ELSE {w}
      marked == IF acc.on /\ IsShared(w) THEN acc.visited \cup {w} ELSE acc.visited
      shared == {a \in Above[w] : IsShared(a)}
      visited == IF acc.on \/ shared = {} THEN marked ELSE Backfill(W, i)
      above == {a \in Above[w] : a \in shared => a \notin visited}
  IN  [on |-> acc.on \/ shared # {},
       visited |-> visited \cup shared,
       matched |-> acc.matched \cup HeldAll({exact[p] : p \in own \cup above} \cup {branch[w]})]

MatchMultiple(W) ==
  LET turn[i \in 0..Len(W)] ==
        IF i = 0 THEN [on |-> FALSE, visited |-> {}, matched |-> wildcard]
                 ELSE MatchTurn(W, i, turn[i - 1])
  IN  turn[Len(W)].matched

\* match, for written paths in their order.
MatchAll(W) ==
  IF Wildcard \in ToSet(W) THEN Registered
  ELSE IF Len(W) > 1 THEN MatchMultiple(W)
  ELSE wildcard \cup UNION {MatchOne(w) : w \in ToSet(W)}

\* hasReaderAt.
HasReaderAt(p) == exact[p] # Empty \/ branch[p] # Empty

-----------------------------------------------------------------------------
(***************************************************************************)
(* The types of the variables; each bucket has the smallest form that      *)
(* holds its contents, so that what nobody reads takes no space.           *)
(***************************************************************************)
ExactBuckets ==
  {Empty} \cup {Bare(i) : i \in Ids} \cup {Many(S) : S \in {S \in SUBSET Ids : Cardinality(S) > 1}}

IsBranchBucket(bucket) ==
  \/ bucket \in {Empty} \cup {Bare(i) : i \in Ids}
  \/ bucket \in [form : {"count"}, id : Ids, count : 2..Cardinality(Paths)]
  \/ /\ bucket.form = "map"
     /\ Cardinality(DOMAIN bucket.counts) > 1
     /\ bucket.counts \in [DOMAIN bucket.counts -> 1..Cardinality(Paths)]
     /\ DOMAIN bucket.counts \subseteq Ids

IndexTypeOK ==
  /\ exact \in [Paths -> ExactBuckets]
  /\ DOMAIN branch = Paths /\ \A p \in Paths : IsBranchBucket(branch[p])
  /\ wildcard \subseteq Registered
  /\ Registered \subseteq Ids /\ \A id \in Registered : readsById[id] \in PathSets

(***************************************************************************)
(* However subscribers came, changed their reads and went, a match finds   *)
(* exactly the ones one of whose reads is touched: the three lookups agree *)
(* with pathsIntersect, for every order of the written paths.              *)
(***************************************************************************)
MatchIsPathsIntersect ==
  \A S \in PathSets : Cardinality(S) < 4 =>
    \A W \in SetToSeqs(S) :
      MatchAll(W) = {id \in Registered : PathsIntersect(readsById[id], S)}

(***************************************************************************)
(* hasReaderAt tells whether a subscriber reads a path or below it: what   *)
(* decides if a cached entry may be evicted.                               *)
(***************************************************************************)
ReadersAreSeen ==
  \A p \in Paths :
    HasReaderAt(p) <=>
      \E id \in Registered, r \in Paths : r \in readsById[id] /\ (r = p \/ p \in Above[r])
=============================================================================
