------------------------------ MODULE Paths_proofs ------------------------------
(***************************************************************************)
(* The log and the index of the paths of a store.                          *)
(*                                                                         *)
(* For every capacity, every set of nested paths and every sequence of     *)
(* publications, the log denies no write and, where it still knows, makes  *)
(* none up.                                                                *)
(*                                                                         *)
(* record() works path by path, so the invariant speaks of the paths that  *)
(* have been recorded: those published, without the ones the publication   *)
(* under way has still to do.  Each is found in the maps at its version or *)
(* later, or the watermark has reached that version.                       *)
(*                                                                         *)
(* However subscribers came, changed their reads and went, the buckets of  *)
(* the index are a function of the read sets: what they hold, how often,   *)
(* and in which form.  A lookup then finds what the read sets say.         *)
(***************************************************************************)
EXTENDS MCReaders, FiniteSetTheorems, SequenceTheorems, WellFoundedInduction,
        NaturalsInduction, TLAPS

Targets == Paths \cup {Wildcard}

Pending(t) == \E i \in DOMAIN todo : todo[i] = t

Recorded(v, t) == t \in published[v] /\ (v = logVersion => ~Pending(t))

Typed ==
  /\ last \in [Paths -> Nat]
  /\ under \in [Paths -> Nat]
  /\ wildcardVersion \in Nat
  /\ watermark \in Nat
  /\ logVersion \in Versions
  /\ todo \in Seq(Targets)
  /\ published \in [Versions -> SUBSET Targets]

PublishedSoFar ==
  /\ \A v \in Versions : v > logVersion => published[v] = {}
  /\ \A i \in DOMAIN todo : todo[i] \in published[logVersion]

\* What the maps l and u say of the recorded paths, over the watermark w.
Known(l, u, w, v, p) ==
  /\ l[p] >= v \/ w >= v
  /\ \A q \in Above[p] : u[q] >= v \/ w >= v

Covered ==
  /\ \A v \in Versions, p \in Paths :
       Recorded(v, p) => Known(last, under, watermark, v, p)
  /\ \A v \in Versions : Recorded(v, Wildcard) => wildcardVersion >= v

\* What the maps l and u hold was published.
Honest(l, u) ==
  /\ \A p \in Paths : l[p] > 0 => l[p] \in Versions /\ p \in published[l[p]]
  /\ \A q \in Paths : u[q] > 0 =>
       u[q] \in Versions /\ \E p \in Paths : q \in Above[p] /\ p \in published[u[q]]

Truthful ==
  /\ Honest(last, under)
  /\ wildcardVersion > 0 =>
       wildcardVersion \in Versions /\ Wildcard \in published[wildcardVersion]

Inv == Typed /\ PublishedSoFar /\ Covered /\ Truthful

-----------------------------------------------------------------------------
(* The log starts empty, and so does the history. *)
LEMMA InitInv == LogInit => Inv
  BY PathsAssumption, LogAssumption DEF LogInit, Inv, Typed, PublishedSoFar, Covered, Truthful, Honest, Known,
     Recorded, Pending, Versions, Targets

(* A path that is still to do is the one done next, or still to do after it. *)
LEMMA PendingStep ==
  ASSUME NEW S, todo \in Seq(S), todo # <<>>, todo' = Tail(todo), NEW t, Pending(t)
  PROVE  t = Head(todo) \/ Pending(t)'
<1>1. PICK i \in DOMAIN todo : todo[i] = t  BY DEF Pending
<1>2. CASE i = 1  BY <1>1, <1>2
<1>3. CASE i # 1
  <2>1. i \in 2..Len(todo)  BY <1>1, <1>3
  <2>2. i - 1 \in DOMAIN todo' /\ todo'[i - 1] = t  BY <1>1, <2>1
  <2> QED  BY <2>2 DEF Pending
<1> QED  BY <1>2, <1>3

(* A publication begins a version of which nothing is recorded yet. *)
LEMMA BeginInv == Inv /\ (\E W \in Seq(Targets) : BeginRecord(W)) => Inv'
<1> SUFFICES ASSUME Inv, NEW W \in Seq(Targets), BeginRecord(W) PROVE Inv'
  OBVIOUS
<1> USE PathsAssumption, LogAssumption
<1>0. logVersion \in Nat /\ logVersion' = logVersion + 1 /\ logVersion' \in Versions
  BY DEF Inv, Typed, BeginRecord, Versions
<1>1. /\ todo' = W /\ todo = <<>>
      /\ last' = last /\ under' = under /\ watermark' = watermark
      /\ wildcardVersion' = wildcardVersion
      /\ published' = [published EXCEPT ![logVersion'] = {W[i] : i \in DOMAIN W}]
  BY DEF BeginRecord
<1>2. \A i \in DOMAIN W : W[i] \in Targets  OBVIOUS
<1>3. /\ published'[logVersion'] = {W[i] : i \in DOMAIN W}
      /\ \A v \in Versions : v # logVersion' => published'[v] = published[v]
  BY <1>0, <1>1 DEF Inv, Typed
<1>4. Typed'  BY <1>0, <1>1, <1>2 DEF Inv, Typed
<1>5. PublishedSoFar'
  BY <1>0, <1>1, <1>3 DEF Inv, PublishedSoFar, Versions
<1>6. \A v \in Versions, t \in Targets : Recorded(v, t)' => Recorded(v, t)
  <2> TAKE v \in Versions, t \in Targets
  <2>1. CASE v = logVersion'
    BY <2>1, <1>1, <1>3 DEF Recorded, Pending
  <2>2. CASE v # logVersion'
    BY <2>2, <1>1, <1>3 DEF Recorded, Pending
  <2> QED  BY <2>1, <2>2
<1>7. Covered'
  BY <1>1, <1>6 DEF Inv, Covered, Known, Targets
<1>8. \A v \in Versions : v > 0 => (published[v] # {} => published'[v] = published[v])
  BY <1>0, <1>3 DEF Inv, PublishedSoFar, Versions
<1>9. Truthful'
  BY <1>1, <1>8 DEF Inv, Truthful, Honest
<1> QED  BY <1>4, <1>5, <1>7, <1>9 DEF Inv

(* The wildcard is recorded at the version of its publication. *)
LEMMA WildcardInv == Inv /\ RecordWildcard => Inv'
<1> SUFFICES ASSUME Inv, RecordWildcard PROVE Inv'
  OBVIOUS
<1> USE PathsAssumption, LogAssumption
<1>1. /\ todo \in Seq(Targets) /\ todo # <<>> /\ todo' = Tail(todo) /\ Head(todo) = Wildcard
      /\ wildcardVersion' = logVersion
      /\ UNCHANGED <<last, under, watermark, logVersion, published>>
  BY DEF Inv, Typed, RecordWildcard
<1>2. logVersion \in Nat  BY DEF Inv, Typed, Versions
<1>3. Typed'  BY <1>1, <1>2 DEF Inv, Typed
<1>4. /\ Head(todo) = todo[1] /\ 1 \in DOMAIN todo
      /\ \A i \in DOMAIN todo' : i + 1 \in DOMAIN todo /\ todo'[i] = todo[i + 1]
  BY <1>1
<1>5. PublishedSoFar'  BY <1>1, <1>4 DEF Inv, PublishedSoFar
<1>6. \A v \in Versions, t \in Targets : Recorded(v, t)' /\ t # Wildcard => Recorded(v, t)
  BY <1>1, PendingStep DEF Recorded
<1>7. \A v \in Versions : Recorded(v, Wildcard)' => v <= logVersion
  BY <1>1, <1>2 DEF Recorded, Inv, PublishedSoFar, Versions
<1>8. Covered'
  BY <1>1, <1>6, <1>7 DEF Inv, Covered, Known, Targets
<1>9. Wildcard \in published[logVersion]  BY <1>1, <1>4 DEF Inv, PublishedSoFar
<1>10. Truthful'
  BY <1>1, <1>9 DEF Inv, Truthful, Honest, Typed
<1> QED  BY <1>3, <1>5, <1>8, <1>10 DEF Inv

(* One path more in the maps: it is known, and what was known still is. *)
LEMMA OneMore ==
  ASSUME Inv, todo # <<>>, Head(todo) # Wildcard, todo' = Tail(todo),
         UNCHANGED <<logVersion, published>>,
         NEW l, NEW u, l = RecordedLast(Head(todo)), u = RecordedUnder(Head(todo))
  PROVE  /\ l \in [Paths -> Nat] /\ u \in [Paths -> Nat]
         /\ \A v \in Versions, p \in Paths : Recorded(v, p)' => Known(l, u, watermark, v, p)
         /\ \A v \in Versions : Recorded(v, Wildcard)' => Recorded(v, Wildcard)
         /\ Honest(l, u)
         /\ PublishedSoFar' /\ todo' \in Seq(Targets)
<1> USE PathsAssumption, LogAssumption
<1> DEFINE h == Head(todo)
<1>1. todo \in Seq(Targets) /\ logVersion \in Nat /\ logVersion \in Versions
  BY DEF Inv, Typed, Versions
<1>2. /\ h = todo[1] /\ 1 \in DOMAIN todo
      /\ \A i \in DOMAIN todo' : i + 1 \in DOMAIN todo /\ todo'[i] = todo[i + 1]
  BY <1>1
<1>3. h \in Paths /\ h \in published[logVersion]
  BY <1>1, <1>2 DEF Inv, PublishedSoFar, Targets
<1>4. /\ l \in [Paths -> Nat] /\ u \in [Paths -> Nat]
      /\ l[h] = logVersion /\ \A p \in Paths : p # h => l[p] = last[p]
      /\ \A q \in Paths : u[q] = IF q \in Above[h] THEN logVersion ELSE under[q]
  BY <1>1, <1>3 DEF Inv, Typed, RecordedLast, RecordedUnder
<1>5. \A v \in Versions, t \in Targets : Recorded(v, t)' /\ t # h => Recorded(v, t)
  BY <1>1, PendingStep DEF Recorded
<1>6. \A v \in Versions, t \in Targets : Recorded(v, t)' => v <= logVersion
  BY <1>1 DEF Recorded, Inv, PublishedSoFar, Versions
<1>7. ASSUME NEW v \in Versions, NEW p \in Paths, Recorded(v, p)'
      PROVE  Known(l, u, watermark, v, p)
  <2>0. v \in Nat /\ v <= logVersion /\ Above[p] \subseteq Paths
    BY <1>6, <1>7 DEF Targets, Versions
  <2>1. CASE p = h
    BY <2>0, <2>1, <1>4, <1>1 DEF Known
  <2>2. CASE p # h
    <3>1. Known(last, under, watermark, v, p)
      BY <1>5, <1>7, <2>2 DEF Inv, Covered, Targets
    <3> QED  BY <3>1, <2>0, <2>2, <1>1, <1>4 DEF Known
  <2> QED  BY <2>1, <2>2
<1>8. PublishedSoFar'  BY <1>1, <1>2 DEF Inv, PublishedSoFar
<1>9. Honest(l, u)
  BY <1>1, <1>3, <1>4 DEF Inv, Truthful, Honest
<1> QED  BY <1>1, <1>4, <1>5, <1>7, <1>8, <1>9 DEF Targets

(* The next path is recorded. *)
LEMMA PathInv == Inv /\ RecordPath => Inv'
<1> SUFFICES ASSUME Inv, RecordPath PROVE Inv'
  OBVIOUS
<1>1. /\ todo # <<>> /\ Head(todo) # Wildcard /\ todo' = Tail(todo)
      /\ last' = RecordedLast(Head(todo)) /\ under' = RecordedUnder(Head(todo))
      /\ UNCHANGED <<wildcardVersion, watermark, logVersion, published>>
  BY DEF RecordPath
<1>2. /\ last' \in [Paths -> Nat] /\ under' \in [Paths -> Nat]
      /\ \A v \in Versions, p \in Paths : Recorded(v, p)' => Known(last', under', watermark, v, p)
      /\ \A v \in Versions : Recorded(v, Wildcard)' => Recorded(v, Wildcard)
      /\ Honest(last', under')
      /\ PublishedSoFar' /\ todo' \in Seq(Targets)
  BY <1>1, OneMore
<1>3. Typed'  BY <1>1, <1>2 DEF Inv, Typed
<1>4. Covered'  BY <1>1, <1>2 DEF Inv, Covered, Known
<1>5. Truthful'  BY <1>1, <1>2 DEF Inv, Truthful, Honest
<1> QED  BY <1>2, <1>3, <1>4, <1>5 DEF Inv

(* What an eviction drops, the new watermark covers. *)
LEMMA EvictingInv == Inv /\ RecordPathEvicting => Inv'
<1> SUFFICES ASSUME Inv, RecordPathEvicting PROVE Inv'
  OBVIOUS
<1> USE PathsAssumption, LogAssumption
<1> DEFINE l == RecordedLast(Head(todo))
           u == RecordedUnder(Head(todo))
<1>1. /\ todo # <<>> /\ Head(todo) # Wildcard /\ todo' = Tail(todo)
      /\ UNCHANGED <<wildcardVersion, logVersion, published>>
  BY DEF RecordPathEvicting
<1>2. PICK gone \in SUBSET EntriesOf(l, u), cutoff \in 1..logVersion :
         /\ Oldest(l, u, gone, cutoff)
         /\ Evict(l, u, RecordedRecent(Head(todo)), gone, cutoff)
  BY DEF RecordPathEvicting
<1> HIDE DEF l, u
<1>3. /\ l \in [Paths -> Nat] /\ u \in [Paths -> Nat]
      /\ \A v \in Versions, p \in Paths : Recorded(v, p)' => Known(l, u, watermark, v, p)
      /\ \A v \in Versions : Recorded(v, Wildcard)' => Recorded(v, Wildcard)
      /\ Honest(l, u)
      /\ PublishedSoFar' /\ todo' \in Seq(Targets)
  BY <1>1, OneMore DEF l, u
<1>4. cutoff \in Nat /\ watermark \in Nat
  BY DEF Inv, Typed, Versions
<1>5. watermark' \in Nat /\ watermark' >= watermark /\ watermark' >= cutoff
  BY <1>2, <1>4 DEF Evict, Higher
<1>6. /\ last' = [p \in Paths |-> IF <<"last", p>> \in gone THEN 0 ELSE l[p]]
      /\ under' = [p \in Paths |-> IF <<"under", p>> \in gone THEN 0 ELSE u[p]]
  BY <1>2 DEF Evict
<1>7. \A e \in gone : VersionOf(l, u, e) <= cutoff
  BY <1>2 DEF Oldest, IsOldest
<1>8. \A p \in Paths : /\ <<"last", p>> \in gone => l[p] <= cutoff
                       /\ <<"under", p>> \in gone => u[p] <= cutoff
  BY <1>7 DEF VersionOf
<1>9. \A p \in Paths : /\ last'[p] = l[p] \/ (last'[p] = 0 /\ l[p] <= cutoff)
                       /\ under'[p] = u[p] \/ (under'[p] = 0 /\ u[p] <= cutoff)
  BY <1>6, <1>8
<1>10. Typed'  BY <1>1, <1>3, <1>5, <1>6 DEF Inv, Typed
<1>11. ASSUME NEW v \in Versions, NEW p \in Paths, Recorded(v, p)'
       PROVE  Known(last', under', watermark', v, p)
  <2>1. Known(l, u, watermark, v, p) /\ v \in Nat /\ Above[p] \subseteq Paths
    BY <1>3, <1>11 DEF Versions
  <2>2. last'[p] >= v \/ watermark' >= v
    BY <2>1, <1>3, <1>4, <1>5, <1>9 DEF Known
  <2>3. \A q \in Above[p] : under'[q] >= v \/ watermark' >= v
    BY <2>1, <1>3, <1>4, <1>5, <1>9 DEF Known
  <2> QED  BY <2>2, <2>3 DEF Known
<1>12. Covered'
  BY <1>1, <1>3, <1>11 DEF Inv, Covered, Known
<1>13. Honest(last', under')
  <2>1. ASSUME NEW p \in Paths, last'[p] > 0 PROVE last'[p] = l[p]
    BY <1>9, <2>1
  <2>2. ASSUME NEW q \in Paths, under'[q] > 0 PROVE under'[q] = u[q]
    BY <1>9, <2>2
  <2>3. \A p \in Paths : last'[p] > 0 => last'[p] \in Versions /\ p \in published[last'[p]]
    BY <1>3, <2>1 DEF Honest
  <2>4. \A q \in Paths : under'[q] > 0 =>
          under'[q] \in Versions /\ \E p \in Paths : q \in Above[p] /\ p \in published[under'[q]]
    BY <1>3, <2>2 DEF Honest
  <2> QED  BY <2>3, <2>4 DEF Honest
<1>14. Truthful'
  BY <1>1, <1>13 DEF Inv, Truthful, Honest
<1> QED  BY <1>3, <1>10, <1>12, <1>14 DEF Inv

(* Inv is inductive. *)
LEMMA NextInv == Inv /\ [LogNext(Seq(Targets))]_logVars => Inv'
<1> SUFFICES ASSUME Inv, [LogNext(Seq(Targets))]_logVars PROVE Inv'
  OBVIOUS
<1>1. CASE \E W \in Seq(Targets) : BeginRecord(W)  BY <1>1, BeginInv
<1>2. CASE RecordWildcard  BY <1>2, WildcardInv
<1>3. CASE RecordPath  BY <1>3, PathInv
<1>4. CASE RecordPathEvicting  BY <1>4, EvictingInv
<1>5. CASE Track \/ Untrack \/ UNCHANGED logVars
  <2>1. UNCHANGED <<last, under, wildcardVersion, watermark, logVersion, todo, published>>
    BY <1>5 DEF Track, Untrack, logVars
  <2> QED
    BY <2>1 DEF Inv, Typed, PublishedSoFar, Covered, Truthful, Honest, Known, Recorded, Pending
<1> QED  BY <1>1, <1>2, <1>3, <1>4, <1>5 DEF LogNext

(* Inv answers for every baseline: what was published since is found. *)
LEMMA InvNeverDenies == Inv => NeverDenies
<1> SUFFICES ASSUME Inv, todo = <<>>, NEW b \in 0..logVersion, NEW R \in SUBSET Paths,
                    ~Matches(b, R), PathsIntersect(R, PublishedSince(b))
             PROVE  FALSE
  BY DEF NeverDenies
<1> USE PathsAssumption, LogAssumption
<1>1. /\ b \in Nat /\ watermark \in Nat /\ watermark <= b
      /\ wildcardVersion \in Nat /\ wildcardVersion <= b
  BY DEF Matches, Inv, Typed, Versions
<1>2. \A v \in Versions, t \in Targets : t \in published[v] => Recorded(v, t)
  BY DEF Recorded, Pending
<1>3. Wildcard \notin PublishedSince(b)
  <2> SUFFICES ASSUME NEW v \in Versions, v > b, Wildcard \in published[v] PROVE FALSE
    BY DEF PublishedSince
  <2>1. wildcardVersion >= v  BY <1>2 DEF Inv, Covered, Targets
  <2> QED  BY <2>1, <1>1 DEF Versions
<1>4. PICK r \in R, w \in PublishedSince(b) : Touches(r, w)
  BY <1>3 DEF PathsIntersect
<1>5. PICK v \in Versions : v > b /\ w \in published[v]
  BY DEF PublishedSince
<1>6. w \in Paths /\ r \in Paths /\ v \in Nat
  BY <1>3, <1>5 DEF Inv, Typed, Targets, Versions
<1>7. Known(last, under, watermark, v, w)
  BY <1>2, <1>5, <1>6 DEF Inv, Covered, Targets
<1>8. /\ last[w] \in Nat /\ last[w] > b
      /\ \A q \in Above[w] : under[q] \in Nat /\ under[q] > b
  BY <1>1, <1>5, <1>6, <1>7 DEF Known, Inv, Typed
<1> QED
  BY <1>4, <1>8 DEF Touches, Matches

(* And what is found above the watermark was published. *)
LEMMA InvInventsNothing == Inv => InventsNothing
<1> SUFFICES ASSUME Inv, todo = <<>>, NEW b \in watermark..logVersion, NEW R \in SUBSET Paths,
                    Matches(b, R)
             PROVE  PathsIntersect(R, PublishedSince(b))
  BY DEF InventsNothing
<1> USE PathsAssumption, LogAssumption
<1>1. b \in Nat /\ ~(b < watermark) /\ Wildcard \notin R
  BY DEF Inv, Typed, Versions
<1>2. \A v \in Versions : \A t \in published[v] : v > b => t \in PublishedSince(b)
  BY DEF PublishedSince
<1>3. CASE wildcardVersion > b
  BY <1>1, <1>2, <1>3 DEF Inv, Typed, Truthful, PathsIntersect
<1>4. ASSUME NEW r \in R, last[r] > b PROVE PathsIntersect(R, PublishedSince(b))
  <2>0. r \in Paths /\ last[r] > 0  BY <1>1, <1>4 DEF Inv, Typed
  <2>1. r \in PublishedSince(b)
    BY <2>0, <1>2, <1>4 DEF Inv, Truthful, Honest
  <2> QED  BY <2>1 DEF PathsIntersect, Touches
<1>5. ASSUME NEW r \in R, under[r] > b PROVE PathsIntersect(R, PublishedSince(b))
  <2>1. PICK p \in Paths : r \in Above[p] /\ p \in PublishedSince(b)
    BY <1>1, <1>2, <1>5 DEF Inv, Typed, Truthful, Honest
  <2> QED  BY <2>1 DEF PathsIntersect, Touches
<1>6. ASSUME NEW r \in R, NEW a \in Above[r], last[a] > b PROVE PathsIntersect(R, PublishedSince(b))
  <2>1. a \in PublishedSince(b)
    BY <1>1, <1>2, <1>6 DEF Inv, Typed, Truthful, Honest
  <2> QED  BY <2>1 DEF PathsIntersect, Touches
<1> QED  BY <1>1, <1>3, <1>4, <1>5, <1>6 DEF Matches

LEMMA AlwaysInv == LogSpec => []Inv
  BY InitInv, NextInv, PTL DEF LogSpec, Targets

(***************************************************************************)
(* The log never denies a write: a read set that matches() clears was      *)
(* touched by no publication since the baseline, whatever was evicted.     *)
(***************************************************************************)
THEOREM DeniesNothing == LogSpec => []NeverDenies
  BY AlwaysInv, InvNeverDenies, PTL

(***************************************************************************)
(* At or above the watermark matches() is true only if a publication since *)
(* the baseline touched the read set.                                      *)
(***************************************************************************)
THEOREM NothingInvented == LogSpec => []InventsNothing
  BY AlwaysInv, InvInventsNothing, PTL

-----------------------------------------------------------------------------
(***************************************************************************)
(* The recent paths.  A list of them is in the order of their versions,    *)
(* and says only what was published.  Above the watermark and the version  *)
(* since which they are kept, it has each recorded path at its version or  *)
(* later.                                                                  *)
(***************************************************************************)
Ordered(list) ==
  /\ list \in Seq([path : Paths, version : Nat])
  /\ \A i, j \in DOMAIN list : i <= j => list[i].version <= list[j].version

Sincere(list) ==
  \A i \in DOMAIN list : list[i].version \in Versions /\ list[i].path \in published[list[i].version]

Has(list, p, v) == \E i \in DOMAIN list : list[i].path = p /\ list[i].version >= v

RecentKept ==
  /\ trackedSince \in Nat
  /\ Ordered(recent)
  /\ Sincere(recent)
  /\ \A i \in DOMAIN recent : recent[i].version <= logVersion
  /\ \A v \in Versions, p \in Paths :
       Recorded(v, p) /\ v > trackedSince /\ v > watermark => Has(recent, p, v)

RInv == Inv /\ RecentKept

(* The entries of a list are paths with versions. *)
LEMMA ElementType ==
  ASSUME NEW list, Ordered(list)
  PROVE  \A i \in DOMAIN list : list[i].path \in Paths /\ list[i].version \in Nat
<1>1. \A i \in DOMAIN list : list[i] \in [path : Paths, version : Nat]
  BY LenProperties, ElementOfSeq DEF Ordered
<1>. QED  BY <1>1

(* A list without one place has the other entries, in their order. *)
LEMMA WithoutLemma ==
  ASSUME NEW S, NEW list \in Seq(S), NEW k \in DOMAIN list
  PROVE  /\ WithoutPlace(list, k) \in Seq(S)
         /\ Len(WithoutPlace(list, k)) = Len(list) - 1
         /\ \A i \in 1..(Len(list) - 1) : WithoutPlace(list, k)[i] = list[IF i < k THEN i ELSE i + 1]
<1>. DEFINE n == Len(list)
            a == SubSeq(list, 1, k - 1)
            b == SubSeq(list, k + 1, n)
<1>1. n \in Nat /\ k \in 1..n /\ \A i \in 1..n : list[i] \in S
  BY LenProperties, ElementOfSeq
<1>2. a \in Seq(S) /\ Len(a) = k - 1 /\ \A i \in 1..(k - 1) : a[i] = list[i]
  <2>1. 1 \in Int /\ k - 1 \in Int /\ \A i \in 1..(k - 1) : list[i] \in S
    BY <1>1
  <2>2. /\ SubSeq(list, 1, k - 1) \in Seq(S)
        /\ Len(SubSeq(list, 1, k - 1)) = IF 1 <= k - 1 THEN k - 1 - 1 + 1 ELSE 0
        /\ \A i \in 1..(k - 1 - 1 + 1) : SubSeq(list, 1, k - 1)[i] = list[1 + i - 1]
    BY <2>1, SubSeqProperties
  <2>. QED  BY <1>1, <2>2
<1>3. b \in Seq(S) /\ Len(b) = n - k /\ \A i \in 1..(n - k) : b[i] = list[k + i]
  <2>1. k + 1 \in Int /\ n \in Int /\ \A i \in (k + 1)..n : list[i] \in S
    BY <1>1
  <2>2. /\ SubSeq(list, k + 1, n) \in Seq(S)
        /\ Len(SubSeq(list, k + 1, n)) = IF k + 1 <= n THEN n - (k + 1) + 1 ELSE 0
        /\ \A i \in 1..(n - (k + 1) + 1) : SubSeq(list, k + 1, n)[i] = list[k + 1 + i - 1]
    BY <2>1, SubSeqProperties
  <2>. QED  BY <1>1, <2>2
<1>. HIDE DEF n, a, b
<1>4. /\ a \o b \in Seq(S) /\ Len(a \o b) = Len(a) + Len(b)
      /\ \A i \in 1..(Len(a) + Len(b)) : (a \o b)[i] = IF i <= Len(a) THEN a[i] ELSE b[i - Len(a)]
  BY <1>2, <1>3, ConcatProperties
<1>5. \A i \in 1..(n - 1) : (a \o b)[i] = list[IF i < k THEN i ELSE i + 1]
  <2>. TAKE i \in 1..(n - 1)
  <2>1. CASE i < k
    BY <1>1, <1>2, <1>3, <1>4, <2>1
  <2>2. CASE ~(i < k)
    <3>1. i - Len(a) \in 1..(n - k) /\ k + (i - Len(a)) = i + 1 /\ i \in 1..(Len(a) + Len(b)) /\ ~(i <= Len(a))
      BY <1>1, <1>2, <1>3, <2>2
    <3>. QED  BY <1>3, <1>4, <2>2, <3>1
  <2>. QED  BY <2>1, <2>2
<1>6. WithoutPlace(list, k) = a \o b /\ n = Len(list)
  BY DEF WithoutPlace, n, a, b
<1>7. Len(a) + Len(b) = n - 1
  BY <1>1, <1>2, <1>3
<1>. QED  BY <1>4, <1>5, <1>6, <1>7

(* What moves to the end keeps the list in order, and the list has it. *)
LEMMA MovedLemma ==
  ASSUME NEW list, Ordered(list), NEW p \in Paths, NEW w \in Nat,
         \A i \in DOMAIN list : list[i].version <= w
  PROVE  /\ Ordered(Moved(list, p, w))
         /\ \A i \in DOMAIN Moved(list, p, w) :
              \/ Moved(list, p, w)[i] = [path |-> p, version |-> w]
              \/ \E j \in DOMAIN list : Moved(list, p, w)[i] = list[j]
         /\ Has(Moved(list, p, w), p, w)
         /\ \A q \in Paths, v \in Nat : q # p /\ Has(list, q, v) => Has(Moved(list, p, w), q, v)
<1>. DEFINE Entry == [path : Paths, version : Nat]
            e == [path |-> p, version |-> w]
<1>1. list \in Seq(Entry) /\ e \in Entry
  BY DEF Ordered
<1>2. PICK rest \in Seq(Entry) :
        /\ Moved(list, p, w) = Append(rest, e)
        /\ \/ rest = list
           \/ \E k \in DOMAIN list : /\ list[k].path = p
                                     /\ Len(rest) = Len(list) - 1
                                     /\ \A i \in 1..(Len(list) - 1) : rest[i] = list[IF i < k THEN i ELSE i + 1]
  <2>1. CASE PlacesOf(list, p) = {}
    BY <1>1, <2>1 DEF Moved
  <2>2. CASE PlacesOf(list, p) # {}
    <3>1. PICK k \in PlacesOf(list, p) : Moved(list, p, w) = Append(WithoutPlace(list, k), e)
      BY <2>2 DEF Moved
    <3>2. k \in DOMAIN list /\ list[k].path = p
      BY DEF PlacesOf
    <3>. QED  BY <1>1, <3>1, <3>2, WithoutLemma
  <2>. QED  BY <2>1, <2>2
<1>3. /\ Len(list) \in Nat /\ DOMAIN list = 1..Len(list)
      /\ Len(rest) \in Nat /\ DOMAIN rest = 1..Len(rest)
      /\ \A i, j \in DOMAIN list : i <= j => list[i].version <= list[j].version
  BY <1>1, LenProperties DEF Ordered
\* Where each entry of the rest comes from, in order.
<1>. DEFINE From(i, k) == IF i < k THEN i ELSE i + 1
            Origin(k) == \A i \in DOMAIN rest : From(i, k) \in DOMAIN list /\ rest[i] = list[From(i, k)]
<1>4. \E k \in Nat : Origin(k)
  <2>1. CASE rest = list
    <3>1. Len(list) + 1 \in Nat /\ \A i \in DOMAIN rest : From(i, Len(list) + 1) = i
      BY <1>3, <2>1
    <3>2. Origin(Len(list) + 1)
      BY <2>1, <3>1
    <3>. QED  BY <3>1, <3>2
  <2>2. ASSUME NEW k \in DOMAIN list, Len(rest) = Len(list) - 1,
               \A i \in 1..(Len(list) - 1) : rest[i] = list[IF i < k THEN i ELSE i + 1]
        PROVE  k \in Nat /\ Origin(k)
    <3>1. k \in Nat /\ DOMAIN rest = 1..(Len(list) - 1)
      BY <1>3, <2>2
    <3>2. \A i \in 1..(Len(list) - 1) : From(i, k) \in 1..Len(list)
      BY <1>3
    <3>. QED  BY <1>3, <2>2, <3>1, <3>2
  <2>. QED  BY <1>2, <2>1, <2>2
<1>5. PICK k \in Nat : Origin(k)
  BY <1>4
<1>6. \A i \in DOMAIN rest : \E j \in DOMAIN list : rest[i] = list[j] /\ rest[i].version <= w
  BY <1>5
<1>7. ASSUME NEW i \in DOMAIN rest, NEW j \in DOMAIN rest, i <= j
      PROVE  rest[i].version <= rest[j].version
  <2>. DEFINE x == From(i, k)
              y == From(j, k)
  <2>1. x <= y
    BY <1>3, <1>7
  <2>2. x \in DOMAIN list /\ y \in DOMAIN list /\ rest[i] = list[x] /\ rest[j] = list[y]
    BY <1>5
  <2>. HIDE DEF x, y
  <2>. QED  BY <1>3, <2>1, <2>2
<1>8. \A q \in Paths, v \in Nat : q # p /\ Has(list, q, v) => Has(rest, q, v)
  <2>. TAKE q \in Paths, v \in Nat
  <2>. HAVE q # p /\ Has(list, q, v)
  <2>1. PICK j \in DOMAIN list : list[j].path = q /\ list[j].version >= v
    BY DEF Has
  <2>2. CASE rest = list
    BY <2>1, <2>2 DEF Has
  <2>3. ASSUME NEW l \in DOMAIN list, list[l].path = p, Len(rest) = Len(list) - 1,
               \A i \in 1..(Len(list) - 1) : rest[i] = list[IF i < l THEN i ELSE i + 1]
        PROVE  Has(rest, q, v)
    <3>1. j # l
      BY <2>1, <2>3
    <3>2. CASE j < l
      <4>1. j \in 1..(Len(list) - 1) /\ j \in DOMAIN rest
        BY <1>3, <2>3, <3>2
      <4>2. rest[j] = list[j]
        BY <2>3, <3>2, <4>1
      <4>. QED  BY <2>1, <4>1, <4>2 DEF Has
    <3>3. CASE j > l
      <4>1. j - 1 \in 1..(Len(list) - 1) /\ j - 1 \in DOMAIN rest /\ ~(j - 1 < l) /\ j - 1 + 1 = j
        BY <1>3, <2>3, <3>3
      <4>2. rest[j - 1] = list[j]
        BY <2>3, <4>1
      <4>. QED  BY <2>1, <4>1, <4>2 DEF Has
    <3>. QED  BY <1>3, <3>1, <3>2, <3>3
  <2>. QED  BY <1>2, <2>2, <2>3
<1>. DEFINE m == Append(rest, e)
<1>9. /\ m \in Seq(Entry) /\ Len(m) = Len(rest) + 1 /\ m[Len(m)] = e /\ Len(m) \in DOMAIN m
      /\ \A i \in DOMAIN rest : i \in DOMAIN m /\ m[i] = rest[i]
      /\ \A i \in DOMAIN m : i = Len(m) \/ i \in DOMAIN rest
  BY <1>1
<1>. HIDE DEF m
<1>10. Ordered(m)
  <2>. SUFFICES ASSUME NEW i \in DOMAIN m, NEW j \in DOMAIN m, i <= j
                PROVE  m[i].version <= m[j].version
    BY <1>9 DEF Ordered
  <2>1. CASE j = Len(m)
    BY <1>6, <1>9, <2>1
  <2>2. CASE j # Len(m)
    BY <1>7, <1>9, <2>2
  <2>. QED  BY <2>1, <2>2
<1>11. \A i \in DOMAIN m : m[i] = e \/ \E j \in DOMAIN list : m[i] = list[j]
  BY <1>6, <1>9
<1>12. Has(m, p, w)
  BY <1>9 DEF Has
<1>13. \A q \in Paths, v \in Nat : Has(rest, q, v) => Has(m, q, v)
  BY <1>9 DEF Has
<1>. QED  BY <1>2, <1>8, <1>10, <1>11, <1>12, <1>13 DEF m

(* A downward closed set of indices is an interval from 1. *)
LEMMA PrefixLemma ==
  ASSUME NEW n \in Nat, NEW D \in SUBSET (1..n),
         \A i \in D : \A j \in 1..i : j \in D
  PROVE  Cardinality(D) \in 0..n /\ D = 1..Cardinality(D)
<1>. DEFINE m == Cardinality(D)
<1>1. IsFiniteSet(1..n) /\ Cardinality(1..n) = n
  BY FS_Interval
<1>2. IsFiniteSet(D) /\ m <= n /\ m \in Nat
  BY <1>1, FS_Subset, FS_CardinalityType
<1>. HIDE DEF m
<1>3. D \subseteq 1..m
  <2>. SUFFICES ASSUME NEW i \in D, i > m PROVE FALSE
    BY <1>2
  <2>1. 1..i \in SUBSET D /\ i \in Int /\ i > 0
    OBVIOUS
  <2>2. Cardinality(1..i) = IF 1 > i THEN 0 ELSE i - 1 + 1
    BY <2>1, FS_Interval
  <2>3. Cardinality(1..i) <= m
    BY <1>2, <2>1, FS_Subset DEF m
  <2>. QED  BY <1>2, <2>1, <2>2, <2>3
<1>4. Cardinality(1..m) = m /\ IsFiniteSet(1..m)
  BY <1>2, FS_Interval
<1>5. 1..m = D
  BY <1>3, <1>4, FS_Subset DEF m
<1>. QED  BY <1>2, <1>5 DEF m

(* What is pruned is not above the boundary, and the rest stays in order. *)
LEMMA PrunedLemma ==
  ASSUME NEW list, Ordered(list), NEW b \in Nat
  PROVE  /\ Ordered(Pruned(list, b))
         /\ \A i \in DOMAIN Pruned(list, b) : \E j \in DOMAIN list : Pruned(list, b)[i] = list[j]
         /\ \A q \in Paths, v \in Nat : v > b /\ Has(list, q, v) => Has(Pruned(list, b), q, v)
<1>. DEFINE Entry == [path : Paths, version : Nat]
            D == {i \in DOMAIN list : \A j \in 1..i : list[j].version <= b}
            m == Cardinality(D)
            r == SubSeq(list, m + 1, Len(list))
<1>1. list \in Seq(Entry) /\ Len(list) \in Nat /\ DOMAIN list = 1..Len(list)
  BY DEF Ordered
<1>2. m \in 0..Len(list) /\ D = 1..m
  <2>1. D \in SUBSET (1..Len(list)) /\ \A i \in D : \A j \in 1..i : j \in D
    BY <1>1
  <2>. HIDE DEF D
  <2>. QED  BY <1>1, <2>1, PrefixLemma
<1>3. \A i \in 1..m : list[i].version <= b
  BY <1>2
<1>4. Pruned(list, b) = r
  BY DEF Pruned
<1>. HIDE DEF D, m, r
<1>5. r \in Seq(Entry) /\ Len(r) = Len(list) - m /\ \A i \in 1..Len(r) : r[i] = list[m + i]
  <2>1. m + 1 \in Int /\ Len(list) \in Int /\ \A i \in (m + 1)..Len(list) : list[i] \in Entry
    <3>1. m \in Nat /\ \A i \in (m + 1)..Len(list) : i \in 1..Len(list)
      BY <1>1, <1>2
    <3>2. \A i \in 1..Len(list) : list[i] \in Entry
      BY <1>1, ElementOfSeq
    <3>. QED  BY <1>1, <3>1, <3>2
  <2>2. /\ SubSeq(list, m + 1, Len(list)) \in Seq(Entry)
        /\ Len(SubSeq(list, m + 1, Len(list))) = IF m + 1 <= Len(list) THEN Len(list) - (m + 1) + 1 ELSE 0
        /\ \A i \in 1..(Len(list) - (m + 1) + 1) : SubSeq(list, m + 1, Len(list))[i] = list[m + 1 + i - 1]
    <3>. HIDE DEF Entry
    <3>. QED  BY <2>1, SubSeqProperties
  <2>3. Len(r) = IF m + 1 <= Len(list) THEN Len(list) - (m + 1) + 1 ELSE 0
    BY <2>2 DEF r
  <2>4. m \in Nat /\ m <= Len(list) /\ Len(list) \in Nat
    BY <1>1, <1>2
  <2>5. Len(r) = Len(list) - m
    BY <2>3, <2>4
  <2>6. \A i \in 1..Len(r) : i \in 1..(Len(list) - (m + 1) + 1) /\ m + 1 + i - 1 = m + i
    BY <2>4, <2>5
  <2>. QED  BY <2>2, <2>5, <2>6 DEF r
<1>6. \A i \in DOMAIN r : m + i \in DOMAIN list /\ r[i] = list[m + i]
  <2>1. DOMAIN r = 1..Len(r) /\ m \in Nat
    BY <1>2, <1>5, LenProperties
  <2>2. \A i \in 1..Len(r) : m + i \in 1..Len(list)
    BY <1>1, <1>2, <1>5, <2>1
  <2>. QED  BY <1>1, <1>5, <2>1, <2>2
<1>7. Ordered(r)
  <2>. SUFFICES ASSUME NEW i \in DOMAIN r, NEW j \in DOMAIN r, i <= j
                PROVE  r[i].version <= r[j].version
    BY <1>5 DEF Ordered
  <2>1. m + i <= m + j
    BY <1>2, <1>5
  <2>. QED  BY <1>6, <2>1 DEF Ordered
<1>8. ASSUME NEW q \in Paths, NEW v \in Nat, v > b, Has(list, q, v)
      PROVE  Has(r, q, v)
  <2>1. PICK i \in DOMAIN list : list[i].path = q /\ list[i].version >= v /\ list[i].version \in Nat
    <3>1. \A i \in DOMAIN list : list[i] \in Entry
      BY <1>1, ElementOfSeq
    <3>. QED  BY <1>8, <3>1 DEF Has
  <2>2. i \notin 1..m
    BY <1>3, <1>8, <2>1
  <2>3. i \in Nat /\ m \in Nat /\ m < i /\ i <= Len(list) /\ Len(list) \in Nat
    BY <1>1, <1>2, <2>2
  <2>4. i - m \in 1..Len(r) /\ m + (i - m) = i
    BY <1>5, <2>3
  <2>5. DOMAIN r = 1..Len(r)
    BY <1>5, LenProperties
  <2>6. i - m \in DOMAIN r /\ r[i - m] = list[i]
    BY <1>6, <2>4, <2>5
  <2>. QED  BY <2>1, <2>6 DEF Has
<1>. QED  BY <1>4, <1>6, <1>7, <1>8

(* The recent paths with one more are those of what is recorded then. *)
LEMMA RecordedRecentLemma ==
  ASSUME RInv, todo # <<>>, Head(todo) # Wildcard, todo' = Tail(todo),
         UNCHANGED <<logVersion, published, trackedSince>>,
         NEW r, r = RecordedRecent(Head(todo))
  PROVE  /\ Ordered(r) /\ Sincere(r) /\ \A i \in DOMAIN r : r[i].version <= logVersion
         /\ \A v \in Versions, p \in Paths :
              Recorded(v, p)' /\ v > trackedSince /\ v > watermark => Has(r, p, v)
<1>. USE PathsAssumption, LogAssumption
<1>. DEFINE h == Head(todo)
<1>1. /\ todo \in Seq(Targets) /\ logVersion \in Versions /\ logVersion \in Nat
      /\ h = todo[1] /\ 1 \in DOMAIN todo
  BY DEF RInv, Inv, Typed, Versions
<1>2. h \in Paths /\ h \in published[logVersion]
  BY <1>1 DEF RInv, Inv, PublishedSoFar, Targets
<1>3. /\ Ordered(recent) /\ Sincere(recent) /\ trackedSince \in Nat
      /\ \A i \in DOMAIN recent : recent[i].version <= logVersion
      /\ \A v \in Versions, p \in Paths :
           Recorded(v, p) /\ v > trackedSince /\ v > watermark => Has(recent, p, v)
  BY DEF RInv, RecentKept
<1>4. \A v \in Versions, p \in Paths : Recorded(v, p)' /\ p # h => Recorded(v, p)
  BY <1>1, PendingStep DEF Recorded, Targets
<1>5. \A v \in Versions, p \in Paths : Recorded(v, p)' => v \in Nat /\ v <= logVersion /\ v < Never
  BY <1>1 DEF Recorded, RInv, Inv, PublishedSoFar, Versions, Never
<1>. HIDE DEF h
<1>6. CASE ~Tracking
  <2>1. r = recent /\ trackedSince = Never
    BY <1>6 DEF RecordedRecent, Tracking
  <2>. QED  BY <1>3, <1>5, <2>1 DEF Never
<1>7. CASE Tracking
  <2>1. r = Moved(recent, h, logVersion)
    BY <1>7 DEF RecordedRecent, h
  <2>2. /\ Ordered(r)
        /\ \A i \in DOMAIN r : \/ r[i] = [path |-> h, version |-> logVersion]
                               \/ \E j \in DOMAIN recent : r[i] = recent[j]
        /\ Has(r, h, logVersion)
        /\ \A q \in Paths, v \in Nat : q # h /\ Has(recent, q, v) => Has(r, q, v)
    BY <1>1, <1>2, <1>3, <2>1, MovedLemma
  <2>3. Sincere(r)
    BY <1>1, <1>2, <1>3, <2>2 DEF Sincere
  <2>4. \A i \in DOMAIN r : r[i].version <= logVersion
    BY <1>1, <1>3, <2>2
  <2>5. \A v \in Nat : v <= logVersion /\ Has(r, h, logVersion) => Has(r, h, v)
    <3>1. \A i \in DOMAIN r : r[i].version \in Nat
      BY <2>2, ElementType
    <3>. QED  BY <1>1, <3>1 DEF Has
  <2>. QED  BY <1>2, <1>3, <1>4, <1>5, <2>2, <2>3, <2>4, <2>5
<1>. QED  BY <1>6, <1>7

(* The recent paths stay exact, whatever the log does. *)
LEMMA NextKept == RInv /\ [LogNext(Seq(Targets))]_logVars => RInv'
<1>. SUFFICES ASSUME RInv, [LogNext(Seq(Targets))]_logVars PROVE RecentKept'
  BY NextInv DEF RInv
<1>. USE PathsAssumption, LogAssumption
<1>1. Inv /\ RecentKept /\ Inv' /\ logVersion \in Nat /\ watermark \in Nat
  BY NextInv DEF RInv, Inv, Typed, Versions
<1>2. ASSUME NEW W \in Seq(Targets), BeginRecord(W) PROVE RecentKept'
  <2>1. /\ todo' = W /\ logVersion' = logVersion + 1 /\ logVersion' \in Versions
        /\ UNCHANGED <<recent, trackedSince, watermark>>
        /\ \A v \in Versions : v # logVersion' => published'[v] = published[v]
        /\ published'[logVersion'] = {W[i] : i \in DOMAIN W}
    BY <1>1, <1>2 DEF BeginRecord, Inv, Typed, Versions
  <2>2. \A v \in Versions, p \in Paths : Recorded(v, p)' => Recorded(v, p)
    <3>. TAKE v \in Versions, p \in Paths
    <3>1. CASE v = logVersion'
      BY <2>1, <3>1 DEF Recorded, Pending
    <3>2. CASE v # logVersion'
      BY <1>2, <2>1, <3>2 DEF Recorded, Pending, BeginRecord
    <3>. QED  BY <3>1, <3>2
  <2>3. Sincere(recent)'
    BY <1>1, <2>1 DEF RecentKept, Sincere, Versions
  <2>4. \A i \in DOMAIN recent : recent[i].version <= logVersion + 1
    BY <1>1, ElementType DEF RecentKept
  <2>. QED  BY <1>1, <2>1, <2>2, <2>3, <2>4 DEF RecentKept, Ordered, Has
<1>3. CASE RecordWildcard
  <2>1. /\ todo \in Seq(Targets) /\ todo # <<>> /\ todo' = Tail(todo) /\ Head(todo) = Wildcard
        /\ UNCHANGED <<recent, trackedSince, watermark, logVersion, published>>
    BY <1>1, <1>3 DEF RecordWildcard, Inv, Typed
  <2>2. \A v \in Versions, p \in Paths : Recorded(v, p)' => Recorded(v, p)
    BY <2>1, PendingStep DEF Recorded
  <2>. QED  BY <1>1, <2>1, <2>2 DEF RecentKept, Ordered, Sincere, Has
<1>4. CASE RecordPath
  <2>1. /\ todo # <<>> /\ Head(todo) # Wildcard /\ todo' = Tail(todo)
        /\ recent' = RecordedRecent(Head(todo))
        /\ UNCHANGED <<trackedSince, watermark, logVersion, published>>
    BY <1>4 DEF RecordPath
  <2>2. /\ Ordered(recent') /\ Sincere(recent') /\ \A i \in DOMAIN recent' : recent'[i].version <= logVersion
        /\ \A v \in Versions, p \in Paths :
             Recorded(v, p)' /\ v > trackedSince /\ v > watermark => Has(recent', p, v)
    BY <2>1, RecordedRecentLemma
  <2>. QED  BY <1>1, <2>1, <2>2 DEF RecentKept, Ordered, Sincere, Has
<1>5. CASE RecordPathEvicting
  <2>. DEFINE r == RecordedRecent(Head(todo))
  <2>1. /\ todo # <<>> /\ Head(todo) # Wildcard /\ todo' = Tail(todo)
        /\ UNCHANGED <<trackedSince, logVersion, published>>
    BY <1>5 DEF RecordPathEvicting
  <2>2. PICK cutoff \in 1..logVersion : watermark' = Higher(watermark, cutoff) /\ recent' = Pruned(r, watermark')
    BY <1>5 DEF RecordPathEvicting, Evict
  <2>3. watermark' \in Nat /\ watermark' >= watermark
    BY <1>1, <2>2 DEF Higher
  <2>4. /\ Ordered(r) /\ Sincere(r) /\ \A i \in DOMAIN r : r[i].version <= logVersion
        /\ \A v \in Versions, p \in Paths :
             Recorded(v, p)' /\ v > trackedSince /\ v > watermark => Has(r, p, v)
    BY <2>1, RecordedRecentLemma
  <2>. HIDE DEF r
  <2>5. /\ Ordered(recent')
        /\ \A i \in DOMAIN recent' : \E j \in DOMAIN r : recent'[i] = r[j]
        /\ \A q \in Paths, v \in Nat : v > watermark' /\ Has(r, q, v) => Has(recent', q, v)
    BY <2>2, <2>3, <2>4, PrunedLemma
  <2>6. Sincere(recent)' /\ \A i \in DOMAIN recent' : recent'[i].version <= logVersion'
    BY <2>1, <2>4, <2>5 DEF Sincere
  <2>7. \A v \in Versions, p \in Paths :
          Recorded(v, p)' /\ v > trackedSince /\ v > watermark' => Has(recent', p, v)
    BY <1>1, <2>3, <2>4, <2>5 DEF Versions
  <2>. QED  BY <1>1, <2>1, <2>5, <2>6, <2>7 DEF RecentKept, Ordered, Has
<1>6. CASE Track
  <2>1. /\ todo = <<>> /\ trackedSince' = logVersion
        /\ UNCHANGED <<recent, watermark, logVersion, todo, published>>
    BY <1>6 DEF Track
  <2>2. \A v \in Versions, p \in Paths : Recorded(v, p)' => ~(v > trackedSince')
    BY <1>1, <2>1 DEF Recorded, Inv, PublishedSoFar, Versions
  <2>. QED  BY <1>1, <2>1, <2>2 DEF RecentKept, Ordered, Sincere, Has
<1>7. CASE Untrack
  <2>1. trackedSince' = Never /\ recent' = <<>>
    BY <1>7 DEF Untrack
  <2>2. Ordered(recent') /\ Sincere(recent)'
    BY <2>1 DEF Ordered, Sincere
  <2>3. trackedSince' \in Nat /\ \A v \in Versions : ~(v > trackedSince')
    BY <2>1 DEF Versions, Never
  <2>4. DOMAIN recent' = {}
    BY <2>1
  <2>. QED  BY <2>1, <2>2, <2>3, <2>4 DEF RecentKept
<1>8. CASE UNCHANGED logVars
  BY <1>1, <1>8 DEF RecentKept, Ordered, Sincere, Has, Recorded, Pending, logVars
<1>. QED  BY <1>2, <1>3, <1>4, <1>5, <1>6, <1>7, <1>8 DEF LogNext

LEMMA InitKept == LogInit => RInv
<1>. SUFFICES ASSUME LogInit PROVE RecentKept
  BY InitInv DEF RInv
<1>1. recent = <<>> /\ trackedSince \in Nat /\ published = [v \in Versions |-> {}]
  BY LogAssumption DEF LogInit, Never
<1>. QED  BY <1>1 DEF RecentKept, Ordered, Sincere, Recorded

(***************************************************************************)
(* Where pathsSince() has an answer, it lists exactly the paths published  *)
(* since the baseline, whatever was evicted and whenever the consumers of  *)
(* the recent paths came and went.                                         *)
(***************************************************************************)
THEOREM SinceExact == LogSpec => []PathsSinceIsExact
<1>1. RInv => PathsSinceIsExact
  <2>. SUFFICES ASSUME RInv, todo = <<>>, NEW b \in 0..logVersion, KnowsPathsSince(b)
                PROVE  Since(recent, b) = PublishedSince(b)
    BY DEF PathsSinceIsExact
  <2>. USE PathsAssumption, LogAssumption
  <2>1. /\ b \in Nat /\ watermark \in Nat /\ trackedSince \in Nat /\ wildcardVersion \in Nat
        /\ b >= watermark /\ b >= trackedSince /\ wildcardVersion <= b
    BY DEF RInv, Inv, Typed, RecentKept, KnowsPathsSince, Versions
  <2>2. \A v \in Versions, t \in Targets : t \in published[v] => Recorded(v, t)
    BY DEF Recorded, Pending
  <2>3. \A i \in DOMAIN recent : /\ recent[i].path \in Paths /\ recent[i].version \in Nat
                                 /\ recent[i].version \in Versions
                                 /\ recent[i].path \in published[recent[i].version]
    BY ElementType DEF RInv, RecentKept, Sincere
  <2>4. \A i \in DOMAIN recent :
          (\A j \in i..Len(recent) : recent[j].version > b) <=> recent[i].version > b
    <3>1. recent \in Seq([path : Paths, version : Nat])
      BY DEF RInv, RecentKept, Ordered
    <3>2. \A i \in DOMAIN recent : i \in i..Len(recent) /\ i..Len(recent) \subseteq DOMAIN recent
      BY <3>1
    <3>3. \A i \in DOMAIN recent : \A j \in i..Len(recent) : recent[i].version <= recent[j].version
      BY <3>1, <3>2 DEF RInv, RecentKept, Ordered
    <3>. QED  BY <2>1, <2>3, <3>2, <3>3
  <2>5. Since(recent, b) = {recent[i].path : i \in {i \in DOMAIN recent : recent[i].version > b}}
    BY <2>4 DEF Since
  <2>6. Since(recent, b) \subseteq PublishedSince(b)
    BY <2>3, <2>5 DEF PublishedSince
  <2>7. ASSUME NEW v \in Versions, v > b, NEW t \in published[v]
        PROVE  t \in Since(recent, b)
    <3>1. t \in Targets /\ v \in Nat
      BY DEF RInv, Inv, Typed, Versions
    <3>2. Recorded(v, t)
      BY <2>2, <3>1
    <3>3. t # Wildcard
      BY <2>1, <2>7, <3>1, <3>2 DEF RInv, Inv, Covered
    <3>4. Has(recent, t, v)
      BY <2>1, <2>7, <3>1, <3>2, <3>3 DEF RInv, RecentKept, Targets
    <3>. QED  BY <2>1, <2>3, <2>5, <2>7, <3>1, <3>4 DEF Has
  <2>. QED  BY <2>6, <2>7 DEF PublishedSince
<1>2. LogSpec => []RInv
  BY InitKept, NextKept, PTL DEF LogSpec, Targets
<1>. QED  BY <1>1, <1>2, PTL

-----------------------------------------------------------------------------
(***************************************************************************)
(* The index.  What the buckets hold if the subscribers read R: every bucket is a      *)
(* function of it, its form included.                                      *)
(***************************************************************************)
ReadSets == [Ids -> SUBSET Paths]

ExactOf(S) ==
  IF S = {} THEN Empty ELSE IF Cardinality(S) = 1 THEN Bare(CHOOSE i \in S : TRUE) ELSE Many(S)

Support(c) == {i \in Ids : c[i] > 0}
LoneOf(i, n) == IF n = 1 THEN Bare(i) ELSE Counted(i, n)
BranchOf(c) ==
  LET S == Support(c)
  IN  IF S = {} THEN Empty
      ELSE IF Cardinality(S) = 1 THEN LoneOf(CHOOSE i \in S : TRUE, c[CHOOSE i \in S : TRUE])
      ELSE Counts([i \in S |-> c[i]])

ReadersAt(R, p) == {i \in Ids : p \in R[i]}
ReadBelow(R, i, p) == {q \in R[i] : p \in Above[q]}
Tally(R, p) == [i \in Ids |-> Cardinality(ReadBelow(R, i, p))]

IndexOf(R) ==
  [exact |-> [p \in Paths |-> ExactOf(ReadersAt(R, p))],
   branch |-> [p \in Paths |-> BranchOf(Tally(R, p))]]

-----------------------------------------------------------------------------
LEMMA SingleLemma ==
  ASSUME NEW i
  PROVE  Cardinality({i}) = 1 /\ (CHOOSE j \in {i} : TRUE) = i
BY FS_Singleton

LEMMA SizeLemma ==
  ASSUME NEW S \in SUBSET Ids
  PROVE  /\ IsFiniteSet(S) /\ Cardinality(S) \in Nat
         /\ S # {} => (Cardinality(S) = 1 /\ \E i \in S : S = {i}) \/ (Cardinality(S) > 1 /\ \E i, j \in S : i # j)
         /\ \A i, j \in S : i # j => Cardinality(S) > 1
<1>1. IsFiniteSet(S) /\ Cardinality(S) \in Nat
  BY IndexAssumption, FS_Subset, FS_CardinalityType
<1>2. (Cardinality(S) = 0 <=> S = {}) /\ (Cardinality(S) = 1 <=> \E i : S = {i})
  BY <1>1, FS_EmptySet, FS_Singleton
<1>. QED  BY <1>1, <1>2

LEMMA ExactOfLemma ==
  ASSUME NEW S \in SUBSET Ids
  PROVE  \/ S = {} /\ ExactOf(S) = Empty
         \/ \E i \in Ids : S = {i} /\ ExactOf(S) = Bare(i)
         \/ Cardinality(S) > 1 /\ (\E i, j \in S : i # j) /\ ExactOf(S) = Many(S)
<1>1. CASE S = {}
  BY <1>1 DEF ExactOf
<1>2. CASE S # {} /\ Cardinality(S) = 1
  <2>1. PICK i \in S : S = {i}
    BY <1>2, SizeLemma
  <2>. QED  BY <1>2, <2>1, SingleLemma DEF ExactOf
<1>3. CASE S # {} /\ Cardinality(S) # 1
  BY <1>3, SizeLemma DEF ExactOf
<1>. QED  BY <1>1, <1>2, <1>3

LEMMA ExactEmpty == ExactOf({}) = Empty
BY DEF ExactOf

LEMMA ExactSingle ==
  ASSUME NEW i
  PROVE  ExactOf({i}) = Bare(i)
BY SingleLemma DEF ExactOf

LEMMA ExactMany ==
  ASSUME NEW S \in SUBSET Ids, NEW i \in S, NEW j \in S, i # j
  PROVE  ExactOf(S) = Many(S)
BY SizeLemma DEF ExactOf

LEMMA RegisterLemma ==
  ASSUME NEW S \in SUBSET Ids, NEW id \in Ids
  PROVE  Register(ExactOf(S), id) = ExactOf(S \cup {id})
<1>1. CASE S = {} /\ ExactOf(S) = Empty
  <2>1. S \cup {id} = {id}
    BY <1>1
  <2>. QED  BY <1>1, <2>1, ExactSingle DEF Register, Empty, Bare
<1>2. ASSUME NEW i \in Ids, S = {i}, ExactOf(S) = Bare(i) PROVE Register(ExactOf(S), id) = ExactOf(S \cup {id})
  <2>1. CASE i = id
    <3>1. S \cup {id} = S
      BY <1>2, <2>1
    <3>. QED  BY <1>2, <2>1, <3>1 DEF Register, Bare
  <2>2. CASE i # id
    <3>1. S \cup {id} = {i, id} /\ {i, id} \in SUBSET Ids
      BY <1>2
    <3>2. ExactOf({i, id}) = Many({i, id})
      BY <2>2, <3>1, ExactMany
    <3>. QED  BY <1>2, <2>2, <3>1, <3>2 DEF Register, Bare
  <2>. QED  BY <2>1, <2>2
<1>3. ASSUME NEW i \in S, NEW j \in S, i # j, ExactOf(S) = Many(S) PROVE Register(ExactOf(S), id) = ExactOf(S \cup {id})
  <2>1. S \cup {id} \in SUBSET Ids
    OBVIOUS
  <2>2. ExactOf(S \cup {id}) = Many(S \cup {id})
    BY <1>3, <2>1, ExactMany
  <2>. QED  BY <1>3, <2>2 DEF Register, Many
<1>. QED  BY <1>1, <1>2, <1>3, ExactOfLemma

LEMMA UnregisterLemma ==
  ASSUME NEW S \in SUBSET Ids, NEW id \in Ids
  PROVE  Unregister(ExactOf(S), id) = ExactOf(S \ {id})
<1>1. CASE S = {} /\ ExactOf(S) = Empty
  <2>1. S \ {id} = S
    BY <1>1
  <2>. QED  BY <1>1, <2>1 DEF Unregister, Empty
<1>2. ASSUME NEW i \in Ids, S = {i}, ExactOf(S) = Bare(i) PROVE Unregister(ExactOf(S), id) = ExactOf(S \ {id})
  <2>1. CASE i = id
    <3>1. S \ {id} = {}
      BY <1>2, <2>1
    <3>. QED  BY <1>2, <2>1, <3>1, ExactEmpty DEF Unregister, Bare
  <2>2. CASE i # id
    <3>1. S \ {id} = S
      BY <1>2, <2>2
    <3>. QED  BY <1>2, <2>2, <3>1 DEF Unregister, Bare
  <2>. QED  BY <2>1, <2>2
<1>3. ASSUME NEW i \in S, NEW j \in S, i # j, ExactOf(S) = Many(S) PROVE Unregister(ExactOf(S), id) = ExactOf(S \ {id})
  <2> DEFINE T == S \ {id}
  <2>1. T \in SUBSET Ids /\ T # {}
    BY <1>3
  <2>2. ExactOf(T) = IF Cardinality(T) = 1 THEN Bare(CHOOSE k \in T : TRUE) ELSE Many(T)
    BY <2>1 DEF ExactOf
  <2>. QED  BY <1>3, <2>2 DEF Unregister, Many
<1>. QED  BY <1>1, <1>2, <1>3, ExactOfLemma

-----------------------------------------------------------------------------
LEMMA BranchEmpty ==
  ASSUME NEW c \in [Ids -> Nat], Support(c) = {}
  PROVE  BranchOf(c) = Empty
BY DEF BranchOf

LEMMA BranchSingle ==
  ASSUME NEW c \in [Ids -> Nat], NEW i \in Ids, Support(c) = {i}
  PROVE  BranchOf(c) = LoneOf(i, c[i])
BY SingleLemma DEF BranchOf

LEMMA BranchMany ==
  ASSUME NEW c \in [Ids -> Nat], NEW i \in Support(c), NEW j \in Support(c), i # j
  PROVE  BranchOf(c) = Counts([k \in Support(c) |-> c[k]])
<1>1. Support(c) \in SUBSET Ids
  BY DEF Support
<1>2. Cardinality(Support(c)) > 1 /\ Cardinality(Support(c)) \in Nat
  BY <1>1, SizeLemma
<1>. QED  BY <1>2 DEF BranchOf

LEMMA BranchOfLemma ==
  ASSUME NEW c \in [Ids -> Nat]
  PROVE  \/ Support(c) = {} /\ BranchOf(c) = Empty
         \/ \E i \in Ids : Support(c) = {i} /\ c[i] > 0 /\ BranchOf(c) = LoneOf(i, c[i])
         \/ \E i, j \in Support(c) : i # j /\ BranchOf(c) = Counts([k \in Support(c) |-> c[k]])
<1>1. Support(c) \in SUBSET Ids /\ \A i \in Support(c) : c[i] > 0
  BY DEF Support
<1>2. CASE Support(c) = {}
  BY <1>2, BranchEmpty
<1>3. CASE \E i \in Support(c) : Support(c) = {i}
  <2>1. PICK i \in Support(c) : Support(c) = {i}
    BY <1>3
  <2>. QED  BY <1>1, <2>1, BranchSingle
<1>4. CASE \E i, j \in Support(c) : i # j
  BY <1>4, BranchMany
<1>. QED  BY <1>2, <1>3, <1>4

LEMMA RegisterBranchLemma ==
  ASSUME NEW c \in [Ids -> Nat], NEW id \in Ids
  PROVE  RegisterBranch(BranchOf(c), id) = BranchOf([c EXCEPT ![id] = @ + 1])
<1> DEFINE d == [c EXCEPT ![id] = @ + 1]
<1>0. /\ d \in [Ids -> Nat] /\ d[id] = c[id] + 1 /\ Support(d) = Support(c) \cup {id}
      /\ \A i \in Ids : i # id => d[i] = c[i]
  BY DEF Support
<1>h. \A i \in Ids : (i \notin Support(c) => c[i] = 0) /\ (i \in Support(c) => c[i] > 0)
  BY DEF Support
<1> HIDE DEF d
<1>1. CASE Support(c) = {} /\ BranchOf(c) = Empty
  <2>1. Support(d) = {id} /\ d[id] = 1
    BY <1>0, <1>1, <1>h
  <2>2. BranchOf(d) = Bare(id)
    BY <1>0, <2>1, BranchSingle DEF LoneOf
  <2>. QED  BY <1>1, <2>2 DEF RegisterBranch, Empty, d
<1>2. ASSUME NEW i \in Ids, Support(c) = {i}, c[i] > 0, BranchOf(c) = LoneOf(i, c[i])
      PROVE  RegisterBranch(BranchOf(c), id) = BranchOf(d)
  <2>1. CASE i = id
    <3>1. Support(d) = {id}
      BY <1>0, <1>2, <2>1
    <3>2. BranchOf(d) = Counted(id, c[id] + 1)
      BY <1>0, <1>2, <2>1, <3>1, BranchSingle DEF LoneOf
    <3>3. RegisterBranch(LoneOf(id, c[id]), id) = Counted(id, c[id] + 1)
      BY DEF RegisterBranch, LoneOf, Bare, Counted
    <3>. QED  BY <1>2, <2>1, <3>2, <3>3
  <2>2. CASE i # id
    <3>1. Support(d) = {i, id} /\ d[i] = c[i] /\ d[id] = 1
      BY <1>0, <1>2, <1>h, <2>2
    <3>2. BranchOf(d) = Counts([k \in {i, id} |-> d[k]])
      BY <1>0, <2>2, <3>1, BranchMany
    <3>3. RegisterBranch(LoneOf(i, c[i]), id) = Counts([k \in {i, id} |-> IF k = id THEN 1 ELSE c[i]])
      <4>1. CASE c[i] = 1
        <5>1. [k \in {i, id} |-> 1] = [k \in {i, id} |-> IF k = id THEN 1 ELSE c[i]]
          BY <4>1
        <5>. QED  BY <2>2, <4>1, <5>1 DEF RegisterBranch, LoneOf, Bare
      <4>2. CASE c[i] # 1
        BY <2>2, <4>2 DEF RegisterBranch, LoneOf, Counted
      <4>. QED  BY <4>1, <4>2
    <3>4. [k \in {i, id} |-> IF k = id THEN 1 ELSE c[i]] = [k \in {i, id} |-> d[k]]
      BY <2>2, <3>1
    <3>. QED  BY <1>2, <3>2, <3>3, <3>4
  <2>. QED  BY <2>1, <2>2
<1>3. ASSUME NEW i \in Support(c), NEW j \in Support(c), i # j, BranchOf(c) = Counts([k \in Support(c) |-> c[k]])
      PROVE  RegisterBranch(BranchOf(c), id) = BranchOf(d)
  <2> DEFINE m == [k \in Support(c) |-> c[k]]
  <2>1. BranchOf(d) = Counts([k \in Support(d) |-> d[k]])
    <3>1. i \in Support(d) /\ j \in Support(d)
      BY <1>0
    <3>. QED  BY <1>0, <1>3, <3>1, BranchMany
  <2>2. RegisterBranch(Counts(m), id)
          = Counts([k \in DOMAIN m \cup {id} |-> (IF k \in DOMAIN m THEN m[k] ELSE 0) + (IF k = id THEN 1 ELSE 0)])
    BY DEF RegisterBranch, Counts
  <2>3. Support(c) \subseteq Ids
    BY DEF Support
  <2>4. ASSUME NEW k \in Support(c) \cup {id}
        PROVE  (IF k \in DOMAIN m THEN m[k] ELSE 0) + (IF k = id THEN 1 ELSE 0) = d[k]
    BY <1>0, <1>h, <2>3
  <2>5. [k \in DOMAIN m \cup {id} |-> (IF k \in DOMAIN m THEN m[k] ELSE 0) + (IF k = id THEN 1 ELSE 0)]
           = [k \in Support(d) |-> d[k]]
    BY <1>0, <2>4
  <2>. QED  BY <1>3, <2>1, <2>2, <2>5
<1>. QED  BY <1>1, <1>2, <1>3, BranchOfLemma DEF d

LEMMA DemoteLemma ==
  ASSUME NEW c \in [Ids -> Nat], Support(c) # {}
  PROVE  Demote([k \in Support(c) |-> c[k]]) = BranchOf(c)
<1> DEFINE m == [k \in Support(c) |-> c[k]]
<1>1. DOMAIN m = Support(c)
  OBVIOUS
<1>2. CASE Cardinality(Support(c)) = 1
  <2> DEFINE i == CHOOSE i \in Support(c) : TRUE
  <2>1. i \in Support(c)
    OBVIOUS
  <2>2. m[i] = c[i]
    BY <2>1
  <2>3. Demote(m) = IF m[i] = 1 THEN Bare(i) ELSE Counted(i, m[i])
    BY <1>1, <1>2 DEF Demote
  <2>4. BranchOf(c) = LoneOf(i, c[i])
    BY <1>2 DEF BranchOf
  <2>. QED  BY <2>2, <2>3, <2>4 DEF LoneOf
<1>3. CASE Cardinality(Support(c)) # 1
  BY <1>1, <1>3 DEF Demote, BranchOf
<1>. QED  BY <1>2, <1>3

LEMMA UnregisterBranchLemma ==
  ASSUME NEW c \in [Ids -> Nat], NEW id \in Ids, c[id] > 0
  PROVE  UnregisterBranch(BranchOf(c), id) = BranchOf([c EXCEPT ![id] = @ - 1])
<1> DEFINE d == [c EXCEPT ![id] = @ - 1]
<1>0. /\ d \in [Ids -> Nat] /\ d[id] = c[id] - 1
      /\ Support(d) = IF c[id] = 1 THEN Support(c) \ {id} ELSE Support(c)
      /\ \A i \in Ids : i # id => d[i] = c[i]
      /\ id \in Support(c)
  BY DEF Support
<1> HIDE DEF d
<1>2. ASSUME NEW i \in Ids, Support(c) = {i}, c[i] > 0, BranchOf(c) = LoneOf(i, c[i])
      PROVE  UnregisterBranch(BranchOf(c), id) = BranchOf(d)
  <2>0. i = id
    BY <1>0, <1>2
  <2>1. CASE c[id] = 1
    <3>1. Support(d) = {}
      BY <1>0, <1>2, <2>0, <2>1
    <3>2. BranchOf(d) = Empty
      BY <1>0, <3>1, BranchEmpty
    <3>. QED  BY <1>2, <2>0, <2>1, <3>2 DEF UnregisterBranch, LoneOf, Bare
  <2>2. CASE c[id] # 1
    <3>1. Support(d) = {id}
      BY <1>0, <1>2, <2>0, <2>2
    <3>2. BranchOf(d) = LoneOf(id, c[id] - 1)
      BY <1>0, <3>1, BranchSingle
    <3>3. c[id] - 1 = 1 <=> c[id] = 2
      OBVIOUS
    <3>. QED  BY <1>2, <2>0, <2>2, <3>2, <3>3 DEF UnregisterBranch, LoneOf, Counted
  <2>. QED  BY <2>1, <2>2
<1>3. ASSUME NEW i \in Support(c), NEW j \in Support(c), i # j, BranchOf(c) = Counts([k \in Support(c) |-> c[k]])
      PROVE  UnregisterBranch(BranchOf(c), id) = BranchOf(d)
  <2> DEFINE m == [k \in Support(c) |-> c[k]]
  <2>0. Support(c) \subseteq Ids /\ DOMAIN m = Support(c) /\ m[id] = c[id]
    BY <1>0 DEF Support
  <2>1. UnregisterBranch(Counts(m), id)
          = IF m[id] > 1 THEN Counts([m EXCEPT ![id] = @ - 1]) ELSE Demote(Restrict(m, DOMAIN m \ {id}))
    BY <1>0, <2>0 DEF UnregisterBranch, Counts
  <2>2. CASE c[id] = 1
    <3>1. Support(d) = Support(c) \ {id} /\ Support(d) # {}
      BY <1>0, <1>3, <2>2
    <3>2. Restrict(m, DOMAIN m \ {id}) = [k \in Support(d) |-> d[k]]
      BY <1>0, <2>0, <3>1 DEF Restrict
    <3>3. Demote([k \in Support(d) |-> d[k]]) = BranchOf(d)
      BY <1>0, <3>1, DemoteLemma
    <3>. QED  BY <1>3, <2>0, <2>1, <2>2, <3>2, <3>3
  <2>3. CASE c[id] # 1
    <3>1. Support(d) = Support(c)
      BY <1>0, <2>3
    <3>2. BranchOf(d) = Counts([k \in Support(d) |-> d[k]])
      BY <1>0, <1>3, <3>1, BranchMany
    <3>3. [m EXCEPT ![id] = @ - 1] = [k \in Support(d) |-> d[k]]
      BY <1>0, <2>0, <3>1
    <3>4. m[id] > 1
      BY <2>0, <2>3
    <3>. QED  BY <1>3, <2>1, <3>2, <3>3, <3>4
  <2>. QED  BY <2>2, <2>3
<1>4. Support(c) # {}
  BY <1>0
<1>. QED  BY <1>2, <1>3, <1>4, BranchOfLemma DEF d

-----------------------------------------------------------------------------
LEMMA TallyType ==
  ASSUME NEW R \in ReadSets, NEW p
  PROVE  /\ Tally(R, p) \in [Ids -> Nat]
         /\ ReadersAt(R, p) \in SUBSET Ids
         /\ \A i \in Ids : IsFiniteSet(ReadBelow(R, i, p)) /\ Cardinality(ReadBelow(R, i, p)) \in 0..Cardinality(Paths)
<1>1. ASSUME NEW i \in Ids
      PROVE  IsFiniteSet(ReadBelow(R, i, p)) /\ Cardinality(ReadBelow(R, i, p)) \in 0..Cardinality(Paths)
  <2>1. ReadBelow(R, i, p) \in SUBSET Paths
    BY DEF ReadBelow, ReadSets
  <2>. QED  BY <2>1, IndexAssumption, FS_Subset, FS_CardinalityType
<1>2. ASSUME NEW i \in Ids PROVE Cardinality(ReadBelow(R, i, p)) \in Nat
  BY <1>1, IndexAssumption, FS_CardinalityType
<1>. QED  BY <1>1, <1>2 DEF Tally, ReadersAt

LEMMA FileLemma ==
  ASSUME NEW R \in ReadSets, NEW id \in Ids, NEW p \in Paths, p \notin R[id]
  PROVE  /\ [R EXCEPT ![id] = @ \cup {p}] \in ReadSets
         /\ File(id, p, IndexOf(R)) = IndexOf([R EXCEPT ![id] = @ \cup {p}])
<1> DEFINE Q == [R EXCEPT ![id] = @ \cup {p}]
<1>1. Q \in ReadSets /\ Q[id] = R[id] \cup {p} /\ \A i \in Ids : i # id => Q[i] = R[i]
  BY DEF ReadSets
<1> HIDE DEF Q
<1>2. ASSUME NEW q \in Paths
      PROVE  ReadersAt(Q, q) = IF q = p THEN ReadersAt(R, q) \cup {id} ELSE ReadersAt(R, q)
  BY <1>1 DEF ReadersAt
<1>3. [IndexOf(R).exact EXCEPT ![p] = Register(@, id)] = IndexOf(Q).exact
  <2>1. Register(ExactOf(ReadersAt(R, p)), id) = ExactOf(ReadersAt(Q, p))
    BY <1>2, TallyType, RegisterLemma
  <2>. QED  BY <1>2, <2>1 DEF IndexOf
<1>4. ASSUME NEW q \in Paths
      PROVE  Tally(Q, q) = IF q \in Above[p] THEN [Tally(R, q) EXCEPT ![id] = @ + 1] ELSE Tally(R, q)
  <2>1. \A i \in Ids : i # id => ReadBelow(Q, i, q) = ReadBelow(R, i, q)
    BY <1>1 DEF ReadBelow
  <2>2. Tally(Q, q) = [i \in Ids |-> IF i = id THEN Cardinality(ReadBelow(Q, id, q)) ELSE Tally(R, q)[i]]
    BY <2>1 DEF Tally
  <2>3. ReadBelow(Q, id, q) = IF q \in Above[p] THEN ReadBelow(R, id, q) \cup {p} ELSE ReadBelow(R, id, q)
    BY <1>1 DEF ReadBelow
  <2>4. CASE q \in Above[p]
    <3>1. p \notin ReadBelow(R, id, q) /\ IsFiniteSet(ReadBelow(R, id, q))
      BY TallyType DEF ReadBelow
    <3>2. Cardinality(ReadBelow(Q, id, q)) = Tally(R, q)[id] + 1
      BY <2>3, <2>4, <3>1, FS_AddElement DEF Tally
    <3>. QED  BY <2>2, <2>4, <3>2, TallyType
  <2>5. CASE q \notin Above[p]
    <3>1. Cardinality(ReadBelow(Q, id, q)) = Tally(R, q)[id]
      BY <2>3, <2>5 DEF Tally
    <3>. QED  BY <2>2, <2>5, <3>1, TallyType
  <2>. QED  BY <2>4, <2>5
<1>5. ASSUME NEW q \in Paths
      PROVE  (IF q \in Above[p] THEN RegisterBranch(IndexOf(R).branch[q], id) ELSE IndexOf(R).branch[q])
               = BranchOf(Tally(Q, q))
  BY <1>4, TallyType, RegisterBranchLemma DEF IndexOf
<1>6. [q \in Paths |-> IF q \in Above[p] THEN RegisterBranch(IndexOf(R).branch[q], id) ELSE IndexOf(R).branch[q]]
        = IndexOf(Q).branch
  BY <1>5 DEF IndexOf
<1>7. IndexOf(Q) = [exact |-> IndexOf(Q).exact, branch |-> IndexOf(Q).branch]
  BY DEF IndexOf
<1>. QED  BY <1>1, <1>3, <1>6, <1>7 DEF File, Q

LEMMA UnfileLemma ==
  ASSUME NEW R \in ReadSets, NEW id \in Ids, NEW p \in Paths, p \in R[id]
  PROVE  /\ [R EXCEPT ![id] = @ \ {p}] \in ReadSets
         /\ Unfile(id, p, IndexOf(R)) = IndexOf([R EXCEPT ![id] = @ \ {p}])
<1> DEFINE Q == [R EXCEPT ![id] = @ \ {p}]
<1>1. Q \in ReadSets /\ Q[id] = R[id] \ {p} /\ \A i \in Ids : i # id => Q[i] = R[i]
  BY DEF ReadSets
<1> HIDE DEF Q
<1>2. ASSUME NEW q \in Paths
      PROVE  ReadersAt(Q, q) = IF q = p THEN ReadersAt(R, q) \ {id} ELSE ReadersAt(R, q)
  BY <1>1 DEF ReadersAt
<1>3. [IndexOf(R).exact EXCEPT ![p] = Unregister(@, id)] = IndexOf(Q).exact
  <2>1. Unregister(ExactOf(ReadersAt(R, p)), id) = ExactOf(ReadersAt(Q, p))
    BY <1>2, TallyType, UnregisterLemma
  <2>. QED  BY <1>2, <2>1 DEF IndexOf
<1>4. ASSUME NEW q \in Paths
      PROVE  /\ q \in Above[p] => Tally(R, q)[id] > 0
             /\ Tally(Q, q) = IF q \in Above[p] THEN [Tally(R, q) EXCEPT ![id] = @ - 1] ELSE Tally(R, q)
  <2>1. \A i \in Ids : i # id => ReadBelow(Q, i, q) = ReadBelow(R, i, q)
    BY <1>1 DEF ReadBelow
  <2>2. Tally(Q, q) = [i \in Ids |-> IF i = id THEN Cardinality(ReadBelow(Q, id, q)) ELSE Tally(R, q)[i]]
    BY <2>1 DEF Tally
  <2>3. ReadBelow(Q, id, q) = IF q \in Above[p] THEN ReadBelow(R, id, q) \ {p} ELSE ReadBelow(R, id, q)
    BY <1>1 DEF ReadBelow
  <2>4. CASE q \in Above[p]
    <3>1. p \in ReadBelow(R, id, q) /\ IsFiniteSet(ReadBelow(R, id, q))
      BY <2>4, TallyType DEF ReadBelow
    <3>2. Cardinality(ReadBelow(Q, id, q)) = Tally(R, q)[id] - 1
      BY <2>3, <2>4, <3>1, FS_RemoveElement DEF Tally
    <3>3. Tally(R, q)[id] # 0 /\ Tally(R, q)[id] \in Nat
      BY <3>1, FS_EmptySet, TallyType DEF Tally
    <3>. QED  BY <2>2, <2>4, <3>2, <3>3, TallyType
  <2>5. CASE q \notin Above[p]
    <3>1. Cardinality(ReadBelow(Q, id, q)) = Tally(R, q)[id]
      BY <2>3, <2>5 DEF Tally
    <3>. QED  BY <2>2, <2>5, <3>1, TallyType
  <2>. QED  BY <2>4, <2>5
<1>5. ASSUME NEW q \in Paths
      PROVE  (IF q \in Above[p] THEN UnregisterBranch(IndexOf(R).branch[q], id) ELSE IndexOf(R).branch[q])
               = BranchOf(Tally(Q, q))
  BY <1>4, TallyType, UnregisterBranchLemma DEF IndexOf
<1>6. [q \in Paths |-> IF q \in Above[p] THEN UnregisterBranch(IndexOf(R).branch[q], id) ELSE IndexOf(R).branch[q]]
        = IndexOf(Q).branch
  BY <1>5 DEF IndexOf
<1>7. IndexOf(Q) = [exact |-> IndexOf(Q).exact, branch |-> IndexOf(Q).branch]
  BY DEF IndexOf
<1>. QED  BY <1>1, <1>3, <1>6, <1>7 DEF Unfile, Q

-----------------------------------------------------------------------------
(***************************************************************************)
(* The folds.  Both solve an equation over the subsets of what is to be    *)
(* filed, one path after the other; the index of the reads so far solves   *)
(* it, and a smallest subset for which another solution differed would     *)
(* leave one without the path that was chosen.                             *)
(***************************************************************************)
Step(adding, id, p, x) == IF adding THEN File(id, p, x) ELSE Unfile(id, p, x)
Moving(adding, R, id, s) == [R EXCEPT ![id] = IF adding THEN @ \cup s ELSE @ \ s]
Chosen(s) == CHOOSE p \in s : TRUE

Solves(f, adding, id, new, x) ==
  f = [s \in SUBSET new |-> IF s = {} THEN x ELSE Step(adding, id, Chosen(s), f[s \ {Chosen(s)}])]

LEMMA SmallestSubset ==
  ASSUME NEW S, IsFiniteSet(S), NEW B, B \subseteq SUBSET S, B # {}
  PROVE  \E s \in B : \A t \in B : ~(t \subseteq s /\ t # s)
<1> DEFINE O == StrictSubsetOrdering(S)
<1>1. IsWellFoundedOn(O, SUBSET S)
  BY FS_StrictSubsetOrderingWellFounded, FS_FiniteSubsetsOfFinite
<1>2. PICK s \in B : \A t \in B : ~(<<t, s>> \in O)
  <2> HIDE DEF O
  <2>. QED  BY <1>1, WFMin
<1>3. ASSUME NEW t \in B, t \subseteq s, t # s PROVE FALSE
  <2>1. <<t, s>> \in O
    BY <1>3 DEF StrictSubsetOrdering
  <2>. QED  BY <1>2, <2>1
<1>. QED  BY <1>3

LEMMA MovingStep ==
  ASSUME NEW R \in ReadSets, NEW id \in Ids, NEW adding \in BOOLEAN, NEW s \in SUBSET Paths, s # {},
         IF adding THEN s \cap R[id] = {} ELSE s \subseteq R[id]
  PROVE  Step(adding, id, Chosen(s), IndexOf(Moving(adding, R, id, s \ {Chosen(s)}))) = IndexOf(Moving(adding, R, id, s))
<1> DEFINE p == Chosen(s)
           M == Moving(adding, R, id, s \ {p})
<1>1. p \in s
  BY DEF Chosen
<1> HIDE DEF p
<1>2. M \in ReadSets /\ DOMAIN R = Ids /\ R[id] \subseteq Paths
  BY DEF Moving, ReadSets
<1>3. CASE adding
  <2>1. M[id] = R[id] \cup (s \ {p}) /\ p \notin M[id]
    BY <1>1, <1>2, <1>3 DEF Moving
  <2>2. [M EXCEPT ![id] = @ \cup {p}] = Moving(adding, R, id, s)
    <3>1. (R[id] \cup (s \ {p})) \cup {p} = R[id] \cup s
      BY <1>1
    <3>2. [M EXCEPT ![id] = @ \cup {p}] = [R EXCEPT ![id] = (R[id] \cup (s \ {p})) \cup {p}]
      BY <1>2, <1>3 DEF Moving, ReadSets
    <3>. QED  BY <1>3, <3>1, <3>2 DEF Moving
  <2>3. File(id, p, IndexOf(M)) = IndexOf(Moving(adding, R, id, s))
    <3> HIDE DEF M
    <3>. QED  BY <1>1, <1>2, <2>1, <2>2, FileLemma
  <2>4. Step(adding, id, p, IndexOf(M)) = File(id, p, IndexOf(M))
    BY <1>3 DEF Step
  <2>. QED  BY <2>3, <2>4 DEF p
<1>4. CASE ~adding
  <2>1. M[id] = R[id] \ (s \ {p}) /\ p \in M[id]
    BY <1>1, <1>2, <1>4 DEF Moving
  <2>2. [M EXCEPT ![id] = @ \ {p}] = Moving(adding, R, id, s)
    <3>1. (R[id] \ (s \ {p})) \ {p} = R[id] \ s
      BY <1>1
    <3>2. [M EXCEPT ![id] = @ \ {p}] = [R EXCEPT ![id] = (R[id] \ (s \ {p})) \ {p}]
      BY <1>2, <1>4 DEF Moving, ReadSets
    <3>. QED  BY <1>4, <3>1, <3>2 DEF Moving
  <2>3. Unfile(id, p, IndexOf(M)) = IndexOf(Moving(adding, R, id, s))
    <3> HIDE DEF M
    <3>. QED  BY <1>1, <1>2, <2>1, <2>2, UnfileLemma
  <2>4. Step(adding, id, p, IndexOf(M)) = Unfile(id, p, IndexOf(M))
    BY <1>4 DEF Step
  <2>. QED  BY <2>3, <2>4 DEF p
<1>. QED  BY <1>3, <1>4

LEMMA FoldLemma ==
  ASSUME NEW R \in ReadSets, NEW id \in Ids, NEW adding \in BOOLEAN, NEW new \in SUBSET Paths,
         IF adding THEN new \cap R[id] = {} ELSE new \subseteq R[id]
  PROVE  (CHOOSE f : Solves(f, adding, id, new, IndexOf(R)))[new] = IndexOf(Moving(adding, R, id, new))
<1> DEFINE g == [s \in SUBSET new |-> IndexOf(Moving(adding, R, id, s))]
           h == [s \in SUBSET new |-> IF s = {} THEN IndexOf(R) ELSE Step(adding, id, Chosen(s), g[s \ {Chosen(s)}])]
           F == CHOOSE f : Solves(f, adding, id, new, IndexOf(R))
<1>0. ASSUME NEW s \in SUBSET new PROVE g[s] = h[s]
  <2>1. CASE s = {}
    <3>1. Moving(adding, R, id, {}) = R
      BY DEF Moving, ReadSets
    <3>. QED  BY <2>1, <3>1
  <2>2. CASE s # {}
    <3>1. s \ {Chosen(s)} \in SUBSET new /\ s \in SUBSET Paths
      OBVIOUS
    <3>2. IF adding THEN s \cap R[id] = {} ELSE s \subseteq R[id]
      OBVIOUS
    <3>3. Step(adding, id, Chosen(s), IndexOf(Moving(adding, R, id, s \ {Chosen(s)}))) = IndexOf(Moving(adding, R, id, s))
      BY <2>2, <3>1, <3>2, MovingStep
    <3>. QED  BY <2>2, <3>1, <3>3
  <2>. QED  BY <2>1, <2>2
<1>1. Solves(g, adding, id, new, IndexOf(R))
  <2>1. g = [s \in SUBSET new |-> g[s]] /\ h = [s \in SUBSET new |-> h[s]]
    OBVIOUS
  <2>2. g = h
    <3> HIDE DEF g, h
    <3>1. [s \in SUBSET new |-> g[s]] = [s \in SUBSET new |-> h[s]]
      BY <1>0
    <3>. QED  BY <2>1, <3>1
  <2>. QED  BY <2>2 DEF Solves
<1>2. Solves(F, adding, id, new, IndexOf(R))
  <2>1. \E f : Solves(f, adding, id, new, IndexOf(R))
    <3> HIDE DEF g
    <3>. QED  BY <1>1
  <2>. QED  BY <2>1, Zenon
<1> HIDE DEF F
<1>3. ASSUME NEW s \in SUBSET new
      PROVE  /\ F[s] = IF s = {} THEN IndexOf(R) ELSE Step(adding, id, Chosen(s), F[s \ {Chosen(s)}])
             /\ g[s] = IF s = {} THEN IndexOf(R) ELSE Step(adding, id, Chosen(s), g[s \ {Chosen(s)}])
  <2> HIDE DEF g
  <2>. QED  BY <1>1, <1>2 DEF Solves
<1> HIDE DEF g, h
<1>4. \A s \in SUBSET new : F[s] = g[s]
  <2> DEFINE Bad == {s \in SUBSET new : F[s] # g[s]}
  <2>1. SUFFICES ASSUME Bad # {} PROVE FALSE
    OBVIOUS
  <2>2. IsFiniteSet(new) /\ Bad \subseteq SUBSET new
    BY IndexAssumption, FS_Subset
  <2>3. PICK s \in Bad : \A t \in Bad : ~(t \subseteq s /\ t # s)
    <3> HIDE DEF Bad
    <3>. QED  BY <2>1, <2>2, SmallestSubset
  <2>4. s # {}
    BY <1>3
  <2> DEFINE t == s \ {Chosen(s)}
  <2>5. Chosen(s) \in s
    BY <2>4 DEF Chosen
  <2>6. t \in SUBSET new /\ t \subseteq s /\ t # s
    BY <2>5
  <2>7. F[t] = g[t]
    BY <2>3, <2>6
  <2>. QED  BY <1>3, <2>4, <2>7
<1>. QED  BY <1>4 DEF F, g

LEMMA FileAllLemma ==
  ASSUME NEW R \in ReadSets, NEW id \in Ids, NEW new \in SUBSET Paths, new \cap R[id] = {}
  PROVE  /\ [R EXCEPT ![id] = @ \cup new] \in ReadSets
         /\ FileAll(id, new, IndexOf(R)) = IndexOf([R EXCEPT ![id] = @ \cup new])
<1>1. FileAll(id, new, IndexOf(R)) = (CHOOSE f : Solves(f, TRUE, id, new, IndexOf(R)))[new]
  BY DEF FileAll, FoldSet, MapThenFoldSet, Solves, Step, Chosen
<1>2. (CHOOSE f : Solves(f, TRUE, id, new, IndexOf(R)))[new] = IndexOf(Moving(TRUE, R, id, new))
  BY FoldLemma
<1>. QED  BY <1>1, <1>2 DEF Moving, ReadSets

LEMMA UnfileAllLemma ==
  ASSUME NEW R \in ReadSets, NEW id \in Ids, NEW old \in SUBSET Paths, old \subseteq R[id]
  PROVE  /\ [R EXCEPT ![id] = @ \ old] \in ReadSets
         /\ UnfileAll(id, old, IndexOf(R)) = IndexOf([R EXCEPT ![id] = @ \ old])
<1>1. UnfileAll(id, old, IndexOf(R)) = (CHOOSE f : Solves(f, FALSE, id, old, IndexOf(R)))[old]
  BY DEF UnfileAll, FoldSet, MapThenFoldSet, Solves, Step, Chosen
<1>2. (CHOOSE f : Solves(f, FALSE, id, old, IndexOf(R)))[old] = IndexOf(Moving(FALSE, R, id, old))
  BY FoldLemma
<1>. QED  BY <1>1, <1>2 DEF Moving, ReadSets

-----------------------------------------------------------------------------
(***************************************************************************)
(* The index is always that of the read sets.                              *)
(***************************************************************************)
FiledFor(reads) == [i \in Ids |-> IF i \in DOMAIN reads THEN reads[i] \ {Wildcard} ELSE {}]

ReadsTyped(reads) == DOMAIN reads \subseteq Ids /\ \A i \in DOMAIN reads : reads[i] \in PathSets

IndexInv ==
  /\ ReadsTyped(readsById)
  /\ Index = IndexOf(FiledFor(readsById))
  /\ wildcard = {i \in Registered : Wildcard \in readsById[i]}

LEMMA FiledType ==
  ASSUME NEW reads, ReadsTyped(reads)
  PROVE  FiledFor(reads) \in ReadSets
BY DEF ReadsTyped, FiledFor, ReadSets, PathSets

LEMMA BecomesLemma ==
  ASSUME NEW x, Becomes(x), x.exact = x.exact
  PROVE  Index' = [exact |-> x.exact, branch |-> x.branch]
BY DEF Becomes, Index

LEMMA IndexFields ==
  ASSUME NEW R
  PROVE  [exact |-> IndexOf(R).exact, branch |-> IndexOf(R).branch] = IndexOf(R)
BY DEF IndexOf

LEMMA IndexInitLemma == IndexInit => IndexInv
<1> SUFFICES ASSUME IndexInit PROVE IndexInv
  OBVIOUS
<1>1. readsById = <<>> /\ DOMAIN readsById = {}
  BY DEF IndexInit
<1> DEFINE R == FiledFor(readsById)
<1>2. R = [i \in Ids |-> {}]
  BY <1>1 DEF FiledFor
<1>3. ASSUME NEW p \in Paths
      PROVE  ExactOf(ReadersAt(R, p)) = Empty /\ BranchOf(Tally(R, p)) = Empty
  <2>1. ReadersAt(R, p) = {} /\ \A i \in Ids : ReadBelow(R, i, p) = {}
    BY <1>2 DEF ReadersAt, ReadBelow
  <2>2. Tally(R, p) = [i \in Ids |-> 0]
    BY <2>1, FS_EmptySet DEF Tally
  <2>3. Support(Tally(R, p)) = {} /\ Tally(R, p) \in [Ids -> Nat]
    BY <2>2 DEF Support
  <2>. QED  BY <2>1, <2>3, ExactEmpty, BranchEmpty
<1>4. Index = IndexOf(R)
  BY <1>3 DEF IndexInit, Index, IndexOf
<1>. QED  BY <1>1, <1>4 DEF IndexInv, ReadsTyped, Registered, IndexInit

LEMMA AddLemma ==
  ASSUME IndexInv, NEW id \in Ids, NEW reads \in PathSets, Add(id, reads)
  PROVE  IndexInv'
<1> DEFINE previous == IF id \in Registered THEN readsById[id] ELSE {}
           new == (reads \ previous) \ {Wildcard}
           old == (previous \ reads) \ {Wildcard}
           R == FiledFor(readsById)
           S == [R EXCEPT ![id] = @ \ old]
           T == [S EXCEPT ![id] = @ \cup new]
<1>1. readsById' = [i \in Registered \cup {id} |-> IF i = id THEN reads ELSE readsById[i]]
  BY DEF Add
<1>2. R \in ReadSets /\ previous \in PathSets /\ R[id] = previous \ {Wildcard}
  BY FiledType DEF IndexInv, ReadsTyped, FiledFor, Registered, PathSets
<1>3. old \in SUBSET Paths /\ new \in SUBSET Paths /\ old \subseteq R[id]
  BY <1>2 DEF PathSets
<1>4. S \in ReadSets /\ UnfileAll(id, old, IndexOf(R)) = IndexOf(S)
  <2> HIDE DEF old, R
  <2>. QED  BY <1>2, <1>3, UnfileAllLemma
<1>5. S[id] = (previous \cap reads) \ {Wildcard} /\ new \cap S[id] = {}
  BY <1>2 DEF ReadSets
<1>6. T \in ReadSets /\ FileAll(id, new, IndexOf(S)) = IndexOf(T)
  <2> HIDE DEF new, S
  <2>. QED  BY <1>3, <1>4, <1>5, FileAllLemma
<1>7. T[id] = reads \ {Wildcard} /\ \A i \in Ids : i # id => T[i] = R[i]
  BY <1>2, <1>5 DEF ReadSets
<1>8. ReadsTyped(readsById')
  BY <1>1 DEF IndexInv, ReadsTyped, Registered
<1>9. FiledFor(readsById') = T
  <2>1. ASSUME NEW i \in Ids PROVE FiledFor(readsById')[i] = T[i]
    <3>1. CASE i = id
      BY <1>1, <1>7, <3>1 DEF FiledFor
    <3>2. CASE i # id
      <4>1. T[i] = IF i \in DOMAIN readsById THEN readsById[i] \ {Wildcard} ELSE {}
        BY <1>7, <3>2 DEF FiledFor
      <4> HIDE DEF T
      <4>. QED  BY <1>1, <3>2, <4>1 DEF FiledFor, Registered
    <3>. QED  BY <3>1, <3>2
  <2>2. T \in [Ids -> SUBSET Paths]
    BY <1>6 DEF ReadSets
  <2>3. FiledFor(readsById') = [i \in Ids |-> FiledFor(readsById')[i]]
    BY DEF FiledFor
  <2> HIDE DEF T
  <2>. QED  BY <2>1, <2>2, <2>3
<1>10. Index' = IndexOf(T)
  <2>1. Becomes(FileAll(id, new, UnfileAll(id, old, Index)))
    BY DEF Add
  <2>2. Becomes(IndexOf(T))
    <3> HIDE DEF T, S, R, old, new
    <3>. QED  BY <2>1, <1>4, <1>6 DEF IndexInv, R
  <2> HIDE DEF T
  <2>. QED  BY <2>2, BecomesLemma, IndexFields
<1>11. wildcard' = {i \in Registered' : Wildcard \in readsById'[i]}
  <2>1. wildcard' = IF Wildcard \in reads THEN wildcard \cup {id} ELSE wildcard \ {id}
    BY DEF Add
  <2>2. \A i : i \in Registered' <=> i \in Registered \/ i = id
    BY <1>1 DEF Registered
  <2>3. \A i \in Registered' : readsById'[i] = IF i = id THEN reads ELSE readsById[i]
    BY <1>1, <2>2
  <2>. QED  BY <2>1, <2>2, <2>3 DEF IndexInv
<1> HIDE DEF T
<1>. QED  BY <1>8, <1>9, <1>10, <1>11 DEF IndexInv

LEMMA AddPathLemma ==
  ASSUME IndexInv, NEW id \in Ids, NEW p \in Paths \cup {Wildcard}, AddPath(id, p)
  PROVE  IndexInv'
<1> DEFINE R == FiledFor(readsById)
<1>1. /\ id \in Registered /\ readsById' = [readsById EXCEPT ![id] = @ \cup {p}]
      /\ DOMAIN readsById' = DOMAIN readsById /\ Registered' = Registered
      /\ readsById'[id] = readsById[id] \cup {p} /\ \A i \in Registered : i # id => readsById'[i] = readsById[i]
  BY DEF AddPath, Registered
<1>2. ReadsTyped(readsById')
  BY <1>1 DEF IndexInv, ReadsTyped, Registered, PathSets
<1>3. R \in ReadSets /\ R[id] = readsById[id] \ {Wildcard} /\ Index = IndexOf(R)
  BY <1>1, FiledType DEF IndexInv, FiledFor, Registered
<1>4. FiledFor(readsById') = [i \in Ids |-> IF i = id THEN R[id] \cup ({p} \ {Wildcard}) ELSE R[i]]
  BY <1>1 DEF FiledFor, Registered
<1>5. CASE p = Wildcard
  <2>1. FiledFor(readsById') = R
    BY <1>3, <1>4, <1>5 DEF ReadSets
  <2>2. Index' = Index /\ wildcard' = wildcard \cup {id}
    BY <1>5 DEF AddPath, Index
  <2>3. wildcard' = {i \in Registered' : Wildcard \in readsById'[i]}
    BY <1>1, <1>5, <2>2 DEF IndexInv
  <2>. QED  BY <1>2, <1>3, <2>1, <2>2, <2>3 DEF IndexInv
<1>6. CASE p # Wildcard
  <2>0. p \in Paths
    BY <1>6
  <2>1. wildcard' = {i \in Registered' : Wildcard \in readsById'[i]}
    BY <1>1, <1>6 DEF IndexInv, AddPath
  <2>2. IsFiledAt(p, id) <=> p \in R[id]
    <3>1. Held(exact[p]) = ReadersAt(R, p)
      <4>1. exact[p] = ExactOf(ReadersAt(R, p))
        BY <1>3, <2>0 DEF Index, IndexOf
      <4>2. ReadersAt(R, p) \in SUBSET Ids
        BY DEF ReadersAt
      <4>. QED  BY <4>1, <4>2, ExactOfLemma DEF Held, Empty, Bare, Many
    <3>. QED  BY <3>1 DEF IsFiledAt, ReadersAt
  <2>3. CASE p \in R[id]
    <3>1. FiledFor(readsById') = R
      <4>1. R[id] \cup ({p} \ {Wildcard}) = R[id]
        BY <2>3
      <4>. QED  BY <1>3, <1>4, <4>1 DEF ReadSets
    <3>2. Index' = Index
      BY <1>6, <2>2, <2>3 DEF AddPath, Becomes, Index
    <3>. QED  BY <1>2, <1>3, <2>1, <3>1, <3>2 DEF IndexInv
  <2>4. CASE p \notin R[id]
    <3>1. FiledFor(readsById') = [R EXCEPT ![id] = @ \cup {p}]
      <4>1. {p} \ {Wildcard} = {p}
        BY <1>6
      <4>. QED  BY <1>3, <1>4, <4>1 DEF ReadSets
    <3>2. Becomes(File(id, p, IndexOf(R)))
      BY <1>3, <1>6, <2>2, <2>4 DEF AddPath
    <3>3. File(id, p, IndexOf(R)) = IndexOf([R EXCEPT ![id] = @ \cup {p}])
      BY <1>3, <2>0, <2>4, FileLemma
    <3>4. Index' = IndexOf(FiledFor(readsById'))
      BY <3>1, <3>2, <3>3, BecomesLemma, IndexFields
    <3>. QED  BY <1>2, <2>1, <3>4 DEF IndexInv
  <2>. QED  BY <2>3, <2>4
<1>. QED  BY <1>5, <1>6

LEMMA RemoveIdLemma ==
  ASSUME IndexInv, NEW id \in Ids, RemoveId(id)
  PROVE  IndexInv'
<1> DEFINE R == FiledFor(readsById)
           old == readsById[id] \ {Wildcard}
<1>1. /\ id \in Registered /\ readsById' = [i \in Registered \ {id} |-> readsById[i]]
      /\ DOMAIN readsById' = Registered \ {id} /\ Registered' = Registered \ {id}
      /\ \A i \in Registered' : readsById'[i] = readsById[i]
  BY DEF RemoveId, Registered, Restrict
<1>2. ReadsTyped(readsById')
  BY <1>1 DEF IndexInv, ReadsTyped, Registered
<1>3. R \in ReadSets /\ R[id] = old /\ old \in SUBSET Paths /\ Index = IndexOf(R)
  BY <1>1, FiledType DEF IndexInv, ReadsTyped, FiledFor, Registered, PathSets
<1>4. FiledFor(readsById') = [R EXCEPT ![id] = @ \ old]
  <2>1. R[id] \ old = {}
    BY <1>3
  <2>2. FiledFor(readsById') = [i \in Ids |-> IF i = id THEN {} ELSE R[i]]
    BY <1>1 DEF FiledFor, Registered
  <2>. QED  BY <1>3, <2>1, <2>2 DEF ReadSets
<1>5. Becomes(UnfileAll(id, old, IndexOf(R)))
  BY <1>3 DEF RemoveId
<1>6. UnfileAll(id, old, IndexOf(R)) = IndexOf([R EXCEPT ![id] = @ \ old])
  <2> HIDE DEF R, old
  <2>. QED  BY <1>3, UnfileAllLemma
<1>7. Index' = IndexOf(FiledFor(readsById'))
  BY <1>4, <1>5, <1>6, BecomesLemma, IndexFields
<1>8. wildcard' = {i \in Registered' : Wildcard \in readsById'[i]}
  BY <1>1 DEF IndexInv, RemoveId
<1>. QED  BY <1>2, <1>7, <1>8 DEF IndexInv

LEMMA IndexStepLemma == IndexInv /\ [IndexNext]_indexVars => IndexInv'
<1> SUFFICES ASSUME IndexInv, [IndexNext]_indexVars PROVE IndexInv'
  OBVIOUS
<1>1. ASSUME NEW id \in Ids, NEW reads \in PathSets, Add(id, reads) PROVE IndexInv'
  BY <1>1, AddLemma
<1>2. ASSUME NEW id \in Ids, NEW p \in Paths \cup {Wildcard}, AddPath(id, p) PROVE IndexInv'
  BY <1>2, AddPathLemma
<1>3. ASSUME NEW id \in Ids, RemoveId(id) PROVE IndexInv'
  BY <1>3, RemoveIdLemma
<1>4. CASE UNCHANGED indexVars
  <2>1. Index' = Index /\ wildcard' = wildcard /\ readsById' = readsById /\ Registered' = Registered
    BY <1>4 DEF indexVars, Index, Registered
  <2>. QED  BY <2>1 DEF IndexInv
<1>. QED  BY <1>1, <1>2, <1>3, <1>4 DEF IndexNext

-----------------------------------------------------------------------------
(***************************************************************************)
(* The lookups.                                                            *)
(***************************************************************************)
LEMMA HeldLemma ==
  ASSUME NEW R \in ReadSets, NEW p \in Paths
  PROVE  /\ Held(ExactOf(ReadersAt(R, p))) = {i \in Ids : p \in R[i]}
         /\ Held(BranchOf(Tally(R, p))) = {i \in Ids : \E q \in R[i] : p \in Above[q]}
<1>1. Held(ExactOf(ReadersAt(R, p))) = ReadersAt(R, p)
  BY TallyType, ExactOfLemma DEF Held, Empty, Bare, Many
<1> DEFINE c == Tally(R, p)
<1>2. Held(BranchOf(c)) = Support(c)
  <2>1. c \in [Ids -> Nat]
    BY TallyType
  <2> HIDE DEF c
  <2>2. CASE Support(c) = {} /\ BranchOf(c) = Empty
    BY <2>2 DEF Held, Empty
  <2>3. ASSUME NEW i \in Ids, Support(c) = {i}, BranchOf(c) = LoneOf(i, c[i]) PROVE Held(BranchOf(c)) = Support(c)
    BY <2>3 DEF Held, LoneOf, Bare, Counted
  <2>4. CASE BranchOf(c) = Counts([k \in Support(c) |-> c[k]])
    BY <2>4 DEF Held, Counts
  <2>. QED  BY <2>1, <2>2, <2>3, <2>4, BranchOfLemma
<1>3. ASSUME NEW i \in Ids PROVE i \in Support(c) <=> \E q \in R[i] : p \in Above[q]
  <2>1. c[i] = Cardinality(ReadBelow(R, i, p)) /\ c[i] \in Nat
    BY TallyType DEF Tally
  <2>2. c[i] = 0 <=> ReadBelow(R, i, p) = {}
    BY <2>1, TallyType, FS_EmptySet
  <2>. QED  BY <2>1, <2>2 DEF Support, ReadBelow
<1>4. Support(c) = {i \in Ids : \E q \in R[i] : p \in Above[q]}
  BY <1>3 DEF Support
<1>. QED  BY <1>1, <1>2, <1>4 DEF ReadersAt

\* Those of R that a write of w touches.
TouchedBy(R, w) == {i \in Ids : \E q \in R[i] : Touches(q, w)}

LEMMA BucketLemma ==
  ASSUME IndexInv, NEW p \in Paths
  PROVE  /\ exact[p] = ExactOf(ReadersAt(FiledFor(readsById), p))
         /\ branch[p] = BranchOf(Tally(FiledFor(readsById), p))
         /\ Held(exact[p]) = {i \in Ids : p \in FiledFor(readsById)[i]}
         /\ Held(branch[p]) = {i \in Ids : \E q \in FiledFor(readsById)[i] : p \in Above[q]}
<1>1. exact = IndexOf(FiledFor(readsById)).exact /\ branch = IndexOf(FiledFor(readsById)).branch
  BY DEF IndexInv, Index
<1>2. exact[p] = ExactOf(ReadersAt(FiledFor(readsById), p)) /\ branch[p] = BranchOf(Tally(FiledFor(readsById), p))
  BY <1>1 DEF IndexOf
<1>. QED  BY <1>2, FiledType, HeldLemma DEF IndexInv

LEMMA MatchOneLemma ==
  ASSUME IndexInv, NEW w \in Paths
  PROVE  MatchOne(w) = TouchedBy(FiledFor(readsById), w)
<1> DEFINE R == FiledFor(readsById)
<1>0. R \in ReadSets /\ Above[w] \subseteq Paths
  BY FiledType, PathsAssumption DEF IndexInv
<1>1. \A i : i \in MatchOne(w) <=> i \in Held(exact[w]) \/ i \in Held(branch[w]) \/ \E a \in Above[w] : i \in Held(exact[a])
  BY DEF MatchOne, HeldAll
<1>2. \A i : i \in Held(exact[w]) <=> i \in Ids /\ w \in R[i]
  BY BucketLemma
<1>3. \A i : i \in Held(branch[w]) <=> i \in Ids /\ \E q \in R[i] : w \in Above[q]
  BY BucketLemma
<1>4. \A i : \A a \in Above[w] : i \in Held(exact[a]) <=> i \in Ids /\ a \in R[i]
  BY <1>0, BucketLemma
<1> HIDE DEF R
<1>5. \A i : i \in MatchOne(w) <=> i \in Ids /\ \E q \in R[i] : Touches(q, w)
  BY <1>1, <1>2, <1>3, <1>4 DEF Touches
<1>. QED  BY <1>5 DEF TouchedBy, R

\* What a loop over the first i paths of W has found, and what it may skip.
Turned(W, i, acc) ==
  /\ acc.matched = wildcard \cup UNION {MatchOne(W[j]) : j \in 1..i}
  /\ \A p \in acc.visited : Held(exact[p]) \subseteq acc.matched

LEMMA TurnLemma ==
  ASSUME NEW W \in Seq(Paths), NEW i \in 1..Len(W), NEW acc, Turned(W, i - 1, acc)
  PROVE  Turned(W, i, MatchTurn(W, i, acc))
<1> DEFINE w == W[i]
           own == IF acc.on /\ w \in acc.visited THEN {} ELSE {w}
           marked == IF acc.on /\ IsShared(w) THEN acc.visited \cup {w} ELSE acc.visited
           shared == {a \in Above[w] : IsShared(a)}
           visited == IF acc.on \/ shared = {} THEN marked ELSE Backfill(W, i)
           above == {a \in Above[w] : a \in shared => a \notin visited}
           found == HeldAll({exact[p] : p \in own \cup above} \cup {branch[w]})
           next == MatchTurn(W, i, acc)
<1>1. next.visited = visited \cup shared /\ next.matched = acc.matched \cup found
  BY DEF MatchTurn
<1> HIDE DEF next
<1>2. \A k : k \in MatchOne(w) <=> k \in Held(exact[w]) \/ k \in Held(branch[w]) \/ \E a \in Above[w] : k \in Held(exact[a])
  BY DEF MatchOne, HeldAll
<1>3. \A k : k \in found <=> k \in Held(branch[w]) \/ \E p \in own \cup above : k \in Held(exact[p])
  <2> HIDE DEF own, above
  <2>. QED  BY DEF HeldAll
<1>4. found \subseteq MatchOne(w)
  <2>1. \A p \in own \cup above : p = w \/ p \in Above[w]
    OBVIOUS
  <2> HIDE DEF own, above, found
  <2>. QED  BY <1>2, <1>3, <2>1
<1>5. ASSUME NEW j \in 1..(i - 1) PROVE MatchOne(W[j]) \subseteq acc.matched
  BY DEF Turned
<1>6. Held(exact[w]) \subseteq acc.matched \cup found
  <2>1. CASE w \in own
    <3> HIDE DEF own, found, above
    <3>. QED  BY <1>3, <2>1
  <2>2. CASE w \notin own
    <3>1. w \in acc.visited
      BY <2>2
    <3>. QED  BY <3>1 DEF Turned
  <2>. QED  BY <2>1, <2>2
<1>7. ASSUME NEW p \in visited PROVE Held(exact[p]) \subseteq acc.matched \cup found
  <2>1. CASE p \in acc.visited
    BY <2>1 DEF Turned
  <2>2. CASE p = w
    BY <1>6, <2>2
  <2>3. CASE p \in Backfill(W, i) /\ p # w
    <3>1. PICK j \in 1..i : W[j] = p
      BY <2>3 DEF Backfill
    <3>2. j \in 1..(i - 1)
      BY <2>3, <3>1
    <3>3. Held(exact[p]) \subseteq MatchOne(W[j])
      BY <3>1 DEF MatchOne, HeldAll
    <3>. QED  BY <3>2, <3>3, <1>5
  <2>4. p \in marked \/ p \in Backfill(W, i)
    OBVIOUS
  <2>5. marked \subseteq acc.visited \cup {w}
    OBVIOUS
  <2>. QED  BY <2>1, <2>2, <2>3, <2>4, <2>5
<1>8. ASSUME NEW a \in Above[w] PROVE Held(exact[a]) \subseteq acc.matched \cup found
  <2>1. CASE a \in above
    <3> HIDE DEF own, found, above
    <3>. QED  BY <1>3, <2>1
  <2>2. CASE a \notin above
    <3>1. a \in visited
      BY <2>2
    <3>. QED  BY <3>1, <1>7
  <2>. QED  BY <2>1, <2>2
<1>9. acc.matched \cup found = acc.matched \cup MatchOne(w)
  <2> HIDE DEF found
  <2>1. MatchOne(w) \subseteq acc.matched \cup found
    BY <1>2, <1>3, <1>6, <1>8
  <2>. QED  BY <1>4, <2>1
<1>10. next.matched = wildcard \cup UNION {MatchOne(W[j]) : j \in 1..i}
  <2>1. 1..i = 1..(i - 1) \cup {i}
    OBVIOUS
  <2>2. UNION {MatchOne(W[j]) : j \in 1..i} = (UNION {MatchOne(W[j]) : j \in 1..(i - 1)}) \cup MatchOne(w)
    BY <2>1
  <2> HIDE DEF found
  <2>. QED  BY <1>1, <1>9, <2>2 DEF Turned
<1>11. ASSUME NEW p \in next.visited PROVE Held(exact[p]) \subseteq next.matched
  <2>1. p \in visited \/ p \in Above[w]
    BY <1>1
  <2> HIDE DEF visited, found
  <2>. QED  BY <1>1, <1>7, <1>8, <2>1
<1>. QED  BY <1>10, <1>11 DEF Turned, next

-----------------------------------------------------------------------------
LEMMA LeastNumber ==
  ASSUME NEW T, T \subseteq Nat, T # {}
  PROVE  \E n \in T : \A m \in T : n <= m
<1> DEFINE R == {ss \in Nat \X Nat : ss[1] < ss[2]}
<1>1. IsWellFoundedOn(OpToRel(<, Nat), Nat)
  BY NatLessThanWellFounded
<1>2. OpToRel(<, Nat) = R
  BY DEF OpToRel
<1>3. IsWellFoundedOn(R, Nat)
  BY <1>1, <1>2
<1>4. PICK n \in T : \A m \in T : ~(<<m, n>> \in R)
  <2> HIDE DEF R
  <2>. QED BY <1>3, WFMin
<1>5. ASSUME NEW m \in T PROVE n <= m
  <2>1. CASE m < n
    <3>1. <<m, n>> \in R
      BY <2>1
    <3>. QED  BY <3>1, <1>4
  <2>. QED  BY <2>1
<1>. QED  BY <1>5

\* f solves the recursion of matchMultiple for the first n paths.
Turns(f, W, n) ==
  f = [i \in 0..n |-> IF i = 0 THEN [on |-> FALSE, visited |-> {}, matched |-> wildcard]
                               ELSE MatchTurn(W, i, f[i - 1])]

LEMMA TurnsSolvable ==
  ASSUME NEW W
  PROVE  \A n \in Nat : \E f : Turns(f, W, n)
<1> DEFINE First == [on |-> FALSE, visited |-> {}, matched |-> wildcard]
           Bad == {n \in Nat : ~ \E f : Turns(f, W, n)}
<1>1. SUFFICES ASSUME Bad # {} PROVE FALSE
  OBVIOUS
<1>2. PICK n \in Bad : \A m \in Bad : n <= m
  <2>1. Bad \subseteq Nat
    OBVIOUS
  <2> HIDE DEF Bad
  <2>. QED  BY <1>1, <2>1, LeastNumber
<1> HIDE DEF First
<1>3. CASE n = 0
  <2> DEFINE e == [i \in 0..0 |-> First]
             h == [i \in 0..0 |-> IF i = 0 THEN First ELSE MatchTurn(W, i, e[i - 1])]
  <2>1. e = h
    OBVIOUS
  <2> HIDE DEF e
  <2>2. Turns(e, W, 0)
    BY <2>1 DEF Turns, First
  <2>. QED  BY <1>3, <2>2
<1>4. CASE n > 0
  <2>1. PICK f : Turns(f, W, n - 1)
    BY <1>2, <1>4
  <2> DEFINE newest == MatchTurn(W, n, f[n - 1])
             g == [i \in 0..n |-> IF i < n THEN f[i] ELSE newest]
             h == [i \in 0..n |-> IF i = 0 THEN First ELSE MatchTurn(W, i, g[i - 1])]
  <2>2. ASSUME NEW i \in 0..n PROVE g[i] = h[i]
    <3>1. CASE i < n
      <4>1. i \in 0..(n - 1)
        BY <3>1
      <4>2. f[i] = IF i = 0 THEN First ELSE MatchTurn(W, i, f[i - 1])
        BY <4>1, <2>1 DEF Turns, First
      <4>3. i # 0 => g[i - 1] = f[i - 1]
        BY <3>1
      <4>. QED  BY <3>1, <4>2, <4>3
    <3>2. CASE i = n
      <4>1. g[n - 1] = f[n - 1] /\ g[n] = newest
        BY <1>4
      <4>2. h[n] = MatchTurn(W, n, g[n - 1])
        BY <1>4
      <4>. QED  BY <3>2, <4>1, <4>2
    <3>. QED  BY <3>1, <3>2
  <2>3. g = h
    <3>1. g = [i \in 0..n |-> g[i]] /\ h = [i \in 0..n |-> h[i]]
      OBVIOUS
    <3> HIDE DEF g, h
    <3>2. [i \in 0..n |-> g[i]] = [i \in 0..n |-> h[i]]
      BY <2>2
    <3>. QED  BY <3>1, <3>2
  <2>4. Turns(g, W, n)
    <3> HIDE DEF g
    <3>. QED  BY <2>3 DEF Turns, First
  <2>. QED  BY <2>4
<1>. QED  BY <1>3, <1>4

LEMMA MultipleLemma ==
  ASSUME NEW W \in Seq(Paths)
  PROVE  MatchMultiple(W) = wildcard \cup UNION {MatchOne(W[j]) : j \in 1..Len(W)}
<1> DEFINE F == CHOOSE f : Turns(f, W, Len(W))
<1>1. MatchMultiple(W) = F[Len(W)].matched
  BY DEF MatchMultiple, Turns
<1>2. Turns(F, W, Len(W))
  <2>1. Len(W) \in Nat
    OBVIOUS
  <2>2. \E f : Turns(f, W, Len(W))
    BY <2>1, TurnsSolvable, Zenon
  <2>. QED  BY <2>2, Zenon
<1> HIDE DEF F
<1>3. \A i \in 0..Len(W) : Turned(W, i, F[i])
  <2> DEFINE Bad == {i \in 0..Len(W) : ~Turned(W, i, F[i])}
  <2>1. SUFFICES ASSUME Bad # {} PROVE FALSE
    OBVIOUS
  <2>2. PICK n \in Bad : \A m \in Bad : n <= m
    <3>1. Bad \subseteq Nat
      OBVIOUS
    <3> HIDE DEF Bad
    <3>. QED  BY <2>1, <3>1, LeastNumber
  <2>3. CASE n = 0
    <3>1. F[0] = [on |-> FALSE, visited |-> {}, matched |-> wildcard]
      BY <1>2 DEF Turns
    <3>2. UNION {MatchOne(W[j]) : j \in 1..0} = {}
      OBVIOUS
    <3>. QED  BY <2>3, <3>1, <3>2 DEF Turned
  <2>4. CASE n # 0
    <3>1. n \in 1..Len(W) /\ n - 1 \in 0..Len(W) /\ n - 1 \notin Bad
      BY <2>2, <2>4
    <3>2. F[n] = MatchTurn(W, n, F[n - 1])
      BY <1>2, <2>4, <3>1 DEF Turns
    <3>3. Turned(W, n - 1, F[n - 1])
      BY <3>1
    <3>. QED  BY <3>1, <3>2, <3>3, TurnLemma
  <2>. QED  BY <2>3, <2>4
<1>4. Len(W) \in 0..Len(W)
  OBVIOUS
<1>. QED  BY <1>1, <1>3, <1>4 DEF Turned

\* For every sequence of written paths, with repetitions or without.
LEMMA MatchAllLemma ==
  ASSUME IndexInv, NEW W \in Seq(Paths \cup {Wildcard})
  PROVE  MatchAll(W) = {i \in Registered : PathsIntersect(readsById[i], ToSet(W))}
<1> DEFINE R == FiledFor(readsById)
<1>1. CASE Wildcard \in ToSet(W)
  BY <1>1 DEF MatchAll, PathsIntersect
<1>2. CASE Wildcard \notin ToSet(W)
  <2>1. W \in Seq(Paths)
    <3>1. \A j \in 1..Len(W) : W[j] \in Paths
      BY <1>2 DEF ToSet
    <3>. QED  BY <3>1
  <2>2. MatchAll(W) = wildcard \cup UNION {MatchOne(w) : w \in ToSet(W)}
    <3>1. CASE Len(W) > 1
      <4>1. MatchAll(W) = MatchMultiple(W)
        BY <1>2, <3>1 DEF MatchAll
      <4>2. {MatchOne(W[j]) : j \in 1..Len(W)} = {MatchOne(w) : w \in ToSet(W)}
        BY DEF ToSet
      <4>. QED  BY <2>1, <4>1, <4>2, MultipleLemma
    <3>2. CASE ~(Len(W) > 1)
      BY <1>2, <3>2 DEF MatchAll
    <3>. QED  BY <3>1, <3>2
  <2>3. ToSet(W) \subseteq Paths
    BY <2>1 DEF ToSet
  <2>4. \A w \in ToSet(W) : MatchOne(w) = TouchedBy(R, w)
    BY <2>3, MatchOneLemma
  <2>5. ASSUME NEW i PROVE i \in MatchAll(W) <=> i \in Registered /\ PathsIntersect(readsById[i], ToSet(W))
    <3>1. i \in MatchAll(W) <=> i \in wildcard \/ \E w \in ToSet(W) : i \in Ids /\ \E q \in R[i] : Touches(q, w)
      <4> HIDE DEF R
      <4>. QED  BY <2>2, <2>4 DEF TouchedBy
    <3>2. i \in wildcard <=> i \in Registered /\ Wildcard \in readsById[i]
      BY DEF IndexInv
    <3>3. i \in Ids => R[i] = IF i \in Registered THEN readsById[i] \ {Wildcard} ELSE {}
      BY DEF FiledFor, Registered
    <3>4. i \in Registered => i \in Ids
      BY DEF IndexInv, ReadsTyped, Registered
    <3>5. CASE i \in Registered /\ Wildcard \in readsById[i]
      BY <3>1, <3>2, <3>5 DEF PathsIntersect
    <3>6. CASE i \in Registered /\ Wildcard \notin readsById[i]
      <4>1. R[i] = readsById[i]
        BY <3>3, <3>4, <3>6
      <4> HIDE DEF R
      <4>. QED  BY <1>2, <3>1, <3>2, <3>4, <3>6, <4>1 DEF PathsIntersect
    <3>7. CASE i \notin Registered
      <4> HIDE DEF R
      <4>. QED  BY <3>1, <3>2, <3>3, <3>7
    <3>. QED  BY <3>5, <3>6, <3>7
  <2>. QED  BY <2>5
<1>. QED  BY <1>1, <1>2

LEMMA OrderLemma ==
  ASSUME NEW S, IsFiniteSet(S), NEW W \in SetToSeqs(S)
  PROVE  W \in Seq(S) /\ ToSet(W) = S
<1> DEFINE D == 1..Cardinality(S)
<1>1. W \in [D -> S] /\ \A i, j \in D : i # j => W[i] # W[j]
  BY DEF SetToSeqs
<1>2. Cardinality(S) \in Nat
  BY FS_CardinalityType
<1>3. W \in Seq(S) /\ DOMAIN W = D
  BY <1>1, <1>2
<1>4. W \in Injection(D, S)
  BY <1>1 DEF Injection, IsInjective
<1>5. IsFiniteSet(D) /\ Cardinality(D) = Cardinality(S)
  BY <1>2, FS_Interval
<1>6. W \in Surjection(D, S)
  <2> HIDE DEF D
  <2>. QED  BY <1>4, <1>5, FS_Injection
<1>. QED  BY <1>3, <1>6 DEF ToSet, Surjection

LEMMA MatchLemma == IndexInv => MatchIsPathsIntersect
<1> SUFFICES ASSUME IndexInv, NEW S \in PathSets, NEW W \in SetToSeqs(S)
             PROVE  MatchAll(W) = {i \in Registered : PathsIntersect(readsById[i], S)}
  BY DEF MatchIsPathsIntersect
<1>1. IsFiniteSet(S)
  <2>1. IsFiniteSet(Paths \cup {Wildcard})
    BY IndexAssumption, FS_AddElement
  <2>. QED  BY <2>1, FS_Subset DEF PathSets
<1>2. W \in Seq(S) /\ ToSet(W) = S
  BY <1>1, OrderLemma
<1>3. W \in Seq(Paths \cup {Wildcard})
  BY <1>2 DEF PathSets
<1>. QED  BY <1>2, <1>3, MatchAllLemma

LEMMA SeenLemma == IndexInv => ReadersAreSeen
<1> SUFFICES ASSUME IndexInv, NEW p \in Paths
             PROVE  HasReaderAt(p) <=> \E i \in Registered, q \in Paths : q \in readsById[i] /\ (q = p \/ p \in Above[q])
  BY DEF ReadersAreSeen
<1> DEFINE R == FiledFor(readsById)
<1>1. R \in ReadSets
  BY FiledType DEF IndexInv
<1>2. exact[p] = Empty <=> Held(exact[p]) = {}
  <2>1. ReadersAt(R, p) \in SUBSET Ids /\ exact[p] = ExactOf(ReadersAt(R, p))
    BY <1>1, TallyType, BucketLemma
  <2> HIDE DEF R
  <2>. QED  BY <2>1, ExactOfLemma DEF Held, Empty, Bare, Many
<1>3. branch[p] = Empty <=> Held(branch[p]) = {}
  <2>1. Tally(R, p) \in [Ids -> Nat] /\ branch[p] = BranchOf(Tally(R, p))
    BY <1>1, TallyType, BucketLemma
  <2> HIDE DEF R
  <2>. QED  BY <2>1, BranchOfLemma DEF Held, Empty, LoneOf, Bare, Counted, Counts
<1>4. HasReaderAt(p) <=> \E i \in Ids : p \in R[i] \/ \E q \in R[i] : p \in Above[q]
  BY <1>2, <1>3, BucketLemma DEF HasReaderAt
<1>5. \A i \in Ids : \A q \in Paths : q \in R[i] <=> i \in Registered /\ q \in readsById[i]
  BY PathsAssumption DEF FiledFor, Registered
<1>6. Registered \subseteq Ids /\ \A i \in Ids : R[i] \subseteq Paths
  BY <1>1 DEF IndexInv, ReadsTyped, Registered, ReadSets
<1> HIDE DEF R
<1>. QED  BY <1>4, <1>5, <1>6

LEMMA TypeLemma == IndexInv => IndexTypeOK
<1> SUFFICES ASSUME IndexInv PROVE IndexTypeOK
  OBVIOUS
<1> DEFINE R == FiledFor(readsById)
<1>1. R \in ReadSets /\ exact = IndexOf(R).exact /\ branch = IndexOf(R).branch
  BY FiledType DEF IndexInv, Index
<1>2. ASSUME NEW p \in Paths PROVE ExactOf(ReadersAt(R, p)) \in ExactBuckets
  BY <1>1, TallyType, ExactOfLemma DEF ExactBuckets
<1>3. ASSUME NEW p \in Paths PROVE IsBranchBucket(BranchOf(Tally(R, p)))
  <2> DEFINE c == Tally(R, p)
             N == Cardinality(Paths)
  <2>1. c \in [Ids -> Nat] /\ \A i \in Ids : c[i] \in 0..N
    BY <1>1, TallyType DEF Tally
  <2>2. Support(c) \in SUBSET Ids /\ \A i \in Support(c) : c[i] \in 1..N
    BY <2>1 DEF Support
  <2> HIDE DEF c, N
  <2>3. Support(c) = {} /\ BranchOf(c) = Empty => IsBranchBucket(BranchOf(c))
    BY DEF IsBranchBucket
  <2>4. ASSUME NEW i \in Ids, Support(c) = {i}, BranchOf(c) = LoneOf(i, c[i]) PROVE IsBranchBucket(BranchOf(c))
    <3>1. CASE c[i] = 1
      BY <2>4, <3>1 DEF IsBranchBucket, LoneOf
    <3>2. CASE c[i] # 1
      <4>1. c[i] \in 2..N
        BY <2>2, <2>4, <3>2
      <4>. QED  BY <2>4, <3>2, <4>1 DEF IsBranchBucket, LoneOf, Counted, N
    <3>. QED  BY <3>1, <3>2
  <2>5. ASSUME NEW i \in Support(c), NEW j \in Support(c), i # j, BranchOf(c) = Counts([k \in Support(c) |-> c[k]])
        PROVE IsBranchBucket(BranchOf(c))
    <3> DEFINE b == Counts([k \in Support(c) |-> c[k]])
    <3>1. b.form = "map" /\ b.counts = [k \in Support(c) |-> c[k]] /\ DOMAIN b.counts = Support(c)
      BY DEF Counts
    <3>2. Cardinality(Support(c)) > 1
      BY <2>2, <2>5, SizeLemma
    <3>3. b.counts \in [Support(c) -> 1..N]
      BY <2>2, <3>1
    <3> HIDE DEF b
    <3>. QED  BY <2>2, <2>5, <3>1, <3>2, <3>3 DEF IsBranchBucket, N, b
  <2>6. IsBranchBucket(BranchOf(c))
    BY <2>1, <2>3, <2>4, <2>5, BranchOfLemma
  <2>. QED  BY <2>6 DEF c
<1>4. wildcard \subseteq Registered /\ Registered \subseteq Ids /\ \A id \in Registered : readsById[id] \in PathSets
  BY DEF IndexInv, ReadsTyped, Registered
<1>5. exact \in [Paths -> ExactBuckets]
  BY <1>1, <1>2 DEF IndexOf
<1>6. DOMAIN branch = Paths /\ \A p \in Paths : IsBranchBucket(branch[p])
  BY <1>1, <1>3 DEF IndexOf
<1>. QED  BY <1>4, <1>5, <1>6 DEF IndexTypeOK

-----------------------------------------------------------------------------
LEMMA IndexInvariance == IndexSpec => []IndexInv
BY IndexInitLemma, IndexStepLemma, PTL DEF IndexSpec

(***************************************************************************)
(* For any finite sets of subscribers and paths, whatever is added,        *)
(* extended and removed: each bucket has the smallest form that holds its  *)
(* contents, so what nobody reads takes no space.                          *)
(***************************************************************************)
THEOREM SmallestForms == IndexSpec => []IndexTypeOK
BY IndexInvariance, TypeLemma, PTL

(***************************************************************************)
(* A match finds exactly the subscribers one of whose reads is touched,    *)
(* for any sequence of written paths, with repetitions or without: the     *)
(* visits that matchMultiple remembers, and those it takes for granted,    *)
(* leave nobody out.                                                       *)
(***************************************************************************)
THEOREM EveryMatchExact ==
  IndexSpec => [](\A W \in Seq(Paths \cup {Wildcard}) :
                    MatchAll(W) = {id \in Registered : PathsIntersect(readsById[id], ToSet(W))})
<1>1. IndexInv => \A W \in Seq(Paths \cup {Wildcard}) :
                    MatchAll(W) = {id \in Registered : PathsIntersect(readsById[id], ToSet(W))}
  BY MatchAllLemma
<1>. QED  BY <1>1, IndexInvariance, PTL

(***************************************************************************)
(* The same as the run states it, beside the log, the component and the    *)
(* scopes: match() and hasReaderAt() say what the read sets say.           *)
(***************************************************************************)
THEOREM LookupsExact == ReadersSpec => []LookupsAreExact
<1>1. ReadersInit => IndexInv
  BY IndexInitLemma DEF ReadersInit, PathsInit
<1>2. IndexInv /\ [ReadersNext]_<<indexVars, logVars, componentVars, scopeVars, part>> => IndexInv'
  <2>1. [ReadersNext]_<<indexVars, logVars, componentVars, scopeVars, part>> => [IndexNext]_indexVars
    BY DEF ReadersNext, PathsNext
  <2>. QED  BY <2>1, IndexStepLemma
<1>3. IndexInv => LookupsAreExact
  BY MatchLemma, SeenLemma DEF LookupsAreExact
<1>. QED  BY <1>1, <1>2, <1>3, PTL DEF ReadersSpec
=============================================================================
