------------------------- MODULE ResourceCache_proofs -------------------------
(***************************************************************************)
(* What a cache promises, for any keys, any number of requests and of      *)
(* installed roots, and callbacks nested to any depth: what was asked for  *)
(* before an invalidation counts as stale, no answer replaces that of a    *)
(* later request, and every promise ends.  The last part is about the      *)
(* eviction ledger: it counts the entries and knows them all, and it skips *)
(* its scans only while there is nothing to evict.                         *)
(***************************************************************************)
EXTENDS ResourceCache, SequenceTheorems, FiniteSetTheorems, WellFoundedInduction, NaturalsInduction,
        TLAPS

-----------------------------------------------------------------------------
(***************************************************************************)
(* What the state is made of, once n requests have been started.  Data are *)
(* of one of them, or of the application, and an entry that succeeded has  *)
(* data.                                                                   *)
(***************************************************************************)
Loadable(n) == 0..n \cup {Written}

AgedEntry(n) == {e \in Entry : e.data \in Loadable(n) /\ (e.status = "Success" => e.data # 0)}

Snapshots(n) == UNION {[S -> AgedEntry(n)] : S \in SUBSET Keys}

FetchFrame(n) ==
  {f \in [kind : {"fetch"}, op : 1..n, superseded : Nat, had : Statuses \cup {"none"},
          deferred : BOOLEAN]
         \cup [kind : {"loading"}, op : 1..n, superseded : Nat, deferred : BOOLEAN]
         \cup [kind : {"evicted", "load"}, op : 1..n, superseded : Nat] : f.superseded < f.op}

OtherFrame(n) ==
  [kind : {"call"}]
    \cup [kind : {"abort", "release"}, op : 1..n, identity : Identities]
    \cup [kind : {"forget"}, key : Keys]
    \cup [kind : {"bulk"}, keys : SUBSET Keys, live : SUBSET (1..n), settles : BOOLEAN]
    \cup [kind : {"describe", "settled"}, op : 1..n]

RestoreFrame(n) == [kind : {"restore"}, op : Nat, data : Snapshots(n)]

StackFrame(n) == FetchFrame(n) \cup OtherFrame(n) \cup RestoreFrame(n)

Started == Len(fetches)

CacheTypes ==
  /\ CacheAssumption
  /\ entries \in Snapshots(Started)
  /\ root \in Nat /\ restores \in Nat
  /\ runtime \in [Keys -> Runtime]
  /\ fetches \in Seq(Fetch)
  /\ Started <= MaxRequests
  /\ invalidatedAt \in [Keys -> 0..Started]

(***************************************************************************)
(* The request of a key was started for it, and is marked if it was there  *)
(* at the last invalidation; what the entry shows is not newer.            *)
(***************************************************************************)
RequestOf(k) ==
  LET r == runtime[k].request
  IN  r # 0 => /\ r \in 1..Started
               /\ fetches[r].key = k
               /\ r <= invalidatedAt[k] => fetches[r].invalidated
               /\ k \in DOMAIN entries /\ entries[k].data \in Requests => entries[k].data <= r

RequestsSound == \A k \in Keys : RequestOf(k)

(***************************************************************************)
(* While a fetch() that found no entry is on its way to markLoading(),     *)
(* nothing is loaded under its key: neither in the entries, nor in what a  *)
(* restore() above it is going to install.                                 *)
(***************************************************************************)
FoundNone(f) == f.kind = "fetch" /\ f.had = "none"

Unloaded(es, k) == k \in DOMAIN es => es[k].data = 0

Spares(f, g) == FoundNone(f) /\ g.kind = "restore" => Unloaded(g.data, fetches[f.op].key)

Stack(s) ==
  /\ s \in Seq(StackFrame(Started))
  /\ \A i, j \in 1..Len(s) : i < j => Spares(s[i], s[j])

FramesOf(s) == {s[i] : i \in 1..Len(s)}

\* f lies under g.
Under(f, g, s) == \E i, j \in 1..Len(s) : i < j /\ s[i] = f /\ s[j] = g

NoneLoaded == \A f \in FramesOf(frames) : FoundNone(f) => Unloaded(entries, fetches[f.op].key)

(***************************************************************************)
(* A request that is there was started after every restore() that is still *)
(* on its way, and so after all that one is going to install.              *)
(***************************************************************************)
Older(es) ==
  \A k \in DOMAIN es :
    runtime[k].request # 0 /\ es[k].data \in Requests => es[k].data <= runtime[k].request

NoneNewer == \A f \in FramesOf(frames) : f.kind = "restore" => Older(f.data)

StackSound == Stack(frames) /\ NoneLoaded /\ NoneNewer

(***************************************************************************)
(* Every promise is settled, or somebody is going to: a loader, a later    *)
(* request, or a fetch() that is on its way to its loader.                 *)
(***************************************************************************)
Underway(r, F) == \E f \in F : f.kind \in {"fetch", "loading", "evicted"} /\ f.op = r

Promised(q, r, F) ==
  /\ q[r].follows = 0 \/ q[r].follows > r
  /\ q[r].settled \/ q[r].loader = "running" \/ q[r].follows > r \/ Underway(r, F)

AllPromised == \A r \in 1..Started : Promised(fetches, r, FramesOf(frames))

(***************************************************************************)
(* A fetch() has lost its key to the fetch() of that key, and to the       *)
(* restore(), that lie over it.                                            *)
(***************************************************************************)
Takes(g, k) == g.kind = "restore" \/ (g.kind = "fetch" /\ fetches[g.op].key = k)

Barred ==
  \A f, g \in FramesOf(frames) :
    f.kind = "fetch" /\ Under(f, g, frames) /\ Takes(g, fetches[f.op].key) => ~IsCurrent(f.op)

(***************************************************************************)
(* Every restore() installs one root at most: only the last one that was   *)
(* called does, and it lies over the others.                               *)
(***************************************************************************)
Resetting == \E f \in FramesOf(frames) : f.kind = "restore" /\ f.op = restores

RootsSound ==
  /\ restores <= MaxRoots /\ root <= MaxRoots + restores
  /\ Resetting => root < MaxRoots + restores
  /\ \A f \in FramesOf(frames) : f.kind = "restore" => f.op \in 1..restores
  /\ \A f, g \in FramesOf(frames) :
       f.kind = "restore" /\ g.kind = "restore" /\ Under(f, g, frames) => f.op < g.op

CacheInv ==
  /\ CacheTypes /\ RequestsSound /\ InvalidatedStaysStale /\ StackSound /\ AllPromised
  /\ Barred /\ RootsSound

-----------------------------------------------------------------------------
(***************************************************************************)
(* Types.                                                                  *)
(***************************************************************************)
LEMMA BoundsLemma ==
  ASSUME CacheTypes
  PROVE  /\ MaxRequests \in Nat /\ Requests = 1..MaxRequests /\ Written = MaxRequests + 1
         /\ Started \in Nat /\ 1..Started \subseteq Requests
         /\ \A r \in 1..Started : fetches[r] \in Fetch
<1>1. MaxRequests \in Nat
  BY DEF CacheTypes, CacheAssumption
<1>2. Started \in Nat /\ Started <= MaxRequests /\ fetches \in Seq(Fetch)
  BY DEF CacheTypes, Started
<1>3. \A r \in 1..Started : fetches[r] \in Fetch
  BY <1>2 DEF Started
<1>. QED  BY <1>1, <1>2, <1>3 DEF Requests, Written

LEMMA EntriesLemma ==
  ASSUME NEW n, NEW es \in Snapshots(n)
  PROVE  /\ DOMAIN es \subseteq Keys
         /\ es \in [DOMAIN es -> AgedEntry(n)]
         /\ \A k \in DOMAIN es : es[k] \in AgedEntry(n) /\ es[k] \in Entry
BY DEF Snapshots, AgedEntry

LEMMA SnapshotLemma ==
  ASSUME NEW n, NEW S \in SUBSET Keys, NEW es \in [S -> AgedEntry(n)]
  PROVE  es \in Snapshots(n) /\ DOMAIN es = S
BY DEF Snapshots

\* What a frame is, by its kind.
LEMMA FrameLemma ==
  ASSUME NEW n, NEW f \in StackFrame(n)
  PROVE  /\ f.kind \in {"fetch", "loading", "evicted", "load"} =>
              f.op \in 1..n /\ f.superseded \in Nat /\ f.superseded < f.op
         /\ f.kind = "fetch" =>
              f.had \in Statuses \cup {"none"} /\ f.deferred \in BOOLEAN
         /\ f.kind = "loading" => f.deferred \in BOOLEAN
         /\ f.kind \in {"evicted", "load"} =>
              f \in [kind : {"evicted", "load"}, op : 1..n, superseded : Nat]
         /\ f.kind \in {"abort", "release"} =>
              f \in [kind : {"abort", "release"}, op : 1..n, identity : Identities]
         /\ f.kind = "forget" => f.key \in Keys
         /\ f.kind = "bulk" =>
              f \in [kind : {"bulk"}, keys : SUBSET Keys, live : SUBSET (1..n), settles : BOOLEAN]
         /\ f.kind \in {"describe", "settled"} => f \in [kind : {"describe", "settled"}, op : 1..n]
         /\ f.kind = "restore" => f \in RestoreFrame(n)
<1>1. CASE f \in FetchFrame(n)
  BY <1>1 DEF FetchFrame
<1>2. CASE f \in OtherFrame(n)
  BY <1>2 DEF OtherFrame
<1>3. CASE f \in RestoreFrame(n)
  BY <1>3 DEF RestoreFrame
<1>. QED  BY <1>1, <1>2, <1>3 DEF StackFrame

\* With one request more, all is typed as before.
LEMMA OneMoreLemma ==
  ASSUME NEW n \in Nat, NEW es, NEW f
  PROVE  /\ es \in Snapshots(n) => es \in Snapshots(n + 1)
         /\ f \in StackFrame(n) => f \in StackFrame(n + 1)
<1>1. 1..n \subseteq 1..n + 1 /\ 0..n \subseteq 0..n + 1
  OBVIOUS
<1>2. AgedEntry(n) \subseteq AgedEntry(n + 1)
  BY <1>1 DEF AgedEntry, Loadable
<1>3. ASSUME NEW x, x \in Snapshots(n) PROVE x \in Snapshots(n + 1)
  <2>1. PICK S \in SUBSET Keys : x \in [S -> AgedEntry(n)]
    BY <1>3 DEF Snapshots
  <2>2. x \in [S -> AgedEntry(n + 1)]
    BY <1>2, <2>1
  <2>. QED  BY <2>2 DEF Snapshots
<1>4. ASSUME f \in FetchFrame(n) PROVE f \in FetchFrame(n + 1)
  BY <1>1, <1>4 DEF FetchFrame
<1>5. ASSUME f \in OtherFrame(n) PROVE f \in OtherFrame(n + 1)
  BY <1>1, <1>5 DEF OtherFrame
<1>6. ASSUME f \in RestoreFrame(n) PROVE f \in RestoreFrame(n + 1)
  BY <1>3, <1>6 DEF RestoreFrame
<1>. QED  BY <1>3, <1>4, <1>5, <1>6 DEF StackFrame

-----------------------------------------------------------------------------
(***************************************************************************)
(* Stacks.                                                                 *)
(***************************************************************************)
LEMMA EmptyLemma == Stack(<<>>) /\ FramesOf(<<>>) = {}
BY DEF Stack, FramesOf

LEMMA PlainPushLemma ==
  ASSUME NEW T, NEW s \in Seq(T), NEW g \in T
  PROVE  /\ Append(s, g) \in Seq(T)
         /\ FramesOf(Append(s, g)) = FramesOf(s) \cup {g}
         /\ \A i, j \in 1..Len(Append(s, g)) : i < j =>
              \/ /\ i \in 1..Len(s) /\ j \in 1..Len(s)
                 /\ Append(s, g)[i] = s[i] /\ Append(s, g)[j] = s[j]
              \/ Append(s, g)[j] = g
<1>. DEFINE t == Append(s, g)
            n == Len(s)
<1>1. /\ t \in Seq(T) /\ Len(t) = n + 1 /\ n \in Nat
      /\ \A i \in 1..n : t[i] = s[i]
      /\ t[n + 1] = g
  BY AppendProperties, LenProperties
<1>. HIDE DEF t, n
<1>2. FramesOf(t) = {t[i] : i \in 1..n + 1} /\ FramesOf(s) = {s[i] : i \in 1..n}
  BY <1>1 DEF FramesOf, n
<1>3. 1..n + 1 = (1..n) \cup {n + 1}
  BY <1>1
<1>4. FramesOf(t) = FramesOf(s) \cup {g}
  BY <1>1, <1>2, <1>3
<1>5. ASSUME NEW i \in 1..Len(t), NEW j \in 1..Len(t), i < j
      PROVE  \/ i \in 1..n /\ j \in 1..n /\ t[i] = s[i] /\ t[j] = s[j]
             \/ t[j] = g
  <2>1. i \in 1..n
    BY <1>1, <1>5
  <2>2. j \in 1..n \/ j = n + 1
    BY <1>1
  <2>. QED  BY <1>1, <2>1, <2>2
<1>6. \A i, j \in 1..Len(t) : i < j =>
        \/ i \in 1..n /\ j \in 1..n /\ t[i] = s[i] /\ t[j] = s[j]
        \/ t[j] = g
  BY <1>5
<1>. QED  BY <1>1, <1>4, <1>6 DEF t, n

LEMMA PushedUnder ==
  ASSUME NEW T, NEW s \in Seq(T), NEW g \in T
  PROVE  \A f, h : Under(f, h, Append(s, g)) =>
                     Under(f, h, s) \/ (h = g /\ f \in FramesOf(s))
<1>. DEFINE t == Append(s, g)
            n == Len(s)
<1>1. /\ Len(t) = n + 1 /\ n \in Nat /\ t[n + 1] = g
      /\ \A i \in 1..n : t[i] = s[i]
  BY AppendProperties, LenProperties
<1>. HIDE DEF t, n
<1>2. ASSUME NEW f, NEW h, Under(f, h, t) PROVE Under(f, h, s) \/ (h = g /\ f \in FramesOf(s))
  <2>1. PICK i \in 1..n + 1, j \in 1..n + 1 : i < j /\ t[i] = f /\ t[j] = h
    BY <1>1, <1>2 DEF Under
  <2>2. i \in 1..n /\ s[i] = f
    BY <1>1, <2>1
  <2>3. CASE j = n + 1
    BY <1>1, <2>1, <2>2, <2>3 DEF FramesOf, n
  <2>4. CASE j # n + 1
    <3>1. j \in 1..n /\ s[j] = h
      BY <1>1, <2>1, <2>4
    <3>. QED  BY <2>1, <2>2, <3>1 DEF Under, n
  <2>. QED  BY <2>3, <2>4
<1>. QED  BY <1>2 DEF t

LEMMA PushLemma ==
  ASSUME NEW s, Stack(s), NEW g \in StackFrame(Started), \A f \in FramesOf(s) : Spares(f, g)
  PROVE  /\ Stack(Append(s, g))
         /\ FramesOf(Append(s, g)) = FramesOf(s) \cup {g}
         /\ Append(s, g) = s \o <<g>>
<1>. DEFINE t == Append(s, g)
            n == Len(s)
<1>1. /\ s \in Seq(StackFrame(Started))
      /\ t \in Seq(StackFrame(Started)) /\ Len(t) = n + 1 /\ n \in Nat
      /\ \A i \in 1..n : t[i] = s[i]
      /\ t[n + 1] = g
  BY AppendProperties, LenProperties DEF Stack
<1>2. t = s \o <<g>>
  BY <1>1, AppendIsConcat
<1>. HIDE DEF t, n
<1>3. FramesOf(t) = FramesOf(s) \cup {g}
  <2>1. ASSUME NEW f \in FramesOf(t) PROVE f \in FramesOf(s) \cup {g}
    <3>1. PICK i \in 1..n + 1 : f = t[i]
      BY <1>1, <2>1 DEF FramesOf
    <3>2. CASE i = n + 1
      BY <1>1, <3>1, <3>2
    <3>3. CASE i # n + 1
      <4>1. i \in 1..n
        BY <1>1, <3>3
      <4>. QED  BY <1>1, <3>1, <4>1 DEF FramesOf, n
    <3>. QED  BY <3>2, <3>3
  <2>2. ASSUME NEW f \in FramesOf(s) PROVE f \in FramesOf(t)
    <3>1. PICK i \in 1..n : f = s[i]
      BY <2>2 DEF FramesOf, n
    <3>2. i \in 1..Len(t) /\ t[i] = f
      BY <1>1, <3>1
    <3>. QED  BY <3>2 DEF FramesOf
  <2>3. g \in FramesOf(t)
    <3>1. n + 1 \in 1..Len(t) /\ t[n + 1] = g
      BY <1>1
    <3>. QED  BY <3>1 DEF FramesOf
  <2>. QED  BY <2>1, <2>2, <2>3
<1>4. ASSUME NEW i \in 1..Len(t), NEW j \in 1..Len(t), i < j PROVE Spares(t[i], t[j])
  <2>1. i \in 1..n
    BY <1>1, <1>4
  <2>2. t[i] = s[i] /\ s[i] \in FramesOf(s)
    BY <1>1, <2>1 DEF FramesOf, n
  <2>3. CASE j = n + 1
    BY <1>1, <2>2, <2>3
  <2>4. CASE j # n + 1
    <3>1. j \in 1..n
      BY <1>1, <2>4
    <3>. QED  BY <1>1, <1>4, <2>1, <3>1 DEF Stack, n
  <2>. QED  BY <2>3, <2>4
<1>5. Stack(t)
  BY <1>1, <1>4 DEF Stack
<1>. QED  BY <1>2, <1>3, <1>5 DEF t

LEMMA PopLemma ==
  ASSUME NEW s, Stack(s), s # <<>>
  PROVE  /\ Stack(Front(s))
         /\ FramesOf(s) = FramesOf(Front(s)) \cup {Last(s)}
         /\ Last(s) \in StackFrame(Started)
         /\ \A f \in FramesOf(Front(s)) : Spares(f, Last(s))
<1>. DEFINE t == Front(s)
            n == Len(s)
            T == StackFrame(Started)
<1>1. s \in Seq(T) /\ n \in Nat /\ n > 0
  <2>1. s \in Seq(T)
    BY DEF Stack
  <2>. HIDE DEF T
  <2>. QED  BY <2>1, EmptySeq, LenProperties
<1>2. t \in Seq(T) /\ Len(t) = n - 1 /\ \A i \in 1..n - 1 : t[i] = s[i]
  <2>1. 1 \in 1..n + 1 /\ n - 1 \in 0..n /\ t = SubSeq(s, 1, n - 1)
    BY <1>1 DEF Front
  <2>. HIDE DEF T, t
  <2>2. /\ SubSeq(s, 1, n - 1) \in Seq(T)
        /\ Len(SubSeq(s, 1, n - 1)) = IF 1 <= n - 1 THEN (n - 1) - 1 + 1 ELSE 0
        /\ \A i \in 1..(n - 1) - 1 + 1 : SubSeq(s, 1, n - 1)[i] = s[1 + i - 1]
    BY <1>1, <2>1, SubSeqProperties
  <2>. HIDE DEF n
  <2>3. Len(t) = n - 1
    BY <1>1, <2>1, <2>2
  <2>4. ASSUME NEW i \in 1..n - 1 PROVE t[i] = s[i]
    <3>1. i \in 1..(n - 1) - 1 + 1 /\ 1 + i - 1 = i
      BY <1>1, <2>4
    <3>. QED  BY <2>1, <2>2, <3>1
  <2>. QED  BY <2>1, <2>2, <2>3, <2>4
<1>3. Last(s) = s[n]
  BY DEF Last
<1>4. FramesOf(t) = {s[i] : i \in 1..n - 1} /\ FramesOf(s) = {s[i] : i \in 1..n}
  BY <1>2 DEF FramesOf
<1>. HIDE DEF t, n
<1>5. 1..n = (1..n - 1) \cup {n}
  BY <1>1
<1>6. FramesOf(s) = FramesOf(t) \cup {Last(s)}
  BY <1>3, <1>4, <1>5
<1>7. Last(s) \in T
  <2>. HIDE DEF T
  <2>. QED  BY <1>1, <1>3 DEF n
<1>8. ASSUME NEW i \in 1..n - 1, NEW j \in 1..n - 1, i < j PROVE Spares(t[i], t[j])
  <2>1. i \in 1..n /\ j \in 1..n /\ t[i] = s[i] /\ t[j] = s[j]
    BY <1>2, <1>5
  <2>. QED  BY <1>8, <2>1 DEF Stack, n
<1>9. Stack(t)
  BY <1>2, <1>8 DEF Stack
<1>10. \A f \in FramesOf(t) : Spares(f, Last(s))
  <2>. SUFFICES ASSUME NEW i \in 1..n - 1 PROVE Spares(s[i], s[n])
    BY <1>3, <1>4
  <2>1. i \in 1..n /\ n \in 1..n /\ i < n
    BY <1>1
  <2>. QED  BY <2>1 DEF Stack, n
<1>. QED  BY <1>6, <1>7, <1>9, <1>10 DEF t

LEMMA PoppedUnder ==
  ASSUME NEW s, Stack(s), s # <<>>
  PROVE  /\ \A f, h : Under(f, h, Front(s)) => Under(f, h, s)
         /\ \A f \in FramesOf(Front(s)) : Under(f, Last(s), s)
<1>. DEFINE t == Front(s)
            n == Len(s)
            T == StackFrame(Started)
<1>1. s \in Seq(T) /\ n \in Nat /\ n > 0 /\ Last(s) = s[n]
  <2>1. s \in Seq(T)
    BY DEF Stack
  <2>. HIDE DEF T
  <2>. QED  BY <2>1, EmptySeq, LenProperties DEF Last
<1>2. Len(t) = n - 1 /\ \A i \in 1..n - 1 : t[i] = s[i]
  <2>1. t = SubSeq(s, 1, n - 1) /\ n - 1 \in 0..n
    BY <1>1 DEF Front
  <2>. HIDE DEF T, t, n
  <2>2. t = [i \in 1..n - 1 |-> s[i]]
    BY <1>1, <2>1 DEF n
  <2>. QED  BY <1>1, <2>2
<1>. HIDE DEF t, T
<1>3. ASSUME NEW f, NEW h, Under(f, h, t) PROVE Under(f, h, s)
  <2>1. PICK i \in 1..n - 1, j \in 1..n - 1 : i < j /\ t[i] = f /\ t[j] = h
    BY <1>2, <1>3 DEF Under
  <2>2. i \in 1..n /\ j \in 1..n /\ s[i] = f /\ s[j] = h
    BY <1>1, <1>2, <2>1
  <2>. QED  BY <2>1, <2>2 DEF Under
<1>4. ASSUME NEW f \in FramesOf(t) PROVE Under(f, Last(s), s)
  <2>1. PICK i \in 1..n - 1 : t[i] = f
    BY <1>2 DEF FramesOf
  <2>2. i \in 1..n /\ n \in 1..n /\ i < n /\ s[i] = f
    BY <1>1, <1>2, <2>1
  <2>. QED  BY <1>1, <2>2 DEF Under
<1>. QED  BY <1>3, <1>4 DEF t

(***************************************************************************)
(* The stack t is what frames has become: its top has ended or gone on, or *)
(* others have been pushed, but no fetch() or restore() has begun.         *)
(***************************************************************************)
Opens(f) == f.kind \in {"fetch", "restore"}

Goes(t) ==
  /\ Stack(t)
  /\ \A f \in FramesOf(frames) : f \in FramesOf(t) \/ (frames # <<>> /\ f = Top)
  /\ \A f \in FramesOf(t) : Opens(f) => f \in FramesOf(frames)
  /\ \A f, g \in FramesOf(t) : Opens(f) /\ Opens(g) /\ Under(f, g, t) => Under(f, g, frames)

LEMMA GoesOn == StackSound => Goes(frames)
BY DEF StackSound, Goes

LEMMA GoesBelow ==
  ASSUME StackSound, frames # <<>>
  PROVE  Goes(Below) /\ Top \in StackFrame(Started) /\ Top \in FramesOf(frames)
BY PopLemma, PoppedUnder DEF StackSound, Goes, Below, Top

LEMMA GoesPushed ==
  ASSUME NEW t, Goes(t), NEW g \in StackFrame(Started), ~Opens(g)
  PROVE  Goes(Append(t, g)) /\ FramesOf(Append(t, g)) = FramesOf(t) \cup {g}
<1>1. \A f \in FramesOf(t) : Spares(f, g)
  BY DEF Spares, Opens
<1>2. Stack(Append(t, g)) /\ FramesOf(Append(t, g)) = FramesOf(t) \cup {g}
  BY <1>1, PushLemma DEF Goes
<1>3. \A f, h : Under(f, h, Append(t, g)) => Under(f, h, t) \/ h = g
  BY PushedUnder DEF Goes, Stack
<1>4. \A f, h \in FramesOf(Append(t, g)) :
        Opens(f) /\ Opens(h) /\ Under(f, h, Append(t, g)) => Under(f, h, frames)
  BY <1>2, <1>3 DEF Goes
<1>. QED  BY <1>2, <1>4 DEF Goes

LEMMA CallFrameLemma == CallFrame \in StackFrame(Started) /\ CallFrame.kind = "call"
BY DEF CallFrame, StackFrame, OtherFrame

LEMMA GoesCalling ==
  ASSUME NEW t, Goes(t)
  PROVE  Goes(Append(t, CallFrame)) /\ FramesOf(Append(t, CallFrame)) = FramesOf(t) \cup {CallFrame}
BY CallFrameLemma, GoesPushed DEF Opens

LEMMA GoesListening ==
  ASSUME NEW t, Goes(t), NEW S
  PROVE  Goes(t \o Listeners(S))
<1>1. CASE Listeners(S) = <<>>
  <2>1. t \in Seq(StackFrame(Started))
    BY DEF Goes, Stack
  <2>2. t \o <<>> = t
    BY <2>1, ConcatEmptySeq
  <2>. QED  BY <1>1, <2>2
<1>2. CASE Listeners(S) = <<CallFrame>>
  <2>1. t \o <<CallFrame>> = Append(t, CallFrame)
    <3>1. \A f \in FramesOf(t) : Spares(f, CallFrame)
      BY CallFrameLemma DEF Spares
    <3>. QED  BY <3>1, CallFrameLemma, PushLemma DEF Goes
  <2>. QED  BY <1>2, <2>1, GoesCalling
<1>. QED  BY <1>1, <1>2 DEF Listeners

-----------------------------------------------------------------------------
(***************************************************************************)
(* Steps that bring no answer.  Requests go, but none comes; an entry      *)
(* keeps its answer, and counts as fresh only if it did before.            *)
(***************************************************************************)
RuntimeKept ==
  /\ runtime' \in [Keys -> Runtime]
  /\ \A k \in Keys : runtime'[k].request \in {0, runtime[k].request}

FetchesKept ==
  /\ fetches' \in Seq(Fetch) /\ Len(fetches') = Started
  /\ \A r \in 1..Started : /\ fetches'[r].key = fetches[r].key
                           /\ fetches[r].invalidated => fetches'[r].invalidated

EntryKept(e, f) ==
  /\ f.data = e.data
  /\ f.status = "Success" /\ ~f.invalidated => e.status = "Success" /\ ~e.invalidated

EntriesKept ==
  /\ entries' \in Snapshots(Started)
  /\ \A k \in DOMAIN entries' :
       IF k \in DOMAIN entries THEN EntryKept(entries[k], entries'[k]) ELSE entries'[k].data = 0

\* The promise of r gets nearer to its end, if it moves at all.
Progress(r) ==
  /\ fetches'[r].follows = fetches[r].follows \/ fetches'[r].follows > r
  /\ fetches[r].settled => fetches'[r].settled
  /\ fetches[r].loader = "running" =>
       fetches'[r].loader = "running" \/ fetches'[r].settled \/ fetches'[r].follows # 0

Advances(r) ==
  /\ Progress(r)
  /\ Underway(r, FramesOf(frames)) =>
       \/ Underway(r, FramesOf(frames'))
       \/ fetches'[r].settled \/ fetches'[r].loader = "running"

AnswersStay ==
  \A k \in DOMAIN entries \cap DOMAIN entries' :
    root' = root /\ entries[k].data \in Requests => entries'[k].data >= entries[k].data

Onward == CacheInv' /\ AnswersStay

\* No request has come, and the stack has no new fetch() or restore().
Quietly == Onward /\ FetchesKept /\ RuntimeKept /\ Goes(frames')

\* If a key has been invalidated, so have its entry and its request.
Noted ==
  /\ invalidatedAt' \in [Keys -> 0..Started]
  /\ \A k \in Keys :
       \/ invalidatedAt'[k] = invalidatedAt[k]
       \/ /\ k \in DOMAIN entries' => entries'[k].invalidated
          /\ runtime[k].request # 0 => fetches'[runtime[k].request].invalidated

LEMMA PromiseStep ==
  ASSUME CacheTypes, AllPromised, FetchesKept, \A r \in 1..Started : Advances(r)
  PROVE  AllPromised'
<1>. SUFFICES ASSUME NEW r \in 1..Started
              PROVE  Promised(fetches', r, FramesOf(frames'))
  BY DEF AllPromised, FetchesKept, Started
<1>1. Promised(fetches, r, FramesOf(frames)) /\ Advances(r)
  BY DEF AllPromised
<1>2. /\ fetches[r] \in Fetch /\ fetches'[r] \in Fetch
      /\ r \in Nat /\ MaxRequests \in Nat
  <2>1. fetches' \in Seq(Fetch) /\ r \in 1..Len(fetches')
    BY DEF FetchesKept
  <2>. QED  BY <2>1, BoundsLemma
<1>3. fetches[r].follows \in Nat /\ fetches'[r].follows \in Nat
  BY <1>2 DEF Fetch
<1>4. fetches'[r].follows = 0 \/ fetches'[r].follows > r
  BY <1>1 DEF Promised, Advances, Progress
<1>5. fetches[r].follows > r => fetches'[r].follows > r
  BY <1>1, <1>2, <1>3 DEF Advances, Progress
<1>6. \/ fetches'[r].settled \/ fetches'[r].loader = "running"
      \/ fetches'[r].follows > r \/ Underway(r, FramesOf(frames'))
  BY <1>1, <1>4, <1>5 DEF Promised, Advances, Progress
<1>. QED  BY <1>4, <1>6 DEF Promised

LEMMA StackMoves ==
  ASSUME CacheTypes, FetchesKept, Stack(frames')
  PROVE  /\ Stack(frames)'
         /\ \A f \in FramesOf(frames') : FoundNone(f) => fetches'[f.op].key = fetches[f.op].key
<1>1. Started' = Started
  BY DEF FetchesKept, Started
<1>2. /\ frames' \in Seq(StackFrame(Started))
      /\ \A i, j \in 1..Len(frames') : i < j => Spares(frames'[i], frames'[j])
  BY DEF Stack
<1>3. ASSUME NEW i \in 1..Len(frames'), FoundNone(frames'[i])
      PROVE  fetches'[frames'[i].op].key = fetches[frames'[i].op].key
  <2>1. frames'[i] \in StackFrame(Started)
    BY <1>2
  <2>2. frames'[i].op \in 1..Started
    BY <1>3, <2>1, FrameLemma DEF FoundNone
  <2>. QED  BY <2>2 DEF FetchesKept
<1>4. ASSUME NEW i \in 1..Len(frames'), NEW j \in 1..Len(frames'), i < j
      PROVE  Spares(frames[i], frames[j])'
  BY <1>2, <1>3, <1>4 DEF Spares, FoundNone, Unloaded
<1>5. Stack(frames)'
  BY <1>1, <1>2, <1>4 DEF Stack
<1>. QED  BY <1>3, <1>5 DEF FramesOf

\* What restore() is going to install stays older than the requests.
LEMMA NewerLemma ==
  ASSUME NoneNewer, CacheTypes, RuntimeKept, Goes(frames')
  PROVE  NoneNewer'
<1>1. ASSUME NEW f \in FramesOf(frames'), f.kind = "restore", NEW k \in DOMAIN f.data,
             runtime'[k].request # 0, f.data[k].data \in Requests
      PROVE  f.data[k].data <= runtime'[k].request
  <2>1. f \in FramesOf(frames) /\ f \in StackFrame(Started)
    BY <1>1 DEF Goes, Opens, Stack, FramesOf
  <2>2. f.data \in Snapshots(Started)
    BY <1>1, <2>1, FrameLemma DEF RestoreFrame
  <2>3. k \in Keys
    BY <2>2, EntriesLemma
  <2>4. runtime'[k].request = runtime[k].request
    BY <1>1, <2>3 DEF RuntimeKept
  <2>. QED  BY <1>1, <2>1, <2>4 DEF NoneNewer, Older
<1>. QED  BY <1>1 DEF NoneNewer, Older, FramesOf

LEMMA StackKept ==
  ASSUME CacheTypes, FetchesKept, RuntimeKept, EntriesKept, StackSound, Goes(frames')
  PROVE  StackSound'
<1>1. /\ Stack(frames)'
      /\ \A f \in FramesOf(frames') : FoundNone(f) => fetches'[f.op].key = fetches[f.op].key
  BY StackMoves DEF Goes
<1>2. ASSUME NEW f \in FramesOf(frames'), FoundNone(f)
      PROVE  Unloaded(entries', fetches'[f.op].key)
  <2>1. f \in FramesOf(frames)
    BY <1>2 DEF Goes, Opens, FoundNone
  <2>2. fetches'[f.op].key = fetches[f.op].key
    BY <1>1, <1>2
  <2>3. Unloaded(entries, fetches[f.op].key)
    BY <1>2, <2>1 DEF StackSound, NoneLoaded
  <2>. QED  BY <2>2, <2>3 DEF Unloaded, EntriesKept, EntryKept
<1>3. NoneLoaded'
  BY <1>2 DEF NoneLoaded, FramesOf, FoundNone, Unloaded
<1>. QED  BY <1>1, <1>3, NewerLemma DEF StackSound

LEMMA BarredKept ==
  ASSUME CacheTypes, FetchesKept, RuntimeKept, Barred, Goes(frames')
  PROVE  Barred'
<1>1. ASSUME NEW f \in FramesOf(frames'), NEW g \in FramesOf(frames'), f.kind = "fetch",
             Under(f, g, frames'), Takes(g, fetches[f.op].key)'
      PROVE  ~IsCurrent(f.op)'
  <2>1. Opens(f) /\ Opens(g)
    BY <1>1 DEF Opens, Takes
  <2>2. f \in FramesOf(frames) /\ g \in FramesOf(frames) /\ Under(f, g, frames)
    BY <1>1, <2>1 DEF Goes
  <2>3. f \in StackFrame(Started) /\ g \in StackFrame(Started)
    BY <1>1 DEF Goes, Stack, FramesOf
  <2>4. f.op \in 1..Started /\ (g.kind = "fetch" => g.op \in 1..Started)
    BY <1>1, <2>3, FrameLemma
  <2>5. /\ fetches'[f.op].key = fetches[f.op].key /\ fetches[f.op].key \in Keys
        /\ g.kind = "fetch" => fetches'[g.op].key = fetches[g.op].key
        /\ f.op # 0
    BY <2>4, BoundsLemma DEF FetchesKept, Fetch
  <2>6. ~IsCurrent(f.op)
    BY <1>1, <2>2, <2>5 DEF Takes, Barred
  <2>. QED  BY <2>5, <2>6 DEF IsCurrent, RuntimeKept
<1>. QED  BY <1>1 DEF Barred, Takes, IsCurrent, FramesOf, Under

LEMMA RootsKept ==
  ASSUME RootsSound, Goes(frames'), UNCHANGED <<root, restores>>
  PROVE  RootsSound'
<1>1. ASSUME NEW f \in FramesOf(frames'), f.kind = "restore" PROVE f \in FramesOf(frames) /\ Opens(f)
  BY <1>1 DEF Goes, Opens
<1>2. ASSUME NEW f \in FramesOf(frames'), NEW g \in FramesOf(frames'),
             f.kind = "restore", g.kind = "restore", Under(f, g, frames')
      PROVE  f.op < g.op
  <2>1. Under(f, g, frames)
    BY <1>1, <1>2 DEF Goes
  <2>. QED  BY <1>1, <1>2, <2>1 DEF RootsSound
<1>3. \A f \in FramesOf(frames') : f.kind = "restore" => f.op \in 1..restores
  BY <1>1 DEF RootsSound
<1>4. Resetting' => Resetting
  BY <1>1 DEF Resetting, FramesOf
<1>. QED  BY <1>2, <1>3, <1>4 DEF RootsSound, FramesOf, Under

LEMMA QuietStep ==
  ASSUME CacheInv, FetchesKept, RuntimeKept, EntriesKept, Goes(frames'),
         \A r \in 1..Started : Advances(r),
         Noted, UNCHANGED <<root, restores>>
  PROVE  Quietly
<1>1. /\ CacheTypes /\ RequestsSound /\ InvalidatedStaysStale /\ StackSound /\ AllPromised
      /\ Barred /\ RootsSound
  BY DEF CacheInv
<1>2. Started' = Started
  BY DEF FetchesKept, Started
<1>3. CacheTypes'
  BY <1>1, <1>2 DEF CacheTypes, CacheAssumption, FetchesKept, RuntimeKept, EntriesKept, Noted
<1>4. RequestsSound'
  <2>. SUFFICES ASSUME NEW k \in Keys, runtime'[k].request # 0
                PROVE  RequestOf(k)'
    BY DEF RequestsSound, RequestOf
  <2>1. runtime'[k].request = runtime[k].request /\ RequestOf(k)
    BY <1>1 DEF RuntimeKept, RequestsSound
  <2>2. /\ runtime[k].request \in 1..Started
        /\ fetches[runtime[k].request].key = k
    BY <2>1 DEF RequestOf
  <2>3. /\ fetches'[runtime[k].request].key = k
        /\ fetches[runtime[k].request].invalidated => fetches'[runtime[k].request].invalidated
    BY <2>2 DEF FetchesKept
  <2>4. k \in DOMAIN entries' /\ entries'[k].data \in Requests =>
          k \in DOMAIN entries /\ entries'[k].data = entries[k].data
    BY <1>1, BoundsLemma DEF EntriesKept, EntryKept
  <2>5. \/ invalidatedAt'[k] = invalidatedAt[k]
        \/ fetches'[runtime[k].request].invalidated
    BY <2>1 DEF Noted
  <2>. QED  BY <1>2, <2>1, <2>2, <2>3, <2>4, <2>5 DEF RequestOf
<1>5. InvalidatedStaysStale'
  <2>. SUFFICES ASSUME NEW k \in DOMAIN entries', entries'[k].status = "Success",
                       ~entries'[k].invalidated
                PROVE  entries'[k].data > invalidatedAt'[k]
    BY DEF InvalidatedStaysStale
  <2>1. entries'[k].data # 0
    <3>1. entries'[k] \in AgedEntry(Started)
      BY EntriesLemma DEF EntriesKept
    <3>. QED  BY <3>1 DEF AgedEntry
  <2>2. k \in DOMAIN entries /\ EntryKept(entries[k], entries'[k])
    BY <2>1 DEF EntriesKept
  <2>3. k \in Keys /\ invalidatedAt'[k] = invalidatedAt[k]
    BY EntriesLemma DEF EntriesKept, Noted
  <2>. QED  BY <1>1, <2>2, <2>3 DEF EntryKept, InvalidatedStaysStale
<1>6. AnswersStay
  <2>1. \A x \in Requests : x >= x
    BY <1>1, BoundsLemma
  <2>. QED  BY <2>1 DEF AnswersStay, EntriesKept, EntryKept
<1>. QED
  BY <1>1, <1>3, <1>4, <1>5, <1>6, StackKept, PromiseStep, BarredKept, RootsKept
  DEF CacheInv, Onward, Quietly

\* Nobody is told of a request, and the frame on top is not that of one that
\* is on its way to its loader.
Elsewhere == frames # <<>> => Top.kind \notin {"fetch", "loading", "evicted"}

LEMMA CallbackStep ==
  ASSUME CacheInv, Elsewhere, UNCHANGED <<fetches, root, restores, invalidatedAt>>,
         RuntimeKept, EntriesKept, Goes(frames')
  PROVE  Quietly
<1>1. CacheTypes
  BY DEF CacheInv
<1>2. FetchesKept
  BY <1>1 DEF CacheTypes, FetchesKept, Started
<1>3. \A f \in FramesOf(frames) : f.kind \in {"fetch", "loading", "evicted"} => f \in FramesOf(frames')
  BY DEF Goes, Elsewhere
<1>4. \A r \in 1..Started : Advances(r)
  BY <1>3 DEF Advances, Progress, Underway
<1>5. Noted
  BY <1>1 DEF CacheTypes, Noted
<1>. QED  BY <1>2, <1>4, <1>5, QuietStep

LEMMA UnchangedLemma ==
  ASSUME CacheTypes
  PROVE  (UNCHANGED runtime => RuntimeKept) /\ (UNCHANGED entries => EntriesKept)
<1>1. ASSUME UNCHANGED entries PROVE EntriesKept
  BY <1>1 DEF CacheTypes, EntriesKept, EntryKept
<1>. QED  BY <1>1 DEF CacheTypes, RuntimeKept

-----------------------------------------------------------------------------
(***************************************************************************)
(* Records, publications, and the ledger.                                  *)
(***************************************************************************)
LEMMA TrimLemma ==
  ASSUME CacheTypes, NEW rec \in Runtime
  PROVE  Trim(rec) \in Runtime /\ Trim(rec).request = rec.request
<1>1. NoRuntime \in Runtime /\ NoRuntime.request = 0
  <2>1. 0 \in 0..MaxRequests
    BY BoundsLemma
  <2>. QED  BY <2>1 DEF Runtime, NoRuntime
<1>. QED  BY <1>1 DEF Trim

LEMMA UnfailedLemma ==
  ASSUME CacheTypes, NEW rec \in Runtime
  PROVE  /\ Trim([rec EXCEPT !.failure = "none"]) \in Runtime
         /\ Trim([rec EXCEPT !.failure = "none"]).request = rec.request
<1>. DEFINE r == [rec EXCEPT !.failure = "none"]
<1>1. r \in Runtime /\ r.request = rec.request
  BY DEF Runtime
<1>. HIDE DEF r
<1>2. Trim(r) \in Runtime /\ Trim(r).request = rec.request
  BY <1>1, TrimLemma
<1>. QED  BY <1>2 DEF r

\* What is known of the keys, in rt, has no request that there was not.
Keeps(rt) ==
  /\ rt \in [Keys -> Runtime]
  /\ \A k \in Keys : rt[k].request \in {0, runtime[k].request}

LEMMA KeepsLemma ==
  ASSUME CacheTypes
  PROVE  /\ Keeps(runtime)
         /\ \A k : Keeps(Trimmed(k))
         /\ \A k : Keeps([runtime EXCEPT ![k].request = 0])
         /\ \A k : Keeps([runtime EXCEPT ![k] = NoRuntime])
<1>1. runtime \in [Keys -> Runtime] /\ 0 \in 0..MaxRequests
  BY BoundsLemma DEF CacheTypes
<1>2. NoRuntime \in Runtime /\ NoRuntime.request = 0
  BY <1>1 DEF Runtime, NoRuntime
<1>3. ASSUME NEW k PROVE Keeps(Trimmed(k))
  <2>1. ASSUME NEW j \in Keys
        PROVE  Trim(runtime[j]) \in Runtime /\ Trim(runtime[j]).request = runtime[j].request
    BY <1>1, TrimLemma
  <2>. QED  BY <1>1, <2>1 DEF Keeps, Trimmed
<1>4. ASSUME NEW k PROVE Keeps([runtime EXCEPT ![k].request = 0])
  <2>1. ASSUME NEW j \in Keys
        PROVE  /\ [runtime[j] EXCEPT !.request = 0] \in Runtime
               /\ [runtime[j] EXCEPT !.request = 0].request = 0
    BY <1>1 DEF Runtime
  <2>. QED  BY <1>1, <2>1 DEF Keeps
<1>5. ASSUME NEW k PROVE Keeps([runtime EXCEPT ![k] = NoRuntime])
  BY <1>1, <1>2 DEF Keeps
<1>. QED  BY <1>1, <1>3, <1>4, <1>5 DEF Keeps

LEMMA ReconciledLemma ==
  ASSUME CacheTypes, NEW rt, Keeps(rt), NEW es, NEW W
  PROVE  Keeps(Reconciled(rt, es, W))
<1>1. ASSUME NEW k \in Keys
      PROVE  Reconcile(rt[k], es, k) \in Runtime /\ Reconcile(rt[k], es, k).request = rt[k].request
  <2>1. rt[k] \in Runtime
    BY DEF Keeps
  <2>. QED  BY <2>1, UnfailedLemma DEF Reconcile
<1>. QED  BY <1>1 DEF Reconciled, Keeps

LEMMA PublishLemma ==
  ASSUME CacheTypes, NEW es, NEW rt, Keeps(rt), NEW W, NEW rest, Goes(rest), NEW deferred,
         Publish(es, rt, W, rest, deferred)
  PROVE  entries' = es /\ RuntimeKept /\ Goes(frames') /\ FramesOf(rest) \subseteq FramesOf(frames')
<1>1. entries' = es
  BY DEF Publish
<1>2. Keeps(runtime')
  BY ReconciledLemma DEF Publish
<1>3. Goes(frames') /\ FramesOf(rest) \subseteq FramesOf(frames')
  BY GoesCalling DEF Publish
<1>. QED  BY <1>1, <1>2, <1>3 DEF Keeps, RuntimeKept

\* Entries go.
LEMMA RemoveLemma ==
  ASSUME CacheTypes, NEW S, NEW rest, Goes(rest), NEW deferred, RemoveEntries(S, rest, deferred)
  PROVE  /\ EntriesKept /\ RuntimeKept /\ Goes(frames')
         /\ FramesOf(rest) \subseteq FramesOf(frames')
<1>. DEFINE gone == S \cap DOMAIN entries
            es == [k \in DOMAIN entries \ gone |-> entries[k]]
            rt == [k \in Keys |-> IF k \in gone THEN Trim([runtime[k] EXCEPT !.failure = "none"])
                                  ELSE runtime[k]]
<1>1. Publish(es, rt, gone, rest, deferred)
  BY DEF RemoveEntries
<1>2. Keeps(rt)
  <2>1. ASSUME NEW k \in Keys
        PROVE  /\ Trim([runtime[k] EXCEPT !.failure = "none"]) \in Runtime
               /\ Trim([runtime[k] EXCEPT !.failure = "none"]).request = runtime[k].request
               /\ runtime[k] \in Runtime
    <3>1. runtime[k] \in Runtime
      BY DEF CacheTypes
    <3>. QED  BY <3>1, UnfailedLemma
  <2>. QED  BY <2>1 DEF Keeps
<1>3. es \in Snapshots(Started) /\ \A k \in DOMAIN es : k \in DOMAIN entries /\ es[k] = entries[k]
  <2>1. DOMAIN entries \ gone \in SUBSET Keys /\ es \in [DOMAIN entries \ gone -> AgedEntry(Started)]
    BY EntriesLemma DEF CacheTypes
  <2>. QED  BY <2>1, SnapshotLemma
<1>. HIDE DEF es, rt, gone
<1>4. /\ entries' = es /\ RuntimeKept /\ Goes(frames')
      /\ FramesOf(rest) \subseteq FramesOf(frames')
  BY <1>1, <1>2, PublishLemma
<1>5. EntriesKept
  BY <1>3, <1>4 DEF EntriesKept, EntryKept
<1>. QED  BY <1>4, <1>5

LEMMA EvictLemma ==
  ASSUME CacheTypes, NEW rest, Goes(rest), NEW deferred, Evict(rest, deferred)
  PROVE  /\ EntriesKept /\ RuntimeKept /\ Goes(frames')
         /\ FramesOf(rest) \subseteq FramesOf(frames')
<1>1. CASE frames' = rest /\ UNCHANGED <<entries, runtime>>
  BY <1>1, UnchangedLemma
<1>2. CASE \E S : RemoveEntries(S, rest, deferred)
  BY <1>2, RemoveLemma
<1>. QED  BY <1>1, <1>2 DEF Evict

LEMMA IdentityLemma ==
  ASSUME CacheTypes, RootsSound, NEW k
  PROVE  Identity(k) \in Identities
<1>1. root \in 0..2 * MaxRoots
  <2>1. root \in Nat /\ restores \in Nat /\ MaxRoots \in Nat
    BY DEF CacheTypes, CacheAssumption
  <2>. QED  BY <2>1 DEF RootsSound
<1>2. MaxRequests \in Nat
  BY BoundsLemma
<1>3. ASSUME k \in DOMAIN entries PROVE entries[k].born \in -1..MaxRequests
  <2>1. entries[k] \in Entry
    BY <1>3, EntriesLemma DEF CacheTypes
  <2>2. entries[k].born \in 0..MaxRequests
    BY <2>1 DEF Entry
  <2>. QED  BY <1>2, <2>2
<1>4. -1 \in -1..MaxRequests
  BY <1>2
<1>. QED  BY <1>1, <1>3, <1>4 DEF Identity, Identities

\* The cancellation of r is begun.
LEMMA AbortLemma ==
  ASSUME CacheInv, NEW r \in 1..Started, NEW rest, Goes(rest), BeginAbort(r, rest)
  PROVE  RuntimeKept /\ Goes(frames')
<1>. DEFINE k == fetches[r].key
            f == [kind |-> "abort", op |-> r, identity |-> Identity(k)]
<1>0. CacheTypes /\ RootsSound
  BY DEF CacheInv
<1>1. Identity(k) \in Identities
  BY <1>0, IdentityLemma
<1>2. f \in StackFrame(Started) /\ ~Opens(f)
  BY <1>1 DEF StackFrame, OtherFrame, Opens
<1>3. runtime' = [runtime EXCEPT ![k].request = 0] /\ frames' = Append(rest, f) \o Listeners({r})
  BY DEF BeginAbort
<1>. HIDE DEF k, f
<1>4. Goes(Append(rest, f))
  BY <1>2, GoesPushed
<1>5. Goes(frames')
  BY <1>3, <1>4, GoesListening
<1>6. RuntimeKept
  BY <1>0, <1>3, KeepsLemma DEF Keeps, RuntimeKept
<1>. QED  BY <1>5, <1>6

LEMMA RequestLemma ==
  ASSUME CacheInv, NEW k \in Keys, HasRequest(k)
  PROVE  runtime[k].request \in 1..Started
BY DEF CacheInv, RequestsSound, RequestOf, HasRequest

LEMMA ForgetLemma ==
  ASSUME CacheInv, NEW k \in Keys, NEW rest, Goes(rest), BeginForget(k, rest)
  PROVE  RuntimeKept /\ Goes(frames')
<1>. DEFINE f == [kind |-> "forget", key |-> k]
<1>1. f \in StackFrame(Started) /\ ~Opens(f)
  BY DEF StackFrame, OtherFrame, Opens
<1>2. Goes(Append(rest, f))
  <2>. HIDE DEF f
  <2>. QED  BY <1>1, GoesPushed
<1>3. CASE HasRequest(k)
  <2>1. BeginAbort(runtime[k].request, Append(rest, f)) /\ runtime[k].request \in 1..Started
    BY <1>3, RequestLemma DEF BeginForget
  <2>. HIDE DEF f
  <2>. QED  BY <1>2, <2>1, AbortLemma DEF CacheInv
<1>4. CASE ~HasRequest(k)
  <2>1. frames' = Append(rest, f) /\ UNCHANGED runtime
    BY <1>4 DEF BeginForget
  <2>. QED  BY <1>2, <2>1, UnchangedLemma DEF CacheInv
<1>. QED  BY <1>3, <1>4

-----------------------------------------------------------------------------
(***************************************************************************)
(* The operations of the application, and what goes on without an answer.  *)
(***************************************************************************)
LEMMA ApplicationLemma ==
  ASSUME CacheInv, Application
  PROVE  Elsewhere /\ Goes(frames)
<1>1. frames = <<>> \/ Runs("call")
  BY Zenon DEF Application
<1>. QED  BY <1>1, GoesOn DEF CacheInv, Elsewhere, Runs

LEMMA TopLemma ==
  ASSUME CacheInv, NEW kind, Runs(kind)
  PROVE  /\ Goes(Below) /\ Top.kind = kind
         /\ Top \in StackFrame(Started) /\ Top \in FramesOf(frames)
         /\ kind \notin {"fetch", "loading", "evicted"} => Elsewhere
BY GoesBelow DEF CacheInv, Runs, Elsewhere

\* A request of which the frame on top speaks.
LEMMA KeyLemma ==
  ASSUME CacheTypes, NEW r \in 1..Started
  PROVE  fetches[r].key \in Keys /\ fetches[r] \in Fetch
BY BoundsLemma DEF Fetch

LEMMA OneEntryLemma ==
  ASSUME CacheTypes, NEW k \in DOMAIN entries, NEW e \in AgedEntry(Started),
         EntryKept(entries[k], e), entries' = [entries EXCEPT ![k] = e]
  PROVE  EntriesKept
<1>1. DOMAIN entries \in SUBSET Keys /\ entries \in [DOMAIN entries -> AgedEntry(Started)]
  BY EntriesLemma DEF CacheTypes
<1>2. entries' \in [DOMAIN entries -> AgedEntry(Started)] /\ DOMAIN entries' = DOMAIN entries
  BY <1>1
<1>3. entries' \in Snapshots(Started)
  BY <1>1, <1>2, SnapshotLemma
<1>4. \A j \in DOMAIN entries' : EntryKept(entries[j], entries'[j])
  BY <1>1 DEF EntryKept
<1>. QED  BY <1>2, <1>3, <1>4 DEF EntriesKept

LEMMA PlainSteps ==
  ASSUME CacheInv,
         \/ Return \/ Microtask \/ FinishBulk \/ RestoreOvertaken \/ EvictSettled \/ FailureOvertaken
         \/ NothingToCancel \/ ReleaseAborted
         \/ \E k \in Keys : Visit(k)
         \/ \E S \in SUBSET Keys : Subscribe(S)
  PROVE  Quietly
<1>0. CacheTypes
  BY DEF CacheInv
<1>1. CASE Return
  <2>1. Elsewhere /\ Goes(frames')
    BY <1>1, TopLemma DEF Return
  <2>. QED  BY <1>0, <1>1, <2>1, UnchangedLemma, CallbackStep DEF Return, history
<1>2. CASE Microtask
  <2>1. Publish(entries, runtime, {}, <<>>, FALSE) /\ frames = <<>>
    BY <1>2 DEF Microtask
  <2>2. Goes(<<>>) /\ Elsewhere
    BY <2>1, GoesOn DEF CacheInv, Elsewhere
  <2>3. UNCHANGED entries /\ RuntimeKept /\ Goes(frames')
    BY <1>0, <2>1, <2>2, KeepsLemma, PublishLemma
  <2>. QED  BY <1>0, <1>2, <2>2, <2>3, UnchangedLemma, CallbackStep DEF Microtask, history
<1>3. CASE FinishBulk
  <2>1. Elsewhere /\ Goes(Below)
    BY <1>3, TopLemma DEF FinishBulk
  <2>2. UNCHANGED entries /\ RuntimeKept /\ Goes(frames')
    <3>1. CASE frames' = Below /\ UNCHANGED <<entries, runtime>>
      BY <1>0, <2>1, <3>1, UnchangedLemma
    <3>2. CASE Publish(entries, runtime, {}, Below, FALSE)
      BY <1>0, <2>1, <3>2, KeepsLemma, PublishLemma
    <3>. QED  BY <1>3, <3>1, <3>2 DEF FinishBulk
  <2>. QED  BY <1>0, <1>3, <2>1, <2>2, UnchangedLemma, CallbackStep DEF FinishBulk, history
<1>4. CASE RestoreOvertaken
  <2>1. Elsewhere /\ Goes(frames')
    BY <1>4, TopLemma DEF RestoreOvertaken
  <2>. QED  BY <1>0, <1>4, <2>1, UnchangedLemma, CallbackStep DEF RestoreOvertaken, history
<1>5. CASE EvictSettled
  <2>1. Elsewhere /\ Goes(Below)
    BY <1>5, TopLemma DEF EvictSettled
  <2>2. EntriesKept /\ RuntimeKept /\ Goes(frames')
    BY <1>0, <1>5, <2>1, EvictLemma DEF EvictSettled
  <2>. QED  BY <1>0, <1>5, <2>1, <2>2, UnchangedLemma, CallbackStep DEF EvictSettled
<1>6. CASE FailureOvertaken
  <2>1. Elsewhere /\ Goes(frames')
    BY <1>6, TopLemma DEF FailureOvertaken
  <2>. QED  BY <1>0, <1>6, <2>1, UnchangedLemma, CallbackStep DEF FailureOvertaken
<1>7. CASE NothingToCancel
  <2>1. Elsewhere /\ Goes(frames')
    BY <1>7, TopLemma DEF NothingToCancel
  <2>2. Keeps(runtime')
    BY <1>0, <1>7, KeepsLemma DEF NothingToCancel
  <2>. QED
    BY <1>0, <1>7, <2>1, <2>2, UnchangedLemma, CallbackStep DEF NothingToCancel, Keeps, RuntimeKept
<1>8. CASE ReleaseAborted
  <2>1. Elsewhere /\ Goes(frames')
    BY <1>8, TopLemma DEF ReleaseAborted
  <2>2. Keeps(runtime')
    BY <1>0, <1>8, KeepsLemma DEF ReleaseAborted
  <2>. QED
    BY <1>0, <1>8, <2>1, <2>2, UnchangedLemma, CallbackStep DEF ReleaseAborted, Keeps, RuntimeKept
<1>9. ASSUME NEW k \in Keys, Visit(k) PROVE Quietly
  <2>1. Elsewhere /\ Goes(frames')
    BY <1>9, ApplicationLemma DEF Visit
  <2>. QED  BY <1>0, <1>9, <2>1, UnchangedLemma, CallbackStep DEF Visit, history
<1>10. ASSUME NEW S \in SUBSET Keys, Subscribe(S) PROVE Quietly
  <2>1. Elsewhere /\ Goes(frames')
    BY <1>10, ApplicationLemma DEF Subscribe
  <2>. QED  BY <1>0, <1>10, <2>1, UnchangedLemma, CallbackStep DEF Subscribe
<1>. QED  BY <1>1, <1>2, <1>3, <1>4, <1>5, <1>6, <1>7, <1>8, <1>9, <1>10

LEMMA CancellingSteps ==
  ASSUME CacheInv,
         \/ \E k \in Keys : Abort(k) \/ Forget(k)
         \/ \E S \in SUBSET Keys, settles \in BOOLEAN : Bulk(S, settles)
         \/ ClearIdle \/ BulkForget \/ Forgotten
  PROVE  Quietly
<1>0. CacheTypes
  BY DEF CacheInv
<1>1. ASSUME NEW k \in Keys, Abort(k) PROVE Quietly
  <2>1. Elsewhere /\ Goes(frames)
    BY <1>1, ApplicationLemma DEF Abort
  <2>2. BeginAbort(runtime[k].request, frames) /\ runtime[k].request \in 1..Started
    BY <1>1, RequestLemma DEF Abort
  <2>3. RuntimeKept /\ Goes(frames')
    BY <1>0, <2>1, <2>2, AbortLemma
  <2>. QED  BY <1>0, <1>1, <2>1, <2>3, UnchangedLemma, CallbackStep DEF Abort, history
<1>2. ASSUME NEW k \in Keys, Forget(k) PROVE Quietly
  <2>1. Elsewhere /\ Goes(frames)
    BY <1>2, ApplicationLemma DEF Forget
  <2>2. RuntimeKept /\ Goes(frames')
    BY <1>2, <2>1, ForgetLemma DEF Forget
  <2>. QED  BY <1>0, <1>2, <2>1, <2>2, UnchangedLemma, CallbackStep DEF Forget, history
<1>3. ASSUME NEW S \in SUBSET Keys, NEW settles \in BOOLEAN, Bulk(S, settles) PROVE Quietly
  <2>. DEFINE f == [kind |-> "bulk", keys |-> S, live |-> InFlight, settles |-> settles]
  <2>1. Elsewhere /\ Goes(frames)
    BY <1>3, ApplicationLemma DEF Bulk
  <2>2. InFlight \subseteq 1..Started
    BY RequestLemma DEF InFlight
  <2>3. f \in StackFrame(Started) /\ ~Opens(f)
    BY <2>2 DEF StackFrame, OtherFrame, Opens
  <2>4. frames' = Append(frames, f)
    BY <1>3 DEF Bulk
  <2>5. Goes(frames')
    <3>. HIDE DEF f
    <3>. QED  BY <2>1, <2>3, <2>4, GoesPushed
  <2>. QED  BY <1>0, <1>3, <2>1, <2>5, UnchangedLemma, CallbackStep DEF Bulk, history
<1>4. CASE ClearIdle
  <2>1. Elsewhere /\ Goes(frames)
    BY <1>4, ApplicationLemma DEF ClearIdle
  <2>2. EntriesKept /\ RuntimeKept /\ Goes(frames')
    BY <1>0, <1>4, <2>1, RemoveLemma DEF ClearIdle
  <2>. QED  BY <1>0, <1>4, <2>1, <2>2, UnchangedLemma, CallbackStep DEF ClearIdle, history
<1>5. CASE BulkForget
  <2>1. PICK k \in Top.keys : BeginForget(k, Append(Below, [Top EXCEPT !.keys = @ \ {k}]))
    BY <1>5 DEF BulkForget
  <2>. DEFINE f == [Top EXCEPT !.keys = @ \ {k}]
  <2>2. Elsewhere /\ Goes(Below) /\ Top \in StackFrame(Started) /\ Top.kind = "bulk"
    BY <1>5, TopLemma DEF BulkForget
  <2>3. Top \in [kind : {"bulk"}, keys : SUBSET Keys, live : SUBSET (1..Started), settles : BOOLEAN]
    BY <2>2, FrameLemma
  <2>4. f \in StackFrame(Started) /\ ~Opens(f) /\ k \in Keys
    BY <2>1, <2>3 DEF StackFrame, OtherFrame, Opens
  <2>5. Goes(Append(Below, f))
    <3>. HIDE DEF f
    <3>. QED  BY <2>2, <2>4, GoesPushed
  <2>6. RuntimeKept /\ Goes(frames')
    BY <2>1, <2>4, <2>5, ForgetLemma
  <2>. QED  BY <1>0, <1>5, <2>2, <2>6, UnchangedLemma, CallbackStep DEF BulkForget, history
<1>6. CASE Forgotten
  <2>1. Elsewhere /\ Goes(Below)
    BY <1>6, TopLemma DEF Forgotten
  <2>2. EntriesKept /\ RuntimeKept /\ Goes(frames')
    <3>1. CASE frames' = Below /\ UNCHANGED <<entries, runtime>>
      BY <1>0, <2>1, <3>1, UnchangedLemma
    <3>2. CASE frames' = Below /\ UNCHANGED entries /\ runtime' = [runtime EXCEPT ![Top.key] = NoRuntime]
      <4>1. Keeps(runtime')
        BY <1>0, <3>2, KeepsLemma
      <4>. QED  BY <1>0, <2>1, <3>2, <4>1, UnchangedLemma DEF Keeps, RuntimeKept
    <3>3. CASE RemoveEntries({Top.key}, Below, FALSE)
      BY <1>0, <2>1, <3>3, RemoveLemma
    <3>. QED  BY <1>6, <3>1, <3>2, <3>3 DEF Forgotten
  <2>. QED  BY <1>0, <1>6, <2>1, <2>2, UnchangedLemma, CallbackStep DEF Forgotten, history
<1>. QED  BY <1>1, <1>2, <1>3, <1>4, <1>5, <1>6

\* The cancellation is shown.
LEMMA AbortedStep ==
  ASSUME CacheInv, Aborted
  PROVE  Quietly
<1>. DEFINE k == fetches[Top.op].key
            old == entries[k]
            failed == old.failed \/ fetches[Top.op].retrying \/ runtime[k].failure # "none"
            e == [old EXCEPT !.status = IF @ = "Pending" THEN "Idle" ELSE @,
                             !.refreshing = IF old.status = "Pending" THEN @ ELSE FALSE,
                             !.failed = failed]
            f == [Top EXCEPT !.kind = "release"]
            es == [entries EXCEPT
                     ![k].status = IF @ = "Pending" THEN "Idle" ELSE @,
                     ![k].refreshing = IF old.status = "Pending" THEN @ ELSE FALSE,
                     ![k].failed = @ \/ fetches[Top.op].retrying \/ runtime[k].failure # "none"]
<1>0. CacheTypes
  BY DEF CacheInv
<1>1. /\ Elsewhere /\ Goes(Below) /\ Top \in StackFrame(Started) /\ Top.kind = "abort"
      /\ k \in DOMAIN entries
  BY TopLemma DEF Aborted, Shows
<1>2. Publish(es, runtime, {k}, Append(Below, f), FALSE)
  BY DEF Aborted
<1>3. old \in AgedEntry(Started) /\ old \in Entry
  BY <1>0, <1>1, EntriesLemma DEF CacheTypes
<1>4. e \in AgedEntry(Started) /\ EntryKept(old, e)
  <2>. HIDE DEF old, k
  <2>1. failed \in BOOLEAN
    BY <1>3 DEF Entry
  <2>. HIDE DEF failed
  <2>2. e \in Entry
    BY <1>3, <2>1 DEF Entry, Statuses
  <2>3. /\ e.data = old.data /\ e.invalidated = old.invalidated
        /\ e.status = "Success" => old.status = "Success"
    BY <1>3 DEF Entry
  <2>. QED  BY <1>3, <2>2, <2>3 DEF AgedEntry, EntryKept
<1>5. entries' = es /\ RuntimeKept /\ Goes(frames')
  <2>1. Top \in [kind : {"abort", "release"}, op : 1..Started, identity : Identities]
    BY <1>1, FrameLemma
  <2>2. f \in StackFrame(Started) /\ ~Opens(f)
    BY <2>1 DEF StackFrame, OtherFrame, Opens
  <2>3. Goes(Append(Below, f))
    <3>. HIDE DEF f
    <3>. QED  BY <1>1, <2>2, GoesPushed
  <2>. HIDE DEF es, f
  <2>. QED  BY <1>0, <1>2, <2>3, KeepsLemma, PublishLemma
<1>6. entries' = [entries EXCEPT ![k] = e]
  BY <1>1, <1>5
<1>7. EntriesKept
  <2>. HIDE DEF e, old
  <2>. QED  BY <1>0, <1>1, <1>4, <1>6, OneEntryLemma DEF old
<1>. QED  BY <1>0, <1>1, <1>5, <1>7, UnchangedLemma, CallbackStep DEF Aborted, history

-----------------------------------------------------------------------------
(***************************************************************************)
(* A request on the way to its loader, or to its end without one.          *)
(***************************************************************************)
\* What is known of the requests, in q, is about the same requests.
KeepsFetches(q) ==
  /\ q \in Seq(Fetch) /\ Len(q) = Started
  /\ \A r \in 1..Started : /\ q[r].key = fetches[r].key
                           /\ fetches[r].invalidated => q[r].invalidated

LEMMA OneFetchLemma ==
  ASSUME CacheTypes, NEW q, KeepsFetches(q), NEW r \in 1..Started, NEW f \in Fetch,
         f.key = q[r].key, q[r].invalidated => f.invalidated
  PROVE  KeepsFetches([q EXCEPT ![r] = f])
<1>1. q \in [1..Started -> Fetch] /\ Started \in Nat
  BY BoundsLemma DEF KeepsFetches
<1>2. [q EXCEPT ![r] = f] \in [1..Started -> Fetch]
  BY <1>1
<1>3. [q EXCEPT ![r] = f] \in Seq(Fetch) /\ Len([q EXCEPT ![r] = f]) = Started
  BY <1>1, <1>2
<1>. QED  BY <1>1, <1>3 DEF KeepsFetches

LEMMA SameFetchesLemma == CacheTypes => KeepsFetches(fetches)
BY DEF CacheTypes, KeepsFetches, Started

LEMMA SettledLemma ==
  ASSUME CacheTypes, NEW q, KeepsFetches(q), NEW r \in 1..Started, NEW b \in BOOLEAN
  PROVE  KeepsFetches([q EXCEPT ![r].settled = b])
<1>. DEFINE f == [q[r] EXCEPT !.settled = b]
<1>1. q[r] \in Fetch
  BY DEF KeepsFetches
<1>2. f \in Fetch /\ f.key = q[r].key /\ f.invalidated = q[r].invalidated
  BY <1>1 DEF Fetch
<1>. HIDE DEF f
<1>3. KeepsFetches([q EXCEPT ![r] = f])
  BY <1>2, OneFetchLemma
<1>. QED  BY <1>3 DEF f

LEMMA LoaderLemma ==
  ASSUME CacheTypes, NEW q, KeepsFetches(q), NEW r \in 1..Started, NEW l \in {"none", "running", "done"}
  PROVE  KeepsFetches([q EXCEPT ![r].loader = l])
<1>. DEFINE f == [q[r] EXCEPT !.loader = l]
<1>1. q[r] \in Fetch
  BY DEF KeepsFetches
<1>2. f \in Fetch /\ f.key = q[r].key /\ f.invalidated = q[r].invalidated
  BY <1>1 DEF Fetch
<1>. HIDE DEF f
<1>3. KeepsFetches([q EXCEPT ![r] = f])
  BY <1>2, OneFetchLemma
<1>. QED  BY <1>3 DEF f

LEMMA AdoptedLemma ==
  ASSUME CacheTypes, NEW r \in 0..Started, NEW s \in 1..Started, r < s
  PROVE  /\ KeepsFetches(Adopted(fetches, r, s))
         /\ \A i \in 1..Started :
              LET f == Adopted(fetches, r, s)[i]
              IN  /\ f.settled = fetches[i].settled /\ f.loader = fetches[i].loader
                  /\ f.follows = fetches[i].follows \/ f.follows > i
<1>0. KeepsFetches(fetches)
  BY SameFetchesLemma
<1>1. CASE r # 0 /\ ~fetches[r].settled /\ fetches[r].follows = 0
  <2>. DEFINE f == [fetches[r] EXCEPT !.follows = s]
  <2>1. r \in 1..Started /\ s \in 0..MaxRequests /\ fetches[r] \in Fetch
    BY <1>1, BoundsLemma DEF CacheTypes
  <2>2. /\ f \in Fetch /\ f.key = fetches[r].key /\ f.invalidated = fetches[r].invalidated
        /\ f.settled = fetches[r].settled /\ f.loader = fetches[r].loader /\ f.follows = s
    BY <2>1 DEF Fetch
  <2>3. Adopted(fetches, r, s) = [fetches EXCEPT ![r] = f]
    BY <1>1 DEF Adopted
  <2>. HIDE DEF f
  <2>4. KeepsFetches([fetches EXCEPT ![r] = f])
    BY <1>0, <2>1, <2>2, OneFetchLemma
  <2>5. \A i \in 1..Started : [fetches EXCEPT ![r] = f][i] = IF i = r THEN f ELSE fetches[i]
    BY DEF CacheTypes, Started
  <2>. QED  BY <2>2, <2>3, <2>4, <2>5
<1>2. CASE ~(r # 0 /\ ~fetches[r].settled /\ fetches[r].follows = 0)
  <2>1. Adopted(fetches, r, s) = fetches
    BY <1>2 DEF Adopted
  <2>. QED  BY <1>0, <2>1
<1>. QED  BY <1>1, <1>2

LEMMA AdvanceLemma ==
  ASSUME CacheTypes, Goes(frames'), NEW r \in 1..Started, Progress(r),
         \/ Elsewhere \/ frames = <<>> \/ Top.op # r
         \/ fetches'[r].settled \/ fetches'[r].loader = "running"
         \/ Underway(r, FramesOf(frames'))
  PROVE  Advances(r)
BY DEF Advances, Underway, Goes, Elsewhere

LEMMA NotedLemma == CacheTypes /\ UNCHANGED invalidatedAt => Noted
BY DEF CacheTypes, Noted

LEMMA StillFetches == KeepsFetches(fetches') => FetchesKept
BY DEF KeepsFetches, FetchesKept

\* A frame of a request, in the place of the one on top.
LEMMA RequestFrames ==
  ASSUME CacheInv, NEW kind \in {"fetch", "loading", "evicted", "load"}, Runs(kind)
  PROVE  /\ CacheTypes /\ Goes(Below) /\ Top \in StackFrame(Started) /\ Top.kind = kind
         /\ Top.op \in 1..Started /\ Top.superseded \in 0..Started /\ Top.superseded < Top.op
         /\ Top.op \in Nat /\ Started \in Nat
<1>1. CacheTypes /\ Goes(Below) /\ Top \in StackFrame(Started) /\ Top.kind = kind
  BY TopLemma DEF CacheInv
<1>2. Top.op \in 1..Started /\ Top.superseded \in Nat /\ Top.superseded < Top.op
  BY <1>1, FrameLemma
<1>. QED  BY <1>1, <1>2, BoundsLemma

LEMMA MarkedLemma ==
  ASSUME CacheTypes, NEW k \in Keys, NEW had, had = "none" \/ k \in DOMAIN entries,
         NEW r \in 1..Started, had = "none" => Unloaded(entries, k), entries' = Marked(k, had, r)
  PROVE  EntriesKept
<1>1. DOMAIN entries \in SUBSET Keys /\ entries \in [DOMAIN entries -> AgedEntry(Started)]
  BY EntriesLemma DEF CacheTypes
<1>2. CASE had = "none"
  <2>. DEFINE e == InitialEntry(r)
              es == [j \in DOMAIN entries \cup {k} |-> IF j = k THEN e ELSE entries[j]]
  <2>1. e \in AgedEntry(Started) /\ e.data = 0 /\ e.status # "Success"
    <3>1. r \in 0..MaxRequests /\ 0 \in 0..Written /\ 0 \in Loadable(Started)
      BY BoundsLemma DEF CacheTypes, Loadable
    <3>. QED  BY <3>1 DEF InitialEntry, AgedEntry, Entry, Statuses
  <2>2. entries' = es
    BY <1>2 DEF Marked
  <2>. HIDE DEF e
  <2>3. es \in [DOMAIN entries \cup {k} -> AgedEntry(Started)]
    BY <1>1, <2>1
  <2>4. entries' \in Snapshots(Started) /\ DOMAIN entries' = DOMAIN entries \cup {k}
    <3>. HIDE DEF es
    <3>. QED  BY <1>1, <2>2, <2>3, SnapshotLemma
  <2>5. \A j \in DOMAIN entries' : entries'[j] = IF j = k THEN e ELSE entries[j]
    BY <2>2
  <2>6. \A j \in DOMAIN entries' :
          IF j \in DOMAIN entries THEN EntryKept(entries[j], entries'[j]) ELSE entries'[j].data = 0
    BY <1>2, <2>1, <2>4, <2>5 DEF EntryKept, Unloaded
  <2>. QED  BY <2>4, <2>6 DEF EntriesKept
<1>3. CASE had = "Success"
  <2>. DEFINE e == [entries[k] EXCEPT !.refreshing = TRUE]
  <2>1. k \in DOMAIN entries /\ entries[k] \in AgedEntry(Started)
    BY <1>1, <1>3
  <2>2. /\ e \in Entry /\ e.data = entries[k].data /\ e.status = entries[k].status
        /\ e.invalidated = entries[k].invalidated
    BY <2>1 DEF AgedEntry, Entry
  <2>3. entries' = [entries EXCEPT ![k] = e]
    BY <1>3 DEF Marked
  <2>. HIDE DEF e
  <2>4. e \in AgedEntry(Started) /\ EntryKept(entries[k], e)
    BY <2>1, <2>2 DEF AgedEntry, EntryKept
  <2>. QED  BY <2>1, <2>3, <2>4, OneEntryLemma
<1>4. CASE had \notin {"none", "Success"}
  <2>. DEFINE e == [entries[k] EXCEPT !.status = "Pending", !.error = FALSE]
  <2>1. k \in DOMAIN entries /\ entries[k] \in AgedEntry(Started)
    BY <1>1, <1>4
  <2>2. e \in Entry /\ e.data = entries[k].data /\ e.status = "Pending"
    BY <2>1 DEF AgedEntry, Entry, Statuses
  <2>3. entries' = [entries EXCEPT ![k] = e]
    BY <1>4, <2>1 DEF Marked
  <2>. HIDE DEF e
  <2>4. e \in AgedEntry(Started) /\ EntryKept(entries[k], e)
    BY <2>1, <2>2 DEF AgedEntry, EntryKept
  <2>. QED  BY <2>1, <2>3, <2>4, OneEntryLemma
<1>. QED  BY <1>2, <1>3, <1>4

LEMMA MarkLoadingStep ==
  ASSUME CacheInv, MarkLoading
  PROVE  Quietly
<1>. DEFINE k == fetches[Top.op].key
            g == [kind |-> "loading", op |-> Top.op, superseded |-> Top.superseded,
                  deferred |-> Top.deferred]
            es == Marked(k, Top.had, Top.op)
            d == Top.deferred
<1>1. /\ CacheTypes /\ Goes(Below) /\ Top \in StackFrame(Started) /\ Top.kind = "fetch"
      /\ Top.op \in 1..Started /\ Top.superseded \in 0..Started /\ Top.superseded < Top.op
  BY RequestFrames DEF MarkLoading
<1>2. /\ Top.had = "none" \/ k \in DOMAIN entries
      /\ Publish(es, runtime, {k}, Append(Below, g), d)
      /\ UNCHANGED <<root, fetches, restores, invalidatedAt>>
  BY DEF MarkLoading
<1>3. g \in StackFrame(Started) /\ ~Opens(g) /\ g.kind = "loading" /\ g.op = Top.op
  <2>1. Top.deferred \in BOOLEAN /\ Top.superseded \in Nat
    BY <1>1, FrameLemma
  <2>. QED  BY <1>1, <2>1 DEF StackFrame, FetchFrame, Opens
<1>. HIDE DEF g, es, d
<1>4. Goes(Append(Below, g)) /\ g \in FramesOf(Append(Below, g))
  BY <1>1, <1>3, GoesPushed
<1>5. /\ entries' = es /\ RuntimeKept /\ Goes(frames') /\ g \in FramesOf(frames')
  BY <1>1, <1>2, <1>4, KeepsLemma, PublishLemma
<1>6. k \in Keys
  BY <1>1, KeyLemma
<1>7. Top.had = "none" => Unloaded(entries, k)
  <2>1. Top \in FramesOf(frames)
    BY TopLemma DEF MarkLoading
  <2>. QED  BY <1>1, <2>1 DEF CacheInv, StackSound, NoneLoaded, FoundNone
<1>8. EntriesKept
  <2>. HIDE DEF k
  <2>. QED  BY <1>1, <1>2, <1>5, <1>6, <1>7, MarkedLemma DEF es
<1>9. ASSUME NEW r \in 1..Started PROVE Advances(r)
  <2>1. Progress(r)
    BY <1>2 DEF Progress
  <2>2. Top.op = r => Underway(r, FramesOf(frames'))
    BY <1>3, <1>5 DEF Underway
  <2>. QED  BY <1>1, <1>5, <2>1, <2>2, AdvanceLemma
<1>10. FetchesKept
  BY <1>1, <1>2, SameFetchesLemma, StillFetches
<1>. QED
  BY <1>1, <1>2, <1>5, <1>8, <1>9, <1>10, NotedLemma, UnchangedLemma, QuietStep

LEMMA DomainLemma ==
  ASSUME CacheTypes, NEW q, KeepsFetches(q)
  PROVE  DOMAIN q = 1..Started /\ \A r \in 1..Started : q[r] \in Fetch
BY LenProperties DEF KeepsFetches

LEMMA OnTheWaySteps ==
  ASSUME CacheInv, MarkingFails \/ EvictForLoading \/ Superseded \/ CallLoader \/ Loading
  PROVE  Quietly
<1>1. CASE MarkingFails
  <2>1. /\ CacheTypes /\ Goes(frames') /\ Top.op \in 1..Started
        /\ UNCHANGED <<entries, root, restores, invalidatedAt>>
        /\ fetches' = [fetches EXCEPT ![Top.op].settled = TRUE]
    BY <1>1, RequestFrames DEF MarkingFails
  <2>2. RuntimeKept
    <3>. DEFINE k == fetches[Top.op].key
                rec == [runtime[k] EXCEPT !.request = 0]
    <3>1. CASE UNCHANGED runtime
      BY <2>1, <3>1, UnchangedLemma
    <3>2. CASE runtime' = [runtime EXCEPT ![k] = Trim(rec)]
      <4>1. rec \in Runtime /\ rec.request = 0
        <5>1. runtime[k] \in Runtime /\ 0 \in 0..MaxRequests
          BY <2>1, KeyLemma, BoundsLemma DEF CacheTypes
        <5>. QED  BY <5>1 DEF Runtime
      <4>. HIDE DEF rec, k
      <4>2. Trim(rec) \in Runtime /\ Trim(rec).request = 0
        BY <2>1, <4>1, TrimLemma
      <4>. QED  BY <2>1, <3>2, <4>2 DEF RuntimeKept, CacheTypes
    <3>. QED  BY <1>1, <3>1, <3>2 DEF MarkingFails
  <2>3. FetchesKept
    BY <2>1, SameFetchesLemma, SettledLemma, StillFetches
  <2>4. ASSUME NEW r \in 1..Started PROVE Advances(r)
    <3>1. /\ fetches[r] \in Fetch
          /\ fetches'[r] = IF r = Top.op THEN [fetches[r] EXCEPT !.settled = TRUE] ELSE fetches[r]
      BY <2>1, SameFetchesLemma, DomainLemma
    <3>2. Progress(r) /\ (r = Top.op => fetches'[r].settled)
      BY <3>1 DEF Progress, Fetch
    <3>. QED  BY <2>1, <3>2, AdvanceLemma
  <2>. QED  BY <2>1, <2>2, <2>3, <2>4, NotedLemma, UnchangedLemma, QuietStep
<1>2. CASE EvictForLoading
  <2>. DEFINE g == [kind |-> "evicted", op |-> Top.op, superseded |-> Top.superseded]
  <2>1. /\ CacheTypes /\ Goes(Below) /\ Top.op \in 1..Started
        /\ Top.superseded \in 0..Started /\ Top.superseded < Top.op
        /\ Evict(Append(Below, g), Top.deferred)
        /\ UNCHANGED <<root, fetches, restores, invalidatedAt>>
    BY <1>2, RequestFrames DEF EvictForLoading
  <2>2. g \in StackFrame(Started) /\ ~Opens(g) /\ g.kind = "evicted" /\ g.op = Top.op
    <3>1. Top.superseded \in Nat
      BY <2>1
    <3>. QED  BY <2>1, <3>1 DEF StackFrame, FetchFrame, Opens
  <2>. HIDE DEF g
  <2>3. Goes(Append(Below, g)) /\ g \in FramesOf(Append(Below, g))
    BY <2>1, <2>2, GoesPushed
  <2>4. EntriesKept /\ RuntimeKept /\ Goes(frames') /\ g \in FramesOf(frames')
    BY <2>1, <2>3, EvictLemma
  <2>5. ASSUME NEW r \in 1..Started PROVE Advances(r)
    <3>1. Progress(r)
      BY <2>1 DEF Progress
    <3>2. Top.op = r => Underway(r, FramesOf(frames'))
      BY <2>2, <2>4 DEF Underway
    <3>. QED  BY <2>1, <2>4, <3>1, <3>2, AdvanceLemma
  <2>6. FetchesKept
    BY <2>1, SameFetchesLemma, StillFetches
  <2>. QED  BY <2>1, <2>4, <2>5, <2>6, NotedLemma, UnchangedLemma, QuietStep
<1>3. CASE Superseded
  <2>. DEFINE q == Adopted(fetches, Top.superseded, Top.op)
  <2>1. /\ CacheTypes /\ Goes(frames') /\ Top.op \in 1..Started
        /\ Top.superseded \in 0..Started /\ Top.superseded < Top.op
        /\ UNCHANGED <<entries, root, runtime, restores, invalidatedAt>>
        /\ fetches' = [q EXCEPT ![Top.op].settled = TRUE]
    BY <1>3, RequestFrames DEF Superseded, history
  <2>2. /\ KeepsFetches(q)
        /\ \A i \in 1..Started :
             /\ q[i].settled = fetches[i].settled /\ q[i].loader = fetches[i].loader
             /\ q[i].follows = fetches[i].follows \/ q[i].follows > i
    BY <2>1, AdoptedLemma
  <2>. HIDE DEF q
  <2>3. FetchesKept
    BY <2>1, <2>2, SettledLemma, StillFetches
  <2>4. ASSUME NEW r \in 1..Started PROVE Advances(r)
    <3>1. /\ q[r] \in Fetch
          /\ fetches'[r] = IF r = Top.op THEN [q[r] EXCEPT !.settled = TRUE] ELSE q[r]
      BY <2>1, <2>2, DomainLemma
    <3>2. Progress(r) /\ (r = Top.op => fetches'[r].settled)
      BY <2>2, <3>1 DEF Progress, Fetch
    <3>. QED  BY <2>1, <3>2, AdvanceLemma
  <2>. QED  BY <2>1, <2>3, <2>4, NotedLemma, UnchangedLemma, QuietStep
<1>4. CASE CallLoader
  <2>. DEFINE g == [Top EXCEPT !.kind = "load"]
  <2>1. /\ CacheTypes /\ Goes(Below) /\ Top \in StackFrame(Started) /\ Top.kind = "evicted"
        /\ Top.op \in 1..Started /\ Top.superseded < Top.op
        /\ UNCHANGED <<entries, root, runtime, restores, invalidatedAt>>
        /\ fetches' = [fetches EXCEPT ![Top.op].loader = "running"]
        /\ frames' = Below \o <<g, CallFrame>>
    BY <1>4, RequestFrames DEF CallLoader, history
  <2>2. g \in StackFrame(Started) /\ ~Opens(g)
    <3>1. Top \in [kind : {"evicted", "load"}, op : 1..Started, superseded : Nat]
      BY <2>1, FrameLemma
    <3>. QED  BY <2>1, <3>1 DEF StackFrame, FetchFrame, Opens
  <2>3. Goes(frames')
    <3>. HIDE DEF g
    <3>1. Goes(Append(Below, g))
      BY <2>1, <2>2, GoesPushed
    <3>2. Goes(Append(Append(Below, g), CallFrame))
      BY <3>1, GoesCalling
    <3>3. Below \in Seq(StackFrame(Started)) /\ CallFrame \in StackFrame(Started)
      BY <2>1, CallFrameLemma DEF Goes, Stack
    <3>4. Below \o <<g, CallFrame>> = Append(Append(Below, g), CallFrame)
      BY <2>2, <3>3
    <3>. QED  BY <2>1, <3>2, <3>4
  <2>4. FetchesKept
    BY <2>1, SameFetchesLemma, LoaderLemma, StillFetches
  <2>5. ASSUME NEW r \in 1..Started PROVE Advances(r)
    <3>1. /\ fetches[r] \in Fetch
          /\ fetches'[r] = IF r = Top.op THEN [fetches[r] EXCEPT !.loader = "running"] ELSE fetches[r]
      BY <2>1, SameFetchesLemma, DomainLemma
    <3>2. Progress(r) /\ (r = Top.op => fetches'[r].loader = "running")
      BY <3>1 DEF Progress, Fetch
    <3>. QED  BY <2>1, <2>3, <3>2, AdvanceLemma
  <2>. QED  BY <2>1, <2>3, <2>4, <2>5, NotedLemma, UnchangedLemma, QuietStep
<1>5. CASE Loading
  <2>1. /\ CacheTypes /\ Goes(frames') /\ Top.op \in 1..Started /\ Elsewhere
        /\ Top.superseded \in 0..Started /\ Top.superseded < Top.op
        /\ UNCHANGED <<entries, root, runtime, restores, invalidatedAt>>
        /\ fetches' = Adopted(fetches, Top.superseded, Top.op)
    BY <1>5, RequestFrames, TopLemma DEF Loading, history
  <2>2. /\ KeepsFetches(fetches')
        /\ \A i \in 1..Started :
             /\ fetches'[i].settled = fetches[i].settled /\ fetches'[i].loader = fetches[i].loader
             /\ fetches'[i].follows = fetches[i].follows \/ fetches'[i].follows > i
    BY <2>1, AdoptedLemma
  <2>3. ASSUME NEW r \in 1..Started PROVE Advances(r)
    <3>1. Progress(r)
      BY <2>2 DEF Progress
    <3>. QED  BY <2>1, <3>1, AdvanceLemma
  <2>. QED  BY <2>1, <2>2, <2>3, StillFetches, NotedLemma, UnchangedLemma, QuietStep
<1>. QED  BY <1>1, <1>2, <1>3, <1>4, <1>5

-----------------------------------------------------------------------------
(***************************************************************************)
(* The end of a request: clear(), a late answer, a failure.                *)
(***************************************************************************)
LEMMA BulkAbortStep ==
  ASSUME CacheInv, BulkAbort
  PROVE  Quietly
<1>1. PICK r \in Top.live :
        /\ IF IsCurrent(r) THEN BeginAbort(r, Append(Below, [Top EXCEPT !.live = @ \ {r}]))
           ELSE frames' = Append(Below, [Top EXCEPT !.live = @ \ {r}]) /\ UNCHANGED runtime
        /\ fetches' = [fetches EXCEPT ![r].settled = @ \/ (Top.settles /\ fetches[r].follows = 0)]
  BY DEF BulkAbort
<1>. DEFINE f == [Top EXCEPT !.live = @ \ {r}]
            b == fetches[r].settled \/ (Top.settles /\ fetches[r].follows = 0)
<1>2. /\ Elsewhere /\ Goes(Below) /\ Top \in StackFrame(Started) /\ Top.kind = "bulk"
      /\ UNCHANGED <<entries, root, restores, invalidatedAt>>
  BY TopLemma DEF BulkAbort, history
<1>3. Top \in [kind : {"bulk"}, keys : SUBSET Keys, live : SUBSET (1..Started), settles : BOOLEAN]
  BY <1>2, FrameLemma
<1>4. CacheTypes /\ r \in 1..Started
  BY <1>1, <1>3 DEF CacheInv
<1>5. f \in StackFrame(Started) /\ ~Opens(f)
  BY <1>3 DEF StackFrame, OtherFrame, Opens
<1>6. /\ IF IsCurrent(r) THEN BeginAbort(r, Append(Below, f))
         ELSE frames' = Append(Below, f) /\ UNCHANGED runtime
      /\ fetches' = [fetches EXCEPT ![r].settled = b]
  BY <1>1
<1>7. fetches[r] \in Fetch /\ b \in BOOLEAN /\ (fetches[r].settled => b)
  BY <1>4, KeyLemma
<1>. HIDE DEF f, b
<1>8. Goes(Append(Below, f))
  BY <1>2, <1>5, GoesPushed
<1>9. RuntimeKept /\ Goes(frames')
  BY <1>4, <1>6, <1>8, AbortLemma, UnchangedLemma
<1>10. FetchesKept
  BY <1>4, <1>6, <1>7, SameFetchesLemma, SettledLemma, StillFetches
<1>11. ASSUME NEW i \in 1..Started PROVE Advances(i)
  <2>1. /\ fetches[i] \in Fetch
        /\ fetches'[i] = IF i = r THEN [fetches[r] EXCEPT !.settled = b] ELSE fetches[i]
    BY <1>4, <1>6, SameFetchesLemma, DomainLemma
  <2>2. Progress(i)
    BY <1>7, <2>1 DEF Progress, Fetch
  <2>. QED  BY <1>2, <1>4, <1>9, <2>2, AdvanceLemma
<1>. QED  BY <1>2, <1>4, <1>9, <1>10, <1>11, NotedLemma, UnchangedLemma, QuietStep

LEMMA AnsweredLemma ==
  ASSUME CacheTypes, NEW r \in DOMAIN fetches, fetches' = Settled(r)
  PROVE  r \in 1..Started /\ FetchesKept /\ \A i \in 1..Started : Progress(i)
<1>. DEFINE f == [fetches[r] EXCEPT !.loader = "done",
                                    !.settled = @ \/ fetches[r].follows = 0]
<1>1. r \in 1..Started /\ fetches[r] \in Fetch
  BY SameFetchesLemma, DomainLemma
<1>2. /\ f \in Fetch /\ f.key = fetches[r].key /\ f.invalidated = fetches[r].invalidated
      /\ f.follows = fetches[r].follows /\ (fetches[r].settled => f.settled)
      /\ f.settled \/ f.follows # 0
  BY <1>1 DEF Fetch
<1>3. fetches' = [fetches EXCEPT ![r] = f]
  BY <1>1 DEF Settled
<1>. HIDE DEF f
<1>4. KeepsFetches(fetches')
  BY <1>1, <1>2, <1>3, SameFetchesLemma, OneFetchLemma
<1>5. ASSUME NEW i \in 1..Started PROVE Progress(i)
  <2>1. fetches'[i] = IF i = r THEN f ELSE fetches[i]
    BY <1>3, SameFetchesLemma, DomainLemma
  <2>. QED  BY <1>2, <2>1 DEF Progress
<1>. QED  BY <1>1, <1>4, <1>5, StillFetches

LEMMA LateAnswerStep ==
  ASSUME CacheInv, NEW r \in DOMAIN fetches, LateAnswer(r)
  PROVE  Quietly
<1>1. CacheTypes /\ Elsewhere /\ Goes(frames')
  BY GoesOn DEF LateAnswer, Answers, CacheInv, Elsewhere
<1>2. FetchesKept /\ \A i \in 1..Started : Progress(i)
  BY <1>1, AnsweredLemma DEF LateAnswer
<1>3. \A i \in 1..Started : Advances(i)
  BY <1>1, <1>2, AdvanceLemma
<1>. QED
  BY <1>1, <1>2, <1>3, NotedLemma, UnchangedLemma, QuietStep DEF LateAnswer, history

LEMMA LoaderFailsStep ==
  ASSUME CacheInv, NEW r \in DOMAIN fetches, LoaderFails(r)
  PROVE  Quietly
<1>. DEFINE g == [kind |-> "describe", op |-> r]
<1>1. CacheTypes /\ Elsewhere /\ Goes(<<>>)
  BY GoesOn DEF LoaderFails, Answers, CacheInv, Elsewhere
<1>2. r \in 1..Started /\ FetchesKept /\ \A i \in 1..Started : Progress(i)
  BY <1>1, AnsweredLemma DEF LoaderFails
<1>3. g \in StackFrame(Started) /\ ~Opens(g)
  BY <1>2 DEF StackFrame, OtherFrame, Opens
<1>4. Goes(frames')
  <2>1. frames' = <<g, CallFrame>>
    BY DEF LoaderFails
  <2>. HIDE DEF g
  <2>2. Goes(Append(<<>>, g))
    BY <1>1, <1>3, GoesPushed
  <2>3. Goes(Append(Append(<<>>, g), CallFrame))
    BY <2>2, GoesCalling
  <2>4. Append(Append(<<>>, g), CallFrame) = <<g, CallFrame>>
    <3>1. g \in StackFrame(Started) /\ CallFrame \in StackFrame(Started)
      BY <1>3, CallFrameLemma
    <3>2. <<>> \o <<g, CallFrame>> = Append(Append(<<>>, g), CallFrame)
      BY <3>1
    <3>3. <<>> \o <<g, CallFrame>> = <<g, CallFrame>>
      OBVIOUS
    <3>. QED  BY <3>2, <3>3
  <2>. QED  BY <2>1, <2>3, <2>4
<1>5. \A i \in 1..Started : Advances(i)
  BY <1>1, <1>2, <1>4, AdvanceLemma
<1>6. RuntimeKept
  BY <1>1, KeepsLemma DEF LoaderFails, Keeps, RuntimeKept
<1>. QED
  BY <1>1, <1>2, <1>4, <1>5, <1>6, NotedLemma, UnchangedLemma, QuietStep DEF LoaderFails, history

\* What is known of a key, once its request has been answered.
LEMMA AnsweredRecordLemma ==
  ASSUME CacheTypes, NEW k \in Keys, NEW failure \in Statuses \cup {"none"}
  PROVE  /\ Keeps([runtime EXCEPT ![k] = Trim([@ EXCEPT !.request = 0, !.failure = failure])])
         /\ Trim([runtime[k] EXCEPT !.request = 0, !.failure = failure]).request = 0
<1>. DEFINE rec == [runtime[k] EXCEPT !.request = 0, !.failure = failure]
<1>1. runtime[k] \in Runtime /\ 0 \in 0..MaxRequests
  BY BoundsLemma DEF CacheTypes
<1>2. rec \in Runtime /\ rec.request = 0
  BY <1>1 DEF Runtime
<1>. HIDE DEF rec
<1>3. Trim(rec) \in Runtime /\ Trim(rec).request = 0
  BY <1>2, TrimLemma
<1>4. Keeps([runtime EXCEPT ![k] = Trim(rec)])
  BY <1>3 DEF CacheTypes, Keeps
<1>. QED  BY <1>3, <1>4 DEF rec

LEMMA SettleFailureStep ==
  ASSUME CacheInv, SettleFailure
  PROVE  Quietly
<1>. DEFINE r == Top.op
            k == fetches[r].key
            old == entries[k]
            status == IF old.status = "Success" \/ old.data # 0 THEN old.status ELSE "Error"
            e == [old EXCEPT !.status = status, !.error = TRUE, !.refreshing = FALSE,
                             !.failed = ~fetches[r].invalidated]
            g == [Top EXCEPT !.kind = "settled"]
<1>1. /\ CacheTypes /\ Elsewhere /\ Goes(Below) /\ Top \in StackFrame(Started) /\ Top.kind = "describe"
  BY TopLemma DEF SettleFailure, CacheInv
<1>2. Top \in [kind : {"describe", "settled"}, op : 1..Started] /\ r \in 1..Started
  BY <1>1, FrameLemma
<1>3. k \in Keys /\ fetches[r] \in Fetch
  BY <1>1, <1>2, KeyLemma
<1>4. /\ SettleNothing(k, Below) \/ Settle(k, e, status, Append(Below, g))
      /\ UNCHANGED <<root, fetches, restores, invalidatedAt>>
  BY DEF SettleFailure
<1>5. CASE SettleNothing(k, Below)
  <2>1. RuntimeKept /\ Goes(frames') /\ UNCHANGED entries
    BY <1>1, <1>5, KeepsLemma DEF SettleNothing, Keeps, RuntimeKept
  <2>. QED  BY <1>1, <1>4, <2>1, UnchangedLemma, CallbackStep
<1>6. CASE Settle(k, e, status, Append(Below, g))
  <2>1. k \in DOMAIN entries
    BY <1>6 DEF Settle
  <2>2. old \in AgedEntry(Started) /\ old \in Entry
    BY <1>1, <2>1, EntriesLemma DEF CacheTypes
  <2>3. status \in Statuses
    BY <2>2 DEF Entry, Statuses
  <2>4. e \in AgedEntry(Started) /\ EntryKept(old, e)
    <3>. HIDE DEF status, old, k
    <3>1. e \in Entry
      BY <1>3, <2>2, <2>3 DEF Entry, Fetch
    <3>2. /\ e.data = old.data /\ e.invalidated = old.invalidated
          /\ e.status = status
      BY <2>2 DEF Entry
    <3>3. e.status = "Success" => old.status = "Success"
      BY <3>2 DEF status
    <3>. QED  BY <2>2, <3>1, <3>2, <3>3 DEF AgedEntry, EntryKept
  <2>5. g \in StackFrame(Started) /\ ~Opens(g)
    BY <1>2 DEF StackFrame, OtherFrame, Opens
  <2>. DEFINE es == [entries EXCEPT ![k] = e]
              rt == [runtime EXCEPT ![k] = Trim([@ EXCEPT !.request = 0, !.failure = status])]
  <2>6. Publish(es, rt, {k}, Append(Below, g), FALSE)
    BY <1>6 DEF Settle
  <2>7. Keeps(rt)
    BY <1>1, <1>3, <2>3, AnsweredRecordLemma
  <2>8. Goes(Append(Below, g))
    <3>. HIDE DEF g
    <3>. QED  BY <1>1, <2>5, GoesPushed
  <2>9. entries' = es /\ RuntimeKept /\ Goes(frames')
    <3>. HIDE DEF es, rt, g
    <3>. QED  BY <1>1, <2>6, <2>7, <2>8, PublishLemma
  <2>10. EntriesKept
    <3>. HIDE DEF e
    <3>. QED  BY <1>1, <2>1, <2>4, <2>9, OneEntryLemma
  <2>. QED  BY <1>1, <1>4, <2>9, <2>10, UnchangedLemma, CallbackStep
<1>. QED  BY <1>4, <1>5, <1>6

-----------------------------------------------------------------------------
(***************************************************************************)
(* An answer.                                                              *)
(***************************************************************************)
LEMMA SettleSuccessStep ==
  ASSUME CacheInv, NEW r \in DOMAIN fetches, SettleSuccess(r)
  PROVE  Quietly
<1>. DEFINE k == fetches[r].key
            e == [entries[k] EXCEPT !.status = "Success", !.data = r, !.error = FALSE,
                                    !.refreshing = FALSE, !.failed = FALSE,
                                    !.invalidated = fetches[r].invalidated]
            g == [kind |-> "settled", op |-> r]
<1>1. CacheTypes /\ Elsewhere /\ Goes(<<>>) /\ frames = <<>>
  BY GoesOn DEF SettleSuccess, Answers, CacheInv, Elsewhere
<1>2. r \in 1..Started /\ FetchesKept /\ \A i \in 1..Started : Progress(i)
  BY <1>1, AnsweredLemma DEF SettleSuccess
<1>3. k \in Keys /\ fetches[r] \in Fetch
  BY <1>1, <1>2, KeyLemma
<1>4. /\ SettleNothing(k, <<>>) \/ Settle(k, e, "none", <<g>>)
      /\ runtime[k].request = r
      /\ UNCHANGED <<root, restores, invalidatedAt>>
  BY DEF SettleSuccess, IsCurrent
<1>5. CASE SettleNothing(k, <<>>)
  <2>1. RuntimeKept /\ Goes(frames') /\ UNCHANGED entries
    BY <1>1, <1>5, KeepsLemma DEF SettleNothing, Keeps, RuntimeKept
  <2>2. \A i \in 1..Started : Advances(i)
    BY <1>1, <1>2, <2>1, AdvanceLemma
  <2>. QED  BY <1>1, <1>2, <1>4, <2>1, <2>2, NotedLemma, UnchangedLemma, QuietStep
<1>6. CASE Settle(k, e, "none", <<g>>)
  <2>1. k \in DOMAIN entries
    BY <1>6 DEF Settle
  <2>2. entries[k] \in AgedEntry(Started) /\ entries[k] \in Entry
    BY <1>1, <2>1, EntriesLemma DEF CacheTypes
  <2>3. /\ e \in AgedEntry(Started) /\ e.data = r /\ e.invalidated = fetches[r].invalidated
    <3>1. r \in 0..Written /\ r \in Loadable(Started) /\ r # 0
      BY <1>1, <1>2, BoundsLemma DEF CacheTypes, Loadable
    <3>. HIDE DEF k
    <3>2. e \in Entry
      BY <1>3, <2>2, <3>1 DEF Entry, Fetch, Statuses
    <3>3. e.data = r /\ e.invalidated = fetches[r].invalidated
      BY <2>2 DEF Entry
    <3>. QED  BY <3>1, <3>2, <3>3 DEF AgedEntry
  <2>4. g \in StackFrame(Started) /\ ~Opens(g)
    BY <1>2 DEF StackFrame, OtherFrame, Opens
  <2>. DEFINE es == [entries EXCEPT ![k] = e]
              rec == Trim([runtime[k] EXCEPT !.request = 0, !.failure = "none"])
              rt == [runtime EXCEPT ![k] = Trim([@ EXCEPT !.request = 0, !.failure = "none"])]
  <2>5. Publish(es, rt, {k}, <<g>>, FALSE)
    BY <1>6 DEF Settle
  <2>6. Keeps(rt) /\ rt[k].request = 0
    <3>1. Keeps(rt) /\ rec.request = 0
      BY <1>1, <1>3, AnsweredRecordLemma
    <3>2. rt[k] = rec
      <4>. HIDE DEF k
      <4>. QED  BY <1>1, <1>3 DEF CacheTypes
    <3>. QED  BY <3>1, <3>2
  <2>7. Goes(<<g>>)
    <3>. HIDE DEF g
    <3>1. Goes(Append(<<>>, g))
      BY <1>1, <2>4, GoesPushed
    <3>2. Append(<<>>, g) = <<g>>
      OBVIOUS
    <3>. QED  BY <3>1, <3>2
  <2>8. /\ entries' = es /\ RuntimeKept /\ Goes(frames')
        /\ runtime' = rt \/ runtime' = Reconciled(rt, es, writes \cup {k})
    <3>. HIDE DEF es, rt, g
    <3>1. runtime' = rt \/ runtime' = Reconciled(rt, es, writes \cup {k})
      BY <2>5 DEF Publish
    <3>. QED  BY <1>1, <2>5, <2>6, <2>7, <3>1, PublishLemma
  <2>9. runtime'[k].request = 0
    <3>. HIDE DEF es, rt, k
    <3>1. Reconciled(rt, es, writes \cup {k})[k] = Reconcile(rt[k], es, k)
      BY <1>3 DEF Reconciled
    <3>2. rt[k] \in Runtime
      BY <1>3, <2>6 DEF Keeps
    <3>3. Reconcile(rt[k], es, k).request = rt[k].request
      BY <1>1, <3>2, UnfailedLemma DEF Reconcile
    <3>. QED  BY <2>6, <2>8, <3>1, <3>3
  <2>. HIDE DEF e, g, rt, rec
  <2>10. /\ entries' \in Snapshots(Started) /\ DOMAIN entries' = DOMAIN entries
         /\ \A j \in DOMAIN entries : entries'[j] = IF j = k THEN e ELSE entries[j]
    <3>1. DOMAIN entries \in SUBSET Keys /\ entries \in [DOMAIN entries -> AgedEntry(Started)]
      BY <1>1, EntriesLemma DEF CacheTypes
    <3>2. es \in [DOMAIN entries -> AgedEntry(Started)]
      BY <2>3, <3>1
    <3>3. es \in Snapshots(Started) /\ DOMAIN es = DOMAIN entries
      <4>. HIDE DEF es
      <4>. QED  BY <3>1, <3>2, SnapshotLemma
    <3>. QED  BY <2>8, <3>3
  <2>. HIDE DEF es
  <2>11. Started' = Started /\ Started \in Nat
    BY <1>1, <1>2, BoundsLemma DEF FetchesKept, Started
  <2>12. CacheTypes'
    BY <1>1, <1>2, <1>4, <2>8, <2>10, <2>11
    DEF CacheTypes, CacheAssumption, FetchesKept, RuntimeKept
  <2>13. RequestsSound'
    <3>. SUFFICES ASSUME NEW j \in Keys, runtime'[j].request # 0
                  PROVE  RequestOf(j)'
      BY DEF RequestsSound, RequestOf
    <3>1. j # k /\ runtime'[j].request = runtime[j].request /\ RequestOf(j)
      BY <2>8, <2>9 DEF RuntimeKept, CacheInv, RequestsSound
    <3>2. runtime[j].request \in 1..Started /\ fetches[runtime[j].request].key = j
      BY <3>1 DEF RequestOf
    <3>3. /\ fetches'[runtime[j].request].key = j
          /\ fetches[runtime[j].request].invalidated => fetches'[runtime[j].request].invalidated
      BY <1>2, <3>2 DEF FetchesKept
    <3>4. j \in DOMAIN entries' => j \in DOMAIN entries /\ entries'[j] = entries[j]
      BY <2>10, <3>1
    <3>. QED  BY <1>4, <2>11, <3>1, <3>2, <3>3, <3>4 DEF RequestOf
  <2>14. RequestOf(k)
    BY <1>3 DEF CacheInv, RequestsSound
  <2>15. InvalidatedStaysStale'
    <3>1. ~fetches[r].invalidated => r > invalidatedAt[k]
      <4>1. invalidatedAt[k] \in Nat /\ r \in Nat
        BY <1>1, <1>2, <1>3, <2>11 DEF CacheTypes
      <4>. HIDE DEF k
      <4>. QED  BY <1>2, <1>4, <2>14, <4>1 DEF RequestOf
    <3>2. ASSUME NEW j \in DOMAIN entries', entries'[j].status = "Success", ~entries'[j].invalidated
          PROVE  entries'[j].data > invalidatedAt'[j]
      <4>1. CASE j = k
        BY <1>4, <2>3, <2>10, <3>1, <3>2, <4>1
      <4>2. CASE j # k
        BY <1>4, <2>10, <3>2, <4>2 DEF CacheInv, InvalidatedStaysStale
      <4>. QED  BY <4>1, <4>2
    <3>. QED  BY <3>2 DEF InvalidatedStaysStale
  <2>16. StackSound'
    <3>1. Stack(frames)'
      BY <1>1, <1>2, <2>8, StackMoves DEF Goes
    <3>2. NoneLoaded'
      <4>1. \A f \in FramesOf(frames') : ~FoundNone(f)
        BY <1>1, <2>8, EmptyLemma DEF Goes, Opens, FoundNone
      <4>. QED  BY <4>1 DEF NoneLoaded, FramesOf, FoundNone
    <3>3. NoneNewer'
      BY <1>1, <2>8, NewerLemma DEF CacheInv, StackSound
    <3>. QED  BY <3>1, <3>2, <3>3 DEF StackSound
  <2>17. AllPromised'
    <3>1. \A i \in 1..Started : Advances(i)
      BY <1>1, <1>2, <2>8, AdvanceLemma
    <3>. QED  BY <1>1, <1>2, <3>1, PromiseStep DEF CacheInv
  <2>18. AnswersStay
    <3>1. entries[k].data \in Requests => r >= entries[k].data
      <4>. HIDE DEF k
      <4>1. entries[k].data \in Requests => entries[k].data <= r
        BY <1>2, <1>4, <2>1, <2>14, <2>11 DEF RequestOf
      <4>. QED  BY <1>1, <1>2, <4>1, BoundsLemma
    <3>2. \A x \in Requests : x >= x
      BY <1>1, BoundsLemma
    <3>. QED  BY <2>3, <2>10, <3>1, <3>2 DEF AnswersStay
  <2>19. Barred' /\ RootsSound'
    BY <1>1, <1>2, <1>4, <2>8, BarredKept, RootsKept DEF CacheInv
  <2>. QED
    BY <1>2, <2>8, <2>12, <2>13, <2>15, <2>16, <2>17, <2>18, <2>19 DEF CacheInv, Onward, Quietly
<1>. QED  BY <1>4, <1>5, <1>6

-----------------------------------------------------------------------------
(***************************************************************************)
(* Invalidation, and other roots.                                          *)
(***************************************************************************)
LEMMA InvalidateStep ==
  ASSUME CacheInv, NEW S, NEW all, InvalidateKeys(S, all)
  PROVE  Quietly
<1>. DEFINE es == MarkedStale(S)
<1>1. CacheTypes /\ Elsewhere /\ Goes(frames) /\ S \subseteq DOMAIN entries /\ S \subseteq Keys
  <2>1. S \subseteq DOMAIN entries
    BY DEF InvalidateKeys
  <2>2. CacheTypes /\ DOMAIN entries \subseteq Keys
    BY EntriesLemma DEF CacheInv, CacheTypes
  <2>. QED  BY <2>1, <2>2, ApplicationLemma DEF InvalidateKeys
<1>2. /\ fetches' = Invalidated(S)
      /\ invalidatedAt' = [k \in Keys |-> IF k \in S THEN Started ELSE invalidatedAt[k]]
      /\ UNCHANGED <<root, restores>>
  BY DEF InvalidateKeys, Started
<1>3. DOMAIN fetches = 1..Started /\ \A r \in 1..Started : fetches[r] \in Fetch
  BY <1>1, SameFetchesLemma, DomainLemma
<1>4. /\ es \in Snapshots(Started) /\ DOMAIN es = DOMAIN entries
      /\ \A k \in DOMAIN entries : EntryKept(entries[k], es[k]) /\ (k \in S => es[k].invalidated)
  <2>1. DOMAIN entries \in SUBSET Keys /\ entries \in [DOMAIN entries -> AgedEntry(Started)]
    BY <1>1, EntriesLemma DEF CacheTypes
  <2>2. ASSUME NEW k \in DOMAIN entries
        PROVE  /\ es[k] \in AgedEntry(Started) /\ EntryKept(entries[k], es[k])
               /\ k \in S => es[k].invalidated
    <3>. DEFINE e == [entries[k] EXCEPT !.invalidated = TRUE, !.failed = FALSE]
    <3>1. entries[k] \in AgedEntry(Started) /\ entries[k] \in Entry
      BY <2>1 DEF AgedEntry
    <3>2. es[k] = IF k \in S THEN e ELSE entries[k]
      BY DEF MarkedStale
    <3>3. e \in Entry /\ e.data = entries[k].data /\ e.status = entries[k].status /\ e.invalidated
      BY <3>1 DEF Entry
    <3>. HIDE DEF e, es
    <3>. QED  BY <3>1, <3>2, <3>3 DEF AgedEntry, EntryKept
  <2>3. es \in [DOMAIN entries -> AgedEntry(Started)]
    BY <2>2 DEF MarkedStale
  <2>. HIDE DEF es
  <2>. QED  BY <2>1, <2>2, <2>3, SnapshotLemma
<1>. HIDE DEF es
<1>5. RuntimeKept /\ EntriesKept /\ Goes(frames') /\ \A k \in S : k \in DOMAIN entries' => entries'[k].invalidated
  <2>. DEFINE W == {k \in S : es[k] # entries[k]}
  <2>1. CASE W = {} /\ UNCHANGED <<entries, runtime, frames>>
    <3>1. \A k \in S : entries[k].invalidated
      BY <1>1, <1>4, <2>1
    <3>. QED  BY <1>1, <2>1, <3>1, UnchangedLemma
  <2>2. CASE Publish(es, runtime, W, frames, FALSE)
    <3>. HIDE DEF W
    <3>1. entries' = es /\ RuntimeKept /\ Goes(frames')
      BY <1>1, <2>2, KeepsLemma, PublishLemma
    <3>. QED  BY <1>1, <1>4, <3>1 DEF EntriesKept
  <2>. QED  BY <2>1, <2>2 DEF InvalidateKeys, es
<1>6. ASSUME NEW r \in 1..Started
      PROVE  /\ fetches'[r] = IF fetches[r].key \in S /\ IsCurrent(r)
                                THEN [fetches[r] EXCEPT !.invalidated = TRUE] ELSE fetches[r]
             /\ fetches'[r] \in Fetch
             /\ fetches'[r].key = fetches[r].key
             /\ fetches[r].invalidated => fetches'[r].invalidated
             /\ fetches[r].key \in S /\ IsCurrent(r) => fetches'[r].invalidated
             /\ fetches'[r].settled = fetches[r].settled /\ fetches'[r].loader = fetches[r].loader
             /\ fetches'[r].follows = fetches[r].follows
  <2>1. fetches'[r] = IF fetches[r].key \in S /\ IsCurrent(r)
                        THEN [fetches[r] EXCEPT !.invalidated = TRUE] ELSE fetches[r]
    BY <1>2, <1>3 DEF Invalidated
  <2>2. fetches[r] \in Fetch
    BY <1>3
  <2>. QED  BY <2>1, <2>2 DEF Fetch
<1>7. FetchesKept
  <2>1. fetches' \in [1..Started -> Fetch] /\ Started \in Nat
    BY <1>1, <1>2, <1>3, <1>6, BoundsLemma DEF Invalidated
  <2>2. fetches' \in Seq(Fetch) /\ Len(fetches') = Started
    BY <2>1
  <2>. QED  BY <1>6, <2>2 DEF FetchesKept
<1>8. ASSUME NEW r \in 1..Started PROVE Advances(r)
  <2>1. Progress(r)
    BY <1>6 DEF Progress
  <2>. QED  BY <1>1, <1>5, <2>1, AdvanceLemma
<1>9. Noted
  <2>1. Started \in 0..Started
    BY <1>1, BoundsLemma
  <2>2. invalidatedAt' \in [Keys -> 0..Started]
    BY <1>1, <1>2, <2>1 DEF CacheTypes
  <2>3. ASSUME NEW k \in Keys, k \in S, runtime[k].request # 0
        PROVE  fetches'[runtime[k].request].invalidated
    <3>1. runtime[k].request \in 1..Started /\ fetches[runtime[k].request].key = k
      BY <2>3 DEF CacheInv, RequestsSound, RequestOf
    <3>. QED  BY <1>6, <2>3, <3>1 DEF IsCurrent
  <2>. QED  BY <1>2, <1>5, <2>2, <2>3 DEF Noted
<1>. QED  BY <1>1, <1>2, <1>5, <1>7, <1>8, <1>9, UnchangedLemma, QuietStep

\* Another root is installed.
LEMMA InstallStep ==
  ASSUME CacheInv, Elsewhere, NEW es \in Snapshots(Started), NEW rest, Goes(rest), Install(es, rest),
         UNCHANGED <<fetches, restores>>,
         invalidatedAt' \in [Keys -> 0..Started],
         \A k \in Keys : invalidatedAt'[k] = 0 \/ invalidatedAt'[k] = invalidatedAt[k],
         Older(es),
         \A k \in DOMAIN es : es[k].status = "Success" /\ ~es[k].invalidated =>
                                es[k].data > invalidatedAt'[k],
         \A f \in FramesOf(rest) : FoundNone(f) => Unloaded(es, fetches[f.op].key),
         root < MaxRoots + restores,
         \A f \in FramesOf(rest) : f.kind = "restore" => f.op # restores
  PROVE  Quietly
<1>. DEFINE rt == [k \in Keys |-> IF runtime[k].failure = "none" THEN runtime[k]
                                  ELSE Trim([runtime[k] EXCEPT !.failure = "none"])]
<1>1. CacheTypes
  BY DEF CacheInv
<1>2. Publish(es, rt, Keys, rest, FALSE) /\ root' = root + 1
  BY DEF Install
<1>3. Keeps(rt)
  <2>1. ASSUME NEW k \in Keys
        PROVE  /\ Trim([runtime[k] EXCEPT !.failure = "none"]) \in Runtime
               /\ Trim([runtime[k] EXCEPT !.failure = "none"]).request = runtime[k].request
               /\ runtime[k] \in Runtime
    <3>1. runtime[k] \in Runtime
      BY <1>1 DEF CacheTypes
    <3>. QED  BY <1>1, <3>1, UnfailedLemma
  <2>. QED  BY <2>1 DEF Keeps
<1>. HIDE DEF rt
<1>4. /\ entries' = es /\ RuntimeKept /\ Goes(frames')
      /\ frames' = rest \/ frames' = Append(rest, CallFrame)
  <2>1. frames' = rest \/ frames' = Append(rest, CallFrame)
    BY <1>2 DEF Publish
  <2>. QED  BY <1>1, <1>2, <1>3, <2>1, PublishLemma
<1>5. FetchesKept /\ Started' = Started
  BY <1>1, SameFetchesLemma, StillFetches DEF Started
<1>6. CacheTypes'
  <2>1. root' \in Nat
    BY <1>1, <1>2 DEF CacheTypes
  <2>. QED
    BY <1>1, <1>4, <1>5, <2>1 DEF CacheTypes, CacheAssumption, FetchesKept, RuntimeKept
<1>7. RequestsSound'
  <2>. SUFFICES ASSUME NEW k \in Keys, runtime'[k].request # 0
                PROVE  RequestOf(k)'
    BY DEF RequestsSound, RequestOf
  <2>1. runtime'[k].request = runtime[k].request /\ RequestOf(k)
    BY <1>4 DEF RuntimeKept, CacheInv, RequestsSound
  <2>2. runtime[k].request \in Nat /\ runtime[k].request # 0
    BY <1>1, <2>1, BoundsLemma DEF RequestOf
  <2>3. runtime[k].request <= invalidatedAt'[k] => runtime[k].request <= invalidatedAt[k]
    BY <2>2
  <2>4. k \in DOMAIN entries' /\ entries'[k].data \in Requests => entries'[k].data <= runtime[k].request
    BY <1>4, <2>2 DEF Older
  <2>. QED  BY <1>5, <2>1, <2>2, <2>3, <2>4 DEF RequestOf
<1>8. InvalidatedStaysStale'
  BY <1>4 DEF InvalidatedStaysStale
<1>9. StackSound'
  <2>1. /\ Stack(frames)'
        /\ \A f \in FramesOf(frames') : FoundNone(f) => fetches'[f.op].key = fetches[f.op].key
    BY <1>1, <1>4, <1>5, StackMoves DEF Goes
  <2>2. ASSUME NEW f \in FramesOf(frames'), FoundNone(f) PROVE f \in FramesOf(rest)
    <3>1. FramesOf(frames') \subseteq FramesOf(rest) \cup {CallFrame}
      BY <1>4, GoesCalling
    <3>. QED  BY <2>2, <3>1, CallFrameLemma DEF FoundNone
  <2>3. NoneLoaded'
    <3>1. \A f \in FramesOf(frames') : FoundNone(f) => Unloaded(entries', fetches'[f.op].key)
      BY <1>4, <2>1, <2>2
    <3>. QED  BY <3>1 DEF NoneLoaded, FramesOf, FoundNone, Unloaded
  <2>4. NoneNewer'
    BY <1>1, <1>4, NewerLemma DEF CacheInv, StackSound
  <2>. QED  BY <2>1, <2>3, <2>4 DEF StackSound
<1>10. AllPromised'
  <2>1. ASSUME NEW r \in 1..Started PROVE Advances(r)
    <3>1. Progress(r)
      BY DEF Progress
    <3>. QED  BY <1>1, <1>4, <3>1, AdvanceLemma
  <2>. QED  BY <1>1, <1>5, <2>1, PromiseStep DEF CacheInv
<1>11. AnswersStay
  <2>1. root' # root
    BY <1>1, <1>2 DEF CacheTypes
  <2>. QED  BY <2>1 DEF AnswersStay
<1>12. Barred'
  BY <1>1, <1>4, <1>5, BarredKept DEF CacheInv
<1>13. RootsSound'
  <2>1. root \in Nat /\ restores \in Nat /\ MaxRoots \in Nat
    BY <1>1 DEF CacheTypes, CacheAssumption
  <2>2. root' <= MaxRoots + restores'
    BY <1>2, <2>1
  <2>3. ASSUME NEW f \in FramesOf(frames'), f.kind = "restore"
        PROVE  f \in FramesOf(rest) /\ f \in FramesOf(frames) /\ Opens(f)
    <3>1. FramesOf(frames') \subseteq FramesOf(rest) \cup {CallFrame}
      BY <1>4, GoesCalling
    <3>. QED  BY <1>4, <2>3, <3>1, CallFrameLemma DEF Goes, Opens
  <2>4. ~Resetting'
    BY <2>3 DEF Resetting, FramesOf
  <2>5. \A f \in FramesOf(frames') : f.kind = "restore" => f.op \in 1..restores
    BY <2>3 DEF CacheInv, RootsSound
  <2>6. ASSUME NEW f \in FramesOf(frames'), NEW g \in FramesOf(frames'),
               f.kind = "restore", g.kind = "restore", Under(f, g, frames')
        PROVE  f.op < g.op
    <3>1. Under(f, g, frames)
      BY <1>4, <2>3, <2>6 DEF Goes
    <3>. QED  BY <2>3, <2>6, <3>1 DEF CacheInv, RootsSound
  <2>7. restores' <= MaxRoots
    BY DEF CacheInv, RootsSound
  <2>. QED  BY <2>2, <2>4, <2>5, <2>6, <2>7 DEF RootsSound, FramesOf, Under
<1>. QED
  BY <1>4, <1>5, <1>6, <1>7, <1>8, <1>9, <1>10, <1>11, <1>12, <1>13 DEF CacheInv, Onward, Quietly

LEMMA InstalledLemma ==
  ASSUME CacheTypes, NEW S \in SUBSET Keys, NEW status \in {"Idle", "Success", "Error"}
  PROVE  /\ Installed(S, status) \in Snapshots(Started) /\ DOMAIN Installed(S, status) = S
         /\ \A k \in S : /\ Installed(S, status)[k].data \in {0, Written}
                         /\ status = "Success" <=> Installed(S, status)[k].status = "Success"
                         /\ status = "Success" => Installed(S, status)[k].data = Written
<1>. DEFINE e == [status |-> status, data |-> IF status = "Success" THEN Written ELSE 0,
                  error |-> status = "Error", refreshing |-> FALSE, invalidated |-> FALSE,
                  failed |-> status = "Error", born |-> 0]
            es == Installed(S, status)
<1>1. e \in AgedEntry(Started)
  <2>1. 0 \in 0..Written /\ Written \in 0..Written /\ 0 \in 0..MaxRequests /\ Written # 0
        /\ 0 \in Loadable(Started) /\ Written \in Loadable(Started)
    BY BoundsLemma DEF CacheTypes, Loadable
  <2>2. e \in Entry
    BY <2>1 DEF Entry, Statuses
  <2>. QED  BY <2>1, <2>2 DEF AgedEntry
<1>2. e.data \in {0, Written} /\ e.status = status /\ (status = "Success" => e.data = Written)
  OBVIOUS
<1>3. es = [k \in S |-> e]
  BY DEF Installed
<1>. HIDE DEF e, es
<1>4. es \in [S -> AgedEntry(Started)] /\ DOMAIN es = S /\ \A k \in S : es[k] = e
  BY <1>1, <1>3
<1>5. es \in Snapshots(Started)
  BY <1>4, SnapshotLemma
<1>6. /\ es \in Snapshots(Started) /\ DOMAIN es = S
      /\ \A k \in S : /\ es[k].data \in {0, Written}
                      /\ status = "Success" <=> es[k].status = "Success"
                      /\ status = "Success" => es[k].data = Written
  BY <1>2, <1>4, <1>5
<1>. QED  BY <1>6 DEF es

LEMMA SetDataStep ==
  ASSUME CacheInv, NEW S \in SUBSET Keys, NEW status \in {"Idle", "Success", "Error"},
         SetData(Installed(S, status))
  PROVE  Quietly
<1>. DEFINE es == Installed(S, status)
<1>1. /\ CacheTypes /\ Elsewhere /\ Goes(frames) /\ frames = <<>> /\ root < MaxRoots
      /\ Install(es, frames)
      /\ UNCHANGED <<fetches, restores, invalidatedAt>>
  BY GoesOn DEF SetData, CacheInv, Elsewhere
<1>2. /\ es \in Snapshots(Started) /\ DOMAIN es = S
      /\ \A k \in S : /\ es[k].data \in {0, Written}
                      /\ status = "Success" <=> es[k].status = "Success"
                      /\ status = "Success" => es[k].data = Written
  BY <1>1, InstalledLemma
<1>. HIDE DEF es
<1>3. MaxRequests \in Nat /\ Requests = 1..MaxRequests /\ Written = MaxRequests + 1
      /\ Started \in Nat /\ Started <= MaxRequests
  BY <1>1, BoundsLemma DEF CacheTypes
<1>4. Older(es)
  <2>1. 0 \notin Requests /\ Written \notin Requests
    BY <1>3
  <2>. QED  BY <1>2, <2>1 DEF Older
<1>5. \A k \in DOMAIN es : es[k].status = "Success" /\ ~es[k].invalidated =>
                             es[k].data > invalidatedAt'[k]
  <2>1. \A n \in 0..Started : Written > n
    BY <1>3
  <2>. QED  BY <1>1, <1>2, <2>1 DEF CacheTypes
<1>6. FramesOf(frames) = {}
  BY <1>1, EmptyLemma
<1>7. invalidatedAt' \in [Keys -> 0..Started]
  BY <1>1 DEF CacheTypes
<1>8. root < MaxRoots + restores
  BY <1>1 DEF CacheTypes, CacheAssumption
<1>. QED  BY <1>1, <1>2, <1>4, <1>5, <1>6, <1>7, <1>8, InstallStep

LEMMA RestoredStep ==
  ASSUME CacheInv, Restored
  PROVE  Quietly
<1>. DEFINE stored(k) == [Top.data[k] EXCEPT !.status = IF @ = "Pending" THEN "Idle" ELSE @,
                                             !.refreshing = FALSE]
            es == [k \in DOMAIN Top.data \cup Live |->
                     IF k \in Live THEN entries[k]
                     ELSE [Top.data[k] EXCEPT !.status = IF @ = "Pending" THEN "Idle" ELSE @,
                                              !.refreshing = FALSE]]
<1>1. /\ CacheTypes /\ Elsewhere /\ Goes(Below) /\ Top.kind = "restore" /\ Top \in FramesOf(frames)
      /\ Top \in StackFrame(Started) /\ frames # <<>>
  BY TopLemma DEF Restored, CacheInv, Runs
<1>2. /\ Install(es, Below)
      /\ invalidatedAt' = [k \in Keys |-> 0]
      /\ UNCHANGED <<fetches, restores>>
      /\ restores = Top.op
  BY DEF Restored
<1>3. /\ Top.data \in Snapshots(Started) /\ DOMAIN Top.data \subseteq Keys
      /\ \A k \in DOMAIN Top.data : Top.data[k] \in AgedEntry(Started) /\ Top.data[k] \in Entry
  <2>1. Top \in RestoreFrame(Started)
    BY <1>1, FrameLemma
  <2>2. Top.data \in Snapshots(Started)
    BY <2>1 DEF RestoreFrame
  <2>. QED  BY <2>2, EntriesLemma
<1>4. /\ Live \subseteq DOMAIN entries /\ DOMAIN entries \subseteq Keys
      /\ \A k \in DOMAIN entries : entries[k] \in AgedEntry(Started)
  BY <1>1, EntriesLemma DEF CacheTypes, Live
<1>5. DOMAIN es = DOMAIN Top.data \cup Live
      /\ \A k \in DOMAIN es : es[k] = IF k \in Live THEN entries[k] ELSE stored(k)
  OBVIOUS
<1>6. ASSUME NEW k \in DOMAIN Top.data
      PROVE  stored(k) \in AgedEntry(Started) /\ stored(k).data = Top.data[k].data
  <2>. DEFINE old == Top.data[k]
              e == [old EXCEPT !.status = IF @ = "Pending" THEN "Idle" ELSE @, !.refreshing = FALSE]
  <2>1. old \in AgedEntry(Started) /\ old \in Entry
    BY <1>3
  <2>. HIDE DEF old
  <2>2. e \in Entry
    BY <2>1 DEF Entry, Statuses
  <2>3. e.data = old.data /\ (e.status = "Success" => old.status = "Success")
    BY <2>1 DEF Entry
  <2>4. e \in AgedEntry(Started) /\ e.data = old.data
    BY <2>1, <2>2, <2>3 DEF AgedEntry
  <2>. QED  BY <2>4 DEF old
<1>. HIDE DEF es, stored
<1>7. es \in Snapshots(Started)
  <2>1. \A k \in DOMAIN es : es[k] \in AgedEntry(Started)
    BY <1>4, <1>5, <1>6
  <2>2. DOMAIN es \in SUBSET Keys
    BY <1>3, <1>4, <1>5
  <2>3. es \in [DOMAIN es -> AgedEntry(Started)]
    <3>1. es = [k \in DOMAIN es |-> es[k]]
      BY DEF es
    <3>. QED  BY <2>1, <3>1
  <2>. QED  BY <2>2, <2>3, SnapshotLemma
<1>8. Older(es)
  <2>. SUFFICES ASSUME NEW k \in DOMAIN es, runtime[k].request # 0, es[k].data \in Requests
                PROVE  es[k].data <= runtime[k].request
    BY DEF Older
  <2>1. CASE k \in Live
    <3>1. RequestOf(k) /\ k \in DOMAIN entries /\ es[k] = entries[k]
      BY <1>4, <1>5, <2>1 DEF CacheInv, RequestsSound
    <3>. QED  BY <3>1 DEF RequestOf
  <2>2. CASE k \notin Live
    <3>1. k \in DOMAIN Top.data /\ es[k].data = Top.data[k].data
      BY <1>5, <1>6, <2>2
    <3>2. Older(Top.data)
      BY <1>1 DEF CacheInv, StackSound, NoneNewer
    <3>. QED  BY <3>1, <3>2 DEF Older
  <2>. QED  BY <2>1, <2>2
<1>9. \A k \in DOMAIN es : es[k].status = "Success" /\ ~es[k].invalidated => es[k].data > invalidatedAt'[k]
  <2>1. ASSUME NEW k \in DOMAIN es, es[k].status = "Success"
        PROVE  es[k].data > 0 /\ invalidatedAt'[k] = 0
    <3>1. es[k] \in AgedEntry(Started) /\ k \in Keys
      BY <1>7, EntriesLemma
    <3>2. es[k].data \in 0..Written /\ es[k].data # 0
      BY <2>1, <3>1 DEF AgedEntry, Entry
    <3>. QED  BY <1>2, <3>1, <3>2
  <2>. QED  BY <2>1
<1>10. ASSUME NEW f \in FramesOf(Below), FoundNone(f) PROVE Unloaded(es, fetches[f.op].key)
  <2>. DEFINE k == fetches[f.op].key
  <2>1. f \in FramesOf(frames) /\ Spares(f, Top)
    BY <1>1, PopLemma DEF Below, Top, CacheInv, StackSound
  <2>2. Unloaded(entries, k) /\ Unloaded(Top.data, k)
    BY <1>1, <1>10, <2>1 DEF CacheInv, StackSound, NoneLoaded, Spares
  <2>. HIDE DEF k
  <2>3. Unloaded(es, k)
    BY <1>4, <1>5, <1>6, <2>2 DEF Unloaded
  <2>. QED  BY <2>3 DEF k
<1>11. /\ invalidatedAt' \in [Keys -> 0..Started]
       /\ \A k \in Keys : invalidatedAt'[k] = 0 \/ invalidatedAt'[k] = invalidatedAt[k]
  BY <1>1, <1>2, BoundsLemma
<1>12. root < MaxRoots + restores
  BY <1>1, <1>2 DEF CacheInv, RootsSound, Resetting
<1>13. ASSUME NEW f \in FramesOf(Below), f.kind = "restore" PROVE f.op # restores
  <2>1. f \in FramesOf(frames) /\ Under(f, Top, frames)
    BY <1>1, PopLemma, PoppedUnder DEF Below, Top, CacheInv, StackSound
  <2>2. f.op \in 1..restores /\ f.op < Top.op /\ restores \in Nat
    BY <1>1, <1>13, <2>1 DEF CacheInv, RootsSound, CacheTypes
  <2>. QED  BY <1>2, <2>2
<1>. QED  BY <1>1, <1>2, <1>7, <1>8, <1>9, <1>10, <1>11, <1>12, <1>13, InstallStep

\* All that is known of the requests goes; what is to be installed waits.
LEMMA RestoreStep ==
  ASSUME CacheInv, NEW data, data = entries \/ data = Installed({}, "Idle"), Restore(data)
  PROVE  Onward
<1>. DEFINE g == [kind |-> "restore", op |-> restores + 1, data |-> data]
<1>1. /\ CacheTypes /\ Stack(frames)
      /\ UNCHANGED <<entries, root, fetches, invalidatedAt>>
      /\ restores' = restores + 1
      /\ runtime' = [k \in Keys |-> NoRuntime]
  BY DEF Restore, CacheInv, StackSound
<1>2. frames' = Append(frames, g) \/ frames' = Append(Append(frames, g), CallFrame)
  <2>1. frames' = Append(frames, g) \o Listeners(InFlight)
    BY DEF Restore
  <2>2. Listeners(InFlight) \in {<<>>, <<CallFrame>>}
    BY DEF Listeners
  <2>3. data \in Snapshots(Started)
    BY <1>1, InstalledLemma DEF CacheTypes
  <2>4. g \in StackFrame(Started)
    BY <1>1, <2>3 DEF CacheTypes, StackFrame, RestoreFrame
  <2>5. Append(frames, g) \in Seq(StackFrame(Started)) /\ CallFrame \in StackFrame(Started)
    <3>. HIDE DEF g
    <3>. QED  BY <1>1, <2>4, CallFrameLemma, AppendProperties DEF Stack
  <2>. HIDE DEF g
  <2>6. Append(frames, g) \o <<>> = Append(frames, g)
    BY <2>5, ConcatEmptySeq
  <2>7. Append(frames, g) \o <<CallFrame>> = Append(Append(frames, g), CallFrame)
    BY <2>5, AppendIsConcat
  <2>. QED  BY <2>1, <2>2, <2>6, <2>7
<1>3. data \in Snapshots(Started) /\ (data = entries \/ DOMAIN data = {})
  BY <1>1, InstalledLemma DEF CacheTypes
<1>4. g \in StackFrame(Started) /\ g.kind = "restore" /\ g.data = data
  BY <1>1, <1>3 DEF CacheTypes, StackFrame, RestoreFrame
<1>. HIDE DEF g
<1>5. \A f \in FramesOf(frames) : Spares(f, g)
  BY <1>3, <1>4 DEF Spares, CacheInv, StackSound, NoneLoaded, Unloaded
<1>6. Stack(Append(frames, g)) /\ FramesOf(Append(frames, g)) = FramesOf(frames) \cup {g}
  BY <1>1, <1>4, <1>5, PushLemma
<1>7. /\ Stack(Append(Append(frames, g), CallFrame))
      /\ FramesOf(Append(Append(frames, g), CallFrame)) = FramesOf(frames) \cup {g, CallFrame}
  <2>1. \A f \in FramesOf(Append(frames, g)) : Spares(f, CallFrame)
    BY CallFrameLemma DEF Spares
  <2>2. /\ Stack(Append(Append(frames, g), CallFrame))
        /\ FramesOf(Append(Append(frames, g), CallFrame)) = FramesOf(Append(frames, g)) \cup {CallFrame}
    BY <1>6, <2>1, CallFrameLemma, PushLemma
  <2>. QED  BY <1>6, <2>2
<1>8. /\ Stack(frames')
      /\ FramesOf(frames) \subseteq FramesOf(frames')
      /\ FramesOf(frames') \subseteq FramesOf(frames) \cup {g, CallFrame}
  BY <1>2, <1>6, <1>7
<1>20. ASSUME NEW f, NEW h, h.kind = "restore", Under(f, h, frames')
       PROVE  Under(f, h, frames) \/ (h = g /\ f \in FramesOf(frames))
  <2>. DEFINE s == Append(frames, g)
  <2>1. s \in Seq(StackFrame(Started))
    BY <1>6 DEF Stack
  <2>2. Under(f, h, s) => Under(f, h, frames) \/ (h = g /\ f \in FramesOf(frames))
    <3>1. frames \in Seq(StackFrame(Started))
      BY <1>1 DEF Stack
    <3>. QED  BY <1>4, <3>1, PushedUnder
  <2>. HIDE DEF s
  <2>3. Under(f, h, Append(s, CallFrame)) => Under(f, h, s)
    BY <1>20, <2>1, CallFrameLemma, PushedUnder
  <2>. QED  BY <1>2, <1>20, <2>2, <2>3 DEF s
<1>9. FetchesKept /\ Started' = Started
  BY <1>1, SameFetchesLemma, StillFetches DEF Started
<1>10. NoRuntime \in Runtime /\ NoRuntime.request = 0
  <2>1. 0 \in 0..MaxRequests
    BY <1>1, BoundsLemma
  <2>. QED  BY <2>1 DEF Runtime, NoRuntime
<1>11. \A k \in Keys : runtime'[k].request = 0
  BY <1>1, <1>10
<1>12. CacheTypes'
  <2>1. runtime' \in [Keys -> Runtime] /\ restores' \in Nat
    BY <1>1, <1>10 DEF CacheTypes
  <2>. QED  BY <1>1, <1>9, <2>1 DEF CacheTypes, CacheAssumption
<1>13. RequestsSound'
  BY <1>11 DEF RequestsSound, RequestOf
<1>14. InvalidatedStaysStale'
  BY <1>1 DEF CacheInv, InvalidatedStaysStale
<1>15. StackSound'
  <2>1. Stack(frames)'
    BY <1>1, <1>8, <1>9, StackMoves
  <2>2. NoneLoaded'
    <3>1. \A f \in FramesOf(frames') : FoundNone(f) => Unloaded(entries, fetches[f.op].key)
      BY <1>4, <1>8, CallFrameLemma DEF CacheInv, StackSound, NoneLoaded, FoundNone
    <3>. QED  BY <1>1, <3>1 DEF NoneLoaded, FramesOf, FoundNone, Unloaded
  <2>3. NoneNewer'
    <3>1. ASSUME NEW f \in FramesOf(frames'), f.kind = "restore", NEW k \in DOMAIN f.data
          PROVE  runtime'[k].request = 0
      <4>1. f \in StackFrame(Started)
        BY <1>8 DEF Stack, FramesOf
      <4>2. f.data \in Snapshots(Started)
        BY <3>1, <4>1, FrameLemma DEF RestoreFrame
      <4>. QED  BY <1>11, <4>2, EntriesLemma
    <3>. QED  BY <3>1 DEF NoneNewer, Older, FramesOf
  <2>. QED  BY <2>1, <2>2, <2>3 DEF StackSound
<1>16. AllPromised'
  <2>1. ASSUME NEW r \in 1..Started PROVE Advances(r)
    BY <1>1, <1>8 DEF Advances, Progress, Underway
  <2>. QED  BY <1>1, <1>9, <2>1, PromiseStep DEF CacheInv
<1>17. AnswersStay
  <2>1. \A x \in Requests : x >= x
    BY <1>1, BoundsLemma
  <2>. QED  BY <1>1, <2>1 DEF AnswersStay
<1>18. Barred'
  <2>1. ASSUME NEW f \in FramesOf(frames'), f.kind = "fetch" PROVE ~IsCurrent(f.op)'
    <3>1. f \in StackFrame(Started)
      BY <1>8 DEF Stack, FramesOf
    <3>2. f.op \in 1..Started /\ f.op # 0
      BY <1>1, <2>1, <3>1, FrameLemma, BoundsLemma
    <3>3. fetches'[f.op].key \in Keys
      BY <1>1, <3>2, KeyLemma
    <3>. QED  BY <1>11, <3>2, <3>3 DEF IsCurrent
  <2>. QED  BY <2>1 DEF Barred, IsCurrent, FramesOf
<1>19. RootsSound'
  <2>1. root \in Nat /\ restores \in Nat /\ MaxRoots \in Nat /\ restores < MaxRoots
    BY <1>1 DEF CacheTypes, CacheAssumption, Restore
  <2>2. \A f \in FramesOf(frames') : f.kind = "restore" => f \in FramesOf(frames) \/ f = g
    BY <1>8, CallFrameLemma
  <2>3. g.op = restores'
    BY <1>1 DEF g
  <2>4. \A f \in FramesOf(frames') : f.kind = "restore" => f.op \in 1..restores' /\ (f # g => f.op < g.op)
    BY <1>1, <2>1, <2>2, <2>3 DEF CacheInv, RootsSound
  <2>5. ASSUME NEW f \in FramesOf(frames'), NEW h \in FramesOf(frames'),
               f.kind = "restore", h.kind = "restore", Under(f, h, frames')
        PROVE  f.op < h.op
    <3>1. Under(f, h, frames) \/ (h = g /\ f \in FramesOf(frames))
      BY <1>2, <1>20, <2>5
    <3>2. CASE Under(f, h, frames)
      <4>1. f \in FramesOf(frames) /\ h \in FramesOf(frames)
        BY <3>2 DEF Under, FramesOf
      <4>. QED  BY <2>5, <3>2, <4>1 DEF CacheInv, RootsSound
    <3>3. CASE h = g /\ f \in FramesOf(frames)
      <4>1. f.op \in 1..restores
        BY <2>5, <3>3 DEF CacheInv, RootsSound
      <4>. QED  BY <1>1, <2>1, <2>3, <3>3, <4>1
    <3>. QED  BY <3>1, <3>2, <3>3
  <2>6. restores' <= MaxRoots /\ root' < MaxRoots + restores'
    BY <1>1, <2>1 DEF CacheInv, RootsSound
  <2>7. root' <= MaxRoots + restores'
    BY <1>1, <2>1, <2>6
  <2>. QED  BY <2>4, <2>5, <2>6, <2>7 DEF RootsSound, Resetting, FramesOf, Under
<1>. QED  BY <1>12, <1>13, <1>14, <1>15, <1>16, <1>17, <1>18, <1>19 DEF CacheInv, Onward

-----------------------------------------------------------------------------
(***************************************************************************)
(* fetch(): one request more.                                              *)
(***************************************************************************)
LEMMA StartStep ==
  ASSUME CacheInv, NEW k \in Keys, NEW deferred \in BOOLEAN, Start(k, deferred),
         UNCHANGED <<entries, root, restores, invalidatedAt>>
  PROVE  Onward
<1>. DEFINE n == Started
            r == n + 1
            known == runtime[k].request
            f == [key |-> k, retrying |-> Retrying(k), invalidated |-> FALSE, loader |-> "none",
                  settled |-> FALSE, follows |-> 0]
            g == [kind |-> "fetch", op |-> r, superseded |-> known, deferred |-> deferred,
                  had |-> IF k \in DOMAIN entries THEN entries[k].status ELSE "none"]
            T == StackFrame(r)
<1>1. CacheTypes /\ Stack(frames) /\ n \in Nat /\ r \in 1..r /\ r <= MaxRequests /\ MaxRequests \in Nat
  BY BoundsLemma DEF CacheInv, StackSound, Start, Started
<1>2. /\ fetches' = Append(fetches, f)
      /\ runtime' = [runtime EXCEPT ![k].generation = r, ![k].request = r]
      /\ frames' = Append(frames, g) \o (IF known = 0 THEN <<>> ELSE Listeners({known}))
  BY Zenon DEF Start, Started
<1>3. f \in Fetch /\ f.key = k /\ f.follows = 0
  <2>1. Retrying(k) \in BOOLEAN
    <3>1. k \in DOMAIN entries => entries[k] \in Entry
      BY <1>1, EntriesLemma DEF CacheTypes
    <3>. QED  BY <3>1 DEF Retrying, Entry
  <2>2. 0 \in 0..MaxRequests
    BY <1>1
  <2>. QED  BY <2>1, <2>2 DEF Fetch
<1>4. g \in T /\ g.kind = "fetch" /\ g.op = r /\ (FoundNone(g) <=> k \notin DOMAIN entries)
  <2>1. known \in Nat /\ known < r
    BY <1>1 DEF CacheInv, RequestsSound, RequestOf
  <2>2. k \in DOMAIN entries => entries[k].status \in Statuses
    BY <1>1, EntriesLemma DEF CacheTypes, Entry
  <2>3. "none" \notin Statuses
    BY DEF Statuses
  <2>4. g \in FetchFrame(r)
    BY <1>1, <2>1, <2>2 DEF FetchFrame
  <2>. QED  BY <2>2, <2>3, <2>4 DEF StackFrame, FoundNone
<1>5. /\ fetches' \in Seq(Fetch) /\ Len(fetches') = r /\ fetches'[r] = f
      /\ \A i \in 1..n : fetches'[i] = fetches[i]
  <2>. HIDE DEF f
  <2>. QED  BY <1>1, <1>2, <1>3, AppendProperties DEF CacheTypes, Started
<1>6. /\ runtime' \in [Keys -> Runtime] /\ runtime'[k].request = r
      /\ \A j \in Keys \ {k} : runtime'[j] = runtime[j]
  <2>. DEFINE rec == [runtime[k] EXCEPT !.generation = r, !.request = r]
  <2>1. runtime[k] \in Runtime /\ r \in 0..MaxRequests
    BY <1>1 DEF CacheTypes
  <2>2. rec \in Runtime /\ rec.request = r
    BY <2>1 DEF Runtime
  <2>3. runtime' = [runtime EXCEPT ![k] = rec]
    BY <1>2
  <2>. HIDE DEF rec
  <2>. QED  BY <1>1, <2>2, <2>3 DEF CacheTypes
<1>7. \A x : x \in StackFrame(n) => x \in T
  BY <1>1, OneMoreLemma
<1>8. frames \in Seq(T) /\ CallFrame \in T
  <2>1. frames \in Seq(StackFrame(n)) /\ CallFrame \in StackFrame(n)
    BY <1>1, CallFrameLemma DEF Stack
  <2>. HIDE DEF T, n
  <2>2. StackFrame(n) \subseteq T
    BY <1>7
  <2>. QED  BY <2>1, <2>2
<1>. HIDE DEF f, g, T, r
<1>9. frames' = Append(frames, g) \/ frames' = Append(Append(frames, g), CallFrame)
  <2>1. Append(frames, g) \in Seq(T)
    BY <1>4, <1>8, AppendProperties
  <2>2. Listeners({known}) \in {<<>>, <<CallFrame>>}
    BY DEF Listeners
  <2>3. Append(frames, g) \o <<>> = Append(frames, g)
    BY <2>1, ConcatEmptySeq
  <2>4. Append(frames, g) \o <<CallFrame>> = Append(Append(frames, g), CallFrame)
    BY <1>8, <2>1, AppendIsConcat
  <2>. QED  BY <1>2, <2>2, <2>3, <2>4
<1>10. /\ frames' \in Seq(T)
       /\ FramesOf(frames) \subseteq FramesOf(frames') /\ g \in FramesOf(frames')
       /\ FramesOf(frames') \subseteq FramesOf(frames) \cup {g, CallFrame}
       /\ \A i, j \in 1..Len(frames') : i < j =>
            \/ /\ i \in 1..Len(frames) /\ j \in 1..Len(frames)
               /\ frames'[i] = frames[i] /\ frames'[j] = frames[j]
            \/ frames'[j] \in {g, CallFrame}
  <2>. DEFINE s == Append(frames, g)
              t == Append(s, CallFrame)
  <2>1. /\ s \in Seq(T) /\ FramesOf(s) = FramesOf(frames) \cup {g}
        /\ \A i, j \in 1..Len(s) : i < j =>
             \/ /\ i \in 1..Len(frames) /\ j \in 1..Len(frames)
                /\ s[i] = frames[i] /\ s[j] = frames[j]
             \/ s[j] = g
    BY <1>4, <1>8, PlainPushLemma
  <2>. HIDE DEF s
  <2>2. /\ t \in Seq(T) /\ FramesOf(t) = FramesOf(s) \cup {CallFrame}
        /\ \A i, j \in 1..Len(t) : i < j =>
             \/ /\ i \in 1..Len(s) /\ j \in 1..Len(s)
                /\ t[i] = s[i] /\ t[j] = s[j]
             \/ t[j] = CallFrame
    BY <1>8, <2>1, PlainPushLemma
  <2>. HIDE DEF t
  <2>3. CASE frames' = s
    BY <2>1, <2>3
  <2>4. CASE frames' = t
    BY <2>1, <2>2, <2>4
  <2>. QED  BY <1>9, <2>3, <2>4 DEF s, t
<1>11. Started' = r /\ Started' = n + 1
  BY <1>5 DEF Started, r
<1>12. \A x \in 1..n : x # r /\ x \in 1..r
  BY <1>1 DEF r
<1>13. CacheTypes'
  <2>1. entries' \in Snapshots(r)
    BY <1>1, OneMoreLemma DEF CacheTypes, r
  <2>2. invalidatedAt' \in [Keys -> 0..r]
    <3>1. 0..n \subseteq 0..r
      BY <1>1 DEF r
    <3>. QED  BY <1>1, <3>1 DEF CacheTypes
  <2>. QED
    BY <1>1, <1>5, <1>6, <1>11, <2>1, <2>2 DEF CacheTypes, CacheAssumption
\* Whatever is loaded already is older than the request that starts.
<1>14. ASSUME NEW es \in Snapshots(n), NEW j \in DOMAIN es, es[j].data \in Requests
       PROVE  es[j].data <= r
  <2>1. es[j].data \in 0..n \cup {Written}
    BY <1>14, EntriesLemma DEF AgedEntry, Loadable
  <2>2. Written \notin Requests
    BY <1>1, BoundsLemma
  <2>. QED  BY <1>1, <1>14, <2>1, <2>2 DEF r
<1>15. RequestsSound'
  <2>. SUFFICES ASSUME NEW j \in Keys, runtime'[j].request # 0
                PROVE  RequestOf(j)'
    BY DEF RequestsSound, RequestOf
  <2>1. CASE j = k
    <3>1. invalidatedAt'[k] \in 0..n
      BY <1>1 DEF CacheTypes
    <3>2. ~(r <= invalidatedAt'[k])
      BY <1>1, <3>1 DEF r
    <3>3. k \in DOMAIN entries /\ entries[k].data \in Requests => entries[k].data <= r
      BY <1>1, <1>14 DEF CacheTypes
    <3>. QED  BY <1>1, <1>3, <1>5, <1>6, <1>11, <2>1, <3>2, <3>3 DEF RequestOf
  <2>2. CASE j # k
    <3>1. runtime'[j].request = runtime[j].request /\ RequestOf(j)
      BY <1>6, <2>2 DEF CacheInv, RequestsSound
    <3>2. runtime[j].request \in 1..n
      BY <3>1 DEF RequestOf
    <3>. QED  BY <1>5, <1>11, <1>12, <3>1, <3>2 DEF RequestOf
  <2>. QED  BY <2>1, <2>2
<1>16. InvalidatedStaysStale'
  BY DEF CacheInv, InvalidatedStaysStale
<1>17. ASSUME NEW x \in FramesOf(frames)
       PROVE  /\ x \in StackFrame(n)
              /\ FoundNone(x) => fetches'[x.op].key = fetches[x.op].key
              /\ x.kind = "restore" => x.data \in Snapshots(n)
  <2>1. x \in StackFrame(n)
    BY <1>1, <1>17 DEF Stack, FramesOf
  <2>2. FoundNone(x) => x.op \in 1..n
    BY <2>1, FrameLemma DEF FoundNone
  <2>3. x.kind = "restore" => x.data \in Snapshots(n)
    BY <2>1, FrameLemma DEF RestoreFrame
  <2>. QED  BY <1>5, <2>1, <2>2, <2>3
<1>18. StackSound'
  <2>1. Stack(frames)'
    <3>1. ASSUME NEW i \in 1..Len(frames'), NEW j \in 1..Len(frames'), i < j
          PROVE  Spares(frames[i], frames[j])'
      <4>. SUFFICES ASSUME FoundNone(frames'[i]), frames'[j].kind = "restore"
                    PROVE  Unloaded(frames'[j].data, fetches'[frames'[i].op].key)
        BY DEF Spares, FoundNone, Unloaded
      <4>1. /\ i \in 1..Len(frames) /\ j \in 1..Len(frames)
            /\ frames'[i] = frames[i] /\ frames'[j] = frames[j]
        BY <1>4, <1>10, <3>1, CallFrameLemma
      <4>2. Spares(frames[i], frames[j])
        BY <1>1, <3>1, <4>1 DEF Stack
      <4>3. fetches'[frames[i].op].key = fetches[frames[i].op].key
        BY <1>17, <4>1 DEF FramesOf
      <4>. QED  BY <4>1, <4>2, <4>3 DEF Spares
    <3>. QED  BY <1>10, <1>11, <3>1 DEF Stack, T
  <2>2. NoneLoaded'
    <3>1. ASSUME NEW x \in FramesOf(frames'), FoundNone(x)
          PROVE  Unloaded(entries, fetches'[x.op].key)
      <4>1. CASE x = g
        BY <1>3, <1>4, <1>5, <3>1, <4>1 DEF Unloaded
      <4>2. CASE x \in FramesOf(frames)
        BY <1>17, <3>1, <4>2 DEF CacheInv, StackSound, NoneLoaded
      <4>3. x # CallFrame
        BY <3>1, CallFrameLemma DEF FoundNone
      <4>. QED  BY <1>10, <4>1, <4>2, <4>3
    <3>. QED  BY <3>1 DEF NoneLoaded, FramesOf, FoundNone, Unloaded
  <2>3. NoneNewer'
    <3>1. ASSUME NEW x \in FramesOf(frames'), x.kind = "restore", NEW j \in DOMAIN x.data,
                 runtime'[j].request # 0, x.data[j].data \in Requests
          PROVE  x.data[j].data <= runtime'[j].request
      <4>1. x \in FramesOf(frames) /\ x.data \in Snapshots(n)
        BY <1>4, <1>10, <1>17, <3>1, CallFrameLemma
      <4>2. j \in Keys
        BY <4>1, EntriesLemma
      <4>3. CASE j = k
        BY <1>6, <1>14, <3>1, <4>1, <4>3
      <4>4. CASE j # k
        BY <1>6, <3>1, <4>1, <4>2, <4>4 DEF CacheInv, StackSound, NoneNewer, Older
      <4>. QED  BY <4>3, <4>4
    <3>. QED  BY <3>1 DEF NoneNewer, Older, FramesOf
  <2>. QED  BY <2>1, <2>2, <2>3 DEF StackSound
<1>19. AllPromised'
  <2>. SUFFICES ASSUME NEW i \in 1..r PROVE Promised(fetches', i, FramesOf(frames'))
    BY <1>11 DEF AllPromised, FramesOf
  <2>1. CASE i = r
    BY <1>3, <1>4, <1>5, <1>10, <2>1 DEF Promised, Underway
  <2>2. CASE i # r
    <3>1. i \in 1..n
      BY <1>1, <2>2 DEF r
    <3>. QED  BY <1>5, <1>10, <3>1 DEF CacheInv, AllPromised, Promised, Underway
  <2>. QED  BY <2>1, <2>2
<1>20. AnswersStay
  <2>1. \A x \in Requests : x >= x
    BY <1>1, BoundsLemma
  <2>. QED  BY <2>1 DEF AnswersStay
<1>21. ASSUME NEW x, NEW y, Opens(y), Under(x, y, frames')
       PROVE  Under(x, y, frames) \/ (y = g /\ x \in FramesOf(frames))
  <2>. DEFINE s == Append(frames, g)
  <2>1. s \in Seq(T)
    BY <1>4, <1>8, AppendProperties
  <2>2. Under(x, y, s) => Under(x, y, frames) \/ (y = g /\ x \in FramesOf(frames))
    BY <1>4, <1>8, PushedUnder
  <2>. HIDE DEF s
  <2>3. Under(x, y, Append(s, CallFrame)) => Under(x, y, s)
    BY <1>8, <1>21, <2>1, CallFrameLemma, PushedUnder DEF Opens
  <2>. QED  BY <1>9, <1>21, <2>2, <2>3 DEF s
<1>22. Barred'
  <2>1. ASSUME NEW x \in FramesOf(frames'), NEW y \in FramesOf(frames'), x.kind = "fetch",
               Under(x, y, frames'), Takes(y, fetches[x.op].key)'
        PROVE  ~IsCurrent(x.op)'
    <3>1. Opens(y)
      BY <2>1 DEF Opens, Takes
    <3>2. x \in FramesOf(frames) /\ (y = g \/ Under(x, y, frames))
      <4>1. Under(x, y, frames) => x \in FramesOf(frames)
        BY DEF Under, FramesOf
      <4>. QED  BY <1>21, <2>1, <3>1, <4>1
    <3>3. x \in StackFrame(n) /\ x.op \in 1..n
      BY <1>17, <2>1, <3>2, FrameLemma
    <3>4. fetches'[x.op].key = fetches[x.op].key /\ fetches[x.op].key \in Keys /\ x.op # r
      BY <1>1, <1>5, <1>12, <3>3, KeyLemma
    <3>5. CASE fetches[x.op].key = k
      BY <1>6, <3>4, <3>5 DEF IsCurrent
    <3>6. CASE fetches[x.op].key # k
      <4>1. y # g
        BY <1>3, <1>4, <1>5, <2>1, <3>4, <3>6 DEF Takes
      <4>2. y \in FramesOf(frames) /\ Under(x, y, frames)
        BY <3>2, <4>1 DEF Under, FramesOf
      <4>3. y.kind = "fetch" => y.op \in 1..n
        BY <1>17, <4>2, FrameLemma
      <4>4. Takes(y, fetches[x.op].key)
        BY <1>5, <2>1, <3>4, <4>3 DEF Takes
      <4>5. ~IsCurrent(x.op)
        BY <2>1, <3>2, <4>2, <4>4 DEF CacheInv, Barred
      <4>. QED  BY <1>6, <3>4, <3>6, <4>5 DEF IsCurrent
    <3>. QED  BY <3>5, <3>6
  <2>. QED  BY <2>1 DEF Barred, Takes, IsCurrent, FramesOf, Under
<1>23. RootsSound'
  <2>1. \A x \in FramesOf(frames') : x.kind = "restore" => x \in FramesOf(frames)
    BY <1>4, <1>10, CallFrameLemma
  <2>2. ASSUME NEW x \in FramesOf(frames'), NEW y \in FramesOf(frames'),
               x.kind = "restore", y.kind = "restore", Under(x, y, frames')
        PROVE  x.op < y.op
    <3>1. Under(x, y, frames)
      BY <1>4, <1>21, <2>2 DEF Opens
    <3>. QED  BY <2>1, <2>2, <3>1 DEF CacheInv, RootsSound
  <2>3. \A x \in FramesOf(frames') : x.kind = "restore" => x.op \in 1..restores
    BY <2>1 DEF CacheInv, RootsSound
  <2>4. Resetting' => Resetting
    BY <2>1 DEF Resetting, FramesOf
  <2>. QED  BY <2>2, <2>3, <2>4 DEF CacheInv, RootsSound, FramesOf, Under
<1>. QED  BY <1>13, <1>15, <1>16, <1>18, <1>19, <1>20, <1>22, <1>23 DEF CacheInv, Onward

-----------------------------------------------------------------------------
(***************************************************************************)
(* All steps.                                                              *)
(***************************************************************************)
LEMMA OperationSteps ==
  ASSUME CacheInv, CacheOperations
  PROVE  Onward
<1>1. ASSUME NEW k \in Keys, Load(k) \/ Refresh(k) \/ Suspend(k) PROVE Onward
  <2>1. /\ Start(k, FALSE) \/ Start(k, TRUE)
        /\ UNCHANGED <<entries, root, restores, invalidatedAt>>
    BY <1>1 DEF Load, Refresh, Suspend, history
  <2>. QED  BY <2>1, StartStep
<1>2. ASSUME NEW k \in Keys, Invalidate(k) PROVE Onward
  BY <1>2, InvalidateStep DEF Invalidate, Quietly
<1>3. CASE InvalidateAll
  BY <1>3, InvalidateStep DEF InvalidateAll, Quietly
<1>4. CASE AbortAll \/ Clear
  <2>1. DOMAIN entries \in SUBSET Keys /\ {} \in SUBSET Keys
    BY EntriesLemma DEF CacheInv, CacheTypes
  <2>2. \E S \in SUBSET Keys, settles \in BOOLEAN : Bulk(S, settles)
    BY <1>4, <2>1 DEF AbortAll, Clear
  <2>. QED  BY <2>2, CancellingSteps DEF Quietly
<1>5. ASSUME NEW k \in Keys, SetData(Installed({k}, "Success")) PROVE Onward
  <2>1. {k} \in SUBSET Keys
    OBVIOUS
  <2>. QED  BY <1>5, <2>1, SetDataStep DEF Quietly
<1>6. CASE SetData(Installed(Keys, "Error"))
  <2>1. Keys \in SUBSET Keys
    OBVIOUS
  <2>. QED  BY <1>6, <2>1, SetDataStep DEF Quietly
<1>7. CASE Restore(entries) \/ Restore(Installed({}, "Idle"))
  BY <1>7, RestoreStep
<1>8. ASSUME NEW k \in Keys, Visit(k) PROVE Onward
  BY <1>8, PlainSteps DEF Quietly
<1>9. ASSUME NEW S \in SUBSET Keys, Subscribe(S) PROVE Onward
  BY <1>9, PlainSteps DEF Quietly
<1>10. ASSUME NEW k \in Keys, Abort(k) \/ Forget(k) PROVE Onward
  BY <1>10, CancellingSteps DEF Quietly
<1>11. CASE ClearIdle
  BY <1>11, CancellingSteps DEF Quietly
<1>. QED
  BY <1>1, <1>2, <1>3, <1>4, <1>5, <1>6, <1>7, <1>8, <1>9, <1>10, <1>11 DEF CacheOperations

LEMMA NextLemma ==
  ASSUME CacheInv, CacheNext
  PROVE  Onward
<1>1. CASE CacheOperations
  BY <1>1, OperationSteps
<1>2. CASE CacheContinuations
  BY <1>2, PlainSteps, CancellingSteps, AbortedStep, MarkLoadingStep, OnTheWaySteps, BulkAbortStep,
     RestoredStep, SettleFailureStep
  DEF CacheContinuations, Quietly
<1>3. CASE CacheSettlements
  BY <1>3, LateAnswerStep, LoaderFailsStep, SettleSuccessStep DEF CacheSettlements, Quietly
<1>. QED  BY <1>1, <1>2, <1>3 DEF CacheNext

LEMMA StutterLemma ==
  ASSUME CacheInv, UNCHANGED cacheVars
  PROVE  Onward
<1>1. UNCHANGED <<entries, root, runtime, fetches, restores, frames, invalidatedAt>>
  BY DEF cacheVars, history
<1>2. CacheTypes /\ RuntimeKept /\ EntriesKept /\ FetchesKept /\ Goes(frames') /\ Noted
  BY <1>1, GoesOn, SameFetchesLemma, StillFetches, UnchangedLemma, NotedLemma DEF CacheInv
<1>3. \A r \in 1..Started : Advances(r)
  BY <1>1 DEF Advances, Progress
<1>. QED  BY <1>1, <1>2, <1>3, QuietStep DEF Quietly

LEMMA InitLemma ==
  ASSUME CacheAssumption, CacheInit
  PROVE  CacheInv
<1>1. /\ entries = <<>> /\ root = 0 /\ restores = 0 /\ fetches = <<>> /\ frames = <<>>
      /\ runtime = [k \in Keys |-> NoRuntime] /\ invalidatedAt = [k \in Keys |-> 0]
  BY DEF CacheInit
<1>2. MaxRequests \in Nat
  BY DEF CacheAssumption
<1>3. Started = 0
  BY <1>1 DEF Started
<1>4. DOMAIN entries = {} /\ entries \in Snapshots(Started)
  <2>1. DOMAIN <<>> = {}
    OBVIOUS
  <2>2. <<>> \in [{} -> AgedEntry(Started)]
    OBVIOUS
  <2>3. {} \in SUBSET Keys
    OBVIOUS
  <2>. QED  BY <1>1, <2>1, <2>2, <2>3, SnapshotLemma
<1>5. NoRuntime \in Runtime /\ NoRuntime.request = 0
  BY <1>2 DEF Runtime, NoRuntime
<1>6. CacheTypes
  BY <1>1, <1>2, <1>3, <1>4, <1>5 DEF CacheTypes
<1>7. RequestsSound
  BY <1>1, <1>5 DEF RequestsSound, RequestOf
<1>8. InvalidatedStaysStale
  BY <1>4 DEF InvalidatedStaysStale
<1>9. StackSound
  <2>1. Stack(frames) /\ FramesOf(frames) = {}
    BY <1>1, EmptyLemma
  <2>. QED  BY <2>1 DEF StackSound, NoneLoaded, NoneNewer
<1>10. AllPromised
  BY <1>3 DEF AllPromised
<1>11. Barred /\ RootsSound
  <2>1. FramesOf(frames) = {}
    BY <1>1, EmptyLemma
  <2>2. MaxRoots \in Nat
    BY DEF CacheAssumption
  <2>. QED  BY <1>1, <2>1, <2>2 DEF Barred, RootsSound, Resetting
<1>. QED  BY <1>6, <1>7, <1>8, <1>9, <1>10, <1>11 DEF CacheInv

LEMMA CacheInvariance == CacheAssumption => (CacheSpec => []CacheInv /\ NewestAnswerWins)
<1>1. CacheAssumption /\ CacheInit => CacheInv
  BY InitLemma
<1>2. CacheInv /\ [CacheNext]_cacheVars => Onward
  BY NextLemma, StutterLemma
<1>. DEFINE Wins == \A k \in DOMAIN entries \cap DOMAIN entries' :
                      root' = root /\ entries[k].data \in Requests => entries'[k].data >= entries[k].data
<1>3. CacheInv /\ [CacheNext]_cacheVars => CacheInv' /\ [Wins]_cacheVars
  BY <1>2 DEF Onward, AnswersStay
<1>. HIDE DEF Wins
<1>4. CacheAssumption => (CacheSpec => []CacheInv /\ [][Wins]_cacheVars)
  BY <1>1, <1>3, PTL DEF CacheSpec
<1>. QED  BY <1>4 DEF NewestAnswerWins, Wins

\* An answer that was asked for before the last invalidation of its key counts
\* as stale: it carries the epoch of its request, and neither a retry nor a
\* restore() that waits for the listeners brings it back as fresh.
THEOREM StaysStale == CacheAssumption => (CacheSpec => []InvalidatedStaysStale)
<1>1. CacheInv => InvalidatedStaysStale
  BY DEF CacheInv
<1>. QED  BY <1>1, CacheInvariance, PTL

\* While the cache holds one root, no answer replaces that of a later request,
\* whatever the callbacks of an operation start, abort, clear or restore.
THEOREM NewestWins == CacheAssumption => (CacheSpec => NewestAnswerWins)
BY CacheInvariance, PTL

\* Between tasks, every promise that load(), refresh() or suspend() of the cache
\* handed out is settled, has a loader to settle it, or follows that of a later
\* request.
THEOREM PromisesEnd == CacheAssumption => (CacheSpec => []EveryFetchEnds)
<1>1. CacheInv => EveryFetchEnds
  <2>. SUFFICES ASSUME CacheInv, frames = <<>>, NEW r \in DOMAIN fetches
                PROVE  fetches[r].settled \/ fetches[r].loader = "running" \/ fetches[r].follows > r
    BY DEF EveryFetchEnds
  <2>1. r \in 1..Started
    BY SameFetchesLemma, DomainLemma DEF CacheInv
  <2>2. ~Underway(r, FramesOf(frames))
    BY EmptyLemma DEF Underway
  <2>. QED  BY <2>1, <2>2 DEF CacheInv, AllPromised, Promised
<1>. QED  BY <1>1, CacheInvariance, PTL

-----------------------------------------------------------------------------
(***************************************************************************)
(* What Filtered returns.  It is a recursive function; that a property     *)
(* holds of all its values is shown of the least number for which it would *)
(* not hold.                                                               *)
(***************************************************************************)
LEMMA LeastNumber ==
  ASSUME NEW T, T \subseteq Nat, T # {}
  PROVE  \E n \in T : \A m \in T : n <= m
<1>. DEFINE R == {ss \in Nat \X Nat : ss[1] < ss[2]}
<1>1. IsWellFoundedOn(R, Nat)
  <2>1. IsWellFoundedOn(OpToRel(<, Nat), Nat) /\ OpToRel(<, Nat) = R
    BY NatLessThanWellFounded DEF OpToRel
  <2>. QED  BY <2>1
<1>2. PICK n \in T : \A m \in T : ~(<<m, n>> \in R)
  <2>. HIDE DEF R
  <2>. QED  BY <1>1, WFMin
<1>3. ASSUME NEW m \in T PROVE n <= m
  <2>1. ~(m < n)
    BY <1>2
  <2>. QED  BY <2>1
<1>. QED  BY <1>3

\* f solves the recursion of Filtered for the first N elements of s.
Kept(f, s, T, N) ==
  f = [n \in 0..N |-> IF n = 0 THEN <<>>
                      ELSE IF s[n] \in T THEN Append(f[n - 1], s[n]) ELSE f[n - 1]]

\* t has those of the first n elements of s that are in T.
Picks(t, s, T, n) ==
  /\ \A i \in DOMAIN t : \E j \in 1..n : t[i] = s[j] /\ s[j] \in T
  /\ \A j \in 1..n : s[j] \in T => \E i \in DOMAIN t : t[i] = s[j]
  /\ IsInjective(s) => IsInjective(t)
  /\ Len(t) <= n /\ ((\E j \in 1..n : s[j] \notin T) => Len(t) < n)

LEMMA PickLemma ==
  ASSUME NEW S, NEW s \in Seq(S), NEW T, NEW n \in 1..Len(s), NEW g \in Seq(S),
         Picks(g, s, T, n - 1)
  PROVE  IF s[n] \in T THEN Append(g, s[n]) \in Seq(S) /\ Picks(Append(g, s[n]), s, T, n)
                       ELSE Picks(g, s, T, n)
<1>1. /\ s[n] \in S /\ n - 1 \in Nat /\ 1..n = (1..n - 1) \cup {n} /\ n \notin 1..n - 1
      /\ DOMAIN s = 1..Len(s) /\ 1..n \subseteq DOMAIN s
  OBVIOUS
<1>2. ASSUME s[n] \notin T PROVE Picks(g, s, T, n)
  <2>1. Len(g) <= n /\ Len(g) < n
    BY <1>1 DEF Picks
  <2>. QED  BY <1>1, <1>2, <2>1 DEF Picks
<1>3. ASSUME s[n] \in T PROVE Append(g, s[n]) \in Seq(S) /\ Picks(Append(g, s[n]), s, T, n)
  <2>. DEFINE t == Append(g, s[n])
              m == Len(g)
  <2>1. /\ t \in Seq(S) /\ m \in Nat /\ DOMAIN g = 1..m /\ DOMAIN t = (1..m) \cup {m + 1}
        /\ t[m + 1] = s[n] /\ (\A i \in 1..m : t[i] = g[i]) /\ Len(t) = m + 1
    <3>1. t \in Seq(S) /\ Len(t) = m + 1 /\ t[m + 1] = s[n] /\ \A i \in 1..m : t[i] = g[i]
      BY <1>1, AppendProperties
    <3>. QED  BY <3>1
  <2>. HIDE DEF t, m
  <2>2. \A i \in DOMAIN t : \E j \in 1..n : t[i] = s[j] /\ s[j] \in T
    BY <1>1, <1>3, <2>1 DEF Picks
  <2>3. \A j \in 1..n : s[j] \in T => \E i \in DOMAIN t : t[i] = s[j]
    BY <1>1, <1>3, <2>1 DEF Picks
  <2>4. ASSUME IsInjective(s) PROVE IsInjective(t)
    <3>1. ASSUME NEW i \in 1..m PROVE t[i] # s[n]
      <4>1. PICK j \in 1..n - 1 : g[i] = s[j]
        BY <2>1 DEF Picks
      <4>2. j \in DOMAIN s /\ n \in DOMAIN s /\ j # n
        BY <1>1
      <4>3. s[j] # s[n]
        BY <2>4, <4>2 DEF IsInjective
      <4>. QED  BY <2>1, <4>1, <4>3
    <3>2. IsInjective(g)
      BY <2>4 DEF Picks
    <3>. QED  BY <2>1, <3>1, <3>2 DEF IsInjective
  <2>5. Len(t) <= n /\ ((\E j \in 1..n : s[j] \notin T) => Len(t) < n)
    <3>1. m <= n - 1 /\ ((\E j \in 1..n - 1 : s[j] \notin T) => m < n - 1)
      BY DEF Picks, m
    <3>2. (\E j \in 1..n : s[j] \notin T) => \E j \in 1..n - 1 : s[j] \notin T
      BY <1>1, <1>3
    <3>. QED  BY <1>1, <2>1, <3>1, <3>2
  <2>. QED  BY <2>1, <2>2, <2>3, <2>4, <2>5 DEF Picks, t
<1>. QED  BY <1>2, <1>3

LEMMA KeptLemma ==
  ASSUME NEW S, NEW s \in Seq(S), NEW T, NEW f, Kept(f, s, T, Len(s))
  PROVE  \A n \in 0..Len(s) : f[n] \in Seq(S) /\ Picks(f[n], s, T, n)
<1>. DEFINE Bad == {n \in 0..Len(s) : ~(f[n] \in Seq(S) /\ Picks(f[n], s, T, n))}
<1>1. SUFFICES ASSUME Bad # {} PROVE FALSE
  OBVIOUS
<1>2. PICK n \in Bad : \A m \in Bad : n <= m
  <2>1. Bad \subseteq Nat
    OBVIOUS
  <2>. HIDE DEF Bad
  <2>. QED  BY <1>1, <2>1, LeastNumber
<1>3. n \in 0..Len(s) /\ Len(s) \in Nat
  OBVIOUS
<1>4. CASE n = 0
  <2>1. f[n] = <<>>
    BY <1>3, <1>4 DEF Kept
  <2>2. <<>> \in Seq(S) /\ Picks(<<>>, s, T, 0)
    BY DEF Picks, IsInjective
  <2>. QED  BY <1>4, <2>1, <2>2
<1>5. CASE n # 0
  <2>1. n \in 1..Len(s) /\ n - 1 \in 0..Len(s) /\ n - 1 \notin Bad
    BY <1>2, <1>3, <1>5
  <2>2. f[n - 1] \in Seq(S) /\ Picks(f[n - 1], s, T, n - 1)
    BY <2>1
  <2>3. f[n] = IF s[n] \in T THEN Append(f[n - 1], s[n]) ELSE f[n - 1]
    BY <1>3, <1>5 DEF Kept
  <2>4. f[n] \in Seq(S) /\ Picks(f[n], s, T, n)
    BY <2>1, <2>2, <2>3, PickLemma
  <2>. QED  BY <2>4
<1>. QED  BY <1>4, <1>5

LEMMA KeepableLemma ==
  ASSUME NEW s, NEW T
  PROVE  \A n \in Nat : \E f : Kept(f, s, T, n)
<1>. DEFINE Bad == {n \in Nat : ~ \E f : Kept(f, s, T, n)}
<1>1. SUFFICES ASSUME Bad # {} PROVE FALSE
  OBVIOUS
<1>2. PICK n \in Bad : \A m \in Bad : n <= m
  <2>1. Bad \subseteq Nat
    OBVIOUS
  <2>. HIDE DEF Bad
  <2>. QED  BY <1>1, <2>1, LeastNumber
<1>3. CASE n = 0
  <2>. DEFINE e == [i \in 0..0 |-> <<>>]
  <2>1. Kept(e, s, T, 0)
    BY DEF Kept
  <2>. QED  BY <1>3, <2>1
<1>4. CASE n > 0
  <2>1. PICK f : Kept(f, s, T, n - 1)
    BY <1>2, <1>4
  <2>. DEFINE Next1(x, i) == IF s[i] \in T THEN Append(x, s[i]) ELSE x
              g == [i \in 0..n |-> IF i < n THEN f[i] ELSE Next1(f[n - 1], n)]
              h == [i \in 0..n |-> IF i = 0 THEN <<>> ELSE Next1(g[i - 1], i)]
  <2>2. ASSUME NEW i \in 0..n PROVE g[i] = h[i]
    <3>1. CASE i < n
      <4>1. i \in 0..(n - 1)
        BY <3>1
      <4>2. f[i] = IF i = 0 THEN <<>> ELSE Next1(f[i - 1], i)
        BY <4>1, <2>1 DEF Kept
      <4>3. i # 0 => g[i - 1] = f[i - 1]
        BY <3>1
      <4>. QED  BY <3>1, <4>2, <4>3
    <3>2. CASE i = n
      <4>1. g[i - 1] = f[n - 1] /\ i # 0
        BY <1>4, <3>2
      <4>. QED  BY <3>2, <4>1
    <3>. QED  BY <3>1, <3>2
  <2>3. g = h
    <3>1. g = [i \in 0..n |-> g[i]] /\ h = [i \in 0..n |-> h[i]]
      OBVIOUS
    <3>. HIDE DEF g, h
    <3>2. [i \in 0..n |-> g[i]] = [i \in 0..n |-> h[i]]
      BY <2>2
    <3>. QED  BY <3>1, <3>2
  <2>4. Kept(g, s, T, n)
    BY <2>3 DEF Kept
  <2>. QED  BY <2>4
<1>. QED  BY <1>3, <1>4

LEMMA FilteredLemma ==
  ASSUME NEW S, NEW s \in Seq(S), NEW T
  PROVE  /\ Filtered(s, T) \in Seq(S)
         /\ ToSet(Filtered(s, T)) = ToSet(s) \cap T
         /\ IsInjective(s) => IsInjective(Filtered(s, T))
         /\ Len(Filtered(s, T)) <= Len(s)
         /\ ~(ToSet(s) \subseteq T) => Len(Filtered(s, T)) < Len(s)
<1>. DEFINE F == CHOOSE f : Kept(f, s, T, Len(s))
            t == F[Len(s)]
<1>1. Filtered(s, T) = t
  BY DEF Filtered, Kept
<1>2. Kept(F, s, T, Len(s))
  <2>1. \E f : Kept(f, s, T, Len(s))
    <3>1. Len(s) \in Nat
      OBVIOUS
    <3>. QED  BY <3>1, KeepableLemma, Zenon
  <2>. QED  BY <2>1, Zenon
<1>. HIDE DEF F
<1>3. t \in Seq(S) /\ Picks(t, s, T, Len(s))
  <2>1. Len(s) \in 0..Len(s)
    OBVIOUS
  <2>. QED  BY <1>2, <2>1, KeptLemma
<1>. HIDE DEF t
<1>4. Len(t) <= Len(s) /\ (~(ToSet(s) \subseteq T) => Len(t) < Len(s))
  <2>1. ToSet(s) = {s[j] : j \in 1..Len(s)}
    BY DEF ToSet
  <2>. QED  BY <1>3, <2>1 DEF Picks
<1>5. ToSet(t) = ToSet(s) \cap T
  <2>1. ToSet(s) = {s[j] : j \in 1..Len(s)} /\ ToSet(t) = {t[i] : i \in DOMAIN t}
    BY DEF ToSet
  <2>. QED  BY <1>3, <2>1 DEF Picks
<1>. QED  BY <1>1, <1>3, <1>4, <1>5 DEF Picks

-----------------------------------------------------------------------------
(***************************************************************************)
(* The ledger.  Unless a listener has overrun a fetch(), a fetch() that    *)
(* still has its key found the entry as it is now, and has touched it; the *)
(* ledger counts the entries and knows them all, unless a restore() has    *)
(* reset it; and while it skips its scans, an entry that may be evicted is *)
(* that of a request whose abort or failure has yet to release() it.       *)
(***************************************************************************)
LedgerTypes ==
  /\ lastUsed \in Seq(Keys) /\ IsInjective(lastUsed)
  /\ count \in Int /\ retainedAt \in Nat
  /\ reads \subseteq Keys /\ writes \subseteq Keys /\ unreported \subseteq Keys
  /\ overrun \in BOOLEAN

Known(k) == k \in ToSet(lastUsed)

Had(k) == IF k \in DOMAIN entries THEN entries[k].status ELSE "none"

Aware(f) ==
  f.kind = "fetch" /\ IsCurrent(f.op) =>
    f.had = Had(fetches[f.op].key) /\ Known(fetches[f.op].key)

AllAware == \A f \in FramesOf(frames) : Aware(f)

Counted == count = Cardinality(DOMAIN entries) /\ \A k \in DOMAIN entries : Known(k)

Leaves(f, k) == f.kind \in {"abort", "release", "describe"} /\ fetches[f.op].key = k

Leaving(k) == \E f \in FramesOf(frames) : Leaves(f, k)

Covered(k) == IsRetained(k) \/ Leaving(k)

Reported == retainedAt # 0 => \A k \in DOMAIN entries \ unreported : Covered(k)

LedgerInv == LedgerTypes /\ (overrun \/ (AllAware /\ (Resetting \/ (Counted /\ Reported))))

\* The frame on top is the restore() that is going to install its root.
Installing == frames # <<>> /\ Top.kind = "restore" /\ Top.op = restores

LEMMA AwareLemma ==
  ASSUME CacheInv, AllAware, FetchesKept, RuntimeKept, Goes(frames'),
         \A k \in Keys : runtime'[k].request # 0 => Had(k)' = Had(k) /\ (Known(k) => Known(k)')
  PROVE  AllAware'
<1>1. ASSUME NEW f \in FramesOf(frames'), f.kind = "fetch", IsCurrent(f.op)'
      PROVE  Aware(f)'
  <2>1. f \in FramesOf(frames) /\ f \in StackFrame(Started)
    BY <1>1 DEF Goes, Opens, Stack, FramesOf
  <2>2. f.op \in 1..Started
    BY <1>1, <2>1, FrameLemma
  <2>3. fetches'[f.op].key = fetches[f.op].key /\ fetches[f.op].key \in Keys /\ f.op # 0
    BY <2>2, KeyLemma DEF FetchesKept, CacheInv
  <2>4. runtime'[fetches[f.op].key].request = f.op
    BY <1>1, <2>3 DEF IsCurrent
  <2>5. IsCurrent(f.op)
    BY <2>3, <2>4 DEF IsCurrent, RuntimeKept
  <2>6. f.had = Had(fetches[f.op].key) /\ Known(fetches[f.op].key)
    BY <1>1, <2>1, <2>5 DEF AllAware, Aware
  <2>7. ASSUME NEW k, k = fetches[f.op].key PROVE f.had = Had(k)' /\ Known(k)'
    BY <2>3, <2>4, <2>6, <2>7
  <2>8. \A k : k = fetches'[f.op].key => f.had = Had(k)' /\ Known(k)'
    BY <2>3, <2>7
  <2>. QED  BY <2>8 DEF Aware, Had, Known
<1>2. ASSUME NEW f \in FramesOf(frames') PROVE Aware(f)'
  <2>1. CASE f.kind = "fetch" /\ IsCurrent(f.op)'
    BY <1>1, <2>1
  <2>2. CASE ~(f.kind = "fetch" /\ IsCurrent(f.op)')
    BY <2>2 DEF Aware
  <2>. QED  BY <2>1, <2>2
<1>. QED  BY <1>2 DEF AllAware, FramesOf

LEMMA ResettingLemma ==
  ASSUME Resetting, Goes(frames'), UNCHANGED restores, ~Installing
  PROVE  Resetting'
BY DEF Resetting, Installing, Goes, FramesOf

LEMMA LeavingLemma ==
  ASSUME CacheInv, FetchesKept, Goes(frames'), NEW k, Leaving(k)
  PROVE  Leaving(k)' \/ (frames # <<>> /\ Leaves(Top, k))
<1>1. PICK f \in FramesOf(frames) : Leaves(f, k)
  BY DEF Leaving
<1>2. f \in StackFrame(Started)
  BY <1>1 DEF CacheInv, StackSound, Stack, FramesOf
<1>3. f.op \in 1..Started
  BY <1>1, <1>2, FrameLemma DEF Leaves
<1>4. fetches'[f.op].key = k
  BY <1>1, <1>3 DEF Leaves, FetchesKept
<1>. QED  BY <1>1, <1>4 DEF Goes, Leaving, Leaves, FramesOf

\* The ledger has not to be told of anything.
StillReported ==
  retainedAt' # 0 =>
    /\ retainedAt' = retainedAt /\ unreported \subseteq unreported' /\ reads \subseteq reads'
    /\ \A k \in DOMAIN entries \ unreported' :
         \/ runtime'[k].request = runtime[k].request /\ ~(frames # <<>> /\ Leaves(Top, k))
         \/ Covered(k)'

LEMMA LedgerSame ==
  ASSUME CacheInv, LedgerInv, Quietly, ~Installing, UNCHANGED <<count, restores, overrun>>,
         lastUsed' \in Seq(Keys), IsInjective(lastUsed'), retainedAt' \in Nat,
         reads' \subseteq Keys, writes' \subseteq Keys, unreported' \subseteq Keys,
         DOMAIN entries' = DOMAIN entries,
         \A k \in Keys : runtime'[k].request # 0 => Had(k)' = Had(k),
         \A k \in ToSet(lastUsed) :
           k \in ToSet(lastUsed') \/ (k \notin DOMAIN entries /\ runtime'[k].request = 0),
         StillReported
  PROVE  LedgerInv'
<1>1. LedgerTypes'
  BY DEF LedgerInv, LedgerTypes
<1>2. ASSUME AllAware PROVE AllAware'
  BY <1>2, AwareLemma DEF Quietly, Known
<1>3. Resetting => Resetting'
  BY ResettingLemma DEF Quietly
<1>4. Counted => Counted'
  BY DEF Counted, Known
<1>5. ASSUME Reported, retainedAt' # 0, NEW k \in DOMAIN entries' \ unreported'
      PROVE  Covered(k)'
  <2>1. k \in DOMAIN entries \ unreported /\ retainedAt # 0
    BY <1>5 DEF StillReported
  <2>2. Covered(k)
    BY <1>5, <2>1 DEF Reported
  <2>. SUFFICES ASSUME runtime'[k].request = runtime[k].request, ~(frames # <<>> /\ Leaves(Top, k))
                PROVE  Covered(k)'
    BY <1>5, <2>1 DEF StillReported
  <2>3. IsRetained(k) => IsRetained(k)'
    BY <1>5 DEF IsRetained, HasRequest, StillReported
  <2>4. Leaving(k) => Leaving(k)'
    BY LeavingLemma DEF Quietly
  <2>. QED  BY <2>2, <2>3, <2>4 DEF Covered
<1>6. Reported => Reported'
  BY <1>5 DEF Reported
<1>. QED  BY <1>1, <1>2, <1>3, <1>4, <1>6 DEF LedgerInv

\* The ledger itself is left alone.
LEMMA LedgerUntouched ==
  ASSUME CacheInv, LedgerInv, Quietly, ~Installing,
         UNCHANGED <<lastUsed, count, retainedAt, reads, restores, overrun, unreported>>,
         writes' \subseteq Keys, DOMAIN entries' = DOMAIN entries,
         \A k \in Keys : runtime'[k].request # 0 => Had(k)' = Had(k),
         \A k \in DOMAIN entries :
           \/ runtime'[k].request = runtime[k].request /\ ~(frames # <<>> /\ Leaves(Top, k))
           \/ Covered(k)'
  PROVE  LedgerInv'
<1>1. StillReported
  BY DEF StillReported
<1>2. lastUsed' \in Seq(Keys) /\ IsInjective(lastUsed') /\ retainedAt' \in Nat
      /\ reads' \subseteq Keys /\ unreported' \subseteq Keys
  BY DEF LedgerInv, LedgerTypes
<1>. QED  BY <1>1, <1>2, LedgerSame

LEMMA SameHad == UNCHANGED entries => \A k : Had(k)' = Had(k)
BY DEF Had

\* What is published changes no request.
LEMMA PublishedLemma ==
  ASSUME CacheTypes, LedgerInv, NEW es, NEW rt, Keeps(rt), NEW W \in SUBSET Keys,
         NEW rest, NEW deferred, Publish(es, rt, W, rest, deferred)
  PROVE  /\ entries' = es /\ writes' \subseteq Keys
         /\ \A k \in Keys : runtime'[k].request = rt[k].request
<1>1. ASSUME NEW k \in Keys, NEW V PROVE Reconciled(rt, es, V)[k].request = rt[k].request
  <2>1. rt[k] \in Runtime
    BY DEF Keeps
  <2>. QED  BY <2>1, UnfailedLemma DEF Reconciled, Reconcile
<1>2. writes \subseteq Keys
  BY DEF LedgerInv, LedgerTypes
<1>. QED  BY <1>1, <1>2 DEF Publish

\* The frames that neither leave a key nor install a root.
Harmless == frames # <<>> => Top.kind \notin {"abort", "release", "describe", "restore"}

LEMMA HarmlessLemma == Harmless => ~Installing /\ \A k : ~(frames # <<>> /\ Leaves(Top, k))
BY DEF Harmless, Installing, Leaves

LEMMA LedgerRuns ==
  ASSUME CacheInv, LedgerInv, Quietly, Harmless, UNCHANGED <<ledger, reads, restores, overrun, unreported>>,
         writes' \subseteq Keys, DOMAIN entries' = DOMAIN entries,
         \A k \in Keys : runtime'[k].request # 0 => Had(k)' = Had(k),
         \A k \in Keys : runtime'[k].request = runtime[k].request \/ Covered(k)'
  PROVE  LedgerInv'
<1>1. DOMAIN entries \subseteq Keys
  BY EntriesLemma DEF CacheInv, CacheTypes
<1>. QED  BY <1>1, HarmlessLemma, LedgerUntouched DEF ledger

LEMMA LedgerPlain ==
  ASSUME CacheInv, LedgerInv, Quietly, Harmless,
         UNCHANGED <<entries, ledger, reads, restores, writes, overrun, unreported>>,
         \A k \in Keys : runtime'[k].request = runtime[k].request \/ Covered(k)'
  PROVE  LedgerInv'
<1>1. writes' \subseteq Keys
  BY DEF LedgerInv, LedgerTypes
<1>. QED  BY <1>1, SameHad, LedgerRuns

LEMMA LedgerPublishes ==
  ASSUME CacheInv, LedgerInv, Quietly, Harmless, UNCHANGED <<ledger, reads, restores, overrun, unreported>>,
         NEW es, DOMAIN es = DOMAIN entries, \A k \in DOMAIN es : es[k].status = entries[k].status,
         NEW W \in SUBSET Keys, NEW rest, Publish(es, runtime, W, rest, FALSE)
  PROVE  LedgerInv'
<1>1. CacheTypes /\ Keeps(runtime)
  BY KeepsLemma DEF CacheInv
<1>2. /\ entries' = es /\ writes' \subseteq Keys
      /\ \A k \in Keys : runtime'[k].request = runtime[k].request
  BY <1>1, PublishedLemma
<1>3. \A k : Had(k)' = Had(k)
  BY <1>2 DEF Had
<1>. QED  BY <1>2, <1>3, LedgerRuns

LEMMA ListeningFrames ==
  ASSUME NEW t, Goes(t), NEW S
  PROVE  FramesOf(t) \subseteq FramesOf(t \o Listeners(S))
<1>1. t \in Seq(StackFrame(Started))
  BY DEF Goes, Stack
<1>2. CASE Listeners(S) = <<>>
  BY <1>1, <1>2, ConcatEmptySeq
<1>3. CASE Listeners(S) = <<CallFrame>>
  BY <1>1, <1>3, CallFrameLemma, AppendIsConcat, GoesCalling
<1>. QED  BY <1>2, <1>3 DEF Listeners

LEMMA AbortLeaves ==
  ASSUME CacheInv, FetchesKept, NEW r \in 1..Started, NEW rest, Goes(rest), BeginAbort(r, rest)
  PROVE  \A k \in Keys : runtime'[k].request = runtime[k].request \/ Covered(k)'
<1>. DEFINE k == fetches[r].key
            f == [kind |-> "abort", op |-> r, identity |-> Identity(k)]
<1>1. Identity(k) \in Identities
  BY IdentityLemma DEF CacheInv
<1>2. f \in StackFrame(Started) /\ ~Opens(f) /\ f.kind = "abort" /\ f.op = r
  BY <1>1 DEF StackFrame, OtherFrame, Opens
<1>3. runtime' = [runtime EXCEPT ![k].request = 0] /\ frames' = Append(rest, f) \o Listeners({r})
  BY DEF BeginAbort
<1>. HIDE DEF k, f
<1>4. f \in FramesOf(frames')
  BY <1>2, <1>3, GoesPushed, ListeningFrames
<1>5. fetches'[f.op].key = k
  BY <1>2 DEF FetchesKept, k
<1>6. \A j : j = k => Leaving(j)'
  BY <1>2, <1>4, <1>5 DEF Leaving, Leaves, FramesOf
<1>7. \A j \in Keys : j # k => runtime'[j] = runtime[j]
  BY <1>3 DEF CacheInv, CacheTypes
<1>8. \A j : Leaving(j)' => Covered(j)'
  BY DEF Covered
<1>. QED  BY <1>6, <1>7, <1>8

LEMMA ForgetLeaves ==
  ASSUME CacheInv, FetchesKept, NEW k \in Keys, NEW rest, Goes(rest), BeginForget(k, rest)
  PROVE  \A j \in Keys : runtime'[j].request = runtime[j].request \/ Covered(j)'
<1>. DEFINE f == [kind |-> "forget", key |-> k]
<1>1. CASE HasRequest(k)
  <2>1. f \in StackFrame(Started) /\ ~Opens(f)
    BY DEF StackFrame, OtherFrame, Opens
  <2>2. BeginAbort(runtime[k].request, Append(rest, f)) /\ runtime[k].request \in 1..Started
    BY <1>1, RequestLemma DEF BeginForget
  <2>. HIDE DEF f
  <2>. QED  BY <2>1, <2>2, GoesPushed, AbortLeaves
<1>2. CASE ~HasRequest(k)
  BY <1>2 DEF BeginForget
<1>. QED  BY <1>1, <1>2

LEMMA QuietApplication == Application => Harmless
BY DEF Application, Harmless, Runs

\* Steps that leave the entries and the ledger as they are.
LEMMA LedgerPlainSteps ==
  ASSUME CacheInv, LedgerInv,
         \/ Return \/ RestoreOvertaken \/ Superseded \/ CallLoader \/ Loading
         \/ \E k \in Keys : Abort(k) \/ Forget(k)
         \/ \E S \in SUBSET Keys, settles \in BOOLEAN : Bulk(S, settles)
         \/ BulkForget \/ BulkAbort
         \/ \E r \in DOMAIN fetches : LateAnswer(r) \/ LoaderFails(r)
  PROVE  LedgerInv'
<1>0. CacheTypes
  BY DEF CacheInv
<1>1. CASE Return \/ Superseded \/ CallLoader \/ Loading
  <2>1. Quietly
    BY <1>1, PlainSteps, OnTheWaySteps
  <2>. QED
    BY <1>1, <2>1, LedgerPlain
    DEF Return, Superseded, CallLoader, Loading, Runs, Harmless, history
<1>2. CASE RestoreOvertaken
  <2>1. Quietly /\ ~Installing /\ \A k : ~Leaves(Top, k)
    BY <1>2, PlainSteps DEF RestoreOvertaken, Runs, Installing, Leaves
  <2>2. UNCHANGED <<entries, runtime, lastUsed, count, retainedAt, reads, restores, writes, overrun,
                    unreported>>
    BY <1>2 DEF RestoreOvertaken, ledger, history
  <2>3. writes' \subseteq Keys
    BY <2>2 DEF LedgerInv, LedgerTypes
  <2>. QED  BY <2>1, <2>2, <2>3, SameHad, LedgerUntouched
<1>3. ASSUME NEW k \in Keys, Abort(k) PROVE LedgerInv'
  <2>1. Quietly /\ Harmless /\ Goes(frames)
    BY <1>3, CancellingSteps, QuietApplication, ApplicationLemma DEF Abort
  <2>2. BeginAbort(runtime[k].request, frames) /\ runtime[k].request \in 1..Started
    BY <1>3, RequestLemma DEF Abort
  <2>3. \A j \in Keys : runtime'[j].request = runtime[j].request \/ Covered(j)'
    BY <2>1, <2>2, AbortLeaves DEF Quietly
  <2>. QED  BY <1>3, <2>1, <2>3, LedgerPlain DEF Abort, history
<1>4. ASSUME NEW k \in Keys, Forget(k) PROVE LedgerInv'
  <2>1. Quietly /\ Harmless /\ Goes(frames)
    BY <1>4, CancellingSteps, QuietApplication, ApplicationLemma DEF Forget
  <2>2. \A j \in Keys : runtime'[j].request = runtime[j].request \/ Covered(j)'
    BY <1>4, <2>1, ForgetLeaves DEF Quietly, Forget
  <2>. QED  BY <1>4, <2>1, <2>2, LedgerPlain DEF Forget, history
<1>5. ASSUME NEW S \in SUBSET Keys, NEW settles \in BOOLEAN, Bulk(S, settles) PROVE LedgerInv'
  <2>1. Quietly /\ Harmless
    BY <1>5, CancellingSteps, QuietApplication DEF Bulk
  <2>. QED  BY <1>5, <2>1, LedgerPlain DEF Bulk, history
<1>6. CASE BulkForget
  <2>1. PICK k \in Top.keys : BeginForget(k, Append(Below, [Top EXCEPT !.keys = @ \ {k}]))
    BY <1>6 DEF BulkForget
  <2>. DEFINE f == [Top EXCEPT !.keys = @ \ {k}]
  <2>2. Quietly /\ Harmless /\ Goes(Below) /\ Top \in StackFrame(Started) /\ Top.kind = "bulk"
    BY <1>6, TopLemma, CancellingSteps DEF BulkForget, Runs, Harmless
  <2>3. Top \in [kind : {"bulk"}, keys : SUBSET Keys, live : SUBSET (1..Started), settles : BOOLEAN]
    BY <2>2, FrameLemma
  <2>4. f \in StackFrame(Started) /\ ~Opens(f) /\ k \in Keys
    BY <2>1, <2>3 DEF StackFrame, OtherFrame, Opens
  <2>5. Goes(Append(Below, f))
    <3>. HIDE DEF f
    <3>. QED  BY <2>2, <2>4, GoesPushed
  <2>6. \A j \in Keys : runtime'[j].request = runtime[j].request \/ Covered(j)'
    BY <2>1, <2>2, <2>4, <2>5, ForgetLeaves DEF Quietly
  <2>. QED  BY <1>6, <2>2, <2>6, LedgerPlain DEF BulkForget, history
<1>7. CASE BulkAbort
  <2>1. PICK r \in Top.live :
          IF IsCurrent(r) THEN BeginAbort(r, Append(Below, [Top EXCEPT !.live = @ \ {r}]))
          ELSE UNCHANGED runtime
    BY <1>7 DEF BulkAbort
  <2>. DEFINE f == [Top EXCEPT !.live = @ \ {r}]
  <2>2. Quietly /\ Harmless /\ Goes(Below) /\ Top \in StackFrame(Started) /\ Top.kind = "bulk"
    BY <1>7, TopLemma, BulkAbortStep DEF BulkAbort, Runs, Harmless
  <2>3. Top \in [kind : {"bulk"}, keys : SUBSET Keys, live : SUBSET (1..Started), settles : BOOLEAN]
    BY <2>2, FrameLemma
  <2>4. f \in StackFrame(Started) /\ ~Opens(f) /\ r \in 1..Started
    BY <2>1, <2>3 DEF StackFrame, OtherFrame, Opens
  <2>5. Goes(Append(Below, f))
    <3>. HIDE DEF f
    <3>. QED  BY <2>2, <2>4, GoesPushed
  <2>6. \A j \in Keys : runtime'[j].request = runtime[j].request \/ Covered(j)'
    <3>1. CASE IsCurrent(r)
      BY <2>1, <2>2, <2>4, <2>5, <3>1, AbortLeaves DEF Quietly
    <3>2. CASE ~IsCurrent(r)
      BY <2>1, <3>2
    <3>. QED  BY <3>1, <3>2
  <2>. QED  BY <1>7, <2>2, <2>6, LedgerPlain DEF BulkAbort, history
<1>8. ASSUME NEW r \in DOMAIN fetches, LateAnswer(r) PROVE LedgerInv'
  <2>1. Quietly /\ Harmless
    BY <1>8, LateAnswerStep DEF LateAnswer, Answers, Harmless
  <2>. QED  BY <1>8, <2>1, LedgerPlain DEF LateAnswer, history
<1>9. ASSUME NEW r \in DOMAIN fetches, LoaderFails(r) PROVE LedgerInv'
  <2>. DEFINE g == [kind |-> "describe", op |-> r]
  <2>1. Quietly /\ Harmless
    BY <1>9, LoaderFailsStep DEF LoaderFails, Answers, Harmless
  <2>2. r \in 1..Started /\ frames' = <<g, CallFrame>> /\ runtime' = [runtime EXCEPT ![fetches[r].key].request = 0]
    BY <1>0, <1>9, AnsweredLemma DEF LoaderFails
  <2>3. g \in FramesOf(frames')
    <3>1. Len(frames') = 2 /\ frames'[1] = g
      BY <2>2
    <3>. QED  BY <3>1 DEF FramesOf
  <2>4. fetches'[r].key = fetches[r].key
    BY <2>1, <2>2 DEF Quietly, FetchesKept
  <2>5. \A j : j = fetches[r].key => Leaving(j)'
    BY <2>3, <2>4 DEF Leaving, Leaves, FramesOf
  <2>6. \A j \in Keys : runtime'[j].request = runtime[j].request \/ Covered(j)'
    <3>1. \A j : Leaving(j)' => Covered(j)'
      BY DEF Covered
    <3>2. \A j \in Keys : j # fetches[r].key => runtime'[j] = runtime[j]
      BY <1>0, <2>2 DEF CacheTypes
    <3>. QED  BY <2>5, <3>1, <3>2
  <2>. QED  BY <1>9, <2>1, <2>6, LedgerPlain DEF LoaderFails, history
<1>. QED  BY <1>1, <1>2, <1>3, <1>4, <1>5, <1>6, <1>7, <1>8, <1>9

LEMMA LedgerPublishingSteps ==
  ASSUME CacheInv, LedgerInv,
         \/ Microtask \/ FinishBulk
         \/ \E S \in SUBSET Keys, all \in BOOLEAN : InvalidateKeys(S, all)
  PROVE  LedgerInv'
<1>1. CASE Microtask
  <2>1. Quietly /\ Harmless
    BY <1>1, PlainSteps DEF Microtask, Harmless
  <2>. QED  BY <1>1, <2>1, LedgerPublishes DEF Microtask, history
<1>2. CASE FinishBulk
  <2>1. Quietly /\ Harmless
    BY <1>2, PlainSteps DEF FinishBulk, Runs, Harmless
  <2>2. UNCHANGED <<ledger, reads, restores, overrun, unreported>>
    BY <1>2 DEF FinishBulk, history
  <2>3. CASE UNCHANGED <<entries, runtime, writes>>
    BY <2>1, <2>2, <2>3, LedgerPlain
  <2>4. CASE Publish(entries, runtime, {}, Below, FALSE)
    BY <2>1, <2>2, <2>4, LedgerPublishes
  <2>. QED  BY <1>2, <2>3, <2>4 DEF FinishBulk
<1>3. ASSUME NEW S \in SUBSET Keys, NEW all \in BOOLEAN, InvalidateKeys(S, all) PROVE LedgerInv'
  <2>. DEFINE changed == {k \in S : MarkedStale(S)[k] # entries[k]}
  <2>1. Quietly /\ Harmless
    BY <1>3, InvalidateStep, QuietApplication DEF InvalidateKeys
  <2>2. UNCHANGED <<ledger, reads, restores, overrun, unreported>>
    BY <1>3 DEF InvalidateKeys
  <2>3. CASE UNCHANGED <<entries, runtime, writes>>
    BY <2>1, <2>2, <2>3, LedgerPlain
  <2>4. CASE Publish(MarkedStale(S), runtime, changed, frames, FALSE)
    <3>1. DOMAIN MarkedStale(S) = DOMAIN entries
      BY DEF MarkedStale
    <3>2. \A k \in DOMAIN entries : MarkedStale(S)[k].status = entries[k].status
      <4>1. \A k \in DOMAIN entries : entries[k] \in Entry
        BY EntriesLemma DEF CacheInv, CacheTypes
      <4>. QED  BY <4>1 DEF MarkedStale, Entry
    <3>3. changed \in SUBSET Keys
      OBVIOUS
    <3>. HIDE DEF changed
    <3>. QED  BY <2>1, <2>2, <2>4, <3>1, <3>2, <3>3, LedgerPublishes
  <2>. QED  BY <1>3, <2>3, <2>4 DEF InvalidateKeys
<1>. QED  BY <1>1, <1>2, <1>3

LEMMA LeftOutLemma ==
  ASSUME LedgerInv, NEW S
  PROVE  /\ LeftOut(S) \in Seq(Keys) /\ IsInjective(LeftOut(S))
         /\ ToSet(LeftOut(S)) = ToSet(lastUsed) \ S
<1>1. lastUsed \in Seq(Keys) /\ IsInjective(lastUsed)
  BY DEF LedgerInv, LedgerTypes
<1>2. ToSet(lastUsed) \subseteq Keys
  BY <1>1 DEF ToSet
<1>. QED  BY <1>1, <1>2, FilteredLemma DEF LeftOut

\* What is appended to a sequence that does not have it.
LEMMA AppendedLemma ==
  ASSUME NEW S, NEW s \in Seq(S), IsInjective(s), NEW x \in S, x \notin ToSet(s)
  PROVE  /\ Append(s, x) \in Seq(S) /\ IsInjective(Append(s, x))
         /\ ToSet(Append(s, x)) = ToSet(s) \cup {x}
<1>. DEFINE t == Append(s, x)
            m == Len(s)
<1>1. /\ t \in Seq(S) /\ m \in Nat /\ DOMAIN s = 1..m /\ DOMAIN t = (1..m) \cup {m + 1}
      /\ t[m + 1] = x /\ \A i \in 1..m : t[i] = s[i]
  <2>1. t \in Seq(S) /\ Len(t) = m + 1 /\ t[m + 1] = x /\ \A i \in 1..m : t[i] = s[i]
    BY AppendProperties
  <2>. QED  BY <2>1
<1>. HIDE DEF t, m
<1>2. ToSet(s) = {s[i] : i \in 1..m}
  BY <1>1 DEF ToSet
<1>3. IsInjective(t)
  BY <1>1, <1>2 DEF IsInjective
<1>4. ToSet(t) = ToSet(s) \cup {x}
  BY <1>1, <1>2 DEF ToSet
<1>. QED  BY <1>1, <1>3, <1>4 DEF t

LEMMA TouchLemma ==
  ASSUME LedgerInv, NEW k \in Keys, Touch(k)
  PROVE  /\ lastUsed' \in Seq(Keys) /\ IsInjective(lastUsed')
         /\ ToSet(lastUsed') = ToSet(lastUsed) \cup {k}
<1>1. /\ LeftOut({k}) \in Seq(Keys) /\ IsInjective(LeftOut({k}))
      /\ ToSet(LeftOut({k})) = ToSet(lastUsed) \ {k}
  BY LeftOutLemma
<1>2. lastUsed' = Append(LeftOut({k}), k)
  BY DEF Touch
<1>3. k \notin ToSet(LeftOut({k}))
  BY <1>1
<1>4. /\ lastUsed' \in Seq(Keys) /\ IsInjective(lastUsed')
      /\ ToSet(lastUsed') = ToSet(LeftOut({k})) \cup {k}
  BY <1>1, <1>2, <1>3, AppendedLemma, Zenon
<1>. QED  BY <1>1, <1>4

\* Steps that release(), or free an entry without it.
LEMMA LedgerFreeingSteps ==
  ASSUME CacheInv, LedgerInv,
         \/ \E k \in Keys : Visit(k)
         \/ \E S \in SUBSET Keys : Subscribe(S)
         \/ NothingToCancel \/ ReleaseAborted \/ FailureOvertaken
  PROVE  LedgerInv'
<1>. USE DEF history, ledger
<1>0. /\ CacheTypes /\ DOMAIN entries \subseteq Keys
      /\ lastUsed \in Seq(Keys) /\ IsInjective(lastUsed) /\ retainedAt \in Nat
      /\ reads \subseteq Keys /\ writes \subseteq Keys /\ unreported \subseteq Keys
  BY EntriesLemma DEF CacheInv, CacheTypes, LedgerInv, LedgerTypes
<1>1. ASSUME NEW k \in Keys, Visit(k) PROVE LedgerInv'
  <2>1. Quietly /\ Harmless
    BY <1>1, PlainSteps, QuietApplication DEF Visit
  <2>2. /\ lastUsed' \in Seq(Keys) /\ IsInjective(lastUsed')
        /\ ToSet(lastUsed') = ToSet(lastUsed) \cup {k}
    BY <1>1, TouchLemma DEF Visit
  <2>3. UNCHANGED <<entries, runtime, count, retainedAt, reads, restores, writes, overrun, unreported>>
    BY <1>1 DEF Visit
  <2>4. StillReported
    BY <2>1, <2>3, HarmlessLemma DEF StillReported
  <2>. QED  BY <1>0, <2>1, <2>2, <2>3, <2>4, SameHad, HarmlessLemma, LedgerSame
<1>2. ASSUME NEW S \in SUBSET Keys, Subscribe(S) PROVE LedgerInv'
  <2>1. Quietly /\ Harmless
    BY <1>2, PlainSteps, QuietApplication DEF Subscribe
  <2>2. /\ UNCHANGED <<entries, runtime, lastUsed, count, restores, writes, overrun>> /\ reads' = S
        /\ IF reads # {} THEN retainedAt' = 0 /\ unreported' = {} ELSE UNCHANGED <<retainedAt, unreported>>
    BY <1>2 DEF Subscribe, ReleaseIf, Release
  <2>3. StillReported
    BY <2>1, <2>2, HarmlessLemma DEF StillReported
  <2>4. retainedAt' \in Nat /\ unreported' \subseteq Keys
    BY <1>0, <2>2
  <2>. QED  BY <1>0, <2>1, <2>2, <2>3, <2>4, SameHad, HarmlessLemma, LedgerSame
<1>3. ASSUME NEW k, Runs("abort") \/ Runs("release") \/ Runs("describe"), k = fetches[Top.op].key, k \in Keys,
             Quietly, \A j \in Keys : runtime'[j].request = runtime[j].request,
             UNCHANGED <<entries, lastUsed, count, reads, restores, writes, overrun>>,
             \/ retainedAt' = 0 /\ unreported' = {}
             \/ retainedAt' = retainedAt /\ unreported' = LeftFree(k)
      PROVE  LedgerInv'
  <2>1. ~Installing /\ \A j : frames # <<>> /\ Leaves(Top, j) => j = k
    BY <1>3 DEF Installing, Leaves, Runs
  <2>2. retainedAt' \in Nat /\ unreported' \subseteq Keys
    BY <1>0, <1>3 DEF LeftFree
  <2>3. StillReported
    <3>1. ASSUME retainedAt' # 0, NEW j \in DOMAIN entries \ unreported'
          PROVE  \/ runtime'[j].request = runtime[j].request /\ ~(frames # <<>> /\ Leaves(Top, j))
                 \/ Covered(j)'
      <4>1. CASE j = k
        <5>1. IsRetained(k)
          BY <1>3, <3>1, <4>1 DEF LeftFree
        <5>2. \A i : i = k => IsRetained(i)'
          BY <1>3, <5>1 DEF IsRetained, HasRequest
        <5>. QED  BY <4>1, <5>2 DEF Covered
      <4>2. CASE j # k
        BY <1>0, <1>3, <2>1, <3>1, <4>2
      <4>. QED  BY <4>1, <4>2
    <3>2. retainedAt' # 0 => retainedAt' = retainedAt /\ unreported \subseteq unreported'
      BY <1>3 DEF LeftFree
    <3>. QED  BY <1>3, <3>1, <3>2 DEF StillReported
  <2>. QED  BY <1>0, <1>3, <2>1, <2>2, <2>3, SameHad, LedgerSame
<1>4. CASE NothingToCancel
  <2>1. Top \in StackFrame(Started) /\ Top.kind = "abort"
    BY <1>4, TopLemma DEF NothingToCancel
  <2>2. Top.op \in 1..Started
    BY <2>1, FrameLemma
  <2>3. fetches[Top.op].key \in Keys
    BY <1>0, <2>2, KeyLemma
  <2>4. \A j \in Keys : runtime'[j].request = runtime[j].request
    <3>1. \A j \in Keys : Trim(runtime[j]).request = runtime[j].request
      BY <1>0, TrimLemma DEF CacheTypes
    <3>2. runtime' = runtime \/ runtime' = Trimmed(fetches[Top.op].key)
      BY <1>4 DEF NothingToCancel
    <3>. QED  BY <1>0, <3>1, <3>2 DEF Trimmed, CacheTypes
  <2>5. Quietly
    BY <1>4, PlainSteps
  <2>6. Runs("abort") /\ unreported' = LeftFree(fetches[Top.op].key)
        /\ UNCHANGED <<entries, lastUsed, count, retainedAt, reads, restores, writes, overrun>>
    BY <1>4 DEF NothingToCancel
  <2>. QED  BY <1>3, <2>3, <2>4, <2>5, <2>6
<1>5. CASE ReleaseAborted
  <2>1. Top \in StackFrame(Started) /\ Top.kind = "release"
    BY <1>5, TopLemma DEF ReleaseAborted
  <2>2. Top.op \in 1..Started
    BY <2>1, FrameLemma
  <2>3. fetches[Top.op].key \in Keys
    BY <1>0, <2>2, KeyLemma
  <2>4. \A j \in Keys : runtime'[j].request = runtime[j].request
    <3>1. \A j \in Keys : Trim(runtime[j]).request = runtime[j].request
      BY <1>0, TrimLemma DEF CacheTypes
    <3>2. runtime' = Trimmed(fetches[Top.op].key)
      BY <1>5 DEF ReleaseAborted
    <3>. QED  BY <1>0, <3>1, <3>2 DEF Trimmed, CacheTypes
  <2>5. Quietly
    BY <1>5, PlainSteps
  <2>6. /\ Runs("release")
        /\ \/ retainedAt' = 0 /\ unreported' = {}
           \/ retainedAt' = retainedAt /\ unreported' = LeftFree(fetches[Top.op].key)
        /\ UNCHANGED <<entries, lastUsed, count, reads, restores, writes, overrun>>
    BY <1>5 DEF ReleaseAborted, Release
  <2>. QED  BY <1>3, <2>3, <2>4, <2>5, <2>6
<1>6. CASE FailureOvertaken
  <2>1. Top \in StackFrame(Started) /\ Top.kind = "describe"
    BY <1>6, TopLemma DEF FailureOvertaken
  <2>2. Top.op \in 1..Started
    BY <2>1, FrameLemma
  <2>3. fetches[Top.op].key \in Keys
    BY <1>0, <2>2, KeyLemma
  <2>4. Quietly
    BY <1>6, PlainSteps
  <2>5. Runs("describe") /\ unreported' = LeftFree(fetches[Top.op].key)
        /\ UNCHANGED <<entries, runtime, lastUsed, count, retainedAt, reads, restores, writes, overrun>>
    BY <1>6 DEF FailureOvertaken
  <2>. QED  BY <1>3, <2>3, <2>4, <2>5
<1>. QED  BY <1>1, <1>2, <1>4, <1>5, <1>6

LEMMA LedgerAborted ==
  ASSUME CacheInv, LedgerInv, Aborted
  PROVE  LedgerInv'
<1>. DEFINE k == fetches[Top.op].key
            f == [Top EXCEPT !.kind = "release"]
            es == [entries EXCEPT
                     ![k].status = IF @ = "Pending" THEN "Idle" ELSE @,
                     ![k].refreshing = IF entries[k].status = "Pending" THEN @ ELSE FALSE,
                     ![k].failed = @ \/ fetches[Top.op].retrying \/ runtime[k].failure # "none"]
<1>0. CacheTypes /\ Keeps(runtime) /\ DOMAIN entries \subseteq Keys
  BY KeepsLemma, EntriesLemma DEF CacheInv, CacheTypes
<1>1. /\ Goes(Below) /\ Top \in StackFrame(Started) /\ Top.kind = "abort" /\ Quietly
      /\ runtime[k].request = 0 /\ k \in DOMAIN entries
  BY TopLemma, AbortedStep DEF Aborted, Shows, Undisturbed, HasRequest
<1>2. Publish(es, runtime, {k}, Append(Below, f), FALSE)
  BY DEF Aborted
<1>3. UNCHANGED <<lastUsed, count, retainedAt, reads, restores, overrun, unreported>>
  BY DEF Aborted, ledger, history
<1>4. /\ Top.op \in 1..Started /\ f \in StackFrame(Started) /\ ~Opens(f)
      /\ f.kind = "release" /\ f.op = Top.op
  <2>1. Top \in [kind : {"abort", "release"}, op : 1..Started, identity : Identities]
    BY <1>1, FrameLemma
  <2>. QED  BY <2>1 DEF StackFrame, OtherFrame, Opens
<1>5. Goes(Append(Below, f)) /\ f \in FramesOf(Append(Below, f))
  <2>. HIDE DEF f
  <2>. QED  BY <1>1, <1>4, GoesPushed
<1>6. DOMAIN es = DOMAIN entries /\ \A j \in DOMAIN entries : j # k => es[j] = entries[j]
  OBVIOUS
<1>. HIDE DEF es, f
<1>7. /\ entries' = es /\ writes' \subseteq Keys
      /\ \A j \in Keys : runtime'[j].request = runtime[j].request
      /\ f \in FramesOf(frames')
  <2>1. {k} \in SUBSET Keys
    BY <1>0, <1>1
  <2>. HIDE DEF k
  <2>. QED  BY <1>0, <1>2, <1>5, <2>1, PublishedLemma, PublishLemma
<1>8. fetches'[f.op].key = k
  BY <1>1, <1>4 DEF Quietly, FetchesKept
<1>9. \A j : j = k => Covered(j)'
  <2>1. \A j : j = k => Leaving(j)'
    BY <1>4, <1>7, <1>8 DEF Leaving, Leaves, FramesOf
  <2>. QED  BY <2>1 DEF Covered
<1>10. \A j \in Keys : runtime'[j].request # 0 => Had(j)' = Had(j)
  <2>1. \A j \in Keys : runtime'[j].request # 0 => j # k
    BY <1>1, <1>7
  <2>. HIDE DEF k
  <2>. QED  BY <1>6, <1>7, <2>1 DEF Had
<1>11. ~Installing /\ \A j : Leaves(Top, j) => j = k
  BY <1>1 DEF Installing, Leaves
<1>. HIDE DEF k
<1>. QED  BY <1>0, <1>1, <1>3, <1>6, <1>7, <1>9, <1>10, <1>11, LedgerUntouched

\* An answer, or a failure, of the request that k had.
LEMMA LedgerSettles ==
  ASSUME CacheInv, LedgerInv, Quietly, ~Installing, UNCHANGED <<reads, restores, overrun>>,
         NEW k \in Keys, \A j : frames # <<>> /\ Leaves(Top, j) => j = k,
         NEW e, NEW failure \in Statuses \cup {"none"}, NEW rest,
         SettleNothing(k, rest) \/ Settle(k, e, failure, rest)
  PROVE  LedgerInv'
<1>0. /\ CacheTypes /\ DOMAIN entries \subseteq Keys /\ runtime \in [Keys -> Runtime]
      /\ lastUsed \in Seq(Keys) /\ IsInjective(lastUsed) /\ retainedAt \in Nat
      /\ reads \subseteq Keys /\ writes \subseteq Keys /\ unreported \subseteq Keys
  BY EntriesLemma DEF CacheInv, CacheTypes, LedgerInv, LedgerTypes
<1>1. CASE SettleNothing(k, rest)
  <2>1. /\ UNCHANGED <<entries, count, retainedAt, writes, unreported>> /\ k \notin DOMAIN entries
        /\ runtime' = [runtime EXCEPT ![k] = NoRuntime]
        /\ lastUsed' = LeftOut({k})
    BY <1>1 DEF SettleNothing
  <2>2. /\ lastUsed' \in Seq(Keys) /\ IsInjective(lastUsed')
        /\ ToSet(lastUsed') = ToSet(lastUsed) \ {k}
    BY <2>1, LeftOutLemma
  <2>3. runtime'[k].request = 0 /\ \A j \in Keys : j # k => runtime'[j] = runtime[j]
    BY <1>0, <2>1 DEF NoRuntime
  <2>4. StillReported
    BY <1>0, <2>1, <2>3 DEF StillReported
  <2>5. \A j \in ToSet(lastUsed) :
          j \in ToSet(lastUsed') \/ (j \notin DOMAIN entries /\ runtime'[j].request = 0)
    BY <2>1, <2>2, <2>3
  <2>. QED  BY <1>0, <2>1, <2>2, <2>4, <2>5, SameHad, LedgerSame
<1>2. CASE Settle(k, e, failure, rest)
  <2>. DEFINE rt == [runtime EXCEPT ![k] = Trim([@ EXCEPT !.request = 0, !.failure = failure])]
              es == [entries EXCEPT ![k] = e]
  <2>1. /\ Publish(es, rt, {k}, rest, FALSE) /\ k \in DOMAIN entries
        /\ IF k \notin reads THEN retainedAt' = 0 /\ unreported' = {} ELSE UNCHANGED <<retainedAt, unreported>>
        /\ UNCHANGED <<lastUsed, count>>
    BY <1>2 DEF Settle, ReleaseIf, Release
  <2>2. Keeps(rt) /\ rt[k].request = 0 /\ \A j \in Keys : j # k => rt[j] = runtime[j]
    BY <1>0, AnsweredRecordLemma
  <2>3. DOMAIN es = DOMAIN entries /\ \A j \in DOMAIN entries : j # k => es[j] = entries[j]
    OBVIOUS
  <2>. HIDE DEF rt, es
  <2>4. /\ entries' = es /\ writes' \subseteq Keys
        /\ \A j \in Keys : runtime'[j].request = rt[j].request
    BY <1>0, <2>1, <2>2, PublishedLemma
  <2>5. \A j \in Keys : runtime'[j].request # 0 => Had(j)' = Had(j)
    BY <2>2, <2>3, <2>4 DEF Had
  <2>6. StillReported
    <3>1. retainedAt' # 0 => Covered(k)'
      BY <2>1 DEF Covered, IsRetained
    <3>. QED  BY <1>0, <2>1, <2>2, <2>4, <3>1 DEF StillReported
  <2>7. retainedAt' \in Nat /\ unreported' \subseteq Keys
    BY <1>0, <2>1
  <2>. QED  BY <1>0, <2>1, <2>3, <2>4, <2>5, <2>6, <2>7, LedgerSame
<1>. QED  BY <1>1, <1>2

LEMMA LedgerSettlingSteps ==
  ASSUME CacheInv, LedgerInv, SettleFailure \/ \E r \in DOMAIN fetches : SettleSuccess(r)
  PROVE  LedgerInv'
<1>0. CacheTypes
  BY DEF CacheInv
<1>1. CASE SettleFailure
  <2>. DEFINE r == Top.op
              k == fetches[r].key
              status == IF entries[k].status = "Success" \/ entries[k].data # 0
                          THEN entries[k].status ELSE "Error"
              e == [entries[k] EXCEPT !.status = status, !.error = TRUE, !.refreshing = FALSE,
                                      !.failed = ~fetches[r].invalidated]
              rest == Append(Below, [Top EXCEPT !.kind = "settled"])
  <2>1. Quietly /\ Top \in StackFrame(Started) /\ Top.kind = "describe"
    BY <1>1, TopLemma, SettleFailureStep DEF SettleFailure
  <2>2. k \in Keys
    <3>1. r \in 1..Started
      BY <2>1, FrameLemma
    <3>. QED  BY <1>0, <3>1, KeyLemma
  <2>3. ~Installing /\ \A j : frames # <<>> /\ Leaves(Top, j) => j = k
    BY <2>1 DEF Installing, Leaves
  <2>4. SettleNothing(k, Below) \/ Settle(k, e, status, rest)
    BY <1>1 DEF SettleFailure
  <2>5. UNCHANGED <<reads, restores, overrun>>
    BY <1>1 DEF SettleFailure
  <2>6. k \in DOMAIN entries => status \in Statuses \cup {"none"}
    <3>1. k \in DOMAIN entries => entries[k] \in Entry
      BY <1>0, EntriesLemma DEF CacheTypes
    <3>. QED  BY <3>1 DEF Entry, Statuses
  <2>. HIDE DEF k, e, status, rest
  <2>7. CASE SettleNothing(k, Below)
    <3>1. "none" \in Statuses \cup {"none"}
      OBVIOUS
    <3>. QED  BY <2>1, <2>2, <2>3, <2>5, <2>7, <3>1, LedgerSettles
  <2>8. CASE Settle(k, e, status, rest)
    <3>1. status \in Statuses \cup {"none"}
      BY <2>6, <2>8 DEF Settle
    <3>. QED  BY <2>1, <2>2, <2>3, <2>5, <2>8, <3>1, LedgerSettles
  <2>. QED  BY <2>4, <2>7, <2>8
<1>2. ASSUME NEW r \in DOMAIN fetches, SettleSuccess(r) PROVE LedgerInv'
  <2>. DEFINE k == fetches[r].key
              e == [entries[k] EXCEPT !.status = "Success", !.data = r, !.error = FALSE,
                                      !.refreshing = FALSE, !.failed = FALSE,
                                      !.invalidated = fetches[r].invalidated]
              rest == <<[kind |-> "settled", op |-> r]>>
  <2>1. Quietly /\ frames = <<>> /\ k \in Keys /\ "none" \in Statuses \cup {"none"}
    BY <1>0, <1>2, SettleSuccessStep, AnsweredLemma, KeyLemma DEF SettleSuccess, Answers
  <2>2. ~Installing
    BY <2>1 DEF Installing
  <2>3. SettleNothing(k, <<>>) \/ Settle(k, e, "none", rest)
    BY <1>2 DEF SettleSuccess
  <2>4. UNCHANGED <<reads, restores, overrun>>
    BY <1>2 DEF SettleSuccess
  <2>. HIDE DEF k, e, rest
  <2>5. CASE SettleNothing(k, <<>>)
    BY <2>1, <2>2, <2>4, <2>5, LedgerSettles
  <2>6. CASE Settle(k, e, "none", rest)
    BY <2>1, <2>2, <2>4, <2>6, LedgerSettles
  <2>. QED  BY <2>3, <2>5, <2>6
<1>. QED  BY <1>1, <1>2

\* Entries without a request are gone.
LEMMA LedgerShrinks ==
  ASSUME CacheInv, LedgerInv, Quietly, Harmless, UNCHANGED <<reads, restores, overrun>>,
         NEW gone \in SUBSET DOMAIN entries, \A k \in gone : runtime[k].request = 0,
         DOMAIN entries' = DOMAIN entries \ gone,
         \A k \in DOMAIN entries' : entries'[k].status = entries[k].status,
         \A k \in Keys : runtime'[k].request = runtime[k].request,
         lastUsed' \in Seq(Keys), IsInjective(lastUsed'), ToSet(lastUsed') = ToSet(lastUsed) \ gone,
         count' = count - Cardinality(gone),
         retainedAt' \in Nat, writes' \subseteq Keys, unreported' \subseteq Keys,
         Counted /\ Reported /\ retainedAt' # 0 =>
           \A k \in (DOMAIN entries \ gone) \ unreported' : Covered(k)
  PROVE  LedgerInv'
<1>1. /\ IsFiniteSet(DOMAIN entries) /\ DOMAIN entries \subseteq Keys
      /\ Cardinality(gone) \in Nat
      /\ Cardinality(DOMAIN entries \ gone) = Cardinality(DOMAIN entries) - Cardinality(gone)
  <2>1. DOMAIN entries \subseteq Keys /\ IsFiniteSet(Keys)
    BY EntriesLemma DEF CacheInv, CacheTypes, CacheAssumption
  <2>2. IsFiniteSet(DOMAIN entries)
    BY <2>1, FS_Subset
  <2>3. IsFiniteSet(gone) /\ DOMAIN entries \cap gone = gone
    BY <2>2, FS_Subset
  <2>4. Cardinality(gone) \in Nat
    BY <2>3, FS_CardinalityType
  <2>. QED  BY <2>1, <2>2, <2>3, <2>4, FS_Difference
<1>2. LedgerTypes'
  BY <1>1 DEF LedgerInv, LedgerTypes
<1>3. \A k \in Keys : runtime'[k].request # 0 => k \notin gone
  OBVIOUS
<1>4. \A k \in Keys : runtime'[k].request # 0 => Had(k)' = Had(k) /\ (Known(k) => Known(k)')
  BY <1>3 DEF Had, Known
<1>5. AllAware => AllAware'
  BY <1>4, AwareLemma DEF Quietly
<1>6. ~Installing /\ \A k : ~(frames # <<>> /\ Leaves(Top, k))
  BY HarmlessLemma
<1>7. Resetting => Resetting'
  BY <1>6, ResettingLemma DEF Quietly
<1>8. Counted => Counted'
  BY <1>1 DEF Counted, Known
<1>9. \A k \in Keys : Covered(k) => Covered(k)'
  <2>1. \A k \in Keys : IsRetained(k) => IsRetained(k)'
    BY DEF IsRetained, HasRequest
  <2>2. \A k : Leaving(k) => Leaving(k)'
    BY <1>6, LeavingLemma DEF Quietly
  <2>. QED  BY <2>1, <2>2 DEF Covered
<1>10. Counted /\ Reported => Reported'
  BY <1>1, <1>9 DEF Reported
<1>. QED  BY <1>2, <1>5, <1>7, <1>8, <1>10 DEF LedgerInv

LEMMA RemovedLemma ==
  ASSUME CacheInv, LedgerInv, NEW S, NEW rest, NEW deferred, RemoveEntries(S, rest, deferred)
  PROVE  /\ DOMAIN entries' = DOMAIN entries \ S
         /\ \A k \in DOMAIN entries' : entries'[k].status = entries[k].status
         /\ \A k \in Keys : runtime'[k].request = runtime[k].request
         /\ lastUsed' \in Seq(Keys) /\ IsInjective(lastUsed')
         /\ ToSet(lastUsed') = ToSet(lastUsed) \ (S \cap DOMAIN entries)
         /\ count' = count - Cardinality(S \cap DOMAIN entries)
         /\ writes' \subseteq Keys
<1>. DEFINE gone == S \cap DOMAIN entries
            es == [k \in DOMAIN entries \ gone |-> entries[k]]
            rt == [k \in Keys |-> IF k \in gone THEN Trim([runtime[k] EXCEPT !.failure = "none"])
                                  ELSE runtime[k]]
<1>0. CacheTypes /\ DOMAIN entries \subseteq Keys /\ runtime \in [Keys -> Runtime]
  BY EntriesLemma DEF CacheInv, CacheTypes
<1>1. /\ Publish(es, rt, gone, rest, deferred)
      /\ count' = count - Cardinality(gone) /\ lastUsed' = LeftOut(gone)
  BY DEF RemoveEntries
<1>2. Keeps(rt) /\ \A k \in Keys : rt[k].request = runtime[k].request
  <2>1. ASSUME NEW k \in Keys
        PROVE  /\ Trim([runtime[k] EXCEPT !.failure = "none"]) \in Runtime
               /\ Trim([runtime[k] EXCEPT !.failure = "none"]).request = runtime[k].request
    BY <1>0, UnfailedLemma
  <2>. QED  BY <1>0, <2>1 DEF Keeps
<1>3. DOMAIN es = DOMAIN entries \ S /\ \A k \in DOMAIN es : es[k] = entries[k]
  OBVIOUS
<1>4. gone \in SUBSET Keys
  BY <1>0
<1>. HIDE DEF es, rt, gone
<1>5. /\ entries' = es /\ writes' \subseteq Keys
      /\ \A k \in Keys : runtime'[k].request = rt[k].request
  BY <1>0, <1>1, <1>2, <1>4, PublishedLemma
<1>6. /\ lastUsed' \in Seq(Keys) /\ IsInjective(lastUsed')
      /\ ToSet(lastUsed') = ToSet(lastUsed) \ gone
  BY <1>1, LeftOutLemma
<1>. QED  BY <1>1, <1>2, <1>3, <1>5, <1>6 DEF gone

\* Entries are removed without a scan.
LEMMA LedgerRemoves ==
  ASSUME CacheInv, LedgerInv, Quietly, Harmless,
         UNCHANGED <<retainedAt, reads, restores, overrun, unreported>>,
         NEW S, NEW rest, NEW deferred, RemoveEntries(S, rest, deferred),
         \A k \in S \cap DOMAIN entries : runtime[k].request = 0
  PROVE  LedgerInv'
<1>. DEFINE gone == S \cap DOMAIN entries
<1>1. /\ DOMAIN entries' = DOMAIN entries \ gone
      /\ \A k \in DOMAIN entries' : entries'[k].status = entries[k].status
      /\ \A k \in Keys : runtime'[k].request = runtime[k].request
      /\ lastUsed' \in Seq(Keys) /\ IsInjective(lastUsed') /\ ToSet(lastUsed') = ToSet(lastUsed) \ gone
      /\ count' = count - Cardinality(gone)
      /\ writes' \subseteq Keys
  BY RemovedLemma
<1>2. gone \in SUBSET DOMAIN entries /\ \A k \in gone : runtime[k].request = 0
  OBVIOUS
<1>3. retainedAt' \in Nat /\ unreported' \subseteq Keys
  BY DEF LedgerInv, LedgerTypes
<1>4. Counted /\ Reported /\ retainedAt' # 0 => \A k \in (DOMAIN entries \ gone) \ unreported' : Covered(k)
  BY DEF Reported
<1>. HIDE DEF gone
<1>. QED  BY <1>1, <1>2, <1>3, <1>4, LedgerShrinks

\* A scan leaves what is retained, and all of it if it came up short.
LEMMA LedgerEvicts ==
  ASSUME CacheInv, LedgerInv, Quietly, Harmless, UNCHANGED <<reads, restores, overrun>>,
         NEW rest, NEW deferred, Evict(rest, deferred)
  PROVE  LedgerInv'
<1>. DEFINE candidates == {k \in Keys : ~IsRetained(k)}
            free == Filtered(lastUsed, candidates)
            excess == count - MaxEntries
            short == Len(free) < excess
            doomed == IF short THEN free ELSE SubSeq(free, 1, excess)
            gone == ToSet(doomed) \cap DOMAIN entries
<1>0. /\ lastUsed \in Seq(Keys) /\ IsInjective(lastUsed) /\ count \in Int /\ retainedAt \in Nat
      /\ reads \subseteq Keys /\ writes \subseteq Keys /\ unreported \subseteq Keys
      /\ DOMAIN entries \subseteq Keys /\ MaxEntries \in Nat
  BY EntriesLemma DEF CacheInv, CacheTypes, CacheAssumption, LedgerInv, LedgerTypes
<1>1. CASE ShouldSkip
  BY <1>1, LedgerPlain DEF Evict, ledger
<1>2. CASE ~ShouldSkip
  <2>1. /\ retainedAt' = IF short THEN count ELSE 0
        /\ unreported' = {}
        /\ IF doomed = <<>>
             THEN frames' = rest /\ UNCHANGED <<entries, runtime, lastUsed, count, writes>>
             ELSE RemoveEntries(ToSet(doomed), rest, deferred)
    BY <1>2 DEF Evict
  <2>2. count > MaxEntries
    BY <1>0, <1>2 DEF ShouldSkip
  <2>3. free \in Seq(Keys) /\ ToSet(free) = ToSet(lastUsed) \cap candidates
    BY <1>0, FilteredLemma
  <2>4. ToSet(doomed) \subseteq candidates /\ (short => ToSet(doomed) = ToSet(lastUsed) \cap candidates)
    <3>. HIDE DEF free, candidates, excess
    <3>1. CASE short
      BY <2>3, <3>1
    <3>2. CASE ~short
      <4>1. 1 \in Int /\ excess \in Int /\ excess <= Len(free)
        BY <1>0, <2>3, <3>2 DEF excess
      <4>2. \A i \in 1..excess : i \in DOMAIN free
        BY <2>3, <4>1
      <4>3. \A i \in DOMAIN SubSeq(free, 1, excess) : SubSeq(free, 1, excess)[i] = free[i] /\ i \in DOMAIN free
        BY <2>3, <4>1, <4>2
      <4>. QED  BY <2>3, <3>2, <4>3 DEF ToSet
    <3>. QED  BY <3>1, <3>2
  <2>5. retainedAt' \in Nat /\ unreported' \subseteq Keys
    BY <1>0, <2>1, <2>2
  <2>. HIDE DEF doomed, short
  <2>6. gone \in SUBSET DOMAIN entries /\ \A k \in gone : runtime[k].request = 0
    BY <2>4 DEF IsRetained, HasRequest
  <2>7. Counted /\ Reported /\ retainedAt' # 0 => \A k \in (DOMAIN entries \ gone) \ unreported' : Covered(k)
    BY <1>0, <2>1, <2>4 DEF Counted, Known, Covered
  <2>8. CASE doomed = <<>>
    <3>1. gone = {} /\ ToSet(lastUsed) \ gone = ToSet(lastUsed)
      BY <2>8 DEF ToSet
    <3>2. Cardinality(gone) = 0
      <4>. HIDE DEF gone
      <4>. QED  BY <3>1, FS_EmptySet
    <3>3. UNCHANGED <<entries, runtime, lastUsed, count, writes>>
      BY <2>1, <2>8
    <3>. HIDE DEF gone
    <3>. QED  BY <1>0, <2>5, <2>6, <2>7, <3>1, <3>2, <3>3, LedgerShrinks
  <2>9. CASE doomed # <<>>
    <3>1. /\ DOMAIN entries' = DOMAIN entries \ gone
          /\ \A k \in DOMAIN entries' : entries'[k].status = entries[k].status
          /\ \A k \in Keys : runtime'[k].request = runtime[k].request
          /\ lastUsed' \in Seq(Keys) /\ IsInjective(lastUsed') /\ ToSet(lastUsed') = ToSet(lastUsed) \ gone
          /\ count' = count - Cardinality(gone)
          /\ writes' \subseteq Keys
      BY <2>1, <2>9, RemovedLemma
    <3>. HIDE DEF gone
    <3>. QED  BY <2>5, <2>6, <2>7, <3>1, LedgerShrinks
  <2>. QED  BY <2>8, <2>9
<1>. QED  BY <1>1, <1>2

LEMMA LedgerRemovingSteps ==
  ASSUME CacheInv, LedgerInv, Forgotten \/ ClearIdle \/ EvictForLoading \/ EvictSettled
  PROVE  LedgerInv'
<1>0. CacheTypes
  BY DEF CacheInv
<1>1. CASE EvictForLoading
  <2>1. Quietly /\ Harmless
    BY <1>1, OnTheWaySteps DEF EvictForLoading, Harmless, Runs
  <2>. QED  BY <1>1, <2>1, LedgerEvicts DEF EvictForLoading
<1>2. CASE EvictSettled
  <2>1. Quietly /\ Harmless
    BY <1>2, PlainSteps DEF EvictSettled, Harmless, Runs
  <2>. QED  BY <1>2, <2>1, LedgerEvicts DEF EvictSettled
<1>3. CASE ClearIdle
  <2>1. Quietly /\ Harmless /\ RemoveEntries(DOMAIN entries, frames, FALSE)
        /\ UNCHANGED <<retainedAt, reads, restores, overrun, unreported>>
    BY <1>3, CancellingSteps, QuietApplication DEF ClearIdle, history
  <2>2. \A k \in DOMAIN entries \cap DOMAIN entries : runtime[k].request = 0
    <3>1. DOMAIN entries \subseteq Keys
      BY <1>0, EntriesLemma DEF CacheTypes
    <3>. QED  BY <1>3, <3>1 DEF ClearIdle, InFlight, HasRequest
  <2>. QED  BY <2>1, <2>2, LedgerRemoves
<1>4. CASE Forgotten
  <2>. DEFINE k == Top.key
  <2>1. Quietly /\ Harmless /\ k \in Keys
    <3>1. Top \in StackFrame(Started) /\ Top.kind = "forget"
      BY <1>4, TopLemma DEF Forgotten
    <3>. QED  BY <1>4, <3>1, FrameLemma, CancellingSteps DEF Harmless
  <2>2. UNCHANGED <<retainedAt, reads, restores, overrun, unreported>>
    BY <1>4 DEF Forgotten, history
  <2>3. CASE UNCHANGED <<entries, runtime, lastUsed, count, writes>>
    BY <2>1, <2>2, <2>3, LedgerPlain DEF ledger
  <2>4. CASE SettleNothing(k, Below)
    <3>1. "none" \in Statuses \cup {"none"} /\ ~Installing /\ \A j : ~(frames # <<>> /\ Leaves(Top, j))
      BY <2>1, HarmlessLemma
    <3>. HIDE DEF k
    <3>. QED  BY <2>1, <2>2, <2>4, <3>1, LedgerSettles
  <2>5. CASE RemoveEntries({k}, Below, FALSE) /\ ~HasRequest(k)
    <3>1. \A j \in {k} \cap DOMAIN entries : runtime[j].request = 0
      BY <2>5 DEF HasRequest
    <3>. HIDE DEF k
    <3>. QED  BY <2>1, <2>2, <2>5, <3>1, LedgerRemoves
  <2>. QED  BY <1>4, <2>2, <2>3, <2>4, <2>5 DEF Forgotten, SettleNothing
<1>. QED  BY <1>1, <1>2, <1>3, <1>4

\* The frame on top lies over all others.
LEMMA OverLemma ==
  ASSUME CacheInv, frames # <<>>
  PROVE  \A f \in FramesOf(Below) : f \in FramesOf(frames) /\ Under(f, Top, frames)
BY PopLemma, PoppedUnder DEF Below, Top, CacheInv, StackSound

LEMMA LedgerMarkLoading ==
  ASSUME CacheInv, LedgerInv, MarkLoading
  PROVE  LedgerInv'
<1>. DEFINE k == fetches[Top.op].key
            g == [kind |-> "loading", op |-> Top.op, superseded |-> Top.superseded,
                  deferred |-> Top.deferred]
            es == Marked(k, Top.had, Top.op)
            d == Top.deferred
<1>1. /\ CacheTypes /\ Keeps(runtime) /\ Goes(Below) /\ Top \in StackFrame(Started) /\ Top.kind = "fetch"
      /\ Top \in FramesOf(frames) /\ frames # <<>> /\ Quietly
      /\ Top.op \in 1..Started /\ Top.had \in Statuses \cup {"none"}
  <2>1. /\ CacheTypes /\ Keeps(runtime) /\ Goes(Below) /\ Top \in StackFrame(Started) /\ Top.kind = "fetch"
        /\ Top \in FramesOf(frames) /\ frames # <<>> /\ Quietly
    BY TopLemma, KeepsLemma, MarkLoadingStep DEF MarkLoading, CacheInv, Runs
  <2>. QED  BY <2>1, FrameLemma
<1>2. /\ Top.had = "none" \/ k \in DOMAIN entries
      /\ Publish(es, runtime, {k}, Append(Below, g), d)
      /\ count' = IF Top.had = "none" THEN count + 1 ELSE count
      /\ overrun' = (overrun \/ ~IsCurrent(Top.op))
      /\ UNCHANGED <<root, fetches, lastUsed, retainedAt, reads, restores, unreported>>
  BY DEF MarkLoading
<1>3. k \in Keys /\ DOMAIN entries \subseteq Keys
  BY <1>1, KeyLemma, EntriesLemma DEF CacheTypes
<1>4. /\ DOMAIN es = (IF Top.had = "none" THEN DOMAIN entries \cup {k} ELSE DOMAIN entries)
      /\ \A j \in DOMAIN es : j # k => es[j] = entries[j]
  BY DEF Marked
<1>. HIDE DEF es, g, d
<1>5. /\ entries' = es /\ writes' \subseteq Keys
      /\ \A j \in Keys : runtime'[j].request = runtime[j].request
  <2>1. {k} \in SUBSET Keys
    BY <1>3
  <2>. HIDE DEF k
  <2>. QED  BY <1>1, <1>2, <2>1, PublishedLemma
<1>6. LedgerTypes'
  BY <1>2, <1>5 DEF LedgerInv, LedgerTypes
<1>7. ASSUME ~overrun'
      PROVE  AllAware' /\ (Resetting \/ (Counted /\ Reported))'
  <2>1. IsCurrent(Top.op) /\ AllAware /\ (Resetting \/ (Counted /\ Reported))
    BY <1>2, <1>7 DEF LedgerInv, LedgerTypes
  <2>2. Top.had = Had(k) /\ Known(k) /\ runtime[k].request # 0
    BY <1>1, <2>1 DEF AllAware, Aware, IsCurrent
  <2>3. Top.had = "none" <=> k \notin DOMAIN entries
    <3>1. k \in DOMAIN entries => entries[k] \in Entry
      BY <1>1, EntriesLemma DEF CacheTypes
    <3>. QED  BY <2>2, <3>1 DEF Had, Entry, Statuses
  <2>4. DOMAIN es = DOMAIN entries \cup {k}
    BY <1>4, <2>3
  <2>5. Resetting => Resetting'
    <3>1. ~Installing
      BY <1>1 DEF Installing
    <3>. QED  BY <1>1, <1>2, <3>1, ResettingLemma DEF Quietly
  <2>6. Counted => Counted'
    <3>1. IsFiniteSet(DOMAIN entries)
      BY <1>1, <1>3, FS_Subset DEF CacheTypes, CacheAssumption
    <3>2. Cardinality(DOMAIN entries \cup {k}) =
            IF k \in DOMAIN entries THEN Cardinality(DOMAIN entries) ELSE Cardinality(DOMAIN entries) + 1
      BY <3>1, FS_AddElement
    <3>. HIDE DEF k
    <3>. QED  BY <1>2, <1>5, <2>2, <2>3, <2>4, <3>2 DEF Counted, Known
  <2>7. Reported => Reported'
    <3>1. \A j \in Keys : IsRetained(j) => IsRetained(j)'
      BY <1>2, <1>5 DEF IsRetained, HasRequest
    <3>2. \A j : ~Leaves(Top, j)
      BY <1>1 DEF Leaves
    <3>3. \A j : Leaving(j) => Leaving(j)'
      BY <1>1, <3>2, LeavingLemma DEF Quietly
    <3>4. \A j : j = k => IsRetained(j)'
      BY <1>3, <1>5, <2>2 DEF IsRetained, HasRequest
    <3>. HIDE DEF k
    <3>. QED  BY <1>2, <1>3, <1>5, <2>4, <3>1, <3>3, <3>4 DEF Reported, Covered
  <2>8. AllAware'
    <3>1. ASSUME NEW f \in FramesOf(frames'), f.kind = "fetch", IsCurrent(f.op)' PROVE Aware(f)'
      <4>1. f \in FramesOf(Below)
        <5>1. FramesOf(frames') \subseteq FramesOf(Below) \cup {g, CallFrame}
          <6>1. g \in StackFrame(Started) /\ ~Opens(g)
            <7>1. Top.superseded \in Nat /\ Top.superseded < Top.op /\ Top.deferred \in BOOLEAN
              BY <1>1, FrameLemma
            <7>. QED  BY <1>1, <7>1 DEF g, StackFrame, FetchFrame, Opens
          <6>2. Goes(Append(Below, g)) /\ FramesOf(Append(Below, g)) = FramesOf(Below) \cup {g}
            BY <1>1, <6>1, GoesPushed
          <6>3. FramesOf(Append(Append(Below, g), CallFrame)) = FramesOf(Append(Below, g)) \cup {CallFrame}
            BY <6>2, GoesCalling
          <6>. QED  BY <1>2, <6>2, <6>3 DEF Publish
        <5>. QED  BY <3>1, <5>1, CallFrameLemma DEF g
      <4>2. f \in FramesOf(frames) /\ Under(f, Top, frames)
        BY <1>1, <4>1, OverLemma
      <4>3. f \in StackFrame(Started)
        BY <1>1, <4>2 DEF CacheInv, StackSound, Stack, FramesOf
      <4>4. f.op \in 1..Started
        BY <3>1, <4>3, FrameLemma
      <4>5. fetches[f.op].key \in Keys
        BY <1>1, <4>4, KeyLemma
      <4>6. IsCurrent(f.op)
        BY <1>2, <1>5, <3>1, <4>5 DEF IsCurrent
      <4>7. fetches[f.op].key # k
        BY <1>1, <3>1, <4>2, <4>6 DEF CacheInv, Barred, Takes
      <4>8. f.had = Had(fetches[f.op].key) /\ Known(fetches[f.op].key)
        BY <2>1, <3>1, <4>2, <4>6 DEF AllAware, Aware
      <4>9. \A j : j # k => Had(j)' = Had(j) /\ (Known(j) => Known(j)')
        <5>. HIDE DEF k
        <5>. QED  BY <1>2, <1>4, <1>5, <2>4 DEF Had, Known
      <4>10. \A j : j = fetches[f.op].key => f.had = Had(j)' /\ Known(j)'
        BY <4>7, <4>8, <4>9
      <4>. QED  BY <1>2, <4>10 DEF Aware, Had, Known
    <3>2. ASSUME NEW f \in FramesOf(frames') PROVE Aware(f)'
      <4>1. CASE f.kind = "fetch" /\ IsCurrent(f.op)'
        BY <3>1, <4>1
      <4>2. CASE ~(f.kind = "fetch" /\ IsCurrent(f.op)')
        BY <4>2 DEF Aware
      <4>. QED  BY <4>1, <4>2
    <3>. QED  BY <3>2 DEF AllAware, FramesOf
  <2>. QED  BY <2>1, <2>5, <2>6, <2>7, <2>8
<1>. QED  BY <1>6, <1>7 DEF LedgerInv

\* The entry that it found is gone: a listener has overrun the fetch().
LEMMA LedgerMarkingFails ==
  ASSUME CacheInv, LedgerInv, MarkingFails
  PROVE  LedgerInv'
<1>1. Top \in FramesOf(frames) /\ Top.kind = "fetch"
  BY TopLemma DEF MarkingFails
<1>2. /\ Top.had # "none" /\ fetches[Top.op].key \notin DOMAIN entries
      /\ overrun' = (overrun \/ ~IsCurrent(Top.op))
      /\ UNCHANGED <<ledger, reads, writes, unreported>>
  BY DEF MarkingFails
<1>3. LedgerTypes'
  BY <1>2 DEF LedgerInv, LedgerTypes, ledger
<1>4. ~overrun => ~IsCurrent(Top.op)
  BY <1>1, <1>2 DEF LedgerInv, AllAware, Aware, Had
<1>5. overrun'
  BY <1>2, <1>4
<1>. QED  BY <1>3, <1>5 DEF LedgerInv

\* A push, whatever is pushed.
LEMMA PushedFrames ==
  ASSUME NEW S, NEW s \in Seq(S), NEW g
  PROVE  FramesOf(Append(s, g)) = FramesOf(s) \cup {g}
<1>. DEFINE t == Append(s, g)
            n == Len(s)
<1>1. n \in Nat /\ Len(t) = n + 1 /\ t[n + 1] = g /\ \A i \in 1..n : t[i] = s[i]
  OBVIOUS
<1>. HIDE DEF t, n
<1>2. FramesOf(t) = {t[i] : i \in 1..n + 1} /\ FramesOf(s) = {s[i] : i \in 1..n}
  BY <1>1 DEF FramesOf, n
<1>3. 1..n + 1 = (1..n) \cup {n + 1}
  BY <1>1
<1>4. FramesOf(t) = FramesOf(s) \cup {g}
  BY <1>1, <1>2, <1>3
<1>. QED  BY <1>4 DEF t

LEMMA PushedCalling ==
  ASSUME NEW S, NEW s \in Seq(S), NEW g, NEW t,
         t = Append(s, g) \/ t = Append(s, g) \o <<CallFrame>>
  PROVE  /\ FramesOf(s) \cup {g} \subseteq FramesOf(t)
         /\ FramesOf(t) \subseteq FramesOf(s) \cup {g, CallFrame}
<1>. DEFINE u == Append(s, g)
            T == S \cup {g, CallFrame}
<1>1. s \in Seq(T)
  OBVIOUS
<1>2. u \in Seq(T) /\ g \in T /\ CallFrame \in T
  BY <1>1, AppendProperties
<1>3. FramesOf(u) = FramesOf(s) \cup {g}
  BY PushedFrames
<1>. HIDE DEF u, T
<1>4. u \o <<CallFrame>> = Append(u, CallFrame)
  BY <1>2, AppendIsConcat
<1>5. FramesOf(Append(u, CallFrame)) = FramesOf(u) \cup {CallFrame}
  BY <1>2, PushedFrames
<1>. QED  BY <1>3, <1>4, <1>5 DEF u

LEMMA LedgerStart ==
  ASSUME CacheInv, LedgerInv, NEW k \in Keys, NEW deferred, Start(k, deferred), Touch(k),
         UNCHANGED <<entries, count, retainedAt, reads, restores, writes, overrun, unreported>>
  PROVE  LedgerInv'
<1>. DEFINE n == Started
            r == n + 1
            known == runtime[k].request
            f == [key |-> k, retrying |-> Retrying(k), invalidated |-> FALSE, loader |-> "none",
                  settled |-> FALSE, follows |-> 0]
            g == [kind |-> "fetch", op |-> r, superseded |-> known, deferred |-> deferred,
                  had |-> IF k \in DOMAIN entries THEN entries[k].status ELSE "none"]
<1>1. /\ CacheTypes /\ n \in Nat /\ frames \in Seq(StackFrame(n)) /\ DOMAIN entries \subseteq Keys
      /\ runtime \in [Keys -> Runtime] /\ fetches \in Seq(Fetch)
  BY BoundsLemma, EntriesLemma DEF CacheInv, StackSound, Stack, CacheTypes
<1>2. /\ fetches' = Append(fetches, f)
      /\ runtime' = [runtime EXCEPT ![k].generation = r, ![k].request = r]
      /\ frames' = Append(frames, g) \o (IF known = 0 THEN <<>> ELSE Listeners({known}))
  BY Zenon DEF Start, Started
<1>3. f.key = k /\ g.kind = "fetch" /\ g.op = r /\ g.had = Had(k)
  BY DEF Had
<1>4. fetches'[r] = f /\ \A i \in 1..n : fetches'[i] = fetches[i]
  <2>. HIDE DEF f
  <2>. QED  BY <1>1, <1>2 DEF Started
<1>5. runtime'[k].request = r /\ \A j \in Keys : j # k => runtime'[j] = runtime[j]
  BY <1>1, <1>2 DEF Runtime
<1>. HIDE DEF f, g
<1>6. /\ FramesOf(frames) \cup {g} \subseteq FramesOf(frames')
      /\ FramesOf(frames') \subseteq FramesOf(frames) \cup {g, CallFrame}
  <2>. DEFINE u == Append(frames, g)
  <2>1. u \in Seq(StackFrame(n) \cup {g})
    <3>1. frames \in Seq(StackFrame(n) \cup {g})
      BY <1>1
    <3>. QED  BY <3>1, AppendProperties
  <2>2. u \o <<>> = u
    BY <2>1, ConcatEmptySeq
  <2>. HIDE DEF u
  <2>3. frames' = u \/ frames' = u \o <<CallFrame>>
    BY <1>2, <2>2 DEF Listeners, u
  <2>. QED  BY <1>1, <2>3, PushedCalling DEF u
<1>7. ASSUME NEW x \in FramesOf(frames) PROVE x \in StackFrame(n)
  BY <1>1 DEF FramesOf
<1>8. /\ lastUsed' \in Seq(Keys) /\ IsInjective(lastUsed')
      /\ ToSet(lastUsed') = ToSet(lastUsed) \cup {k}
  BY TouchLemma
<1>9. LedgerTypes'
  BY <1>8 DEF LedgerInv, LedgerTypes
<1>10. ASSUME AllAware PROVE AllAware'
  <2>1. ASSUME NEW x \in FramesOf(frames'), x.kind = "fetch", IsCurrent(x.op)' PROVE Aware(x)'
    <3>1. x = g \/ x \in FramesOf(frames)
      BY <1>6, <2>1, CallFrameLemma
    <3>2. CASE x = g
      <4>1. \A j : j = k => x.had = Had(j)' /\ Known(j)'
        BY <1>3, <1>8, <3>2 DEF Had, Known
      <4>2. fetches'[x.op].key = k
        BY <1>3, <1>4, <3>2
      <4>. QED  BY <4>1, <4>2 DEF Aware, Had, Known
    <3>3. CASE x \in FramesOf(frames)
      <4>1. x.op \in 1..n
        BY <1>7, <2>1, <3>3, FrameLemma
      <4>2. fetches'[x.op].key = fetches[x.op].key /\ fetches[x.op].key \in Keys
        BY <1>1, <1>4, <4>1, KeyLemma
      <4>3. fetches[x.op].key # k
        <5>1. x.op # r
          BY <1>1, <4>1
        <5>. QED  BY <1>5, <2>1, <4>2, <5>1 DEF IsCurrent
      <4>4. IsCurrent(x.op)
        BY <1>5, <2>1, <4>2, <4>3 DEF IsCurrent
      <4>5. x.had = Had(fetches[x.op].key) /\ Known(fetches[x.op].key)
        BY <1>10, <2>1, <3>3, <4>4 DEF AllAware, Aware
      <4>6. \A j : j = fetches[x.op].key => x.had = Had(j)' /\ Known(j)'
        BY <1>8, <4>5 DEF Had, Known
      <4>. QED  BY <4>2, <4>6 DEF Aware, Had, Known
    <3>. QED  BY <3>1, <3>2, <3>3
  <2>2. ASSUME NEW x \in FramesOf(frames') PROVE Aware(x)'
    <3>1. CASE x.kind = "fetch" /\ IsCurrent(x.op)'
      BY <2>1, <3>1
    <3>2. CASE ~(x.kind = "fetch" /\ IsCurrent(x.op)')
      BY <3>2 DEF Aware
    <3>. QED  BY <3>1, <3>2
  <2>. QED  BY <2>2 DEF AllAware, FramesOf
<1>11. Resetting => Resetting'
  BY <1>6 DEF Resetting, FramesOf
<1>12. Counted => Counted'
  BY <1>8 DEF Counted, Known
<1>13. ASSUME NEW j \in Keys, Covered(j) PROVE Covered(j)'
  <2>1. IsRetained(j) => IsRetained(j)'
    BY <1>1, <1>5 DEF IsRetained, HasRequest
  <2>2. ASSUME Leaving(j) PROVE Leaving(j)'
    <3>1. PICK x \in FramesOf(frames) : Leaves(x, j)
      BY <2>2 DEF Leaving
    <3>2. x.op \in 1..n
      BY <1>7, <3>1, FrameLemma DEF Leaves
    <3>3. fetches'[x.op].key = j
      BY <1>4, <3>1, <3>2 DEF Leaves
    <3>. QED  BY <1>6, <3>1, <3>3 DEF Leaving, Leaves, FramesOf
  <2>. QED  BY <1>13, <2>1, <2>2 DEF Covered
<1>14. Reported => Reported'
  BY <1>1, <1>13 DEF Reported
<1>. QED  BY <1>9, <1>10, <1>11, <1>12, <1>14 DEF LedgerInv

LEMMA LedgerRestore ==
  ASSUME CacheInv, LedgerInv, NEW data, Restore(data)
  PROVE  LedgerInv'
<1>. DEFINE g == [kind |-> "restore", op |-> restores + 1, data |-> data]
<1>1. /\ CacheTypes /\ frames \in Seq(StackFrame(Started))
      /\ UNCHANGED <<entries, fetches, reads, writes, overrun>>
      /\ restores' = restores + 1
      /\ runtime' = [k \in Keys |-> NoRuntime]
      /\ lastUsed' = <<>> /\ count' = 0 /\ retainedAt' = 0 /\ unreported' = {}
      /\ frames' = Append(frames, g) \o Listeners(InFlight)
  BY DEF Restore, Release, CacheInv, StackSound, Stack
<1>2. LedgerTypes'
  <2>1. <<>> \in Seq(Keys) /\ IsInjective(<<>>)
    BY DEF IsInjective
  <2>. QED  BY <1>1, <2>1 DEF LedgerInv, LedgerTypes
<1>3. g.kind = "restore" /\ g.op = restores'
  BY <1>1
<1>. HIDE DEF g
<1>4. /\ FramesOf(frames) \cup {g} \subseteq FramesOf(frames')
      /\ FramesOf(frames') \subseteq FramesOf(frames) \cup {g, CallFrame}
  <2>. DEFINE u == Append(frames, g)
  <2>1. u \in Seq(StackFrame(Started) \cup {g})
    <3>1. frames \in Seq(StackFrame(Started) \cup {g})
      BY <1>1
    <3>. QED  BY <3>1, AppendProperties
  <2>2. u \o <<>> = u
    BY <2>1, ConcatEmptySeq
  <2>. HIDE DEF u
  <2>3. frames' = u \/ frames' = u \o <<CallFrame>>
    BY <1>1, <2>2 DEF Listeners, u
  <2>. QED  BY <1>1, <2>3, PushedCalling DEF u
<1>5. Resetting'
  BY <1>3, <1>4 DEF Resetting, FramesOf
<1>6. AllAware'
  <2>1. ASSUME NEW x \in FramesOf(frames'), x.kind = "fetch" PROVE ~IsCurrent(x.op)'
    <3>1. x \in FramesOf(frames)
      BY <1>3, <1>4, <2>1, CallFrameLemma
    <3>2. x \in StackFrame(Started)
      BY <1>1, <3>1 DEF FramesOf
    <3>3. x.op \in 1..Started
      BY <2>1, <3>2, FrameLemma
    <3>4. fetches[x.op].key \in Keys /\ x.op # 0
      BY <1>1, <3>3, KeyLemma
    <3>. QED  BY <1>1, <3>4 DEF IsCurrent, NoRuntime
  <2>. QED  BY <2>1 DEF AllAware, Aware, FramesOf
<1>. QED  BY <1>2, <1>5, <1>6 DEF LedgerInv

LEMMA SetToSeqsLemma ==
  ASSUME NEW S, IsFiniteSet(S), NEW s \in SetToSeqs(S)
  PROVE  s \in Seq(S) /\ IsInjective(s) /\ ToSet(s) = S
<1>. DEFINE n == Cardinality(S)
<1>1. n \in Nat
  BY FS_CardinalityType
<1>2. s \in [1..n -> S] /\ \A i, j \in 1..n : i # j => s[i] # s[j]
  BY DEF SetToSeqs
<1>. HIDE DEF n
<1>3. s \in Injection(1..n, S)
  BY <1>2 DEF Injection, IsInjective
<1>4. Cardinality(1..n) = n
  BY <1>1, FS_Interval
<1>5. s \in Surjection(1..n, S)
  <2>1. Cardinality(1..n) = Cardinality(S)
    BY <1>4 DEF n
  <2>. QED  BY <1>3, <2>1, FS_Injection
<1>6. s \in Seq(S)
  BY <1>1, <1>2
<1>7. ToSet(s) = S
  BY <1>2, <1>5 DEF Surjection, ToSet
<1>. QED  BY <1>3, <1>6, <1>7 DEF Injection

LEMMA JoinedLemma ==
  ASSUME NEW S, NEW s \in Seq(S), IsInjective(s), NEW t \in Seq(S), IsInjective(t),
         ToSet(s) \cap ToSet(t) = {}
  PROVE  s \o t \in Seq(S) /\ IsInjective(s \o t) /\ ToSet(s \o t) = ToSet(s) \cup ToSet(t)
<1>. DEFINE u == s \o t
            m == Len(s)
            n == Len(t)
<1>1. /\ u \in Seq(S) /\ m \in Nat /\ n \in Nat
      /\ DOMAIN s = 1..m /\ DOMAIN t = 1..n /\ DOMAIN u = 1..m + n
      /\ \A i \in 1..m : u[i] = s[i]
      /\ \A i \in 1..n : u[m + i] = t[i]
  OBVIOUS
<1>. HIDE DEF u, m, n
<1>2. \A i \in 1..m + n : i \in 1..m \/ (i - m \in 1..n /\ u[i] = t[i - m])
  <2>1. ASSUME NEW i \in 1..m + n, i \notin 1..m PROVE i - m \in 1..n /\ u[i] = t[i - m]
    <3>1. i - m \in 1..n /\ i = m + (i - m)
      BY <1>1, <2>1
    <3>. QED  BY <1>1, <3>1
  <2>. QED  BY <2>1
<1>3. \A i \in 1..m : i \in 1..m + n
  BY <1>1
<1>4. \A i \in 1..n : m + i \in 1..m + n
  BY <1>1
<1>5. ToSet(s) = {s[i] : i \in 1..m} /\ ToSet(t) = {t[i] : i \in 1..n} /\ ToSet(u) = {u[i] : i \in 1..m + n}
  BY <1>1 DEF ToSet
<1>6. ToSet(u) = ToSet(s) \cup ToSet(t)
  BY <1>1, <1>2, <1>3, <1>4, <1>5
<1>7. ASSUME NEW i \in 1..m + n, NEW j \in 1..m + n, u[i] = u[j] PROVE i = j
  <2>1. CASE i \in 1..m /\ j \in 1..m
    BY <1>1, <1>7, <2>1 DEF IsInjective
  <2>2. CASE i \notin 1..m /\ j \notin 1..m
    <3>1. i - m \in 1..n /\ j - m \in 1..n /\ t[i - m] = t[j - m]
      BY <1>2, <1>7, <2>2
    <3>2. i - m = j - m
      BY <1>1, <3>1 DEF IsInjective
    <3>. QED  BY <1>1, <3>2
  <2>3. CASE ~(i \in 1..m <=> j \in 1..m)
    BY <1>1, <1>2, <1>5, <1>7, <2>3
  <2>. QED  BY <2>1, <2>2, <2>3
<1>. QED  BY <1>1, <1>6, <1>7 DEF IsInjective, u

\* A root is installed, and the ledger made for it.
LEMMA LedgerInstall ==
  ASSUME CacheInv, LedgerInv, NEW es, DOMAIN es \subseteq Keys, NEW rest, Goes(rest), Install(es, rest),
         UNCHANGED <<fetches, reads, overrun>>,
         \A f \in FramesOf(rest) : f.kind = "fetch" => ~IsCurrent(f.op)
  PROVE  LedgerInv'
<1>. DEFINE rt == [k \in Keys |-> IF runtime[k].failure = "none" THEN runtime[k]
                                  ELSE Trim([runtime[k] EXCEPT !.failure = "none"])]
<1>0. /\ CacheTypes /\ runtime \in [Keys -> Runtime] /\ IsFiniteSet(Keys)
      /\ lastUsed \in Seq(Keys) /\ IsInjective(lastUsed)
  BY DEF CacheInv, CacheTypes, CacheAssumption, LedgerInv, LedgerTypes
<1>1. /\ Publish(es, rt, Keys, rest, FALSE)
      /\ count' = Cardinality(DOMAIN es) /\ retainedAt' = 0 /\ unreported' = {}
  BY DEF Install, Release
<1>2. PICK new \in SetToSeqs(DOMAIN es \ ToSet(lastUsed)) :
        lastUsed' = Filtered(lastUsed, DOMAIN es) \o new
  BY DEF Install
<1>3. Keeps(rt) /\ \A k \in Keys : rt[k].request = runtime[k].request
  <2>1. ASSUME NEW k \in Keys
        PROVE  /\ Trim([runtime[k] EXCEPT !.failure = "none"]) \in Runtime
               /\ Trim([runtime[k] EXCEPT !.failure = "none"]).request = runtime[k].request
    BY <1>0, UnfailedLemma
  <2>. QED  BY <1>0, <2>1 DEF Keeps
<1>. HIDE DEF rt
<1>4. /\ entries' = es /\ writes' \subseteq Keys
      /\ \A k \in Keys : runtime'[k].request = rt[k].request
  BY <1>0, <1>1, <1>3, PublishedLemma
<1>5. /\ lastUsed' \in Seq(Keys) /\ IsInjective(lastUsed') /\ DOMAIN es \subseteq ToSet(lastUsed')
  <2>. DEFINE others == DOMAIN es \ ToSet(lastUsed)
              s == Filtered(lastUsed, DOMAIN es)
  <2>1. IsFiniteSet(others)
    BY <1>0, FS_Subset
  <2>2. new \in Seq(others) /\ IsInjective(new) /\ ToSet(new) = others
    BY <2>1, SetToSeqsLemma
  <2>3. s \in Seq(Keys) /\ IsInjective(s) /\ ToSet(s) = ToSet(lastUsed) \cap DOMAIN es
    BY <1>0, FilteredLemma
  <2>4. ToSet(s) \cap ToSet(new) = {} /\ DOMAIN es \subseteq ToSet(s) \cup ToSet(new)
    BY <2>2, <2>3
  <2>5. new \in Seq(Keys)
    BY <2>2
  <2>. HIDE DEF s, others
  <2>6. s \o new \in Seq(Keys) /\ IsInjective(s \o new) /\ ToSet(s \o new) = ToSet(s) \cup ToSet(new)
    BY <2>2, <2>3, <2>4, <2>5, JoinedLemma
  <2>. QED  BY <1>2, <2>4, <2>6 DEF s
<1>6. LedgerTypes'
  <2>1. IsFiniteSet(DOMAIN es)
    BY <1>0, FS_Subset
  <2>2. Cardinality(DOMAIN es) \in Nat
    BY <2>1, FS_CardinalityType
  <2>. QED  BY <1>1, <1>4, <1>5, <2>2 DEF LedgerInv, LedgerTypes
<1>7. Counted' /\ Reported'
  BY <1>1, <1>4, <1>5 DEF Counted, Known, Reported
<1>8. AllAware'
  <2>1. FramesOf(frames') \subseteq FramesOf(rest) \cup {CallFrame}
    BY <1>1, GoesCalling DEF Publish
  <2>2. ASSUME NEW x \in FramesOf(frames'), x.kind = "fetch" PROVE ~IsCurrent(x.op)'
    <3>1. x \in FramesOf(rest)
      BY <2>1, <2>2, CallFrameLemma
    <3>2. x \in StackFrame(Started)
      BY <3>1 DEF Goes, Stack, FramesOf
    <3>3. x.op \in 1..Started
      BY <2>2, <3>2, FrameLemma
    <3>4. fetches[x.op].key \in Keys
      BY <1>0, <3>3, KeyLemma
    <3>. QED  BY <1>3, <1>4, <2>2, <3>1, <3>4 DEF IsCurrent
  <2>. QED  BY <2>2 DEF AllAware, Aware, FramesOf
<1>. QED  BY <1>6, <1>7, <1>8 DEF LedgerInv

LEMMA LedgerSetData ==
  ASSUME CacheInv, LedgerInv, NEW S \in SUBSET Keys, NEW status \in {"Idle", "Success", "Error"},
         SetData(Installed(S, status))
  PROVE  LedgerInv'
<1>. DEFINE es == Installed(S, status)
<1>1. CacheTypes /\ Goes(frames) /\ frames = <<>> /\ Install(es, frames) /\ UNCHANGED <<fetches, reads, overrun>>
  BY GoesOn DEF SetData, CacheInv
<1>2. DOMAIN es \subseteq Keys
  BY <1>1, InstalledLemma
<1>. HIDE DEF es
<1>3. FramesOf(frames) = {}
  BY <1>1, EmptyLemma
<1>. QED  BY <1>1, <1>2, <1>3, LedgerInstall

LEMMA LedgerRestored ==
  ASSUME CacheInv, LedgerInv, Restored
  PROVE  LedgerInv'
<1>. DEFINE es == [k \in DOMAIN Top.data \cup Live |->
                     IF k \in Live THEN entries[k]
                     ELSE [Top.data[k] EXCEPT !.status = IF @ = "Pending" THEN "Idle" ELSE @,
                                              !.refreshing = FALSE]]
<1>1. /\ CacheTypes /\ Goes(Below) /\ Top.kind = "restore" /\ Top \in FramesOf(frames)
      /\ Top \in StackFrame(Started) /\ frames # <<>>
  BY TopLemma DEF Restored, CacheInv, Runs
<1>2. Install(es, Below) /\ UNCHANGED <<fetches, reads, overrun>>
  BY DEF Restored
<1>3. DOMAIN es \subseteq Keys
  <2>1. Top \in RestoreFrame(Started)
    BY <1>1, FrameLemma
  <2>2. DOMAIN Top.data \subseteq Keys
    BY <2>1, EntriesLemma DEF RestoreFrame
  <2>3. Live \subseteq Keys
    BY <1>1, EntriesLemma DEF CacheTypes, Live
  <2>. QED  BY <2>2, <2>3
<1>. HIDE DEF es
<1>4. ASSUME NEW f \in FramesOf(Below), f.kind = "fetch" PROVE ~IsCurrent(f.op)
  <2>1. f \in FramesOf(frames) /\ Under(f, Top, frames)
    BY <1>1, OverLemma
  <2>. QED  BY <1>1, <1>4, <2>1 DEF CacheInv, Barred, Takes
<1>. QED  BY <1>1, <1>2, <1>3, <1>4, LedgerInstall

LEMMA LedgerOperations ==
  ASSUME CacheInv, LedgerInv, CacheOperations
  PROVE  LedgerInv'
<1>1. ASSUME NEW k \in Keys, Load(k) \/ Refresh(k) \/ Suspend(k) PROVE LedgerInv'
  <2>1. /\ Start(k, FALSE) \/ Start(k, TRUE)
        /\ Touch(k)
        /\ UNCHANGED <<entries, count, retainedAt, reads, restores, writes, overrun, unreported>>
    BY <1>1 DEF Load, Refresh, Suspend, history
  <2>. QED  BY <2>1, LedgerStart
<1>2. ASSUME NEW k \in Keys, Invalidate(k) PROVE LedgerInv'
  <2>1. {k} \in SUBSET Keys
    OBVIOUS
  <2>. QED  BY <1>2, <2>1, LedgerPublishingSteps DEF Invalidate
<1>3. DOMAIN entries \in SUBSET Keys /\ {} \in SUBSET Keys
  BY EntriesLemma DEF CacheInv, CacheTypes
<1>4. CASE InvalidateAll
  BY <1>3, <1>4, LedgerPublishingSteps DEF InvalidateAll
<1>5. CASE AbortAll \/ Clear
  <2>1. \E S \in SUBSET Keys, settles \in BOOLEAN : Bulk(S, settles)
    BY <1>3, <1>5 DEF AbortAll, Clear
  <2>. QED  BY <2>1, LedgerPlainSteps
<1>6. ASSUME NEW k \in Keys, SetData(Installed({k}, "Success")) PROVE LedgerInv'
  <2>1. {k} \in SUBSET Keys
    OBVIOUS
  <2>. QED  BY <1>6, <2>1, LedgerSetData
<1>7. CASE SetData(Installed(Keys, "Error"))
  <2>1. Keys \in SUBSET Keys
    OBVIOUS
  <2>. QED  BY <1>7, <2>1, LedgerSetData
<1>8. CASE Restore(entries) \/ Restore(Installed({}, "Idle"))
  BY <1>8, LedgerRestore
<1>9. ASSUME NEW k \in Keys, Visit(k) PROVE LedgerInv'
  BY <1>9, LedgerFreeingSteps
<1>10. ASSUME NEW S \in SUBSET Keys, Subscribe(S) PROVE LedgerInv'
  BY <1>10, LedgerFreeingSteps
<1>11. ASSUME NEW k \in Keys, Abort(k) \/ Forget(k) PROVE LedgerInv'
  BY <1>11, LedgerPlainSteps
<1>12. CASE ClearIdle
  BY <1>12, LedgerRemovingSteps
<1>. QED
  BY <1>1, <1>2, <1>4, <1>5, <1>6, <1>7, <1>8, <1>9, <1>10, <1>11, <1>12 DEF CacheOperations

LEMMA LedgerNext ==
  ASSUME CacheInv, LedgerInv, CacheNext
  PROVE  LedgerInv'
<1>1. CASE CacheOperations
  BY <1>1, LedgerOperations
<1>2. CASE CacheContinuations
  BY <1>2, LedgerPlainSteps, LedgerPublishingSteps, LedgerFreeingSteps, LedgerAborted,
     LedgerSettlingSteps, LedgerRemovingSteps, LedgerMarkLoading, LedgerMarkingFails, LedgerRestored
  DEF CacheContinuations
<1>3. CASE CacheSettlements
  BY <1>3, LedgerPlainSteps, LedgerSettlingSteps DEF CacheSettlements
<1>. QED  BY <1>1, <1>2, <1>3 DEF CacheNext

LEMMA LedgerStutter ==
  ASSUME CacheInv, LedgerInv, UNCHANGED cacheVars
  PROVE  LedgerInv'
<1>1. UNCHANGED <<entries, runtime, fetches, lastUsed, count, retainedAt, reads, restores, writes, frames,
                  overrun, unreported>>
  BY DEF cacheVars, ledger, history
<1>. QED
  BY <1>1 DEF LedgerInv, LedgerTypes, AllAware, Aware, FramesOf, IsCurrent, Had, Known, Resetting, Counted,
              Reported, Covered, IsRetained, HasRequest, Leaving, Leaves

LEMMA LedgerInit ==
  ASSUME CacheInit
  PROVE  LedgerInv
<1>1. /\ entries = <<>> /\ lastUsed = <<>> /\ count = 0 /\ retainedAt = 0 /\ frames = <<>>
      /\ reads = {} /\ writes = {} /\ unreported = {} /\ overrun = FALSE
  BY DEF CacheInit
<1>2. DOMAIN entries = {}
  BY <1>1
<1>3. LedgerTypes
  <2>1. <<>> \in Seq(Keys) /\ IsInjective(<<>>)
    BY DEF IsInjective
  <2>2. lastUsed \in Seq(Keys) /\ IsInjective(lastUsed)
    BY <1>1, <2>1
  <2>3. count \in Int /\ retainedAt \in Nat
    BY <1>1
  <2>4. reads \subseteq Keys /\ writes \subseteq Keys /\ unreported \subseteq Keys
    BY <1>1
  <2>5. overrun \in BOOLEAN
    BY <1>1, Zenon
  <2>. QED  BY <2>2, <2>3, <2>4, <2>5 DEF LedgerTypes
<1>4. Counted /\ Reported
  BY <1>1, <1>2, FS_EmptySet DEF Counted, Reported
<1>5. AllAware
  BY <1>1, EmptyLemma DEF AllAware
<1>. QED  BY <1>3, <1>4, <1>5 DEF LedgerInv

LEMMA LedgerInvariance == CacheAssumption => (CacheSpec => [](CacheInv /\ LedgerInv))
<1>1. CacheAssumption /\ CacheInit => CacheInv /\ LedgerInv
  BY InitLemma, LedgerInit
<1>2. CacheInv /\ LedgerInv /\ [CacheNext]_cacheVars => CacheInv' /\ LedgerInv'
  BY NextLemma, StutterLemma, LedgerNext, LedgerStutter DEF Onward
<1>. QED  BY <1>1, <1>2, PTL DEF CacheSpec

LEMMA IsFrameLemma ==
  ASSUME CacheInv, NEW f \in FramesOf(frames)
  PROVE  IsFrame(f)
<1>1. /\ CacheTypes /\ f \in StackFrame(Started) /\ Started \in Nat /\ MaxRequests \in Nat
      /\ Started <= MaxRequests
  BY BoundsLemma DEF CacheInv, CacheTypes, StackSound, Stack, FramesOf
<1>2. 1..Started \subseteq Requests /\ \A op \in 1..Started, m \in Nat : m < op => m \in 0..MaxRequests
  BY <1>1 DEF Requests
<1>3. CASE f \in FetchFrame(Started)
  <2>1. f.op \in Requests /\ f.superseded \in 0..MaxRequests
    BY <1>2, <1>3 DEF FetchFrame
  <2>2. f \in Frame
    BY <1>3, <2>1 DEF FetchFrame, Frame
  <2>. QED  BY <2>2 DEF IsFrame
<1>4. CASE f \in OtherFrame(Started)
  <2>1. SUBSET (1..Started) \subseteq SUBSET Requests
    BY <1>2
  <2>2. f \in Frame
    BY <1>2, <1>4, <2>1 DEF OtherFrame, Frame
  <2>. QED  BY <2>2 DEF IsFrame
<1>5. CASE f \in RestoreFrame(Started)
  <2>1. f.kind = "restore" /\ f.data \in Snapshots(Started) /\ DOMAIN f = {"kind", "op", "data"}
    BY <1>5 DEF RestoreFrame
  <2>2. IsSnapshot(f.data)
    BY <2>1, EntriesLemma DEF IsSnapshot
  <2>3. f.op \in 1..MaxRoots
    <3>1. f.op \in 1..restores /\ restores \in Nat /\ restores <= MaxRoots /\ MaxRoots \in Nat
      BY <2>1 DEF CacheInv, RootsSound, CacheTypes, CacheAssumption
    <3>. QED  BY <3>1
  <2>. QED  BY <2>1, <2>2, <2>3 DEF IsFrame
<1>. QED  BY <1>1, <1>3, <1>4, <1>5 DEF StackFrame

LEMMA CacheTypesLemma == CacheInv /\ LedgerInv => CacheTypeOK
<1>. SUFFICES ASSUME CacheInv, LedgerInv PROVE CacheTypeOK
  OBVIOUS
<1>1. /\ CacheTypes /\ Started \in Nat /\ MaxRequests \in Nat /\ MaxRoots \in Nat
  BY BoundsLemma DEF CacheInv, CacheTypes, CacheAssumption
<1>2. IsSnapshot(entries)
  BY <1>1, EntriesLemma DEF CacheTypes, IsSnapshot
<1>3. root \in 0..2 * MaxRoots /\ restores \in 0..MaxRoots
  BY <1>1 DEF CacheInv, CacheTypes, RootsSound
<1>4. fetches \in Seq(Fetch) /\ Len(fetches) <= MaxRequests /\ runtime \in [Keys -> Runtime]
  BY <1>1 DEF CacheTypes, Started
<1>5. invalidatedAt \in [Keys -> 0..MaxRequests]
  <2>1. \A k \in Keys : invalidatedAt[k] \in 0..MaxRequests
    BY <1>1 DEF CacheTypes
  <2>. QED  BY <1>1, <2>1 DEF CacheTypes
<1>6. \A i \in DOMAIN frames : IsFrame(frames[i])
  <2>1. DOMAIN frames = 1..Len(frames)
    BY DEF CacheInv, StackSound, Stack
  <2>. QED  BY <2>1, IsFrameLemma DEF FramesOf
<1>. QED  BY <1>2, <1>3, <1>4, <1>5, <1>6 DEF CacheTypeOK, LedgerInv, LedgerTypes

\* The state of a cache is well-formed: the ledger names no key twice, and no
\* request, root or frame of the call stack runs beyond its bound.
THEOREM CacheTypesHold == CacheAssumption => (CacheSpec => []CacheTypeOK)
BY CacheTypesLemma, LedgerInvariance, PTL

\* Between tasks the count of the eviction ledger is the number of entries, and
\* every entry has its place in the order of last use, whatever was removed,
\* evicted, installed or restored by a callback in the middle of an operation.
THEOREM LedgerIsExact == CacheAssumption => (CacheSpec => []LedgerExact)
<1>1. CacheInv /\ LedgerInv => LedgerExact
  <2>. SUFFICES ASSUME CacheInv, LedgerInv, frames = <<>>, ~overrun
                PROVE  count = Cardinality(DOMAIN entries) /\ DOMAIN entries \subseteq ToSet(lastUsed)
    BY DEF LedgerExact
  <2>1. ~Resetting
    BY EmptyLemma DEF Resetting
  <2>. QED  BY <2>1 DEF LedgerInv, Counted, Known
<1>. QED  BY <1>1, LedgerInvariance, PTL

\* While evict() skips its scans, no entry could be evicted but those that were
\* freed without a release(): the others are requested or read.
THEOREM NothingFreeIsSkipped == CacheAssumption => (CacheSpec => []FreedIsReported)
<1>1. CacheInv /\ LedgerInv => FreedIsReported
  <2>. SUFFICES ASSUME CacheInv, LedgerInv, frames = <<>>, ~overrun, retainedAt # 0,
                       NEW k \in DOMAIN entries \ unreported
                PROVE  IsRetained(k)
    BY DEF FreedIsReported
  <2>1. ~Resetting /\ ~Leaving(k)
    BY EmptyLemma DEF Resetting, Leaving
  <2>. QED  BY <2>1 DEF LedgerInv, Reported, Covered
<1>. QED  BY <1>1, LedgerInvariance, PTL
=============================================================================
