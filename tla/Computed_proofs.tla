---------------------------- MODULE Computed_proofs ----------------------------
(***************************************************************************)
(* What holds of derived values for every number of stores, computeds,     *)
(* observers and paths: the edges of a computed are what its value was     *)
(* made from, nothing waits in a wave that nobody drains, a cache that     *)
(* get() trusts is the value of the body, and what the observers were told *)
(* catches up with it.                                                     *)
(***************************************************************************)
EXTENDS Computed, SequenceTheorems, TLAPS

-----------------------------------------------------------------------------
(***************************************************************************)
(* What the state is made of.                                              *)
(***************************************************************************)
Registration == [generation : Nat, matched : 0..MaxVersion, growth : 0..MaxVersion,
                 reads : SUBSET AllPaths]

Leaf == [at : 0..MaxVersion, reads : SUBSET Paths]

Cell == [valid : BOOLEAN, value : SUBSET Places, versions : [Stores -> Leaf],
         checked : BOOLEAN, proven : SUBSET Stores,
         announced : [value : SUBSET Places, versions : [Stores -> Leaf]],
         observers : SUBSET Observers]

StoreTypes ==
  /\ version \in [Stores -> 0..MaxVersion]
  /\ notified \in [Stores -> 0..MaxVersion]
  /\ disposed = [s \in Stores |-> FALSE]
  /\ writes \in [Stores -> SUBSET AllPaths]
  /\ writeLog \in [Stores -> [1..MaxVersion -> SUBSET AllPaths]]
  /\ pending \in [Stores -> SUBSET AllPaths]
  /\ depth \in Nat
  /\ data \in [Stores -> [Paths -> BOOLEAN]]

EdgeTypes ==
  /\ counter \in [Stores -> Nat]
  /\ registered \in SUBSET Subscribers
  /\ record \in [Subscribers -> Registration]
  /\ scheduled \in [Subscribers -> Nat]
  /\ cell \in [Computeds -> Cell]
  /\ \A c \in Computeds, s \in Stores : cell[c].versions[s].at <= version[s]

\* A settlement that is live is of a computed that somebody observes: the end
\* of an observation kills what it queued.
Settlement == [comp : Computeds, live : BOOLEAN]
Due == {z \in Settlement : z.live => cell[z.comp].observers # {}}

PlainFrame ==
  [kind : {"call"}, who : Subscribers \cup {NoOne}, opened : Nat]
    \cup [kind : {"notify"}, store : Stores, generation : Nat, todo : SUBSET Subscribers,
          told : BOOLEAN]
    \cup [kind : {"flush"}, batch : [Stores -> SUBSET AllPaths]]
    \cup [kind : {"deliver"}, comp : Computeds, todo : SUBSET Observers]

WaveFrame == PlainFrame \cup [kind : {"drain"}, todo : Seq(Settlement)]

DueFrame == PlainFrame \cup [kind : {"drain"}, todo : Seq(Due)]

WorkTypes ==
  /\ stack \in Seq(DueFrame)
  /\ wave \in Seq(Due)

(***************************************************************************)
(* The call of an edge that the scheduler holds is of an edge that is      *)
(* there: it is retracted with the edge.                                   *)
(***************************************************************************)
EdgesQueued == \A e \in Edges : scheduled[e] # 0 => e \in registered

EdgeInv == StoreTypes /\ EdgeTypes /\ WorkTypes /\ EdgesQueued /\ EdgesMatchReads

-----------------------------------------------------------------------------
(***************************************************************************)
(* Sequences.  What is said of every frame of a stack is said by the set   *)
(* that the frames are from.                                               *)
(***************************************************************************)
LEMMA PushSeq ==
  ASSUME NEW G, NEW q \in Seq(G), NEW f \in G
  PROVE  Append(q, f) \in Seq(G) /\ Len(Append(q, f)) = Len(q) + 1
OBVIOUS

LEMMA PointwiseSeq ==
  ASSUME NEW H, NEW q \in Seq(H), NEW G, \A k \in 1..Len(q) : q[k] \in G
  PROVE  q \in Seq(G)
<1>1. Len(q) \in Nat /\ DOMAIN q = 1..Len(q) /\ q \in [1..Len(q) -> H]
  BY LenProperties
<1>2. q \in [1..Len(q) -> G]
  BY <1>1
<1>. QED  BY <1>1, <1>2, SeqDef

LEMMA UnpushSeq ==
  ASSUME NEW H, NEW q \in Seq(H), NEW f \in H, NEW G, Append(q, f) \in Seq(G)
  PROVE  q \in Seq(G) /\ f \in G
<1>. DEFINE r == Append(q, f)
<1>1. /\ Len(q) \in Nat /\ Len(r) = Len(q) + 1
      /\ \A k \in 1..Len(q) : r[k] = q[k]
      /\ r[Len(q) + 1] = f
  OBVIOUS
<1>2. r \in Seq(G)
  OBVIOUS
<1>. HIDE DEF r
<1>3. \A k \in 1..Len(q) + 1 : r[k] \in G
  BY <1>1, <1>2, ElementOfSeq
<1>4. f \in G /\ \A k \in 1..Len(q) : q[k] \in G
  BY <1>1, <1>3
<1>. QED  BY <1>4, PointwiseSeq

\* The stack is its top frame on what is below.
LEMMA StackLemma ==
  ASSUME NEW G, stack \in Seq(G), Len(stack) > 0
  PROVE  Below \in Seq(G) /\ Top \in G /\ stack = Append(Below, Top)
<1>1. Len(stack) \in Nat \ {0} /\ \A k \in 1..Len(stack) : stack[k] \in G
  BY LenProperties, ElementOfSeq
<1>. DEFINE n == Len(stack) - 1
<1>2. n \in Nat /\ 1 \in Int /\ n \in Int /\ n + 1 = Len(stack)
  BY <1>1
<1>3. \A k \in 1..n : stack[k] \in G
  BY <1>1, <1>2
<1>4. /\ Below \in Seq(G) /\ Len(Below) = n
      /\ \A k \in 1..n : Below[k] = stack[k]
  <2>1. /\ SubSeq(stack, 1, n) \in Seq(G)
        /\ Len(SubSeq(stack, 1, n)) = IF 1 <= n THEN n - 1 + 1 ELSE 0
        /\ \A k \in 1..n - 1 + 1 : SubSeq(stack, 1, n)[k] = stack[1 + k - 1]
    <3>. HIDE DEF n
    <3>. QED  BY <1>2, <1>3, SubSeqProperties
  <2>. HIDE DEF n
  <2>2. n - 1 + 1 = n /\ \A k \in 1..n : 1 + k - 1 = k
    BY <1>2
  <2>3. Below = SubSeq(stack, 1, n)
    BY DEF Below, n
  <2>. QED  BY <1>2, <2>1, <2>2, <2>3
<1>5. Top \in G
  BY <1>1 DEF Top
<1>6. Append(Below, Top) \in Seq(G) /\ Len(Append(Below, Top)) = Len(stack)
  <2>. HIDE DEF n
  <2>1. Append(Below, Top) \in Seq(G) /\ Len(Append(Below, Top)) = Len(Below) + 1
    BY <1>4, <1>5, PushSeq
  <2>. QED  BY <1>2, <1>4, <2>1
<1>7. \A k \in 1..Len(stack) : Append(Below, Top)[k] = stack[k]
  <2>. HIDE DEF n
  <2>1. /\ \A k \in 1..n : Append(Below, Top)[k] = Below[k]
        /\ Append(Below, Top)[n + 1] = Top
    BY <1>2, <1>4, <1>5
  <2>2. \A k \in 1..Len(stack) : k \in 1..n \/ k = n + 1
    BY <1>2
  <2>3. Top = stack[n + 1]
    BY <1>2 DEF Top
  <2>. QED  BY <1>2, <1>4, <2>1, <2>2, <2>3
<1>8. Append(Below, Top) = stack
  BY <1>6, <1>7, SeqEqual
<1>. QED  BY <1>4, <1>5, <1>8

-----------------------------------------------------------------------------
(***************************************************************************)
(* The stack and the wave.                                                 *)
(***************************************************************************)
LEMMA DueLemma ==
  /\ Due \subseteq Settlement /\ Seq(Due) \subseteq Seq(Settlement)
  /\ DueFrame \subseteq WaveFrame
<1>1. Due \subseteq Settlement
  BY DEF Due
<1>2. Seq(Due) \subseteq Seq(Settlement)
  BY <1>1, SeqMonotonic
<1>. QED  BY <1>1, <1>2 DEF DueFrame, WaveFrame

\* What a frame is, by its kind.
LEMMA FrameLemma ==
  ASSUME NEW f \in DueFrame
  PROVE  /\ f \in WaveFrame
         /\ f.kind \in {"call", "notify", "flush", "deliver", "drain"}
         /\ f.kind = "call" =>
              f \in [kind : {"call"}, who : Subscribers \cup {NoOne}, opened : Nat]
         /\ f.kind = "notify" =>
              f \in [kind : {"notify"}, store : Stores, generation : Nat,
                     todo : SUBSET Subscribers, told : BOOLEAN]
         /\ f.kind = "flush" => f \in [kind : {"flush"}, batch : [Stores -> SUBSET AllPaths]]
         /\ f.kind = "deliver" =>
              f \in [kind : {"deliver"}, comp : Computeds, todo : SUBSET Observers]
         /\ f.kind = "drain" => f \in [kind : {"drain"}, todo : Seq(Due)]
<1>1. f \in WaveFrame
  BY DueLemma
<1>. QED  BY <1>1 DEF DueFrame, PlainFrame

\* The frames that the operations push.
LEMMA PushedFrames ==
  /\ \A i \in Subscribers \cup {NoOne} : Call(i) \in DueFrame
  /\ \A b \in [Stores -> SUBSET AllPaths] : [kind |-> "flush", batch |-> b] \in DueFrame
  /\ \A q \in Seq(Due) : [kind |-> "drain", todo |-> q] \in DueFrame
  /\ EdgeTypes => \A c \in Computeds : DeliverTo(c) \in DueFrame
BY DEF DueFrame, PlainFrame, Call, DeliverTo, EdgeTypes, Cell

\* A flush with an empty batch holds nothing back.
Inert(f) == f.kind = "flush" => f.batch = NoBatch

(***************************************************************************)
(* What an operation does to the stack: frames are put on it, or on what   *)
(* is below its top.                                                       *)
(***************************************************************************)
Reshaped ==
  \/ stack' = stack
  \/ \E f \in DueFrame : stack' = Append(stack, f)
  \/ /\ Len(stack) > 0
     /\ Inert(Top)
     /\ \/ stack' = Below
        \/ \E f \in DueFrame : stack' = Append(Below, f)
        \/ \E f, g \in DueFrame : stack' = Append(Append(Below, f), g)

LEMMA ReshapedIn ==
  ASSUME stack \in Seq(DueFrame), Reshaped
  PROVE  stack' \in Seq(DueFrame)
<1>1. ASSUME Len(stack) > 0 PROVE Below \in Seq(DueFrame)
  BY <1>1, StackLemma
<1>. QED  BY <1>1, PushSeq DEF Reshaped

\* Popping or replacing its top, the stack stays in a set that the top is in.
LEMMA ReshapedOut ==
  ASSUME NEW G, stack \in Seq(DueFrame), Reshaped, stack' \in Seq(G),
         Len(stack) > 0 /\ Inert(Top) => Top \in G
  PROVE  stack \in Seq(G)
<1>1. CASE stack' = stack
  BY <1>1
<1>2. CASE \E f \in DueFrame : stack' = Append(stack, f)
  BY <1>2, UnpushSeq
<1>3. ASSUME Len(stack) > 0, Inert(Top), Below \in Seq(G) PROVE stack \in Seq(G)
  <2>1. Top \in G /\ stack = Append(Below, Top)
    BY <1>3, StackLemma
  <2>. QED  BY <1>3, <2>1, PushSeq
<1>4. CASE /\ Len(stack) > 0
           /\ Inert(Top)
           /\ \/ stack' = Below
              \/ \E f \in DueFrame : stack' = Append(Below, f)
              \/ \E f, g \in DueFrame : stack' = Append(Append(Below, f), g)
  <2>1. Below \in Seq(DueFrame)
    BY <1>4, StackLemma
  <2>2. CASE stack' = Below
    BY <1>3, <1>4, <2>2
  <2>3. CASE \E f \in DueFrame : stack' = Append(Below, f)
    BY <1>3, <1>4, <2>1, <2>3, UnpushSeq
  <2>4. ASSUME NEW f \in DueFrame, NEW g \in DueFrame, stack' = Append(Append(Below, f), g)
        PROVE  stack \in Seq(G)
    <3>1. Append(Below, f) \in Seq(DueFrame)
      BY <2>1, PushSeq
    <3>2. Append(Below, f) \in Seq(G)
      BY <2>4, <3>1, UnpushSeq
    <3>3. Below \in Seq(G)
      BY <2>1, <3>2, UnpushSeq
    <3>. QED  BY <1>3, <1>4, <3>3
  <2>. QED  BY <1>4, <2>2, <2>3, <2>4
<1>. QED  BY <1>1, <1>2, <1>4 DEF Reshaped

\* The paths that a flush holds back are seen in the sets its frames are from.
Without(s, p) == {f \in WaveFrame : f.kind = "flush" => p \notin f.batch[s]}

Held(q, s, p) == \E k \in 1..Len(q) : q[k].kind = "flush" /\ p \in q[k].batch[s]

LEMMA HeldLemma ==
  ASSUME NEW q \in Seq(WaveFrame), NEW s \in Stores, NEW p
  PROVE  Held(q, s, p) <=> q \notin Seq(Without(s, p))
<1>1. ASSUME q \in Seq(Without(s, p)), NEW k \in 1..Len(q), q[k].kind = "flush"
      PROVE  p \notin q[k].batch[s]
  <2>1. q[k] \in Without(s, p)
    BY <1>1, ElementOfSeq
  <2>. QED  BY <1>1, <2>1 DEF Without
<1>2. ASSUME \A k \in 1..Len(q) : q[k].kind = "flush" => p \notin q[k].batch[s]
      PROVE  q \in Seq(Without(s, p))
  <2>1. \A k \in 1..Len(q) : q[k] \in Without(s, p)
    BY <1>2, ElementOfSeq DEF Without
  <2>. QED  BY <2>1, PointwiseSeq
<1>. QED  BY <1>1, <1>2 DEF Held

LEMMA UnmatchedLemma ==
  ASSUME NEW s \in Stores, NEW p
  PROVE  /\ p \in Unmatched(s) <=> p \in pending[s] \/ Held(stack, s, p)
         /\ p \in Unmatched(s)' <=> p \in pending'[s] \/ Held(stack', s, p)
BY DEF Unmatched, Frames, Held

\* What waits to be matched still waits after a step that reshapes the stack
\* and takes nothing from the batch.
LEMMA UnmatchedKept ==
  ASSUME stack \in Seq(DueFrame), stack' \in Seq(WaveFrame), Reshaped,
         NEW s \in Stores, pending[s] \subseteq pending'[s]
  PROVE  Unmatched(s) \subseteq Unmatched(s)'
<1>1. stack \in Seq(WaveFrame)
  BY DueLemma, SeqMonotonic
<1>2. SUFFICES ASSUME NEW p \in Unmatched(s) PROVE p \in Unmatched(s)'
  OBVIOUS
<1>3. ASSUME stack' \in Seq(Without(s, p)) PROVE stack \in Seq(Without(s, p))
  <2>1. ASSUME Len(stack) > 0, Inert(Top) PROVE Top \in Without(s, p)
    <3>1. Top \in WaveFrame
      BY <1>1, <2>1, StackLemma
    <3>. QED  BY <2>1, <3>1 DEF Without, Inert, NoBatch
  <2>. QED  BY <1>3, <2>1, ReshapedOut
<1>. QED  BY <1>1, <1>2, <1>3, UnmatchedLemma, HeldLemma

-----------------------------------------------------------------------------
(***************************************************************************)
(* The body and its edges.                                                 *)
(***************************************************************************)
LEMMA EdgeLemma ==
  ASSUME NEW c \in Computeds, NEW s \in Stores
  PROVE  /\ <<c, s>> \in Edges /\ <<c, s>> \in Subscribers /\ Home[<<c, s>>] = s
         /\ <<c, s>> \notin Plain
         /\ <<c, s>> \in EdgesOf(c)
BY ComputedAssumption DEF Edges, Plain, EdgesOf

LEMMA BodyLemma ==
  ASSUME NEW c \in Computeds
  PROVE  /\ Gate[c] \in Places /\ Then[c] \subseteq Places /\ Else[c] \subseteq Places
         /\ BodyReads(c) \subseteq Places
         /\ BodyValue(c) \subseteq Places
         /\ Collected(c) \in [Stores -> SUBSET Paths]
BY ComputedAssumption DEF BodyReads, BodyValue, Collected

LEMMA CapturedLemma ==
  ASSUME StoreTypes, NEW deps \in [Stores -> SUBSET Paths]
  PROVE  /\ Captured(deps) \in [Stores -> Leaf]
         /\ \A s \in Stores : /\ Captured(deps)[s].reads = deps[s]
                              /\ Captured(deps)[s].at <= version[s]
                              /\ deps[s] # {} => Captured(deps)[s].at = version[s]
<1>1. MaxVersion \in Nat
  BY CarburetorAssumption
<1>2. \A s \in Stores : version[s] \in 0..MaxVersion /\ deps[s] \in SUBSET Paths
  BY DEF StoreTypes
<1>. QED  BY <1>1, <1>2 DEF Captured, Leaf, NoLeaf

LEMMA RecomputedLemma ==
  ASSUME StoreTypes, EdgeTypes, NEW c \in Computeds
  PROVE  /\ Recomputed(c) \in Cell
         /\ Recomputed(c).observers = cell[c].observers
         /\ \A s \in Stores : /\ Recomputed(c).versions[s].reads = Collected(c)[s]
                              /\ Recomputed(c).versions[s].at <= version[s]
<1>1. /\ Captured(Collected(c)) \in [Stores -> Leaf]
      /\ \A s \in Stores : /\ Captured(Collected(c))[s].reads = Collected(c)[s]
                           /\ Captured(Collected(c))[s].at <= version[s]
  BY BodyLemma, CapturedLemma
<1>2. BodyValue(c) \in SUBSET Places /\ cell[c] \in Cell
  BY BodyLemma DEF EdgeTypes
<1>. QED  BY <1>1, <1>2 DEF Recomputed, Cell

\* Asking and marking leave what the value was made from alone.
LEMMA AskedLemma ==
  ASSUME StoreTypes, EdgeTypes, NEW c \in Computeds
  PROVE  /\ Asked(c) \in Cell /\ Marked(c) \in Cell
         /\ Asked(c).observers = cell[c].observers /\ Marked(c).observers = cell[c].observers
         /\ Asked(c).versions = cell[c].versions /\ Marked(c).versions = cell[c].versions
<1>1. cell[c] \in Cell
  BY DEF EdgeTypes
<1>2. ProvenNow(c) \in SUBSET Stores
  BY <1>1 DEF ProvenNow, Moved, Leaves, DriftedLeaves, Cell
<1>3. (DriftedLeaves(c) = {}) \in BOOLEAN
  OBVIOUS
<1>4. /\ Asked(c) \in Cell
      /\ Asked(c).observers = cell[c].observers
      /\ Asked(c).versions = cell[c].versions
  BY <1>1, <1>2, <1>3 DEF Asked, Cell
<1>. QED  BY <1>4 DEF Marked, Cell

LEMMA AttachLemma ==
  ASSUME StoreTypes, EdgeTypes, NEW c \in Computeds, NEW deps \in [Stores -> SUBSET Paths],
         AttachEdges(c, deps)
  PROVE  /\ counter' \in [Stores -> Nat]
         /\ registered' \in SUBSET Subscribers
         /\ record' \in [Subscribers -> Registration]
         /\ \A s \in Stores :
              /\ record'[<<c, s>>].reads = deps[s]
              /\ <<c, s>> \in registered' <=> deps[s] # {}
              /\ <<c, s>> \in registered' =>
                   \/ record'[<<c, s>>].growth = version[s]
                   \/ <<c, s>> \in registered /\ record'[<<c, s>>] = record[<<c, s>>]
         /\ \A i \in Subscribers \ EdgesOf(c) :
              /\ record'[i] = record[i]
              /\ i \in registered' <=> i \in registered
<1>. DEFINE wanted == {<<c, s>> : s \in {t \in Stores : deps[t] # {}}}
<1>1. /\ counter' = [s \in Stores |->
                       IF <<c, s>> \in wanted \ registered THEN counter[s] + 1 ELSE counter[s]]
      /\ registered' = (registered \ EdgesOf(c)) \cup wanted
      /\ record' = [i \in Subscribers |->
                      IF i \in EdgesOf(c) THEN EdgeRecord(i, deps[i[2]]) ELSE record[i]]
  BY DEF AttachEdges
<1>2. /\ wanted \subseteq EdgesOf(c) /\ EdgesOf(c) \subseteq Subscribers
      /\ \A s \in Stores : <<c, s>> \in wanted <=> deps[s] # {}
  BY EdgeLemma DEF EdgesOf
<1>. HIDE DEF wanted
<1>3. counter' \in [Stores -> Nat]
  BY <1>1 DEF EdgeTypes
<1>4. registered' \in SUBSET Subscribers
  BY <1>1, <1>2 DEF EdgeTypes
<1>5. ASSUME NEW s \in Stores
      PROVE  /\ EdgeRecord(<<c, s>>, deps[s]) \in Registration
             /\ EdgeRecord(<<c, s>>, deps[s]).reads = deps[s]
             /\ deps[s] # {} =>
                  \/ EdgeRecord(<<c, s>>, deps[s]).growth = version[s]
                  \/ /\ <<c, s>> \in registered
                     /\ EdgeRecord(<<c, s>>, deps[s]) = record[<<c, s>>]
  <2>. DEFINE e == <<c, s>>
  <2>1. /\ record[e] \in Registration /\ counter[s] \in Nat /\ version[s] \in 0..MaxVersion
        /\ deps[s] \in SUBSET AllPaths
    BY EdgeLemma DEF EdgeTypes, StoreTypes, AllPaths
  <2>2. e[2] = s
    OBVIOUS
  <2>. HIDE DEF e
  <2>3. MaxVersion \in Nat
    BY CarburetorAssumption
  <2>4. CASE deps[s] = {}
    BY <2>3, <2>4 DEF EdgeRecord, NoRecord, Registration
  <2>5. CASE deps[s] # {} /\ e \notin registered
    <3>. DEFINE r == [generation |-> counter[s] + 1, matched |-> 0, growth |-> version[s],
                      reads |-> deps[s]]
    <3>1. EdgeRecord(e, deps[s]) = r
      BY <2>2, <2>5 DEF EdgeRecord
    <3>2. r \in Registration /\ r.reads = deps[s] /\ r.growth = version[s]
      BY <2>1, <2>3 DEF Registration
    <3>. HIDE DEF r
    <3>. QED  BY <3>1, <3>2 DEF e
  <2>6. CASE deps[s] # {} /\ e \in registered
    <3>. DEFINE r == [record[e] EXCEPT !.growth = version[s], !.reads = deps[s]]
    <3>1. \/ EdgeRecord(e, deps[s]) = r
          \/ EdgeRecord(e, deps[s]) = record[e] /\ record[e].reads = deps[s]
      BY <2>2, <2>6 DEF EdgeRecord
    <3>2. r \in Registration /\ r.reads = deps[s] /\ r.growth = version[s]
      BY <2>1 DEF Registration
    <3>. HIDE DEF r
    <3>. QED  BY <2>1, <2>6, <3>1, <3>2 DEF e
  <2>7. QED  BY <2>4, <2>5, <2>6 DEF e
<1>6. ASSUME NEW s \in Stores
      PROVE  record'[<<c, s>>] = EdgeRecord(<<c, s>>, deps[s])
  BY <1>1, EdgeLemma
<1>7. record' \in [Subscribers -> Registration]
  <2>1. \A i \in EdgesOf(c) : EdgeRecord(i, deps[i[2]]) \in Registration
    BY <1>5 DEF EdgesOf
  <2>. QED  BY <1>1, <2>1 DEF EdgeTypes
<1>8. \A s \in Stores : <<c, s>> \in registered' <=> deps[s] # {}
  BY <1>1, <1>2, EdgeLemma
<1>9. \A i \in Subscribers \ EdgesOf(c) :
        record'[i] = record[i] /\ (i \in registered' <=> i \in registered)
  BY <1>1, <1>2
<1>. QED  BY <1>3, <1>4, <1>5, <1>6, <1>7, <1>8, <1>9

-----------------------------------------------------------------------------
(***************************************************************************)
(* What a cache that is valid stands for.  Its value is current, unless a  *)
(* place it was made from has been written, and that write is in a draft   *)
(* or in a publication after the version of its leaf.  A cache that was    *)
(* checked, and a store that was proven, have no such publication.         *)
(***************************************************************************)
Current(k, c) ==
  /\ \A s \in Stores : k.versions[s].reads = Collected(c)[s]
  /\ k.value = BodyValue(c)
  /\ ~BodyFails(c)

LeafMatches(k, s) == LogMatches(s, k.versions[s].at, k.versions[s].reads)

CellSound(k, c) ==
  k.valid =>
    /\ \/ Current(k, c)
       \/ \E s \in Stores : Concerns(writes[s], k.versions[s].reads) \/ LeafMatches(k, s)
    /\ k.checked => \A s \in Stores : ~LeafMatches(k, s)
    /\ \A s \in k.proven : ~LeafMatches(k, s)

\* Every cache is sound, and a leaf that has drifted says so when asked.
Knowing ==
  \A c \in Computeds :
    /\ CellSound(cell[c], c)
    /\ \A s \in Stores : LeafMatches(cell[c], s) => LeafDrifted(c, s)

LEMMA DriftedLemma ==
  ASSUME StoreTypes, EdgeTypes, Knowing, NEW c \in Computeds, cell[c].valid,
         NEW s \in Stores, LeafMatches(cell[c], s)
  PROVE  s \in DriftedLeaves(c) /\ ~cell[c].checked /\ Stale(c)
<1>1. ~cell[c].checked /\ s \notin cell[c].proven /\ LeafDrifted(c, s)
  BY DEF Knowing, CellSound
<1>2. \E v \in 1..MaxVersion : /\ cell[c].versions[s].at < v
                              /\ v <= version[s]
                              /\ Concerns(writeLog[s][v], cell[c].versions[s].reads)
  BY DEF LeafMatches, LogMatches
<1>3. cell[c].versions[s].reads # {}
  BY <1>2 DEF Concerns
<1>4. cell[c].versions[s].at \in Nat /\ version[s] \in Nat /\ MaxVersion \in Nat
  BY CarburetorAssumption DEF EdgeTypes, StoreTypes, Cell, Leaf
<1>5. version[s] # cell[c].versions[s].at
  BY <1>2, <1>4
<1>6. s \in DriftedLeaves(c)
  BY <1>1, <1>3, <1>5 DEF DriftedLeaves, Moved, Leaves
<1>. QED  BY <1>1, <1>6 DEF Stale, HasDrifted

LEMMA AskedSound ==
  ASSUME StoreTypes, EdgeTypes, Knowing, NEW c \in Computeds
  PROVE  CellSound(Asked(c), c) /\ CellSound(Marked(c), c)
<1>0. CellSound(cell[c], c) /\ cell[c] \in Cell
  BY DEF Knowing, EdgeTypes
<1>1. CASE ~cell[c].valid \/ cell[c].checked
  <2>1. Asked(c) = cell[c]
    BY <1>1 DEF Asked
  <2>. QED  BY <1>0, <2>1 DEF Marked, CellSound, Cell
<1>2. CASE cell[c].valid /\ ~cell[c].checked
  <2>1. /\ Asked(c).valid = cell[c].valid
        /\ Asked(c).value = cell[c].value
        /\ Asked(c).versions = cell[c].versions
        /\ Asked(c).checked = (DriftedLeaves(c) = {})
        /\ Asked(c).proven = ProvenNow(c)
    BY <1>0, <1>2 DEF Asked, Cell
  <2>2. \A s \in Stores : LeafMatches(cell[c], s) => s \in DriftedLeaves(c)
    BY <1>2, DriftedLemma
  <2>3. \A s \in Stores : LeafMatches(Asked(c), s) <=> LeafMatches(cell[c], s)
    BY <2>1 DEF LeafMatches
  <2>4. Current(cell[c], c) => Current(Asked(c), c)
    BY <2>1 DEF Current
  <2>5. \A s \in ProvenNow(c) : ~LeafMatches(cell[c], s)
    <3>1. \A s \in cell[c].proven : ~LeafMatches(cell[c], s)
      BY <1>0, <1>2 DEF CellSound
    <3>2. Moved(c) \subseteq Stores
      BY DEF Moved, Leaves
    <3>. QED  BY <2>2, <3>1, <3>2 DEF ProvenNow
  <2>6. CellSound(Asked(c), c)
    <3>1. Asked(c).checked => \A s \in Stores : ~LeafMatches(Asked(c), s)
      BY <2>1, <2>2, <2>3
    <3>2. \A s \in Asked(c).proven : ~LeafMatches(Asked(c), s)
      <4>1. ProvenNow(c) \subseteq Stores
        BY <1>0 DEF ProvenNow, Moved, Leaves, Cell
      <4>. QED  BY <2>1, <2>3, <2>5, <4>1
    <3>3. \/ Current(Asked(c), c)
          \/ \E s \in Stores : \/ Concerns(writes[s], Asked(c).versions[s].reads)
                             \/ LeafMatches(Asked(c), s)
      <4>1. CASE Current(cell[c], c)
        BY <2>4, <4>1
      <4>2. CASE \E s \in Stores : Concerns(writes[s], cell[c].versions[s].reads)
        BY <2>1, <4>2
      <4>3. CASE \E s \in Stores : LeafMatches(cell[c], s)
        BY <2>3, <4>3
      <4>. QED  BY <1>0, <1>2, <4>1, <4>2, <4>3 DEF CellSound
    <3>. QED  BY <3>1, <3>2, <3>3 DEF CellSound
  <2>7. Asked(c) \in Cell
    BY AskedLemma
  <2>. QED  BY <2>6, <2>7 DEF Marked, CellSound, Cell
<1>. QED  BY <1>0, <1>1, <1>2 DEF Cell

LEMMA RecomputedSound ==
  ASSUME StoreTypes, EdgeTypes, NEW c \in Computeds, ~BodyFails(c)
  PROVE  CellSound(Recomputed(c), c)
<1>. DEFINE deps == Collected(c)
            k == Recomputed(c)
<1>1. /\ cell[c] \in Cell
      /\ \A s \in Stores : /\ Captured(deps)[s].reads = deps[s]
                           /\ deps[s] # {} => Captured(deps)[s].at = version[s]
  BY BodyLemma, CapturedLemma DEF EdgeTypes
<1>2. k.versions = Captured(deps) /\ k.value = BodyValue(c) /\ k.proven = {}
  BY <1>1 DEF Recomputed, Cell
<1>3. Current(k, c)
  BY <1>1, <1>2 DEF Current
<1>4. ASSUME NEW s \in Stores PROVE ~LeafMatches(k, s)
  <2>1. version[s] \in Nat /\ MaxVersion \in Nat
    BY CarburetorAssumption DEF StoreTypes
  <2>2. CASE deps[s] = {}
    BY <1>1, <1>2, <2>2 DEF LeafMatches, LogMatches, Concerns
  <2>3. CASE deps[s] # {}
    BY <1>1, <1>2, <2>1, <2>3 DEF LeafMatches, LogMatches
  <2>. QED  BY <2>2, <2>3
<1>. QED  BY <1>2, <1>3, <1>4 DEF CellSound

\* The first observer finds a cache that has not drifted: its leaves may as
\* well be at the versions of now.
LEMMA KeptSound ==
  ASSUME StoreTypes, EdgeTypes, Knowing, NEW c \in Computeds, ~Stale(c),
         NEW k, k.versions = Captured(Kept(c)), k.value = cell[c].value, k.proven = {}
  PROVE  CellSound(k, c)
<1>. DEFINE deps == Kept(c)
<1>1. /\ cell[c] \in Cell /\ CellSound(cell[c], c) /\ cell[c].valid
      /\ \A s \in Stores : ~LeafMatches(cell[c], s)
  BY DriftedLemma DEF EdgeTypes, Knowing, Stale
<1>2. /\ deps \in [Stores -> SUBSET Paths]
      /\ \A s \in Stores : deps[s] = cell[c].versions[s].reads
  BY <1>1 DEF Kept, Cell, Leaf
<1>3. \A s \in Stores : /\ Captured(deps)[s].reads = deps[s]
                        /\ deps[s] # {} => Captured(deps)[s].at = version[s]
  BY <1>2, CapturedLemma
<1>4. ASSUME NEW s \in Stores PROVE ~LeafMatches(k, s)
  <2>1. version[s] \in Nat /\ MaxVersion \in Nat
    BY CarburetorAssumption DEF StoreTypes
  <2>2. CASE deps[s] = {}
    BY <1>3, <2>2 DEF LeafMatches, LogMatches, Concerns
  <2>3. CASE deps[s] # {}
    BY <1>3, <2>1, <2>3 DEF LeafMatches, LogMatches
  <2>. QED  BY <2>2, <2>3
<1>5. \A s \in Stores : k.versions[s].reads = cell[c].versions[s].reads
  BY <1>2, <1>3
<1>6. Current(k, c) \/ \E s \in Stores : Concerns(writes[s], k.versions[s].reads)
  BY <1>1, <1>5 DEF CellSound, Current
<1>. QED  BY <1>4, <1>6 DEF CellSound, Cell, EdgeTypes

-----------------------------------------------------------------------------
(***************************************************************************)
(* What the operations of a computed do to its fields and to its edges.    *)
(***************************************************************************)
EdgesFollow(c, k) ==
  \/ /\ EdgesUnchanged
     /\ \/ k.observers = {} /\ cell[c].observers = {}
        \/ /\ k.observers # {} /\ cell[c].observers # {}
           /\ \A s \in Stores : k.versions[s].reads = cell[c].versions[s].reads
  \/ /\ k.observers # {}
     /\ \E deps \in [Stores -> SUBSET Paths] :
          AttachEdges(c, deps) /\ \A s \in Stores : k.versions[s].reads = deps[s]

Becomes(c, k) ==
  /\ cell' = [cell EXCEPT ![c] = k]
  /\ \A s \in Stores : k.versions[s].at <= version[s]
  /\ Knowing => CellSound(k, c)

Handled(c) == \E k \in Cell : Becomes(c, k) /\ EdgesFollow(c, k)

\* The last observer leaves.
Ended(c) == \E k \in Cell : Becomes(c, k) /\ k.observers = {} /\ ReleaseEdges(c)

\* What is known of the fields an operation may leave.
LEMMA FieldsLemma ==
  ASSUME EdgeInv, NEW c \in Computeds
  PROVE  \A k \in {cell[c], Asked(c), Marked(c)} :
           /\ k \in Cell
           /\ k.observers = cell[c].observers
           /\ k.versions = cell[c].versions
           /\ \A s \in Stores : k.versions[s].at <= version[s]
           /\ Knowing => CellSound(k, c)
<1>1. \A s \in Stores : cell[c].versions[s].at <= version[s]
  BY DEF EdgeInv, EdgeTypes
<1>. QED  BY <1>1, AskedLemma, AskedSound DEF EdgeInv, EdgeTypes, Knowing

LEMMA SameFields ==
  ASSUME EdgeInv, NEW c \in Computeds, NEW k \in {cell[c], Asked(c), Marked(c)},
         cell' = [cell EXCEPT ![c] = k], EdgesUnchanged
  PROVE  Handled(c)
BY FieldsLemma DEF Handled, Becomes, EdgesFollow

LEMMA GetHandles ==
  ASSUME EdgeInv, NEW c \in Computeds, Get(c)
  PROVE  Handled(c)
<1>1. CASE Stale(c) /\ ~BodyFails(c)
  <2>. DEFINE k == Recomputed(c)
  <2>1. /\ cell' = [cell EXCEPT ![c] = k]
        /\ AttachIfObserved(c, cell[c].observers, Collected(c))
    BY <1>1 DEF Get
  <2>2. /\ k \in Cell /\ k.observers = cell[c].observers
        /\ \A s \in Stores : /\ k.versions[s].reads = Collected(c)[s]
                             /\ k.versions[s].at <= version[s]
    BY RecomputedLemma DEF EdgeInv
  <2>3. CellSound(k, c)
    BY <1>1, RecomputedSound DEF EdgeInv
  <2>4. Collected(c) \in [Stores -> SUBSET Paths]
    BY BodyLemma
  <2>. HIDE DEF k
  <2>5. EdgesFollow(c, k)
    BY <2>1, <2>2, <2>4 DEF AttachIfObserved, EdgesFollow
  <2>. QED  BY <2>1, <2>2, <2>3, <2>5 DEF Handled, Becomes
<1>2. CASE ~(Stale(c) /\ ~BodyFails(c))
  BY <1>2, SameFields DEF Get
<1>. QED  BY <1>1, <1>2

LEMMA SettleHandles ==
  ASSUME EdgeInv, NEW c \in Computeds, cell[c].observers # {},
         NEW k \in {Asked(c), Marked(c)}, NEW frames, Settle(c, k, frames)
  PROVE  /\ Handled(c)
         /\ stack' = frames \/ stack' = Append(frames, DeliverTo(c))
<1>1. stack' = frames \/ stack' = Append(frames, DeliverTo(c))
  BY DEF Settle
<1>2. CASE Stale(c) /\ BodyFails(c)
  <2>1. Handled(c)
    BY <1>2, SameFields DEF Settle
  <2>. QED  BY <1>1, <2>1
<1>3. CASE ~(Stale(c) /\ BodyFails(c))
  <2>. DEFINE settled == IF Stale(c) THEN Recomputed(c) ELSE k
              told == Announced(settled)
  <2>1. /\ cell' = [cell EXCEPT ![c] = told]
        /\ IF Stale(c) THEN AttachEdges(c, Collected(c)) ELSE EdgesUnchanged
    BY <1>3 DEF Settle
  <2>2. /\ settled \in Cell /\ settled.observers = cell[c].observers
        /\ \A s \in Stores : settled.versions[s].at <= version[s]
        /\ Knowing => CellSound(settled, c)
        /\ \A s \in Stores : settled.versions[s].reads =
                               IF Stale(c) THEN Collected(c)[s] ELSE cell[c].versions[s].reads
    <3>1. CASE Stale(c)
      BY <1>3, <3>1, RecomputedLemma, RecomputedSound DEF EdgeInv
    <3>2. CASE ~Stale(c)
      BY <3>2, FieldsLemma
    <3>. QED  BY <3>1, <3>2
  <2>. HIDE DEF settled
  <2>3. /\ told \in Cell /\ told.valid = settled.valid /\ told.value = settled.value
        /\ told.versions = settled.versions /\ told.checked = settled.checked
        /\ told.proven = settled.proven /\ told.observers = settled.observers
    BY <2>2 DEF Announced, Cell
  <2>. HIDE DEF told
  <2>4. CellSound(settled, c) => CellSound(told, c)
    BY <2>3 DEF CellSound, Current, LeafMatches
  <2>5. Collected(c) \in [Stores -> SUBSET Paths]
    BY BodyLemma
  <2>6. EdgesFollow(c, told)
    BY <2>1, <2>2, <2>3, <2>5 DEF EdgesFollow
  <2>. QED  BY <1>1, <2>1, <2>2, <2>3, <2>4, <2>6 DEF Handled, Becomes
<1>. QED  BY <1>2, <1>3

LEMMA ObserveHandles ==
  ASSUME EdgeInv, NEW c \in Computeds, NEW o \in Observers, Observe(c, o)
  PROVE  Handled(c)
<1>0. cell[c] \in Cell /\ StoreTypes /\ EdgeTypes
  BY DEF EdgeInv, EdgeTypes
<1>1. CASE MustRun(c) /\ BodyFails(c)
  <2>1. PICK l \in {cell[c], Asked(c)} :
          cell' = [cell EXCEPT ![c] = [l EXCEPT !.valid = FALSE]] /\ EdgesUnchanged
    BY <1>1 DEF Observe
  <2>. DEFINE k == [l EXCEPT !.valid = FALSE]
  <2>2. /\ l \in Cell /\ l.observers = cell[c].observers /\ l.versions = cell[c].versions
        /\ \A s \in Stores : l.versions[s].at <= version[s]
    BY FieldsLemma
  <2>3. k \in Cell /\ k.observers = l.observers /\ k.versions = l.versions /\ ~k.valid
    BY <2>2 DEF Cell
  <2>. HIDE DEF k
  <2>4. EdgesFollow(c, k)
    BY <2>1, <2>2, <2>3 DEF EdgesFollow
  <2>5. CellSound(k, c)
    BY <2>3 DEF CellSound
  <2>. QED  BY <2>1, <2>2, <2>3, <2>4, <2>5 DEF Handled, Becomes, k
<1>2. CASE ~(MustRun(c) /\ BodyFails(c))
  <2>. DEFINE kept == [cell[c] EXCEPT !.versions = Captured(Kept(c)), !.checked = TRUE, !.proven = {}]
              fresh == IF MustRun(c) THEN Recomputed(c) ELSE IF First(c) THEN kept ELSE cell[c]
              told == IF First(c) THEN Announced(fresh) ELSE fresh
              k == [told EXCEPT !.observers = @ \cup {o}]
  <2>1. /\ cell' = [cell EXCEPT ![c] = k]
        /\ IF MustRun(c) THEN AttachEdges(c, Collected(c))
           ELSE IF First(c) THEN AttachEdges(c, Kept(c)) ELSE EdgesUnchanged
    BY <1>2 DEF Observe, Joined
  <2>2. /\ Kept(c) \in [Stores -> SUBSET Paths] /\ Collected(c) \in [Stores -> SUBSET Paths]
        /\ \A s \in Stores : Kept(c)[s] = cell[c].versions[s].reads
    BY <1>0, BodyLemma DEF Kept, Cell, Leaf
  <2>3. /\ Captured(Kept(c)) \in [Stores -> Leaf]
        /\ \A s \in Stores : /\ Captured(Kept(c))[s].reads = Kept(c)[s]
                             /\ Captured(Kept(c))[s].at <= version[s]
    BY <1>0, <2>2, CapturedLemma
  <2>4. /\ kept \in Cell /\ kept.versions = Captured(Kept(c)) /\ kept.value = cell[c].value
        /\ kept.proven = {} /\ kept.observers = cell[c].observers
    BY <1>0, <2>3 DEF Cell
  <2>. HIDE DEF kept
  <2>5. /\ fresh \in Cell /\ fresh.observers = cell[c].observers
        /\ \A s \in Stores : fresh.versions[s].at <= version[s]
        /\ Knowing => CellSound(fresh, c)
        /\ \A s \in Stores : fresh.versions[s].reads =
             IF MustRun(c) THEN Collected(c)[s] ELSE cell[c].versions[s].reads
    <3>1. CASE MustRun(c)
      BY <1>0, <1>2, <3>1, RecomputedLemma, RecomputedSound
    <3>2. CASE ~MustRun(c) /\ First(c)
      <4>1. ~Stale(c)
        BY <3>2 DEF MustRun, Stale
      <4>2. Knowing => CellSound(kept, c)
        BY <1>0, <2>4, <4>1, KeptSound
      <4>. QED  BY <2>2, <2>3, <2>4, <3>2, <4>2
    <3>3. CASE ~MustRun(c) /\ ~First(c)
      BY <3>3, FieldsLemma
    <3>. QED  BY <3>1, <3>2, <3>3
  <2>. HIDE DEF fresh
  <2>6. /\ told \in Cell /\ told.valid = fresh.valid /\ told.value = fresh.value
        /\ told.versions = fresh.versions /\ told.checked = fresh.checked
        /\ told.proven = fresh.proven /\ told.observers = fresh.observers
    BY <2>5 DEF Announced, Cell
  <2>. HIDE DEF told
  <2>7. /\ k \in Cell /\ k.valid = fresh.valid /\ k.value = fresh.value
        /\ k.versions = fresh.versions /\ k.checked = fresh.checked
        /\ k.proven = fresh.proven /\ k.observers # {}
    BY <2>6 DEF Cell
  <2>. HIDE DEF k
  <2>8. CellSound(fresh, c) => CellSound(k, c)
    BY <2>7 DEF CellSound, Current, LeafMatches
  <2>9. EdgesFollow(c, k)
    BY <2>1, <2>2, <2>5, <2>7 DEF EdgesFollow, First
  <2>. QED  BY <2>1, <2>5, <2>7, <2>8, <2>9 DEF Handled, Becomes
<1>. QED  BY <1>1, <1>2

LEMMA UnobserveHandles ==
  ASSUME EdgeInv, NEW c \in Computeds, NEW o \in Observers, Unobserve(c, o)
  PROVE  IF cell[c].observers = {o} THEN Ended(c) ELSE Handled(c)
<1>0. /\ cell[c] \in Cell /\ \A s \in Stores : cell[c].versions[s].at <= version[s]
      /\ Knowing => CellSound(cell[c], c)
  BY FieldsLemma
<1>1. CASE cell[c].observers = {o}
  <2>. DEFINE k == [cell[c] EXCEPT !.observers = {}, !.valid = FALSE, !.announced = Unannounced]
  <2>1. cell' = [cell EXCEPT ![c] = k] /\ ReleaseEdges(c)
    <3>1. cell' = [cell EXCEPT ![c].observers = {}, ![c].valid = FALSE,
                               ![c].announced = Unannounced] /\ ReleaseEdges(c)
      BY <1>1 DEF Unobserve
    <3>. QED  BY <1>0, <3>1 DEF EdgeInv, EdgeTypes, Cell
  <2>2. Unannounced \in [value : SUBSET Places, versions : [Stores -> Leaf]]
    <3>1. MaxVersion \in Nat
      BY CarburetorAssumption
    <3>. QED  BY <3>1 DEF Unannounced, NoLeaf, Leaf
  <2>3. k \in Cell /\ k.observers = {} /\ k.versions = cell[c].versions /\ ~k.valid
    BY <1>0, <2>2 DEF Cell
  <2>. HIDE DEF k
  <2>. QED  BY <1>0, <1>1, <2>1, <2>3 DEF Ended, Becomes, CellSound
<1>2. CASE cell[c].observers # {o}
  <2>. DEFINE k == [cell[c] EXCEPT !.observers = @ \ {o}]
  <2>1. cell' = [cell EXCEPT ![c] = k] /\ EdgesUnchanged
    BY <1>2 DEF Unobserve
  <2>2. /\ k \in Cell /\ k.observers # {} /\ k.versions = cell[c].versions
        /\ k.valid = cell[c].valid /\ k.value = cell[c].value
        /\ k.checked = cell[c].checked /\ k.proven = cell[c].proven
        /\ cell[c].observers # {}
    BY <1>0, <1>2 DEF Unobserve, Cell
  <2>. HIDE DEF k
  <2>3. CellSound(cell[c], c) => CellSound(k, c)
    BY <2>2 DEF CellSound, Current, LeafMatches
  <2>. QED  BY <1>0, <1>2, <2>1, <2>2, <2>3 DEF Handled, Becomes, EdgesFollow
<1>. QED  BY <1>1, <1>2

\* The edges still are what the values were made from.
LEMMA EdgesLemma ==
  ASSUME EdgeInv, NEW c \in Computeds, Handled(c) \/ Ended(c), version' = version,
         scheduled' \in [Subscribers -> Nat]
  PROVE  EdgeTypes' /\ EdgesMatchReads'
<1>0. StoreTypes /\ EdgeTypes /\ EdgesMatchReads
  BY DEF EdgeInv
<1>1. PICK k \in Cell : Becomes(c, k) /\ (EdgesFollow(c, k) \/ (k.observers = {} /\ ReleaseEdges(c)))
  BY DEF Handled, Ended
<1>2. /\ cell' \in [Computeds -> Cell] /\ cell'[c] = k
      /\ \A z \in Computeds \ {c} : cell'[z] = cell[z]
      /\ \A s \in Stores : k.versions[s].at <= version'[s]
  BY <1>0, <1>1 DEF EdgeTypes, Becomes
<1>3. \A z \in Computeds, s \in Stores : cell'[z].versions[s].at <= version'[s]
  BY <1>0, <1>2 DEF EdgeTypes
<1>4. \A z \in Computeds \ {c}, s \in Stores : <<z, s>> \in Subscribers \ EdgesOf(c)
  BY EdgeLemma DEF EdgesOf
<1>5. ASSUME EdgesUnchanged,
             \/ k.observers = {} /\ cell[c].observers = {}
             \/ /\ k.observers # {} /\ cell[c].observers # {}
                /\ \A s \in Stores : k.versions[s].reads = cell[c].versions[s].reads
      PROVE  EdgeTypes' /\ EdgesMatchReads'
  <2>1. registered' = registered /\ record' = record /\ counter' = counter
    BY <1>5 DEF EdgesUnchanged
  <2>2. EdgeTypes'
    BY <1>0, <1>2, <1>3, <2>1 DEF EdgeTypes
  <2>3. ASSUME NEW z \in Computeds, NEW s \in Stores
        PROVE  IF cell'[z].observers = {} THEN <<z, s>> \notin registered'
               ELSE /\ record'[<<z, s>>].reads = cell'[z].versions[s].reads
                    /\ <<z, s>> \in registered' <=> record'[<<z, s>>].reads # {}
    <3>1. IF cell[z].observers = {} THEN <<z, s>> \notin registered
          ELSE /\ record[<<z, s>>].reads = cell[z].versions[s].reads
               /\ <<z, s>> \in registered <=> record[<<z, s>>].reads # {}
      BY <1>0 DEF EdgesMatchReads
    <3>2. CASE z = c
      BY <1>2, <1>5, <2>1, <3>1, <3>2
    <3>3. CASE z # c
      BY <1>2, <2>1, <3>1, <3>3
    <3>. QED  BY <3>2, <3>3
  <2>. QED  BY <2>2, <2>3 DEF EdgesMatchReads
<1>6. ASSUME NEW deps \in [Stores -> SUBSET Paths], AttachEdges(c, deps),
             IF k.observers = {} THEN \A s \in Stores : deps[s] = {}
                                 ELSE \A s \in Stores : k.versions[s].reads = deps[s]
      PROVE  EdgeTypes' /\ EdgesMatchReads'
  <2>1. /\ counter' \in [Stores -> Nat]
        /\ registered' \in SUBSET Subscribers
        /\ record' \in [Subscribers -> Registration]
        /\ \A s \in Stores : /\ record'[<<c, s>>].reads = deps[s]
                             /\ <<c, s>> \in registered' <=> deps[s] # {}
        /\ \A i \in Subscribers \ EdgesOf(c) :
             record'[i] = record[i] /\ (i \in registered' <=> i \in registered)
    BY <1>0, <1>6, AttachLemma
  <2>2. EdgeTypes'
    BY <1>2, <1>3, <2>1 DEF EdgeTypes
  <2>3. ASSUME NEW z \in Computeds, NEW s \in Stores
        PROVE  IF cell'[z].observers = {} THEN <<z, s>> \notin registered'
               ELSE /\ record'[<<z, s>>].reads = cell'[z].versions[s].reads
                    /\ <<z, s>> \in registered' <=> record'[<<z, s>>].reads # {}
    <3>1. IF cell[z].observers = {} THEN <<z, s>> \notin registered
          ELSE /\ record[<<z, s>>].reads = cell[z].versions[s].reads
               /\ <<z, s>> \in registered <=> record[<<z, s>>].reads # {}
      BY <1>0 DEF EdgesMatchReads
    <3>2. CASE z = c
      BY <1>2, <1>6, <2>1, <3>2
    <3>3. CASE z # c
      BY <1>2, <1>4, <2>1, <3>1, <3>3
    <3>. QED  BY <3>2, <3>3
  <2>. QED  BY <2>2, <2>3 DEF EdgesMatchReads
<1>. QED
  <2>1. CASE k.observers = {} /\ ReleaseEdges(c)
    <3>. DEFINE none == [s \in Stores |-> {}]
    <3>1. none \in [Stores -> SUBSET Paths] /\ AttachEdges(c, none) /\ \A s \in Stores : none[s] = {}
      BY <2>1 DEF ReleaseEdges
    <3>. HIDE DEF none
    <3>. QED  BY <1>6, <2>1, <3>1
  <2>. QED  BY <1>1, <1>5, <1>6, <2>1 DEF EdgesFollow

LEMMA RetractedLemma ==
  ASSUME NEW queued \in [Subscribers -> Nat], scheduled' = Retracted(queued)
  PROVE  scheduled' \in [Subscribers -> Nat] /\ EdgesQueued'
BY ComputedAssumption DEF Retracted, EdgesQueued

\* Whoever observes goes on observing, unless the last observer left.
LEMMA DueKept ==
  ASSUME cell \in [Computeds -> Cell],
         cell' = cell \/ \E c \in Computeds : Handled(c)
  PROVE  Due \subseteq Due' /\ Seq(Due) \subseteq Seq(Due') /\ DueFrame \subseteq DueFrame'
<1>1. \A z \in Computeds : cell[z].observers # {} => cell'[z].observers # {}
  BY DEF Handled, Becomes, EdgesFollow
<1>2. Due \subseteq Due'
  BY <1>1 DEF Due, Settlement
<1>3. Seq(Due) \subseteq Seq(Due')
  BY <1>2, SeqMonotonic
<1>. QED  BY <1>2, <1>3 DEF DueFrame

-----------------------------------------------------------------------------
(***************************************************************************)
(* The steps that leave the stores alone.                                  *)
(***************************************************************************)
StoresStand == UNCHANGED <<version, notified, disposed, writes, writeLog, pending, data>>

\* An edge that is there was there before, or reads from now on.
EdgesGrow ==
  \A e \in Edges \cap registered' :
    \/ record'[e].growth = version[e[2]]
    \/ e \in registered /\ record'[e] = record[e]

Stands ==
  /\ EdgeInv'
  /\ StoresStand
  /\ \A s \in Stores : Unmatched(s) \subseteq Unmatched(s)'
  /\ cell' = cell \/ \E c \in Computeds : Handled(c) \/ Ended(c)
  /\ EdgesGrow

LEMMA StoreTypesStand ==
  ASSUME StoreTypes, StoresStand, depth' \in Nat
  PROVE  StoreTypes'
BY DEF StoreTypes, StoresStand

LEMMA HandledGrow ==
  ASSUME EdgeInv, NEW c \in Computeds, Handled(c) \/ Ended(c)
  PROVE  EdgesGrow
<1>1. EdgesUnchanged \/ \E deps \in [Stores -> SUBSET Paths] : AttachEdges(c, deps)
  <2>. DEFINE none == [s \in Stores |-> {}]
  <2>1. none \in [Stores -> SUBSET Paths]
    OBVIOUS
  <2>. QED  BY <2>1 DEF Handled, Ended, EdgesFollow, ReleaseEdges
<1>2. CASE EdgesUnchanged
  BY <1>2 DEF EdgesUnchanged, EdgesGrow
<1>3. ASSUME NEW deps \in [Stores -> SUBSET Paths], AttachEdges(c, deps)
      PROVE  EdgesGrow
  <2>1. /\ \A s \in Stores :
             <<c, s>> \in registered' =>
               \/ record'[<<c, s>>].growth = version[s]
               \/ <<c, s>> \in registered /\ record'[<<c, s>>] = record[<<c, s>>]
        /\ \A i \in Subscribers \ EdgesOf(c) :
             record'[i] = record[i] /\ (i \in registered' <=> i \in registered)
    BY <1>3, AttachLemma DEF EdgeInv
  <2>2. ASSUME NEW e \in Edges \cap registered'
        PROVE  record'[e].growth = version[e[2]] \/ (e \in registered /\ record'[e] = record[e])
    <3>1. CASE e \in EdgesOf(c)
      <4>1. PICK s \in Stores : e = <<c, s>>
        BY <3>1 DEF EdgesOf
      <4>. QED  BY <2>1, <2>2, <4>1
    <3>2. CASE e \notin EdgesOf(c)
      <4>1. e \in Subscribers
        BY <2>2, ComputedAssumption
      <4>. QED  BY <2>1, <2>2, <3>2, <4>1
    <3>. QED  BY <3>1, <3>2
  <2>. QED  BY <2>2 DEF EdgesGrow
<1>. QED  BY <1>1, <1>2, <1>3

\* A step on the stack and in the wave.
LEMMA WorkStands ==
  ASSUME EdgeInv, StoresStand, depth' \in Nat, Reshaped, wave' \in Seq(Due),
         EdgesUnchanged /\ cell' = cell,
         scheduled' \in [Subscribers -> Nat], EdgesQueued'
  PROVE  Stands
<1>0. StoreTypes /\ EdgeTypes /\ WorkTypes /\ EdgesMatchReads
  BY DEF EdgeInv
<1>1. StoreTypes'
  BY <1>0, StoreTypesStand
<1>2. EdgeTypes' /\ EdgesMatchReads'
  BY <1>0 DEF EdgeTypes, EdgesMatchReads, EdgesUnchanged, StoresStand
<1>3. DueFrame' = DueFrame /\ Due' = Due
  BY DEF DueFrame, Due
<1>4. stack' \in Seq(DueFrame)
  BY <1>0, ReshapedIn DEF WorkTypes
<1>5. WorkTypes'
  BY <1>3, <1>4 DEF WorkTypes
<1>6. stack' \in Seq(WaveFrame) /\ \A s \in Stores : pending[s] \subseteq pending'[s]
  BY <1>4, DueLemma, SeqMonotonic DEF StoresStand
<1>7. \A s \in Stores : Unmatched(s) \subseteq Unmatched(s)'
  BY <1>0, <1>6, UnmatchedKept DEF WorkTypes
<1>8. EdgesGrow
  BY DEF EdgesGrow, EdgesUnchanged
<1>. QED  BY <1>1, <1>2, <1>5, <1>7, <1>8 DEF Stands, EdgeInv

\* A step of a computed that keeps its observers.
LEMMA HandledStands ==
  ASSUME EdgeInv, StoresStand, depth' \in Nat, Reshaped, wave' \in Seq(Due),
         NEW c \in Computeds, Handled(c),
         scheduled' \in [Subscribers -> Nat], EdgesQueued'
  PROVE  Stands
<1>0. StoreTypes /\ EdgeTypes /\ WorkTypes /\ EdgesMatchReads
  BY DEF EdgeInv
<1>1. StoreTypes'
  BY <1>0, StoreTypesStand
<1>2. EdgeTypes' /\ EdgesMatchReads'
  BY EdgesLemma DEF StoresStand
<1>3. Seq(Due) \subseteq Seq(Due') /\ DueFrame \subseteq DueFrame'
  BY <1>0, DueKept DEF EdgeTypes
<1>4. stack' \in Seq(DueFrame)
  BY <1>0, ReshapedIn DEF WorkTypes
<1>5. stack' \in Seq(DueFrame')
  BY <1>3, <1>4, SeqMonotonic
<1>6. WorkTypes'
  BY <1>3, <1>5 DEF WorkTypes
<1>7. stack' \in Seq(WaveFrame) /\ \A s \in Stores : pending[s] \subseteq pending'[s]
  BY <1>4, DueLemma, SeqMonotonic DEF StoresStand
<1>8. \A s \in Stores : Unmatched(s) \subseteq Unmatched(s)'
  BY <1>0, <1>7, UnmatchedKept DEF WorkTypes
<1>9. EdgesGrow
  BY HandledGrow
<1>. QED  BY <1>1, <1>2, <1>6, <1>8, <1>9 DEF Stands, EdgeInv

\* The frame on top, and what stays of it when it was worked on.
LEMMA TopLemma ==
  ASSUME EdgeInv, Len(stack) > 0
  PROVE  /\ Top \in DueFrame
         /\ Top.kind # "flush" => Inert(Top)
         /\ \A f, g \in DueFrame : Inert(Top) =>
              /\ stack' = Below => Reshaped
              /\ stack' = Retop(f) => Reshaped
              /\ stack' = Append(Retop(f), g) => Reshaped
<1>1. Top \in DueFrame
  BY StackLemma DEF EdgeInv, WorkTypes
<1>2. Top.kind # "flush" => Inert(Top)
  BY DEF Inert
<1>. QED  BY <1>1, <1>2 DEF Reshaped, Retop

\* Transactions, tasks and callbacks.
LEMMA CallsStand ==
  ASSUME EdgeInv, BeginTransaction \/ EndTransaction \/ Return \/ StartTask, UNCHANGED computedVars
  PROVE  Stands /\ Reshaped
<1>0. depth \in Nat /\ wave \in Seq(Due) /\ scheduled \in [Subscribers -> Nat] /\ EdgesQueued
  BY DEF EdgeInv, StoreTypes, EdgeTypes, WorkTypes
<1>1. /\ StoresStand /\ EdgesUnchanged /\ cell' = cell /\ wave' = wave
      /\ scheduled' = scheduled /\ registered' = registered
  BY DEF BeginTransaction, EndTransaction, Return, StartTask, storeVars, subscriptionVars,
     computedVars, StoresStand, EdgesUnchanged
<1>2. EdgesQueued'
  BY <1>0, <1>1 DEF EdgesQueued
<1>3. depth' \in Nat /\ Reshaped
  <2>1. CASE BeginTransaction
    <3>. DEFINE f == [Top EXCEPT !.opened = @ + 1]
    <3>1. Len(stack) > 0 /\ Top.kind = "call" /\ stack' = Retop(f) /\ depth' = depth + 1
      BY <2>1 DEF BeginTransaction, Running
    <3>2. Top \in [kind : {"call"}, who : Subscribers \cup {NoOne}, opened : Nat]
      BY <3>1, TopLemma, FrameLemma
    <3>3. f \in DueFrame
      BY <3>2 DEF DueFrame, PlainFrame
    <3>. HIDE DEF f
    <3>. QED  BY <1>0, <3>1, <3>3, TopLemma
  <2>2. CASE EndTransaction
    <3>. DEFINE f == [Top EXCEPT !.opened = @ - 1]
                g == [kind |-> "flush", batch |-> NoBatch]
    <3>1. /\ Len(stack) > 0 /\ Top.kind = "call" /\ Top.opened > 0
          /\ stack' = Retop(f) \/ stack' = Append(Retop(f), g)
          /\ depth' = IF depth > 1 THEN depth - 1 ELSE 0
      BY <2>2 DEF EndTransaction, Running
    <3>2. Top \in [kind : {"call"}, who : Subscribers \cup {NoOne}, opened : Nat]
      BY <3>1, TopLemma, FrameLemma
    <3>3. f \in DueFrame
      BY <3>1, <3>2 DEF DueFrame, PlainFrame
    <3>4. g \in DueFrame
      BY PushedFrames DEF NoBatch
    <3>. HIDE DEF f, g
    <3>. QED  BY <1>0, <3>1, <3>3, <3>4, TopLemma
  <2>3. CASE Return
    BY <1>0, <2>3, TopLemma DEF Return, Running
  <2>4. CASE StartTask
    <3>1. stack = <<>> /\ stack' = <<Call(NoOne)>> /\ depth' = depth
      BY <2>4 DEF StartTask
    <3>2. stack' = Append(stack, Call(NoOne)) /\ Call(NoOne) \in DueFrame
      BY <3>1, PushedFrames
    <3>. QED  BY <1>0, <3>1, <3>2 DEF Reshaped
  <2>. QED  BY <2>1, <2>2, <2>3, <2>4
<1>. QED  BY <1>0, <1>1, <1>2, <1>3, WorkStands

\* A pass reaches a subscription that is not an edge.
LEMMA DeliverStands ==
  ASSUME EdgeInv, NEW i \in Plain, Deliver(i), UNCHANGED computedVars
  PROVE  Stands
<1>. DEFINE f == [Top EXCEPT !.todo = @ \ {i}]
<1>0. /\ depth \in Nat /\ wave \in Seq(Due) /\ scheduled \in [Subscribers -> Nat] /\ EdgesQueued
      /\ record \in [Subscribers -> Registration]
  BY DEF EdgeInv, StoreTypes, EdgeTypes, WorkTypes
<1>1. /\ StoresStand /\ EdgesUnchanged /\ cell' = cell /\ wave' = wave /\ depth' = depth
      /\ registered' = registered
  BY DEF Deliver, storeVars, subscriptionVars, computedVars, StoresStand, EdgesUnchanged
<1>2. i \in Subscribers /\ i \notin Edges
  BY DEF Plain
<1>3. /\ scheduled' = scheduled \/ scheduled' = [scheduled EXCEPT ![i] = record[i].generation]
      /\ Len(stack) > 0 /\ Top.kind = "notify"
      /\ stack' = Retop(f) \/ stack' = Append(Retop(f), Call(i))
  BY DEF Deliver, Running
<1>4. scheduled' \in [Subscribers -> Nat] /\ EdgesQueued'
  <2>1. record[i].generation \in Nat
    BY <1>0, <1>2 DEF Registration
  <2>2. scheduled' \in [Subscribers -> Nat]
    BY <1>0, <1>2, <1>3, <2>1
  <2>3. \A e \in Edges : scheduled'[e] = scheduled[e]
    BY <1>0, <1>2, <1>3, ComputedAssumption
  <2>. QED  BY <1>0, <1>1, <2>2, <2>3 DEF EdgesQueued
<1>5. f \in DueFrame /\ Call(i) \in DueFrame
  <2>1. Top \in [kind : {"notify"}, store : Stores, generation : Nat,
                 todo : SUBSET Subscribers, told : BOOLEAN]
    BY <1>3, TopLemma, FrameLemma
  <2>. QED  BY <1>2, <2>1, PushedFrames DEF DueFrame, PlainFrame
<1>. HIDE DEF f
<1>6. Reshaped
  BY <1>3, <1>5, TopLemma
<1>. QED  BY <1>0, <1>1, <1>4, <1>6, WorkStands

\* Waking the observers of a computed, and what ends a pass.
LEMMA WavesStand ==
  ASSUME EdgeInv, EndPass \/ EndDrain \/ EndDeliver \/ \E o \in Observers : WakeObserver(o)
  PROVE  Stands
<1>0. /\ depth \in Nat /\ wave \in Seq(Due) /\ scheduled \in [Subscribers -> Nat] /\ EdgesQueued
      /\ NoOne \in Subscribers \cup {NoOne}
  BY DEF EdgeInv, StoreTypes, EdgeTypes, WorkTypes
<1>1. /\ StoresStand /\ EdgesUnchanged /\ cell' = cell /\ depth' = depth
      /\ scheduled' = scheduled /\ registered' = registered
      /\ wave' = wave \/ wave' = <<>>
  BY DEF EndPass, EndDrain, EndDeliver, WakeObserver, storeVars, subscriptionVars,
     computedVars, StoresStand, EdgesUnchanged
<1>2. EdgesQueued' /\ wave' \in Seq(Due)
  BY <1>0, <1>1, EmptySeq DEF EdgesQueued
<1>3. CASE EndPass
  <2>. DEFINE g == [kind |-> "drain", todo |-> wave]
  <2>1. g \in DueFrame
    BY <1>0, PushedFrames
  <2>2. /\ Len(stack) > 0 /\ Inert(Top)
        /\ stack' = Below \/ stack' = Append(stack, g) \/ stack' = Append(Below, g)
    BY <1>3 DEF EndPass, PassDone, Running, Inert
  <2>. HIDE DEF g
  <2>3. Reshaped
    BY <2>1, <2>2 DEF Reshaped
  <2>. QED  BY <1>0, <1>1, <1>2, <2>3, WorkStands
<1>4. CASE EndDrain
  <2>. DEFINE f == [Top EXCEPT !.todo = wave]
  <2>1. Len(stack) > 0 /\ Top.kind = "drain" /\ (stack' = Below \/ stack' = Retop(f))
    BY <1>4 DEF EndDrain, Running
  <2>2. f \in DueFrame
    <3>1. Top \in [kind : {"drain"}, todo : Seq(Due)]
      BY <2>1, TopLemma, FrameLemma
    <3>. QED  BY <1>0, <3>1 DEF DueFrame
  <2>. HIDE DEF f
  <2>3. Reshaped
    BY <2>1, <2>2, TopLemma
  <2>. QED  BY <1>0, <1>1, <1>2, <2>3, WorkStands
<1>5. CASE EndDeliver
  <2>1. Reshaped
    BY <1>5, TopLemma DEF EndDeliver, Running
  <2>. QED  BY <1>0, <1>1, <1>2, <2>1, WorkStands
<1>6. ASSUME NEW o \in Observers, WakeObserver(o) PROVE Stands
  <2>. DEFINE f == [Top EXCEPT !.todo = @ \ {o}]
  <2>1. Len(stack) > 0 /\ Top.kind = "deliver" /\ stack' = Append(Retop(f), Call(NoOne))
    BY <1>6 DEF WakeObserver, Running
  <2>2. f \in DueFrame
    <3>1. Top \in [kind : {"deliver"}, comp : Computeds, todo : SUBSET Observers]
      BY <2>1, TopLemma, FrameLemma
    <3>. QED  BY <3>1 DEF DueFrame, PlainFrame
  <2>3. Call(NoOne) \in DueFrame
    BY PushedFrames
  <2>. HIDE DEF f
  <2>4. Reshaped
    BY <2>1, <2>2, <2>3, TopLemma
  <2>. QED  BY <1>0, <1>1, <1>2, <2>4, WorkStands
<1>. QED  BY <1>3, <1>4, <1>5, <1>6

\* A registration that is not an edge.
LEMMA SubscribeStands ==
  ASSUME EdgeInv, NEW i \in Plain, NEW R \in ReadSets, Subscribe(i, R), UNCHANGED computedVars
  PROVE  Stands
<1>. DEFINE r == [generation |-> counter[Home[i]] + 1, matched |-> 0,
                  growth |-> version[Home[i]], reads |-> R]
<1>0. StoreTypes /\ EdgeTypes /\ WorkTypes /\ EdgesQueued /\ EdgesMatchReads
  BY DEF EdgeInv
<1>1. /\ StoresStand /\ cell' = cell /\ wave' = wave /\ depth' = depth /\ stack' = stack
      /\ scheduled' = [scheduled EXCEPT ![i] = 0]
      /\ counter' = [counter EXCEPT ![Home[i]] = @ + 1]
      /\ registered' = registered \cup {i}
      /\ record' = [record EXCEPT ![i] = r]
  BY DEF Subscribe, Retract, storeVars, computedVars, StoresStand
<1>2. i \in Subscribers /\ i \notin Edges /\ Home[i] \in Stores /\ R \in SUBSET AllPaths
      /\ MaxVersion \in Nat
  BY CarburetorAssumption DEF Plain
<1>3. r \in Registration
  BY <1>0, <1>2 DEF StoreTypes, EdgeTypes, Registration
<1>. HIDE DEF r
<1>4. \A e \in Edges : /\ e \in Subscribers /\ e # i
                       /\ record'[e] = record[e] /\ scheduled'[e] = scheduled[e]
                       /\ e \in registered' <=> e \in registered
  BY <1>0, <1>1, <1>2, ComputedAssumption DEF EdgeTypes
<1>5. StoreTypes'
  BY <1>0, <1>1, StoreTypesStand DEF StoreTypes
<1>6. EdgeTypes'
  <2>1. /\ counter' \in [Stores -> Nat] /\ registered' \in SUBSET Subscribers
        /\ record' \in [Subscribers -> Registration] /\ scheduled' \in [Subscribers -> Nat]
    BY <1>0, <1>1, <1>2, <1>3 DEF EdgeTypes
  <2>. QED  BY <1>0, <1>1, <2>1 DEF EdgeTypes, StoresStand
<1>7. WorkTypes'
  BY <1>0, <1>1 DEF WorkTypes, DueFrame, Due
<1>8. EdgesQueued'
  BY <1>0, <1>4 DEF EdgesQueued
<1>9. EdgesMatchReads'
  <2>1. \A c \in Computeds, s \in Stores : <<c, s>> \in Edges
    BY EdgeLemma
  <2>. QED  BY <1>0, <1>1, <1>4, <2>1 DEF EdgesMatchReads
<1>10. \A s \in Stores : Unmatched(s)' = Unmatched(s)
  BY <1>1 DEF Unmatched, Frames, StoresStand
<1>11. EdgesGrow
  BY <1>4 DEF EdgesGrow
<1>. QED  BY <1>1, <1>5, <1>6, <1>7, <1>8, <1>9, <1>10, <1>11 DEF Stands, EdgeInv

\* get().
LEMMA GetStands ==
  ASSUME EdgeInv, NEW c \in Computeds, Get(c)
  PROVE  Stands
<1>0. depth \in Nat /\ wave \in Seq(Due) /\ scheduled \in [Subscribers -> Nat]
  BY DEF EdgeInv, StoreTypes, EdgeTypes, WorkTypes
<1>1. /\ StoresStand /\ stack' = stack /\ wave' = wave /\ depth' = depth
      /\ scheduled' = Retracted(scheduled)
  BY DEF Get, storeVars, StoresStand
<1>2. scheduled' \in [Subscribers -> Nat] /\ EdgesQueued'
  BY <1>0, <1>1, RetractedLemma
<1>3. Handled(c) /\ Reshaped
  BY <1>1, GetHandles DEF Reshaped
<1>. QED  BY <1>0, <1>1, <1>2, <1>3, HandledStands

\* The queued call of an edge.
LEMMA RunEdgeStands ==
  ASSUME EdgeInv, NEW c \in Computeds, NEW s \in Stores, RunEdge(c, s)
  PROVE  Stands
<1>. DEFINE queued == [scheduled EXCEPT ![<<c, s>>] = 0]
<1>0. /\ depth \in Nat /\ wave \in Seq(Due) /\ scheduled \in [Subscribers -> Nat]
      /\ EdgesQueued /\ EdgesMatchReads
  BY DEF EdgeInv, StoreTypes, EdgeTypes, WorkTypes
<1>1. /\ StoresStand /\ wave' = wave /\ depth' = depth
      /\ scheduled' = Retracted(queued) /\ scheduled[<<c, s>>] # 0
  BY DEF RunEdge, storeVars, StoresStand
<1>2. scheduled' \in [Subscribers -> Nat] /\ EdgesQueued'
  <2>1. queued \in [Subscribers -> Nat]
    BY <1>0
  <2>. HIDE DEF queued
  <2>. QED  BY <1>1, <2>1, RetractedLemma
<1>. HIDE DEF queued
<1>3. cell[c].observers # {}
  BY <1>0, <1>1, EdgeLemma DEF EdgesQueued, EdgesMatchReads
<1>4. Handled(c) /\ Reshaped
  <2>1. CASE OwesSettlement(c)
    <3>1. Settle(c, Marked(c), stack)
      BY <2>1 DEF RunEdge
    <3>2. Handled(c) /\ (stack' = stack \/ stack' = Append(stack, DeliverTo(c)))
      BY <1>3, <3>1, SettleHandles
    <3>. QED  BY <3>2, PushedFrames DEF Reshaped, EdgeInv
  <2>2. CASE ~OwesSettlement(c)
    <3>1. cell' = [cell EXCEPT ![c] = Marked(c)] /\ EdgesUnchanged /\ stack' = stack
      BY <2>2 DEF RunEdge
    <3>. QED  BY <3>1, SameFields DEF Reshaped
  <2>. QED  BY <2>1, <2>2
<1>. QED  BY <1>0, <1>1, <1>2, <1>4, HandledStands

\* One settlement of the wave.
LEMMA SettleNextStands ==
  ASSUME EdgeInv, SettleNext
  PROVE  Stands
<1>. DEFINE next == Head(Top.todo)
            f == [Top EXCEPT !.todo = Tail(@)]
<1>0. depth \in Nat /\ wave \in Seq(Due) /\ scheduled \in [Subscribers -> Nat]
  BY DEF EdgeInv, StoreTypes, EdgeTypes, WorkTypes
<1>1. /\ StoresStand /\ wave' = wave /\ depth' = depth /\ scheduled' = Retracted(scheduled)
      /\ Len(stack) > 0 /\ Top.kind = "drain" /\ Top.todo # <<>>
      /\ IF next.live THEN Settle(next.comp, Asked(next.comp), Retop(f))
                      ELSE stack' = Retop(f) /\ UNCHANGED cell /\ EdgesUnchanged
  BY DEF SettleNext, Running, storeVars, StoresStand
<1>2. scheduled' \in [Subscribers -> Nat] /\ EdgesQueued'
  BY <1>0, <1>1, RetractedLemma
<1>3. Top \in [kind : {"drain"}, todo : Seq(Due)]
  BY <1>1, TopLemma, FrameLemma
<1>4. next \in Due /\ Tail(Top.todo) \in Seq(Due)
  BY <1>1, <1>3, HeadTailProperties
<1>5. f \in DueFrame
  BY <1>3, <1>4 DEF DueFrame
<1>6. next.comp \in Computeds /\ (next.live => cell[next.comp].observers # {})
  BY <1>4 DEF Due, Settlement
<1>. HIDE DEF f, next
<1>7. CASE next.live
  <2>1. /\ Handled(next.comp)
        /\ stack' = Retop(f) \/ stack' = Append(Retop(f), DeliverTo(next.comp))
    BY <1>1, <1>6, <1>7, SettleHandles
  <2>2. DeliverTo(next.comp) \in DueFrame
    BY <1>6, PushedFrames DEF EdgeInv
  <2>3. Reshaped
    BY <1>1, <1>5, <2>1, <2>2, TopLemma
  <2>. QED  BY <1>0, <1>1, <1>2, <1>6, <2>1, <2>3, HandledStands
<1>8. CASE ~next.live
  <2>1. Reshaped /\ EdgesUnchanged /\ cell' = cell
    BY <1>1, <1>5, <1>8, TopLemma
  <2>. QED  BY <1>0, <1>1, <1>2, <2>1, WorkStands
<1>. QED  BY <1>7, <1>8

\* A settlement more.
LEMMA DeferLemma ==
  ASSUME wave \in Seq(Due), NEW c \in Computeds, cell[c].observers # {}
  PROVE  Defer(c) \in Seq(Due) /\ Defer(c) # <<>>
<1>. DEFINE z == [comp |-> c, live |-> TRUE]
            again == {k \in 1..Len(wave) : wave[k].comp = c}
            in == [k \in 1..Len(wave) |-> IF k \in again THEN z ELSE wave[k]]
<1>1. z \in Due
  BY DEF Due, Settlement
<1>2. Defer(c) = IF again = {} THEN Append(wave, z) ELSE in
  BY DEF Defer
<1>3. Len(wave) \in Nat /\ \A k \in 1..Len(wave) : wave[k] \in Due
  BY LenProperties, ElementOfSeq
<1>4. again = {} \/ 1 <= Len(wave)
  BY <1>3
<1>. HIDE DEF z
<1>5. in \in [1..Len(wave) -> Due]
  BY <1>1, <1>3
<1>6. in \in Seq(Due) /\ Len(in) = Len(wave)
  <2>1. in \in Seq(Due)
    BY <1>3, <1>5, SeqDef
  <2>. QED  BY <1>3, <1>5, <2>1, LenProperties
<1>. HIDE DEF in, again
<1>7. CASE again = {}
  BY <1>1, <1>2, <1>7, PushSeq
<1>8. CASE again # {}
  BY <1>2, <1>3, <1>4, <1>6, <1>8, EmptySeq
<1>. QED  BY <1>7, <1>8

\* A pass reaches an edge.
LEMMA DeliverEdgeStands ==
  ASSUME EdgeInv, NEW c \in Computeds, DeliverEdge(c)
  PROVE  Stands
<1>. DEFINE e == <<c, Top.store>>
            f == [Top EXCEPT !.todo = @ \ {e}]
<1>0. /\ depth \in Nat /\ wave \in Seq(Due) /\ scheduled \in [Subscribers -> Nat]
      /\ record \in [Subscribers -> Registration]
      /\ EdgesQueued /\ EdgesMatchReads
  BY DEF EdgeInv, StoreTypes, EdgeTypes, WorkTypes
<1>1. /\ StoresStand /\ EdgesUnchanged /\ depth' = depth /\ registered' = registered
      /\ Len(stack) > 0 /\ Top.kind = "notify" /\ stack' = Retop(f)
      /\ \/ cell' = cell /\ wave' = wave /\ scheduled' = scheduled
         \/ /\ StillSelected(e) /\ cell' = cell /\ wave' = wave
            /\ scheduled' = [scheduled EXCEPT ![e] = record[e].generation]
         \/ /\ StillSelected(e) /\ scheduled' = scheduled
            /\ cell' = [cell EXCEPT ![c] = Marked(c)]
            /\ wave' = IF OwesSettlement(c) THEN Defer(c) ELSE wave
  BY DEF DeliverEdge, Running, storeVars, subscriptionVars, StoresStand, EdgesUnchanged
<1>2. Top \in [kind : {"notify"}, store : Stores, generation : Nat,
               todo : SUBSET Subscribers, told : BOOLEAN]
  BY <1>1, TopLemma, FrameLemma
<1>3. f \in DueFrame
  BY <1>2 DEF DueFrame, PlainFrame
<1>. HIDE DEF f
<1>4. Reshaped
  BY <1>1, <1>3, TopLemma
<1>5. e \in Edges /\ e \in Subscribers /\ record[e].generation \in Nat
  BY <1>0, <1>2, EdgeLemma DEF Registration
<1>6. StillSelected(e) => e \in registered /\ cell[c].observers # {}
  BY <1>0, <1>2 DEF StillSelected, EdgesMatchReads
<1>. HIDE DEF e
<1>7. wave' \in Seq(Due)
  BY <1>0, <1>1, <1>6, DeferLemma
<1>8. scheduled' \in [Subscribers -> Nat] /\ EdgesQueued'
  <2>1. CASE scheduled' = scheduled
    BY <1>0, <1>1, <2>1 DEF EdgesQueued
  <2>2. CASE StillSelected(e) /\ scheduled' = [scheduled EXCEPT ![e] = record[e].generation]
    <3>1. scheduled' \in [Subscribers -> Nat]
      BY <1>0, <1>5, <2>2
    <3>2. \A i \in Edges : i # e => scheduled'[i] = scheduled[i]
      BY <1>0, <2>2, ComputedAssumption
    <3>. QED  BY <1>0, <1>1, <1>6, <2>2, <3>1, <3>2 DEF EdgesQueued
  <2>. QED  BY <1>1, <2>1, <2>2
<1>9. CASE cell' = cell
  BY <1>0, <1>1, <1>4, <1>7, <1>8, <1>9, WorkStands
<1>10. CASE cell' = [cell EXCEPT ![c] = Marked(c)]
  <2>1. Handled(c)
    BY <1>1, <1>10, SameFields
  <2>. QED  BY <1>0, <1>1, <1>4, <1>7, <1>8, <2>1, HandledStands
<1>. QED  BY <1>1, <1>9, <1>10

(***************************************************************************)
(* Observing changes frames where they stand: what an observation queued   *)
(* is killed in the drains, and a delivery skips the observer.             *)
(***************************************************************************)
LEMMA DeadLemma ==
  ASSUME NEW D, NEW q \in Seq(D), NEW c, NEW G,
         \A z \in D : z.comp # c => z \in G,
         \A z \in D : [z EXCEPT !.live = FALSE] \in G
  PROVE  Dead(q, c) \in Seq(G)
<1>1. Len(q) \in Nat /\ \A k \in 1..Len(q) : q[k] \in D
  BY LenProperties, ElementOfSeq
<1>2. Dead(q, c) \in [1..Len(q) -> G]
  BY <1>1 DEF Dead
<1>. QED  BY <1>1, <1>2, SeqDef

\* A stack that is another one frame by frame.
Renewed(old, new) ==
  /\ new \in [1..Len(old) -> WaveFrame]
  /\ \A k \in 1..Len(old) : /\ new[k].kind = old[k].kind
                            /\ old[k].kind \notin {"deliver", "drain"} => new[k] = old[k]
                            /\ old[k].kind = "deliver" => new[k] \in PlainFrame

LEMMA SkippedLemma ==
  ASSUME NEW G, G \subseteq WaveFrame, NEW q \in Seq(G), NEW c, NEW o,
         \A f \in WaveFrame : f.kind = "drain" \/ f \in G
  PROVE  Skipped(q, c, o) \in Seq(G) /\ Renewed(q, Skipped(q, c, o))
<1>1. Len(q) \in Nat /\ \A k \in 1..Len(q) : q[k] \in G /\ q[k] \in WaveFrame
  BY LenProperties, ElementOfSeq
<1>. DEFINE skip(f) == IF f.kind = "deliver" /\ f.comp = c THEN [f EXCEPT !.todo = @ \ {o}] ELSE f
<1>2. ASSUME NEW f \in WaveFrame
      PROVE  /\ skip(f) \in WaveFrame /\ skip(f).kind = f.kind
             /\ f.kind # "deliver" => skip(f) = f
             /\ f.kind = "deliver" => skip(f) \in PlainFrame
  <2>1. CASE f.kind = "deliver"
    <3>1. f \in [kind : {"deliver"}, comp : Computeds, todo : SUBSET Observers]
      BY <2>1 DEF WaveFrame, PlainFrame
    <3>2. skip(f) \in [kind : {"deliver"}, comp : Computeds, todo : SUBSET Observers]
      BY <3>1
    <3>. QED  BY <2>1, <3>2 DEF WaveFrame, PlainFrame
  <2>2. CASE f.kind # "deliver"
    BY <2>2
  <2>. QED  BY <2>1, <2>2
<1>3. Skipped(q, c, o) = [k \in 1..Len(q) |-> skip(q[k])]
  BY DEF Skipped
<1>. HIDE DEF skip
<1>4. \A f \in G : skip(f) \in G
  BY <1>2
<1>5. Skipped(q, c, o) \in [1..Len(q) -> G]
  BY <1>1, <1>3, <1>4
<1>6. Skipped(q, c, o) \in Seq(G)
  BY <1>1, <1>5, SeqDef
<1>7. Renewed(q, Skipped(q, c, o))
  BY <1>1, <1>2, <1>3 DEF Renewed
<1>. QED  BY <1>6, <1>7

\* What waits to be matched is not touched.
LEMMA RenewedUnmatched ==
  ASSUME stack \in Seq(WaveFrame), stack' \in Seq(WaveFrame), Renewed(stack, stack'),
         NEW s \in Stores, pending' = pending
  PROVE  Unmatched(s) \subseteq Unmatched(s)'
<1>1. Len(stack') = Len(stack)
  <2>1. DOMAIN stack' = 1..Len(stack) /\ DOMAIN stack' = 1..Len(stack')
    BY LenProperties DEF Renewed
  <2>2. Len(stack) \in Nat /\ Len(stack') \in Nat
    BY LenProperties
  <2>. QED  BY <2>1, <2>2
<1>2. \A k \in 1..Len(stack) : stack[k].kind = "flush" => stack'[k] = stack[k]
  BY DEF Renewed
<1>. QED  BY <1>1, <1>2 DEF Unmatched, Frames

LEMMA DeadInStackLemma ==
  ASSUME stack \in Seq(DueFrame), NEW c \in Computeds,
         \A z \in Due : z.comp # c => z \in Due',
         \A z \in Due : [z EXCEPT !.live = FALSE] \in Due'
  PROVE  /\ DeadInStack(c) \in Seq(DueFrame') /\ Len(DeadInStack(c)) = Len(stack)
         /\ Renewed(stack, DeadInStack(c))
<1>1. Len(stack) \in Nat /\ \A k \in 1..Len(stack) : stack[k] \in DueFrame
  BY LenProperties, ElementOfSeq
<1>. DEFINE killed(f) == IF f.kind = "drain" THEN [f EXCEPT !.todo = Dead(@, c)] ELSE f
<1>2. ASSUME NEW f \in DueFrame
      PROVE  /\ killed(f) \in DueFrame' /\ killed(f).kind = f.kind
             /\ f.kind # "drain" => killed(f) = f /\ f \in PlainFrame
  <2>1. CASE f.kind = "drain"
    <3>1. f \in [kind : {"drain"}, todo : Seq(Due)]
      BY <2>1, FrameLemma
    <3>2. Dead(f.todo, c) \in Seq(Due')
      BY <3>1, DeadLemma
    <3>3. /\ killed(f) \in [kind : {"drain"}, todo : Seq(Due')]
          /\ killed(f).kind = "drain"
      BY <3>1, <3>2
    <3>. HIDE DEF killed
    <3>. QED  BY <2>1, <3>3 DEF DueFrame
  <2>2. CASE f.kind # "drain"
    BY <2>2 DEF DueFrame, PlainFrame
  <2>. QED  BY <2>1, <2>2
<1>3. DeadInStack(c) = [k \in 1..Len(stack) |-> killed(stack[k])]
  BY DEF DeadInStack
<1>. HIDE DEF killed
<1>4. DeadInStack(c) \in [1..Len(stack) -> DueFrame']
  BY <1>1, <1>2, <1>3
<1>5. DeadInStack(c) \in Seq(DueFrame')
  BY <1>1, <1>4, SeqDef
<1>6. Len(DeadInStack(c)) = Len(stack)
  <2>1. DOMAIN DeadInStack(c) = 1..Len(stack) /\ Len(DeadInStack(c)) \in Nat
        /\ DOMAIN DeadInStack(c) = 1..Len(DeadInStack(c))
    BY <1>4, <1>5, LenProperties
  <2>. QED  BY <1>1, <2>1
<1>7. DueFrame' \subseteq WaveFrame
  <2>1. Due' \subseteq Settlement
    BY DEF Due
  <2>2. Seq(Due') \subseteq Seq(Settlement)
    BY <2>1, SeqMonotonic
  <2>. QED  BY <2>2 DEF DueFrame, WaveFrame
<1>8. \A k \in 1..Len(stack) : /\ DeadInStack(c)[k] \in WaveFrame
                               /\ DeadInStack(c)[k].kind = stack[k].kind
                               /\ stack[k].kind # "drain" => DeadInStack(c)[k] = stack[k]
                               /\ stack[k].kind = "deliver" => DeadInStack(c)[k] \in PlainFrame
  BY <1>1, <1>2, <1>3, <1>7
<1>9. Renewed(stack, DeadInStack(c))
  BY <1>3, <1>8 DEF Renewed
<1>. QED  BY <1>5, <1>6, <1>9

LEMMA RenewedTwice ==
  ASSUME NEW p, NEW q, NEW r, Len(q) = Len(p), Renewed(p, q), Renewed(q, r)
  PROVE  Renewed(p, r)
BY DEF Renewed

LEMMA ObserveStands ==
  ASSUME EdgeInv, NEW c \in Computeds, NEW o \in Observers, Observe(c, o)
  PROVE  Stands /\ (stack' = stack \/ Renewed(stack, stack'))
<1>0. /\ StoreTypes /\ EdgeTypes /\ WorkTypes /\ depth \in Nat
      /\ scheduled \in [Subscribers -> Nat] /\ cell \in [Computeds -> Cell]
  BY DEF EdgeInv, StoreTypes, EdgeTypes
<1>1. /\ StoresStand /\ wave' = wave /\ depth' = depth /\ scheduled' = Retracted(scheduled)
      /\ stack' = stack \/ stack' = Skipped(stack, c, o)
  BY DEF Observe, storeVars, StoresStand
<1>2. scheduled' \in [Subscribers -> Nat] /\ EdgesQueued'
  BY <1>0, <1>1, RetractedLemma
<1>3. Handled(c)
  BY ObserveHandles
<1>4. EdgeTypes' /\ EdgesMatchReads' /\ EdgesGrow
  BY <1>1, <1>2, <1>3, EdgesLemma, HandledGrow DEF StoresStand
<1>5. stack \in Seq(DueFrame) /\ DueFrame \subseteq WaveFrame
      /\ \A f \in WaveFrame : f.kind = "drain" \/ f \in DueFrame
  BY <1>0, DueLemma DEF WorkTypes, WaveFrame, DueFrame
<1>6. stack' \in Seq(DueFrame) /\ (stack' = stack \/ Renewed(stack, stack'))
  BY <1>1, <1>5, SkippedLemma
<1>7. WorkTypes'
  <2>1. Seq(Due) \subseteq Seq(Due') /\ DueFrame \subseteq DueFrame'
    BY <1>0, <1>3, DueKept
  <2>2. stack' \in Seq(DueFrame')
    BY <1>6, <2>1, SeqMonotonic
  <2>. QED  BY <1>0, <1>1, <2>1, <2>2 DEF WorkTypes
<1>8. \A s \in Stores : Unmatched(s) \subseteq Unmatched(s)'
  <2>1. CASE stack' = stack
    BY <1>1, <2>1 DEF Unmatched, Frames, StoresStand
  <2>2. CASE Renewed(stack, stack')
    <3>1. stack \in Seq(WaveFrame) /\ stack' \in Seq(WaveFrame)
      BY <1>5, <1>6, SeqMonotonic
    <3>. QED  BY <1>1, <2>2, <3>1, RenewedUnmatched DEF StoresStand
  <2>. QED  BY <1>6, <2>1, <2>2
<1>9. StoreTypes'
  BY <1>0, <1>1, StoreTypesStand
<1>. QED  BY <1>1, <1>2, <1>3, <1>4, <1>6, <1>7, <1>8, <1>9 DEF Stands, EdgeInv

LEMMA UnobserveStands ==
  ASSUME EdgeInv, NEW c \in Computeds, NEW o \in Observers, Unobserve(c, o)
  PROVE  Stands /\ Renewed(stack, stack')
<1>0. /\ StoreTypes /\ EdgeTypes /\ WorkTypes /\ depth \in Nat
      /\ scheduled \in [Subscribers -> Nat] /\ cell \in [Computeds -> Cell]
      /\ stack \in Seq(DueFrame) /\ wave \in Seq(Due)
  BY DEF EdgeInv, StoreTypes, EdgeTypes, WorkTypes
<1>1. /\ StoresStand /\ depth' = depth /\ scheduled' = Retracted(scheduled)
      /\ IF cell[c].observers = {o}
           THEN stack' = Skipped(DeadInStack(c), c, o) /\ wave' = Dead(wave, c)
           ELSE stack' = Skipped(stack, c, o) /\ wave' = wave
  BY DEF Unobserve, storeVars, StoresStand
<1>2. scheduled' \in [Subscribers -> Nat] /\ EdgesQueued'
  BY <1>0, <1>1, RetractedLemma
<1>3. IF cell[c].observers = {o} THEN Ended(c) ELSE Handled(c)
  BY UnobserveHandles
<1>4. EdgeTypes' /\ EdgesMatchReads' /\ EdgesGrow
  BY <1>1, <1>2, <1>3, EdgesLemma, HandledGrow DEF StoresStand
<1>5. StoreTypes'
  BY <1>0, <1>1, StoreTypesStand
<1>6. /\ DueFrame \subseteq WaveFrame /\ DueFrame' \subseteq WaveFrame
      /\ \A f \in WaveFrame : f.kind = "drain" \/ (f \in DueFrame /\ f \in DueFrame')
  <2>1. Due' \subseteq Settlement
    BY DEF Due
  <2>2. Seq(Due') \subseteq Seq(Settlement)
    BY <2>1, SeqMonotonic
  <2>. QED  BY <2>2, DueLemma DEF WaveFrame, DueFrame
<1>7. WorkTypes' /\ Renewed(stack, stack')
  <2>1. CASE cell[c].observers = {o}
    <3>1. \A z \in Computeds \ {c} : cell'[z] = cell[z]
      BY <1>0, <1>3, <2>1 DEF Ended, Becomes
    <3>2. \A z \in Due : z.comp # c => z \in Due'
      BY <3>1 DEF Due, Settlement
    <3>3. \A z \in Due : [z EXCEPT !.live = FALSE] \in Due'
      BY DEF Due, Settlement
    <3>4. Dead(wave, c) \in Seq(Due')
      BY <1>0, <3>2, <3>3, DeadLemma
    <3>5. /\ DeadInStack(c) \in Seq(DueFrame') /\ Len(DeadInStack(c)) = Len(stack)
          /\ Renewed(stack, DeadInStack(c))
      BY <1>0, <3>2, <3>3, DeadInStackLemma
    <3>6. /\ stack' \in Seq(DueFrame')
          /\ Renewed(DeadInStack(c), stack')
      BY <1>1, <1>6, <2>1, <3>5, SkippedLemma
    <3>7. Renewed(stack, stack')
      BY <3>5, <3>6, RenewedTwice
    <3>. QED  BY <1>1, <2>1, <3>4, <3>6, <3>7 DEF WorkTypes
  <2>2. CASE cell[c].observers # {o}
    <3>1. Seq(Due) \subseteq Seq(Due') /\ DueFrame \subseteq DueFrame'
      BY <1>0, <1>3, <2>2, DueKept
    <3>2. stack' \in Seq(DueFrame) /\ Renewed(stack, stack')
      BY <1>0, <1>1, <1>6, <2>2, SkippedLemma
    <3>3. stack' \in Seq(DueFrame')
      BY <3>1, <3>2, SeqMonotonic
    <3>. QED  BY <1>0, <1>1, <2>2, <3>1, <3>2, <3>3 DEF WorkTypes
  <2>. QED  BY <2>1, <2>2
<1>8. \A s \in Stores : Unmatched(s) \subseteq Unmatched(s)'
  <2>1. stack \in Seq(WaveFrame)
    BY <1>0, <1>6, SeqMonotonic
  <2>2. stack' \in Seq(WaveFrame)
    <3>1. stack' \in Seq(DueFrame')
      BY <1>7 DEF WorkTypes
    <3>. QED  BY <1>6, <3>1, SeqMonotonic
  <2>. QED  BY <1>1, <1>7, <2>1, <2>2, RenewedUnmatched DEF StoresStand
<1>. QED  BY <1>1, <1>2, <1>3, <1>4, <1>5, <1>7, <1>8 DEF Stands, EdgeInv

-----------------------------------------------------------------------------
(***************************************************************************)
(* The steps that move the stores.                                         *)
(***************************************************************************)
\* A pass over store s starts on top of frames, on account of the writes W.
Notifies(s, W, at, frames) ==
  /\ \E f \in DueFrame : /\ f.kind = "notify" /\ f.store = s /\ f.generation = counter[s]
                         /\ f.todo = Match(s, W) /\ stack' = Append(frames, f)
  /\ notified' \in [Stores -> 0..MaxVersion]
  /\ notified' = [notified EXCEPT ![s] = IF @ < at THEN at ELSE @]
  /\ record' \in [Subscribers -> Registration]
  /\ \A i \in Subscribers :
       /\ record'[i].reads = record[i].reads
       /\ record'[i].growth = record[i].growth
       /\ record'[i].generation = record[i].generation
       /\ record'[i].matched = IF i \in Match(s, W) THEN at ELSE record[i].matched

LEMMA NotifyWritesLemma ==
  ASSUME StoreTypes, EdgeTypes, NEW s \in Stores, NEW W, NEW at \in 0..MaxVersion, NEW frames,
         NotifyWrites(s, W, at, frames)
  PROVE  Notifies(s, W, at, frames)
<1>1. ~disposed[s] /\ counter[s] \in Nat /\ Match(s, W) \in SUBSET Subscribers
      /\ notified[s] \in 0..MaxVersion
  BY DEF StoreTypes, EdgeTypes, Match
<1>. DEFINE f == [kind |-> "notify", store |-> s, generation |-> counter[s],
                  todo |-> Match(s, W), told |-> s \notin Observed]
<1>2. /\ stack' = Append(frames, f)
      /\ notified' = [notified EXCEPT ![s] = IF @ < at THEN at ELSE @]
      /\ record' = [i \in Subscribers |->
                      IF i \in Match(s, W) THEN [record[i] EXCEPT !.matched = at] ELSE record[i]]
  BY <1>1 DEF NotifyWrites
<1>3. /\ f \in DueFrame /\ f.kind = "notify" /\ f.store = s /\ f.generation = counter[s]
      /\ f.todo = Match(s, W)
  BY <1>1 DEF DueFrame, PlainFrame
<1>4. notified' \in [Stores -> 0..MaxVersion]
  BY <1>1, <1>2 DEF StoreTypes
<1>5. ASSUME NEW i \in Subscribers
      PROVE  LET r == IF i \in Match(s, W) THEN [record[i] EXCEPT !.matched = at] ELSE record[i] IN
             /\ r \in Registration
             /\ r.reads = record[i].reads /\ r.growth = record[i].growth
             /\ r.generation = record[i].generation
             /\ r.matched = IF i \in Match(s, W) THEN at ELSE record[i].matched
  <2>1. record[i] \in Registration
    BY DEF EdgeTypes
  <2>. QED  BY <2>1 DEF Registration
<1>. HIDE DEF f
<1>6. record' \in [Subscribers -> Registration]
  BY <1>2, <1>5
<1>. QED  BY <1>2, <1>3, <1>4, <1>5, <1>6 DEF Notifies

\* The edges and the values they belong to are not touched.
EdgesRest ==
  /\ UNCHANGED <<counter, registered, scheduled, wave>>
  /\ record' \in [Subscribers -> Registration]
  /\ \A i \in Subscribers : record'[i].reads = record[i].reads
  /\ cell' \in [Computeds -> Cell]
  /\ \A c \in Computeds : /\ cell'[c].versions = cell[c].versions
                          /\ cell'[c].observers = cell[c].observers
  /\ \A s \in Stores : version[s] <= version'[s]

LEMMA RestLemma ==
  ASSUME EdgeInv, EdgesRest, StoreTypes', stack' \in Seq(DueFrame)
  PROVE  EdgeInv'
<1>0. StoreTypes /\ EdgeTypes /\ WorkTypes /\ EdgesQueued /\ EdgesMatchReads
  BY DEF EdgeInv
<1>1. \A c \in Computeds, s \in Stores : cell'[c].versions[s].at <= version'[s]
  <2>1. SUFFICES ASSUME NEW c \in Computeds, NEW s \in Stores
                 PROVE  cell'[c].versions[s].at <= version'[s]
    OBVIOUS
  <2>2. cell[c].versions[s].at <= version[s] /\ version[s] <= version'[s]
        /\ cell'[c].versions = cell[c].versions
    BY <1>0 DEF EdgeTypes, EdgesRest
  <2>3. cell[c].versions[s].at \in Nat /\ version[s] \in Nat /\ version'[s] \in Nat
    <3>1. MaxVersion \in Nat /\ cell[c] \in Cell
      BY <1>0, CarburetorAssumption DEF EdgeTypes
    <3>. QED  BY <1>0, <3>1 DEF Cell, Leaf, StoreTypes
  <2>. QED  BY <2>2, <2>3
<1>2. EdgeTypes'
  BY <1>0, <1>1 DEF EdgeTypes, EdgesRest
<1>3. Due' = Due
  BY DEF Due, Settlement, EdgesRest
<1>4. WorkTypes'
  BY <1>0, <1>3 DEF WorkTypes, DueFrame, EdgesRest
<1>5. EdgesQueued'
  BY <1>0 DEF EdgesQueued, EdgesRest
<1>6. EdgesMatchReads'
  <2>1. \A c \in Computeds, s \in Stores : <<c, s>> \in Subscribers
    BY EdgeLemma
  <2>. QED  BY <1>0, <2>1 DEF EdgesMatchReads, EdgesRest
<1>. QED  BY <1>2, <1>4, <1>5, <1>6 DEF EdgeInv

LEMMA WriteLemma ==
  ASSUME EdgeInv, NEW s \in Stores, NEW W \in WriteSets, Write(s, W)
  PROVE  /\ EdgeInv'
         /\ UNCHANGED <<version, notified, writeLog, registered, record, pending, stack, cell>>
         /\ writes' = [writes EXCEPT ![s] = @ \cup W]
         /\ data' = [data EXCEPT ![s] = [p \in Paths |-> IF p \in W THEN ~@[p] ELSE @[p]]]
<1>0. StoreTypes /\ EdgeTypes /\ WorkTypes
  BY DEF EdgeInv
<1>1. /\ UNCHANGED <<version, notified, disposed, writeLog, counter, registered, record,
                     scheduled, depth, pending, stack, cell, wave>>
      /\ writes' = [writes EXCEPT ![s] = @ \cup W]
      /\ data' = [data EXCEPT ![s] = [p \in Paths |-> IF p \in W THEN ~@[p] ELSE @[p]]]
  BY DEF Write, DraftWrite, subscriptionVars
<1>2. W \subseteq AllPaths
  BY CarburetorAssumption
<1>3. writes' \in [Stores -> SUBSET AllPaths]
  BY <1>0, <1>1, <1>2 DEF StoreTypes
<1>4. data' \in [Stores -> [Paths -> BOOLEAN]]
  BY <1>0, <1>1 DEF StoreTypes
<1>5. StoreTypes'
  BY <1>0, <1>1, <1>3, <1>4 DEF StoreTypes
<1>6. EdgesRest
  <2>1. \A t \in Stores : version[t] \in Nat
    BY <1>0, CarburetorAssumption DEF StoreTypes
  <2>. QED  BY <1>0, <1>1, <2>1 DEF EdgesRest, EdgeTypes
<1>. QED  BY <1>0, <1>1, <1>5, <1>6, RestLemma DEF WorkTypes

LEMMA TakeLemma ==
  ASSUME EdgeInv, TakeBatch, UNCHANGED computedVars
  PROVE  /\ EdgeInv'
         /\ UNCHANGED <<version, notified, writes, writeLog, data, registered, record, cell>>
         /\ pending' = NoBatch
         /\ \E f \in DueFrame : /\ f.kind = "flush" /\ f.batch = pending
                                /\ stack' = Retop(f)
         /\ Len(stack) > 0 /\ Top.kind = "flush" /\ Top.batch = NoBatch
<1>. DEFINE f == [Top EXCEPT !.batch = pending]
<1>0. StoreTypes /\ EdgeTypes /\ WorkTypes
  BY DEF EdgeInv
<1>1. /\ UNCHANGED <<version, notified, disposed, writes, writeLog, data, counter, registered,
                     record, scheduled, depth, cell, wave>>
      /\ pending' = NoBatch /\ stack' = Retop(f)
      /\ Len(stack) > 0 /\ Top.kind = "flush" /\ Top.batch = NoBatch
  BY DEF TakeBatch, Running, storeVars, subscriptionVars, computedVars
<1>2. Top \in [kind : {"flush"}, batch : [Stores -> SUBSET AllPaths]]
  BY <1>1, TopLemma, FrameLemma
<1>3. f \in DueFrame /\ f.kind = "flush" /\ f.batch = pending
  BY <1>0, <1>2 DEF DueFrame, PlainFrame, StoreTypes
<1>. HIDE DEF f
<1>4. stack' \in Seq(DueFrame)
  BY <1>0, <1>1, <1>3, StackLemma, PushSeq DEF Retop, WorkTypes
<1>5. StoreTypes'
  BY <1>0, <1>1 DEF StoreTypes, NoBatch
<1>6. EdgesRest
  <2>1. \A t \in Stores : version[t] \in Nat
    BY <1>0, CarburetorAssumption DEF StoreTypes
  <2>. QED  BY <1>0, <1>1, <2>1 DEF EdgesRest, EdgeTypes
<1>. QED  BY <1>1, <1>3, <1>4, <1>5, <1>6, RestLemma

LEMMA NotifyBatchedLemma ==
  ASSUME EdgeInv, NEW s \in Stores, NotifyBatched(s), UNCHANGED computedVars
  PROVE  /\ EdgeInv'
         /\ UNCHANGED <<version, writes, writeLog, data, registered, cell, pending, depth>>
         /\ Len(stack) > 0 /\ Top.kind = "flush" /\ Top.batch[s] # {}
         /\ \E f \in DueFrame : /\ f.kind = "flush" /\ f.batch = [Top.batch EXCEPT ![s] = {}]
                                /\ Notifies(s, Top.batch[s], version[s], Retop(f))
<1>. DEFINE f == [Top EXCEPT !.batch[s] = {}]
<1>0. StoreTypes /\ EdgeTypes /\ WorkTypes
  BY DEF EdgeInv
<1>1. /\ UNCHANGED <<version, disposed, writes, writeLog, data, counter, registered,
                     scheduled, depth, pending, cell, wave>>
      /\ Len(stack) > 0 /\ Top.kind = "flush" /\ Top.batch[s] # {}
      /\ NotifyWrites(s, Top.batch[s], version[s], Retop(f))
  BY DEF NotifyBatched, Running, computedVars
<1>2. Top \in [kind : {"flush"}, batch : [Stores -> SUBSET AllPaths]]
  BY <1>1, TopLemma, FrameLemma
<1>3. f \in DueFrame /\ f.kind = "flush" /\ f.batch = [Top.batch EXCEPT ![s] = {}]
  BY <1>2 DEF DueFrame, PlainFrame
<1>. HIDE DEF f
<1>4. version[s] \in 0..MaxVersion
  BY <1>0 DEF StoreTypes
<1>5. Notifies(s, Top.batch[s], version[s], Retop(f))
  BY <1>0, <1>1, <1>4, NotifyWritesLemma
<1>6. stack' \in Seq(DueFrame)
  BY <1>0, <1>1, <1>3, <1>5, StackLemma, PushSeq DEF Retop, WorkTypes, Notifies
<1>7. StoreTypes'
  BY <1>0, <1>1, <1>5 DEF StoreTypes, Notifies
<1>8. EdgesRest
  <2>1. \A t \in Stores : version[t] \in Nat
    BY <1>0, CarburetorAssumption DEF StoreTypes
  <2>. QED  BY <1>0, <1>1, <1>5, <2>1 DEF EdgesRest, EdgeTypes, Notifies
<1>. QED  BY <1>1, <1>3, <1>5, <1>6, <1>7, <1>8, RestLemma

\* A publication of store s: into the open transaction, or to the subscribers.
Published(s) ==
  /\ version[s] < MaxVersion
  /\ version' = [version EXCEPT ![s] = @ + 1]
  /\ writes' = [writes EXCEPT ![s] = {}]
  /\ writeLog' = [writeLog EXCEPT ![s][version[s] + 1] = Closed(s)]
  /\ cell' = [c \in Computeds |-> [cell[c] EXCEPT !.checked = FALSE, !.proven = @ \ {s}]]
  /\ registered' = registered
  /\ \/ /\ depth > 0
        /\ pending' = [pending EXCEPT ![s] = @ \cup Closed(s)]
        /\ UNCHANGED <<stack, notified, record>>
     \/ /\ depth = 0
        /\ pending' = pending
        /\ Notifies(s, Closed(s), version[s] + 1, stack)

LEMMA PublishLemma ==
  ASSUME EdgeInv, NEW s \in Stores, Publish(s)
  PROVE  /\ EdgeInv' /\ data' = data /\ depth' = depth /\ Running("call")
         /\ \/ UNCHANGED <<version, notified, writes, writeLog, pending, registered, record,
                           stack, cell>>
            \/ Published(s)
<1>0. StoreTypes /\ EdgeTypes /\ WorkTypes /\ MaxVersion \in Nat
  BY CarburetorAssumption DEF EdgeInv
<1>1. /\ UNCHANGED <<disposed, counter, registered, scheduled, depth, data, wave>>
      /\ Emit(s, stack) /\ Running("call")
  BY DEF Publish, EmitUpdate
<1>2. /\ version[s] \in 0..MaxVersion /\ depth \in Nat /\ writes[s] \in SUBSET AllPaths
      /\ Closed(s) \in SUBSET AllPaths /\ stack \in Seq(DueFrame)
  BY <1>0 DEF StoreTypes, WorkTypes, Closed, AllPaths
<1>3. CASE DraftUnchanged(s)
  <2>1. /\ UNCHANGED <<version, writeLog, pending, notified, record, stack>>
        /\ writes' = [writes EXCEPT ![s] = {}] /\ writes[s] = {}
    BY <1>1, <1>3 DEF Emit, CloseDraft, DraftUnchanged
  <2>2. writes' = writes /\ cell' = cell
    BY <1>0, <2>1 DEF StoreTypes, Publish
  <2>3. StoreTypes'
    BY <1>0, <1>1, <2>1, <2>2 DEF StoreTypes
  <2>4. EdgesRest
    <3>1. \A t \in Stores : version[t] \in Nat
      BY <1>0 DEF StoreTypes
    <3>. QED  BY <1>0, <1>1, <2>1, <2>2, <3>1 DEF EdgesRest, EdgeTypes
  <2>. QED  BY <1>1, <1>2, <2>1, <2>2, <2>3, <2>4, RestLemma
<1>4. CASE ~DraftUnchanged(s)
  <2>1. /\ version[s] < MaxVersion
        /\ version' = [version EXCEPT ![s] = @ + 1]
        /\ writes' = [writes EXCEPT ![s] = {}]
        /\ writeLog' = [writeLog EXCEPT ![s][version[s] + 1] = Closed(s)]
        /\ IF IsActive
             THEN /\ pending' = [pending EXCEPT ![s] = @ \cup Closed(s)]
                  /\ stack' = stack
                  /\ UNCHANGED <<notified, record>>
             ELSE /\ NotifyWrites(s, Closed(s), version[s] + 1, stack)
                  /\ UNCHANGED pending
    BY <1>1, <1>4 DEF Emit, CloseDraft
  <2>2. version[s] + 1 \in 0..MaxVersion /\ version[s] \in Nat
    BY <1>0, <1>2, <2>1
  <2>3. version' # version
    BY <1>0, <2>1, <2>2 DEF StoreTypes
  <2>4. cell' = [c \in Computeds |-> [cell[c] EXCEPT !.checked = FALSE, !.proven = @ \ {s}]]
    BY <2>3 DEF Publish
  <2>5. \/ /\ depth > 0
           /\ pending' = [pending EXCEPT ![s] = @ \cup Closed(s)]
           /\ UNCHANGED <<stack, notified, record>>
        \/ /\ depth = 0
           /\ pending' = pending
           /\ Notifies(s, Closed(s), version[s] + 1, stack)
    <3>1. CASE IsActive
      BY <2>1, <3>1 DEF IsActive
    <3>2. CASE ~IsActive
      <4>1. NotifyWrites(s, Closed(s), version[s] + 1, stack) /\ pending' = pending /\ depth = 0
        BY <1>2, <2>1, <3>2 DEF IsActive
      <4>2. Notifies(s, Closed(s), version[s] + 1, stack)
        BY <1>0, <2>2, <4>1, NotifyWritesLemma
      <4>. QED  BY <4>1, <4>2
    <3>. QED  BY <3>1, <3>2
  <2>6. Published(s)
    BY <1>1, <2>1, <2>4, <2>5 DEF Published
  <2>7. version' \in [Stores -> 0..MaxVersion] /\ \A t \in Stores : version[t] <= version'[t]
    BY <1>0, <2>1, <2>2 DEF StoreTypes
  <2>8. /\ writes' \in [Stores -> SUBSET AllPaths]
        /\ writeLog' \in [Stores -> [1..MaxVersion -> SUBSET AllPaths]]
        /\ pending' \in [Stores -> SUBSET AllPaths]
    BY <1>0, <1>2, <2>1 DEF StoreTypes
  <2>9. /\ notified' \in [Stores -> 0..MaxVersion]
        /\ record' \in [Subscribers -> Registration]
        /\ \A i \in Subscribers : record'[i].reads = record[i].reads
        /\ stack' \in Seq(DueFrame)
    <3>1. CASE UNCHANGED <<stack, notified, record>>
      BY <1>0, <1>2, <3>1 DEF StoreTypes, EdgeTypes
    <3>2. CASE Notifies(s, Closed(s), version[s] + 1, stack)
      <4>1. \E f \in DueFrame : stack' = Append(stack, f)
        BY <3>2 DEF Notifies
      <4>2. stack' \in Seq(DueFrame)
        BY <1>2, <4>1, PushSeq
      <4>. QED  BY <3>2, <4>2 DEF Notifies
    <3>. QED  BY <2>5, <3>1, <3>2
  <2>10. StoreTypes'
    BY <1>0, <1>1, <2>7, <2>8, <2>9 DEF StoreTypes
  <2>11. /\ cell' \in [Computeds -> Cell]
         /\ \A c \in Computeds : /\ cell'[c].versions = cell[c].versions
                                 /\ cell'[c].observers = cell[c].observers
    <3>1. \A c \in Computeds :
            LET k == [cell[c] EXCEPT !.checked = FALSE, !.proven = @ \ {s}] IN
            k \in Cell /\ k.versions = cell[c].versions /\ k.observers = cell[c].observers
      BY <1>0 DEF EdgeTypes, Cell
    <3>. QED  BY <2>4, <3>1
  <2>12. EdgesRest
    BY <1>1, <2>7, <2>9, <2>11 DEF EdgesRest
  <2>. QED  BY <1>1, <2>6, <2>9, <2>10, <2>12, RestLemma
<1>. QED  BY <1>3, <1>4

\* One step of the proof per action.
LEMMA NextLemma ==
  ASSUME EdgeInv, [ComputedNext]_allVars
  PROVE  \/ Stands
         \/ \E s \in Stores : Publish(s) \/ \E W \in WriteSets : Write(s, W)
         \/ TakeBatch /\ UNCHANGED computedVars
         \/ \E s \in Stores : NotifyBatched(s) /\ UNCHANGED computedVars
<1>1. CASE UNCHANGED allVars
  <2>1. /\ UNCHANGED computedVars /\ UNCHANGED vars
    BY <1>1 DEF allVars
  <2>2. /\ StoresStand /\ EdgesUnchanged /\ cell' = cell /\ wave' = wave /\ depth' = depth
        /\ scheduled' = scheduled /\ registered' = registered /\ stack' = stack
    BY <2>1 DEF vars, storeVars, subscriptionVars, computedVars, StoresStand, EdgesUnchanged
  <2>3. /\ depth' \in Nat /\ wave' \in Seq(Due) /\ scheduled' \in [Subscribers -> Nat]
        /\ EdgesQueued' /\ Reshaped
    BY <2>2 DEF EdgeInv, StoreTypes, EdgeTypes, WorkTypes, EdgesQueued, Reshaped
  <2>. QED  BY <2>2, <2>3, WorkStands
<1>2. CASE StoreStep
  <2>1. UNCHANGED computedVars
    BY <1>2 DEF StoreStep
  <2>2. CASE BeginTransaction \/ EndTransaction \/ Return \/ StartTask
    BY <2>1, <2>2, CallsStand
  <2>3. ASSUME NEW i \in Plain, Deliver(i) PROVE Stands
    BY <2>1, <2>3, DeliverStands
  <2>4. ASSUME NEW i \in Plain, NEW R \in ReadSets, Subscribe(i, R) PROVE Stands
    BY <2>1, <2>4, SubscribeStands
  <2>. QED  BY <1>2, <2>1, <2>2, <2>3, <2>4 DEF StoreStep
<1>3. ASSUME NEW c \in Computeds, Get(c) PROVE Stands
  BY <1>3, GetStands
<1>4. ASSUME NEW c \in Computeds, NEW o \in Observers, Observe(c, o) PROVE Stands
  BY <1>4, ObserveStands
<1>5. ASSUME NEW c \in Computeds, NEW o \in Observers, Unobserve(c, o) PROVE Stands
  BY <1>5, UnobserveStands
<1>6. ASSUME NEW c \in Computeds, DeliverEdge(c) PROVE Stands
  BY <1>6, DeliverEdgeStands
<1>7. ASSUME NEW c \in Computeds, NEW s \in Stores, RunEdge(c, s) PROVE Stands
  BY <1>7, RunEdgeStands
<1>8. CASE EndPass \/ EndDrain \/ EndDeliver \/ \E o \in Observers : WakeObserver(o)
  BY <1>8, WavesStand
<1>9. CASE SettleNext
  BY <1>9, SettleNextStands
<1>. QED  BY <1>1, <1>2, <1>3, <1>4, <1>5, <1>6, <1>7, <1>8, <1>9 DEF ComputedNext

LEMMA InitEdges == ComputedInit => EdgeInv
<1>. SUFFICES ASSUME ComputedInit PROVE EdgeInv
  OBVIOUS
<1>0. MaxVersion \in Nat
  BY CarburetorAssumption
<1>1. StoreTypes
  BY <1>0 DEF ComputedInit, Init, StoreTypes, NoBatch
<1>2. \A c \in Computeds : cell[c] = Untouched
  BY DEF ComputedInit
<1>3. Untouched \in Cell
  BY <1>0 DEF Untouched, Unannounced, NoLeaf, Cell, Leaf
<1>4. EdgeTypes
  BY <1>0, <1>2, <1>3 DEF ComputedInit, Init, EdgeTypes, Registration, NoRecord, Untouched, NoLeaf
<1>5. WorkTypes
  BY EmptySeq DEF ComputedInit, Init, WorkTypes
<1>6. EdgesQueued
  BY ComputedAssumption DEF ComputedInit, Init, EdgesQueued
<1>7. EdgesMatchReads
  BY <1>2 DEF ComputedInit, Init, EdgesMatchReads, Untouched
<1>. QED  BY <1>1, <1>4, <1>5, <1>6, <1>7 DEF EdgeInv

LEMMA NextEdges == EdgeInv /\ [ComputedNext]_allVars => EdgeInv'
BY NextLemma, PublishLemma, WriteLemma, TakeLemma, NotifyBatchedLemma DEF Stands

(***************************************************************************)
(* An observed computed holds the edges its value depends on and no other, *)
(* and without observers it holds none: through every get(), settlement,   *)
(* re-registration, failing body, and call that waits in a scheduler, and  *)
(* for any number of stores.                                               *)
(***************************************************************************)
THEOREM EdgesAreReads == ComputedSpec => []EdgesMatchReads
<1>1. EdgeInv => EdgesMatchReads
  BY DEF EdgeInv
<1>. QED  BY <1>1, InitEdges, NextEdges, PTL DEF ComputedSpec

-----------------------------------------------------------------------------
(***************************************************************************)
(* The wave.  A frame that can drain it is on the stack.                   *)
(***************************************************************************)
Draining == {"notify", "flush", "drain"}
CanDrain(q) == \E k \in 1..Len(q) : q[k].kind \in Draining

LEMMA CanDrainPush ==
  ASSUME NEW G, NEW q \in Seq(G), NEW f \in G
  PROVE  CanDrain(Append(q, f)) <=> CanDrain(q) \/ f.kind \in Draining
<1>. DEFINE r == Append(q, f)
<1>1. /\ Len(q) \in Nat /\ Len(r) = Len(q) + 1
      /\ \A k \in 1..Len(q) : r[k] = q[k]
      /\ r[Len(q) + 1] = f
  OBVIOUS
<1>. HIDE DEF r
<1>2. \A k \in 1..Len(r) : k \in 1..Len(q) \/ k = Len(q) + 1
  BY <1>1
<1>3. \A k \in 1..Len(q) : k \in 1..Len(r)
  BY <1>1
<1>4. Len(q) + 1 \in 1..Len(r)
  BY <1>1
<1>5. CanDrain(r) <=> CanDrain(q) \/ f.kind \in Draining
  BY <1>1, <1>2, <1>3, <1>4 DEF CanDrain
<1>. QED  BY <1>5 DEF r

\* What is on the stack after a step that reshapes it.
LEMMA CanDrainTop ==
  ASSUME EdgeInv, Len(stack) > 0
  PROVE  /\ CanDrain(stack) <=> CanDrain(Below) \/ Top.kind \in Draining
         /\ \A f \in DueFrame : CanDrain(Retop(f)) <=> CanDrain(Below) \/ f.kind \in Draining
         /\ \A f, g \in DueFrame : CanDrain(Append(Retop(f), g)) <=>
              CanDrain(Below) \/ f.kind \in Draining \/ g.kind \in Draining
<1>1. Below \in Seq(DueFrame) /\ Top \in DueFrame /\ stack = Append(Below, Top)
  BY StackLemma DEF EdgeInv, WorkTypes
<1>2. \A f \in DueFrame : Retop(f) \in Seq(DueFrame)
  BY <1>1, PushSeq DEF Retop
<1>3. \A f \in DueFrame : CanDrain(Retop(f)) <=> CanDrain(Below) \/ f.kind \in Draining
  BY <1>1, CanDrainPush DEF Retop
<1>. QED  BY <1>1, <1>2, <1>3, CanDrainPush

\* A frame worked on is still of its kind.
LEMMA WorkedOn ==
  ASSUME EdgeInv, Len(stack) > 0
  PROVE  /\ Top.kind \in {"notify", "deliver"} =>
              \A x : [Top EXCEPT !.todo = @ \ {x}] \in DueFrame
                     /\ [Top EXCEPT !.todo = @ \ {x}].kind = Top.kind
         /\ Top.kind = "drain" =>
              \A q \in Seq(Due) : [Top EXCEPT !.todo = q] \in DueFrame
                                  /\ [Top EXCEPT !.todo = q].kind = "drain"
         /\ Top.kind = "call" =>
              \A n \in Nat : [Top EXCEPT !.opened = n] \in DueFrame
                             /\ [Top EXCEPT !.opened = n].kind = "call"
<1>1. /\ Top \in DueFrame
      /\ Top.kind = "notify" =>
           Top \in [kind : {"notify"}, store : Stores, generation : Nat,
                    todo : SUBSET Subscribers, told : BOOLEAN]
      /\ Top.kind = "deliver" =>
           Top \in [kind : {"deliver"}, comp : Computeds, todo : SUBSET Observers]
      /\ Top.kind = "drain" => Top \in [kind : {"drain"}, todo : Seq(Due)]
      /\ Top.kind = "call" => Top \in [kind : {"call"}, who : Subscribers \cup {NoOne}, opened : Nat]
  BY TopLemma, FrameLemma
<1>2. CASE Top.kind = "notify"
  BY <1>1, <1>2 DEF DueFrame, PlainFrame
<1>3. CASE Top.kind = "deliver"
  BY <1>1, <1>3 DEF DueFrame, PlainFrame
<1>4. CASE Top.kind = "drain"
  BY <1>1, <1>4 DEF DueFrame
<1>5. CASE Top.kind = "call"
  BY <1>1, <1>5 DEF DueFrame, PlainFrame
<1>. QED  BY <1>2, <1>3, <1>4, <1>5

LEMMA CanDrainRenewed ==
  ASSUME NEW p, NEW q, NEW G, p \in Seq(G), q \in Seq(G), Renewed(p, q)
  PROVE  CanDrain(p) <=> CanDrain(q)
<1>1. Len(p) \in Nat /\ Len(q) \in Nat /\ DOMAIN q = 1..Len(q) /\ DOMAIN q = 1..Len(p)
  BY LenProperties DEF Renewed
<1>2. Len(q) = Len(p)
  BY <1>1
<1>. QED  BY <1>2 DEF Renewed, CanDrain

Drained == wave # <<>> => CanDrain(stack)

LEMMA NextDrained ==
  ASSUME EdgeInv, Drained, [ComputedNext]_allVars
  PROVE  Drained'
<1>. USE DEF Draining
<1>0. stack \in Seq(DueFrame) /\ wave \in Seq(Due) /\ depth \in Nat
  BY DEF EdgeInv, WorkTypes, StoreTypes
<1>1. CASE UNCHANGED <<stack, wave>>
  BY <1>1 DEF Drained
<1>2. ASSUME NEW s \in Stores, Publish(s) PROVE Drained'
  <2>1. wave' = wave
    BY <1>2 DEF Publish
  <2>2. stack' = stack \/ \E f \in DueFrame : stack' = Append(stack, f)
    BY <1>2, PublishLemma DEF Published, Notifies
  <2>. QED  BY <1>0, <2>1, <2>2, CanDrainPush DEF Drained
<1>3. ASSUME NEW s \in Stores, NotifyBatched(s), UNCHANGED computedVars PROVE Drained'
  <2>1. Len(stack) > 0
    BY <1>3, NotifyBatchedLemma
  <2>2. PICK f \in DueFrame : f.kind = "flush" /\ Notifies(s, Top.batch[s], version[s], Retop(f))
    BY <1>3, NotifyBatchedLemma
  <2>3. \E g \in DueFrame : stack' = Append(Retop(f), g)
    BY <2>2 DEF Notifies
  <2>. QED  BY <2>1, <2>2, <2>3, CanDrainTop DEF Drained
<1>4. ASSUME TakeBatch, UNCHANGED computedVars PROVE Drained'
  <2>1. Len(stack) > 0 /\ \E f \in DueFrame : f.kind = "flush" /\ stack' = Retop(f)
    BY <1>4, TakeLemma
  <2>. QED  BY <2>1, CanDrainTop DEF Drained
<1>5. CASE BeginTransaction /\ UNCHANGED computedVars
  <2>. DEFINE n == Top.opened + 1
              f == [Top EXCEPT !.opened = n]
  <2>1. Len(stack) > 0 /\ Top.kind = "call" /\ stack' = Retop(f) /\ wave' = wave
    BY <1>5 DEF BeginTransaction, Running, computedVars
  <2>2. Top.opened \in Nat
    BY <2>1, TopLemma, FrameLemma
  <2>3. n \in Nat
    BY <2>2
  <2>. HIDE DEF n
  <2>4. f \in DueFrame
    BY <2>1, <2>3, WorkedOn
  <2>. HIDE DEF f
  <2>. QED  BY <2>1, <2>4, CanDrainTop DEF Drained
<1>6. CASE EndTransaction /\ UNCHANGED computedVars
  <2>. DEFINE n == Top.opened - 1
              f == [Top EXCEPT !.opened = n]
              g == [kind |-> "flush", batch |-> NoBatch]
  <2>1. /\ Len(stack) > 0 /\ Top.kind = "call" /\ Top.opened > 0 /\ wave' = wave
        /\ stack' = Retop(f) \/ stack' = Append(Retop(f), g)
    BY <1>6 DEF EndTransaction, Running, computedVars
  <2>2. Top.opened \in Nat
    BY <2>1, TopLemma, FrameLemma
  <2>3. n \in Nat
    BY <2>1, <2>2
  <2>. HIDE DEF n
  <2>4. f \in DueFrame
    BY <2>1, <2>3, WorkedOn
  <2>5. g \in DueFrame
    BY PushedFrames DEF NoBatch
  <2>. HIDE DEF f, g
  <2>. QED  BY <2>1, <2>4, <2>5, CanDrainTop DEF Drained
<1>7. CASE (Return \/ EndDeliver) /\ UNCHANGED computedVars
  <2>1. Len(stack) > 0 /\ Top.kind \in {"call", "deliver"} /\ stack' = Below /\ wave' = wave
    BY <1>7 DEF Return, EndDeliver, Running, computedVars
  <2>. QED  BY <2>1, CanDrainTop DEF Drained
<1>8. ASSUME NEW i \in Plain, Deliver(i), UNCHANGED computedVars PROVE Drained'
  <2>. DEFINE f == [Top EXCEPT !.todo = @ \ {i}]
  <2>1. /\ Len(stack) > 0 /\ Top.kind = "notify"
        /\ stack' = Retop(f) \/ stack' = Append(Retop(f), Call(i))
    BY <1>8 DEF Deliver, Running
  <2>2. f \in DueFrame /\ f.kind = "notify"
    BY <2>1, WorkedOn
  <2>3. Call(i) \in DueFrame
    BY PushedFrames DEF Plain
  <2>. HIDE DEF f
  <2>. QED  BY <2>1, <2>2, <2>3, CanDrainTop DEF Drained
<1>9. CASE StartTask /\ UNCHANGED computedVars
  <2>1. stack = <<>> /\ wave' = wave
    BY <1>9 DEF StartTask, computedVars
  <2>. QED  BY <2>1 DEF Drained, CanDrain
<1>10. ASSUME NEW c \in Computeds, NEW o \in Observers, Observe(c, o) \/ Unobserve(c, o)
       PROVE  Drained'
  <2>1. wave = <<>> => wave' = <<>>
    BY <1>10 DEF Observe, Unobserve, Dead
  <2>2. stack' = stack \/ Renewed(stack, stack')
    BY <1>10, ObserveStands, UnobserveStands
  <2>3. stack \in Seq(WaveFrame) /\ stack' \in Seq(WaveFrame)
    <3>1. stack' \in Seq(DueFrame')
      BY <1>10, ObserveStands, UnobserveStands DEF Stands, EdgeInv, WorkTypes
    <3>2. DueFrame' \subseteq WaveFrame
      <4>1. Due' \subseteq Settlement
        BY DEF Due
      <4>2. Seq(Due') \subseteq Seq(Settlement)
        BY <4>1, SeqMonotonic
      <4>. QED  BY <4>2 DEF WaveFrame, DueFrame
    <3>. QED  BY <1>0, <3>1, <3>2, DueLemma, SeqMonotonic
  <2>. QED  BY <2>1, <2>2, <2>3, CanDrainRenewed DEF Drained
<1>11. ASSUME NEW c \in Computeds, DeliverEdge(c) PROVE Drained'
  <2>. DEFINE e == <<c, Top.store>>
              f == [Top EXCEPT !.todo = @ \ {e}]
  <2>1. Len(stack) > 0 /\ Top.kind = "notify" /\ stack' = Retop(f)
    BY <1>11 DEF DeliverEdge, Running
  <2>. HIDE DEF e
  <2>2. f \in DueFrame /\ f.kind = "notify"
    BY <2>1, WorkedOn
  <2>. HIDE DEF f
  <2>. QED  BY <2>1, <2>2, CanDrainTop DEF Drained
<1>12. ASSUME NEW c \in Computeds, NEW s \in Stores, RunEdge(c, s) PROVE Drained'
  <2>1. stack = <<>> /\ wave' = wave
    BY <1>12 DEF RunEdge
  <2>. QED  BY <2>1 DEF Drained, CanDrain
<1>13. CASE EndPass
  <2>1. CASE wave' = <<>>
    BY <2>1 DEF Drained
  <2>2. CASE wave' # <<>>
    <3>1. Len(stack) > 0 /\ stack' = Below /\ wave' = wave /\ InWave
      BY <1>13, <2>2 DEF EndPass, PassDone, Running
    <3>2. Below \in Seq(DueFrame) /\ Top \in DueFrame /\ stack = Append(Below, Top)
      BY <1>0, <3>1, StackLemma
    <3>3. Len(Below) = Len(stack) - 1 /\ \A k \in 1..Len(Below) : stack[k] = Below[k]
      BY <3>2
    <3>4. CanDrain(Below)
      BY <3>1, <3>3 DEF InWave, CanDrain
    <3>. QED  BY <3>1, <3>4 DEF Drained
  <2>. QED  BY <2>1, <2>2
<1>14. CASE EndDrain
  BY <1>14 DEF EndDrain, Drained
<1>15. ASSUME NEW o \in Observers, WakeObserver(o) PROVE Drained'
  <2>. DEFINE f == [Top EXCEPT !.todo = @ \ {o}]
  <2>1. /\ Len(stack) > 0 /\ Top.kind = "deliver" /\ stack' = Append(Retop(f), Call(NoOne))
        /\ wave' = wave
    BY <1>15 DEF WakeObserver, Running, computedVars
  <2>2. f \in DueFrame /\ Call(NoOne) \in DueFrame
    BY <2>1, WorkedOn, PushedFrames
  <2>. HIDE DEF f
  <2>. QED  BY <2>1, <2>2, CanDrainTop DEF Drained
<1>16. CASE SettleNext
  <2>. DEFINE next == Head(Top.todo)
              rest == Tail(Top.todo)
              f == [Top EXCEPT !.todo = rest]
  <2>1. /\ Len(stack) > 0 /\ Top.kind = "drain" /\ Top.todo # <<>>
        /\ stack' = Retop(f) \/ stack' = Append(Retop(f), DeliverTo(next.comp))
    BY <1>16 DEF SettleNext, Running, Settle
  <2>2. next \in Due /\ rest \in Seq(Due)
    <3>1. Top \in [kind : {"drain"}, todo : Seq(Due)]
      BY <2>1, TopLemma, FrameLemma
    <3>. QED  BY <2>1, <3>1, HeadTailProperties
  <2>. HIDE DEF rest, next
  <2>3. f \in DueFrame /\ f.kind = "drain"
    BY <2>1, <2>2, WorkedOn
  <2>4. DeliverTo(next.comp) \in DueFrame
    BY <2>2, PushedFrames DEF Due, Settlement, EdgeInv
  <2>. HIDE DEF f
  <2>. QED  BY <2>1, <2>3, <2>4, CanDrainTop DEF Drained
<1>17. ASSUME NEW s \in Stores, NEW W \in WriteSets, Write(s, W) PROVE Drained'
  BY <1>17 DEF Write, DraftWrite, Drained
<1>18. ASSUME NEW i \in Plain, NEW R \in ReadSets, Subscribe(i, R), UNCHANGED computedVars
       PROVE  Drained'
  BY <1>18 DEF Subscribe, computedVars, Drained
<1>19. ASSUME NEW c \in Computeds, Get(c) PROVE Drained'
  BY <1>19 DEF Get, Drained
<1>20. CASE EndDeliver
  BY <1>7, <1>20 DEF EndDeliver
<1>21. CASE UNCHANGED allVars
  BY <1>1, <1>21 DEF allVars, vars, computedVars
<1>22. CASE StoreStep
  BY <1>3, <1>4, <1>5, <1>6, <1>7, <1>8, <1>9, <1>18, <1>22 DEF StoreStep
<1>. QED  BY <1>2, <1>10, <1>11, <1>12, <1>13, <1>14, <1>15, <1>16, <1>17, <1>19, <1>20,
             <1>21, <1>22 DEF ComputedNext

(***************************************************************************)
(* A settlement never waits without a pass, a flush or a drain on the      *)
(* stack that will come to it, however passes and flushes nest.            *)
(***************************************************************************)
THEOREM NothingLeftBehind == ComputedSpec => []NothingLeftInWave
<1>1. ComputedInit => Drained
  BY DEF ComputedInit, Drained
<1>2. EdgeInv /\ Drained /\ [ComputedNext]_allVars => EdgeInv' /\ Drained'
  BY NextEdges, NextDrained
<1>3. Drained => NothingLeftInWave
  BY DEF Drained, CanDrain, Draining, NothingLeftInWave
<1>. QED  BY <1>1, <1>2, <1>3, InitEdges, PTL DEF ComputedSpec

-----------------------------------------------------------------------------
(***************************************************************************)
(* The caches are sound.                                                   *)
(***************************************************************************)
AllSound == \A c \in Computeds : CellSound(cell[c], c)

(***************************************************************************)
(* An edge that was not marked for a publication it reads, and that was    *)
(* filed before it, has the write still waiting in a batch.                *)
(***************************************************************************)
Marks(e, v) ==
  /\ record[e].growth < v
  /\ v <= version[e[2]]
  /\ Concerns(writeLog[e[2]][v], record[e].reads)
  => record[e].matched >= v \/ Concerns(Unmatched(e[2]), record[e].reads)

EdgesMarked == \A e \in Edges \cap registered, v \in 1..MaxVersion : Marks(e, v)

SoundInv == EdgeInv /\ AllSound /\ EdgesMarked

(***************************************************************************)
(* While writes of a store wait in a batch, notifiedVersion stays behind.  *)
(* This is what CARBURETOR_HAS_DRIFT takes for granted when it answers     *)
(* from the marks alone.  A publication inside a flush that still holds    *)
(* writes of the same store breaks it (see README, findings).              *)
(***************************************************************************)
NoFalseProof == \A s \in Stores : Unmatched(s) # {} => notified[s] < version[s]

LEMMA KnowingLemma ==
  ASSUME SoundInv, NoFalseProof
  PROVE  Knowing
<1>0. /\ StoreTypes /\ EdgeTypes /\ EdgesMatchReads /\ AllSound /\ EdgesMarked
      /\ MaxVersion \in Nat
  BY CarburetorAssumption DEF SoundInv, EdgeInv
<1>1. SUFFICES ASSUME NEW c \in Computeds, NEW s \in Stores, LeafMatches(cell[c], s)
               PROVE  LeafDrifted(c, s)
  BY <1>0 DEF Knowing, AllSound
<1>. DEFINE e == <<c, s>>
            leaf == cell[c].versions[s]
<1>2. PICK v \in 1..MaxVersion : /\ leaf.at < v
                                 /\ v <= version[s]
                                 /\ Concerns(writeLog[s][v], leaf.reads)
  BY <1>1 DEF LeafMatches, LogMatches
<1>3. /\ leaf.at \in Nat /\ version[s] \in Nat /\ notified[s] \in Nat
      /\ record[e].growth \in Nat /\ record[e].matched \in Nat
  BY <1>0, EdgeLemma DEF StoreTypes, EdgeTypes, Registration, Cell, Leaf
<1>4. e \in Edges /\ Home[e] = s /\ e[2] = s
  BY EdgeLemma
<1>5. LogMatches(s, leaf.at, leaf.reads)
  BY <1>1 DEF LeafMatches
<1>6. e \in registered => record[e].reads = leaf.reads
  BY <1>0 DEF EdgesMatchReads
<1>. HIDE DEF e, leaf
<1>7. CASE e \in registered
  <2>1. LeafDrifted(c, s) <=> HasDrift(e, leaf.at)
    BY <1>7 DEF LeafDrifted, e, leaf
  <2>2. CASE leaf.at >= record[e].growth /\ notified[s] >= version[s]
    <3>1. Marks(e, v)
      BY <1>0, <1>4, <1>7 DEF EdgesMarked
    <3>2. record[e].matched >= v \/ Concerns(Unmatched(s), record[e].reads)
      BY <1>2, <1>3, <1>4, <1>6, <1>7, <2>2, <3>1 DEF Marks
    <3>3. ~(notified[s] < version[s])
      BY <1>3, <2>2
    <3>4. ~Concerns(Unmatched(s), record[e].reads)
      BY <3>3 DEF NoFalseProof, Concerns
    <3>5. record[e].matched > leaf.at
      BY <1>2, <1>3, <3>2, <3>4
    <3>. QED  BY <1>4, <2>1, <2>2, <3>5 DEF HasDrift
  <2>3. CASE ~(leaf.at >= record[e].growth /\ notified[s] >= version[s])
    <3>1. HasDrift(e, leaf.at) <=> LogMatches(s, leaf.at, record[e].reads)
      BY <1>4, <2>3 DEF HasDrift
    <3>. QED  BY <1>5, <1>6, <1>7, <2>1, <3>1
  <2>. QED  BY <2>2, <2>3
<1>8. CASE e \notin registered
  BY <1>5, <1>8 DEF LeafDrifted, e, leaf
<1>. QED  BY <1>7, <1>8

\* A sound cache that get() hands out is the value of the body.
LEMMA SoundIsCurrent ==
  ASSUME SoundInv, NoFalseProof
  PROVE  TrustedIsCurrent
<1>1. Knowing /\ StoreTypes /\ EdgeTypes
  BY KnowingLemma DEF SoundInv, EdgeInv
<1>2. SUFFICES ASSUME NEW c \in Computeds, ~Stale(c), ~ReadsUnpublished(c)
               PROVE  ~BodyFails(c) /\ cell[c].value = BodyValue(c)
  BY DEF TrustedIsCurrent
<1>3. cell[c].valid /\ CellSound(cell[c], c)
  BY <1>1, <1>2 DEF Stale, Knowing
<1>4. \A s \in Stores : ~LeafMatches(cell[c], s)
  BY <1>1, <1>2, <1>3, DriftedLemma
<1>5. Current(cell[c], c)
  BY <1>2, <1>3, <1>4 DEF CellSound, ReadsUnpublished
<1>. QED  BY <1>5 DEF Current

\* What a cache stands for is a matter of the stores.
LEMMA SoundStands ==
  ASSUME UNCHANGED <<version, writes, writeLog, data>>, NEW c \in Computeds,
         CellSound(cell'[c], c)
  PROVE  CellSound(cell[c], c)'
<1>1. version' = version /\ writes' = writes /\ writeLog' = writeLog /\ data' = data
  OBVIOUS
<1>. QED  BY <1>1 DEF CellSound, Current, LeafMatches, LogMatches, Collected, BodyReads, BodyValue,
                      BodyFails, On

LEMMA SoundRest ==
  ASSUME AllSound, UNCHANGED <<version, writes, writeLog, data, cell>>
  PROVE  AllSound'
<1>1. \A c \in Computeds : CellSound(cell'[c], c)
  BY DEF AllSound
<1>2. \A c \in Computeds : CellSound(cell[c], c)'
  BY <1>1, SoundStands
<1>. QED  BY <1>2 DEF AllSound

LEMMA StandsSound ==
  ASSUME EdgeInv, AllSound, Knowing, Stands
  PROVE  AllSound'
<1>1. UNCHANGED <<version, writes, writeLog, data>>
  BY DEF Stands, StoresStand
<1>2. CASE cell' = cell
  BY <1>1, <1>2, SoundRest
<1>3. ASSUME NEW c \in Computeds, Handled(c) \/ Ended(c) PROVE AllSound'
  <2>1. PICK k \in Cell : Becomes(c, k)
    BY <1>3 DEF Handled, Ended
  <2>2. cell'[c] = k /\ CellSound(k, c) /\ \A z \in Computeds \ {c} : cell'[z] = cell[z]
    BY <2>1 DEF Becomes, EdgeInv, EdgeTypes
  <2>3. \A z \in Computeds : CellSound(cell'[z], z)
    BY <2>2 DEF AllSound
  <2>4. \A z \in Computeds : CellSound(cell[z], z)'
    BY <1>1, <2>3, SoundStands
  <2>. QED  BY <2>4 DEF AllSound
<1>. QED  BY <1>2, <1>3 DEF Stands

\* A body that finds the places it reads as they were does what it did.
LEMMA BodyKept ==
  ASSUME NEW c \in Computeds,
         \A l \in BodyReads(c) : data'[l[1]][l[2]] = data[l[1]][l[2]]
  PROVE  /\ Collected(c)' = Collected(c)
         /\ BodyValue(c)' = BodyValue(c)
         /\ BodyFails(c)' <=> BodyFails(c)
<1>1. Gate[c] \in BodyReads(c) /\ On(Gate[c])' = On(Gate[c])
  BY DEF BodyReads, On
<1>2. BodyReads(c)' = BodyReads(c)
  BY <1>1 DEF BodyReads
<1>3. \A l \in BodyReads(c) : On(l)' = On(l)
  BY DEF On
<1>4. Collected(c)' = Collected(c)
  BY <1>2 DEF Collected
<1>5. BodyValue(c)' = BodyValue(c)
  BY <1>2, <1>3 DEF BodyValue
<1>6. On(Gate[c]) => Then[c] \subseteq BodyReads(c)
  BY DEF BodyReads
<1>7. BodyFails(c)' <=> BodyFails(c)
  BY <1>1, <1>3, <1>6 DEF BodyFails
<1>. QED  BY <1>4, <1>5, <1>7

\* A write to the draft is either to a place that the value was made from, or
\* it makes no difference to the body.
LEMMA WriteSound ==
  ASSUME EdgeInv, AllSound, NEW s \in Stores, NEW W \in WriteSets, Write(s, W)
  PROVE  AllSound'
<1>0. StoreTypes /\ EdgeTypes
  BY DEF EdgeInv
<1>1. /\ version' = version /\ writeLog' = writeLog /\ cell' = cell
      /\ writes' = [writes EXCEPT ![s] = @ \cup W]
      /\ data' = [data EXCEPT ![s] = [p \in Paths |-> IF p \in W THEN ~@[p] ELSE @[p]]]
  BY WriteLemma
<1>2. \A t \in Stores : writes[t] \subseteq writes'[t] /\ W \subseteq writes'[s]
  BY <1>0, <1>1 DEF StoreTypes
<1>3. \A t \in Stores, p \in Paths : t # s \/ p \notin W => data'[t][p] = data[t][p]
  BY <1>0, <1>1 DEF StoreTypes
<1>4. ASSUME NEW c \in Computeds PROVE CellSound(cell[c], c)'
  <2>. DEFINE k == cell[c]
  <2>1. CellSound(k, c) /\ k \in Cell
    BY <1>0 DEF AllSound, EdgeTypes
  <2>2. \A t \in Stores : LeafMatches(cell[c], t)' <=> LeafMatches(k, t)
    BY <1>1 DEF LeafMatches, LogMatches
  <2>3. \A t \in Stores : Concerns(writes[t], k.versions[t].reads) =>
                            Concerns(writes'[t], k.versions[t].reads)
    BY <1>2 DEF Concerns
  <2>4. ASSUME Current(k, c), ~Concerns(W, k.versions[s].reads)
        PROVE  Current(cell[c], c)'
    <3>1. ASSUME NEW l \in BodyReads(c) PROVE data'[l[1]][l[2]] = data[l[1]][l[2]]
      <4>1. PICK t \in Stores, p \in Paths : l = <<t, p>>
        BY <3>1, BodyLemma DEF Places
      <4>2. p \in k.versions[t].reads
        BY <2>4, <3>1, <4>1 DEF Current, Collected
      <4>3. <<p, p>> \in Overlaps
        BY ComputedAssumption
      <4>4. t # s \/ p \notin W
        BY <2>4, <4>2, <4>3 DEF Concerns, Intersects
      <4>. QED  BY <1>3, <4>1, <4>4
    <3>2. /\ Collected(c)' = Collected(c)
          /\ BodyValue(c)' = BodyValue(c)
          /\ BodyFails(c)' <=> BodyFails(c)
      BY <3>1, BodyKept
    <3>. QED  BY <1>1, <2>4, <3>2 DEF Current
  <2>5. Concerns(W, k.versions[s].reads) => Concerns(writes'[s], k.versions[s].reads)
    BY <1>2 DEF Concerns
  <2>6. cell'[c].valid =>
          \/ Current(cell[c], c)'
          \/ \E t \in Stores : \/ Concerns(writes'[t], cell'[c].versions[t].reads)
                             \/ LeafMatches(cell[c], t)'
    BY <1>1, <2>1, <2>2, <2>3, <2>4, <2>5 DEF CellSound
  <2>7. /\ cell'[c].valid /\ cell'[c].checked => \A t \in Stores : ~LeafMatches(cell[c], t)'
        /\ cell'[c].valid => \A t \in cell'[c].proven : ~LeafMatches(cell[c], t)'
    BY <1>1, <2>1, <2>2 DEF CellSound, Cell
  <2>. QED  BY <2>6, <2>7 DEF CellSound, Concerns
<1>. QED  BY <1>4 DEF AllSound

\* A publication turns what was written into what has drifted.
LEMMA PublishedStores ==
  ASSUME EdgeInv, NEW s \in Stores, NEW now, now = version[s] + 1, Published(s)
  PROVE  /\ version[s] \in Nat /\ now \in 1..MaxVersion
         /\ version'[s] = now /\ \A t \in Stores \ {s} : version'[t] = version[t]
         /\ writes'[s] = {} /\ \A t \in Stores \ {s} : writes'[t] = writes[t]
         /\ \A t \in Stores \ {s} : writeLog'[t] = writeLog[t]
         /\ writeLog'[s][now] = Closed(s)
         /\ \A v \in 1..MaxVersion : v # now => writeLog'[s][v] = writeLog[s][v]
<1>0. StoreTypes /\ EdgeTypes /\ MaxVersion \in Nat
  BY CarburetorAssumption DEF EdgeInv
<1>1. /\ version[s] \in Nat /\ now \in 1..MaxVersion
      /\ version'[s] = now /\ \A t \in Stores \ {s} : version'[t] = version[t]
      /\ writes'[s] = {} /\ \A t \in Stores \ {s} : writes'[t] = writes[t]
      /\ writeLog'[s] = [writeLog[s] EXCEPT ![now] = Closed(s)]
      /\ \A t \in Stores \ {s} : writeLog'[t] = writeLog[t]
  <2>1. version[s] \in Nat /\ now \in 1..MaxVersion /\ version \in [Stores -> 0..MaxVersion]
        /\ writes \in [Stores -> SUBSET AllPaths]
        /\ writeLog \in [Stores -> [1..MaxVersion -> SUBSET AllPaths]]
    <3>1. version[s] \in 0..MaxVersion /\ version[s] < MaxVersion
      BY <1>0 DEF StoreTypes, Published
    <3>2. version[s] \in Nat /\ now \in 1..MaxVersion
      BY <1>0, <3>1
    <3>. QED  BY <1>0, <3>2 DEF StoreTypes
  <2>2. version' = [version EXCEPT ![s] = now] /\ writes' = [writes EXCEPT ![s] = {}]
        /\ writeLog' = [writeLog EXCEPT ![s] = [@ EXCEPT ![now] = Closed(s)]]
    BY DEF Published
  <2>3. /\ version'[s] = now /\ \A t \in Stores \ {s} : version'[t] = version[t]
        /\ writes'[s] = {} /\ \A t \in Stores \ {s} : writes'[t] = writes[t]
    BY <2>1, <2>2
  <2>4. /\ writeLog'[s] = [writeLog[s] EXCEPT ![now] = Closed(s)]
        /\ \A t \in Stores \ {s} : writeLog'[t] = writeLog[t]
    BY <2>1, <2>2
  <2>. QED  BY <2>1, <2>3, <2>4
<1>2. writeLog'[s][now] = Closed(s) /\ \A v \in 1..MaxVersion : v # now => writeLog'[s][v] = writeLog[s][v]
  BY <1>0, <1>1 DEF StoreTypes
<1>. QED  BY <1>1, <1>2

LEMMA PublishedSound ==
  ASSUME EdgeInv, AllSound, NEW s \in Stores, Published(s), data' = data
  PROVE  AllSound'
<1>0. StoreTypes /\ EdgeTypes /\ MaxVersion \in Nat
  BY CarburetorAssumption DEF EdgeInv
<1>1. PICK now : now = version[s] + 1
  OBVIOUS
<1>2. /\ version[s] \in Nat /\ now \in 1..MaxVersion
      /\ version'[s] = now /\ \A t \in Stores \ {s} : version'[t] = version[t]
      /\ writes'[s] = {} /\ \A t \in Stores \ {s} : writes'[t] = writes[t]
      /\ \A t \in Stores \ {s} : writeLog'[t] = writeLog[t]
      /\ writeLog'[s][now] = Closed(s)
      /\ \A v \in 1..MaxVersion : v # now => writeLog'[s][v] = writeLog[s][v]
  BY <1>1, PublishedStores
<1>3. ASSUME NEW c \in Computeds
      PROVE  /\ cell'[c].valid = cell[c].valid /\ cell'[c].value = cell[c].value
             /\ cell'[c].versions = cell[c].versions
             /\ cell'[c].checked = FALSE /\ cell'[c].proven = cell[c].proven \ {s}
  BY <1>0 DEF Published, EdgeTypes, Cell
<1>4. ASSUME NEW c \in Computeds PROVE CellSound(cell[c], c)'
  <2>. DEFINE k == cell[c]
  <2>1. CellSound(k, c) /\ k \in Cell /\ \A t \in Stores : k.versions[t].at \in Nat
                                                        /\ k.versions[t].at <= version[t]
    BY <1>0 DEF AllSound, EdgeTypes, Cell, Leaf
  <2>2. \A t \in Stores \ {s} : LeafMatches(cell[c], t)' <=> LeafMatches(k, t)
    BY <1>1, <1>2, <1>3 DEF LeafMatches, LogMatches
  <2>3. LeafMatches(k, s) => LeafMatches(cell[c], s)'
    <3>1. SUFFICES ASSUME NEW v \in 1..MaxVersion, k.versions[s].at < v, v <= version[s],
                          Concerns(writeLog[s][v], k.versions[s].reads)
                   PROVE  LeafMatches(cell[c], s)'
      BY DEF LeafMatches, LogMatches
    <3>2. v # now /\ v <= now
      BY <1>1, <1>2, <3>1
    <3>3. Concerns(writeLog'[s][v], k.versions[s].reads)
      BY <1>2, <3>1, <3>2
    <3>. QED  BY <1>1, <1>2, <1>3, <3>1, <3>2, <3>3 DEF LeafMatches, LogMatches, Concerns
  <2>4. Concerns(writes[s], k.versions[s].reads) => LeafMatches(cell[c], s)'
    <3>1. SUFFICES ASSUME Concerns(writes[s], k.versions[s].reads)
                   PROVE  LeafMatches(cell[c], s)'
      OBVIOUS
    <3>2. Closed(s) = writes[s]
      BY <3>1 DEF Closed, Concerns
    <3>3. Concerns(writeLog'[s][now], k.versions[s].reads)
      BY <1>2, <3>1, <3>2
    <3>4. k.versions[s].at < now /\ now <= version'[s]
      BY <1>1, <1>2, <2>1
    <3>. QED  BY <1>1, <1>2, <1>3, <3>3, <3>4 DEF LeafMatches, LogMatches, Concerns
  <2>5. Current(k, c) => Current(cell[c], c)'
    BY <1>3 DEF Current, Collected, BodyReads, BodyValue, BodyFails, On
  <2>6. cell'[c].valid =>
          \/ Current(cell[c], c)'
          \/ \E t \in Stores : \/ Concerns(writes'[t], cell'[c].versions[t].reads)
                             \/ LeafMatches(cell[c], t)'
    <3>1. SUFFICES ASSUME k.valid, NEW t \in Stores,
                          Concerns(writes[t], k.versions[t].reads) \/ LeafMatches(k, t)
                   PROVE  \/ Concerns(writes'[t], cell'[c].versions[t].reads)
                          \/ LeafMatches(cell[c], t)'
      BY <1>3, <2>1, <2>5 DEF CellSound
    <3>2. CASE t = s
      BY <2>3, <2>4, <3>1, <3>2
    <3>3. CASE t # s
      BY <1>1, <1>2, <1>3, <2>2, <3>1, <3>3
    <3>. QED  BY <3>2, <3>3
  <2>7. cell'[c].valid => \A t \in cell'[c].proven : ~LeafMatches(cell[c], t)'
    BY <1>3, <2>1, <2>2 DEF CellSound, Cell
  <2>. QED  BY <1>3, <2>6, <2>7 DEF CellSound, Concerns
<1>. QED  BY <1>4 DEF AllSound

-----------------------------------------------------------------------------
(***************************************************************************)
(* The marks.                                                              *)
(***************************************************************************)
LEMMA StandsMarked ==
  ASSUME EdgeInv, EdgesMarked, Stands
  PROVE  EdgesMarked'
<1>0. StoreTypes /\ MaxVersion \in Nat
  BY CarburetorAssumption DEF EdgeInv
<1>1. version' = version /\ writeLog' = writeLog
  BY DEF Stands, StoresStand
<1>2. ASSUME NEW e \in Edges, e \in registered', NEW v \in 1..MaxVersion,
             record'[e].growth < v, v <= version[e[2]],
             Concerns(writeLog[e[2]][v], record'[e].reads)
      PROVE  record'[e].matched >= v \/ Concerns(Unmatched(e[2])', record'[e].reads)
  <2>1. e[2] \in Stores /\ version[e[2]] \in Nat
    BY <1>0 DEF Edges, StoreTypes
  <2>2. record'[e].growth = version[e[2]] \/ (e \in registered /\ record'[e] = record[e])
    BY <1>2 DEF Stands, EdgesGrow
  <2>3. record'[e].growth # version[e[2]]
    BY <1>2, <2>1
  <2>4. e \in registered /\ record'[e] = record[e]
    BY <2>2, <2>3
  <2>5. Marks(e, v)
    BY <1>2, <2>4 DEF EdgesMarked
  <2>6. record[e].matched >= v \/ Concerns(Unmatched(e[2]), record[e].reads)
    BY <1>2, <2>4, <2>5 DEF Marks
  <2>7. Unmatched(e[2]) \subseteq Unmatched(e[2])'
    BY <2>1 DEF Stands
  <2>. QED  BY <2>4, <2>6, <2>7 DEF Concerns
<1>. QED  BY <1>1, <1>2 DEF EdgesMarked, Marks

\* A pass over the writes W of a store marks the edges they concern.
LEMMA NotifiesMarks ==
  ASSUME EdgeInv, NEW s \in Stores, NEW W, NEW at \in 0..MaxVersion, NEW frames,
         Notifies(s, W, at, frames)
  PROVE  \A e \in Edges \cap registered :
           /\ record[e].matched \in Nat
           /\ record'[e].matched = IF e[2] = s /\ Concerns(W, record[e].reads)
                                    THEN at ELSE record[e].matched
<1>. SUFFICES ASSUME NEW e \in Edges \cap registered
              PROVE  /\ record[e].matched \in Nat
                     /\ record'[e].matched = IF e[2] = s /\ Concerns(W, record[e].reads)
                                              THEN at ELSE record[e].matched
  OBVIOUS
<1>1. e \in Subscribers /\ Home[e] = e[2] /\ MaxVersion \in Nat
  BY ComputedAssumption, CarburetorAssumption
<1>2. record[e] \in Registration
  BY <1>1 DEF EdgeInv, EdgeTypes
<1>3. record'[e].matched = IF e \in Match(s, W) THEN at ELSE record[e].matched
  BY <1>1 DEF Notifies
<1>4. e \in Match(s, W) <=> e[2] = s /\ Concerns(W, record[e].reads)
  BY <1>1 DEF Match
<1>. QED  BY <1>1, <1>2, <1>3, <1>4 DEF Registration

LEMMA PublishedMarked ==
  ASSUME EdgeInv, EdgesMarked, NEW s \in Stores, Published(s)
  PROVE  EdgesMarked'
<1>. DEFINE now == version[s] + 1
<1>0. /\ StoreTypes /\ EdgeTypes /\ MaxVersion \in Nat /\ now \in 0..MaxVersion
      /\ stack \in Seq(DueFrame)
  <2>1. /\ StoreTypes /\ EdgeTypes /\ MaxVersion \in Nat /\ stack \in Seq(DueFrame)
        /\ version[s] \in 0..MaxVersion /\ version[s] < MaxVersion
    BY CarburetorAssumption DEF EdgeInv, StoreTypes, Published, WorkTypes
  <2>2. now \in 0..MaxVersion
    BY <2>1
  <2>. QED  BY <2>1, <2>2
<1>1. /\ registered' = registered
      /\ version' = [version EXCEPT ![s] = now]
      /\ writeLog' = [writeLog EXCEPT ![s] = [@ EXCEPT ![now] = Closed(s)]]
  BY DEF Published
<1>2. ASSUME NEW t \in Stores, NEW v \in 1..MaxVersion, v <= version'[t]
      PROVE  \/ t = s /\ v = now /\ writeLog'[t][v] = Closed(s)
             \/ v <= version[t] /\ writeLog'[t][v] = writeLog[t][v]
  <2>1. version[t] \in Nat /\ version[s] \in Nat
    BY <1>0 DEF StoreTypes
  <2>2. CASE t # s
    <3>1. writeLog'[t] = writeLog[t] /\ version'[t] = version[t]
      BY <1>0, <1>1, <2>2 DEF StoreTypes
    <3>. QED  BY <1>2, <3>1
  <2>3. CASE t = s
    <3>1. /\ version'[s] = now
          /\ writeLog'[s] = [writeLog[s] EXCEPT ![now] = Closed(s)]
          /\ writeLog[s] \in [1..MaxVersion -> SUBSET AllPaths]
      BY <1>0, <1>1 DEF StoreTypes
    <3>2. v = now \/ (v <= version[s] /\ v # now)
      BY <1>2, <2>1, <2>3, <3>1
    <3>3. v = now => writeLog'[s][v] = Closed(s)
      BY <3>1
    <3>4. v # now => writeLog'[s][v] = writeLog[s][v]
      BY <3>1
    <3>. QED  BY <2>3, <3>2, <3>3, <3>4
  <2>. QED  BY <2>2, <2>3
<1>3. \A i \in Subscribers : /\ record'[i].reads = record[i].reads
                             /\ record'[i].growth = record[i].growth
  BY DEF Published, Notifies
<1>4. ASSUME NEW e \in Edges \cap registered, NEW v \in 1..MaxVersion,
             record[e].growth < v, v <= version'[e[2]],
             Concerns(writeLog'[e[2]][v], record[e].reads)
      PROVE  record'[e].matched >= v \/ Concerns(Unmatched(e[2])', record[e].reads)
  <2>. DEFINE t == e[2]
  <2>1. t \in Stores /\ e \in Subscribers
    BY ComputedAssumption DEF Edges
  <2>2. \/ t = s /\ v = now /\ writeLog'[t][v] = Closed(s)
        \/ v <= version[t] /\ writeLog'[t][v] = writeLog[t][v]
    BY <1>2, <1>4, <2>1
  <2>3. \/ record[e].matched >= v
        \/ Concerns(Unmatched(t), record[e].reads)
        \/ t = s /\ v = now /\ Concerns(Closed(s), record[e].reads)
    <3>1. CASE t = s /\ v = now /\ writeLog'[t][v] = Closed(s)
      BY <1>4, <3>1
    <3>2. CASE v <= version[t] /\ writeLog'[t][v] = writeLog[t][v]
      <4>1. Marks(e, v)
        BY DEF EdgesMarked
      <4>. QED  BY <1>4, <3>2, <4>1 DEF Marks
    <3>. QED  BY <2>2, <3>1, <3>2
  <2>4. CASE /\ depth > 0
             /\ pending' = [pending EXCEPT ![s] = @ \cup Closed(s)]
             /\ UNCHANGED <<stack, notified, record>>
    <3>1. /\ \A x \in Stores : pending[x] \subseteq pending'[x]
          /\ Closed(s) \subseteq pending'[s]
      BY <1>0, <2>4 DEF StoreTypes
    <3>2. Unmatched(t) \subseteq Unmatched(t)' /\ (t = s => Closed(s) \subseteq Unmatched(t)')
      BY <2>1, <2>4, <3>1 DEF Unmatched, Frames
    <3>. QED  BY <2>3, <2>4, <3>2 DEF Concerns
  <2>5. CASE depth = 0 /\ pending' = pending /\ Notifies(s, Closed(s), now, stack)
    <3>1. Reshaped
      BY <2>5 DEF Notifies, Reshaped
    <3>2. stack' \in Seq(WaveFrame)
      <4>1. stack' \in Seq(DueFrame)
        BY <1>0, <3>1, ReshapedIn
      <4>. QED  BY <4>1, DueLemma, SeqMonotonic
    <3>3. Unmatched(t) \subseteq Unmatched(t)'
      BY <1>0, <2>1, <2>5, <3>1, <3>2, UnmatchedKept
    <3>4. v \in Nat /\ (v <= now \/ t # s)
      <4>1. version[s] \in Nat /\ version[s] <= now
        BY <1>0 DEF StoreTypes
      <4>. QED  BY <1>0, <2>2, <4>1
    <3>5. /\ record[e].matched \in Nat
          /\ record'[e].matched = IF t = s /\ Concerns(Closed(s), record[e].reads)
                                   THEN now ELSE record[e].matched
      BY <1>0, <2>5, NotifiesMarks
    <3>6. CASE t = s /\ Concerns(Closed(s), record[e].reads)
      BY <1>0, <3>4, <3>5, <3>6
    <3>7. CASE ~(t = s /\ Concerns(Closed(s), record[e].reads))
      BY <2>3, <3>3, <3>5, <3>7 DEF Concerns
    <3>. QED  BY <3>6, <3>7
  <2>. QED  BY <2>4, <2>5 DEF Published
<1>5. \A e \in Edges \cap registered' : e \in Edges \cap registered /\ e \in Subscribers
  BY <1>1, ComputedAssumption
<1>. QED  BY <1>3, <1>4, <1>5 DEF EdgesMarked, Marks

\* The batch goes from the transaction to the flush.
LEMMA TakenUnmatched ==
  ASSUME EdgeInv, TakeBatch, UNCHANGED computedVars
  PROVE  \A s \in Stores : Unmatched(s) \subseteq Unmatched(s)'
<1>1. /\ pending' = NoBatch
      /\ Len(stack) > 0 /\ Top.kind = "flush" /\ Top.batch = NoBatch
  BY TakeLemma
<1>2. PICK f \in DueFrame : f.kind = "flush" /\ f.batch = pending /\ stack' = Retop(f)
  BY TakeLemma
<1>3. stack \in Seq(DueFrame) /\ stack \in Seq(WaveFrame) /\ DueFrame \subseteq WaveFrame
  BY DueLemma, SeqMonotonic DEF EdgeInv, WorkTypes
<1>4. Below \in Seq(WaveFrame) /\ Top \in WaveFrame /\ stack = Append(Below, Top)
  BY <1>1, <1>3, StackLemma
<1>5. stack' \in Seq(WaveFrame) /\ stack' = Append(Below, f) /\ f \in WaveFrame
  BY <1>2, <1>3, <1>4, PushSeq DEF Retop
<1>6. ASSUME NEW s \in Stores PROVE Unmatched(s) \subseteq Unmatched(s)'
  <2>1. SUFFICES ASSUME NEW p \in Unmatched(s), p \notin Unmatched(s)' PROVE FALSE
    OBVIOUS
  <2>2. stack' \in Seq(Without(s, p))
    BY <1>5, <2>1, UnmatchedLemma, HeldLemma
  <2>3. Below \in Seq(Without(s, p)) /\ f \in Without(s, p)
    BY <1>4, <1>5, <2>2, UnpushSeq
  <2>4. p \notin pending[s]
    BY <1>2, <2>3 DEF Without
  <2>5. Top \in Without(s, p)
    BY <1>1, <1>4 DEF Without, NoBatch
  <2>6. stack \in Seq(Without(s, p))
    BY <1>4, <2>3, <2>5, PushSeq
  <2>. QED  BY <1>3, <2>1, <2>4, <2>6, UnmatchedLemma, HeldLemma
<1>. QED  BY <1>6

LEMMA TakenMarked ==
  ASSUME EdgeInv, EdgesMarked, TakeBatch, UNCHANGED computedVars
  PROVE  EdgesMarked'
<1>1. UNCHANGED <<version, writeLog, registered, record>>
  BY TakeLemma
<1>2. \A s \in Stores : Unmatched(s) \subseteq Unmatched(s)'
  BY TakenUnmatched
<1>3. \A e \in Edges : e[2] \in Stores
  BY DEF Edges
<1>. QED  BY <1>1, <1>2, <1>3 DEF EdgesMarked, Marks, Concerns

\* The flush notifies one store of its batch.
LEMMA NotifiedUnmatched ==
  ASSUME EdgeInv, NEW s \in Stores, NotifyBatched(s), UNCHANGED computedVars,
         NEW t \in Stores, NEW p \in Unmatched(t), p \notin Unmatched(t)'
  PROVE  t = s /\ p \in Top.batch[s]
<1>. DEFINE W == Top.batch[s]
<1>1. /\ UNCHANGED <<version, writeLog, registered, pending>>
      /\ Len(stack) > 0 /\ Top.kind = "flush"
  BY NotifyBatchedLemma
<1>2. PICK f \in DueFrame : /\ f.kind = "flush" /\ f.batch = [Top.batch EXCEPT ![s] = {}]
                            /\ Notifies(s, W, version[s], Retop(f))
  BY NotifyBatchedLemma
<1>3. PICK g \in DueFrame : g.kind = "notify" /\ stack' = Append(Retop(f), g)
  BY <1>2 DEF Notifies
<1>4. stack \in Seq(DueFrame) /\ stack \in Seq(WaveFrame) /\ DueFrame \subseteq WaveFrame
  BY DueLemma, SeqMonotonic DEF EdgeInv, WorkTypes
<1>5. /\ Below \in Seq(WaveFrame) /\ Top \in WaveFrame /\ stack = Append(Below, Top)
      /\ f \in WaveFrame /\ g \in WaveFrame
  BY <1>1, <1>4, StackLemma
<1>6. /\ Retop(f) = Append(Below, f) /\ Retop(f) \in Seq(WaveFrame)
      /\ stack' \in Seq(WaveFrame)
  BY <1>3, <1>5, PushSeq DEF Retop
<1>7. Top \in [kind : {"flush"}, batch : [Stores -> SUBSET AllPaths]]
  BY <1>1, TopLemma, FrameLemma
<1>8. stack' \in Seq(Without(t, p)) /\ p \notin pending'[t]
  BY <1>6, UnmatchedLemma, HeldLemma
<1>9. Retop(f) \in Seq(Without(t, p))
  BY <1>3, <1>5, <1>6, <1>8, UnpushSeq
<1>10. Below \in Seq(Without(t, p)) /\ f \in Without(t, p)
  BY <1>5, <1>6, <1>9, UnpushSeq
<1>11. p \notin f.batch[t]
  BY <1>2, <1>10 DEF Without
<1>12. SUFFICES ASSUME t # s \/ p \notin W PROVE FALSE
  OBVIOUS
<1>13. p \notin Top.batch[t]
  BY <1>2, <1>7, <1>11, <1>12
<1>14. Top \in Without(t, p)
  BY <1>5, <1>13 DEF Without
<1>15. stack \in Seq(Without(t, p))
  BY <1>5, <1>10, <1>14, PushSeq
<1>. QED  BY <1>1, <1>4, <1>8, <1>15, UnmatchedLemma, HeldLemma

LEMMA NotifiedMarked ==
  ASSUME EdgeInv, EdgesMarked, NEW s \in Stores, NotifyBatched(s), UNCHANGED computedVars
  PROVE  EdgesMarked'
<1>. DEFINE W == Top.batch[s]
<1>1. UNCHANGED <<version, writeLog, registered>>
  BY NotifyBatchedLemma
<1>2. PICK f : Notifies(s, W, version[s], Retop(f))
  BY NotifyBatchedLemma
<1>3. \A t \in Stores : \A p \in Unmatched(t) : p \in Unmatched(t)' \/ (t = s /\ p \in W)
  BY NotifiedUnmatched
<1>4. \A i \in Subscribers : /\ record'[i].reads = record[i].reads
                             /\ record'[i].growth = record[i].growth
  BY <1>2 DEF Notifies
<1>5. version[s] \in 0..MaxVersion
  BY DEF EdgeInv, StoreTypes
<1>. HIDE DEF W
<1>6. ASSUME NEW e \in Edges \cap registered, NEW v \in 1..MaxVersion,
              record[e].growth < v, v <= version[e[2]],
              Concerns(writeLog[e[2]][v], record[e].reads)
       PROVE  record'[e].matched >= v \/ Concerns(Unmatched(e[2])', record[e].reads)
  <2>1. e[2] \in Stores /\ v \in Nat /\ (v <= version[s] \/ e[2] # s)
    BY <1>6 DEF Edges
  <2>2. Marks(e, v)
    BY DEF EdgesMarked
  <2>3. record[e].matched >= v \/ Concerns(Unmatched(e[2]), record[e].reads)
    BY <1>6, <2>2 DEF Marks
  <2>4. /\ e[2] = s => Unmatched(e[2]) \subseteq Unmatched(e[2])' \cup W
        /\ e[2] # s => Unmatched(e[2]) \subseteq Unmatched(e[2])'
    BY <1>3, <2>1
  <2>5. /\ record[e].matched \in Nat
        /\ record'[e].matched = IF e[2] = s /\ Concerns(W, record[e].reads)
                                 THEN version[s] ELSE record[e].matched
    BY <1>2, <1>5, NotifiesMarks
  <2>6. CASE e[2] = s /\ Concerns(W, record[e].reads)
    BY <1>5, <2>1, <2>5, <2>6
  <2>7. CASE ~(e[2] = s /\ Concerns(W, record[e].reads))
    BY <2>3, <2>4, <2>5, <2>7 DEF Concerns
  <2>. QED  BY <2>6, <2>7
<1>7. \A e \in Edges \cap registered' : e \in Edges \cap registered /\ e \in Subscribers
  BY <1>1, ComputedAssumption
<1>. QED  BY <1>1, <1>4, <1>6, <1>7 DEF EdgesMarked, Marks

LEMMA MarkedRest ==
  ASSUME EdgesMarked, UNCHANGED <<version, writeLog, pending, registered, record, stack>>
  PROVE  EdgesMarked'
<1>1. /\ version' = version /\ writeLog' = writeLog /\ pending' = pending
      /\ registered' = registered /\ record' = record /\ stack' = stack
  OBVIOUS
<1>2. \A s \in Stores : Unmatched(s)' = Unmatched(s)
  BY <1>1 DEF Unmatched, Frames
<1>3. \A e \in Edges : e[2] \in Stores
  BY DEF Edges
<1>4. ASSUME NEW e \in Edges \cap registered, NEW v \in 1..MaxVersion PROVE Marks(e, v)'
  <2>1. Marks(e, v) /\ Unmatched(e[2])' = Unmatched(e[2])
    BY <1>2, <1>3 DEF EdgesMarked
  <2>. QED  BY <1>1, <2>1 DEF Marks
<1>. QED  BY <1>1, <1>4 DEF EdgesMarked

LEMMA NextSound ==
  ASSUME SoundInv, NoFalseProof, [ComputedNext]_allVars
  PROVE  SoundInv'
<1>0. EdgeInv /\ AllSound /\ EdgesMarked /\ Knowing
  BY KnowingLemma DEF SoundInv
<1>1. EdgeInv'
  BY <1>0, NextEdges
<1>2. CASE Stands
  BY <1>0, <1>1, <1>2, StandsSound, StandsMarked DEF SoundInv
<1>3. ASSUME NEW s \in Stores, Publish(s) PROVE SoundInv'
  <2>1. data' = data
    BY <1>0, <1>3, PublishLemma
  <2>2. CASE UNCHANGED <<version, notified, writes, writeLog, pending, registered, record,
                         stack, cell>>
    <3>1. AllSound'
      BY <1>0, <2>1, <2>2, SoundRest
    <3>2. EdgesMarked'
      BY <1>0, <2>2, MarkedRest
    <3>. QED  BY <1>1, <3>1, <3>2 DEF SoundInv
  <2>3. CASE Published(s)
    BY <1>0, <1>1, <2>1, <2>3, PublishedSound, PublishedMarked DEF SoundInv
  <2>. QED  BY <1>0, <1>3, <2>2, <2>3, PublishLemma
<1>4. ASSUME NEW s \in Stores, NEW W \in WriteSets, Write(s, W) PROVE SoundInv'
  <2>1. AllSound'
    BY <1>0, <1>4, WriteSound
  <2>2. UNCHANGED <<version, writeLog, pending, registered, record, stack>>
    BY <1>0, <1>4, WriteLemma
  <2>3. EdgesMarked'
    BY <1>0, <2>2, MarkedRest
  <2>. QED  BY <1>1, <2>1, <2>3 DEF SoundInv
<1>5. CASE TakeBatch /\ UNCHANGED computedVars
  <2>1. UNCHANGED <<version, writes, writeLog, data, cell>>
    BY <1>0, <1>5, TakeLemma
  <2>. QED  BY <1>0, <1>1, <1>5, <2>1, SoundRest, TakenMarked DEF SoundInv
<1>6. ASSUME NEW s \in Stores, NotifyBatched(s), UNCHANGED computedVars PROVE SoundInv'
  <2>1. UNCHANGED <<version, writes, writeLog, data, cell>>
    BY <1>0, <1>6, NotifyBatchedLemma
  <2>. QED  BY <1>0, <1>1, <1>6, <2>1, SoundRest, NotifiedMarked DEF SoundInv
<1>. QED  BY <1>0, <1>2, <1>3, <1>4, <1>5, <1>6, NextLemma

LEMMA InitSound == ComputedInit => SoundInv
<1>. SUFFICES ASSUME ComputedInit PROVE SoundInv
  OBVIOUS
<1>1. AllSound
  BY DEF ComputedInit, Untouched, AllSound, CellSound
<1>2. EdgesMarked
  BY DEF ComputedInit, Init, EdgesMarked
<1>. QED  BY <1>1, <1>2, InitEdges DEF SoundInv

(***************************************************************************)
(* As long as notifiedVersion stays behind the writes that wait in a       *)
(* batch, what get() hands out without running the body is what the body   *)
(* would return: with any number of stores and computeds, whether the edge *)
(* or the write log is asked, and however get(), settlements, failing      *)
(* bodies, observers that come and go and nested writes interleave.        *)
(***************************************************************************)
THEOREM TrustedWhileBehind == ComputedSpec /\ []NoFalseProof => []TrustedIsCurrent
<1>1. SoundInv /\ NoFalseProof /\ [ComputedNext]_allVars => SoundInv'
  BY NextSound
<1>2. SoundInv /\ NoFalseProof => TrustedIsCurrent
  BY SoundIsCurrent
<1>. QED  BY <1>1, <1>2, InitSound, PTL DEF ComputedSpec

-----------------------------------------------------------------------------
(***************************************************************************)
(* At most one frame is at work on the batch, and it is on top: a call     *)
(* with transactions open, or a flush that has taken the batch and is      *)
(* about to notify.  Where there are many stores, a flush further down     *)
(* may hold the writes of those it has not notified yet; with one store    *)
(* none does, and notifiedVersion stays behind.                            *)
(***************************************************************************)
OneStore == \A s, t \in Stores : s = t

Idle(many) ==
  {f \in WaveFrame : /\ f.kind = "call" => f.opened = 0
                     /\ f.kind = "flush" => many \/ f.batch = NoBatch}

Calm(many) ==
  /\ stack \in Seq(Idle(many))
  /\ depth = 0
  /\ pending # NoBatch => Running("flush") /\ Top.batch = NoBatch

Opened(many) ==
  /\ Running("call")
  /\ Below \in Seq(Idle(many))
  /\ Top.opened = depth
  /\ depth > 0

Flushing(many) ==
  /\ Running("flush")
  /\ Below \in Seq(Idle(many))
  /\ Top.batch # NoBatch
  /\ depth = 0
  /\ pending = NoBatch

Batching(many) ==
  /\ \A s \in Stores : notified[s] <= version[s]
  /\ Calm(many) \/ Opened(many) \/ Flushing(many)
  /\ ~many /\ (pending # NoBatch \/ Flushing(many)) => \A s \in Stores : notified[s] < version[s]

LEMMA IdleLemma ==
  ASSUME NEW many \in BOOLEAN, EdgeInv
  PROVE  /\ Idle(many) \subseteq WaveFrame
         /\ \A f \in DueFrame : f.kind \notin {"call", "flush"} => f \in Idle(many)
         /\ \A i \in Subscribers \cup {NoOne} : Call(i) \in Idle(many)
         /\ \A f \in DueFrame : f.kind = "call" /\ f.opened = 0 => f \in Idle(many)
         /\ \A f \in DueFrame : f.kind = "flush" /\ (many \/ f.batch = NoBatch) => f \in Idle(many)
         /\ stack \in Seq(WaveFrame)
         /\ Len(stack) > 0 => Top \in DueFrame
<1>1. stack \in Seq(DueFrame)
  BY DEF EdgeInv, WorkTypes
<1>2. stack \in Seq(WaveFrame)
  BY <1>1, DueLemma, SeqMonotonic
<1>3. Len(stack) > 0 => Top \in DueFrame
  BY <1>1, StackLemma
<1>4. \A i \in Subscribers \cup {NoOne} : Call(i) \in DueFrame /\ Call(i).kind = "call"
                                         /\ Call(i).opened = 0
  BY PushedFrames DEF Call
<1>. QED  BY <1>2, <1>3, <1>4, DueLemma DEF Idle

LEMMA BatchIsBehind ==
  ASSUME EdgeInv, Batching(FALSE)
  PROVE  NoFalseProof
<1>1. stack \in Seq(WaveFrame) /\ Len(stack) \in Nat
  BY IdleLemma, LenProperties
<1>2. SUFFICES ASSUME NEW s \in Stores, NEW p \in Unmatched(s)
               PROVE  notified[s] < version[s]
  BY DEF NoFalseProof
<1>3. CASE p \in pending[s]
  BY <1>3 DEF Batching, NoBatch
<1>4. ASSUME stack \in Seq(Idle(FALSE)) PROVE ~Held(stack, s, p)
  <2>1. Idle(FALSE) \subseteq Without(s, p)
    BY DEF Idle, Without, NoBatch
  <2>2. stack \in Seq(Without(s, p))
    BY <1>4, <2>1, SeqMonotonic
  <2>. QED  BY <1>1, <2>2, HeldLemma
<1>5. ASSUME Opened(FALSE) PROVE ~Held(stack, s, p)
  <2>1. Idle(FALSE) \subseteq Without(s, p)
    BY DEF Idle, Without, NoBatch
  <2>2. Below \in Seq(Without(s, p)) /\ Len(stack) > 0 /\ Top.kind = "call"
    BY <1>5, <2>1, SeqMonotonic DEF Opened, Running
  <2>3. Top \in Without(s, p) /\ stack = Append(Below, Top)
    BY <1>1, <2>2, StackLemma DEF Without
  <2>. QED  BY <1>1, <2>2, <2>3, PushSeq, HeldLemma
<1>6. p \in pending[s] \/ Held(stack, s, p)
  BY UnmatchedLemma
<1>. QED  BY <1>3, <1>4, <1>5, <1>6 DEF Batching, Calm

\* Frames put on an idle stack, or on what is below its top.
LEMMA CalmStep ==
  ASSUME NEW many \in BOOLEAN, EdgeInv, Batching(many), Calm(many),
         depth' = 0, pending' = NoBatch,
         UNCHANGED <<notified, version>> \/ \A s \in Stores : notified'[s] <= version'[s],
         \/ stack' = stack
         \/ \E f \in Idle(many) : stack' = Append(stack, f)
         \/ /\ Len(stack) > 0
            /\ \/ stack' = Below
               \/ \E f \in Idle(many) : stack' = Retop(f)
               \/ \E f, g \in Idle(many) : stack' = Append(Retop(f), g)
  PROVE  Batching(many)'
<1>1. stack \in Seq(Idle(many))
  BY DEF Calm
<1>2. Len(stack) > 0 => Below \in Seq(Idle(many))
  BY <1>1, StackLemma
<1>3. stack' \in Seq(Idle(many))
  BY <1>1, <1>2, PushSeq DEF Retop
<1>4. Calm(many)'
  BY <1>3 DEF Calm
<1>5. ~many => ~Flushing(many)'
  <2>1. SUFFICES ASSUME ~many, Len(stack') > 0 PROVE stack'[Len(stack')] \in Idle(many)
    BY DEF Flushing, Running, Top, Idle
  <2>2. Len(stack') \in 1..Len(stack')
    BY <1>3, <2>1, LenProperties
  <2>. QED  BY <1>3, <2>2, ElementOfSeq
<1>. QED  BY <1>4, <1>5 DEF Batching

\* A step of the engine or of a callback on an idle stack that leaves the
\* stores alone.
LEMMA CalmWork ==
  ASSUME NEW many \in BOOLEAN, EdgeInv, Batching(many), Calm(many),
         pending = NoBatch, StoresStand, depth' = depth,
         \/ stack' = stack
         \/ \E f \in Idle(many) : stack' = Append(stack, f)
         \/ /\ Len(stack) > 0
            /\ \/ stack' = Below
               \/ \E f \in Idle(many) : stack' = Retop(f)
               \/ \E f, g \in Idle(many) : stack' = Append(Retop(f), g)
  PROVE  Batching(many)'
<1>1. depth' = 0 /\ pending' = NoBatch /\ UNCHANGED <<notified, version>>
  BY DEF Calm, StoresStand
<1>. QED  BY <1>1, CalmStep

\* Nothing that the batch depends on changes.
LEMMA BatchRests ==
  ASSUME NEW many \in BOOLEAN, Batching(many),
         UNCHANGED <<notified, version, depth, pending, stack>>
  PROVE  Batching(many)'
BY DEF Batching, Calm, Opened, Flushing, Running, Top, Below

LEMMA RenewedIdle ==
  ASSUME NEW many \in BOOLEAN, NEW p \in Seq(WaveFrame), NEW q \in Seq(WaveFrame), Renewed(p, q),
         p \in Seq(Idle(many))
  PROVE  q \in Seq(Idle(many))
<1>1. Len(p) \in Nat /\ Len(q) \in Nat /\ DOMAIN q = 1..Len(q) /\ DOMAIN q = 1..Len(p)
  BY LenProperties DEF Renewed
<1>2. Len(q) = Len(p)
  BY <1>1
<1>3. \A k \in 1..Len(q) : p[k] \in Idle(many) /\ q[k] \in WaveFrame
  BY <1>2, ElementOfSeq DEF Renewed
<1>4. \A k \in 1..Len(q) : q[k] \in Idle(many)
  BY <1>2, <1>3 DEF Renewed, Idle
<1>. QED  BY <1>4, PointwiseSeq

\* What is renewed below the top is renewed.
LEMMA RenewedBelow ==
  ASSUME stack \in Seq(WaveFrame), stack' \in Seq(WaveFrame), Renewed(stack, stack'),
         Len(stack) > 0
  PROVE  /\ Len(stack') = Len(stack)
         /\ Below' \in Seq(WaveFrame) /\ Renewed(Below, Below')
         /\ Top.kind = "call" => Top' = Top
<1>1. /\ Len(stack) \in Nat /\ Len(stack') \in Nat
      /\ DOMAIN stack' = 1..Len(stack') /\ DOMAIN stack' = 1..Len(stack)
  BY LenProperties DEF Renewed
<1>2. Len(stack') = Len(stack)
  BY <1>1
<1>. DEFINE n == Len(stack) - 1
<1>3. n \in Nat /\ n + 1 = Len(stack) /\ 1..n \subseteq 1..Len(stack)
  BY <1>1
<1>4. \A k \in 1..n : stack[k] \in WaveFrame /\ stack'[k] \in WaveFrame
  BY <1>2, <1>3, ElementOfSeq
<1>5. /\ Below \in [1..n -> WaveFrame] /\ Len(Below) = n /\ \A k \in 1..n : Below[k] = stack[k]
      /\ Below' \in [1..n -> WaveFrame] /\ Below' \in Seq(WaveFrame)
      /\ \A k \in 1..n : Below'[k] = stack'[k]
  <2>1. 1 \in Int /\ n \in Int /\ n - 1 + 1 = n /\ \A k \in 1..n : 1 + k - 1 = k
    BY <1>3
  <2>2. Below = SubSeq(stack, 1, n) /\ Below' = SubSeq(stack', 1, n)
    BY <1>2 DEF Below
  <2>. HIDE DEF n
  <2>3. /\ SubSeq(stack, 1, n) \in Seq(WaveFrame)
        /\ Len(SubSeq(stack, 1, n)) = IF 1 <= n THEN n - 1 + 1 ELSE 0
        /\ \A k \in 1..n - 1 + 1 : SubSeq(stack, 1, n)[k] = stack[1 + k - 1]
    BY <1>4, <2>1, SubSeqProperties
  <2>4. /\ SubSeq(stack', 1, n) \in Seq(WaveFrame)
        /\ Len(SubSeq(stack', 1, n)) = IF 1 <= n THEN n - 1 + 1 ELSE 0
        /\ \A k \in 1..n - 1 + 1 : SubSeq(stack', 1, n)[k] = stack'[1 + k - 1]
    BY <1>4, <2>1, SubSeqProperties
  <2>5. Len(SubSeq(stack, 1, n)) = n /\ Len(SubSeq(stack', 1, n)) = n
    BY <1>3, <2>1, <2>3, <2>4
  <2>. QED  BY <2>1, <2>2, <2>3, <2>4, <2>5, LenProperties
<1>6. Renewed(Below, Below')
  <2>. HIDE DEF n
  <2>. QED  BY <1>3, <1>5 DEF Renewed
<1>7. Top.kind = "call" => Top' = Top
  <2>1. Top = stack[n + 1] /\ Top' = stack'[n + 1] /\ n + 1 \in 1..Len(stack)
    BY <1>1, <1>2, <1>3 DEF Top
  <2>. QED  BY <2>1 DEF Renewed
<1>. QED  BY <1>2, <1>5, <1>6, <1>7

\* Observers come and go inside a call.
LEMMA RenewedBatch ==
  ASSUME NEW many \in BOOLEAN, EdgeInv, Batching(many),
         Running("call"), StoresStand, depth' = depth,
         stack' \in Seq(WaveFrame), Renewed(stack, stack')
  PROVE  Batching(many)'
<1>1. stack \in Seq(WaveFrame) /\ Len(stack) > 0 /\ Top.kind = "call"
  BY IdleLemma DEF Running
<1>2. /\ Len(stack') = Len(stack) /\ Below' \in Seq(WaveFrame) /\ Renewed(Below, Below')
      /\ Top' = Top
  BY <1>1, RenewedBelow
<1>3. Running("call")' /\ ~Flushing(many) /\ ~Flushing(many)'
  BY <1>1, <1>2 DEF Running, Flushing
<1>4. UNCHANGED <<pending, notified, version>>
  BY DEF StoresStand
<1>5. Calm(many) => Calm(many)'
  <2>1. Calm(many) => stack' \in Seq(Idle(many))
    BY <1>1, RenewedIdle DEF Calm
  <2>. QED  BY <1>1, <1>4, <2>1 DEF Calm, Running
<1>6. Opened(many) => Opened(many)'
  <2>1. Below \in Seq(WaveFrame)
    BY <1>1, StackLemma
  <2>2. Opened(many) => Below' \in Seq(Idle(many))
    BY <1>2, <2>1, RenewedIdle DEF Opened
  <2>. QED  BY <1>2, <1>3, <2>2 DEF Opened
<1>. QED  BY <1>3, <1>4, <1>5, <1>6 DEF Batching

\* A frame that was pushed is on top, and the rest is below it.
LEMMA PushedTop ==
  ASSUME NEW G, NEW q \in Seq(G), NEW f \in G, stack' = Append(q, f)
  PROVE  Top' = f /\ Below' = q /\ Len(stack') > 0
<1>. DEFINE n == Len(q)
<1>1. /\ n \in Nat /\ Len(stack') = n + 1 /\ stack'[n + 1] = f
      /\ \A k \in 1..n : stack'[k] = q[k] /\ q[k] \in G
  BY LenProperties, ElementOfSeq
<1>2. 1 \in Int /\ n \in Int /\ n + 1 - 1 = n /\ n - 1 + 1 = n /\ \A k \in 1..n : 1 + k - 1 = k
  BY <1>1
<1>. HIDE DEF n
<1>3. Below' = SubSeq(stack', 1, n)
  BY <1>1, <1>2 DEF Below
<1>4. /\ SubSeq(stack', 1, n) \in Seq(G)
      /\ Len(SubSeq(stack', 1, n)) = IF 1 <= n THEN n - 1 + 1 ELSE 0
      /\ \A k \in 1..n - 1 + 1 : SubSeq(stack', 1, n)[k] = stack'[1 + k - 1]
  BY <1>1, <1>2, SubSeqProperties
<1>5. Len(SubSeq(stack', 1, n)) = n /\ \A k \in 1..n : SubSeq(stack', 1, n)[k] = q[k]
  BY <1>1, <1>2, <1>4
<1>6. SubSeq(stack', 1, n) = q
  BY <1>4, <1>5, SeqEqual DEF n
<1>7. Top' = f /\ Len(stack') > 0
  BY <1>1 DEF Top
<1>. QED  BY <1>3, <1>6, <1>7

\* Who is at work on the batch, by the frame on top.
LEMMA OnTop ==
  ASSUME NEW many \in BOOLEAN, EdgeInv, Batching(many)
  PROVE  /\ Running("call") => Opened(many) \/ (Calm(many) /\ pending = NoBatch /\ Top.opened = 0)
         /\ \A kind \in {"notify", "deliver", "drain"} : Running(kind) => Calm(many) /\ pending = NoBatch
         /\ Running("flush") => Flushing(many) \/ (Calm(many) /\ Top.batch = NoBatch)
         /\ stack = <<>> => Calm(many) /\ pending = NoBatch
<1>1. ASSUME Calm(many), Len(stack) > 0 PROVE Top \in Idle(many) /\ Below \in Seq(Idle(many))
  BY <1>1, StackLemma DEF Calm
<1>2. Calm(many) \/ Opened(many) \/ Flushing(many)
  BY DEF Batching
<1>3. stack = <<>> => ~Opened(many) /\ ~Flushing(many) /\ ~Running("flush")
  BY DEF Opened, Flushing, Running
<1>4. Calm(many) /\ Running("flush") => Flushing(many) \/ Top.batch = NoBatch
  BY <1>1 DEF Calm, Flushing, Running
<1>5. Calm(many) /\ ~Running("flush") => pending = NoBatch
  BY DEF Calm
<1>6. Calm(many) /\ Running("call") => Top.opened = 0
  BY <1>1 DEF Running, Idle
<1>. QED  BY <1>2, <1>3, <1>4, <1>5, <1>6 DEF Opened, Flushing, Running

LEMMA CallsBatch ==
  ASSUME NEW many \in BOOLEAN, EdgeInv, Batching(many),
         BeginTransaction \/ EndTransaction \/ Return \/ StartTask
  PROVE  Batching(many)'
<1>0. depth \in Nat /\ MaxDepth \in Nat
  BY CarburetorAssumption DEF EdgeInv, StoreTypes
<1>1. UNCHANGED <<notified, version, pending>>
  BY DEF BeginTransaction, EndTransaction, Return, StartTask, storeVars
<1>2. /\ Running("call") => Opened(many) \/ (Calm(many) /\ pending = NoBatch /\ Top.opened = 0)
      /\ stack = <<>> => Calm(many) /\ pending = NoBatch
  BY OnTop
<1>3. /\ \A s \in Stores : notified[s] <= version[s]
      /\ ~many /\ pending # NoBatch => \A s \in Stores : notified[s] < version[s]
  BY DEF Batching
<1>4. ASSUME Running("call")
      PROVE  /\ Top \in [kind : {"call"}, who : Subscribers \cup {NoOne}, opened : Nat]
             /\ Below \in Seq(Idle(many)) /\ Top.opened = depth /\ Len(stack) > 0
             /\ \A n \in Nat : /\ [Top EXCEPT !.opened = n] \in WaveFrame
                               /\ [Top EXCEPT !.opened = n].kind = "call"
                               /\ [Top EXCEPT !.opened = n].opened = n
  <2>1. Top \in [kind : {"call"}, who : Subscribers \cup {NoOne}, opened : Nat]
    BY <1>4, TopLemma, FrameLemma DEF Running
  <2>2. Below \in Seq(Idle(many)) /\ Top.opened = depth /\ Len(stack) > 0
    BY <1>2, <1>4, StackLemma DEF Opened, Calm, Running
  <2>. QED  BY <2>1, <2>2 DEF WaveFrame, PlainFrame
<1>5. Idle(many) \subseteq WaveFrame /\ Seq(Idle(many)) \subseteq Seq(WaveFrame)
  BY SeqMonotonic DEF Idle
\* A call with n transactions open on what was below the top.
<1>6. ASSUME Running("call"), NEW n \in Nat, n > 0, depth' = n,
             stack' = Retop([Top EXCEPT !.opened = n])
      PROVE  Batching(many)'
  <2>. DEFINE f == [Top EXCEPT !.opened = n]
  <2>1. f \in WaveFrame /\ f.kind = "call" /\ f.opened = n /\ Below \in Seq(Idle(many))
        /\ Below \in Seq(WaveFrame)
    BY <1>4, <1>5, <1>6
  <2>2. stack' = Append(Below, f)
    BY <1>6 DEF Retop
  <2>. HIDE DEF f
  <2>3. Top' = f /\ Below' = Below /\ Len(stack') > 0
    BY <2>1, <2>2, PushedTop
  <2>4. Opened(many)' /\ ~Flushing(many)'
    BY <1>6, <2>1, <2>3 DEF Opened, Flushing, Running
  <2>. QED  BY <1>1, <1>3, <2>4 DEF Batching
<1>7. CASE BeginTransaction
  <2>1. Running("call") /\ depth' = depth + 1 /\ stack' = Retop([Top EXCEPT !.opened = depth + 1])
    BY <1>4, <1>7 DEF BeginTransaction
  <2>. QED  BY <1>0, <1>6, <2>1
<1>8. CASE EndTransaction
  <2>. DEFINE f == [Top EXCEPT !.opened = depth - 1]
              g == [kind |-> "flush", batch |-> NoBatch]
  <2>1. /\ Running("call") /\ depth > 0
        /\ depth' = IF depth > 1 THEN depth - 1 ELSE 0
        /\ stack' = IF depth > 1 THEN Retop(f) ELSE Append(Retop(f), g)
    BY <1>4, <1>8 DEF EndTransaction
  <2>2. CASE depth > 1
    BY <1>0, <1>6, <2>1, <2>2
  <2>3. CASE ~(depth > 1)
    <3>1. depth - 1 = 0 /\ depth - 1 \in Nat
      BY <1>0, <2>1, <2>3
    <3>2. f \in Idle(many) /\ Below \in Seq(Idle(many))
      BY <1>4, <2>1, <3>1 DEF Idle
    <3>3. g \in Idle(many) /\ g.kind = "flush" /\ g.batch = NoBatch
      BY DEF Idle, WaveFrame, PlainFrame, NoBatch
    <3>4. stack' = Append(Append(Below, f), g)
      BY <2>1, <2>3 DEF Retop
    <3>. HIDE DEF f, g
    <3>5. Append(Below, f) \in Seq(Idle(many)) /\ stack' \in Seq(Idle(many))
      BY <3>2, <3>3, <3>4, PushSeq
    <3>6. Top' = g /\ Len(stack') > 0
      BY <3>3, <3>4, <3>5, PushedTop
    <3>7. Calm(many)' /\ ~Flushing(many)'
      BY <2>1, <2>3, <3>3, <3>5, <3>6 DEF Calm, Flushing, Running
    <3>. QED  BY <1>1, <1>3, <3>7 DEF Batching
  <2>. QED  BY <2>2, <2>3
<1>9. CASE Return
  <2>1. Running("call") /\ Top.opened = 0 /\ stack' = Below /\ depth' = depth
    BY <1>9 DEF Return
  <2>2. Calm(many) /\ pending = NoBatch /\ Len(stack) > 0
    BY <1>2, <2>1 DEF Opened, Running
  <2>. QED  BY <1>1, <2>1, <2>2, CalmStep DEF Calm
<1>10. CASE StartTask
  <2>1. stack = <<>> /\ stack' = <<Call(NoOne)>> /\ depth' = depth
    BY <1>10 DEF StartTask
  <2>2. stack' = Append(stack, Call(NoOne)) /\ Call(NoOne) \in Idle(many)
    BY <2>1, IdleLemma
  <2>. QED  BY <1>1, <1>2, <2>1, <2>2, CalmStep DEF Calm
<1>. QED  BY <1>7, <1>8, <1>9, <1>10

LEMMA PublishBatch ==
  ASSUME NEW many \in BOOLEAN, many \/ OneStore, EdgeInv, Batching(many),
         NEW s \in Stores, Publish(s)
  PROVE  Batching(many)'
<1>0. /\ depth \in Nat /\ MaxVersion \in Nat
      /\ version \in [Stores -> 0..MaxVersion] /\ notified \in [Stores -> 0..MaxVersion]
  BY CarburetorAssumption DEF EdgeInv, StoreTypes
<1>1. depth' = depth /\ Running("call") /\ (Opened(many) \/ (Calm(many) /\ pending = NoBatch))
  BY PublishLemma, OnTop
<1>2. CASE UNCHANGED <<version, notified, writes, writeLog, pending, registered, record,
                       stack, cell>>
  BY <1>1, <1>2, BatchRests
<1>3. CASE Published(s)
  <2>1. \A t \in Stores : notified[t] <= version[t]
    BY DEF Batching
  <2>2. version' = [version EXCEPT ![s] = @ + 1]
    BY <1>3 DEF Published
  <2>3. CASE depth > 0 /\ UNCHANGED <<stack, notified, record>>
    <3>1. Opened(many)
      BY <1>1, <2>3 DEF Calm
    <3>2. Opened(many)' /\ ~Flushing(many)'
      BY <1>1, <2>3, <3>1 DEF Opened, Flushing, Running, Top, Below
    <3>3. ASSUME NEW t \in Stores
          PROVE  notified'[t] <= version'[t] /\ (t = s => notified'[t] < version'[t])
      BY <1>0, <2>1, <2>2, <2>3
    <3>4. ~many => \A t \in Stores : t = s
      BY DEF OneStore
    <3>. QED  BY <3>2, <3>3, <3>4 DEF Batching
  <2>4. CASE depth = 0 /\ pending' = pending /\ Notifies(s, Closed(s), version[s] + 1, stack)
    <3>1. Calm(many) /\ pending = NoBatch
      BY <1>1, <2>4 DEF Opened
    <3>2. \E f \in Idle(many) : stack' = Append(stack, f)
      BY <2>4, IdleLemma DEF Notifies
    <3>3. notified' = [notified EXCEPT ![s] = IF @ < version[s] + 1 THEN version[s] + 1 ELSE @]
      BY <2>4 DEF Notifies
    <3>4. ASSUME NEW t \in Stores PROVE notified'[t] <= version'[t]
      BY <1>0, <2>1, <2>2, <3>3
    <3>. QED  BY <1>1, <2>4, <3>1, <3>2, <3>4, CalmStep
  <2>. QED  BY <1>3, <2>3, <2>4 DEF Published
<1>. QED  BY <1>2, <1>3, PublishLemma

LEMMA FlushBatch ==
  ASSUME NEW many \in BOOLEAN, many \/ OneStore, EdgeInv, Batching(many),
         UNCHANGED computedVars, TakeBatch \/ \E s \in Stores : NotifyBatched(s)
  PROVE  Batching(many)'
<1>0. Running("flush") => Flushing(many) \/ (Calm(many) /\ Top.batch = NoBatch)
  BY OnTop
<1>1. CASE TakeBatch
  <2>1. /\ pending' = NoBatch /\ Running("flush") /\ Top.batch = NoBatch /\ pending # NoBatch
        /\ UNCHANGED <<version, notified, depth>>
    BY <1>1 DEF TakeBatch, storeVars
  <2>2. PICK f \in DueFrame : f.kind = "flush" /\ f.batch = pending /\ stack' = Retop(f)
    BY <1>1, TakeLemma
  <2>3. Calm(many) /\ Len(stack) > 0
    BY <1>0, <2>1 DEF Flushing, Running
  <2>4. /\ Below \in Seq(Idle(many)) /\ Below \in Seq(WaveFrame) /\ f \in WaveFrame
        /\ stack' = Append(Below, f)
    <3>1. Below \in Seq(Idle(many))
      BY <2>3, StackLemma DEF Calm
    <3>2. Below \in Seq(WaveFrame)
      BY <3>1, SeqMonotonic DEF Idle
    <3>. QED  BY <2>2, <3>1, <3>2, DueLemma DEF Retop
  <2>5. Top' = f /\ Below' = Below /\ Len(stack') > 0
    BY <2>4, PushedTop
  <2>6. Flushing(many)'
    BY <2>1, <2>2, <2>3, <2>4, <2>5 DEF Flushing, Running, Calm
  <2>. QED  BY <2>1, <2>6 DEF Batching
<1>2. ASSUME NEW s \in Stores, NotifyBatched(s) PROVE Batching(many)'
  <2>1. /\ UNCHANGED <<version, pending, depth>> /\ Len(stack) > 0 /\ Top.kind = "flush"
        /\ Top.batch[s] # {}
    BY <1>2, NotifyBatchedLemma
  <2>2. PICK f \in DueFrame : /\ f.kind = "flush" /\ f.batch = [Top.batch EXCEPT ![s] = {}]
                              /\ Notifies(s, Top.batch[s], version[s], Retop(f))
    BY <1>2, NotifyBatchedLemma
  <2>3. Flushing(many)
    BY <1>0, <2>1 DEF Running, NoBatch
  <2>4. Top \in [kind : {"flush"}, batch : [Stores -> SUBSET AllPaths]]
    BY <2>1, TopLemma, FrameLemma
  <2>5. ~many => f.batch = NoBatch
    <3>1. ~many => \A t \in Stores : t = s
      BY DEF OneStore
    <3>. QED  BY <2>2, <2>4, <3>1 DEF NoBatch
  <2>6. f \in Idle(many)
    BY <2>2, <2>5, IdleLemma
  <2>7. PICK g \in Idle(many) : g.kind = "notify" /\ stack' = Append(Retop(f), g)
    BY <2>2, IdleLemma DEF Notifies
  <2>8. stack' \in Seq(Idle(many)) /\ Top' = g
    <3>1. Below \in Seq(Idle(many))
      BY <2>3 DEF Flushing
    <3>2. Retop(f) \in Seq(Idle(many))
      BY <2>6, <3>1, PushSeq DEF Retop
    <3>. QED  BY <2>7, <3>2, PushSeq, PushedTop
  <2>9. Calm(many)' /\ ~Flushing(many)' /\ pending' = NoBatch
    BY <2>1, <2>3, <2>7, <2>8 DEF Calm, Flushing, Running
  <2>10. ASSUME NEW t \in Stores PROVE notified'[t] <= version'[t]
    <3>1. notified \in [Stores -> 0..MaxVersion] /\ version \in [Stores -> 0..MaxVersion]
          /\ MaxVersion \in Nat
      BY CarburetorAssumption DEF EdgeInv, StoreTypes
    <3>2. notified' = [notified EXCEPT ![s] = IF @ < version[s] THEN version[s] ELSE @]
          /\ notified[t] <= version[t]
      BY <2>2 DEF Notifies, Batching
    <3>. QED  BY <2>1, <3>1, <3>2
  <2>. QED  BY <2>9, <2>10 DEF Batching
<1>. QED  BY <1>1, <1>2

\* The engine at work on an idle stack.
LEMMA EngineBatch ==
  ASSUME NEW many \in BOOLEAN, EdgeInv, Batching(many),
         \/ \E i \in Plain : Deliver(i) /\ UNCHANGED computedVars
         \/ \E c \in Computeds : DeliverEdge(c) \/ \E s \in Stores : RunEdge(c, s)
         \/ EndPass \/ EndDrain \/ EndDeliver \/ SettleNext
         \/ \E o \in Observers : WakeObserver(o)
  PROVE  Batching(many)'
<1>0. /\ wave \in Seq(Due) /\ Idle(many) \subseteq WaveFrame /\ Call(NoOne) \in Idle(many)
      /\ \A f \in DueFrame : f.kind \notin {"call", "flush"} => f \in Idle(many)
      /\ \A q \in Seq(Due) : [kind |-> "drain", todo |-> q] \in Idle(many)
  BY IdleLemma, PushedFrames DEF EdgeInv, WorkTypes
<1>1. \A kind \in {"notify", "deliver", "drain"} : Running(kind) => Calm(many) /\ pending = NoBatch
  BY OnTop
<1>2. ASSUME Running("notify") \/ Running("deliver"), NEW x
      PROVE  [Top EXCEPT !.todo = @ \ {x}] \in Idle(many)
  BY <1>0, <1>2, WorkedOn DEF Running
<1>3. ASSUME Running("drain"), NEW q \in Seq(Due)
      PROVE  [Top EXCEPT !.todo = q] \in Idle(many)
  BY <1>0, <1>3, WorkedOn DEF Running
<1>4. ASSUME NEW i \in Plain, Deliver(i), UNCHANGED computedVars PROVE Batching(many)'
  <2>. DEFINE f == [Top EXCEPT !.todo = @ \ {i}]
  <2>1. /\ Running("notify") /\ StoresStand /\ depth' = depth
        /\ stack' = Retop(f) \/ stack' = Append(Retop(f), Call(i))
    BY <1>4 DEF Deliver, storeVars, computedVars, StoresStand
  <2>2. f \in Idle(many) /\ Call(i) \in Idle(many)
    BY <1>2, <2>1, IdleLemma DEF Plain
  <2>. HIDE DEF f
  <2>3. Calm(many) /\ pending = NoBatch /\ Len(stack) > 0
    BY <1>1, <2>1 DEF Running
  <2>. QED  BY <2>1, <2>2, <2>3, CalmWork
<1>5. ASSUME NEW c \in Computeds, DeliverEdge(c) PROVE Batching(many)'
  <2>. DEFINE f == [Top EXCEPT !.todo = @ \ {<<c, Top.store>>}]
  <2>1. Running("notify") /\ StoresStand /\ depth' = depth /\ stack' = Retop(f)
    BY <1>5 DEF DeliverEdge, storeVars, StoresStand
  <2>2. f \in Idle(many)
    BY <1>2, <2>1
  <2>. HIDE DEF f
  <2>3. Calm(many) /\ pending = NoBatch /\ Len(stack) > 0
    BY <1>1, <2>1 DEF Running
  <2>. QED  BY <2>1, <2>2, <2>3, CalmWork
<1>6. ASSUME NEW c \in Computeds, NEW s \in Stores, RunEdge(c, s) PROVE Batching(many)'
  <2>1. /\ stack = <<>> /\ StoresStand /\ depth' = depth
        /\ stack' = stack \/ stack' = Append(stack, DeliverTo(c))
    BY <1>6 DEF RunEdge, Settle, storeVars, StoresStand
  <2>2. DeliverTo(c) \in Idle(many)
    BY <1>0, PushedFrames DEF DeliverTo, EdgeInv
  <2>3. Calm(many) /\ pending = NoBatch
    BY <2>1, OnTop
  <2>. QED  BY <2>1, <2>2, <2>3, CalmWork
<1>7. CASE EndPass
  <2>. DEFINE g == [kind |-> "drain", todo |-> wave]
  <2>1. /\ StoresStand /\ depth' = depth /\ Len(stack) > 0
        /\ stack' = Below \/ stack' = Append(stack, g) \/ stack' = Retop(g)
    BY <1>7 DEF EndPass, PassDone, Running, Retop, storeVars, StoresStand
  <2>2. Calm(many) /\ pending = NoBatch
    <3>1. Running("flush") => Flushing(many) \/ Calm(many)
      BY OnTop
    <3>. QED  BY <1>1, <1>7, <3>1 DEF EndPass, PassDone, Flushing
  <2>3. g \in Idle(many)
    BY <1>0
  <2>. HIDE DEF g
  <2>. QED  BY <2>1, <2>2, <2>3, CalmWork
<1>8. CASE EndDrain
  <2>. DEFINE f == [Top EXCEPT !.todo = wave]
  <2>1. /\ Running("drain") /\ StoresStand /\ depth' = depth /\ Len(stack) > 0
        /\ stack' = Below \/ stack' = Retop(f)
    BY <1>8 DEF EndDrain, Running, storeVars, StoresStand
  <2>2. f \in Idle(many)
    BY <1>0, <1>3, <2>1
  <2>. HIDE DEF f
  <2>. QED  BY <1>1, <2>1, <2>2, CalmWork
<1>9. CASE EndDeliver
  <2>1. /\ Running("deliver") /\ StoresStand /\ depth' = depth /\ Len(stack) > 0
        /\ stack' = Below
    BY <1>9 DEF EndDeliver, Running, storeVars, computedVars, StoresStand
  <2>. QED  BY <1>1, <2>1, CalmWork
<1>10. CASE SettleNext
  <2>. DEFINE next == Head(Top.todo)
              rest == Tail(Top.todo)
              f == [Top EXCEPT !.todo = rest]
  <2>1. /\ Running("drain") /\ StoresStand /\ depth' = depth /\ Len(stack) > 0 /\ Top.todo # <<>>
        /\ stack' = Retop(f) \/ stack' = Append(Retop(f), DeliverTo(next.comp))
    BY <1>10 DEF SettleNext, Settle, Running, storeVars, StoresStand
  <2>2. next \in Due /\ rest \in Seq(Due)
    <3>1. Top \in [kind : {"drain"}, todo : Seq(Due)]
      BY <2>1, TopLemma, FrameLemma DEF Running
    <3>. QED  BY <2>1, <3>1, HeadTailProperties
  <2>. HIDE DEF rest, next
  <2>3. f \in Idle(many)
    BY <1>3, <2>1, <2>2
  <2>4. DeliverTo(next.comp) \in Idle(many)
    BY <1>0, <2>2, PushedFrames DEF DeliverTo, EdgeInv, Due, Settlement
  <2>. HIDE DEF f
  <2>. QED  BY <1>1, <2>1, <2>3, <2>4, CalmWork
<1>11. ASSUME NEW o \in Observers, WakeObserver(o) PROVE Batching(many)'
  <2>. DEFINE f == [Top EXCEPT !.todo = @ \ {o}]
  <2>1. /\ Running("deliver") /\ StoresStand /\ depth' = depth /\ Len(stack) > 0
        /\ stack' = Append(Retop(f), Call(NoOne))
    BY <1>11 DEF WakeObserver, Running, storeVars, computedVars, StoresStand
  <2>2. f \in Idle(many)
    BY <1>2, <2>1
  <2>. HIDE DEF f
  <2>. QED  BY <1>0, <1>1, <2>1, <2>2, CalmWork
<1>. QED  BY <1>4, <1>5, <1>6, <1>7, <1>8, <1>9, <1>10, <1>11

LEMMA NextBatch ==
  ASSUME NEW many \in BOOLEAN, many \/ OneStore, EdgeInv, Batching(many), [ComputedNext]_allVars
  PROVE  Batching(many)'
<1>1. CASE UNCHANGED allVars
  BY <1>1, BatchRests DEF allVars, vars, storeVars
<1>2. CASE StoreStep
  <2>1. UNCHANGED computedVars
    BY <1>2 DEF StoreStep
  <2>2. ASSUME NEW i \in Plain, NEW R \in ReadSets, Subscribe(i, R) PROVE Batching(many)'
    BY <2>2, BatchRests DEF Subscribe, storeVars
  <2>. QED  BY <1>2, <2>1, <2>2, CallsBatch, FlushBatch, EngineBatch DEF StoreStep
<1>3. ASSUME NEW s \in Stores, NEW W \in WriteSets, Write(s, W) PROVE Batching(many)'
  BY <1>3, BatchRests DEF Write, DraftWrite
<1>4. ASSUME NEW c \in Computeds, Get(c) PROVE Batching(many)'
  BY <1>4, BatchRests DEF Get, storeVars
<1>5. ASSUME NEW c \in Computeds, NEW o \in Observers, Observe(c, o) \/ Unobserve(c, o)
      PROVE  Batching(many)'
  <2>1. Running("call") /\ StoresStand /\ depth' = depth
    BY <1>5 DEF Observe, Unobserve, storeVars, StoresStand
  <2>2. Stands /\ (stack' = stack \/ Renewed(stack, stack'))
    BY <1>5, ObserveStands, UnobserveStands
  <2>3. CASE stack' = stack
    BY <2>1, <2>3, BatchRests DEF StoresStand
  <2>4. CASE Renewed(stack, stack')
    <3>1. stack' \in Seq(WaveFrame)
      <4>1. stack' \in Seq(DueFrame')
        BY <2>2 DEF Stands, EdgeInv, WorkTypes
      <4>2. Due' \subseteq Settlement
        BY DEF Due
      <4>3. Seq(Due') \subseteq Seq(Settlement)
        BY <4>2, SeqMonotonic
      <4>4. DueFrame' \subseteq WaveFrame
        BY <4>3 DEF DueFrame, WaveFrame
      <4>. QED  BY <4>1, <4>4, SeqMonotonic
    <3>. QED  BY <2>1, <2>4, <3>1, RenewedBatch
  <2>. QED  BY <2>2, <2>3, <2>4
<1>. QED  BY <1>1, <1>2, <1>3, <1>4, <1>5, PublishBatch, EngineBatch DEF ComputedNext

LEMMA InitBatch ==
  ASSUME NEW many \in BOOLEAN, ComputedInit
  PROVE  Batching(many)
<1>1. stack = <<>> /\ depth = 0 /\ pending = NoBatch /\ \A s \in Stores : notified[s] = 0 /\ version[s] = 0
  BY DEF ComputedInit, Init
<1>2. Calm(many) /\ ~Flushing(many)
  BY <1>1, EmptySeq DEF Calm, Flushing, Running
<1>. QED  BY <1>1, <1>2 DEF Batching

(***************************************************************************)
(* With waves in between as well, nothing is left in the batch between two *)
(* tasks, and no transaction is open.                                      *)
(***************************************************************************)
THEOREM BatchEndsWithWaves == ComputedSpec => []QuiescentBatch
<1>1. ComputedInit => EdgeInv /\ Batching(TRUE)
  BY InitEdges, InitBatch
<1>2. EdgeInv /\ Batching(TRUE) /\ [ComputedNext]_allVars => EdgeInv' /\ Batching(TRUE)'
  BY NextEdges, NextBatch
<1>3. EdgeInv /\ Batching(TRUE) => QuiescentBatch
  BY OnTop DEF Calm, QuiescentBatch
<1>. QED  BY <1>1, <1>2, <1>3, PTL DEF ComputedSpec

\* With one store, notifiedVersion stays behind what waits in a batch.
LEMMA NoFalseProofInOneStore ==
  ASSUME OneStore
  PROVE  ComputedSpec => []NoFalseProof
<1>1. ComputedInit => EdgeInv /\ Batching(FALSE)
  BY InitEdges, InitBatch
<1>2. EdgeInv /\ Batching(FALSE) /\ [ComputedNext]_allVars => EdgeInv' /\ Batching(FALSE)'
  BY NextEdges, NextBatch
<1>3. EdgeInv /\ Batching(FALSE) => NoFalseProof
  BY BatchIsBehind
<1>. QED  BY <1>1, <1>2, <1>3, PTL DEF ComputedSpec

(***************************************************************************)
(* With one store, get() never hands out a value that the store has moved  *)
(* away from: the answer that HAS_DRIFT gives from the marks alone is      *)
(* right, whatever transactions, flushes and callbacks publish meanwhile.  *)
(***************************************************************************)
THEOREM TrustedInOneStore ==
  ASSUME OneStore
  PROVE  ComputedSpec => []TrustedIsCurrent
BY NoFalseProofInOneStore, TrustedWhileBehind, PTL

-----------------------------------------------------------------------------
(***************************************************************************)
(* What the observers were told.  The fields that were announced, and the  *)
(* cache while it is valid, know every place they were made from: it is    *)
(* on as the value says, or it was written, in the draft or in a           *)
(* publication after the version of its leaf.                              *)
(***************************************************************************)
ReadPlaces(k) == {l \in Places : l[2] \in k.versions[l[1]].reads}
GateReads(c, on) == {Gate[c]} \cup IF on THEN Then[c] ELSE Else[c]

Shaped(k, c) ==
  /\ ReadPlaces(k) = GateReads(c, Gate[c] \in k.value)
  /\ k.value \subseteq ReadPlaces(k)

DraftAt(l) == Concerns(writes[l[1]], {l[2]})
LogAt(k, l) == LogMatches(l[1], k.versions[l[1]].at, {l[2]})
KnownAt(k, l) == (On(l) <=> l \in k.value) \/ DraftAt(l) \/ LogAt(k, l)

Faithful(k, c) == Shaped(k, c) /\ \A l \in ReadPlaces(k) : KnownAt(k, l)

\* A body that ran since with the gate the other way has seen a write to it.
GateTold(k, c) ==
  \/ Gate[c] \in k.value <=> Gate[c] \in k.announced.value
  \/ DraftAt(Gate[c])
  \/ LogAt(k.announced, Gate[c])

Tells(k, c) ==
  /\ \A s \in Stores : k.announced.versions[s].at <= version[s]
  /\ k.valid => Faithful(k, c)
  /\ k.observers # {} => Shaped(k, c) /\ Faithful(k.announced, c) /\ GateTold(k, c)

(***************************************************************************)
(* What is on its way to a computed: a settlement, the call of an edge, or *)
(* the pass that will make the call, for a write that is still in the      *)
(* draft or waits in a batch.                                              *)
(***************************************************************************)
SomeFrame(q, G) == \E k \in 1..Len(q) : q[k] \in G

Waits(queue, c) == \E k \in 1..Len(queue) : queue[k].comp = c /\ queue[k].live

Settlers(c) == {f \in WaveFrame : f.kind = "drain" /\ Waits(f.todo, c)}

Bringers(e, g) ==
  {f \in WaveFrame : f.kind = "notify" /\ f.store = e[2] /\ e \in f.todo /\ g <= f.generation}

Settling(c) == Waits(wave, c) \/ SomeFrame(stack, Settlers(c))

Called(e) ==
  /\ e \in registered
  /\ scheduled[e] # 0 \/ SomeFrame(stack, Bringers(e, record[e].generation))

Comes(c, l) == DraftAt(l) \/ Concerns(Unmatched(l[1]), {l[2]}) \/ Called(<<c, l[1]>>)

\* A body that throws announces nothing, until one of its places is written.
Stuck(k, c) == c \in Failing /\ (BodyFails(c) \/ \E l \in ReadPlaces(k) : Comes(c, l))

Coming(k, c) ==
  \A l \in ReadPlaces(k.announced) \cap ReadPlaces(k) :
    LogAt(k.announced, l) =>
      Settling(c) \/ Comes(c, l) \/ Comes(c, Gate[c]) \/ Stuck(k, c)

Tidings(c) == Tells(cell[c], c) /\ (cell[c].observers # {} => Coming(cell[c], c))

Numbered == \A e \in Edges \cap registered : 1 <= record[e].generation /\ record[e].generation <= counter[e[2]]

ToldInv == Numbered /\ \A c \in Computeds : Tidings(c)

SteadyFailures == \A c \in Failing : Then[c] = Else[c]

-----------------------------------------------------------------------------
(***************************************************************************)
(* The places.                                                             *)
(***************************************************************************)
LEMMA PlaceLemma ==
  ASSUME EdgeTypes, NEW c \in Computeds, NEW k, k = cell[c] \/ k = cell[c].announced,
         NEW l \in ReadPlaces(k)
  PROVE  /\ l \in Places /\ l[1] \in Stores /\ l[2] \in Paths
         /\ l[2] \in k.versions[l[1]].reads
         /\ l[1] \in Leaves(k.versions)
         /\ LogAt(k, l) => LeafMatches(k, l[1])
<1>1. l \in Places /\ l[1] \in Stores /\ l[2] \in Paths /\ l[2] \in k.versions[l[1]].reads
  BY DEF ReadPlaces, Places
<1>2. l[1] \in Leaves(k.versions)
  BY <1>1 DEF Leaves
<1>3. LogAt(k, l) => LeafMatches(k, l[1])
  BY <1>1 DEF LogAt, LeafMatches, LogMatches, Concerns
<1>. QED  BY <1>1, <1>2, <1>3

LEMMA GateLemma ==
  ASSUME NEW c \in Computeds, NEW k, Shaped(k, c)
  PROVE  Gate[c] \in ReadPlaces(k) /\ Gate[c] \in Places
BY BodyLemma DEF Shaped, GateReads

\* The places a body reads are those of its leaves.
LEMMA CollectedLemma ==
  ASSUME NEW c \in Computeds, NEW k, \A s \in Stores : k.versions[s].reads = Collected(c)[s]
  PROVE  ReadPlaces(k) = BodyReads(c)
<1>1. \A s \in Stores, p \in Paths : p \in Collected(c)[s] <=> <<s, p>> \in BodyReads(c)
  BY DEF Collected
<1>2. \A l \in Places : l = <<l[1], l[2]>> /\ l[1] \in Stores /\ l[2] \in Paths
  BY DEF Places
<1>3. \A l \in Places : l \in ReadPlaces(k) <=> l \in BodyReads(c)
  BY <1>1, <1>2 DEF ReadPlaces
<1>4. BodyReads(c) \subseteq Places /\ ReadPlaces(k) \subseteq Places
  BY BodyLemma DEF ReadPlaces
<1>. QED  BY <1>3, <1>4

\* A body that has just run knows what it read.
LEMMA RanFaithful ==
  ASSUME NEW c \in Computeds, NEW k, k.value = BodyValue(c),
         \A s \in Stores : k.versions[s].reads = Collected(c)[s]
  PROVE  Faithful(k, c)
<1>1. ReadPlaces(k) = BodyReads(c)
  BY CollectedLemma
<1>2. /\ Gate[c] \in k.value <=> On(Gate[c])
      /\ k.value \subseteq ReadPlaces(k)
      /\ \A l \in ReadPlaces(k) : On(l) <=> l \in k.value
  BY <1>1 DEF BodyValue, BodyReads
<1>3. ReadPlaces(k) = GateReads(c, Gate[c] \in k.value)
  BY <1>1, <1>2 DEF BodyReads, GateReads
<1>. QED  BY <1>2, <1>3 DEF Faithful, Shaped, KnownAt

\* What fields say is a matter of the stores.
LEMMA TellsStands ==
  ASSUME UNCHANGED <<version, writes, writeLog, data>>, NEW c \in Computeds,
         Tells(cell'[c], c)
  PROVE  Tells(cell[c], c)'
<1>1. version' = version /\ writes' = writes /\ writeLog' = writeLog /\ data' = data
  OBVIOUS
<1>2. Faithful(cell'[c], c) => Faithful(cell[c], c)'
  BY <1>1 DEF Faithful, Shaped, ReadPlaces, GateReads, KnownAt, DraftAt, LogAt, LogMatches, On
<1>3. Faithful(cell'[c].announced, c) => Faithful(cell[c].announced, c)'
  BY <1>1 DEF Faithful, Shaped, ReadPlaces, GateReads, KnownAt, DraftAt, LogAt, LogMatches, On
<1>4. Shaped(cell'[c], c) => Shaped(cell[c], c)'
  BY DEF Shaped, ReadPlaces, GateReads
<1>5. GateTold(cell'[c], c) => GateTold(cell[c], c)'
  BY <1>1 DEF GateTold, DraftAt, LogAt, LogMatches
<1>. QED  BY <1>1, <1>2, <1>3, <1>4, <1>5 DEF Tells

\* Fields that say the same.
Alike(k, j) == k.value = j.value /\ k.versions = j.versions

LEMMA AlikeLemma ==
  ASSUME NEW c, NEW k, NEW j, Alike(k, j)
  PROVE  /\ ReadPlaces(k) = ReadPlaces(j)
         /\ Shaped(k, c) <=> Shaped(j, c)
         /\ Faithful(k, c) <=> Faithful(j, c)
         /\ \A l : LogAt(k, l) <=> LogAt(j, l)
<1>1. ReadPlaces(k) = ReadPlaces(j)
  BY DEF Alike, ReadPlaces
<1>2. Shaped(k, c) <=> Shaped(j, c)
  BY <1>1 DEF Alike, Shaped
<1>3. \A l : LogAt(k, l) <=> LogAt(j, l)
  BY DEF Alike, LogAt
<1>4. \A l : KnownAt(k, l) <=> KnownAt(j, l)
  BY <1>3 DEF Alike, KnownAt
<1>. QED  BY <1>1, <1>2, <1>3, <1>4 DEF Faithful

-----------------------------------------------------------------------------
(***************************************************************************)
(* What a step that leaves the stores alone makes of the fields of c.      *)
(***************************************************************************)
StoresSame == UNCHANGED <<version, writes, writeLog, data>>

\* A write that the announcement has not seen moved its store.
LEMMA UntoldMoved ==
  ASSUME EdgeInv, NEW c \in Computeds, NEW l \in ReadPlaces(cell[c].announced),
         LogAt(cell[c].announced, l), Tells(cell[c], c)
  PROVE  AnnouncementMoved(c)
<1>. DEFINE s == l[1]
            told == cell[c].announced.versions
<1>1. s \in Stores /\ s \in Leaves(told) /\ EdgeTypes /\ StoreTypes
  BY PlaceLemma DEF EdgeInv
<1>2. \E v \in 1..MaxVersion : told[s].at < v /\ v <= version[s]
  BY DEF LogAt, LogMatches
<1>3. told[s].at \in Nat /\ version[s] \in Nat /\ MaxVersion \in Nat
  BY <1>1, CarburetorAssumption DEF EdgeTypes, StoreTypes, Cell, Leaf
<1>4. version[s] # told[s].at
  BY <1>2, <1>3
<1>. QED  BY <1>1, <1>4 DEF AnnouncementMoved

\* Coming(cell[c], c) after the step.
ComingTo(c, k) ==
  \A l \in ReadPlaces(k.announced) \cap ReadPlaces(k) :
    LogAt(k.announced, l) =>
      \/ Settling(c)'
      \/ Comes(c, l)'
      \/ Comes(c, Gate[c])'
      \/ c \in Failing /\ (BodyFails(c) \/ \E m \in ReadPlaces(k) : Comes(c, m)')

LEMMA ComingStands ==
  ASSUME StoresSame, NEW c \in Computeds, ComingTo(c, cell'[c])
  PROVE  Coming(cell[c], c)'
<1>1. /\ version' = version /\ writes' = writes /\ writeLog' = writeLog /\ data' = data
  BY DEF StoresSame
<1>2. BodyFails(c)' <=> BodyFails(c)
  BY <1>1 DEF BodyFails, On
<1>3. /\ ReadPlaces(cell[c])' = ReadPlaces(cell'[c])
      /\ ReadPlaces(cell[c].announced)' = ReadPlaces(cell'[c].announced)
  BY DEF ReadPlaces
<1>4. \A l : LogAt(cell[c].announced, l)' <=> LogAt(cell'[c].announced, l)
  BY <1>1 DEF LogAt, LogMatches
<1>5. SUFFICES ASSUME NEW l \in ReadPlaces(cell[c].announced)' \cap ReadPlaces(cell[c])',
                      LogAt(cell[c].announced, l)'
               PROVE  Settling(c)' \/ Comes(c, l)' \/ Comes(c, Gate[c])' \/ Stuck(cell[c], c)'
  BY DEF Coming
<1>6. \/ Settling(c)'
      \/ Comes(c, l)'
      \/ Comes(c, Gate[c])'
      \/ c \in Failing /\ (BodyFails(c) \/ \E m \in ReadPlaces(cell'[c]) : Comes(c, m)')
  BY <1>3, <1>4, <1>5 DEF ComingTo
<1>. QED  BY <1>2, <1>3, <1>6 DEF Stuck

\* The value and what was announced of it stay.
LEMMA FieldsStay ==
  ASSUME EdgeInv, StoresSame, NEW c \in Computeds, Tidings(c),
         Alike(cell'[c], cell[c]), cell'[c].announced = cell[c].announced,
         cell'[c].valid => cell[c].valid, cell'[c].observers # {} => cell[c].observers # {},
         cell'[c].observers # {} =>
           \/ /\ \A l \in ReadPlaces(cell[c]) : Comes(c, l) => Comes(c, l)'
              /\ Settling(c) => Settling(c)'
           \/ Settling(c)'
           \/ BodyFails(c)
           \/ ~AnnouncementMoved(c)
  PROVE  Tidings(c)'
<1>1. /\ ReadPlaces(cell'[c]) = ReadPlaces(cell[c])
      /\ Shaped(cell'[c], c) <=> Shaped(cell[c], c)
      /\ Faithful(cell'[c], c) <=> Faithful(cell[c], c)
  BY AlikeLemma
<1>2. GateTold(cell[c], c) => GateTold(cell'[c], c)
  BY DEF GateTold, Alike
<1>3. Tells(cell'[c], c)
  BY <1>1, <1>2 DEF Tidings, Tells
<1>4. Tells(cell[c], c)'
  BY <1>3, TellsStands DEF StoresSame
<1>5. ASSUME cell'[c].observers # {} PROVE Coming(cell[c], c)'
  <2>1. Coming(cell[c], c) /\ Tells(cell[c], c) /\ Shaped(cell[c], c)
    BY <1>5 DEF Tidings, Tells
  <2>2. SUFFICES ASSUME NEW l \in ReadPlaces(cell[c].announced) \cap ReadPlaces(cell[c]),
                        LogAt(cell[c].announced, l)
                 PROVE  \/ Settling(c)'
                        \/ Comes(c, l)'
                        \/ Comes(c, Gate[c])'
                        \/ /\ c \in Failing
                           /\ BodyFails(c) \/ \E m \in ReadPlaces(cell[c]) : Comes(c, m)'
    BY <1>1, ComingStands DEF ComingTo
  <2>3. AnnouncementMoved(c)
    BY <2>1, <2>2, UntoldMoved
  <2>4. BodyFails(c) => c \in Failing
    BY DEF BodyFails
  <2>5. CASE /\ \A m \in ReadPlaces(cell[c]) : Comes(c, m) => Comes(c, m)'
             /\ Settling(c) => Settling(c)'
    <3>1. Settling(c) \/ Comes(c, l) \/ Comes(c, Gate[c]) \/ Stuck(cell[c], c)
      BY <2>1, <2>2 DEF Coming
    <3>2. Gate[c] \in ReadPlaces(cell[c])
      BY <2>1, GateLemma
    <3>. QED  BY <2>5, <3>1, <3>2 DEF Stuck
  <2>. QED  BY <1>5, <2>3, <2>4, <2>5
<1>. QED  BY <1>4, <1>5 DEF Tidings

\* Nobody observes.
LEMMA Unobserved ==
  ASSUME StoresSame, NEW c \in Computeds, cell'[c].observers = {},
         cell'[c].valid => Faithful(cell'[c], c),
         \A s \in Stores : cell'[c].announced.versions[s].at <= version[s]
  PROVE  Tidings(c)'
<1>1. Tells(cell'[c], c)
  BY DEF Tells
<1>2. Tells(cell[c], c)'
  BY <1>1, TellsStands DEF StoresSame
<1>. QED  BY <1>2 DEF Tidings

\* What is announced is what is there, and it has not drifted.
LEMMA FieldsAnnounced ==
  ASSUME StoresSame, NEW c \in Computeds, EdgeTypes',
         cell'[c].announced = [value |-> cell'[c].value, versions |-> cell'[c].versions],
         Faithful(cell'[c], c), \A s \in Stores : ~LeafMatches(cell'[c], s)
  PROVE  Tidings(c)'
<1>1. Alike(cell'[c].announced, cell'[c])
  BY DEF Alike
<1>2. Faithful(cell'[c].announced, c) /\ Shaped(cell'[c], c)
  BY <1>1, AlikeLemma DEF Faithful
<1>3. \A s \in Stores : cell'[c].announced.versions[s].at <= version[s]
  BY DEF EdgeTypes, StoresSame
<1>4. GateTold(cell'[c], c)
  BY DEF GateTold
<1>5. Tells(cell'[c], c)
  BY <1>2, <1>3, <1>4 DEF Tells
<1>6. Tells(cell[c], c)'
  BY <1>5, TellsStands DEF StoresSame
<1>7. ASSUME NEW l \in ReadPlaces(cell'[c]) PROVE ~LogAt(cell'[c].announced, l)
  <2>1. l[1] \in Stores /\ l[2] \in cell'[c].versions[l[1]].reads
    BY <1>7 DEF ReadPlaces, Places
  <2>2. ~LeafMatches(cell'[c], l[1])
    BY <2>1
  <2>. QED  BY <2>1, <2>2 DEF LogAt, LeafMatches, LogMatches, Concerns
<1>8. Coming(cell[c], c)'
  BY <1>7, ComingStands DEF ComingTo
<1>. QED  BY <1>6, <1>8 DEF Tidings

(***************************************************************************)
(* The body ran and nothing was announced of it.  If it read what it did   *)
(* not read before, then its gate is the other way, and a write to the     *)
(* gate is on its way.                                                     *)
(***************************************************************************)
LEMMA FieldsRan ==
  ASSUME EdgeInv, StoresSame, SteadyFailures, NEW c \in Computeds, Tidings(c), ~BodyFails(c),
         cell'[c].value = BodyValue(c),
         \A s \in Stores : cell'[c].versions[s].reads = Collected(c)[s],
         cell'[c].announced = cell[c].announced,
         cell[c].observers # {} /\ cell'[c].observers # {},
         \A l \in ReadPlaces(cell'[c]) : Comes(c, l) => Comes(c, l)',
         Settling(c) => Settling(c)'
  PROVE  Tidings(c)'
<1>. DEFINE gate == Gate[c]
<1>1. /\ Coming(cell[c], c) /\ Tells(cell[c], c) /\ Shaped(cell[c], c)
      /\ Faithful(cell[c].announced, c) /\ GateTold(cell[c], c)
  BY DEF Tidings, Tells
<1>2. Faithful(cell'[c], c) /\ ReadPlaces(cell'[c]) = BodyReads(c)
  BY RanFaithful, CollectedLemma
<1>3. /\ gate \in ReadPlaces(cell[c]) /\ gate \in ReadPlaces(cell[c].announced)
      /\ gate \in ReadPlaces(cell'[c])
  BY <1>1, <1>2, GateLemma DEF Faithful
<1>4. gate \in BodyValue(c) <=> On(gate)
  BY DEF BodyValue, BodyReads
<1>5. GateTold(cell'[c], c)
  <2>1. KnownAt(cell[c].announced, gate)
    BY <1>1, <1>3 DEF Faithful
  <2>. QED  BY <1>4, <2>1 DEF GateTold, KnownAt
<1>6. Tells(cell'[c], c)
  BY <1>1, <1>2, <1>5 DEF Tells, Faithful
<1>7. Tells(cell[c], c)'
  BY <1>6, TellsStands DEF StoresSame
<1>8. SUFFICES ASSUME NEW l \in ReadPlaces(cell[c].announced) \cap ReadPlaces(cell'[c]),
                      LogAt(cell[c].announced, l)
               PROVE  \/ Settling(c)'
                      \/ Comes(c, l)'
                      \/ Comes(c, gate)'
                      \/ c \in Failing /\ \E m \in ReadPlaces(cell'[c]) : Comes(c, m)'
  BY <1>7, ComingStands DEF ComingTo, Tidings
<1>9. Stuck(cell[c], c) => c \in Failing /\ \E m \in ReadPlaces(cell'[c]) : Comes(c, m)'
  <2>1. SUFFICES ASSUME Stuck(cell[c], c)
                 PROVE  c \in Failing /\ \E m \in ReadPlaces(cell'[c]) : Comes(c, m)'
    OBVIOUS
  <2>2. PICK m \in ReadPlaces(cell[c]) : Comes(c, m) /\ c \in Failing
    BY <2>1 DEF Stuck
  <2>3. ReadPlaces(cell'[c]) = ReadPlaces(cell[c])
    BY <1>1, <1>2, <2>2 DEF SteadyFailures, Shaped, GateReads, BodyReads
  <2>. QED  BY <2>2, <2>3
<1>10. CASE l \in ReadPlaces(cell[c])
  <2>1. Settling(c) \/ Comes(c, l) \/ Comes(c, gate) \/ Stuck(cell[c], c)
    BY <1>1, <1>8, <1>10 DEF Coming
  <2>. QED  BY <1>3, <1>8, <1>9, <2>1
<1>11. CASE l \notin ReadPlaces(cell[c])
  <2>1. ~(gate \in cell[c].value <=> gate \in cell[c].announced.value)
    BY <1>1, <1>8, <1>11 DEF Shaped, Faithful
  <2>2. DraftAt(gate) \/ LogAt(cell[c].announced, gate)
    BY <1>1, <2>1 DEF GateTold
  <2>3. Settling(c) \/ Comes(c, gate) \/ Stuck(cell[c], c)
    BY <1>1, <1>3, <2>2 DEF Coming, Comes
  <2>. QED  BY <1>3, <1>9, <2>3
<1>. QED  BY <1>10, <1>11

-----------------------------------------------------------------------------
(***************************************************************************)
(* What a step carries on: the frames of a set, the calls of an edge, and  *)
(* the settlements of a computed.                                          *)
(***************************************************************************)
Carries(G) == SomeFrame(stack, G) => SomeFrame(stack', G)

LEMMA SomePush ==
  ASSUME NEW D, NEW q \in Seq(D), NEW f \in D, NEW G
  PROVE  SomeFrame(Append(q, f), G) <=> SomeFrame(q, G) \/ f \in G
<1>. DEFINE r == Append(q, f)
<1>1. /\ Len(q) \in Nat /\ Len(r) = Len(q) + 1
      /\ \A k \in 1..Len(q) : r[k] = q[k]
      /\ r[Len(q) + 1] = f
  OBVIOUS
<1>. HIDE DEF r
<1>2. \A k \in 1..Len(r) : k \in 1..Len(q) \/ k = Len(q) + 1
  BY <1>1
<1>3. \A k \in 1..Len(q) : k \in 1..Len(r)
  BY <1>1
<1>4. Len(q) + 1 \in 1..Len(r)
  BY <1>1
<1>5. SomeFrame(r, G) <=> SomeFrame(q, G) \/ f \in G
  BY <1>1, <1>2, <1>3, <1>4 DEF SomeFrame
<1>. QED  BY <1>5 DEF r

LEMMA SomeTop ==
  ASSUME EdgeInv, Len(stack) > 0, NEW G
  PROVE  /\ SomeFrame(stack, G) <=> SomeFrame(Below, G) \/ Top \in G
         /\ \A f \in DueFrame : SomeFrame(Retop(f), G) <=> SomeFrame(Below, G) \/ f \in G
         /\ \A f, g \in DueFrame : SomeFrame(Append(Retop(f), g), G) <=>
              SomeFrame(Below, G) \/ f \in G \/ g \in G
<1>1. Below \in Seq(DueFrame) /\ Top \in DueFrame /\ stack = Append(Below, Top)
  BY StackLemma DEF EdgeInv, WorkTypes
<1>2. \A f \in DueFrame : Retop(f) \in Seq(DueFrame)
  BY <1>1, PushSeq DEF Retop
<1>3. \A f \in DueFrame : SomeFrame(Retop(f), G) <=> SomeFrame(Below, G) \/ f \in G
  BY <1>1, SomePush DEF Retop
<1>4. SomeFrame(stack, G) <=> SomeFrame(Below, G) \/ Top \in G
  BY <1>1, SomePush
<1>. QED  BY <1>2, <1>3, <1>4, SomePush

\* A step that pushes frames, or works on a top that is not of the set.
LEMMA ReshapedCarries ==
  ASSUME EdgeInv, Reshaped, NEW G, Len(stack) > 0 => Top \notin G
  PROVE  Carries(G)
<1>1. stack \in Seq(DueFrame)
  BY DEF EdgeInv, WorkTypes
<1>2. CASE stack' = stack
  BY <1>2 DEF Carries
<1>3. ASSUME NEW f \in DueFrame, stack' = Append(stack, f) PROVE Carries(G)
  BY <1>1, <1>3, SomePush DEF Carries
<1>4. CASE Len(stack) > 0 /\ stack' = Below
  BY <1>4, SomeTop DEF Carries
<1>5. ASSUME Len(stack) > 0, NEW f \in DueFrame, stack' = Retop(f) PROVE Carries(G)
  BY <1>5, SomeTop DEF Carries
<1>6. ASSUME Len(stack) > 0, NEW f \in DueFrame, NEW g \in DueFrame, stack' = Append(Retop(f), g)
      PROVE  Carries(G)
  BY <1>6, SomeTop DEF Carries
<1>7. CASE Len(stack) > 0 /\ \E f \in DueFrame : stack' = Retop(f)
  BY <1>5, <1>7
<1>8. CASE Len(stack) > 0 /\ \E f, g \in DueFrame : stack' = Append(Retop(f), g)
  BY <1>6, <1>8
<1>9. CASE \E f \in DueFrame : stack' = Append(stack, f)
  BY <1>3, <1>9
<1>. QED  BY <1>2, <1>4, <1>7, <1>8, <1>9, Zenon DEF Reshaped, Retop

\* A step that works on its top.
LEMMA RetopCarries ==
  ASSUME EdgeInv, Len(stack) > 0, NEW f \in DueFrame, NEW G, Top \in G => f \in G,
         stack' = Retop(f) \/ \E g \in DueFrame : stack' = Append(Retop(f), g)
  PROVE  Carries(G)
<1>1. CASE stack' = Retop(f)
  BY <1>1, SomeTop DEF Carries
<1>2. ASSUME NEW g \in DueFrame, stack' = Append(Retop(f), g) PROVE Carries(G)
  BY <1>2, SomeTop DEF Carries
<1>. QED  BY <1>1, <1>2

CallKept(e) == e \in registered' /\ Called(e) => Called(e)'

WaitsKept(z) == Settling(z) => Settling(z)'

NumbersKept ==
  /\ \A s \in Stores : counter[s] <= counter'[s]
  /\ \A e \in Edges \cap registered' :
       IF e \in registered THEN record'[e].generation = record[e].generation
       ELSE 1 <= record'[e].generation /\ record'[e].generation <= counter'[e[2]]

LEMMA NumberedLemma ==
  ASSUME EdgeInv, EdgeInv', Numbered, NumbersKept
  PROVE  Numbered'
<1>1. SUFFICES ASSUME NEW e \in Edges, e \in registered'
               PROVE  1 <= record'[e].generation /\ record'[e].generation <= counter'[e[2]]
  BY DEF Numbered
<1>2. e \in Subscribers /\ e[2] \in Stores
  BY ComputedAssumption DEF Edges
<1>3. counter[e[2]] \in Nat /\ counter'[e[2]] \in Nat /\ record[e].generation \in Nat
  BY <1>2 DEF EdgeInv, EdgeTypes, Registration
<1>4. counter[e[2]] <= counter'[e[2]]
  BY <1>2 DEF NumbersKept
<1>5. CASE e \in registered
  <2>1. record'[e].generation = record[e].generation
    BY <1>1, <1>5 DEF NumbersKept
  <2>2. 1 <= record[e].generation /\ record[e].generation <= counter[e[2]]
    BY <1>5 DEF Numbered
  <2>. QED  BY <1>3, <1>4, <2>1, <2>2
<1>6. CASE e \notin registered
  BY <1>1, <1>6 DEF NumbersKept
<1>. QED  BY <1>5, <1>6

LEMMA CallLemma ==
  ASSUME NumbersKept, NEW e \in Edges,
         e \in registered /\ e \in registered' /\ scheduled[e] # 0 => scheduled'[e] # 0,
         Carries(Bringers(e, record[e].generation))
  PROVE  CallKept(e)
<1>1. SUFFICES ASSUME e \in registered', Called(e) PROVE Called(e)'
  BY DEF CallKept
<1>2. record'[e].generation = record[e].generation /\ e \in registered
  BY <1>1 DEF NumbersKept, Called
<1>3. CASE scheduled[e] # 0
  BY <1>1, <1>2, <1>3 DEF Called
<1>4. CASE SomeFrame(stack, Bringers(e, record[e].generation))
  <2>1. SomeFrame(stack', Bringers(e, record'[e].generation))
    BY <1>2, <1>4 DEF Carries
  <2>. QED  BY <1>1, <2>1 DEF Called
<1>. QED  BY <1>1, <1>3, <1>4 DEF Called

\* The frames that matter are passes and drains.
LEMMA KindLemma ==
  /\ \A f, e, g : f \in Bringers(e, g) => f.kind = "notify"
  /\ \A f, z : f \in Settlers(z) => f.kind = "drain"
BY DEF Bringers, Settlers

\* What a step leaves that goes on with the work and leaves the stores alone.
Steady == EdgeInv' /\ StoresSame /\ \A s \in Stores : Unmatched(s) \subseteq Unmatched(s)'

LEMMA StandsSteady == Stands => Steady
BY DEF Stands, Steady, StoresStand, StoresSame

\* What is on its way to a place still is.
LEMMA StandsComes ==
  ASSUME EdgeInv, Steady, NEW c \in Computeds, cell'[c].observers # {},
         NEW l \in ReadPlaces(cell'[c]), CallKept(<<c, l[1]>>), Comes(c, l)
  PROVE  Comes(c, l)'
<1>1. l[1] \in Stores /\ l[2] \in cell'[c].versions[l[1]].reads
  BY DEF ReadPlaces, Places
<1>2. <<c, l[1]>> \in registered'
  BY <1>1 DEF Steady, EdgeInv, EdgesMatchReads
<1>3. writes' = writes /\ Unmatched(l[1]) \subseteq Unmatched(l[1])'
  BY <1>1 DEF Steady, StoresSame
<1>4. DraftAt(l) => DraftAt(l)'
  BY <1>3 DEF DraftAt
<1>5. Concerns(Unmatched(l[1]), {l[2]}) => Concerns(Unmatched(l[1])', {l[2]})
  BY <1>3 DEF Concerns
<1>6. Called(<<c, l[1]>>) => Called(<<c, l[1]>>)'
  BY <1>2 DEF CallKept
<1>7. Concerns(Unmatched(l[1])', {l[2]}) => Comes(c, l)'
  BY DEF Comes, Concerns
<1>. QED  BY <1>4, <1>5, <1>6, <1>7 DEF Comes

\* What a step carries on for c.
Kindly(c) == (\A s \in Stores : CallKept(<<c, s>>)) /\ WaitsKept(c)

(***************************************************************************)
(* A step that leaves the stores alone, and has nothing to do with c.      *)
(***************************************************************************)
LEMMA TidingsStand ==
  ASSUME EdgeInv, Steady, NEW c \in Computeds, Tidings(c), Kindly(c),
         Alike(cell'[c], cell[c]), cell'[c].announced = cell[c].announced,
         cell'[c].valid => cell[c].valid, cell'[c].observers # {} => cell[c].observers # {}
  PROVE  Tidings(c)'
<1>1. ReadPlaces(cell'[c]) = ReadPlaces(cell[c])
  BY AlikeLemma
<1>2. StoresSame
  BY DEF Steady
<1>3. \A l \in ReadPlaces(cell[c]) : l[1] \in Stores
  BY DEF ReadPlaces, Places
<1>4. ASSUME cell'[c].observers # {}, NEW l \in ReadPlaces(cell[c]), Comes(c, l) PROVE Comes(c, l)'
  BY <1>1, <1>3, <1>4, StandsComes DEF Kindly
<1>. QED  BY <1>2, <1>4, FieldsStay DEF WaitsKept, Kindly

\* A step that has nothing to do with any computed but c.
LEMMA ToldStands ==
  ASSUME EdgeInv, Steady, ToldInv, NumbersKept, NEW D,
         \A c \in Computeds \cap D : Tidings(c)',
         \A c \in Computeds \ D : cell'[c] = cell[c] /\ Kindly(c)
  PROVE  ToldInv'
<1>1. Numbered'
  BY NumberedLemma DEF Steady, ToldInv
<1>2. ASSUME NEW c \in Computeds, c \notin D PROVE Tidings(c)'
  <2>1. cell'[c] = cell[c] /\ Kindly(c) /\ Tidings(c)
    BY <1>2 DEF ToldInv
  <2>2. Alike(cell'[c], cell[c])
    BY <2>1 DEF Alike
  <2>. QED  BY <2>1, <2>2, TidingsStand
<1>. QED  BY <1>1, <1>2 DEF ToldInv

\* A step on the work alone.
LEMMA ToldWork ==
  ASSUME EdgeInv, Steady, ToldInv, EdgesUnchanged, cell' = cell, scheduled' = scheduled,
         \A e \in Edges, g \in Nat : Carries(Bringers(e, g)),
         \A c \in Computeds : WaitsKept(c)
  PROVE  ToldInv'
<1>1. NumbersKept
  <2>1. \A s \in Stores : counter[s] \in Nat
    BY DEF EdgeInv, EdgeTypes
  <2>. QED  BY <2>1 DEF NumbersKept, EdgesUnchanged
<1>2. ASSUME NEW c \in Computeds PROVE Kindly(c)
  <2>1. ASSUME NEW s \in Stores PROVE CallKept(<<c, s>>)
    <3>1. record[<<c, s>>].generation \in Nat /\ <<c, s>> \in Edges
      BY EdgeLemma DEF EdgeInv, EdgeTypes, Registration
    <3>. QED  BY <1>1, <3>1, CallLemma
  <2>. QED  BY <2>1 DEF Kindly
<1>3. /\ \A c \in Computeds \cap {} : Tidings(c)'
      /\ \A c \in Computeds \ {} : cell'[c] = cell[c] /\ Kindly(c)
  BY <1>2
<1>. QED  BY <1>1, <1>3, ToldStands

\* Where the frame that ran is no pass and no drain.
LEMMA ReshapedWork ==
  ASSUME EdgeInv, Reshaped, Len(stack) > 0 => Top.kind \notin {"notify", "drain"}, wave' = wave
  PROVE  /\ \A e \in Edges, g \in Nat : Carries(Bringers(e, g))
         /\ \A c \in Computeds : WaitsKept(c)
<1>1. \A e, g : Len(stack) > 0 => Top \notin Bringers(e, g)
  BY KindLemma
<1>2. \A c : Len(stack) > 0 => Top \notin Settlers(c)
  BY KindLemma
<1>3. \A e, g : Carries(Bringers(e, g))
  BY <1>1, ReshapedCarries
<1>4. \A c : Carries(Settlers(c))
  BY <1>2, ReshapedCarries
<1>5. ASSUME NEW c PROVE WaitsKept(c)
  <2>1. SomeFrame(stack, Settlers(c)) => SomeFrame(stack', Settlers(c))
    BY <1>4 DEF Carries
  <2>. QED  BY <2>1 DEF WaitsKept, Settling, Settlers
<1>. QED  BY <1>3, <1>5

-----------------------------------------------------------------------------
(***************************************************************************)
(* The steps that leave the stores alone.                                  *)
(***************************************************************************)
LEMMA CallsTold ==
  ASSUME EdgeInv, ToldInv, BeginTransaction \/ EndTransaction \/ Return \/ StartTask,
         UNCHANGED computedVars
  PROVE  ToldInv'
<1>1. Steady /\ Reshaped
  BY CallsStand, StandsSteady
<1>2. /\ EdgesUnchanged /\ cell' = cell /\ wave' = wave /\ scheduled' = scheduled
      /\ stack = <<>> \/ Running("call")
  BY DEF BeginTransaction, EndTransaction, Return, StartTask, subscriptionVars, computedVars,
     EdgesUnchanged
<1>3. Len(stack) > 0 => Top.kind = "call"
  BY <1>2, EmptySeq DEF Running
<1>. QED  BY <1>1, <1>2, <1>3, ReshapedWork, ToldWork

\* A pass that has served x: what it brings to another edge.
LEMMA ServedCarries ==
  ASSUME EdgeInv, Len(stack) > 0, Top.kind = "notify", NEW x,
         \/ stack' = Retop([Top EXCEPT !.todo = @ \ {x}])
         \/ \E g \in DueFrame : stack' = Append(Retop([Top EXCEPT !.todo = @ \ {x}]), g)
  PROVE  /\ \A e \in Edges \ {x}, g \in Nat : Carries(Bringers(e, g))
         /\ \A e \in Edges, g \in Nat : Top.generation < g => Carries(Bringers(e, g))
         /\ \A c : SomeFrame(stack, Settlers(c)) => SomeFrame(stack', Settlers(c))
<1>1. PICK f : f = [Top EXCEPT !.todo = @ \ {x}]
  OBVIOUS
<1>2. Top \in [kind : {"notify"}, store : Stores, generation : Nat,
               todo : SUBSET Subscribers, told : BOOLEAN]
  BY TopLemma, FrameLemma
<1>3. /\ f \in DueFrame /\ f \in WaveFrame /\ f.kind = "notify" /\ f.store = Top.store
      /\ f.generation = Top.generation /\ f.todo = Top.todo \ {x}
  BY <1>1, <1>2 DEF DueFrame, WaveFrame, PlainFrame
<1>4. stack' = Retop(f) \/ \E g \in DueFrame : stack' = Append(Retop(f), g)
  BY <1>1
<1>5. ASSUME NEW e \in Edges \ {x}, NEW g \in Nat PROVE Carries(Bringers(e, g))
  <2>1. Top \in Bringers(e, g) => f \in Bringers(e, g)
    BY <1>3 DEF Bringers
  <2>. QED  BY <1>3, <1>4, <2>1, RetopCarries
<1>6. ASSUME NEW e \in Edges, NEW g \in Nat, Top.generation < g PROVE Carries(Bringers(e, g))
  <2>1. Top \notin Bringers(e, g)
    BY <1>2, <1>6 DEF Bringers
  <2>. QED  BY <1>3, <1>4, <2>1, RetopCarries
<1>7. ASSUME NEW c PROVE Carries(Settlers(c))
  <2>1. Top \notin Settlers(c)
    BY KindLemma
  <2>. QED  BY <1>3, <1>4, <2>1, RetopCarries
<1>. QED  BY <1>5, <1>6, <1>7 DEF Carries

\* A pass reaches a subscription that is not an edge.
LEMMA DeliverTold ==
  ASSUME EdgeInv, ToldInv, NEW i \in Plain, Deliver(i), UNCHANGED computedVars
  PROVE  ToldInv'
<1>. DEFINE f == [Top EXCEPT !.todo = @ \ {i}]
<1>1. Steady
  BY DeliverStands, StandsSteady
<1>2. /\ EdgesUnchanged /\ cell' = cell /\ wave' = wave /\ registered' = registered
      /\ scheduled' = scheduled \/ scheduled' = [scheduled EXCEPT ![i] = record[i].generation]
      /\ Len(stack) > 0 /\ Top.kind = "notify"
      /\ stack' = Retop(f) \/ stack' = Append(Retop(f), Call(i))
  BY DEF Deliver, Running, subscriptionVars, computedVars, EdgesUnchanged
<1>3. i \in Subscribers /\ i \notin Edges /\ Call(i) \in DueFrame
  BY PushedFrames DEF Plain
<1>4. /\ \A e \in Edges \ {i}, g \in Nat : Carries(Bringers(e, g))
      /\ \A c : SomeFrame(stack, Settlers(c)) => SomeFrame(stack', Settlers(c))
  BY <1>2, <1>3, ServedCarries
<1>5. \A e \in Edges : scheduled'[e] = scheduled[e]
  BY <1>2, <1>3, ComputedAssumption DEF EdgeInv, EdgeTypes
<1>6. \A c : WaitsKept(c)
  BY <1>2, <1>4 DEF WaitsKept, Settling, Settlers
<1>7. NumbersKept
  <2>1. \A s \in Stores : counter[s] \in Nat
    BY DEF EdgeInv, EdgeTypes
  <2>. QED  BY <1>2, <2>1 DEF NumbersKept, EdgesUnchanged
<1>8. ASSUME NEW c \in Computeds PROVE Kindly(c)
  <2>1. ASSUME NEW s \in Stores PROVE CallKept(<<c, s>>)
    <3>1. record[<<c, s>>].generation \in Nat /\ <<c, s>> \in Edges
      BY EdgeLemma DEF EdgeInv, EdgeTypes, Registration
    <3>2. Carries(Bringers(<<c, s>>, record[<<c, s>>].generation))
      BY <1>3, <1>4, <3>1
    <3>. QED  BY <1>5, <1>7, <3>1, <3>2, CallLemma
  <2>. QED  BY <1>6, <2>1 DEF Kindly
<1>9. /\ \A c \in Computeds \cap {} : Tidings(c)'
      /\ \A c \in Computeds \ {} : cell'[c] = cell[c] /\ Kindly(c)
  BY <1>2, <1>8
<1>. QED  BY <1>1, <1>7, <1>9, ToldStands

\* The settlements of the wave go to a drain, all of them.
LEMMA WaveMoves ==
  ASSUME EdgeInv, NEW q \in Seq(DueFrame), NEW g \in DueFrame, g.kind = "drain", g.todo = wave,
         stack' = Append(q, g), NEW c, Waits(wave, c)
  PROVE  SomeFrame(stack', Settlers(c))
<1>1. g \in Settlers(c)
  BY DueLemma DEF Settlers
<1>. QED  BY <1>1, SomePush

\* Waking the observers of a computed, and what ends a pass.
LEMMA WavesTold ==
  ASSUME EdgeInv, ToldInv,
         EndPass \/ EndDrain \/ EndDeliver \/ \E o \in Observers : WakeObserver(o)
  PROVE  ToldInv'
<1>1. Steady /\ stack \in Seq(DueFrame) /\ wave \in Seq(Due)
      /\ (Len(stack) > 0 => Below \in Seq(DueFrame))
  BY WavesStand, StandsSteady, StackLemma DEF EdgeInv, WorkTypes
<1>2. EdgesUnchanged /\ cell' = cell /\ scheduled' = scheduled
  BY DEF EndPass, EndDrain, EndDeliver, WakeObserver, subscriptionVars, computedVars, EdgesUnchanged
<1>3. CASE EndPass
  <2>. DEFINE g == [kind |-> "drain", todo |-> wave]
  <2>1. g \in DueFrame /\ g.kind = "drain" /\ g.todo = wave
    BY <1>1, PushedFrames
  <2>2. /\ Len(stack) > 0 /\ Inert(Top)
        /\ \/ Top.kind = "notify" /\ Top.todo = {}
           \/ Top.kind = "flush"
        /\ \/ stack' = Below /\ wave' = wave
           \/ stack' = Append(stack, g) \/ stack' = Append(Below, g)
    BY <1>3 DEF EndPass, PassDone, Running, Inert
  <2>. HIDE DEF g
  <2>3. Reshaped
    BY <2>1, <2>2 DEF Reshaped
  <2>4. ASSUME NEW e \in Edges, NEW n \in Nat PROVE Carries(Bringers(e, n))
    <3>1. Top \notin Bringers(e, n)
      BY <2>2 DEF Bringers
    <3>. QED  BY <2>3, <3>1, ReshapedCarries
  <2>5. ASSUME NEW c \in Computeds PROVE WaitsKept(c)
    <3>1. Top \notin Settlers(c)
      BY <2>2, KindLemma
    <3>2. SomeFrame(stack, Settlers(c)) => SomeFrame(stack', Settlers(c))
      BY <2>3, <3>1, ReshapedCarries DEF Carries
    <3>3. Waits(wave, c) => Waits(wave', c) \/ SomeFrame(stack', Settlers(c))
      BY <1>1, <2>1, <2>2, WaveMoves
    <3>. QED  BY <3>2, <3>3 DEF WaitsKept, Settling, Settlers
  <2>. QED  BY <1>1, <1>2, <2>4, <2>5, ToldWork
<1>4. CASE EndDrain
  <2>. DEFINE f == [Top EXCEPT !.todo = wave]
  <2>1. /\ Len(stack) > 0 /\ Top.kind = "drain" /\ Top.todo = <<>>
        /\ IF wave = <<>> THEN stack' = Below ELSE stack' = Retop(f)
    BY <1>4 DEF EndDrain, Running
  <2>2. f \in DueFrame /\ f.kind = "drain" /\ f.todo = wave
    <3>1. Top \in [kind : {"drain"}, todo : Seq(Due)]
      BY <2>1, TopLemma, FrameLemma
    <3>. QED  BY <1>1, <3>1 DEF DueFrame
  <2>. HIDE DEF f
  <2>3. Reshaped
    BY <2>1, <2>2, TopLemma
  <2>4. ASSUME NEW e \in Edges, NEW n \in Nat PROVE Carries(Bringers(e, n))
    <3>1. Top \notin Bringers(e, n)
      BY <2>1, KindLemma
    <3>. QED  BY <2>3, <3>1, ReshapedCarries
  <2>5. ASSUME NEW c \in Computeds PROVE WaitsKept(c)
    <3>1. Top \notin Settlers(c)
      BY <2>1, EmptySeq DEF Settlers, Waits
    <3>2. SomeFrame(stack, Settlers(c)) => SomeFrame(stack', Settlers(c))
      BY <2>3, <3>1, ReshapedCarries DEF Carries
    <3>3. Waits(wave, c) => SomeFrame(stack', Settlers(c))
      <4>1. Waits(wave, c) => wave # <<>>
        BY EmptySeq DEF Waits
      <4>. QED  BY <1>1, <2>1, <2>2, <4>1, WaveMoves DEF Retop
    <3>. QED  BY <3>2, <3>3 DEF WaitsKept, Settling, Settlers
  <2>. QED  BY <1>1, <1>2, <2>4, <2>5, ToldWork
<1>5. CASE EndDeliver \/ \E o \in Observers : WakeObserver(o)
  <2>1. Len(stack) > 0 /\ Top.kind = "deliver" /\ wave' = wave
    BY <1>5 DEF EndDeliver, WakeObserver, Running, computedVars
  <2>2. Reshaped
    <3>1. CASE EndDeliver
      BY <3>1, TopLemma DEF EndDeliver, Running
    <3>2. ASSUME NEW o \in Observers, WakeObserver(o) PROVE Reshaped
      <4>. DEFINE f == [Top EXCEPT !.todo = @ \ {o}]
      <4>1. stack' = Append(Retop(f), Call(NoOne))
        BY <3>2 DEF WakeObserver
      <4>2. f \in DueFrame /\ Call(NoOne) \in DueFrame
        BY <2>1, WorkedOn, PushedFrames
      <4>. HIDE DEF f
      <4>. QED  BY <2>1, <4>1, <4>2, TopLemma
    <3>. QED  BY <1>5, <3>1, <3>2
  <2>. QED  BY <1>1, <1>2, <2>1, <2>2, ReshapedWork, ToldWork
<1>. QED  BY <1>3, <1>4, <1>5

\* A step that leaves the stack and the wave alone.
LEMMA StillCarries ==
  ASSUME UNCHANGED <<stack, wave>>
  PROVE  (\A G : Carries(G)) /\ \A c : WaitsKept(c)
<1>1. stack' = stack /\ wave' = wave
  OBVIOUS
<1>. QED  BY <1>1 DEF Carries, WaitsKept, Settling, Settlers, SomeFrame

\* The calls of the edges that a step does not touch.
LEMMA KindlyLemma ==
  ASSUME EdgeInv, NumbersKept, NEW c \in Computeds, WaitsKept(c),
         \A s \in Stores : scheduled[<<c, s>>] # 0 /\ <<c, s>> \in registered' => scheduled'[<<c, s>>] # 0,
         \A s \in Stores : Carries(Bringers(<<c, s>>, record[<<c, s>>].generation))
  PROVE  Kindly(c)
BY EdgeLemma, CallLemma DEF Kindly

\* A registration that is not an edge.
LEMMA SubscribeTold ==
  ASSUME EdgeInv, ToldInv, NEW i \in Plain, NEW R \in ReadSets, Subscribe(i, R),
         UNCHANGED computedVars
  PROVE  ToldInv'
<1>1. Steady
  BY SubscribeStands, StandsSteady
<1>2. /\ cell' = cell /\ wave' = wave /\ stack' = stack
      /\ scheduled' = [scheduled EXCEPT ![i] = 0]
      /\ counter' = [counter EXCEPT ![Home[i]] = @ + 1]
      /\ registered' = registered \cup {i}
      /\ \A e \in Subscribers : e # i => record'[e] = record[e]
  BY DEF Subscribe, Retract, computedVars, EdgeInv, EdgeTypes
<1>3. \A e \in Edges : e \in Subscribers /\ e # i
  BY ComputedAssumption DEF Plain
<1>4. \A e \in Edges : /\ scheduled'[e] = scheduled[e] /\ record'[e] = record[e]
                       /\ e \in registered' <=> e \in registered
  BY <1>2, <1>3 DEF EdgeInv, EdgeTypes
<1>5. ASSUME NEW s \in Stores PROVE counter[s] <= counter'[s]
  <2>1. counter \in [Stores -> Nat]
    BY DEF EdgeInv, EdgeTypes
  <2>2. counter'[s] = counter[s] \/ counter'[s] = counter[s] + 1
    BY <1>2, <2>1
  <2>. QED  BY <2>1, <2>2
<1>6. NumbersKept
  BY <1>4, <1>5 DEF NumbersKept
<1>7. ASSUME NEW c \in Computeds PROVE Kindly(c)
  BY <1>2, <1>4, <1>6, EdgeLemma, StillCarries, KindlyLemma
<1>8. /\ \A c \in Computeds \cap {} : Tidings(c)'
      /\ \A c \in Computeds \ {} : cell'[c] = cell[c] /\ Kindly(c)
  BY <1>2, <1>7
<1>. QED  BY <1>1, <1>6, <1>8, ToldStands

\* The flush takes the batch.
LEMMA TakeTold ==
  ASSUME EdgeInv, ToldInv, TakeBatch, UNCHANGED computedVars
  PROVE  ToldInv'
<1>1. /\ EdgeInv' /\ UNCHANGED <<version, writes, writeLog, data>>
      /\ \A s \in Stores : Unmatched(s) \subseteq Unmatched(s)'
  BY TakeLemma, TakenUnmatched
<1>2. Steady
  BY <1>1 DEF Steady, StoresSame
<1>3. EdgesUnchanged /\ cell' = cell /\ scheduled' = scheduled /\ wave' = wave
  BY DEF TakeBatch, subscriptionVars, computedVars, EdgesUnchanged
<1>4. PICK f \in DueFrame : stack' = Retop(f) /\ Len(stack) > 0 /\ Top.kind = "flush"
  BY TakeLemma
<1>5. \A e, g : Top \notin Bringers(e, g) /\ Top \notin Settlers(e)
  BY <1>4, KindLemma
<1>6. \A e \in Edges, g \in Nat : Carries(Bringers(e, g))
  BY <1>4, <1>5, RetopCarries
<1>7. ASSUME NEW c \in Computeds PROVE WaitsKept(c)
  <2>1. Carries(Settlers(c))
    BY <1>4, <1>5, RetopCarries
  <2>. QED  BY <1>3, <2>1 DEF WaitsKept, Settling, Carries, Settlers
<1>. QED  BY <1>2, <1>3, <1>6, <1>7, ToldWork

(***************************************************************************)
(* The edges after the body ran: one that stays keeps its number, a new    *)
(* one has the next.                                                       *)
(***************************************************************************)
LEMMA AttachNumbers ==
  ASSUME EdgeInv, NEW c \in Computeds, NEW deps \in [Stores -> SUBSET Paths],
         AttachEdges(c, deps)
  PROVE  NumbersKept
<1>1. /\ \A s \in Stores : counter[s] \in Nat
      /\ \A s \in Stores : counter'[s] = IF deps[s] # {} /\ <<c, s>> \notin registered
                                           THEN counter[s] + 1 ELSE counter[s]
  BY DEF EdgeInv, EdgeTypes, AttachEdges
<1>2. \A i \in Subscribers : record'[i] = IF i \in EdgesOf(c) THEN EdgeRecord(i, deps[i[2]])
                                                             ELSE record[i]
  BY DEF AttachEdges
<1>3. ASSUME NEW e \in Edges, e \in registered'
      PROVE  IF e \in registered THEN record'[e].generation = record[e].generation
             ELSE 1 <= record'[e].generation /\ record'[e].generation <= counter'[e[2]]
  <2>1. e \in Subscribers /\ record[e] \in Registration
    BY ComputedAssumption DEF EdgeInv, EdgeTypes
  <2>2. CASE e \notin EdgesOf(c)
    BY <1>2, <1>3, <2>1, <2>2 DEF AttachEdges, EdgesOf
  <2>3. CASE e \in EdgesOf(c)
    <3>1. PICK s \in Stores : e = <<c, s>> /\ e[2] = s
      BY <2>3 DEF EdgesOf
    <3>2. deps[s] # {}
      BY <1>3, <2>1, <3>1, AttachLemma DEF EdgeInv
    <3>3. record'[e] = EdgeRecord(e, deps[s])
      BY <1>2, <2>1, <2>3, <3>1
    <3>4. CASE e \in registered
      <4>1. record'[e] = IF record[e].reads # deps[s]
                           THEN [record[e] EXCEPT !.growth = version[s], !.reads = deps[s]]
                           ELSE record[e]
        BY <3>1, <3>2, <3>3, <3>4 DEF EdgeRecord
      <4>. QED  BY <2>1, <3>4, <4>1 DEF Registration
    <3>5. CASE e \notin registered
      <4>1. record'[e].generation = counter[s] + 1 /\ counter'[s] = counter[s] + 1
        BY <1>1, <3>1, <3>2, <3>3, <3>5 DEF EdgeRecord
      <4>. QED  BY <1>1, <3>1, <3>5, <4>1
    <3>. QED  BY <3>4, <3>5
  <2>. QED  BY <2>2, <2>3
<1>4. ASSUME NEW s \in Stores PROVE counter[s] <= counter'[s]
  <2>1. counter[s] \in Nat /\ (counter'[s] = counter[s] \/ counter'[s] = counter[s] + 1)
    BY <1>1
  <2>. QED  BY <2>1
<1>. QED  BY <1>3, <1>4 DEF NumbersKept

LEMMA SameNumbers ==
  ASSUME EdgeInv, EdgesUnchanged
  PROVE  NumbersKept
<1>1. \A s \in Stores : counter[s] \in Nat
  BY DEF EdgeInv, EdgeTypes
<1>. QED  BY <1>1 DEF NumbersKept, EdgesUnchanged

\* An operation on c numbers its edges, and leaves the fields of the others.
LEMMA HandledNumbers ==
  ASSUME EdgeInv, NEW c \in Computeds, Handled(c) \/ Ended(c)
  PROVE  NumbersKept /\ \A z \in Computeds \ {c} : cell'[z] = cell[z]
<1>1. \A z \in Computeds \ {c} : cell'[z] = cell[z]
  BY DEF Handled, Ended, Becomes, EdgeInv, EdgeTypes
<1>2. CASE EdgesUnchanged
  BY <1>1, <1>2, SameNumbers
<1>3. ASSUME NEW deps \in [Stores -> SUBSET Paths], AttachEdges(c, deps) PROVE NumbersKept
  BY <1>3, AttachNumbers
<1>4. [s \in Stores |-> {}] \in [Stores -> SUBSET Paths]
  OBVIOUS
<1>. QED  BY <1>1, <1>2, <1>3, <1>4 DEF Handled, Ended, EdgesFollow, ReleaseEdges

\* What the operation leaves of the calls that wait.
LEMMA RetractedKeeps ==
  ASSUME NEW queued, scheduled' = Retracted(queued)
  PROVE  \A e \in Subscribers : e \in registered' => scheduled'[e] = queued[e]
BY DEF Retracted

\* Fields that were captured just now have not drifted.
LEMMA CapturedFresh ==
  ASSUME EdgeInv, NEW deps \in [Stores -> SUBSET Paths], NEW k, k.versions = Captured(deps)
  PROVE  \A s \in Stores : k.versions[s].reads = deps[s] /\ ~LeafMatches(k, s)
<1>. DEFINE told == Captured(deps)
<1>1. ASSUME NEW s \in Stores
      PROVE  /\ told[s].reads = deps[s]
             /\ deps[s] # {} => told[s].at = version[s]
             /\ version[s] \in Nat
  <2>1. StoreTypes /\ version \in [Stores -> 0..MaxVersion]
    BY DEF EdgeInv, StoreTypes
  <2>2. version[s] \in Nat
    BY <2>1, CarburetorAssumption
  <2>. QED  BY <2>1, <2>2, CapturedLemma
<1>. HIDE DEF told
<1>2. ASSUME NEW s \in Stores, LogMatches(s, told[s].at, told[s].reads) PROVE FALSE
  <2>1. PICK v \in 1..MaxVersion : told[s].at < v /\ v <= version[s] /\ told[s].reads # {}
    BY <1>2 DEF LogMatches, Concerns
  <2>2. told[s].at = version[s] /\ version[s] \in Nat /\ MaxVersion \in Nat
    BY <1>1, <2>1, CarburetorAssumption
  <2>. QED  BY <2>1, <2>2
<1>. QED  BY <1>1, <1>2 DEF LeafMatches, told

LEMMA RecomputedTells ==
  ASSUME EdgeInv, NEW c \in Computeds
  PROVE  LET k == Recomputed(c) IN
         /\ k \in Cell /\ k.value = BodyValue(c) /\ k.versions = Captured(Collected(c)) /\ k.valid
         /\ k.announced = cell[c].announced /\ k.observers = cell[c].observers
         /\ Faithful(k, c)
         /\ \A s \in Stores : k.versions[s].reads = Collected(c)[s] /\ ~LeafMatches(k, s)
<1>1. cell[c] \in Cell
  BY DEF EdgeInv, EdgeTypes
<1>2. PICK k : k = Recomputed(c)
  OBVIOUS
<1>3. /\ k \in Cell /\ k.value = BodyValue(c) /\ k.versions = Captured(Collected(c)) /\ k.valid
      /\ k.announced = cell[c].announced /\ k.observers = cell[c].observers
  BY <1>1, <1>2, RecomputedLemma DEF Recomputed, Cell, EdgeInv
<1>4. \A s \in Stores : k.versions[s].reads = Collected(c)[s] /\ ~LeafMatches(k, s)
  BY <1>3, BodyLemma, CapturedFresh
<1>5. Faithful(k, c)
  BY <1>3, <1>4, RanFaithful
<1>. QED  BY <1>2, <1>3, <1>4, <1>5

\* isStale() leaves the value, and does not make the cache valid.
LEMMA AskedTells ==
  ASSUME EdgeInv, NEW c \in Computeds, NEW k \in {cell[c], Asked(c), Marked(c)}
  PROVE  /\ k \in Cell /\ Alike(k, cell[c]) /\ k.announced = cell[c].announced
         /\ k.observers = cell[c].observers
         /\ k.valid => cell[c].valid
<1>1. cell[c] \in Cell
  BY DEF EdgeInv, EdgeTypes
<1>2. PICK j : j = Asked(c)
  OBVIOUS
<1>3. /\ j.value = cell[c].value /\ j.versions = cell[c].versions /\ j.valid = cell[c].valid
      /\ j.announced = cell[c].announced /\ j.observers = cell[c].observers /\ j \in Cell
  BY <1>1, <1>2, AskedLemma DEF Asked, Cell, EdgeInv
<1>4. ASSUME NEW m, m = Marked(c)
      PROVE  /\ m.value = j.value /\ m.versions = j.versions
             /\ m.valid => j.valid
             /\ m.announced = j.announced /\ m.observers = j.observers /\ m \in Cell
  <2>1. m = IF Stale(c) THEN [j EXCEPT !.valid = FALSE] ELSE j
    BY <1>2, <1>4 DEF Marked
  <2>. QED  BY <1>3, <2>1 DEF Cell
<1>5. CASE k = cell[c]
  BY <1>1, <1>5 DEF Alike
<1>6. CASE k = Asked(c)
  BY <1>2, <1>3, <1>6 DEF Alike
<1>7. CASE k = Marked(c)
  BY <1>3, <1>4, <1>7 DEF Alike
<1>. QED  BY <1>5, <1>6, <1>7

\* get().
LEMMA GetTold ==
  ASSUME EdgeInv, ToldInv, SteadyFailures, NEW c \in Computeds, Get(c)
  PROVE  ToldInv'
<1>1. Steady /\ StoresSame /\ Tidings(c) /\ cell \in [Computeds -> Cell]
  BY GetStands, StandsSteady DEF Steady, ToldInv, EdgeInv, EdgeTypes
<1>2. stack' = stack /\ wave' = wave /\ scheduled' = Retracted(scheduled)
  BY DEF Get
<1>3. NumbersKept /\ \A z \in Computeds \ {c} : cell'[z] = cell[z]
  BY GetHandles, HandledNumbers
<1>4. ASSUME NEW z \in Computeds PROVE Kindly(z)
  BY <1>2, <1>3, EdgeLemma, StillCarries, RetractedKeeps, KindlyLemma
<1>5. SUFFICES Tidings(c)'
  BY <1>1, <1>3, <1>4, ToldStands DEF ToldInv
<1>6. CASE Stale(c) /\ ~BodyFails(c)
  <2>1. cell'[c] = Recomputed(c)
    BY <1>1, <1>6 DEF Get
  <2>2. /\ cell'[c].value = BodyValue(c) /\ cell'[c].announced = cell[c].announced
        /\ cell'[c].observers = cell[c].observers
        /\ Faithful(cell'[c], c)
        /\ \A s \in Stores : cell'[c].versions[s].reads = Collected(c)[s]
    BY <2>1, RecomputedTells
  <2>3. CASE cell[c].observers = {}
    BY <1>1, <2>2, <2>3, Unobserved DEF Tidings, Tells
  <2>4. CASE cell[c].observers # {}
    <3>1. ASSUME NEW l \in ReadPlaces(cell'[c]), Comes(c, l) PROVE Comes(c, l)'
      <4>1. l[1] \in Stores
        BY <3>1 DEF ReadPlaces, Places
      <4>. QED  BY <1>1, <1>4, <2>2, <2>4, <3>1, <4>1, StandsComes DEF Kindly
    <3>2. Settling(c) => Settling(c)'
      BY <1>4 DEF Kindly, WaitsKept
    <3>. QED  BY <1>1, <1>6, <2>2, <2>4, <3>1, <3>2, FieldsRan
  <2>. QED  BY <2>3, <2>4
<1>7. CASE ~(Stale(c) /\ ~BodyFails(c))
  <2>1. cell'[c] = Asked(c)
    BY <1>1, <1>7 DEF Get
  <2>. QED  BY <1>1, <1>4, <2>1, AskedTells, TidingsStand
<1>. QED  BY <1>6, <1>7

\* A cache that is not stale knows its places without the log.
LEMMA FreshFaithful ==
  ASSUME EdgeInv, Knowing, NEW c \in Computeds, ~Stale(c), Tidings(c), NEW k,
         k.value = cell[c].value,
         \A s \in Stores : k.versions[s].reads = cell[c].versions[s].reads
  PROVE  Faithful(k, c) /\ \A s \in Stores : ~LeafMatches(cell[c], s)
<1>1. cell[c].valid /\ Faithful(cell[c], c)
  BY DEF Stale, Tidings, Tells
<1>2. \A s \in Stores : ~LeafMatches(cell[c], s)
  BY <1>1, DriftedLemma DEF EdgeInv
<1>3. ReadPlaces(k) = ReadPlaces(cell[c])
  <2>1. \A l \in Places : l[1] \in Stores
    BY DEF Places
  <2>. QED  BY <2>1 DEF ReadPlaces
<1>4. Shaped(k, c)
  BY <1>1, <1>3 DEF Shaped, Faithful
<1>5. ASSUME NEW l \in ReadPlaces(k) PROVE KnownAt(k, l)
  <2>1. KnownAt(cell[c], l) /\ ~LogAt(cell[c], l)
    BY <1>1, <1>2, <1>3, PlaceLemma DEF Faithful, EdgeInv
  <2>. QED  BY <2>1 DEF KnownAt
<1>. QED  BY <1>2, <1>4, <1>5 DEF Faithful

\* A delivery that skips an observer leaves the passes and the drains.
LEMMA SkippedCarries ==
  ASSUME NEW q \in Seq(WaveFrame), NEW c, NEW o, NEW G,
         \A f \in G : f.kind # "deliver", SomeFrame(q, G)
  PROVE  SomeFrame(Skipped(q, c, o), G)
<1>. DEFINE r == Skipped(q, c, o)
<1>1. Len(q) \in Nat /\ r = [k \in 1..Len(q) |-> IF q[k].kind = "deliver" /\ q[k].comp = c
                              THEN [q[k] EXCEPT !.todo = @ \ {o}] ELSE q[k]]
  BY DEF Skipped
<1>2. r \in Seq(WaveFrame)
  BY SkippedLemma
<1>3. Len(r) = Len(q)
  <2>1. DOMAIN r = 1..Len(q) /\ DOMAIN r = 1..Len(r) /\ Len(r) \in Nat
    BY <1>1, <1>2, LenProperties
  <2>. QED  BY <1>1, <2>1
<1>4. \A k \in 1..Len(q) : q[k].kind # "deliver" => r[k] = q[k]
  BY <1>1
<1>. HIDE DEF r
<1>5. SomeFrame(r, G)
  BY <1>3, <1>4 DEF SomeFrame
<1>. QED  BY <1>5 DEF r

LEMMA SkipsKeep ==
  ASSUME EdgeInv, stack' = stack \/ \E c, o : stack' = Skipped(stack, c, o), wave' = wave
  PROVE  /\ \A e, g : Carries(Bringers(e, g))
         /\ \A z : WaitsKept(z)
<1>1. stack \in Seq(WaveFrame)
  BY DueLemma, SeqMonotonic DEF EdgeInv, WorkTypes
<1>2. ASSUME NEW G, \A f \in G : f.kind # "deliver" PROVE Carries(G)
  BY <1>1, <1>2, SkippedCarries DEF Carries
<1>3. \A e, g : Carries(Bringers(e, g))
  BY <1>2, KindLemma
<1>4. \A z : Carries(Settlers(z))
  BY <1>2, KindLemma
<1>5. ASSUME NEW z PROVE WaitsKept(z)
  BY <1>4 DEF WaitsKept, Settling, Carries, Settlers
<1>. QED  BY <1>3, <1>5

\* subscribe() of a computed.
LEMMA ObserveTold ==
  ASSUME EdgeInv, ToldInv, Knowing, SteadyFailures, NEW c \in Computeds, NEW o \in Observers,
         Observe(c, o)
  PROVE  ToldInv'
<1>1. Steady /\ StoresSame /\ Tidings(c) /\ cell \in [Computeds -> Cell] /\ EdgeTypes'
      /\ cell[c] \in Cell
  BY ObserveStands, StandsSteady DEF Steady, ToldInv, EdgeInv, EdgeTypes
<1>2. /\ stack' = stack \/ stack' = Skipped(stack, c, o)
      /\ wave' = wave /\ scheduled' = Retracted(scheduled)
  BY DEF Observe
<1>3. NumbersKept /\ \A z \in Computeds \ {c} : cell'[z] = cell[z]
  BY ObserveHandles, HandledNumbers
<1>4. ASSUME NEW z \in Computeds PROVE Kindly(z)
  BY <1>2, <1>3, EdgeLemma, SkipsKeep, RetractedKeeps, KindlyLemma
<1>5. SUFFICES Tidings(c)'
  BY <1>1, <1>3, <1>4, ToldStands DEF ToldInv
<1>6. CASE MustRun(c) /\ BodyFails(c)
  <2>1. PICK k \in {cell[c], Asked(c)} : cell'[c] = [k EXCEPT !.valid = FALSE]
    BY <1>1, <1>6 DEF Observe
  <2>2. /\ k \in Cell /\ Alike(k, cell[c]) /\ k.announced = cell[c].announced
        /\ k.observers = cell[c].observers
    BY AskedTells
  <2>3. /\ Alike(cell'[c], cell[c]) /\ cell'[c].announced = cell[c].announced
        /\ cell'[c].observers = cell[c].observers /\ ~cell'[c].valid
    BY <2>1, <2>2 DEF Alike, Cell
  <2>. QED  BY <1>1, <1>4, <2>3, TidingsStand
<1>7. CASE ~(MustRun(c) /\ BodyFails(c))
  <2>. DEFINE kept == [cell[c] EXCEPT !.versions = Captured(Kept(c)), !.checked = TRUE, !.proven = {}]
              fresh == IF MustRun(c) THEN Recomputed(c) ELSE IF First(c) THEN kept ELSE cell[c]
              told == IF First(c) THEN Announced(fresh) ELSE fresh
  <2>1. cell'[c] = [told EXCEPT !.observers = @ \cup {o}]
    BY <1>1, <1>7 DEF Observe, Joined
  <2>2. /\ Kept(c) \in [Stores -> SUBSET Paths]
        /\ \A s \in Stores : Kept(c)[s] = cell[c].versions[s].reads
    BY <1>1 DEF Kept, Cell, Leaf
  <2>3. Captured(Kept(c)) \in [Stores -> Leaf]
    BY <2>2, CapturedLemma DEF EdgeInv
  <2>4. /\ kept \in Cell /\ kept.versions = Captured(Kept(c)) /\ kept.value = cell[c].value
    BY <1>1, <2>3 DEF Cell
  <2>5. kept.announced = cell[c].announced /\ kept.observers = cell[c].observers
    BY <1>1 DEF Cell
  <2>. HIDE DEF kept
  <2>6. /\ fresh \in Cell /\ fresh.announced = cell[c].announced
        /\ fresh.observers = cell[c].observers
    BY <1>1, <2>4, <2>5, RecomputedTells
  <2>7. First(c) => Faithful(fresh, c) /\ \A s \in Stores : ~LeafMatches(fresh, s)
    <3>1. CASE MustRun(c)
      BY <3>1, RecomputedTells
    <3>2. CASE ~MustRun(c) /\ First(c)
      <4>1. ~Stale(c)
        BY <3>2 DEF MustRun, Stale
      <4>2. \A s \in Stores : kept.versions[s].reads = cell[c].versions[s].reads /\ ~LeafMatches(kept, s)
        BY <2>2, <2>4, CapturedFresh
      <4>3. Faithful(kept, c)
        BY <1>1, <2>4, <4>1, <4>2, FreshFaithful
      <4>. QED  BY <3>2, <4>2, <4>3
    <3>. QED  BY <3>1, <3>2
  <2>8. MustRun(c) => /\ fresh.value = BodyValue(c) /\ ~BodyFails(c)
                      /\ \A s \in Stores : fresh.versions[s].reads = Collected(c)[s]
    BY <1>7, RecomputedTells
  <2>9. ~MustRun(c) /\ ~First(c) => fresh = cell[c]
    OBVIOUS
  <2>. HIDE DEF fresh
  <2>10. /\ told \in Cell /\ told.value = fresh.value /\ told.versions = fresh.versions
         /\ told.announced = IF First(c) THEN [value |-> fresh.value, versions |-> fresh.versions]
                                         ELSE fresh.announced
         /\ told.valid = fresh.valid
    BY <2>6 DEF Announced, Cell
  <2>. HIDE DEF told
  <2>11. /\ cell'[c].value = fresh.value /\ cell'[c].versions = fresh.versions
         /\ cell'[c].announced = told.announced /\ cell'[c].observers # {}
         /\ cell'[c].valid = fresh.valid
    BY <2>1, <2>10 DEF Cell
  <2>12. CASE First(c)
    <3>1. Faithful(cell'[c], c) /\ \A s \in Stores : ~LeafMatches(cell'[c], s)
      <4>1. Alike(cell'[c], fresh)
        BY <2>11 DEF Alike
      <4>. QED  BY <2>7, <2>11, <2>12, <4>1, AlikeLemma DEF LeafMatches
    <3>. QED  BY <1>1, <2>10, <2>11, <2>12, <3>1, FieldsAnnounced
  <2>13. CASE ~First(c) /\ MustRun(c)
    <3>1. /\ cell'[c].value = BodyValue(c) /\ ~BodyFails(c)
          /\ \A s \in Stores : cell'[c].versions[s].reads = Collected(c)[s]
          /\ cell'[c].announced = cell[c].announced
          /\ cell[c].observers # {} /\ cell'[c].observers # {}
      BY <2>6, <2>8, <2>10, <2>11, <2>13 DEF First
    <3>2. ASSUME NEW l \in ReadPlaces(cell'[c]), Comes(c, l) PROVE Comes(c, l)'
      <4>1. l[1] \in Stores
        BY <3>2 DEF ReadPlaces, Places
      <4>. QED  BY <1>1, <1>4, <3>1, <3>2, <4>1, StandsComes DEF Kindly
    <3>3. Settling(c) => Settling(c)'
      BY <1>4 DEF Kindly, WaitsKept
    <3>. QED  BY <1>1, <3>1, <3>2, <3>3, FieldsRan
  <2>14. CASE ~First(c) /\ ~MustRun(c)
    <3>1. /\ Alike(cell'[c], cell[c]) /\ cell'[c].announced = cell[c].announced
          /\ cell'[c].valid = cell[c].valid /\ cell[c].observers # {}
      BY <2>6, <2>9, <2>10, <2>11, <2>14 DEF Alike, First
    <3>. QED  BY <1>1, <1>4, <3>1, TidingsStand
  <2>. QED  BY <2>12, <2>13, <2>14
<1>. QED  BY <1>6, <1>7

\* What an ended observation kills is its own.
LEMMA DeadWaits ==
  ASSUME NEW q \in Seq(Settlement), NEW c, NEW z, z # c, Waits(q, z)
  PROVE  Waits(Dead(q, c), z)
<1>. DEFINE r == Dead(q, c)
<1>1. Len(q) \in Nat /\ \A k \in 1..Len(q) : q[k] \in Settlement
  BY LenProperties, ElementOfSeq
<1>2. r \in [1..Len(q) -> Settlement] /\ \A k \in 1..Len(q) : q[k].comp # c => r[k] = q[k]
  BY <1>1 DEF Dead, Settlement
<1>3. Len(r) = Len(q)
  <2>1. r \in Seq(Settlement)
    BY <1>1, <1>2, SeqDef
  <2>2. DOMAIN r = 1..Len(q) /\ DOMAIN r = 1..Len(r) /\ Len(r) \in Nat
    BY <1>2, <2>1, LenProperties
  <2>. QED  BY <1>1, <2>2
<1>. HIDE DEF r
<1>4. Waits(r, z)
  BY <1>2, <1>3 DEF Waits
<1>. QED  BY <1>4 DEF r

LEMMA DeadCarries ==
  ASSUME EdgeInv, NEW c \in Computeds, Len(DeadInStack(c)) = Len(stack),
         Renewed(stack, DeadInStack(c))
  PROVE  /\ \A e, g : SomeFrame(stack, Bringers(e, g)) => SomeFrame(DeadInStack(c), Bringers(e, g))
         /\ \A z : z # c /\ SomeFrame(stack, Settlers(z)) => SomeFrame(DeadInStack(c), Settlers(z))
<1>. DEFINE r == DeadInStack(c)
<1>1. \A k \in 1..Len(stack) : stack[k].kind = "drain" => r[k] = [stack[k] EXCEPT !.todo = Dead(@, c)]
  BY DEF DeadInStack
<1>2. Len(r) = Len(stack) /\ Renewed(stack, r)
  OBVIOUS
<1>. HIDE DEF r
<1>3. \A k \in 1..Len(stack) : stack[k].kind = "notify" => r[k] = stack[k]
  BY <1>2 DEF Renewed
<1>4. \A e, g : SomeFrame(stack, Bringers(e, g)) => SomeFrame(r, Bringers(e, g))
  BY <1>2, <1>3, KindLemma DEF SomeFrame
<1>5. ASSUME NEW z, z # c, NEW k \in 1..Len(stack), stack[k] \in Settlers(z)
      PROVE  r[k] \in Settlers(z)
  <2>1. /\ stack[k] \in WaveFrame /\ stack[k].kind = "drain" /\ Waits(stack[k].todo, z)
    BY <1>5 DEF Settlers
  <2>2. stack[k] \in [kind : {"drain"}, todo : Seq(Settlement)]
    BY <2>1 DEF WaveFrame, PlainFrame
  <2>3. Waits(Dead(stack[k].todo, c), z)
    BY <1>5, <2>1, <2>2, DeadWaits
  <2>4. r[k].todo = Dead(stack[k].todo, c)
    BY <1>1, <2>1, <2>2
  <2>5. r[k] \in WaveFrame /\ r[k].kind = "drain"
    BY <1>2, <2>1 DEF Renewed
  <2>. QED  BY <2>3, <2>4, <2>5 DEF Settlers
<1>6. \A z : z # c /\ SomeFrame(stack, Settlers(z)) => SomeFrame(r, Settlers(z))
  BY <1>2, <1>5 DEF SomeFrame
<1>. QED  BY <1>4, <1>6 DEF r

\* unsubscribe() of a computed.
LEMMA UnobserveTold ==
  ASSUME EdgeInv, ToldInv, NEW c \in Computeds, NEW o \in Observers, Unobserve(c, o)
  PROVE  ToldInv'
<1>1. Steady /\ StoresSame /\ Tidings(c) /\ cell \in [Computeds -> Cell] /\ cell[c] \in Cell
  BY UnobserveStands, StandsSteady DEF Steady, ToldInv, EdgeInv, EdgeTypes
<1>2. NumbersKept /\ \A z \in Computeds \ {c} : cell'[z] = cell[z]
  BY UnobserveHandles, HandledNumbers
<1>3. scheduled' = Retracted(scheduled)
  BY DEF Unobserve
<1>4. CASE cell[c].observers = {o}
  <2>1. /\ stack' = Skipped(DeadInStack(c), c, o) /\ wave' = Dead(wave, c)
        /\ cell' = [cell EXCEPT ![c].observers = {}, ![c].valid = FALSE, ![c].announced = Unannounced]
    BY <1>4 DEF Unobserve
  <2>2. /\ stack \in Seq(DueFrame) /\ wave \in Seq(Settlement)
    BY DueLemma DEF EdgeInv, WorkTypes
  <2>3. /\ Len(DeadInStack(c)) = Len(stack) /\ Renewed(stack, DeadInStack(c))
        /\ DeadInStack(c) \in Seq(WaveFrame)
    <3>1. \A z \in Due : z.comp # c => z \in Due'
      BY <1>2 DEF Due, Settlement
    <3>2. \A z \in Due : [z EXCEPT !.live = FALSE] \in Due'
      BY DEF Due, Settlement
    <3>3. /\ DeadInStack(c) \in Seq(DueFrame') /\ Len(DeadInStack(c)) = Len(stack)
          /\ Renewed(stack, DeadInStack(c))
      BY <2>2, <3>1, <3>2, DeadInStackLemma
    <3>4. Len(stack) \in Nat /\ DeadInStack(c) \in [1..Len(stack) -> WaveFrame]
      BY <2>2, <3>3, LenProperties DEF Renewed
    <3>. QED  BY <3>3, <3>4, SeqDef
  <2>4. ASSUME NEW G, \A f \in G : f.kind # "deliver", SomeFrame(DeadInStack(c), G)
        PROVE  SomeFrame(stack', G)
    BY <2>1, <2>3, <2>4, SkippedCarries
  <2>5. ASSUME NEW z \in Computeds \ {c} PROVE Kindly(z)
    <3>1. \A e, g : Carries(Bringers(e, g))
      BY <2>3, <2>4, DeadCarries, KindLemma DEF Carries
    <3>2. SomeFrame(stack, Settlers(z)) => SomeFrame(stack', Settlers(z))
      BY <2>3, <2>4, <2>5, DeadCarries, KindLemma
    <3>3. Waits(wave, z) => Waits(wave', z)
      BY <2>1, <2>2, <2>5, DeadWaits
    <3>4. WaitsKept(z)
      BY <3>2, <3>3 DEF WaitsKept, Settling, Settlers
    <3>. QED  BY <1>2, <1>3, <2>5, <3>1, <3>4, EdgeLemma, RetractedKeeps, KindlyLemma
  <2>6. /\ cell'[c].observers = {} /\ ~cell'[c].valid /\ cell'[c].announced = Unannounced
    BY <1>1, <2>1 DEF Cell
  <2>7. \A s \in Stores : Unannounced.versions[s].at <= version[s]
    <3>1. version \in [Stores -> 0..MaxVersion] /\ MaxVersion \in Nat
      BY CarburetorAssumption DEF EdgeInv, StoreTypes
    <3>2. \A s \in Stores : Unannounced.versions[s].at = 0
      BY DEF Unannounced, NoLeaf
    <3>3. ASSUME NEW s \in Stores PROVE 0 <= version[s]
      BY <3>1
    <3>. QED  BY <3>2, <3>3
  <2>8. Tidings(c)'
    BY <1>1, <2>6, <2>7, Unobserved
  <2>. QED  BY <1>1, <1>2, <2>5, <2>8, ToldStands
<1>5. CASE cell[c].observers # {o}
  <2>1. /\ stack' = Skipped(stack, c, o) /\ wave' = wave
        /\ cell' = [cell EXCEPT ![c].observers = @ \ {o}]
    BY <1>5 DEF Unobserve
  <2>2. ASSUME NEW z \in Computeds PROVE Kindly(z)
    BY <1>2, <1>3, <2>1, EdgeLemma, SkipsKeep, RetractedKeeps, KindlyLemma
  <2>3. /\ Alike(cell'[c], cell[c]) /\ cell'[c].announced = cell[c].announced
        /\ cell'[c].valid = cell[c].valid /\ cell[c].observers # {}
    BY <1>1, <2>1 DEF Alike, Cell, Unobserve
  <2>4. cell[c].observers # {}
    BY DEF Unobserve
  <2>5. Tidings(c)'
    BY <1>1, <2>2, <2>3, <2>4, TidingsStand
  <2>. QED  BY <1>1, <1>2, <2>2, <2>5, ToldStands
<1>. QED  BY <1>4, <1>5

\* A settlement more loses none.
LEMMA DeferWaits ==
  ASSUME EdgeInv, NEW c \in Computeds
  PROVE  /\ Waits(Defer(c), c)
         /\ \A z : Waits(wave, z) => Waits(Defer(c), z)
<1>. DEFINE y == [comp |-> c, live |-> TRUE]
            again == {k \in 1..Len(wave) : wave[k].comp = c}
            in == [k \in 1..Len(wave) |-> IF k \in again THEN y ELSE wave[k]]
<1>1. Len(wave) \in Nat /\ wave \in Seq(Settlement) /\ y \in Settlement
      /\ \A k \in 1..Len(wave) : wave[k] \in Settlement
  BY DueLemma, LenProperties, ElementOfSeq DEF EdgeInv, WorkTypes, Settlement
<1>2. Defer(c) = IF again = {} THEN Append(wave, y) ELSE in
  BY DEF Defer
<1>3. y.comp = c /\ y.live
  OBVIOUS
<1>. HIDE DEF y
<1>4. CASE again = {}
  <2>. DEFINE r == Append(wave, y)
  <2>1. /\ Len(r) = Len(wave) + 1 /\ r[Len(wave) + 1] = y
        /\ \A k \in 1..Len(wave) : r[k] = wave[k]
    BY <1>1
  <2>. HIDE DEF r
  <2>2. /\ \A k \in 1..Len(wave) : k \in 1..Len(r)
        /\ Len(wave) + 1 \in 1..Len(r)
    BY <1>1, <2>1
  <2>3. Waits(r, c) /\ \A z : Waits(wave, z) => Waits(r, z)
    BY <1>3, <2>1, <2>2 DEF Waits
  <2>. QED  BY <1>2, <1>4, <2>3 DEF r
<1>5. CASE again # {}
  <2>1. in \in [1..Len(wave) -> Settlement]
    BY <1>1
  <2>2. in \in Seq(Settlement)
    BY <1>1, <2>1, SeqDef
  <2>3. Len(in) = Len(wave)
    BY <1>1, <2>1, <2>2, LenProperties
  <2>4. \A k \in 1..Len(wave) : in[k] = IF wave[k].comp = c THEN y ELSE wave[k]
    OBVIOUS
  <2>5. PICK n \in 1..Len(wave) : wave[n].comp = c
    BY <1>5
  <2>. HIDE DEF in
  <2>6. Waits(in, c) /\ \A z : Waits(wave, z) => Waits(in, z)
    BY <1>3, <2>3, <2>4, <2>5 DEF Waits
  <2>. QED  BY <1>2, <1>5, <2>6
<1>. QED  BY <1>4, <1>5

\* A pass reaches an edge.
LEMMA DeliverEdgeTold ==
  ASSUME EdgeInv, ToldInv, NEW c \in Computeds, DeliverEdge(c)
  PROVE  ToldInv'
<1>0. PICK e : e = <<c, Top.store>>
  OBVIOUS
<1>1. Steady /\ StoresSame /\ Tidings(c) /\ Numbered /\ cell \in [Computeds -> Cell]
  BY DeliverEdgeStands, StandsSteady DEF Steady, ToldInv, EdgeInv, EdgeTypes
<1>2. /\ EdgesUnchanged /\ Len(stack) > 0 /\ Top.kind = "notify" /\ stack' = Retop([Top EXCEPT !.todo = @ \ {e}])
      /\ \/ ~StillSelected(e) /\ cell' = cell /\ wave' = wave /\ scheduled' = scheduled
         \/ /\ StillSelected(e) /\ cell' = cell /\ wave' = wave
            /\ scheduled' = [scheduled EXCEPT ![e] = record[e].generation]
         \/ /\ StillSelected(e) /\ scheduled' = scheduled
            /\ cell' = [cell EXCEPT ![c] = Marked(c)]
            /\ wave' = IF OwesSettlement(c) THEN Defer(c) ELSE wave
  BY <1>0 DEF DeliverEdge, Running, subscriptionVars, EdgesUnchanged
<1>3. Top \in [kind : {"notify"}, store : Stores, generation : Nat,
               todo : SUBSET Subscribers, told : BOOLEAN]
  BY <1>2, TopLemma, FrameLemma
<1>4. /\ \A i \in Edges \ {e}, g \in Nat : Carries(Bringers(i, g))
      /\ \A i \in Edges, g \in Nat : Top.generation < g => Carries(Bringers(i, g))
      /\ \A z : SomeFrame(stack, Settlers(z)) => SomeFrame(stack', Settlers(z))
  BY <1>2, ServedCarries
<1>5. e \in Edges /\ e \in Subscribers /\ record[e].generation \in Nat
  BY <1>0, <1>3, EdgeLemma DEF EdgeInv, EdgeTypes, Registration
<1>6. NumbersKept
  BY <1>2, SameNumbers
<1>7. ASSUME NEW z \in Computeds PROVE WaitsKept(z)
  <2>1. Waits(wave, z) => Waits(wave', z)
    BY <1>2, DeferWaits
  <2>. QED  BY <1>4, <2>1 DEF WaitsKept, Settling, Settlers
<1>8. \A i \in Edges : record[i].generation \in Nat
  BY ComputedAssumption DEF EdgeInv, EdgeTypes, Registration
<1>9. \A i \in Edges : scheduled[i] # 0 /\ i \in registered' => scheduled'[i] # 0
  <2>1. CASE scheduled' = scheduled
    BY <2>1
  <2>2. CASE StillSelected(e) /\ scheduled' = [scheduled EXCEPT ![e] = record[e].generation]
    <3>1. record[e].generation # 0
      BY <1>1, <1>5, <2>2 DEF Numbered, StillSelected
    <3>2. scheduled \in [Subscribers -> Nat]
      BY DEF EdgeInv, EdgeTypes
    <3>. QED  BY <2>2, <3>1, <3>2, ComputedAssumption
  <2>. QED  BY <1>2, <2>1, <2>2
<1>10. ASSUME NEW i \in Edges, i # e PROVE CallKept(i)
  <2>1. Carries(Bringers(i, record[i].generation))
    BY <1>4, <1>8, <1>10
  <2>. QED  BY <1>6, <1>9, <2>1, CallLemma
<1>11. ASSUME NEW z \in Computeds, z # c PROVE Kindly(z)
  <2>1. \A s \in Stores : <<z, s>> \in Edges /\ <<z, s>> # e
    BY <1>0, <1>11, EdgeLemma
  <2>. QED  BY <1>7, <1>10, <2>1 DEF Kindly
<1>12. SUFFICES Tidings(c)'
  <2>1. \A z \in Computeds \ {c} : cell'[z] = cell[z]
    BY <1>1, <1>2
  <2>2. /\ \A z \in Computeds \cap {c} : Tidings(z)'
        /\ \A z \in Computeds \ {c} : cell'[z] = cell[z] /\ Kindly(z)
    BY <1>11, <1>12, <2>1
  <2>. QED  BY <1>1, <1>6, <2>2, ToldStands
<1>13. ASSUME CallKept(e) PROVE Kindly(c)
  <2>1. \A s \in Stores : <<c, s>> \in Edges
    BY EdgeLemma
  <2>. QED  BY <1>7, <1>10, <1>13, <2>1 DEF Kindly
<1>14. CASE ~StillSelected(e) /\ cell' = cell
  <2>1. e \in registered => Top.generation < record[e].generation
    <3>1. ~disposed[Top.store]
      BY <1>3 DEF EdgeInv, StoreTypes
    <3>2. Top.generation \in Nat
      BY <1>3
    <3>. QED  BY <1>5, <1>14, <3>1, <3>2 DEF StillSelected
  <2>2. CallKept(e)
    <3>1. CASE e \in registered
      BY <1>4, <1>5, <1>6, <1>9, <2>1, <3>1, CallLemma
    <3>2. CASE e \notin registered
      BY <3>2 DEF CallKept, Called
    <3>. QED  BY <3>1, <3>2
  <2>3. Alike(cell'[c], cell[c])
    BY <1>14 DEF Alike
  <2>. QED  BY <1>1, <1>13, <1>14, <2>2, <2>3, TidingsStand
<1>15. CASE StillSelected(e) /\ cell' = cell
            /\ scheduled' = [scheduled EXCEPT ![e] = record[e].generation]
  <2>1. e \in registered' /\ record[e].generation # 0
    BY <1>1, <1>2, <1>5, <1>15 DEF Numbered, StillSelected, EdgesUnchanged
  <2>2. scheduled'[e] # 0
    BY <1>5, <1>15, <2>1 DEF EdgeInv, EdgeTypes
  <2>3. CallKept(e)
    BY <2>1, <2>2 DEF CallKept, Called
  <2>4. Alike(cell'[c], cell[c])
    BY <1>15 DEF Alike
  <2>. QED  BY <1>1, <1>13, <1>15, <2>3, <2>4, TidingsStand
<1>16. CASE /\ cell' = [cell EXCEPT ![c] = Marked(c)]
            /\ wave' = IF OwesSettlement(c) THEN Defer(c) ELSE wave
  <2>1. cell'[c] = Marked(c)
    BY <1>1, <1>16
  <2>2. /\ Alike(cell'[c], cell[c]) /\ cell'[c].announced = cell[c].announced
        /\ cell'[c].observers = cell[c].observers
        /\ cell'[c].valid => cell[c].valid
    BY <2>1, AskedTells
  <2>3. OwesSettlement(c) => Settling(c)'
    BY <1>16, DeferWaits DEF Settling
  <2>4. ~OwesSettlement(c) => ~AnnouncementMoved(c)
    BY DEF OwesSettlement
  <2>. QED  BY <1>1, <2>2, <2>3, <2>4, FieldsStay
<1>. QED  BY <1>2, <1>14, <1>15, <1>16

\* A settlement tells the observers, unless the body fails.
LEMMA SettleTells ==
  ASSUME EdgeInv, Knowing, StoresSame, EdgeTypes', NEW c \in Computeds, Tidings(c),
         NEW k \in {Asked(c), Marked(c)}, NEW frames, Settle(c, k, frames)
  PROVE  Tidings(c)'
<1>1. /\ k \in Cell /\ Alike(k, cell[c]) /\ k.announced = cell[c].announced
      /\ k.observers = cell[c].observers
      /\ k.valid => cell[c].valid
  BY AskedTells
<1>2. cell \in [Computeds -> Cell]
  BY DEF EdgeInv, EdgeTypes
<1>3. CASE Stale(c) /\ BodyFails(c)
  <2>1. cell'[c] = k
    BY <1>2, <1>3 DEF Settle
  <2>. QED  BY <1>1, <1>3, <2>1, FieldsStay
<1>4. CASE ~(Stale(c) /\ BodyFails(c))
  <2>1. PICK settled : settled = IF Stale(c) THEN Recomputed(c) ELSE k
    OBVIOUS
  <2>2. cell'[c] = Announced(settled)
    BY <1>2, <1>4, <2>1 DEF Settle
  <2>3. settled \in Cell /\ Faithful(settled, c) /\ \A s \in Stores : ~LeafMatches(settled, s)
    <3>1. CASE Stale(c)
      BY <2>1, <3>1, RecomputedTells
    <3>2. CASE ~Stale(c)
      <4>1. Faithful(k, c) /\ \A s \in Stores : ~LeafMatches(cell[c], s)
        BY <1>1, <3>2, FreshFaithful DEF Alike
      <4>. QED  BY <1>1, <2>1, <3>2, <4>1 DEF Alike, LeafMatches
    <3>. QED  BY <3>1, <3>2
  <2>4. /\ cell'[c].value = settled.value /\ cell'[c].versions = settled.versions
        /\ cell'[c].announced = [value |-> settled.value, versions |-> settled.versions]
    BY <2>2, <2>3 DEF Announced, Cell
  <2>5. Faithful(cell'[c], c) /\ \A s \in Stores : ~LeafMatches(cell'[c], s)
    <3>1. Alike(cell'[c], settled)
      BY <2>4 DEF Alike
    <3>. QED  BY <2>3, <2>4, <3>1, AlikeLemma DEF LeafMatches
  <2>. QED  BY <2>4, <2>5, FieldsAnnounced
<1>. QED  BY <1>3, <1>4

\* The queued call of an edge.
LEMMA RunEdgeTold ==
  ASSUME EdgeInv, ToldInv, Knowing, NEW c \in Computeds, NEW s \in Stores, RunEdge(c, s)
  PROVE  ToldInv'
<1>1. /\ Steady /\ StoresSame /\ Tidings(c) /\ cell \in [Computeds -> Cell] /\ EdgeTypes'
      /\ EdgesQueued /\ EdgesMatchReads /\ scheduled \in [Subscribers -> Nat]
  BY RunEdgeStands, StandsSteady DEF Steady, ToldInv, EdgeInv, EdgeTypes
<1>2. /\ wave' = wave /\ scheduled' = Retracted([scheduled EXCEPT ![<<c, s>>] = 0])
      /\ stack = <<>> /\ scheduled[<<c, s>>] # 0
      /\ IF OwesSettlement(c)
           THEN Settle(c, Marked(c), stack)
           ELSE cell' = [cell EXCEPT ![c] = Marked(c)] /\ EdgesUnchanged /\ stack' = stack
  BY DEF RunEdge
<1>3. cell[c].observers # {}
  BY <1>1, <1>2, EdgeLemma DEF EdgesQueued, EdgesMatchReads
<1>4. Handled(c) /\ Reshaped
  <2>1. CASE OwesSettlement(c)
    <3>1. Handled(c) /\ (stack' = stack \/ stack' = Append(stack, DeliverTo(c)))
      BY <1>2, <1>3, <2>1, SettleHandles
    <3>. QED  BY <3>1, PushedFrames DEF Reshaped, EdgeInv
  <2>2. CASE ~OwesSettlement(c)
    BY <1>2, <2>2, SameFields DEF Reshaped
  <2>. QED  BY <2>1, <2>2
<1>5. NumbersKept /\ \A z \in Computeds \ {c} : cell'[z] = cell[z]
  BY <1>4, HandledNumbers
<1>6. /\ \A e \in Edges, g \in Nat : Carries(Bringers(e, g))
      /\ \A z \in Computeds : WaitsKept(z)
  <2>1. ~(Len(stack) > 0)
    BY <1>2, EmptySeq
  <2>. QED  BY <1>2, <1>4, <2>1, ReshapedWork
<1>7. ASSUME NEW z \in Computeds \ {c} PROVE Kindly(z)
  <2>1. \A t \in Stores : <<z, t>> # <<c, s>> /\ <<z, t>> \in Edges /\ <<z, t>> \in Subscribers
    BY <1>7, EdgeLemma
  <2>2. \A t \in Stores : <<z, t>> \in registered' => scheduled'[<<z, t>>] = scheduled[<<z, t>>]
    BY <1>1, <1>2, <2>1, RetractedKeeps
  <2>3. \A e \in Edges : record[e].generation \in Nat
    BY ComputedAssumption DEF EdgeInv, EdgeTypes, Registration
  <2>. QED  BY <1>5, <1>6, <1>7, <2>1, <2>2, <2>3, KindlyLemma
<1>8. Tidings(c)'
  <2>1. CASE OwesSettlement(c)
    BY <1>1, <1>2, <2>1, SettleTells
  <2>2. CASE ~OwesSettlement(c)
    <3>1. cell'[c] = Marked(c) /\ ~AnnouncementMoved(c)
      BY <1>1, <1>2, <2>2 DEF OwesSettlement
    <3>2. /\ Alike(cell'[c], cell[c]) /\ cell'[c].announced = cell[c].announced
          /\ cell'[c].observers = cell[c].observers
          /\ cell'[c].valid => cell[c].valid
      BY <3>1, AskedTells
    <3>. QED  BY <1>1, <3>1, <3>2, FieldsStay
  <2>. QED  BY <2>1, <2>2
<1>9. /\ \A z \in Computeds \cap {c} : Tidings(z)'
      /\ \A z \in Computeds \ {c} : cell'[z] = cell[z] /\ Kindly(z)
  BY <1>5, <1>7, <1>8
<1>. QED  BY <1>1, <1>5, <1>9, ToldStands

\* A drain that did its first settlement has the others to do.
LEMMA TailWaits ==
  ASSUME NEW q \in Seq(Settlement), q # <<>>, NEW z, Waits(q, z),
         Head(q).comp # z \/ ~Head(q).live
  PROVE  Waits(Tail(q), z)
<1>1. PICK k \in 1..Len(q) : q[k].comp = z /\ q[k].live
  BY DEF Waits
<1>2. k # 1 /\ Len(q) \in Nat /\ k \in Nat
  BY <1>1
<1>3. /\ Len(Tail(q)) = Len(q) - 1
      /\ \A j \in 1..(Len(q) - 1) : Tail(q)[j] = q[j + 1]
  BY <1>2
<1>4. k - 1 \in 1..Len(Tail(q)) /\ Tail(q)[k - 1] = q[k]
  BY <1>2, <1>3
<1>. QED  BY <1>1, <1>4 DEF Waits

\* One settlement of the wave.
LEMMA SettleNextTold ==
  ASSUME EdgeInv, ToldInv, Knowing, SettleNext
  PROVE  ToldInv'
<1>0. PICK next, f : next = Head(Top.todo) /\ f = [Top EXCEPT !.todo = Tail(@)]
  OBVIOUS
<1>1. /\ Steady /\ StoresSame /\ cell \in [Computeds -> Cell] /\ EdgeTypes'
  BY SettleNextStands, StandsSteady DEF Steady, EdgeInv, EdgeTypes
<1>2. /\ wave' = wave /\ scheduled' = Retracted(scheduled)
      /\ Len(stack) > 0 /\ Top.kind = "drain" /\ Top.todo # <<>>
      /\ IF next.live THEN Settle(next.comp, Asked(next.comp), Retop(f))
                      ELSE stack' = Retop(f) /\ UNCHANGED cell /\ EdgesUnchanged
  BY <1>0 DEF SettleNext, Running
<1>3. Top \in [kind : {"drain"}, todo : Seq(Due)]
  BY <1>2, TopLemma, FrameLemma
<1>4. next \in Due /\ Tail(Top.todo) \in Seq(Due) /\ Top.todo \in Seq(Settlement)
  BY <1>0, <1>2, <1>3, HeadTailProperties, DueLemma
<1>5. f \in DueFrame /\ f \in WaveFrame /\ f.kind = "drain" /\ f.todo = Tail(Top.todo)
  BY <1>0, <1>3, <1>4, DueLemma DEF DueFrame
<1>6. next.comp \in Computeds /\ (next.live => cell[next.comp].observers # {})
  BY <1>4 DEF Due, Settlement
<1>7. stack' = Retop(f) \/ \E g \in DueFrame : stack' = Append(Retop(f), g)
  <2>1. next.live => stack' = Retop(f) \/ stack' = Append(Retop(f), DeliverTo(next.comp))
    BY <1>2, <1>6, SettleHandles
  <2>2. DeliverTo(next.comp) \in DueFrame
    BY <1>6, PushedFrames DEF EdgeInv
  <2>. QED  BY <1>2, <2>1, <2>2
<1>8. ASSUME NEW e, NEW g PROVE Carries(Bringers(e, g))
  <2>1. Top \notin Bringers(e, g)
    BY <1>2, KindLemma
  <2>. QED  BY <1>2, <1>5, <1>7, <2>1, RetopCarries
<1>9. ASSUME NEW z, z # next.comp \/ ~next.live PROVE WaitsKept(z)
  <2>1. Top \in Settlers(z) => f \in Settlers(z)
    BY <1>0, <1>2, <1>4, <1>5, <1>9, TailWaits DEF Settlers
  <2>2. Carries(Settlers(z))
    BY <1>2, <1>5, <1>7, <2>1, RetopCarries
  <2>. QED  BY <1>2, <2>2 DEF WaitsKept, Settling, Carries, Settlers
<1>10. ASSUME NumbersKept, NEW z \in Computeds, z # next.comp \/ ~next.live PROVE Kindly(z)
  BY <1>2, <1>8, <1>9, <1>10, EdgeLemma, RetractedKeeps, KindlyLemma
<1>11. CASE next.live
  <2>1. NumbersKept /\ \A z \in Computeds \ {next.comp} : cell'[z] = cell[z]
    BY <1>2, <1>6, <1>11, SettleHandles, HandledNumbers
  <2>2. Tidings(next.comp)'
    <3>1. Tidings(next.comp)
      BY <1>6 DEF ToldInv
    <3>. QED  BY <1>1, <1>2, <1>6, <1>11, <3>1, SettleTells
  <2>3. /\ \A z \in Computeds \cap {next.comp} : Tidings(z)'
        /\ \A z \in Computeds \ {next.comp} : cell'[z] = cell[z] /\ Kindly(z)
    BY <1>10, <2>1, <2>2
  <2>. QED  BY <1>1, <2>1, <2>3, ToldStands
<1>12. CASE ~next.live
  <2>1. NumbersKept /\ cell' = cell
    BY <1>2, <1>12, SameNumbers
  <2>2. /\ \A z \in Computeds \cap {} : Tidings(z)'
        /\ \A z \in Computeds \ {} : cell'[z] = cell[z] /\ Kindly(z)
    BY <1>10, <1>12, <2>1
  <2>. QED  BY <1>1, <2>1, <2>2, ToldStands
<1>. QED  BY <1>11, <1>12

-----------------------------------------------------------------------------
(***************************************************************************)
(* The steps that move the stores: what a value knows of its places stays, *)
(* or moves from the draft to the log.                                     *)
(***************************************************************************)
LEMMA TellsMoves ==
  ASSUME EdgeInv, StoreTypes', NEW c \in Computeds, Tells(cell[c], c),
         cell'[c].value = cell[c].value, cell'[c].versions = cell[c].versions,
         cell'[c].announced = cell[c].announced, cell'[c].observers = cell[c].observers,
         cell'[c].valid => cell[c].valid,
         \A s \in Stores : version[s] <= version'[s],
         \A l \in Places : On(l)' # On(l) => DraftAt(l)',
         \A k \in {cell[c], cell[c].announced}, l \in Places :
            /\ DraftAt(l) => DraftAt(l)' \/ LogAt(k, l)'
            /\ LogAt(k, l) => LogAt(k, l)'
  PROVE  Tells(cell[c], c)'
<1>1. PICK k, j : k = cell[c] /\ j = cell[c].announced
  OBVIOUS
<1>2. /\ cell'[c].value = k.value /\ cell'[c].versions = k.versions /\ cell'[c].announced = j
      /\ k \in {cell[c], cell[c].announced} /\ j \in {cell[c], cell[c].announced}
      /\ k \in Cell
  BY <1>1 DEF EdgeInv, EdgeTypes
<1>3. ASSUME NEW h \in {cell[c], cell[c].announced}, Faithful(h, c)
      PROVE  Faithful(h, c)'
  <2>1. ASSUME NEW l \in ReadPlaces(h) PROVE KnownAt(h, l)'
    <3>1. l \in Places /\ KnownAt(h, l)
      BY <1>3 DEF ReadPlaces, Faithful
    <3>. QED  BY <3>1 DEF KnownAt
  <2>2. Shaped(h, c)' /\ ReadPlaces(h)' = ReadPlaces(h)
    BY <1>3 DEF Faithful, Shaped, ReadPlaces, GateReads
  <2>. QED  BY <2>1, <2>2 DEF Faithful
<1>4. Faithful(k, c)' => Faithful(cell[c], c)'
  BY <1>2 DEF Faithful, Shaped, ReadPlaces, GateReads, KnownAt, DraftAt, LogAt, LogMatches, On
<1>5. Faithful(j, c)' => Faithful(cell[c].announced, c)'
  BY <1>2 DEF Faithful, Shaped, ReadPlaces, GateReads, KnownAt, DraftAt, LogAt, LogMatches, On
<1>6. Shaped(k, c) => Shaped(cell[c], c)'
  BY <1>2 DEF Shaped, ReadPlaces, GateReads
<1>7. GateTold(k, c) => GateTold(cell[c], c)'
  <2>1. Gate[c] \in Places
    BY BodyLemma
  <2>2. /\ DraftAt(Gate[c]) => DraftAt(Gate[c])' \/ LogAt(j, Gate[c])'
        /\ LogAt(j, Gate[c]) => LogAt(j, Gate[c])'
    BY <1>2, <2>1
  <2>3. LogAt(j, Gate[c])' <=> LogAt(cell[c].announced, Gate[c])'
    BY <1>2 DEF LogAt, LogMatches
  <2>. QED  BY <1>1, <1>2, <2>2, <2>3 DEF GateTold
<1>8. ASSUME NEW s \in Stores PROVE cell'[c].announced.versions[s].at <= version'[s]
  <2>1. j.versions[s].at <= version[s] /\ version[s] <= version'[s]
    BY <1>1 DEF Tells
  <2>2. j.versions[s].at \in Nat /\ version[s] \in Nat /\ version'[s] \in Nat
    BY <1>1, <1>2, CarburetorAssumption DEF Cell, Leaf, EdgeInv, StoreTypes
  <2>. QED  BY <1>2, <2>1, <2>2
<1>. QED  BY <1>1, <1>2, <1>3, <1>4, <1>5, <1>6, <1>7, <1>8 DEF Tells

\* What is on its way stays, and a write that is new in the log is.
LEMMA ComingMoves ==
  ASSUME NEW c \in Computeds, Coming(cell[c], c),
         cell'[c].value = cell[c].value, cell'[c].versions = cell[c].versions,
         cell'[c].announced = cell[c].announced, Gate[c] \in ReadPlaces(cell[c]),
         \A l \in ReadPlaces(cell[c]) : LogAt(cell[c].announced, l)' =>
           LogAt(cell[c].announced, l) \/ Comes(c, l)',
         \A l \in ReadPlaces(cell[c]) : Comes(c, l) => Comes(c, l)',
         Settling(c) => Settling(c)',
         BodyFails(c) => BodyFails(c)' \/ \E l \in ReadPlaces(cell[c]) : Comes(c, l)'
  PROVE  Coming(cell[c], c)'
<1>1. PICK k : k = cell[c]
  OBVIOUS
<1>2. /\ ReadPlaces(cell[c])' = ReadPlaces(k)
      /\ ReadPlaces(cell[c].announced)' = ReadPlaces(k.announced)
  BY <1>1 DEF ReadPlaces
<1>3. SUFFICES ASSUME NEW l \in ReadPlaces(k.announced) \cap ReadPlaces(k),
                      LogAt(cell[c].announced, l)'
               PROVE  Settling(c)' \/ Comes(c, l)' \/ Comes(c, Gate[c])' \/ Stuck(cell[c], c)'
  BY <1>2 DEF Coming
<1>4. LogAt(cell[c].announced, l) \/ Comes(c, l)'
  BY <1>1, <1>3
<1>5. SUFFICES ASSUME LogAt(cell[c].announced, l)
               PROVE  Settling(c)' \/ Comes(c, l)' \/ Comes(c, Gate[c])' \/ Stuck(cell[c], c)'
  BY <1>4
<1>6. Settling(c) \/ Comes(c, l) \/ Comes(c, Gate[c]) \/ Stuck(cell[c], c)
  BY <1>1, <1>3, <1>5 DEF Coming
<1>7. Stuck(cell[c], c) => Stuck(cell[c], c)'
  BY <1>1, <1>2 DEF Stuck
<1>. QED  BY <1>1, <1>3, <1>6, <1>7

LEMMA WriteTold ==
  ASSUME EdgeInv, ToldInv, SteadyFailures, NEW s \in Stores, NEW W \in WriteSets, Write(s, W)
  PROVE  ToldInv'
<1>0. StoreTypes /\ EdgeTypes
  BY DEF EdgeInv
<1>1. /\ version' = version /\ writeLog' = writeLog /\ cell' = cell /\ registered' = registered
      /\ record' = record /\ pending' = pending /\ stack' = stack
      /\ writes' = [writes EXCEPT ![s] = @ \cup W]
      /\ data' = [data EXCEPT ![s] = [p \in Paths |-> IF p \in W THEN ~@[p] ELSE @[p]]]
  BY WriteLemma
<1>2. counter' = counter /\ scheduled' = scheduled /\ wave' = wave
  BY DEF Write, DraftWrite, subscriptionVars
<1>3. \A t \in Stores : writes[t] \subseteq writes'[t] /\ W \subseteq writes'[s]
  BY <1>0, <1>1 DEF StoreTypes
<1>4. \A t \in Stores, p \in Paths : t # s \/ p \notin W => data'[t][p] = data[t][p]
  BY <1>0, <1>1 DEF StoreTypes
<1>5. \A l \in Places : l[1] \in Stores /\ l[2] \in Paths
  BY DEF Places
<1>6. \A l \in Places : DraftAt(l) => DraftAt(l)'
  BY <1>3, <1>5 DEF DraftAt, Concerns
<1>7. \A k, l : LogAt(k, l)' <=> LogAt(k, l)
  BY <1>1 DEF LogAt, LogMatches
<1>8. ASSUME NEW l \in Places PROVE DraftAt(l)' \/ data'[l[1]][l[2]] = data[l[1]][l[2]]
  <2>1. SUFFICES ASSUME l[1] = s, l[2] \in W PROVE DraftAt(l)'
    BY <1>4, <1>5
  <2>2. l[2] \in writes'[l[1]]
    BY <1>3, <2>1
  <2>3. Intersects(l[2], l[2])
    BY <1>5, ComputedAssumption DEF Intersects
  <2>. QED  BY <2>2, <2>3 DEF DraftAt, Concerns
<1>9. ASSUME NEW c \in Computeds PROVE Tidings(c)'
  <2>1. /\ Tidings(c) /\ StoreTypes'
        /\ \A l \in Places : On(l)' # On(l) => DraftAt(l)'
    <3>1. StoreTypes'
      BY WriteLemma DEF EdgeInv
    <3>. QED  BY <1>8, <3>1 DEF ToldInv, On
  <2>2. \A t \in Stores : version[t] <= version'[t]
    BY <1>0, <1>1, CarburetorAssumption DEF StoreTypes
  <2>3. Tells(cell[c], c)'
    BY <1>1, <1>6, <1>7, <2>1, <2>2, TellsMoves DEF Tidings
  <2>4. SUFFICES ASSUME cell'[c].observers # {} PROVE Coming(cell[c], c)'
    BY <2>3 DEF Tidings
  <2>5. Coming(cell[c], c) /\ Shaped(cell[c], c)
    BY <1>1, <2>1, <2>4 DEF Tidings, Tells
  <2>6. ASSUME NEW l \in ReadPlaces(cell[c]) PROVE Comes(c, l) => Comes(c, l)'
    <3>1. l \in Places
      BY DEF ReadPlaces
    <3>2. DraftAt(l) => DraftAt(l)'
      BY <1>6, <3>1
    <3>3. /\ Unmatched(l[1])' = Unmatched(l[1])
          /\ Called(<<c, l[1]>>)' <=> Called(<<c, l[1]>>)
      BY <1>1, <1>2 DEF Unmatched, Frames, Called
    <3>. QED  BY <3>2, <3>3 DEF Comes, Concerns
  <2>7. Settling(c) => Settling(c)'
    BY <1>1, <1>2 DEF Settling, Waits, Settlers
  <2>8. BodyFails(c) => BodyFails(c)' \/ \E l \in ReadPlaces(cell[c]) : Comes(c, l)'
    <3>1. SUFFICES ASSUME BodyFails(c), ~BodyFails(c)'
                   PROVE  \E l \in ReadPlaces(cell[c]) : Comes(c, l)'
      OBVIOUS
    <3>2. PICK l \in BodyReads(c) : data'[l[1]][l[2]] # data[l[1]][l[2]]
      BY <3>1, BodyKept
    <3>3. l \in Places /\ DraftAt(l)'
      BY <1>8, <3>2, BodyLemma
    <3>4. l \in ReadPlaces(cell[c])
      BY <2>5, <3>1, <3>2 DEF Shaped, GateReads, BodyReads, BodyFails, SteadyFailures
    <3>. QED  BY <3>3, <3>4 DEF Comes
  <2>9. Gate[c] \in ReadPlaces(cell[c])
    BY <2>5, GateLemma
  <2>. QED  BY <1>1, <1>7, <2>5, <2>6, <2>7, <2>8, <2>9, ComingMoves
<1>10. Numbered'
  BY <1>1, <1>2 DEF ToldInv, Numbered
<1>. QED  BY <1>9, <1>10 DEF ToldInv

(***************************************************************************)
(* A pass that starts brings the writes to the edges that read them.       *)
(***************************************************************************)
LEMMA BroughtLemma ==
  ASSUME EdgeInv, Numbered, NEW s \in Stores, NEW W, NEW at, NEW frames \in Seq(DueFrame),
         Notifies(s, W, at, frames), registered' = registered,
         NEW c \in Computeds, cell[c].observers # {},
         NEW l \in ReadPlaces(cell[c]), l[1] = s, Concerns(W, {l[2]})
  PROVE  Called(<<c, l[1]>>)'
<1>. DEFINE e == <<c, s>>
<1>1. e \in Edges /\ e \in Subscribers /\ Home[e] = s /\ e[2] = s
  BY EdgeLemma
<1>2. l[2] \in cell[c].versions[s].reads
  BY DEF ReadPlaces
<1>3. e \in registered /\ l[2] \in record[e].reads
  BY <1>2 DEF EdgeInv, EdgesMatchReads
<1>4. e \in Match(s, W)
  BY <1>1, <1>3 DEF Match, Concerns
<1>5. record[e].generation <= counter[s] /\ record'[e].generation = record[e].generation
  BY <1>1, <1>3 DEF Numbered, Notifies
<1>6. PICK f \in DueFrame : /\ f.kind = "notify" /\ f.store = s /\ f.generation = counter[s]
                            /\ f.todo = Match(s, W) /\ stack' = Append(frames, f)
  BY DEF Notifies
<1>7. f \in Bringers(e, record'[e].generation)
  BY <1>1, <1>4, <1>5, <1>6, DueLemma DEF Bringers
<1>8. SomeFrame(stack', Bringers(e, record'[e].generation))
  BY <1>6, <1>7, SomePush
<1>. QED  BY <1>3, <1>8 DEF Called

\* What a publication of s makes of the log.
LEMMA PublishedMoves ==
  ASSUME EdgeInv, NEW s \in Stores, Published(s),
         NEW k, \A t \in Stores : k.versions[t].at \in Nat /\ k.versions[t].at <= version[t],
         NEW l \in Places
  PROVE  /\ LogAt(k, l) => LogAt(k, l)'
         /\ DraftAt(l) => DraftAt(l)' \/ LogAt(k, l)'
         /\ LogAt(k, l)' => LogAt(k, l) \/ (l[1] = s /\ Concerns(Closed(s), {l[2]}))
<1>1. PICK now, at, t, r : now = version[s] + 1 /\ t = l[1] /\ at = k.versions[t].at /\ r = {l[2]}
  OBVIOUS
<1>2. /\ version[s] \in Nat /\ now \in 1..MaxVersion
      /\ version'[s] = now /\ \A z \in Stores \ {s} : version'[z] = version[z]
      /\ writes'[s] = {} /\ \A z \in Stores \ {s} : writes'[z] = writes[z]
      /\ \A z \in Stores \ {s} : writeLog'[z] = writeLog[z]
      /\ writeLog'[s][now] = Closed(s)
      /\ \A v \in 1..MaxVersion : v # now => writeLog'[s][v] = writeLog[s][v]
  BY <1>1, PublishedStores
<1>3. t \in Stores /\ at \in Nat /\ at <= version[t] /\ MaxVersion \in Nat
  BY <1>1, CarburetorAssumption DEF Places
<1>4. /\ LogAt(k, l) <=> LogMatches(t, at, r)
      /\ LogAt(k, l)' <=> LogMatches(t, at, r)'
      /\ DraftAt(l) <=> Concerns(writes[t], r)
      /\ DraftAt(l)' <=> Concerns(writes'[t], r)
  BY <1>1 DEF LogAt, DraftAt, Concerns, LogMatches
<1>5. CASE t # s
  BY <1>2, <1>3, <1>4, <1>5 DEF LogMatches
<1>6. CASE t = s
  <2>1. LogMatches(s, at, r) => LogMatches(s, at, r)'
    <3>1. SUFFICES ASSUME NEW v \in 1..MaxVersion, at < v, v <= version[s],
                          Concerns(writeLog[s][v], r)
                   PROVE  LogMatches(s, at, r)'
      BY DEF LogMatches
    <3>2. v # now /\ v <= now
      BY <1>1, <1>2, <3>1
    <3>. QED  BY <1>2, <3>1, <3>2 DEF LogMatches
  <2>2. Concerns(Closed(s), r) => LogMatches(s, at, r)'
    <3>1. at < now
      BY <1>1, <1>2, <1>3, <1>6
    <3>2. now <= version'[s]
      BY <1>1, <1>2
    <3>. QED  BY <1>2, <3>1, <3>2 DEF LogMatches
  <2>3. Concerns(writes[s], r) => Concerns(Closed(s), r)
    BY DEF Closed, Concerns
  <2>4. LogMatches(s, at, r)' => LogMatches(s, at, r) \/ Concerns(Closed(s), r)
    <3>1. SUFFICES ASSUME NEW v \in 1..MaxVersion, at < v, v <= version'[s],
                          Concerns(writeLog'[s][v], r), v # now
                   PROVE  LogMatches(s, at, r)
      BY <1>2 DEF LogMatches
    <3>2. v <= version[s]
      BY <1>1, <1>2, <3>1
    <3>. QED  BY <1>2, <3>1, <3>2 DEF LogMatches
  <2>. QED  BY <1>1, <1>4, <1>6, <2>1, <2>2, <2>3, <2>4
<1>. QED  BY <1>5, <1>6

LEMMA PublishedTold ==
  ASSUME EdgeInv, ToldInv, NEW s \in Stores, Published(s), EdgeInv', data' = data,
         UNCHANGED <<counter, scheduled, wave>>
  PROVE  ToldInv'
<1>0. StoreTypes /\ EdgeTypes /\ WorkTypes /\ StoreTypes' /\ Numbered /\ MaxVersion \in Nat
  BY CarburetorAssumption DEF EdgeInv, ToldInv
<1>1. \A t \in Stores : version[t] <= version'[t]
  <2>1. PICK now : now = version[s] + 1
    OBVIOUS
  <2>2. /\ version[s] \in Nat /\ version'[s] = now
        /\ \A t \in Stores \ {s} : version'[t] = version[t]
    BY <2>1, PublishedStores
  <2>3. version'[s] >= version[s]
    BY <2>1, <2>2
  <2>4. \A t \in Stores : version[t] \in Nat
    BY <1>0 DEF StoreTypes
  <2>5. ASSUME NEW t \in Stores \ {s} PROVE version[t] <= version'[t]
    BY <2>2, <2>4
  <2>. QED  BY <2>1, <2>2, <2>3, <2>5
<1>2. registered' = registered /\ stack \in Seq(DueFrame) /\ stack' \in Seq(WaveFrame)
  <2>1. stack' \in Seq(DueFrame') /\ Due' \subseteq Settlement
    BY DEF EdgeInv, WorkTypes, Due
  <2>2. DueFrame' \subseteq WaveFrame
    BY <2>1, SeqMonotonic DEF DueFrame, WaveFrame
  <2>. QED  BY <1>0, <2>1, <2>2, SeqMonotonic DEF Published, WorkTypes
<1>3. stack' = stack \/ \E f \in DueFrame : stack' = Append(stack, f)
  BY DEF Published, Notifies
<1>4. Reshaped
  <2>1. CASE stack' = stack
    BY <2>1 DEF Reshaped
  <2>2. ASSUME depth = 0, NEW f \in DueFrame, f.kind = "notify", stack' = Append(stack, f)
        PROVE  Reshaped
    BY <2>2 DEF Reshaped, Inert
  <2>. QED  BY <2>1, <2>2 DEF Published, Notifies
<1>5. ASSUME NEW t \in Stores PROVE Unmatched(t) \subseteq Unmatched(t)'
  <2>1. pending[t] \subseteq pending'[t]
    BY <1>0 DEF Published, StoreTypes
  <2>. QED  BY <1>2, <1>4, <2>1, UnmatchedKept
<1>6. ASSUME NEW G, SomeFrame(stack, G) PROVE SomeFrame(stack', G)
  <2>1. ASSUME NEW f \in DueFrame, stack' = Append(stack, f) PROVE SomeFrame(stack', G)
    BY <1>2, <1>6, <2>1, SomePush
  <2>. QED  BY <1>3, <1>6, <2>1
<1>7. ASSUME NEW e \in Edges PROVE Called(e) => Called(e)'
  <2>1. e \in Subscribers
    BY ComputedAssumption
  <2>2. record'[e].generation = record[e].generation
    BY <2>1 DEF Published, Notifies
  <2>. QED  BY <1>2, <1>6, <2>2 DEF Called
<1>8. ASSUME NEW c \in Computeds PROVE Tidings(c)'
  <2>1. /\ cell'[c].value = cell[c].value /\ cell'[c].versions = cell[c].versions
        /\ cell'[c].announced = cell[c].announced /\ cell'[c].observers = cell[c].observers
        /\ cell'[c].valid = cell[c].valid
    BY <1>0 DEF Published, EdgeTypes, Cell
  <2>2. Tidings(c) /\ Tells(cell[c], c) /\ cell[c] \in Cell
    BY <1>0 DEF ToldInv, Tidings, EdgeTypes
  <2>3. ASSUME NEW k \in {cell[c], cell[c].announced}, NEW t \in Stores
        PROVE  k.versions[t].at \in Nat /\ k.versions[t].at <= version[t]
    BY <1>0, <2>2 DEF EdgeTypes, Cell, Leaf, Tells
  <2>4. ASSUME NEW k \in {cell[c], cell[c].announced}, NEW l \in Places
        PROVE  /\ LogAt(k, l) => LogAt(k, l)'
               /\ DraftAt(l) => DraftAt(l)' \/ LogAt(k, l)'
               /\ LogAt(k, l)' => LogAt(k, l) \/ (l[1] = s /\ Concerns(Closed(s), {l[2]}))
    BY <2>3, PublishedMoves
  <2>5. \A l \in Places : On(l)' = On(l)
    BY DEF On
  <2>6. Tells(cell[c], c)'
    BY <1>0, <1>1, <2>1, <2>2, <2>4, <2>5, TellsMoves
  <2>7. SUFFICES ASSUME cell[c].observers # {} PROVE Coming(cell[c], c)'
    BY <2>1, <2>6 DEF Tidings
  <2>8. Coming(cell[c], c) /\ Shaped(cell[c], c)
    BY <2>2, <2>7 DEF Tidings, Tells
  <2>9. \A l \in ReadPlaces(cell[c]) : l \in Places /\ l[1] \in Stores /\ <<c, l[1]>> \in Edges
    BY EdgeLemma DEF ReadPlaces, Places
  <2>10. ASSUME NEW l \in ReadPlaces(cell[c]), l[1] = s, Concerns(Closed(s), {l[2]})
         PROVE  Comes(c, l)'
    <3>1. CASE pending' = [pending EXCEPT ![s] = @ \cup Closed(s)]
      <4>1. Closed(s) \subseteq pending'[s]
        BY <1>0, <3>1 DEF StoreTypes
      <4>2. Closed(s) \subseteq Unmatched(s)'
        BY <4>1 DEF Unmatched
      <4>3. Concerns(Unmatched(s)', {l[2]})
        BY <2>10, <4>2 DEF Concerns
      <4>. QED  BY <2>10, <4>3 DEF Comes, Concerns
    <3>2. CASE Notifies(s, Closed(s), version[s] + 1, stack)
      BY <1>0, <1>2, <2>7, <2>10, <3>2, BroughtLemma DEF Comes
    <3>. QED  BY <3>1, <3>2 DEF Published
  <2>11. ASSUME NEW l \in ReadPlaces(cell[c]), Comes(c, l) PROVE Comes(c, l)'
    <3>1. DraftAt(l) => DraftAt(l)' \/ (l[1] = s /\ Concerns(Closed(s), {l[2]}))
      <4>1. l[1] # s => writes'[l[1]] = writes[l[1]]
        BY <1>0, <2>9 DEF Published, StoreTypes
      <4>2. l[1] # s => (DraftAt(l) => DraftAt(l)')
        BY <4>1 DEF DraftAt, Concerns
      <4>3. l[1] = s => (DraftAt(l) => Concerns(Closed(s), {l[2]}))
        BY DEF DraftAt, Closed, Concerns
      <4>. QED  BY <4>2, <4>3
    <3>2. Concerns(Unmatched(l[1]), {l[2]}) => Concerns(Unmatched(l[1])', {l[2]})
      BY <1>5, <2>9 DEF Concerns
    <3>3. Called(<<c, l[1]>>) => Called(<<c, l[1]>>)'
      BY <1>7, <2>9
    <3>4. Concerns(Unmatched(l[1])', {l[2]}) => Comes(c, l)'
      BY DEF Comes, Concerns
    <3>. QED  BY <2>10, <2>11, <3>1, <3>2, <3>3, <3>4 DEF Comes
  <2>12. ASSUME NEW l \in ReadPlaces(cell[c]), LogAt(cell[c].announced, l)'
         PROVE  LogAt(cell[c].announced, l) \/ Comes(c, l)'
    <3>1. PICK k : k = cell[c].announced
      OBVIOUS
    <3>2. LogAt(k, l)'
      BY <2>1, <2>12, <3>1 DEF LogAt, LogMatches
    <3>3. LogAt(k, l) \/ (l[1] = s /\ Concerns(Closed(s), {l[2]}))
      BY <2>4, <2>9, <3>1, <3>2
    <3>. QED  BY <2>10, <3>1, <3>3
  <2>13. Settling(c) => Settling(c)'
    BY <1>6 DEF Settling, Waits, Settlers
  <2>14. BodyFails(c) => BodyFails(c)'
    BY DEF BodyFails, On
  <2>15. Gate[c] \in ReadPlaces(cell[c])
    BY <2>8, GateLemma
  <2>. QED  BY <2>1, <2>8, <2>11, <2>12, <2>13, <2>14, <2>15, ComingMoves
<1>9. Numbered'
  <2>1. \A e \in Edges : e \in Subscribers
    BY ComputedAssumption
  <2>2. \A i \in Subscribers : record'[i].generation = record[i].generation
    BY DEF Published, Notifies
  <2>. QED  BY <1>0, <1>2, <2>1, <2>2 DEF Numbered
<1>. QED  BY <1>8, <1>9 DEF ToldInv

LEMMA PublishTold ==
  ASSUME EdgeInv, ToldInv, NEW s \in Stores, Publish(s)
  PROVE  ToldInv'
<1>1. /\ EdgeInv' /\ data' = data
      /\ \/ UNCHANGED <<version, notified, writes, writeLog, pending, registered, record,
                        stack, cell>>
         \/ Published(s)
  BY PublishLemma
<1>2. UNCHANGED <<counter, scheduled, wave>>
  BY DEF Publish, EmitUpdate
<1>3. CASE Published(s)
  BY <1>1, <1>2, <1>3, PublishedTold
<1>4. CASE UNCHANGED <<version, notified, writes, writeLog, pending, registered, record,
                       stack, cell>>
  <2>1. (\A t \in Stores : Unmatched(t)' = Unmatched(t)) /\ EdgesUnchanged
    BY <1>2, <1>4 DEF Unmatched, Frames, EdgesUnchanged
  <2>. QED  BY <1>1, <1>2, <1>4, <2>1, StillCarries, ToldWork DEF Steady, StoresSame
<1>. QED  BY <1>1, <1>3, <1>4

\* The flush notifies one store of its batch.
LEMMA NotifyBatchedTold ==
  ASSUME EdgeInv, ToldInv, NEW s \in Stores, NotifyBatched(s), UNCHANGED computedVars
  PROVE  ToldInv'
<1>1. PICK W : W = Top.batch[s]
  OBVIOUS
<1>2. /\ EdgeInv' /\ StoresSame /\ registered' = registered /\ cell' = cell
      /\ Len(stack) > 0 /\ Top.kind = "flush"
  BY NotifyBatchedLemma DEF StoresSame
<1>3. UNCHANGED <<counter, scheduled, wave>>
  BY DEF NotifyBatched, computedVars
<1>4. PICK f \in DueFrame : Notifies(s, W, version[s], Retop(f))
  BY <1>1, NotifyBatchedLemma
<1>5. Retop(f) \in Seq(DueFrame)
  BY <1>2, <1>4, StackLemma, PushSeq DEF Retop, EdgeInv, WorkTypes
<1>6. ASSUME NEW G, Top \notin G PROVE Carries(G)
  <2>1. \E g \in DueFrame : stack' = Append(Retop(f), g)
    BY <1>4 DEF Notifies
  <2>. QED  BY <1>2, <1>4, <1>6, <2>1, RetopCarries
<1>7. \A e, g : Top \notin Bringers(e, g) /\ Top \notin Settlers(e)
  BY <1>2, KindLemma
<1>8. NumbersKept
  <2>1. \A i \in Subscribers : record'[i].generation = record[i].generation
    BY <1>4 DEF Notifies
  <2>2. \A e \in Edges : e \in Subscribers
    BY ComputedAssumption
  <2>3. \A t \in Stores : counter[t] \in Nat
    BY DEF EdgeInv, EdgeTypes
  <2>. QED  BY <1>2, <1>3, <2>1, <2>2, <2>3 DEF NumbersKept
<1>9. ASSUME NEW c \in Computeds PROVE Settling(c) => Settling(c)'
  <2>1. Carries(Settlers(c))
    BY <1>6, <1>7
  <2>. QED  BY <1>3, <2>1 DEF Settling, Carries, Settlers
<1>10. ASSUME NEW e \in Edges PROVE Called(e) => Called(e)'
  <2>1. Carries(Bringers(e, record[e].generation))
    BY <1>6, <1>7
  <2>. QED  BY <1>2, <1>3, <1>8, <2>1, CallLemma DEF CallKept, Called
<1>11. ASSUME NEW c \in Computeds PROVE Tidings(c)'
  <2>1. ASSUME cell[c].observers # {}, NEW l \in ReadPlaces(cell[c]), Comes(c, l)
        PROVE  Comes(c, l)'
    <3>1. l[1] \in Stores /\ <<c, l[1]>> \in Edges
      BY EdgeLemma DEF ReadPlaces, Places
    <3>2. DraftAt(l) => DraftAt(l)'
      BY <1>2 DEF StoresSame, DraftAt
    <3>3. Called(<<c, l[1]>>) => Called(<<c, l[1]>>)'
      BY <1>10, <3>1
    <3>4. ASSUME Concerns(Unmatched(l[1]), {l[2]}) PROVE Comes(c, l)'
      <4>1. PICK p \in Unmatched(l[1]) : Concerns({p}, {l[2]})
        BY <3>4 DEF Concerns
      <4>2. CASE p \in Unmatched(l[1])'
        <5>1. Concerns(Unmatched(l[1])', {l[2]})
          BY <4>1, <4>2 DEF Concerns
        <5>. QED  BY <5>1 DEF Comes, Concerns
      <4>3. CASE p \notin Unmatched(l[1])'
        <5>1. l[1] = s /\ p \in W
          BY <1>1, <3>1, <4>1, <4>3, NotifiedUnmatched
        <5>2. Concerns(W, {l[2]})
          BY <4>1, <5>1 DEF Concerns
        <5>. QED  BY <1>2, <1>4, <1>5, <2>1, <5>1, <5>2, BroughtLemma DEF Comes, ToldInv
      <4>. QED  BY <4>2, <4>3
    <3>. QED  BY <2>1, <3>2, <3>3, <3>4 DEF Comes
  <2>2. Tidings(c) /\ Alike(cell'[c], cell[c])
    BY <1>2 DEF ToldInv, Alike
  <2>. QED  BY <1>2, <1>9, <2>1, <2>2, FieldsStay
<1>12. Numbered'
  BY <1>2, <1>8, NumberedLemma DEF ToldInv
<1>. QED  BY <1>11, <1>12 DEF ToldInv

-----------------------------------------------------------------------------
(***************************************************************************)
(* Every step, and what is left when nothing is on its way.                *)
(***************************************************************************)
LEMMA NextTold ==
  ASSUME EdgeInv, ToldInv, Knowing, SteadyFailures, [ComputedNext]_allVars
  PROVE  ToldInv'
<1>1. CASE UNCHANGED allVars
  <2>1. UNCHANGED computedVars /\ UNCHANGED vars
    BY <1>1 DEF allVars
  <2>2. /\ UNCHANGED <<version, writes, writeLog, data, pending, stack, wave, cell, scheduled>>
        /\ EdgesUnchanged
    BY <2>1 DEF vars, storeVars, subscriptionVars, computedVars, EdgesUnchanged
  <2>3. \A s \in Stores : Unmatched(s)' = Unmatched(s)
    BY <2>2 DEF Unmatched, Frames
  <2>4. EdgeInv'
    BY NextEdges
  <2>. QED  BY <2>2, <2>3, <2>4, StillCarries, ToldWork DEF Steady, StoresSame
<1>2. CASE StoreStep
  <2>1. UNCHANGED computedVars
    BY <1>2 DEF StoreStep
  <2>2. CASE BeginTransaction \/ EndTransaction \/ Return \/ StartTask
    BY <2>1, <2>2, CallsTold
  <2>3. CASE TakeBatch
    BY <2>1, <2>3, TakeTold
  <2>4. ASSUME NEW s \in Stores, NotifyBatched(s) PROVE ToldInv'
    BY <2>1, <2>4, NotifyBatchedTold
  <2>5. ASSUME NEW i \in Plain, Deliver(i) PROVE ToldInv'
    BY <2>1, <2>5, DeliverTold
  <2>6. ASSUME NEW i \in Plain, NEW R \in ReadSets, Subscribe(i, R) PROVE ToldInv'
    BY <2>1, <2>6, SubscribeTold
  <2>. QED  BY <1>2, <2>2, <2>3, <2>4, <2>5, <2>6 DEF StoreStep
<1>3. ASSUME NEW s \in Stores, Publish(s) PROVE ToldInv'
  BY <1>3, PublishTold
<1>4. ASSUME NEW s \in Stores, NEW W \in WriteSets, Write(s, W) PROVE ToldInv'
  BY <1>4, WriteTold
<1>5. ASSUME NEW c \in Computeds, Get(c) PROVE ToldInv'
  BY <1>5, GetTold
<1>6. ASSUME NEW c \in Computeds, NEW o \in Observers, Observe(c, o) \/ Unobserve(c, o)
      PROVE  ToldInv'
  BY <1>6, ObserveTold, UnobserveTold
<1>7. ASSUME NEW c \in Computeds, DeliverEdge(c) PROVE ToldInv'
  BY <1>7, DeliverEdgeTold
<1>8. ASSUME NEW c \in Computeds, NEW s \in Stores, RunEdge(c, s) PROVE ToldInv'
  BY <1>8, RunEdgeTold
<1>9. CASE EndPass \/ EndDrain \/ EndDeliver \/ \E o \in Observers : WakeObserver(o)
  BY <1>9, WavesTold
<1>10. CASE SettleNext
  BY <1>10, SettleNextTold
<1>. QED  BY <1>1, <1>2, <1>3, <1>4, <1>5, <1>6, <1>7, <1>8, <1>9, <1>10 DEF ComputedNext

LEMMA InitTold == ComputedInit => ToldInv
<1>. SUFFICES ASSUME ComputedInit PROVE ToldInv
  OBVIOUS
<1>1. Numbered
  BY DEF ComputedInit, Init, Numbered
<1>2. ASSUME NEW c \in Computeds PROVE Tidings(c)
  <2>1. /\ cell[c].valid = FALSE /\ cell[c].observers = {}
        /\ \A s \in Stores : cell[c].announced.versions[s].at = 0 /\ version[s] = 0
    BY <1>2 DEF ComputedInit, Init, Untouched, Unannounced, NoLeaf
  <2>. QED  BY <2>1 DEF Tidings, Tells
<1>. QED  BY <1>1, <1>2 DEF ToldInv

\* With nothing on its way, the observers were told the present value.
LEMMA ToldIsCurrent ==
  ASSUME EdgeInv, ToldInv, SteadyFailures, Drained, stack = <<>> => pending = NoBatch
  PROVE  AnnouncedCatchesUp
<1>1. SUFFICES ASSUME Quiet, NEW c \in Computeds, cell[c].observers # {}, ~BodyFails(c)
               PROVE  cell[c].announced.value = BodyValue(c)
  BY DEF AnnouncedCatchesUp
<1>2. PICK k, j : k = cell[c] /\ j = cell[c].announced
  OBVIOUS
<1>3. /\ stack = <<>> /\ Len(stack) = 0 /\ pending = NoBatch
      /\ \A s \in Stores : writes[s] = {}
      /\ \A i \in Subscribers : scheduled[i] = 0
  BY <1>1, EmptySeq DEF Quiet
<1>4. \A G : ~SomeFrame(stack, G)
  BY <1>3 DEF SomeFrame
<1>5. wave = <<>> /\ Len(wave) = 0
  BY <1>3, EmptySeq DEF Drained, CanDrain
<1>6. ~Settling(c)
  BY <1>4, <1>5 DEF Settling, Waits
<1>7. ASSUME NEW l \in Places PROVE ~DraftAt(l) /\ ~Comes(c, l)
  <2>1. l[1] \in Stores /\ <<c, l[1]>> \in Subscribers
    BY EdgeLemma DEF Places
  <2>2. ~DraftAt(l)
    BY <1>3, <2>1 DEF DraftAt, Concerns
  <2>3. Unmatched(l[1]) = {}
    BY <1>3, <2>1 DEF Unmatched, Frames, NoBatch
  <2>4. ~Called(<<c, l[1]>>)
    BY <1>3, <1>4, <2>1 DEF Called
  <2>. QED  BY <2>2, <2>3, <2>4 DEF Comes, Concerns
<1>8. /\ Coming(k, c) /\ Shaped(k, c) /\ Faithful(j, c) /\ GateTold(k, c) /\ Shaped(j, c)
  BY <1>1, <1>2 DEF ToldInv, Tidings, Tells, Faithful
<1>9. Gate[c] \in ReadPlaces(k) /\ Gate[c] \in ReadPlaces(j) /\ Gate[c] \in Places
  BY <1>8, GateLemma
<1>10. ~Stuck(k, c)
  <2>1. \A l \in ReadPlaces(k) : l \in Places
    BY DEF ReadPlaces
  <2>. QED  BY <1>1, <1>7, <2>1 DEF Stuck
<1>11. \A l \in ReadPlaces(k) \cap ReadPlaces(j) : ~LogAt(j, l)
  <2>1. \A l \in ReadPlaces(k) : l \in Places
    BY DEF ReadPlaces
  <2>. QED  BY <1>2, <1>6, <1>7, <1>8, <1>9, <1>10, <2>1 DEF Coming
<1>12. Gate[c] \in k.value <=> Gate[c] \in j.value
  BY <1>2, <1>7, <1>8, <1>9, <1>11 DEF GateTold
<1>13. ReadPlaces(k) = ReadPlaces(j)
  BY <1>8, <1>12 DEF Shaped
<1>14. \A l \in ReadPlaces(j) : On(l) <=> l \in j.value
  <2>1. \A l \in ReadPlaces(j) : l \in Places
    BY DEF ReadPlaces
  <2>. QED  BY <1>7, <1>8, <1>11, <1>13, <2>1 DEF Faithful, KnownAt
<1>15. ReadPlaces(j) = BodyReads(c)
  BY <1>8, <1>9, <1>14 DEF Shaped, GateReads, BodyReads
<1>16. j.value \subseteq ReadPlaces(j)
  BY <1>8 DEF Shaped
<1>. QED  BY <1>2, <1>14, <1>15, <1>16 DEF BodyValue

(***************************************************************************)
(* Once everything has run, what the observers were told last is the value *)
(* of the body, whichever of get(), settlement, re-registration, observer  *)
(* that comes or goes, failing body and nested write ran the body in       *)
(* between: for any number of stores, as long as notifiedVersion stays     *)
(* behind what waits in a batch, and for bodies that throw on places they  *)
(* read whichever way their gate is.                                       *)
(***************************************************************************)
THEOREM ToldWhileBehind ==
  ASSUME SteadyFailures
  PROVE  ComputedSpec /\ []NoFalseProof => []AnnouncedCatchesUp
<1>. DEFINE All == SoundInv /\ Batching(TRUE) /\ Drained /\ ToldInv
<1>1. ComputedInit => All
  <2>1. ComputedInit => Drained
    BY DEF ComputedInit, Drained
  <2>. QED  BY <2>1, InitSound, InitBatch, InitTold
<1>2. All /\ NoFalseProof /\ [ComputedNext]_allVars => All'
  <2>1. SUFFICES ASSUME All, NoFalseProof, [ComputedNext]_allVars PROVE All'
    OBVIOUS
  <2>2. EdgeInv /\ Knowing
    BY <2>1, KnowingLemma DEF SoundInv
  <2>. QED  BY <2>1, <2>2, NextSound, NextBatch, NextDrained, NextTold
<1>3. All => AnnouncedCatchesUp
  <2>1. SUFFICES ASSUME All PROVE AnnouncedCatchesUp
    OBVIOUS
  <2>2. EdgeInv
    BY <2>1 DEF SoundInv
  <2>3. stack = <<>> => pending = NoBatch
    BY <2>1, <2>2, OnTop
  <2>. QED  BY <2>1, <2>2, <2>3, ToldIsCurrent
<1>. QED  BY <1>1, <1>2, <1>3, PTL DEF ComputedSpec

(***************************************************************************)
(* With one store nothing about notifiedVersion is taken for granted: the  *)
(* observers are told, whatever transactions, flushes and callbacks        *)
(* publish meanwhile.                                                      *)
(***************************************************************************)
THEOREM ToldInOneStore ==
  ASSUME OneStore, SteadyFailures
  PROVE  ComputedSpec => []AnnouncedCatchesUp
BY NoFalseProofInOneStore, ToldWhileBehind, PTL

=============================================================================
