---------------------------- MODULE History_proofs ----------------------------
(***************************************************************************)
(* What holds of CarburetorHistory for every number of histories, places   *)
(* and values, every limit and every sequence of calls: each history is    *)
(* the timeline its user sees, and what it files is all that happened.     *)
(***************************************************************************)
EXTENDS History, FiniteSetTheorems, SequenceTheorems, WellFoundedInduction, NaturalsInduction, TLAPS

-----------------------------------------------------------------------------
(***************************************************************************)
(* Patches.  The closed form of Patched makes them a matter of the last patch*)
(* at a place: a change and its inverse lead there and back.               *)
(***************************************************************************)

PatchType == [place : Places, previous : Values, next : Values]
Patches == Seq(PatchType)

\* The patches lead from s to t, and back.
LeadsTo(ps, s, t) == Patched(s, ps) = t /\ Patched(t, Inverted(ps)) = s

Changing(ps) == \A i \in DOMAIN ps : ps[i].previous # ps[i].next

(* A set of numbers that is not empty has a least one. *)
LEMMA LeastNumber ==
  ASSUME NEW T, T \subseteq Nat, T # {}
  PROVE  \E n \in T : \A m \in T : n <= m
<1> DEFINE R == {ss \in Nat \X Nat : ss[1] < ss[2]}
<1>1. IsWellFoundedOn(OpToRel(<, Nat), Nat)
  BY NatLessThanWellFounded
<1>2. OpToRel(<, Nat) = R
  BY DEF OpToRel
<1>3. IsWellFoundedOn(R, Nat)
  BY <1>1, <1>2
<1>4. PICK n \in T : \A m \in T : ~(<<m, n>> \in R)
  <2> HIDE DEF R
  <2>. QED BY <1>3, WFMin
<1>5. ASSUME NEW m \in T PROVE n <= m
  <2>1. CASE m < n
    <3>1. <<m, n>> \in R
      BY <2>1
    <3>. QED  BY <3>1, <1>4
  <2>. QED  BY <2>1
<1>. QED  BY <1>5

(* A bounded set of numbers that is not empty has a greatest one. *)
LEMMA GreatestNumber ==
  ASSUME NEW n \in Nat, NEW T, T \subseteq 1..n, T # {}
  PROVE  Max(T) \in T /\ \A m \in T : Max(T) >= m
<1> DEFINE U == {n - m : m \in T}
<1>0. \A m \in T : m \in Int /\ m <= n
  OBVIOUS
<1>1. U \subseteq Nat /\ U # {}
  <2>1. \A m \in T : n - m \in Nat
    BY <1>0
  <2>. QED  BY <2>1
<1>2. PICK u \in U : \A m \in U : u <= m
  <2> HIDE DEF U
  <2>. QED  BY <1>1, LeastNumber
<1>3. n - u \in T /\ \A m \in T : n - u >= m
  <2>1. PICK k \in T : u = n - k
    OBVIOUS
  <2>2. n - u = k
    BY <1>0, <2>1
  <2>3. ASSUME NEW m \in T PROVE n - u >= m
    <3>1. u <= n - m
      BY <1>2
    <3>. QED  BY <3>1, <2>1, <1>0
  <2>. QED  BY <2>2, <2>3
<1>. QED  BY <1>3 DEF Max

(* What is at a place: the value of the last patch of it, if there is one. *)
LEMMA PatchedAt ==
  ASSUME NEW ps \in Patches, NEW s, NEW p \in Places
  PROVE  /\ (\A i \in 1..Len(ps) : ps[i].place # p) => Patched(s, ps)[p] = s[p]
         /\ \A i \in 1..Len(ps) :
              ps[i].place = p /\ (\A j \in 1..Len(ps) : ps[j].place = p => j <= i)
                => Patched(s, ps)[p] = ps[i].next
<1> DEFINE at == {i \in DOMAIN ps : ps[i].place = p}
<1>1. DOMAIN ps = 1..Len(ps) /\ Len(ps) \in Nat
  BY DEF Patches
<1>2. Patched(s, ps)[p] = IF at = {} THEN s[p] ELSE ps[Max(at)].next
  BY DEF Patched
<1>3. ASSUME \A i \in 1..Len(ps) : ps[i].place # p PROVE Patched(s, ps)[p] = s[p]
  BY <1>1, <1>2, <1>3
<1>4. ASSUME NEW i \in 1..Len(ps), ps[i].place = p,
             \A j \in 1..Len(ps) : ps[j].place = p => j <= i
      PROVE  Patched(s, ps)[p] = ps[i].next
  <2>1. i \in at /\ at \subseteq 1..Len(ps) /\ at # {}
    BY <1>1, <1>4
  <2>2. Max(at) \in at /\ Max(at) >= i
    <3> HIDE DEF at
    <3>. QED  BY <1>1, <2>1, GreatestNumber
  <2>3. Max(at) = i
    BY <1>1, <1>4, <2>2
  <2> HIDE DEF at
  <2>. QED  BY <1>2, <2>1, <2>3
<1>. QED  BY <1>3, <1>4

(* The last patch at a place says what is there. *)
LEMMA PatchedLast ==
  ASSUME NEW ps \in Patches, NEW s, NEW p \in Places, NEW i \in 1..Len(ps), ps[i].place = p,
         \A j \in 1..Len(ps) : ps[j].place = p => j <= i
  PROVE  Patched(s, ps)[p] = ps[i].next
  BY PatchedAt

(* A place of which there is a patch has a last one. *)
LEMMA LastOf ==
  ASSUME NEW ps \in Patches, NEW p, \E i \in 1..Len(ps) : ps[i].place = p
  PROVE  \E i \in 1..Len(ps) :
           ps[i].place = p /\ \A j \in 1..Len(ps) : ps[j].place = p => j <= i
<1> DEFINE at == {i \in 1..Len(ps) : ps[i].place = p}
<1>1. Len(ps) \in Nat
  BY DEF Patches
<1>2. at \subseteq 1..Len(ps) /\ at # {}
  OBVIOUS
<1>3. Max(at) \in at /\ \A m \in at : Max(at) >= m
  <2> HIDE DEF at
  <2>. QED  BY <1>1, <1>2, GreatestNumber
<1>. QED  BY <1>1, <1>3

(* Patches lead from states to states. *)
LEMMA PatchedType ==
  ASSUME NEW ps \in Patches, NEW s \in States
  PROVE  Patched(s, ps) \in States
<1>1. ASSUME NEW p \in Places PROVE Patched(s, ps)[p] \in Values
  <2>1. CASE \A i \in 1..Len(ps) : ps[i].place # p
    BY <2>1, PatchedAt DEF States
  <2>2. CASE \E i \in 1..Len(ps) : ps[i].place = p
    <3>1. PICK i \in 1..Len(ps) : ps[i].place = p /\ \A j \in 1..Len(ps) : ps[j].place = p => j <= i
      BY <2>2, LastOf
    <3>2. ps[i] \in PatchType
      BY DEF Patches
    <3>. QED  BY <3>1, <3>2, PatchedAt DEF PatchType
  <2>. QED  BY <2>1, <2>2
<1>. QED  BY <1>1 DEF Patched, States

(* No patches change nothing. *)
LEMMA PatchedEmpty ==
  ASSUME NEW s \in States
  PROVE  Patched(s, <<>>) = s
<1>1. <<>> \in Patches /\ Len(<<>>) = 0
  BY DEF Patches
<1>2. \A p \in Places : Patched(s, <<>>)[p] = s[p]
  BY <1>1, PatchedAt
<1>3. Patched(s, <<>>) \in States
  BY <1>1, PatchedType
<1>. QED  BY <1>2, <1>3 DEF States

(* To install one sequence after the other is to install both. *)
LEMMA PatchedConcat ==
  ASSUME NEW a \in Patches, NEW b \in Patches, NEW s \in States
  PROVE  a \o b \in Patches /\ Patched(s, a \o b) = Patched(Patched(s, a), b)
<1> DEFINE ab == a \o b
           t == Patched(s, a)
<1>1. /\ ab \in Patches /\ Len(a) \in Nat /\ Len(b) \in Nat /\ Len(ab) = Len(a) + Len(b)
      /\ \A i \in 1..Len(a) : ab[i] = a[i]
      /\ \A i \in 1..Len(b) : ab[Len(a) + i] = b[i]
  BY DEF Patches
<1>2. t \in States /\ Patched(s, ab) \in States /\ Patched(t, b) \in States
  <2>1. t \in States
    BY PatchedType
  <2> HIDE DEF t, ab
  <2>. QED  BY <1>1, <2>1, PatchedType
<1> HIDE DEF ab
<1>3. ASSUME NEW p \in Places PROVE Patched(s, ab)[p] = Patched(t, b)[p]
  <2>1. CASE \E i \in 1..Len(b) : b[i].place = p
    <3>1. PICK i \in 1..Len(b) : b[i].place = p /\ \A j \in 1..Len(b) : b[j].place = p => j <= i
      BY <2>1, LastOf
    <3>2. Patched(t, b)[p] = b[i].next
      BY <3>1, PatchedAt
    <3>3. Len(a) + i \in 1..Len(ab) /\ ab[Len(a) + i] = b[i]
      BY <1>1
    <3>4. ASSUME NEW j \in 1..Len(ab), ab[j].place = p PROVE j <= Len(a) + i
      <4>1. CASE j <= Len(a)
        BY <4>1, <1>1
      <4>2. CASE j > Len(a)
        <5>1. j - Len(a) \in 1..Len(b) /\ ab[j] = b[j - Len(a)]
          BY <4>2, <1>1
        <5>. QED  BY <5>1, <3>1, <3>4, <1>1
      <4>. QED  BY <4>1, <4>2, <1>1
    <3>5. Patched(s, ab)[p] = ab[Len(a) + i].next
      <4> DEFINE k == Len(a) + i
      <4>1. k \in 1..Len(ab) /\ ab[k].place = p /\ \A j \in 1..Len(ab) : ab[j].place = p => j <= k
        BY <3>1, <3>3, <3>4
      <4> HIDE DEF k, t
      <4>2. Patched(s, ab)[p] = ab[k].next
        <5>1. ab \in Patches
          BY <1>1
        <5>2. k \in 1..Len(ab)
          BY <4>1
        <5>3. ab[k].place = p
          BY <4>1
        <5>4. \A j \in 1..Len(ab) : ab[j].place = p => j <= k
          BY <4>1
        <5>. QED  BY <5>1, <5>2, <5>3, <5>4, PatchedLast
      <4>. QED  BY <4>2 DEF k
    <3>. QED  BY <3>2, <3>3, <3>5
  <2>2. CASE \A i \in 1..Len(b) : b[i].place # p
    <3>0. Patched(t, b)[p] = t[p]
      BY <2>2, PatchedAt
    <3>1. \A j \in 1..Len(ab) : ab[j].place = p => j \in 1..Len(a) /\ a[j].place = p
      <4> SUFFICES ASSUME NEW j \in 1..Len(ab), ab[j].place = p PROVE j \in 1..Len(a) /\ a[j].place = p
        OBVIOUS
      <4>1. CASE j > Len(a)
        <5>1. j - Len(a) \in 1..Len(b) /\ ab[j] = b[j - Len(a)]
          BY <4>1, <1>1
        <5>. QED  BY <5>1, <2>2
      <4>2. CASE ~(j > Len(a))
        BY <4>2, <1>1
      <4>. QED  BY <4>1, <4>2
    <3>2. CASE \E i \in 1..Len(a) : a[i].place = p
      <4>1. PICK i \in 1..Len(a) : a[i].place = p /\ \A j \in 1..Len(a) : a[j].place = p => j <= i
        BY <3>2, LastOf
      <4>2. i \in 1..Len(ab) /\ ab[i] = a[i]
        BY <1>1
      <4>3. Patched(s, ab)[p] = ab[i].next
        BY <1>1, <4>1, <4>2, <3>1, PatchedAt
      <4>4. t[p] = a[i].next
        BY <4>1, PatchedAt
      <4>. QED  BY <3>0, <4>2, <4>3, <4>4
    <3>3. CASE \A i \in 1..Len(a) : a[i].place # p
      <4>1. t[p] = s[p]
        BY <3>3, PatchedAt
      <4>2. Patched(s, ab)[p] = s[p]
        BY <3>1, <3>3, <1>1, PatchedAt
      <4>. QED  BY <3>0, <4>1, <4>2
    <3>. QED  BY <3>2, <3>3
  <2>. QED  BY <2>1, <2>2
<1>4. Patched(s, ab) = Patched(t, b)
  BY <1>2, <1>3 DEF States
<1>. QED  BY <1>1, <1>4 DEF ab

(* The inverse of patches are patches. *)
LEMMA InvertedType ==
  ASSUME NEW ps \in Patches
  PROVE  /\ Inverted(ps) \in Patches
         /\ Len(Inverted(ps)) = Len(ps)
         /\ \A i \in 1..Len(ps) : Inverted(ps)[i] =
              [place |-> ps[Len(ps) + 1 - i].place, previous |-> ps[Len(ps) + 1 - i].next,
               next |-> ps[Len(ps) + 1 - i].previous]
<1>1. DOMAIN ps = 1..Len(ps) /\ Len(ps) \in Nat /\ \A i \in 1..Len(ps) : ps[i] \in PatchType
  BY DEF Patches
<1>2. \A i \in 1..Len(ps) : Len(ps) + 1 - i \in 1..Len(ps)
  BY <1>1
<1>3. Inverted(ps) = [i \in 1..Len(ps) |->
         [place |-> ps[Len(ps) + 1 - i].place, previous |-> ps[Len(ps) + 1 - i].next,
          next |-> ps[Len(ps) + 1 - i].previous]]
  BY <1>1 DEF Inverted
<1>4. \A i \in 1..Len(ps) : Inverted(ps)[i] \in PatchType
  BY <1>1, <1>2, <1>3 DEF PatchType
<1>5. Inverted(ps) \in [1..Len(ps) -> PatchType]
  <2>1. DOMAIN Inverted(ps) = 1..Len(ps) /\ Inverted(ps) = [i \in 1..Len(ps) |-> Inverted(ps)[i]]
    BY <1>3
  <2>. QED  BY <1>4, <2>1
<1>6. Inverted(ps) \in Seq(PatchType) /\ Len(Inverted(ps)) = Len(ps)
  BY <1>1, <1>5
<1>. QED  BY <1>3, <1>6 DEF Patches

(* The inverse of two changes is that of the second, then that of the first. *)
LEMMA InvertedConcat ==
  ASSUME NEW a \in Patches, NEW b \in Patches
  PROVE  Inverted(a \o b) = Inverted(b) \o Inverted(a)
<1> DEFINE ab == a \o b
           x == Inverted(ab)
           y == Inverted(b) \o Inverted(a)
<1>1. /\ ab \in Patches /\ Len(a) \in Nat /\ Len(b) \in Nat /\ Len(ab) = Len(a) + Len(b)
      /\ \A i \in 1..Len(a) : ab[i] = a[i]
      /\ \A i \in 1..Len(b) : ab[Len(a) + i] = b[i]
  BY DEF Patches
<1> HIDE DEF ab
<1>2. x \in Patches /\ Len(x) = Len(a) + Len(b)
  BY <1>1, InvertedType
<1>3. Inverted(a) \in Patches /\ Len(Inverted(a)) = Len(a) /\ Inverted(b) \in Patches /\ Len(Inverted(b)) = Len(b)
  BY InvertedType
<1>4. y \in Patches /\ Len(y) = Len(a) + Len(b)
  <2>1. y \in Patches /\ Len(y) = Len(Inverted(b)) + Len(Inverted(a))
    BY <1>3, ConcatProperties DEF Patches
  <2> HIDE DEF y
  <2>. QED  BY <1>1, <1>3, <2>1
<1>5. ASSUME NEW i \in 1..(Len(a) + Len(b)) PROVE x[i] = y[i]
  <2> DEFINE k == Len(ab) + 1 - i
  <2>1. x[i] = [place |-> ab[k].place, previous |-> ab[k].next, next |-> ab[k].previous]
    BY <1>1, InvertedType
  <2>2. CASE i <= Len(b)
    <3>1. y[i] = Inverted(b)[i] /\ i \in 1..Len(b)
      BY <2>2, <1>1, <1>3 DEF Patches
    <3>2. Len(b) + 1 - i \in 1..Len(b) /\ k = Len(a) + (Len(b) + 1 - i)
      BY <2>2, <1>1
    <3>3. ab[k] = b[Len(b) + 1 - i]
      BY <1>1, <3>2
    <3> HIDE DEF y, k, x
    <3>. QED  BY <2>1, <3>1, <3>3, InvertedType
  <2>3. CASE ~(i <= Len(b))
    <3>1. y[i] = Inverted(a)[i - Len(b)] /\ i - Len(b) \in 1..Len(a)
      BY <2>3, <1>1, <1>3 DEF Patches
    <3>2. k \in 1..Len(a) /\ k = Len(a) + 1 - (i - Len(b))
      BY <2>3, <1>1
    <3>3. ab[k] = a[Len(a) + 1 - (i - Len(b))]
      BY <1>1, <3>2
    <3> HIDE DEF y, k, x
    <3>. QED  BY <2>1, <3>1, <3>3, InvertedType
  <2>. QED  BY <2>2, <2>3
<1> HIDE DEF x, y
<1>6. x = y
  BY <1>1, <1>2, <1>4, <1>5, SeqEqual DEF Patches
<1>. QED  BY <1>6 DEF x, y, ab

(* No patches lead nowhere else. *)
LEMMA LeadsToEmpty ==
  ASSUME NEW s \in States
  PROVE  LeadsTo(<<>>, s, s)
<1>1. Inverted(<<>>) = <<>>
  <2>1. <<>> \in Patches /\ Len(<<>>) = 0
    BY DEF Patches
  <2>2. Inverted(<<>>) \in Patches /\ Len(Inverted(<<>>)) = 0
    BY <2>1, InvertedType
  <2>. QED  BY <2>2 DEF Patches
<1>. QED  BY <1>1, PatchedEmpty DEF LeadsTo

(* Patches that lead on from where others led. *)
LEMMA LeadsToConcat ==
  ASSUME NEW a \in Patches, NEW b \in Patches, NEW s \in States, NEW t \in States, NEW u \in States,
         LeadsTo(a, s, t), LeadsTo(b, t, u)
  PROVE  LeadsTo(a \o b, s, u)
<1>1. Patched(s, a \o b) = u
  BY PatchedConcat DEF LeadsTo
<1>2. Inverted(a) \in Patches /\ Inverted(b) \in Patches
  BY InvertedType
<1>3. Patched(u, Inverted(b) \o Inverted(a)) = s
  BY <1>2, PatchedConcat DEF LeadsTo
<1>. QED  BY <1>1, <1>3, InvertedConcat DEF LeadsTo

(* One patch installs its value at its place. *)
LEMMA SingleInstalled ==
  ASSUME NEW w \in PatchType, NEW s \in States
  PROVE  /\ <<w>> \in Patches
         /\ Patched(s, <<w>>) = [s EXCEPT ![w.place] = w.next]
<1> DEFINE ps == <<w>>
<1>1. ps \in Patches /\ Len(ps) = 1 /\ ps[1] = w
  BY DEF Patches
<1>2. w.place \in Places /\ w.next \in Values
  BY DEF PatchType
<1> HIDE DEF ps
<1>3. Patched(s, ps) \in States
  BY <1>1, PatchedType
<1>4. ASSUME NEW p \in Places PROVE Patched(s, ps)[p] = [s EXCEPT ![w.place] = w.next][p]
  <2>1. CASE p = w.place
    <3>1. 1 \in 1..Len(ps) /\ ps[1].place = p /\ \A j \in 1..Len(ps) : ps[j].place = p => j <= 1
      BY <1>1, <2>1
    <3>2. Patched(s, ps)[p] = ps[1].next
      BY <1>1, <3>1, PatchedLast
    <3>. QED  BY <3>2, <2>1, <1>1, <1>2 DEF States
  <2>2. CASE p # w.place
    <3>1. \A i \in 1..Len(ps) : ps[i].place # p
      BY <1>1, <2>2
    <3>2. Patched(s, ps)[p] = s[p]
      BY <1>1, <3>1, PatchedAt
    <3>. QED  BY <3>2, <2>2, <1>2 DEF States
  <2>. QED  BY <2>1, <2>2
<1>5. [s EXCEPT ![w.place] = w.next] \in States
  BY <1>2 DEF States
<1>6. Patched(s, ps) = [s EXCEPT ![w.place] = w.next]
  BY <1>3, <1>4, <1>5 DEF States
<1>. QED  BY <1>1, <1>6 DEF ps

(* A patch that found what is there leads to its value and back. *)
(* The patch of one write leads there and back. *)
LEMMA SingleLeads ==
  ASSUME NEW s \in States, NEW p \in Places, NEW v \in Values
  PROVE  /\ Patch(p, s, v) \in PatchType
         /\ <<Patch(p, s, v)>> \in Patches
         /\ LeadsTo(<<Patch(p, s, v)>>, s, [s EXCEPT ![p] = v])
         /\ [s EXCEPT ![p] = v] \in States
<1> DEFINE w == Patch(p, s, v)
           t == [s EXCEPT ![p] = v]
           back == [place |-> w.place, previous |-> w.next, next |-> w.previous]
<1>1. w \in PatchType /\ w.place = p /\ w.previous = s[p] /\ w.next = v
  BY DEF Patch, PatchType, States
<1>2. t \in States
  BY DEF States
<1>3. back \in PatchType
  BY <1>1 DEF PatchType
<1>4. <<w>> \in Patches /\ Len(<<w>>) = 1 /\ <<w>>[1] = w
  BY <1>1 DEF Patches
<1>5. Inverted(<<w>>) = <<back>>
  <2> HIDE DEF w
  <2>1. /\ Inverted(<<w>>) \in Patches /\ Len(Inverted(<<w>>)) = 1
        /\ Inverted(<<w>>)[1] = back
    <3> DEFINE ps == <<w>>
    <3>1. ps \in Patches /\ Len(ps) = 1 /\ ps[1] = w /\ 1 \in 1..Len(ps) /\ Len(ps) + 1 - 1 = 1
      BY <1>4
    <3> HIDE DEF ps
    <3>2. Inverted(ps)[1] = [place |-> ps[Len(ps) + 1 - 1].place, previous |-> ps[Len(ps) + 1 - 1].next,
                             next |-> ps[Len(ps) + 1 - 1].previous]
      BY <3>1, InvertedType
    <3>3. Inverted(ps)[1] = back
      BY <3>1, <3>2
    <3>4. Inverted(ps) \in Patches /\ Len(Inverted(ps)) = 1
      BY <3>1, InvertedType
    <3>. QED  BY <3>3, <3>4 DEF ps
  <2> HIDE DEF back
  <2>. QED  BY <2>1 DEF Patches
<1>6. Patched(s, <<w>>) = t
  <2> HIDE DEF w
  <2>1. Patched(s, <<w>>) = [s EXCEPT ![w.place] = w.next]
    BY <1>1, SingleInstalled
  <2>. QED  BY <1>1, <2>1
<1>7. Patched(t, <<back>>) = s
  <2>1. back.place = p /\ back.next = s[p]
    BY <1>1
  <2> HIDE DEF back
  <2>2. Patched(t, <<back>>) = [t EXCEPT ![back.place] = back.next]
    BY <1>2, <1>3, SingleInstalled
  <2>3. [t EXCEPT ![p] = s[p]] = s
    BY DEF States
  <2>. QED  BY <2>1, <2>2, <2>3
<1> HIDE DEF back
<1>8. LeadsTo(<<w>>, s, t)
  BY <1>5, <1>6, <1>7 DEF LeadsTo
<1>. QED  BY <1>1, <1>2, <1>4, <1>8

(* The inverse of patches is at their places. *)
LEMMA PlacesOfInverted ==
  ASSUME NEW ps \in Patches
  PROVE  PlacesOf(Inverted(ps)) = PlacesOf(ps) /\ PlacesOf(ps) \subseteq Places
<1>1. /\ DOMAIN ps = 1..Len(ps) /\ Len(ps) \in Nat
      /\ \A i \in 1..Len(ps) : ps[i] \in PatchType
  BY DEF Patches
<1>2. /\ DOMAIN Inverted(ps) = 1..Len(ps)
      /\ \A i \in 1..Len(ps) : Inverted(ps)[i].place = ps[Len(ps) + 1 - i].place
  <2>1. Inverted(ps) \in Patches /\ Len(Inverted(ps)) = Len(ps)
    BY InvertedType
  <2>2. DOMAIN Inverted(ps) = 1..Len(ps)
    BY <2>1 DEF Patches
  <2>3. ASSUME NEW i \in 1..Len(ps) PROVE Inverted(ps)[i].place = ps[Len(ps) + 1 - i].place
    <3>1. Inverted(ps)[i] = [place |-> ps[Len(ps) + 1 - i].place, previous |-> ps[Len(ps) + 1 - i].next,
                             next |-> ps[Len(ps) + 1 - i].previous]
      BY InvertedType
    <3>. QED  BY <3>1
  <2>. QED  BY <2>2, <2>3
<1>3. \A i \in 1..Len(ps) : Len(ps) + 1 - i \in 1..Len(ps) /\ Len(ps) + 1 - (Len(ps) + 1 - i) = i
  BY <1>1
<1>4. PlacesOf(Inverted(ps)) \subseteq PlacesOf(ps)
  BY <1>1, <1>2, <1>3 DEF PlacesOf
<1>5. PlacesOf(ps) \subseteq PlacesOf(Inverted(ps))
  <2> SUFFICES ASSUME NEW i \in 1..Len(ps) PROVE ps[i].place \in PlacesOf(Inverted(ps))
    BY <1>1 DEF PlacesOf
  <2>1. Inverted(ps)[Len(ps) + 1 - i].place = ps[i].place
    BY <1>2, <1>3
  <2>. QED  BY <2>1, <1>2, <1>3 DEF PlacesOf
<1>. QED  BY <1>1, <1>4, <1>5 DEF PlacesOf, PatchType

(* Where the patches are, what they install does not depend on the state;   *)
(* elsewhere they change nothing.                                           *)
LEMMA PatchedAgree ==
  ASSUME NEW ps \in Patches, NEW s \in States, NEW t \in States
  PROVE  /\ AgreeOn(PlacesOf(ps), Patched(s, ps), Patched(t, ps))
         /\ \A p \in Places \ PlacesOf(ps) : Patched(s, ps)[p] = s[p]
<1>1. /\ DOMAIN ps = 1..Len(ps)
      /\ \A i \in 1..Len(ps) : ps[i].place \in Places
  <2>1. DOMAIN ps = 1..Len(ps) /\ \A i \in 1..Len(ps) : ps[i] \in PatchType
    BY DEF Patches
  <2>. QED  BY <2>1 DEF PatchType
<1>2. ASSUME NEW p \in PlacesOf(ps) PROVE Patched(s, ps)[p] = Patched(t, ps)[p]
  <2>1. p \in Places /\ \E i \in 1..Len(ps) : ps[i].place = p
    BY <1>1 DEF PlacesOf
  <2>2. PICK i \in 1..Len(ps) : ps[i].place = p /\ \A j \in 1..Len(ps) : ps[j].place = p => j <= i
    BY <2>1, LastOf
  <2>3. Patched(s, ps)[p] = ps[i].next /\ Patched(t, ps)[p] = ps[i].next
    BY <2>1, <2>2, PatchedLast
  <2>. QED  BY <2>3
<1>3. ASSUME NEW p \in Places \ PlacesOf(ps) PROVE Patched(s, ps)[p] = s[p]
  <2>1. \A i \in 1..Len(ps) : ps[i].place # p
    BY <1>1 DEF PlacesOf
  <2>. QED  BY <2>1, PatchedAt
<1>. QED  BY <1>2, <1>3 DEF AgreeOn

(* Patches that lead back to where they began there led nowhere. *)
LEMMA AgreeingEnds ==
  ASSUME NEW ps \in Patches, NEW s \in States, AgreeOn(PlacesOf(ps), s, Patched(s, ps))
  PROVE  Patched(s, ps) = s
<1>1. Patched(s, ps) \in States
  BY PatchedType
<1>2. \A p \in Places : Patched(s, ps)[p] = s[p]
  BY PatchedAgree DEF AgreeOn
<1>. QED  BY <1>1, <1>2 DEF States

(* Patches that are the values of t, at all places where t is not s, lead to t. *)
LEMMA DescribedBy ==
  ASSUME NEW ps \in Patches, NEW s \in States, NEW t \in States,
         \A i \in 1..Len(ps) : ps[i].next = t[ps[i].place],
         \A p \in Places \ PlacesOf(ps) : s[p] = t[p]
  PROVE  Patched(s, ps) = t
<1>1. Patched(s, ps) \in States
  BY PatchedType
<1>2. DOMAIN ps = 1..Len(ps)
  BY DEF Patches
<1>3. ASSUME NEW p \in Places PROVE Patched(s, ps)[p] = t[p]
  <2>1. CASE p \in PlacesOf(ps)
    <3>1. \E i \in 1..Len(ps) : ps[i].place = p
      BY <1>2, <2>1 DEF PlacesOf
    <3>2. PICK i \in 1..Len(ps) : ps[i].place = p /\ \A j \in 1..Len(ps) : ps[j].place = p => j <= i
      BY <3>1, LastOf
    <3>. QED  BY <3>2, PatchedLast
  <2>2. CASE p \notin PlacesOf(ps)
    BY <2>2, PatchedAgree
  <2>. QED  BY <2>1, <2>2
<1>. QED  BY <1>1, <1>3 DEF States

(* SetToSeq enumerates a finite set. *)
LEMMA SetToSeqOnto ==
  ASSUME NEW S, IsFiniteSet(S)
  PROVE  /\ DOMAIN SetToSeq(S) = 1..Cardinality(S) /\ Cardinality(S) \in Nat
         /\ \A i \in 1..Cardinality(S) : SetToSeq(S)[i] \in S
         /\ \A x \in S : \E i \in 1..Cardinality(S) : SetToSeq(S)[i] = x
<1> DEFINE n == Cardinality(S)
           f == SetToSeq(S)
<1>1. n \in Nat /\ ExistsBijection(1..n, S)
  BY FS_CardinalityType
<1>2. \E g \in [1..n -> S] : IsInjective(g)
  BY <1>1 DEF ExistsBijection, Bijection, Injection
<1>3. f \in [1..n -> S] /\ IsInjective(f)
  BY <1>2 DEF SetToSeq
<1>4. f \in Injection(1..n, S)
  BY <1>3 DEF Injection
<1>5. Cardinality(1..n) = n
  BY <1>1, FS_Interval
<1>6. f \in Surjection(1..n, S)
  <2> HIDE DEF f
  <2>. QED  BY <1>4, <1>5, FS_Injection
<1>. QED  BY <1>1, <1>3, <1>6 DEF Surjection

(* The writes of an installation lead from the old state to the new one. *)
LEMMA DiffLemma ==
  ASSUME NEW s \in States, NEW t \in States
  PROVE  /\ Diff(s, t) \in Patches /\ Changing(Diff(s, t)) /\ LeadsTo(Diff(s, t), s, t)
         /\ s # t => Diff(s, t) # <<>>
<1> DEFINE differ == {p \in Places : s[p] # t[p]}
           n == Cardinality(differ)
           q == SetToSeq(differ)
           ps == Diff(s, t)
           back == Inverted(ps)
<1>1. IsFiniteSet(differ)
  BY HistoryAssumption, FS_Subset
<1>2. /\ DOMAIN q = 1..n /\ n \in Nat
      /\ \A i \in 1..n : q[i] \in differ
      /\ \A x \in differ : \E i \in 1..n : q[i] = x
  <2> HIDE DEF differ
  <2>. QED  BY <1>1, SetToSeqOnto
<1>3. ps = [i \in 1..n |-> Patch(q[i], s, t[q[i]])]
  BY <1>2 DEF Diff
<1> HIDE DEF q, ps
<1>4. ASSUME NEW i \in 1..n
      PROVE  /\ ps[i] \in PatchType /\ ps[i].place = q[i] /\ q[i] \in Places
             /\ ps[i].previous = s[q[i]] /\ ps[i].next = t[q[i]] /\ s[q[i]] # t[q[i]]
  <2>1. q[i] \in Places /\ s[q[i]] # t[q[i]]
    BY <1>2
  <2>2. ps[i] = [place |-> q[i], previous |-> s[q[i]], next |-> t[q[i]]]
    BY <1>3 DEF Patch
  <2>3. s[q[i]] \in Values /\ t[q[i]] \in Values
    BY <2>1 DEF States
  <2>. QED  BY <2>1, <2>2, <2>3 DEF PatchType
<1> HIDE DEF n
<1>5. ps \in Patches /\ Len(ps) = n /\ DOMAIN ps = 1..n
  <2>1. ps \in [1..n -> PatchType]
    BY <1>3, <1>4
  <2>. QED  BY <1>2, <2>1 DEF Patches
<1>6. Changing(ps)
  BY <1>4, <1>5 DEF Changing
<1>7. \A p \in Places \ PlacesOf(ps) : s[p] = t[p]
  BY <1>2, <1>4, <1>5 DEF PlacesOf
<1>8. Patched(s, ps) = t
  <2>1. \A i \in 1..Len(ps) : ps[i].next = t[ps[i].place]
    BY <1>4, <1>5
  <2>. QED  BY <1>5, <1>7, <2>1, DescribedBy
<1>9. Patched(t, Inverted(ps)) = s
  <2>1. back \in Patches /\ Len(back) = n
    BY <1>5, InvertedType
  <2>2. \A p \in Places \ PlacesOf(back) : t[p] = s[p]
    BY <1>5, <1>7, PlacesOfInverted
  <2>3. ASSUME NEW i \in 1..Len(back) PROVE back[i].next = s[back[i].place]
    <3>1. n + 1 - i \in 1..n
      BY <2>1, <1>2
    <3>2. back[i] = [place |-> ps[n + 1 - i].place, previous |-> ps[n + 1 - i].next,
                     next |-> ps[n + 1 - i].previous]
      <4>1. i \in 1..Len(ps) /\ Len(ps) = n /\ ps \in Patches
        BY <2>1, <1>5
      <4>2. Inverted(ps)[i] = [place |-> ps[Len(ps) + 1 - i].place, previous |-> ps[Len(ps) + 1 - i].next,
                               next |-> ps[Len(ps) + 1 - i].previous]
        BY <4>1, InvertedType
      <4>. QED  BY <4>1, <4>2
    <3>. QED  BY <3>1, <3>2, <1>4
  <2> HIDE DEF back
  <2>4. Patched(t, back) = s
    BY <2>1, <2>2, <2>3, DescribedBy
  <2>. QED  BY <2>4 DEF back
<1>10. s # t => ps # <<>>
  BY <1>8, PatchedEmpty
<1>. QED  BY <1>5, <1>6, <1>8, <1>9, <1>10 DEF LeadsTo, ps

\* One turn of the recursion of Writes.
NextWrites(s, ps, before, i) ==
  LET write == Patch(ps[i].place, Patched(s, before), ps[i].next)
  IN  IF write.next = write.previous THEN before ELSE Append(before, write)

\* f solves the recursion for the first n patches.
Makes(f, s, ps, n) ==
  f = [i \in 0..n |-> IF i = 0 THEN <<>> ELSE NextWrites(s, ps, f[i - 1], i)]

(* The recursion of Writes has a solution. *)
LEMMA WritesSolvable ==
  ASSUME NEW s, NEW ps
  PROVE  \A n \in Nat : \E f : Makes(f, s, ps, n)
<1> DEFINE Bad == {n \in Nat : ~ \E f : Makes(f, s, ps, n)}
<1>1. SUFFICES ASSUME Bad # {} PROVE FALSE
  OBVIOUS
<1>2. PICK n \in Bad : \A m \in Bad : n <= m
  <2>1. Bad \subseteq Nat
    OBVIOUS
  <2> HIDE DEF Bad
  <2>. QED  BY <1>1, <2>1, LeastNumber
<1>3. CASE n = 0
  <2> DEFINE e == [i \in 0..0 |-> <<>>]
             h == [i \in 0..0 |-> IF i = 0 THEN <<>> ELSE NextWrites(s, ps, e[i - 1], i)]
  <2>1. e = h
    OBVIOUS
  <2> HIDE DEF e
  <2>2. Makes(e, s, ps, 0)
    BY <2>1 DEF Makes
  <2>. QED  BY <1>3, <2>2
<1>4. CASE n > 0
  <2>1. PICK f : Makes(f, s, ps, n - 1)
    BY <1>2, <1>4
  <2> DEFINE newest == NextWrites(s, ps, f[n - 1], n)
             g == [i \in 0..n |-> IF i < n THEN f[i] ELSE newest]
             h == [i \in 0..n |-> IF i = 0 THEN <<>> ELSE NextWrites(s, ps, g[i - 1], i)]
  <2>2. ASSUME NEW i \in 0..n PROVE g[i] = h[i]
    <3>1. CASE i < n
      <4>1. i \in 0..(n - 1)
        BY <3>1
      <4>2. f[i] = IF i = 0 THEN <<>> ELSE NextWrites(s, ps, f[i - 1], i)
        BY <4>1, <2>1 DEF Makes
      <4>3. i # 0 => g[i - 1] = f[i - 1]
        BY <3>1
      <4>. QED  BY <3>1, <4>2, <4>3
    <3>2. CASE i = n
      <4>1. g[n - 1] = f[n - 1] /\ g[n] = newest
        BY <1>4
      <4>2. h[n] = NextWrites(s, ps, g[n - 1], n)
        BY <1>4
      <4>. QED  BY <3>2, <4>1, <4>2
    <3>. QED  BY <3>1, <3>2
  <2>3. g = h
    <3>1. g = [i \in 0..n |-> g[i]] /\ h = [i \in 0..n |-> h[i]]
      OBVIOUS
    <3> HIDE DEF g, h
    <3>2. [i \in 0..n |-> g[i]] = [i \in 0..n |-> h[i]]
      BY <2>2
    <3>. QED  BY <3>1, <3>2
  <2>4. Makes(g, s, ps, n)
    <3> HIDE DEF g
    <3>. QED  BY <2>3 DEF Makes
  <2>. QED  BY <2>4
<1>. QED  BY <1>3, <1>4

(* The writes that installing patches makes lead where the patches lead, and back. *)
LEMMA WritesLemma ==
  ASSUME NEW s \in States, NEW ps \in Patches
  PROVE  /\ Writes(s, ps) \in Patches /\ Changing(Writes(s, ps))
         /\ LeadsTo(Writes(s, ps), s, Patched(s, ps))
<1> DEFINE n == Len(ps)
           F == CHOOSE f : Makes(f, s, ps, n)
           first(i) == SubSeq(ps, 1, i)
           Good(i) == /\ F[i] \in Patches /\ Changing(F[i])
                      /\ LeadsTo(F[i], s, Patched(s, first(i)))
           Bad == {i \in 0..n : ~Good(i)}
<1>1. Writes(s, ps) = F[n]
  BY DEF Writes, Makes, NextWrites
<1>2. n \in Nat /\ \A i \in 1..n : ps[i] \in PatchType
  BY DEF Patches
<1>3. Makes(F, s, ps, n)
  BY <1>2, WritesSolvable
<1> HIDE DEF F
<1>4. F[0] = <<>> /\ \A i \in 1..n : F[i] = NextWrites(s, ps, F[i - 1], i)
  <2>1. F = [i \in 0..n |-> IF i = 0 THEN <<>> ELSE NextWrites(s, ps, F[i - 1], i)]
    BY <1>3 DEF Makes
  <2>. QED  BY <1>2, <2>1
<1>5. \A i \in 0..n : Good(i)
  <2>1. SUFFICES ASSUME Bad # {} PROVE FALSE
    OBVIOUS
  <2>2. PICK k \in Bad : \A m \in Bad : k <= m
    <3>1. Bad \subseteq Nat
      BY <1>2
    <3> HIDE DEF Bad
    <3>. QED  BY <2>1, <3>1, LeastNumber
  <2>3. k \in 0..n /\ ~Good(k)
    OBVIOUS
  <2>4. CASE k = 0
    <3>1. first(0) = <<>>
      BY SubSeqEmpty
    <3>2. <<>> \in Patches /\ Changing(<<>>)
      BY DEF Patches, Changing
    <3>3. LeadsTo(<<>>, s, Patched(s, <<>>))
      BY PatchedEmpty, LeadsToEmpty
    <3> HIDE DEF first
    <3>. QED  BY <2>3, <2>4, <3>1, <3>2, <3>3, <1>4
  <2>5. CASE k # 0
    <3> DEFINE e == F[k - 1]
               t == Patched(s, first(k - 1))
               u == Patched(s, first(k))
               w == Patch(ps[k].place, t, ps[k].next)
    <3>1. k \in 1..n /\ k - 1 \in 0..n /\ k - 1 \notin Bad
      BY <2>2, <2>3, <2>5, <1>2
    <3>2. e \in Patches /\ Changing(e) /\ LeadsTo(e, s, t)
      BY <3>1
    <3>3. /\ first(k - 1) \in Patches /\ <<ps[k]>> \in Patches
          /\ first(k) = first(k - 1) \o <<ps[k]>>
      <4>1. first(k) = first(k - 1) \o <<ps[k]>>
        BY <3>1, <1>2, SubSeqRecursiveSecond DEF Patches
      <4>2. first(k - 1) \in Patches
        BY <3>1, <1>2 DEF Patches
      <4>. QED  BY <4>1, <4>2, <3>1, <1>2 DEF Patches
    <3>4. t \in States /\ u = [t EXCEPT ![ps[k].place] = ps[k].next]
      <4>1. t \in States
        BY <3>3, PatchedType
      <4>2. u = Patched(t, <<ps[k]>>)
        <5> HIDE DEF first
        <5>. QED  BY <3>3, PatchedConcat
      <4> HIDE DEF t, u
      <4>. QED  BY <4>1, <4>2, <3>1, <1>2, SingleInstalled
    <3>5. Patched(s, e) = t
      BY <3>2 DEF LeadsTo
    <3>6. F[k] = IF w.next = w.previous THEN e ELSE Append(e, w)
      BY <3>1, <3>5, <1>4 DEF NextWrites
    <3>7. ps[k].place \in Places /\ ps[k].next \in Values
      BY <3>1, <1>2 DEF PatchType
    <3>8. w.next = ps[k].next /\ w.previous = t[ps[k].place] /\ w.place = ps[k].place
      BY DEF Patch
    <3> HIDE DEF t, u, e, first
    <3>9. CASE w.next = w.previous
      <4>1. u = t
        BY <3>4, <3>8, <3>9, <3>7 DEF States
      <4>. QED  BY <2>3, <3>2, <3>6, <3>9, <4>1 DEF u, t, e
    <3>10. CASE w.next # w.previous
      <4>1. /\ w \in PatchType /\ <<w>> \in Patches
            /\ LeadsTo(<<w>>, t, u) /\ u \in States
        BY <3>4, <3>7, SingleLeads
      <4> HIDE DEF w
      <4>2. F[k] = e \o <<w>>
        BY <3>2, <3>6, <3>10, <4>1, AppendIsConcat DEF Patches
      <4>3. F[k] \in Patches
        BY <4>1, <4>2, <3>2 DEF Patches
      <4>4. LeadsTo(F[k], s, u)
        BY <3>2, <3>4, <4>1, <4>2, LeadsToConcat
      <4>5. Changing(F[k])
        <5>1. F[k] = Append(e, w) /\ e \in Seq(PatchType)
          BY <3>6, <3>10, <3>2 DEF Patches
        <5>2. DOMAIN F[k] = 1..(Len(e) + 1) /\ DOMAIN e = 1..Len(e) /\ Len(e) \in Nat
          BY <5>1
        <5>3. ASSUME NEW i \in 1..(Len(e) + 1) PROVE F[k][i].previous # F[k][i].next
          <6>1. CASE i = Len(e) + 1
            BY <5>1, <6>1, <3>10
          <6>2. CASE i # Len(e) + 1
            <7>1. i \in 1..Len(e) /\ F[k][i] = e[i]
              BY <5>1, <5>2, <6>2
            <7>. QED  BY <7>1, <5>2, <3>2 DEF Changing
          <6>. QED  BY <6>1, <6>2
        <5>. QED  BY <5>2, <5>3 DEF Changing
      <4>. QED  BY <2>3, <4>3, <4>4, <4>5 DEF u
    <3>. QED  BY <3>9, <3>10
  <2>. QED  BY <2>4, <2>5
<1>6. first(n) = ps
  BY SubSeqFull DEF Patches
<1>7. Good(n)
  BY <1>2, <1>5
<1> HIDE DEF n, first
<1>. QED  BY <1>1, <1>6, <1>7

(* A replay that writes nothing leaves the state. *)
LEMMA WritesNothing ==
  ASSUME NEW s \in States, NEW ps \in Patches, Writes(s, ps) = <<>>
  PROVE  Patched(s, ps) = s
  BY WritesLemma, PatchedEmpty DEF LeadsTo

-----------------------------------------------------------------------------
(***************************************************************************)
(* The line of a history: what StepsOf computes is the one sequence of states*)
(* along which the entries lead, in both directions.                       *)
(***************************************************************************)

Entries ==
  [kind : {"patches"}, before : {<<>>}, after : {<<>>}, patches : Patches]
    \cup [kind : {"snapshot"}, before : States, after : States, patches : {<<>>}]

Attempts == [started : BOOLEAN, places : SUBSET Places]
AttemptTables == UNION {[N -> Attempts] : N \in SUBSET Nat}

HistoryType ==
  [attached : BOOLEAN, past : Seq(Entries), future : Seq(Entries), baseline : States, patches : Patches,
   opaque : BOOLEAN, owner : Nat, attempts : AttemptTables, calls : Nat]

\* The entry e leads from s to t, and back.
Leads(e, s, t) == Beyond(e, s, FALSE) = t /\ Beyond(e, t, TRUE) = s

\* The states S are those of the line of the history H.
Threads(S, H) ==
  LET n == Len(H.past)
      m == Len(H.future)
  IN  /\ S \in Seq(States) /\ Len(S) = n + 1 + m
      /\ S[n + 1] = H.baseline
      /\ \A i \in 1..n : Leads(H.past[i], S[i], S[i + 1])
      /\ \A j \in 1..m : Leads(H.future[m + 1 - j], S[n + j], S[n + j + 1])

(* An entry leads from states to states. *)
LEMMA BeyondType ==
  ASSUME NEW e \in Entries, NEW s \in States, NEW inverse \in BOOLEAN
  PROVE  Beyond(e, s, inverse) \in States
<1>1. CASE e.kind = "patches"
  <2>1. e.patches \in Patches
    BY <1>1 DEF Entries
  <2>2. Directed(e.patches, inverse) \in Patches
    BY <2>1, InvertedType DEF Directed
  <2>. QED  BY <1>1, <2>2, PatchedType DEF Beyond
<1>2. CASE e.kind # "patches"
  <2>1. e.before \in States /\ e.after \in States
    BY <1>2 DEF Entries
  <2>. QED  BY <1>2, <2>1 DEF Beyond
<1>. QED  BY <1>1, <1>2

\* f and g solve the recursions of StepsOf.
Behind(f, H) ==
  f = [i \in 1..(Len(H.past) + 1) |->
         IF i > Len(H.past) THEN H.baseline ELSE Beyond(H.past[i], f[i + 1], TRUE)]
Ahead(g, H) ==
  g = [i \in 0..Len(H.future) |->
         IF i = 0 THEN H.baseline ELSE Beyond(H.future[Len(H.future) + 1 - i], g[i - 1], FALSE)]

(* What StepsOf computes behind the cursor is the line there. *)
LEMMA BehindIs ==
  ASSUME NEW H, NEW S, Threads(S, H), Len(H.past) \in Nat, Len(H.future) \in Nat, NEW f, Behind(f, H)
  PROVE  f = [i \in 1..(Len(H.past) + 1) |-> S[i]]
<1> DEFINE n == Len(H.past)
           Bad == {k \in 0..n : f[n + 1 - k] # S[n + 1 - k]}
<1>1. \A i \in 1..(n + 1) : f[i] = IF i > n THEN H.baseline ELSE Beyond(H.past[i], f[i + 1], TRUE)
  BY DEF Behind
<1>2. S[n + 1] = H.baseline /\ \A i \in 1..n : Beyond(H.past[i], S[i + 1], TRUE) = S[i]
  BY DEF Threads, Leads
<1>3. DOMAIN f = 1..(n + 1)
  BY DEF Behind
<1> HIDE DEF n
<1>4. Bad = {}
  <2> SUFFICES ASSUME Bad # {} PROVE FALSE
    OBVIOUS
  <2>0. n \in Nat
    BY DEF n
  <2>1. PICK k \in Bad : \A m \in Bad : k <= m
    <3>1. Bad \subseteq Nat
      BY <2>0
    <3> HIDE DEF Bad
    <3>. QED  BY <3>1, LeastNumber
  <2>9. k \in 0..n /\ f[n + 1 - k] # S[n + 1 - k]
    OBVIOUS
  <2>10. \A j \in 0..n : j < k => f[n + 1 - j] = S[n + 1 - j]
    <3> SUFFICES ASSUME NEW j \in 0..n, j < k, f[n + 1 - j] # S[n + 1 - j] PROVE FALSE
      OBVIOUS
    <3>1. j \in Bad
      OBVIOUS
    <3>2. k <= j
      BY <2>1, <3>1
    <3> HIDE DEF Bad
    <3>. QED  BY <3>2, <2>9, <2>0
  <2> HIDE DEF Bad
  <2>2. CASE k = 0
    <3>1. n + 1 - k = n + 1 /\ n + 1 \in 1..(n + 1) /\ n + 1 > n
      BY <2>0, <2>2
    <3>2. f[n + 1] = H.baseline
      BY <3>1, <1>1
    <3>. QED  BY <3>1, <3>2, <2>9, <1>2
  <2>3. CASE k # 0
    <3> DEFINE i == n + 1 - k
    <3>1. k \in 1..n /\ k - 1 \in 0..n /\ i \in 1..n /\ i + 1 = n + 1 - (k - 1) /\ i \in 1..(n + 1)
      BY <2>0, <2>9, <2>3
    <3>2. f[n + 1 - (k - 1)] = S[n + 1 - (k - 1)]
      <4>1. k - 1 \in 0..n /\ k - 1 < k
        BY <3>1, <2>0
      <4>. QED  BY <4>1, <2>10
    <3>3. f[i + 1] = S[i + 1]
      <4>1. i + 1 = n + 1 - (k - 1)
        BY <3>1
      <4> HIDE DEF i
      <4>. QED  BY <3>2, <4>1
    <3>4. f[i] = Beyond(H.past[i], f[i + 1], TRUE)
      <4>1. ~(i > n)
        BY <3>1, <2>0
      <4> HIDE DEF i
      <4>. QED  BY <3>1, <4>1, <1>1
    <3>5. f[i] = S[i]
      BY <3>1, <3>3, <3>4, <1>2
    <3>. QED  BY <2>9, <3>5
  <2>. QED  BY <2>2, <2>3
<1>5. ASSUME NEW i \in 1..(n + 1) PROVE f[i] = S[i]
  <2>1. n + 1 - i \in 0..n /\ n + 1 - (n + 1 - i) = i
    BY DEF n
  <2>2. n + 1 - i \notin Bad
    BY <1>4
  <2>. QED  BY <2>1, <2>2
<1>6. f = [i \in 1..(n + 1) |-> f[i]]
  BY DEF Behind, n
<1>. QED  BY <1>5, <1>6 DEF n

(* What StepsOf computes ahead of the cursor is the line there. *)
LEMMA AheadIs ==
  ASSUME NEW H, NEW S, Threads(S, H), Len(H.past) \in Nat, Len(H.future) \in Nat, NEW g, Ahead(g, H)
  PROVE  g = [i \in 0..Len(H.future) |-> S[Len(H.past) + 1 + i]]
<1> DEFINE n == Len(H.past)
           m == Len(H.future)
           Bad == {k \in 0..m : g[k] # S[n + 1 + k]}
<1>1. \A i \in 0..m : g[i] = IF i = 0 THEN H.baseline ELSE Beyond(H.future[m + 1 - i], g[i - 1], FALSE)
  BY DEF Ahead
<1>2. S[n + 1] = H.baseline /\ \A i \in 1..m : Beyond(H.future[m + 1 - i], S[n + i], FALSE) = S[n + i + 1]
  BY DEF Threads, Leads
<1>3. n \in Nat /\ m \in Nat /\ g = [i \in 0..m |-> g[i]]
  BY DEF Ahead
<1> HIDE DEF n, m
<1>4. Bad = {}
  <2> SUFFICES ASSUME Bad # {} PROVE FALSE
    OBVIOUS
  <2>1. PICK k \in Bad : \A j \in Bad : k <= j
    <3>1. Bad \subseteq Nat
      BY <1>3
    <3> HIDE DEF Bad
    <3>. QED  BY <3>1, LeastNumber
  <2>9. k \in 0..m /\ g[k] # S[n + 1 + k]
    OBVIOUS
  <2>10. \A j \in 0..m : j < k => g[j] = S[n + 1 + j]
    <3> SUFFICES ASSUME NEW j \in 0..m, j < k, g[j] # S[n + 1 + j] PROVE FALSE
      OBVIOUS
    <3>1. j \in Bad
      OBVIOUS
    <3>2. k <= j
      BY <2>1, <3>1
    <3> HIDE DEF Bad
    <3>. QED  BY <3>2, <2>9, <1>3
  <2> HIDE DEF Bad
  <2>2. CASE k = 0
    <3>1. n + 1 + k = n + 1 /\ 0 \in 0..m
      BY <1>3, <2>2
    <3>2. g[0] = H.baseline
      BY <3>1, <1>1
    <3>. QED  BY <3>1, <3>2, <2>9, <1>2, <2>2
  <2>3. CASE k # 0
    <3>1. k \in 1..m /\ k - 1 \in 0..m /\ n + 1 + (k - 1) = n + k /\ n + k + 1 = n + 1 + k
      BY <1>3, <2>9, <2>3
    <3>2. g[k - 1] = S[n + 1 + (k - 1)]
      <4>1. k - 1 < k
        BY <3>1, <1>3
      <4>. QED  BY <3>1, <4>1, <2>10
    <3>3. g[k - 1] = S[n + k]
      BY <3>1, <3>2
    <3>4. g[k] = Beyond(H.future[m + 1 - k], g[k - 1], FALSE)
      BY <2>3, <3>1, <1>1, <1>3
    <3>5. g[k] = S[n + 1 + k]
      BY <3>1, <3>3, <3>4, <1>2
    <3>. QED  BY <2>9, <3>5
  <2>. QED  BY <2>2, <2>3
<1>5. \A i \in 0..m : g[i] = S[n + 1 + i]
  BY <1>4
<1>. QED  BY <1>3, <1>5 DEF n, m

(* A sequence is its first part and its last. *)
LEMMA TwoParts ==
  ASSUME NEW T, NEW S \in Seq(T), NEW n \in Nat, NEW m \in Nat, Len(S) = n + 1 + m
  PROVE  [i \in 1..(n + 1) |-> S[i]] \o [i \in 1..m |-> S[n + 1 + i]] = S
<1> DEFINE f == [i \in 1..(n + 1) |-> S[i]]
           r == [i \in 1..m |-> S[n + 1 + i]]
<1>1. f \in Seq(T) /\ Len(f) = n + 1 /\ \A i \in 1..(n + 1) : f[i] = S[i]
  <2>1. \A i \in 1..(n + 1) : S[i] \in T
    OBVIOUS
  <2>2. f \in [1..(n + 1) -> T]
    BY <2>1
  <2>. QED  BY <2>2
<1>2. r \in Seq(T) /\ Len(r) = m /\ \A i \in 1..m : r[i] = S[n + 1 + i]
  <2>1. \A i \in 1..m : S[n + 1 + i] \in T
    OBVIOUS
  <2>2. r \in [1..m -> T]
    BY <2>1
  <2>. QED  BY <2>2
<1> HIDE DEF f, r
<1>3. /\ f \o r \in Seq(T) /\ Len(f \o r) = n + 1 + m
      /\ \A i \in 1..(n + 1 + m) : (f \o r)[i] = IF i <= n + 1 THEN f[i] ELSE r[i - (n + 1)]
  <2>1. /\ f \o r \in Seq(T) /\ Len(f \o r) = Len(f) + Len(r)
        /\ \A i \in 1..(Len(f) + Len(r)) : (f \o r)[i] = IF i <= Len(f) THEN f[i] ELSE r[i - Len(f)]
    BY <1>1, <1>2, ConcatProperties
  <2>2. Len(f) = n + 1 /\ Len(r) = m
    BY <1>1, <1>2
  <2>. QED  BY <2>1, <2>2
<1>4. ASSUME NEW i \in 1..(n + 1 + m) PROVE (f \o r)[i] = S[i]
  <2>1. CASE i <= n + 1
    BY <2>1, <1>1, <1>3
  <2>2. CASE ~(i <= n + 1)
    <3>1. i - (n + 1) \in 1..m /\ n + 1 + (i - (n + 1)) = i
      BY <2>2
    <3>2. r[i - (n + 1)] = S[i]
      BY <3>1, <1>2
    <3>. QED  BY <2>2, <3>2, <1>3
  <2>. QED  BY <2>1, <2>2
<1>5. f \o r = S
  BY <1>3, <1>4, SeqEqual
<1>. QED  BY <1>5 DEF f, r

(* The recursions have the line for a solution, and no other. *)
LEMMA StepsAre ==
  ASSUME NEW H, NEW S, Threads(S, H), Len(H.past) \in Nat, Len(H.future) \in Nat
  PROVE  StepsOf(H) = S
<1> DEFINE n == Len(H.past)
           m == Len(H.future)
           a == [i \in 1..(n + 1) |-> S[i]]
           b == [i \in 0..m |-> S[n + 1 + i]]
           f == CHOOSE x : Behind(x, H)
           g == CHOOSE x : Ahead(x, H)
           fa == [i \in 1..(n + 1) |-> IF i > n THEN H.baseline ELSE Beyond(H.past[i], a[i + 1], TRUE)]
           gb == [i \in 0..m |-> IF i = 0 THEN H.baseline ELSE Beyond(H.future[m + 1 - i], b[i - 1], FALSE)]
<1>1. StepsOf(H) = f \o [i \in 1..m |-> g[i]]
  BY DEF StepsOf, Behind, Ahead
<1>2. /\ n \in Nat /\ m \in Nat
      /\ S[n + 1] = H.baseline
      /\ \A i \in 1..n : Beyond(H.past[i], S[i + 1], TRUE) = S[i]
      /\ \A i \in 1..m : Beyond(H.future[m + 1 - i], S[n + i], FALSE) = S[n + i + 1]
      /\ S \in Seq(States) /\ Len(S) = n + 1 + m
  BY DEF Threads, Leads
<1>3. Behind(a, H)
  <2> HIDE DEF m, f, g, b, gb
  <2>1. ASSUME NEW i \in 1..(n + 1) PROVE a[i] = fa[i]
    <3> HIDE DEF n
    <3>1. CASE i > n
      <4>1. i = n + 1
        BY <1>2, <3>1
      <4>2. a[i] = S[n + 1] /\ fa[i] = H.baseline
        BY <3>1, <4>1
      <4>. QED  BY <4>2, <1>2
    <3>2. CASE ~(i > n)
      <4>1. i \in 1..n /\ i + 1 \in 1..(n + 1)
        BY <1>2, <3>2
      <4>2. a[i] = S[i] /\ a[i + 1] = S[i + 1]
        BY <4>1
      <4> HIDE DEF a, n
      <4>3. fa[i] = Beyond(H.past[i], a[i + 1], TRUE)
        BY <3>2
      <4>. QED  BY <4>1, <4>2, <4>3, <1>2
    <3>. QED  BY <3>1, <3>2
  <2>2. a = [i \in 1..(n + 1) |-> a[i]] /\ fa = [i \in 1..(n + 1) |-> fa[i]]
    <3> HIDE DEF n
    <3>. QED  OBVIOUS
  <2> HIDE DEF a, fa
  <2> HIDE DEF n
  <2>3. a = fa
    BY <2>1, <2>2
  <2>. QED  BY <2>3 DEF Behind, fa, n
<1>4. Ahead(b, H)
  <2> HIDE DEF n, m, f, g, a, fa
  <2>1. ASSUME NEW i \in 0..m PROVE b[i] = gb[i]
    <3>1. CASE i = 0
      <4>1. n + 1 + i = n + 1 /\ b[i] = S[n + 1 + i] /\ gb[i] = H.baseline
        BY <1>2, <3>1
      <4>. QED  BY <4>1, <1>2
    <3>2. CASE i # 0
      <4>1. i \in 1..m /\ i - 1 \in 0..m /\ n + 1 + (i - 1) = n + i /\ n + 1 + i = n + i + 1
        <5>1. n \in Nat /\ m \in Nat
          BY <1>2
        <5> HIDE DEF b, gb
        <5>. QED  BY <5>1, <3>2
      <4>2. b[i] = S[n + i + 1] /\ b[i - 1] = S[n + i]
        BY <4>1
      <4> HIDE DEF b, m, n
      <4>3. gb[i] = Beyond(H.future[m + 1 - i], b[i - 1], FALSE)
        BY <3>2
      <4>. QED  BY <4>1, <4>2, <4>3, <1>2
    <3>. QED  BY <3>1, <3>2
  <2>2. b = [i \in 0..m |-> b[i]] /\ gb = [i \in 0..m |-> gb[i]]
    OBVIOUS
  <2> HIDE DEF b, gb
  <2>3. b = gb
    BY <2>1, <2>2
  <2>. QED  BY <2>3 DEF Ahead, gb, n, m
<1>5. Behind(f, H) /\ Ahead(g, H)
  <2> HIDE DEF a, b
  <2>. QED  BY <1>3, <1>4
<1> HIDE DEF f, g
<1> DEFINE r == [i \in 1..m |-> g[i]]
<1>6. f = a /\ g = b
  BY <1>2, <1>5, BehindIs, AheadIs
<1>7. r = [i \in 1..m |-> S[n + 1 + i]]
  BY <1>6
<1> HIDE DEF r
<1>8. f \o r = S
  BY <1>2, <1>6, <1>7, TwoParts
<1>. QED  BY <1>1, <1>8 DEF r

-----------------------------------------------------------------------------
(***************************************************************************)
(* What moves along the line: to file an entry, and to cross one.          *)
(***************************************************************************)

Settles(H, s) == ~HasPending(H) /\ H.baseline = s

Lined(H) == Threads(StepsOf(H), H)

\* The line S with the state s committed at the cursor k.
Extended(S, k, s) ==
  LET kept == Append(SubSeq(S, 1, k), s)
  IN  IF Len(kept) > Limit + 1 THEN Tail(kept) ELSE kept

SameLine(H, K) == StepsOf(K) = StepsOf(H) /\ Len(K.past) = Len(H.past)

\* K is H with the state s committed.
Files(H, K, s) ==
  /\ s # H.baseline
  /\ StepsOf(K) = Extended(StepsOf(H), Len(H.past) + 1, s)
  /\ K.future = <<>>

(* The fields of a history. *)
LEMMA HistoryFields ==
  ASSUME NEW H \in HistoryType
  PROVE  /\ H.past \in Seq(Entries) /\ H.future \in Seq(Entries) /\ H.baseline \in States
         /\ H.patches \in Patches /\ H.opaque \in BOOLEAN /\ H.owner \in Nat /\ H.calls \in Nat
         /\ H.attempts \in AttemptTables /\ H.attached \in BOOLEAN
         /\ Len(H.past) \in Nat /\ Len(H.future) \in Nat
<1>1. /\ H.past \in Seq(Entries) /\ H.future \in Seq(Entries) /\ H.baseline \in States
      /\ H.patches \in Patches /\ H.opaque \in BOOLEAN /\ H.owner \in Nat /\ H.calls \in Nat
      /\ H.attempts \in AttemptTables /\ H.attached \in BOOLEAN
  BY DEF HistoryType
<1>. QED  BY <1>1

(* The line depends on the entries and the baseline only. *)
LEMMA SameFieldsLine ==
  ASSUME NEW H \in HistoryType, NEW K \in HistoryType, Lined(H),
         K.past = H.past, K.future = H.future, K.baseline = H.baseline
  PROVE  Lined(K) /\ SameLine(H, K)
<1>1. Threads(StepsOf(H), K)
  BY DEF Lined, Threads
<1>2. StepsOf(K) = StepsOf(H)
  BY <1>1, HistoryFields, StepsAre
<1>. QED  BY <1>1, <1>2 DEF Lined, SameLine

(* The tail of a sequence of length n + 1. *)
LEMMA TailIs ==
  ASSUME NEW T, NEW q \in Seq(T), NEW n \in Nat, Len(q) = n + 1
  PROVE  Tail(q) \in Seq(T) /\ Len(Tail(q)) = n /\ \A i \in 1..n : Tail(q)[i] = q[i + 1]
  OBVIOUS

(* To file an entry that leads from the baseline to s is to commit s. *)
LEMMA FiledLine ==
  ASSUME NEW H \in HistoryType, NEW K \in HistoryType, Lined(H), NEW e \in Entries, NEW s \in States,
         Leads(e, H.baseline, s),
         K.past = IF Len(Append(H.past, e)) > Limit THEN Tail(Append(H.past, e)) ELSE Append(H.past, e),
         K.future = <<>>, K.baseline = s
  PROVE  Lined(K) /\ StepsOf(K) = Extended(StepsOf(H), Len(H.past) + 1, s)
<1> DEFINE S == StepsOf(H)
           n == Len(H.past)
           cut == SubSeq(S, 1, n + 1)
           kept == Append(cut, s)
           past == Append(H.past, e)
           U == Extended(S, n + 1, s)
<1>1. /\ n \in Nat /\ S \in Seq(States) /\ n + 1 <= Len(S)
      /\ S[n + 1] = H.baseline
      /\ \A i \in 1..n : Leads(H.past[i], S[i], S[i + 1])
  <2>1. Len(S) = n + 1 + Len(H.future)
    BY DEF Lined, Threads
  <2>2. n \in Nat /\ Len(H.future) \in Nat
    BY HistoryFields
  <2>3. S \in Seq(States) /\ S[n + 1] = H.baseline
    BY DEF Lined, Threads
  <2>4. \A i \in 1..n : Leads(H.past[i], S[i], S[i + 1])
    BY DEF Lined, Threads
  <2>5. n + 1 <= Len(S)
    <3> DEFINE m == Len(H.future)
               l == Len(S)
    <3>1. l = n + 1 + m /\ n \in Nat /\ m \in Nat
      BY <2>1, <2>2
    <3> HIDE DEF S, n, m, l
    <3>2. n + 1 <= l
      BY <3>1
    <3>. QED  BY <3>2 DEF l
  <2>. QED  BY <2>2, <2>3, <2>4, <2>5
<1>2. /\ past \in Seq(Entries) /\ Len(past) = n + 1 /\ past[n + 1] = e
      /\ \A i \in 1..n : past[i] = H.past[i]
  BY HistoryFields, AppendProperties
<1> HIDE DEF S, n, past
<1>3. cut \in Seq(States) /\ Len(cut) = n + 1 /\ \A i \in 1..(n + 1) : cut[i] = S[i]
  BY <1>1
<1> HIDE DEF cut
<1>4. /\ kept \in Seq(States) /\ Len(kept) = n + 2 /\ kept[n + 2] = s
      /\ \A i \in 1..(n + 1) : kept[i] = S[i]
  BY <1>1, <1>3, AppendProperties
<1> HIDE DEF kept
<1>5. \A i \in 1..(n + 1) : Leads(past[i], kept[i], kept[i + 1])
  <2> TAKE i \in 1..(n + 1)
  <2>1. CASE i = n + 1
    BY <2>1, <1>1, <1>2, <1>4
  <2>2. CASE i # n + 1
    <3>1. i \in 1..n /\ i \in 1..(n + 1) /\ i + 1 \in 1..(n + 1)
      BY <2>2, <1>1
    <3>2. past[i] = H.past[i] /\ kept[i] = S[i] /\ kept[i + 1] = S[i + 1]
      BY <3>1, <1>2, <1>4
    <3>. QED  BY <3>1, <3>2, <1>1
  <2>. QED  BY <2>1, <2>2
<1>6. Limit \in Nat /\ Limit # 0
  BY HistoryAssumption
<1>7. U = IF n + 2 > Limit + 1 THEN Tail(kept) ELSE kept
  BY <1>4 DEF Extended, kept, cut
<1>8. K.past = IF n + 1 > Limit THEN Tail(past) ELSE past
  BY <1>2 DEF past
<1> HIDE DEF U
<1>9. Len(<<>>) = 0
  OBVIOUS
<1>10. Threads(U, K)
  <2>0. K.future = <<>> /\ K.baseline = s /\ Len(K.future) = 0
    BY <1>9
  <2>1. CASE n + 1 > Limit
    <3>0. n + 2 > Limit + 1
      BY <2>1, <1>1, <1>6
    <3>1. U = Tail(kept) /\ K.past = Tail(past)
      BY <2>1, <3>0, <1>7, <1>8
    <3>2. /\ U \in Seq(States) /\ Len(U) = n + 1
          /\ \A i \in 1..(n + 1) : U[i] = kept[i + 1]
      <4>1. n + 1 \in Nat /\ n + 2 = n + 1 + 1
        BY <1>1
      <4>2. Len(kept) = n + 1 + 1
        BY <4>1, <1>4
      <4>. QED  BY <3>1, <4>1, <4>2, <1>4, TailIs
    <3>3. Len(K.past) = n /\ \A i \in 1..n : K.past[i] = past[i + 1]
      BY <3>1, <1>1, <1>2, TailIs
    <3>4. U[n + 1] = s
      <4>1. n + 1 \in 1..(n + 1) /\ n + 1 + 1 = n + 2
        BY <1>1
      <4>. QED  BY <4>1, <3>2, <1>4
    <3>5. \A i \in 1..n : Leads(K.past[i], U[i], U[i + 1])
      <4> TAKE i \in 1..n
      <4>1. i + 1 \in 1..(n + 1) /\ i \in 1..(n + 1)
        BY <1>1
      <4>2. K.past[i] = past[i + 1] /\ U[i] = kept[i + 1] /\ U[i + 1] = kept[i + 1 + 1]
        BY <4>1, <3>2, <3>3
      <4>. QED  BY <4>1, <4>2, <1>5
    <3>6. n + 1 + 0 = n + 1
      BY <1>1
    <3>7. \A j \in 1..0 : Leads(K.future[0 + 1 - j], U[n + j], U[n + j + 1])
      OBVIOUS
    <3>. QED  BY <2>0, <3>2, <3>3, <3>4, <3>5, <3>6, <3>7 DEF Threads
  <2>2. CASE ~(n + 1 > Limit)
    <3>0. ~(n + 2 > Limit + 1)
      BY <2>2, <1>1, <1>6
    <3>1. U = kept /\ K.past = past
      BY <2>2, <3>0, <1>7, <1>8
    <3>2. n + 2 = n + 1 + 1 /\ n + 1 + 1 + 0 = n + 2
      BY <1>1
    <3>3. \A j \in 1..0 : Leads(K.future[0 + 1 - j], U[n + 1 + j], U[n + 1 + j + 1])
      OBVIOUS
    <3>4. /\ U \in Seq(States) /\ Len(U) = n + 1 + 1 + 0 /\ Len(K.past) = n + 1
          /\ U[n + 1 + 1] = K.baseline
      BY <2>0, <3>1, <3>2, <1>2, <1>4
    <3>5. \A i \in 1..(n + 1) : Leads(K.past[i], U[i], U[i + 1])
      BY <3>1, <1>5
    <3>. QED  BY <2>0, <3>3, <3>4, <3>5 DEF Threads
  <2>. QED  BY <2>1, <2>2
<1>11. StepsOf(K) = U
  BY <1>10, HistoryFields, StepsAre
<1>. QED  BY <1>10, <1>11 DEF Lined, U, S, n

(* To go to the other side of an entry is to move the cursor by one. *)
LEMMA MovedLine ==
  ASSUME NEW H \in HistoryType, NEW K \in HistoryType, Lined(H), NEW inverse \in BOOLEAN,
         Replayable(H, inverse) # <<>>,
         K.past = Moved(H, inverse).past, K.future = Moved(H, inverse).future,
         K.baseline = Beyond(Last(Replayable(H, inverse)), H.baseline, inverse)
  PROVE  /\ Lined(K) /\ StepsOf(K) = StepsOf(H)
         /\ Len(K.past) = IF inverse THEN Len(H.past) - 1 ELSE Len(H.past) + 1
         /\ K.baseline = StepsOf(H)[Len(K.past) + 1]
         /\ Last(Replayable(H, inverse)) \in Entries
<1> DEFINE S == StepsOf(H)
           n == Len(H.past)
           m == Len(H.future)
           e == Last(Replayable(H, inverse))
<1>1. /\ n \in Nat /\ m \in Nat /\ S \in Seq(States) /\ Len(S) = n + 1 + m
      /\ S[n + 1] = H.baseline
      /\ \A i \in 1..n : Leads(H.past[i], S[i], S[i + 1])
      /\ \A j \in 1..m : Leads(H.future[m + 1 - j], S[n + j], S[n + j + 1])
  BY HistoryFields DEF Lined, Threads
<1>2. H.past \in Seq(Entries) /\ H.future \in Seq(Entries)
  BY HistoryFields
<1>3. CASE inverse
  <2>1. /\ H.past # <<>> /\ e = H.past[n]
        /\ K.past = SubSeq(H.past, 1, n - 1) /\ K.future = Append(H.future, e)
    BY <1>3 DEF Replayable, Moved, Last, Front, HistoryType
  <2> HIDE DEF S, n, m
  <2>2. n \in 1..n
    BY <2>1, <1>1, <1>2 DEF n
  <2>3. e \in Entries
    BY <2>1, <2>2, <1>2 DEF n
  <2> HIDE DEF e
  <2>4. Len(K.past) = n - 1 /\ \A i \in 1..(n - 1) : K.past[i] = H.past[i]
    BY <2>1, <2>2, <1>1, <1>2 DEF n
  <2>5. Len(K.future) = m + 1 /\ K.future[m + 1] = e /\ \A i \in 1..m : K.future[i] = H.future[i]
    BY <2>1, <2>3, <1>1, <1>2, AppendProperties DEF m
  <2>6. Leads(e, S[n], S[n + 1])
    BY <2>1, <2>2, <1>1
  <2>7. K.baseline = S[n]
    BY <2>6, <1>1, <1>3 DEF Leads, e
  <2>8. \A j \in 1..(m + 1) : Leads(K.future[m + 1 + 1 - j], S[n - 1 + j], S[n - 1 + j + 1])
    <3> TAKE j \in 1..(m + 1)
    <3>1. CASE j = 1
      <4>1. m + 1 + 1 - j = m + 1 /\ n - 1 + j = n /\ n - 1 + j + 1 = n + 1
        BY <3>1, <1>1
      <4>. QED  BY <4>1, <2>5, <2>6
    <3>2. CASE j # 1
      <4>1. /\ j - 1 \in 1..m /\ m + 1 + 1 - j = m + 1 - (j - 1) /\ n - 1 + j = n + (j - 1)
            /\ n - 1 + j + 1 = n + (j - 1) + 1 /\ m + 1 - (j - 1) \in 1..m
        BY <3>2, <1>1
      <4>2. K.future[m + 1 - (j - 1)] = H.future[m + 1 - (j - 1)]
        BY <4>1, <2>5
      <4>. QED  BY <4>1, <4>2, <1>1
    <3>. QED  BY <3>1, <3>2
  <2>9. Threads(S, K)
    <3>1. n - 1 + 1 = n /\ n - 1 + 1 + (m + 1) = n + 1 + m /\ n - 1 \in Nat
      BY <2>2, <1>1
    <3>2. \A i \in 1..(n - 1) : Leads(K.past[i], S[i], S[i + 1])
      <4> TAKE i \in 1..(n - 1)
      <4>1. i \in 1..n
        BY <1>1
      <4>. QED  BY <4>1, <2>4, <1>1
    <3>. QED  BY <3>1, <3>2, <2>4, <2>5, <2>7, <2>8, <1>1 DEF Threads
  <2>10. StepsOf(K) = S
    BY <2>9, HistoryFields, StepsAre
  <2>11. n - 1 + 1 = n
    BY <1>1
  <2>. QED  BY <2>3, <2>4, <2>7, <2>9, <2>10, <2>11, <1>3 DEF Lined, S, n, e
<1>4. CASE ~inverse
  <2>1. /\ H.future # <<>> /\ e = H.future[m]
        /\ K.future = SubSeq(H.future, 1, m - 1) /\ K.past = Append(H.past, e)
    BY <1>4 DEF Replayable, Moved, Last, Front, HistoryType
  <2> HIDE DEF S, n, m
  <2>2. m \in 1..m
    BY <2>1, <1>1, <1>2 DEF m
  <2>3. e \in Entries
    BY <2>1, <2>2, <1>2 DEF m
  <2> HIDE DEF e
  <2>4. Len(K.future) = m - 1 /\ \A i \in 1..(m - 1) : K.future[i] = H.future[i]
    BY <2>1, <2>2, <1>1, <1>2 DEF m
  <2>5. Len(K.past) = n + 1 /\ K.past[n + 1] = e /\ \A i \in 1..n : K.past[i] = H.past[i]
    BY <2>1, <2>3, <1>1, <1>2, AppendProperties DEF n
  <2>6. Leads(e, S[n + 1], S[n + 1 + 1])
    <3>1. 1 \in 1..m /\ m + 1 - 1 = m
      BY <2>2, <1>1
    <3>. QED  BY <3>1, <2>1, <1>1
  <2>7. K.baseline = S[n + 1 + 1]
    BY <2>6, <1>1, <1>4 DEF Leads, e
  <2>8. \A j \in 1..(m - 1) : Leads(K.future[m - 1 + 1 - j], S[n + 1 + j], S[n + 1 + j + 1])
    <3> TAKE j \in 1..(m - 1)
    <3>1. /\ j + 1 \in 1..m /\ m - 1 + 1 - j = m + 1 - (j + 1) /\ n + 1 + j = n + (j + 1)
          /\ m + 1 - (j + 1) \in 1..(m - 1)
      BY <1>1
    <3>2. K.future[m + 1 - (j + 1)] = H.future[m + 1 - (j + 1)]
      BY <3>1, <2>4
    <3>. QED  BY <3>1, <3>2, <1>1
  <2>9. Threads(S, K)
    <3>1. n + 1 + 1 + (m - 1) = n + 1 + m /\ m - 1 \in Nat
      BY <2>2, <1>1
    <3>2. \A i \in 1..(n + 1) : Leads(K.past[i], S[i], S[i + 1])
      <4> TAKE i \in 1..(n + 1)
      <4>1. CASE i = n + 1
        BY <4>1, <2>5, <2>6
      <4>2. CASE i # n + 1
        <5>1. i \in 1..n
          BY <4>2, <1>1
        <5>. QED  BY <5>1, <2>5, <1>1
      <4>. QED  BY <4>1, <4>2
    <3>. QED  BY <3>1, <3>2, <2>4, <2>5, <2>7, <2>8, <1>1 DEF Threads
  <2>10. StepsOf(K) = S
    BY <2>9, HistoryFields, StepsAre
  <2>. QED  BY <2>3, <2>5, <2>7, <2>9, <2>10, <1>4 DEF Lined, S, n, e
<1>. QED  BY <1>3, <1>4

(* A history that has been cleared, or begins. *)
LEMMA FreshLine ==
  ASSUME NEW H \in HistoryType, H.past = <<>>, H.future = <<>>
  PROVE  Lined(H) /\ StepsOf(H) = <<H.baseline>>
<1> DEFINE S == <<H.baseline>>
<1>1. H.baseline \in States
  BY HistoryFields
<1>2. Len(H.past) = 0 /\ Len(H.future) = 0
  OBVIOUS
<1>3. S \in Seq(States) /\ Len(S) = 1 /\ S[1] = H.baseline
  BY <1>1
<1> HIDE DEF S
<1>4. Threads(S, H)
  BY <1>2, <1>3 DEF Threads
<1>5. StepsOf(H) = S
  BY <1>2, <1>4, StepsAre
<1>. QED  BY <1>4, <1>5 DEF Lined, S

-----------------------------------------------------------------------------
(***************************************************************************)
(* The mirror of a history: its baseline and what it has collected, against*)
(* the state and the fact that is on its way.                              *)
(***************************************************************************)

Facts == [origin : Origins, by : SUBSET Histories, call : Nat]

\* The fact is the replay of h, and of h only.
Own(h, fact) == fact.origin = "replay" /\ fact.by = {h}

(* The mirror of an attached history H, where the fact c is on its way to it
   and d is the state. *)
Mirrors(h, H, d, c) ==
  /\ AttemptOf(H) => /\ ~HasPending(H)
                     /\ \/ H.attempts[H.owner].started
                        \/ AgreeOn(H.attempts[H.owner].places, H.baseline, d)
  /\ ~AttemptOf(H) /\ ~H.opaque => LeadsTo(H.patches, H.baseline, d)
  /\ Changing(H.patches)
  /\ c = NoFact => Settles(H, d)
  /\ Own(h, c) => H.baseline = d

\* What a record of the state s does to the line.
Keeps(H, K, s) == SameLine(H, K) \/ Files(H, K, s)

(* The empty sequence of patches. *)
LEMMA NoPatches == <<>> \in Patches /\ Changing(<<>>)
  BY DEF Patches, Changing

(* A settled history mirrors the state whatever is on its way. *)
LEMMA SettledMirrors ==
  ASSUME NEW h \in Histories, NEW H \in HistoryType, NEW d \in States, Settles(H, d), NEW c
  PROVE  Mirrors(h, H, d, c)
<1>1. H.patches = <<>> /\ H.baseline = d /\ ~HasPending(H)
  BY DEF Settles, HasPending
<1>2. LeadsTo(H.patches, H.baseline, d)
  BY <1>1, LeadsToEmpty
<1>3. AgreeOn(H.attempts[H.owner].places, H.baseline, d)
  BY <1>1 DEF AgreeOn
<1>. QED  BY <1>1, <1>2, <1>3, NoPatches DEF Mirrors, Settles

(* Facts that say no less than c of what the history may take for granted. *)
LEMMA WeakerMirrors ==
  ASSUME NEW h, NEW H, NEW d, NEW c, NEW c2, Mirrors(h, H, d, c),
         c2 = NoFact => c = NoFact, Own(h, c2) => Own(h, c) \/ c = NoFact
  PROVE  Mirrors(h, H, d, c2)
  BY DEF Mirrors, Settles

(* The facts without an owner. *)
LEMMA FactTypes ==
  /\ NoFact \in Facts /\ Mutation \in Facts /\ Installed \in Facts /\ Mixed \in Facts
  /\ NoFact # Mutation /\ NoFact # Installed /\ NoFact # Mixed
  /\ \A h : ~Own(h, NoFact) /\ ~Own(h, Mutation) /\ ~Own(h, Installed) /\ ~Own(h, Mixed)
  BY DEF NoFact, Mutation, Installed, Mixed, Fact, Facts, Origins, Own

(* The fact of a replay belongs to its history only. *)
LEMMA ReplayFacts ==
  ASSUME NEW h \in Histories, NEW n \in Nat
  PROVE  /\ ReplayFact(h, n) \in Facts /\ ReplayFact(h, n) # NoFact
         /\ \A g : Own(g, ReplayFact(h, n)) => g = h
  BY DEF ReplayFact, NoFact, Fact, Facts, Origins, Own

(* A coalesced fact is not nothing, and is an own replay only if it is that alone. *)
LEMMA JoinedFacts ==
  ASSUME NEW q \in Facts, NEW f \in Facts
  PROVE  /\ Joined(q, f) \in Facts
         /\ f # NoFact => Joined(q, f) # NoFact
         /\ q # NoFact => Joined(q, f) # NoFact
         /\ q = NoFact => Joined(q, f) = f
         /\ \A h : Own(h, Joined(q, f)) => q = NoFact /\ Own(h, f)
  BY FactTypes DEF Joined

(* What the parts of a record change, and what they leave. *)
LEMMA WithoutPendingFields ==
  ASSUME NEW H \in HistoryType
  PROVE  /\ WithoutPending(H) \in HistoryType /\ ~HasPending(WithoutPending(H))
         /\ WithoutPending(H).past = H.past /\ WithoutPending(H).future = H.future
         /\ WithoutPending(H).baseline = H.baseline /\ WithoutPending(H).attached = H.attached
         /\ WithoutPending(H).calls = H.calls
  BY NoPatches DEF WithoutPending, HistoryType, HasPending

(* The table of attempts without one of them. *)
LEMMA FewerAttempts ==
  ASSUME NEW a \in AttemptTables, NEW n
  PROVE  [m \in DOMAIN a \ {n} |-> a[m]] \in AttemptTables
<1> DEFINE b == [m \in DOMAIN a \ {n} |-> a[m]]
<1>1. PICK N \in SUBSET Nat : a \in [N -> Attempts]
  BY DEF AttemptTables
<1>2. b \in [(N \ {n}) -> Attempts] /\ N \ {n} \in SUBSET Nat
  BY <1>1
<1>. QED  BY <1>2 DEF AttemptTables

(* What WithoutAttempt changes. *)
LEMMA WithoutAttemptFields ==
  ASSUME NEW H \in HistoryType, NEW n
  PROVE  /\ WithoutAttempt(H, n) \in HistoryType
         /\ WithoutAttempt(H, n) = [H EXCEPT !.attempts = [m \in DOMAIN H.attempts \ {n} |-> H.attempts[m]]]
<1>1. [m \in DOMAIN H.attempts \ {n} |-> H.attempts[m]] \in AttemptTables
  BY HistoryFields, FewerAttempts
<1>2. WithoutAttempt(H, n) = [H EXCEPT !.attempts = [m \in DOMAIN H.attempts \ {n} |-> H.attempts[m]]]
  BY DEF WithoutAttempt, HistoryType
<1> DEFINE a == [m \in DOMAIN H.attempts \ {n} |-> H.attempts[m]]
<1> HIDE DEF a
<1>3. [H EXCEPT !.attempts = a] \in HistoryType
  BY <1>1 DEF HistoryType, a
<1>. QED  BY <1>2, <1>3 DEF a

(* What reconcile() changes. *)
LEMMA CheckedFields ==
  ASSUME NEW H \in HistoryType, NEW n, NEW d \in States
  PROVE  /\ Checked(H, n, d) \in HistoryType
         /\ Checked(H, n, d) \in {H, [H EXCEPT !.baseline = d]}
         /\ H.baseline = d => Checked(H, n, d) = H
  BY DEF Checked, AgreeOn, HistoryType

(* A record of a replay of its own leaves the line, where the baseline is the state. *)
LEMMA OwnReplayFields ==
  ASSUME NEW H \in HistoryType, NEW n \in Nat, NEW d \in States
  PROVE  /\ OwnReplay(H, n, d) \in HistoryType
         /\ OwnReplay(H, n, d).attached = H.attached /\ OwnReplay(H, n, d).calls = H.calls
         /\ ~HasPending(OwnReplay(H, n, d))
         /\ OwnReplay(H, n, d).past = H.past /\ OwnReplay(H, n, d).future = H.future
         /\ H.baseline = d => OwnReplay(H, n, d).baseline = d
<1> DEFINE R == IF n \in DOMAIN H.attempts THEN WithoutAttempt(Checked(H, n, d), n)
                ELSE [H EXCEPT !.baseline = d]
           O == [R EXCEPT !.owner = IF R.owner = n THEN 0 ELSE R.owner]
<1>1. /\ R \in HistoryType /\ R.attached = H.attached /\ R.past = H.past /\ R.future = H.future
      /\ R.calls = H.calls
      /\ H.baseline = d => R.baseline = d
  <2>1. CASE n \in DOMAIN H.attempts
    <3> DEFINE C == Checked(H, n, d)
    <3>1. /\ C \in HistoryType /\ C.attached = H.attached /\ C.past = H.past /\ C.future = H.future
          /\ C.calls = H.calls
          /\ H.baseline = d => C.baseline = d
      <4>1. C \in HistoryType /\ (C = H \/ C = [H EXCEPT !.baseline = d]) /\ (H.baseline = d => C = H)
        BY CheckedFields
      <4> HIDE DEF C
      <4>2. CASE C = H
        BY <4>2, <4>1
      <4>3. CASE C = [H EXCEPT !.baseline = d]
        BY <4>1, <4>3 DEF HistoryType
      <4>. QED  BY <4>1, <4>2, <4>3
    <3>2. R = WithoutAttempt(C, n)
      BY <2>1
    <3> HIDE DEF C, R
    <3>3. R \in HistoryType
      BY <3>1, <3>2, WithoutAttemptFields
    <3>4. /\ R.attached = C.attached /\ R.past = C.past /\ R.future = C.future /\ R.calls = C.calls
          /\ R.baseline = C.baseline
      BY <3>1, <3>2 DEF WithoutAttempt, HistoryType
    <3>. QED  BY <3>1, <3>3, <3>4
  <2>2. CASE n \notin DOMAIN H.attempts
    BY <2>2 DEF HistoryType
  <2>. QED  BY <2>1, <2>2
<1>2. OwnReplay(H, n, d) = WithoutPending(O)
  <2> DEFINE owner == IF R.owner = n THEN 0 ELSE R.owner
  <2>1. OwnReplay(H, n, d) = WithoutPending([R EXCEPT !.owner = owner])
    BY DEF OwnReplay
  <2>. QED  BY <2>1
<1> HIDE DEF R
<1>3. /\ O \in HistoryType /\ O.attached = R.attached /\ O.past = R.past /\ O.future = R.future
      /\ O.calls = R.calls /\ O.baseline = R.baseline
  BY <1>1 DEF HistoryType
<1> HIDE DEF O
<1>. QED  BY <1>1, <1>2, <1>3, WithoutPendingFields

(* A replay that is pending ends: H is otherwise what it was, but perhaps for
   the baseline. *)
LEMMA InterruptedFields ==
  ASSUME NEW H \in HistoryType, NEW fact, NEW d \in States
  PROVE  LET I == Interrupted(H, fact, d)
         IN  /\ I \in HistoryType /\ I.attached = H.attached /\ I.calls = H.calls
             /\ I.past = H.past /\ I.future = H.future /\ I.patches = H.patches
             /\ \/ I.baseline = H.baseline
                \/ /\ I.baseline = d /\ AttemptOf(H) /\ ~H.attempts[H.owner].started
                   /\ ~AgreeOn(H.attempts[H.owner].places, H.baseline, d)
             /\ I.opaque = (H.opaque \/ (H.owner # 0 /\ fact # NoFact))
<1> DEFINE n == H.owner
           C == IF AttemptOf(H) /\ ~H.attempts[n].started THEN Checked(H, n, d) ELSE H
           W == WithoutAttempt(C, n)
           I == Interrupted(H, fact, d)
<1>1. CASE H.owner = 0
  <2>1. I = H
    BY <1>1 DEF Interrupted
  <2> HIDE DEF I
  <2>2. I.opaque = (H.opaque \/ (H.owner # 0 /\ fact # NoFact))
    BY <1>1, <2>1, HistoryFields
  <2>. QED  BY <2>1, <2>2 DEF I
<1>2. CASE H.owner # 0
  <2>1. /\ C \in HistoryType /\ C.attached = H.attached /\ C.calls = H.calls
        /\ C.past = H.past /\ C.future = H.future /\ C.patches = H.patches /\ C.opaque = H.opaque
        /\ \/ C.baseline = H.baseline
           \/ /\ C.baseline = d /\ AttemptOf(H) /\ ~H.attempts[H.owner].started
              /\ ~AgreeOn(H.attempts[H.owner].places, H.baseline, d)
    <3>1. CASE AttemptOf(H) /\ ~H.attempts[n].started /\ ~AgreeOn(H.attempts[n].places, H.baseline, d)
      <4>1. C = [H EXCEPT !.baseline = d]
        BY <3>1 DEF Checked
      <4> HIDE DEF C
      <4>. QED  BY <3>1, <4>1 DEF HistoryType
    <3>2. CASE ~(AttemptOf(H) /\ ~H.attempts[n].started /\ ~AgreeOn(H.attempts[n].places, H.baseline, d))
      <4>1. C = H
        BY <3>2 DEF Checked
      <4> HIDE DEF C
      <4>. QED  BY <4>1
    <3>. QED  BY <3>1, <3>2
  <2>2. I = [W EXCEPT !.owner = 0, !.opaque = W.opaque \/ fact # NoFact]
    <3>1. I = LET w == W IN [w EXCEPT !.owner = 0, !.opaque = @ \/ fact # NoFact]
      BY <1>2 DEF Interrupted
    <3>. QED  BY <3>1
  <2> HIDE DEF C, I
  <2>3. /\ W \in HistoryType /\ W.attached = C.attached /\ W.calls = C.calls
        /\ W.past = C.past /\ W.future = C.future /\ W.patches = C.patches /\ W.opaque = C.opaque
        /\ W.baseline = C.baseline
    <3>1. W \in HistoryType
      BY <2>1, WithoutAttemptFields
    <3>. QED  BY <2>1, <3>1 DEF WithoutAttempt, HistoryType
  <2> HIDE DEF W
  <2>4. /\ I \in HistoryType /\ I.attached = W.attached /\ I.calls = W.calls
        /\ I.past = W.past /\ I.future = W.future /\ I.patches = W.patches
        /\ I.baseline = W.baseline /\ I.opaque = (W.opaque \/ fact # NoFact)
    <3>1. (W.opaque \/ fact # NoFact) \in BOOLEAN
      OBVIOUS
    <3>. QED  BY <2>2, <2>3, <3>1 DEF HistoryType
  <2>5. I.opaque = (H.opaque \/ (H.owner # 0 /\ fact # NoFact))
    BY <1>2, <2>1, <2>3, <2>4
  <2>. QED  BY <2>1, <2>3, <2>4, <2>5 DEF I
<1>. QED  BY <1>1, <1>2

(* Filing an entry. *)
LEMMA FiledFields ==
  ASSUME NEW H \in HistoryType, NEW e \in Entries, NEW s \in States
  PROVE  LET K == Filed(H, e, s)
         IN  /\ K \in HistoryType /\ K.attached = H.attached /\ K.calls = H.calls /\ ~HasPending(K)
             /\ K.past = IF Len(Append(H.past, e)) > Limit THEN Tail(Append(H.past, e)) ELSE Append(H.past, e)
             /\ K.future = <<>> /\ K.baseline = s
<1> DEFINE past == Append(H.past, e)
           cut == IF Len(past) > Limit THEN Tail(past) ELSE past
           K == [H EXCEPT !.past = cut, !.future = <<>>, !.baseline = s]
<1>1. cut \in Seq(Entries)
  <2>1. past \in Seq(Entries) /\ past # <<>>
    BY HistoryFields, AppendProperties
  <2> HIDE DEF past
  <2>2. Tail(past) \in Seq(Entries)
    BY <2>1
  <2>. QED  BY <2>1, <2>2
<1>2. <<>> \in Seq(Entries)
  OBVIOUS
<1>3. Filed(H, e, s) = WithoutPending(K)
  BY DEF Filed
<1> HIDE DEF cut
<1>4. K \in HistoryType /\ K.attached = H.attached /\ K.calls = H.calls
      /\ K.past = cut /\ K.future = <<>> /\ K.baseline = s
  BY <1>1, <1>2 DEF HistoryType
<1> HIDE DEF K
<1>. QED  BY <1>3, <1>4, WithoutPendingFields DEF cut, past

-----------------------------------------------------------------------------
(***************************************************************************)
(* record(): it settles the history and commits at most one state.         *)
(***************************************************************************)

(* A commit leaves nothing pending. *)
LEMMA CommitsFields ==
  ASSUME NEW H \in HistoryType, NEW fact, NEW d \in States
  PROVE  /\ Commits(H, fact, d) \in HistoryType /\ ~HasPending(Commits(H, fact, d))
         /\ Commits(H, fact, d).attached = H.attached /\ Commits(H, fact, d).calls = H.calls
<1> DEFINE snapshot == [kind |-> "snapshot", before |-> H.baseline, after |-> d, patches |-> <<>>]
           patches == [kind |-> "patches", before |-> <<>>, after |-> <<>>, patches |-> H.patches]
<1>1. snapshot \in Entries /\ patches \in Entries
  BY HistoryFields DEF Entries
<1>2. Patched(H.baseline, H.patches) \in States
  BY HistoryFields, PatchedType
<1>3. Commits(H, fact, d) \in {WithoutPending(H), Filed(H, snapshot, d),
                               Filed(H, patches, Patched(H.baseline, H.patches))}
  BY DEF Commits
<1> HIDE DEF snapshot, patches
<1>. QED  BY <1>1, <1>2, <1>3, WithoutPendingFields, FiledFields

(* record() leaves nothing pending. *)
LEMMA RecordsFields ==
  ASSUME NEW h, NEW H \in HistoryType, NEW fact \in Facts, NEW d \in States
  PROVE  /\ Records(h, H, fact, d) \in HistoryType /\ ~HasPending(Records(h, H, fact, d))
         /\ Records(h, H, fact, d).attached = H.attached /\ Records(h, H, fact, d).calls = H.calls
<1>2. CASE Own(h, fact)
  <2>1. Records(h, H, fact, d) = OwnReplay(H, fact.call, d)
    BY <1>2 DEF Records, Own
  <2>2. fact.call \in Nat
    BY DEF Facts
  <2>. QED  BY <2>1, <2>2, OwnReplayFields
<1>3. CASE ~Own(h, fact)
  <2> DEFINE I == Interrupted(H, fact, d)
  <2>1. Records(h, H, fact, d) = Commits(I, fact, d)
    BY <1>3 DEF Records, Own
  <2>2. I \in HistoryType /\ I.attached = H.attached /\ I.calls = H.calls
    BY InterruptedFields
  <2> HIDE DEF I
  <2>. QED  BY <2>1, <2>2, CommitsFields
<1>. QED  BY <1>2, <1>3

(* A sequence of one patch. *)
LEMMA OnePatch ==
  ASSUME NEW ps \in Patches, Len(ps) = 1
  PROVE  ps[1] \in PatchType /\ ps[1].place \in Places /\ ps = <<ps[1]>> /\ DOMAIN ps = {1}
<1>1. ps \in Seq(PatchType) /\ DOMAIN ps = 1..1 /\ 1 \in 1..1
  BY DEF Patches
<1>2. ps[1] \in PatchType
  BY <1>1
<1>3. ps[1].place \in Places
  BY <1>2 DEF PatchType
<1>4. <<ps[1]>> \in Seq(PatchType) /\ Len(<<ps[1]>>) = 1 /\ <<ps[1]>>[1] = ps[1]
  BY <1>2
<1>5. ps = <<ps[1]>>
  BY <1>1, <1>4, SeqEqual
<1>. QED  BY <1>1, <1>2, <1>3, <1>5

(* Commits on a line: where the pending patches lead to the state, what is
   filed is the state, and it is filed exactly if it is another one. *)
LEMMA CommitsLine ==
  ASSUME NEW H \in HistoryType, NEW fact, NEW d \in States, Lined(H), Changing(H.patches),
         ~NeedsSnapshot(H, fact) => LeadsTo(H.patches, H.baseline, d)
  PROVE  LET K == Commits(H, fact, d)
         IN  Settles(K, d) /\ Lined(K) /\ Keeps(H, K, d)
<1> DEFINE K == Commits(H, fact, d)
           W == WithoutPending(H)
           snapshot == [kind |-> "snapshot", before |-> H.baseline, after |-> d, patches |-> <<>>]
           patches == [kind |-> "patches", before |-> <<>>, after |-> <<>>, patches |-> H.patches]
<1>1. W \in HistoryType /\ ~HasPending(W) /\ W.baseline = H.baseline /\ Lined(W) /\ SameLine(H, W)
  BY WithoutPendingFields, SameFieldsLine
<1>2. ASSUME NEW e \in Entries, Leads(e, H.baseline, d), H.baseline # d, K = Filed(H, e, d)
      PROVE  Settles(K, d) /\ Lined(K) /\ Keeps(H, K, d)
  <2> HIDE DEF K
  <2>1. /\ K \in HistoryType /\ ~HasPending(K)
        /\ K.past = IF Len(Append(H.past, e)) > Limit THEN Tail(Append(H.past, e)) ELSE Append(H.past, e)
        /\ K.future = <<>> /\ K.baseline = d
    BY <1>2, FiledFields
  <2>2. Lined(K) /\ StepsOf(K) = Extended(StepsOf(H), Len(H.past) + 1, d)
    BY <1>2, <2>1, FiledLine
  <2>. QED  BY <1>2, <2>1, <2>2 DEF Settles, Keeps, Files
<1>3. CASE NeedsSnapshot(H, fact)
  <2>1. CASE H.baseline = d
    <3>1. K = W
      BY <1>3, <2>1 DEF Commits
    <3> HIDE DEF K, W
    <3>. QED  BY <1>1, <2>1, <3>1 DEF Settles, Keeps, K
  <2>2. CASE H.baseline # d
    <3>1. K = Filed(H, snapshot, d)
      BY <1>3, <2>2 DEF Commits
    <3>2. snapshot \in Entries
      BY HistoryFields DEF Entries
    <3>3. Leads(snapshot, H.baseline, d)
      BY DEF Leads, Beyond
    <3> HIDE DEF K, snapshot
    <3>4. Settles(K, d) /\ Lined(K) /\ Keeps(H, K, d)
      BY <1>2, <2>2, <3>1, <3>2, <3>3
    <3>. QED  BY <3>4 DEF K
  <2>. QED  BY <2>1, <2>2
<1>4. CASE ~NeedsSnapshot(H, fact)
  <2>0. LeadsTo(H.patches, H.baseline, d)
    BY <1>4
  <2>1. /\ H.patches \in Patches /\ H.baseline \in States /\ Patched(H.baseline, H.patches) = d
        /\ Len(H.patches) \in Nat /\ Len(H.patches) # 0
    <3>1. H.patches \in Patches /\ H.baseline \in States
      BY HistoryFields
    <3>2. H.patches # <<>>
      BY <1>4 DEF NeedsSnapshot, HasPending
    <3>. QED  BY <2>0, <3>1, <3>2 DEF LeadsTo, Patches
  <2>2. CASE Cancelled(H, fact, d)
    <3>1. K = W
      BY <1>4, <2>2 DEF Commits
    <3>2. H.baseline = d
      BY <2>1, <2>2, AgreeingEnds DEF Cancelled
    <3> HIDE DEF K, W
    <3>. QED  BY <1>1, <3>1, <3>2 DEF Settles, Keeps, K
  <2>3. CASE ~Cancelled(H, fact, d)
    <3>1. K = Filed(H, patches, d)
      BY <1>4, <2>1, <2>3 DEF Commits
    <3>2. patches \in Entries
      BY <2>1 DEF Entries
    <3>3. Leads(patches, H.baseline, d)
      BY <2>0 DEF Leads, Beyond, Directed, LeadsTo
    <3>4. H.baseline # d
      <4> SUFFICES ASSUME H.baseline = d PROVE FALSE
        OBVIOUS
      <4>1. ~(Len(H.patches) >= 2)
        BY <2>3 DEF Cancelled, AgreeOn
      <4>2. Len(H.patches) = 1
        <5> DEFINE l == Len(H.patches)
        <5>1. l \in Nat /\ l # 0 /\ ~(l >= 2)
          BY <2>1, <4>1
        <5> HIDE DEF l
        <5>2. l = 1
          BY <5>1
        <5>. QED  BY <5>2 DEF l
      <4> DEFINE w == H.patches[1]
      <4>3. w \in PatchType /\ w.place \in Places /\ H.patches = <<w>> /\ DOMAIN H.patches = {1}
        BY <2>1, <4>2, OnePatch
      <4>4. w.previous # w.next
        BY <4>3 DEF Changing
      <4>5. Inverted(H.patches) = <<[place |-> w.place, previous |-> w.next, next |-> w.previous]>>
        BY <4>2, <4>3 DEF Inverted
      <4>6. [place |-> w.place, previous |-> w.next, next |-> w.previous] \in PatchType
        BY <4>3 DEF PatchType
      <4> DEFINE v == [place |-> w.place, previous |-> w.next, next |-> w.previous]
      <4> HIDE DEF w
      <4>7. d = [d EXCEPT ![w.place] = w.next]
        BY <2>1, <4>3, SingleInstalled
      <4>8. d = [d EXCEPT ![w.place] = w.previous]
        <5>1. Patched(d, <<v>>) = d
          BY <2>0, <4>5 DEF LeadsTo
        <5>2. v.place = w.place /\ v.next = w.previous
          OBVIOUS
        <5> HIDE DEF v
        <5>3. v \in PatchType
          BY <4>6 DEF v
        <5>. QED  BY <5>1, <5>2, <5>3, SingleInstalled
      <4>9. d[w.place] = w.next /\ d[w.place] = w.previous
        BY <4>3, <4>7, <4>8 DEF States
      <4>. QED  BY <4>4, <4>9
    <3> HIDE DEF K, patches
    <3>5. Settles(K, d) /\ Lined(K) /\ Keeps(H, K, d)
      BY <1>2, <3>1, <3>2, <3>3, <3>4
    <3>. QED  BY <3>5 DEF K
  <2>. QED  BY <2>2, <2>3
<1>. QED  BY <1>3, <1>4

(* record() settles a history that mirrors the state, and the line gets the
   state if it is not that of the cursor. *)
LEMMA RecordsLine ==
  ASSUME NEW h \in Histories, NEW H \in HistoryType, NEW fact \in Facts, NEW d \in States, NEW c,
         Lined(H), Mirrors(h, H, d, c), Own(h, fact) => H.baseline = d
  PROVE  LET K == Records(h, H, fact, d)
         IN  /\ K \in HistoryType /\ K.attached = H.attached /\ K.calls = H.calls
             /\ Settles(K, d) /\ Lined(K) /\ Keeps(H, K, d)
<1> DEFINE K == Records(h, H, fact, d)
<1>1. K \in HistoryType /\ K.attached = H.attached /\ K.calls = H.calls
  BY RecordsFields
<1>2. CASE Own(h, fact)
  <2>1. K = OwnReplay(H, fact.call, d)
    BY <1>2 DEF Records, Own
  <2>2. fact.call \in Nat
    BY DEF Facts
  <2> HIDE DEF K
  <2>3. ~HasPending(K) /\ K.past = H.past /\ K.future = H.future /\ K.baseline = d /\ H.baseline = d
    BY <1>2, <2>1, <2>2, OwnReplayFields
  <2>4. Lined(K) /\ SameLine(H, K)
    BY <1>1, <2>3, SameFieldsLine
  <2>. QED  BY <1>1, <2>3, <2>4 DEF Settles, Keeps, K
<1>3. CASE ~Own(h, fact)
  <2> DEFINE I == Interrupted(H, fact, d)
  <2>1. K = Commits(I, fact, d)
    BY <1>3 DEF Records, Own
  <2>2. /\ I \in HistoryType /\ I.past = H.past /\ I.future = H.future /\ I.patches = H.patches
        /\ I.opaque = (H.opaque \/ (H.owner # 0 /\ fact # NoFact))
        /\ I.baseline = H.baseline
    BY InterruptedFields DEF Mirrors
  <2> HIDE DEF I, K
  <2>3. Lined(I) /\ SameLine(H, I)
    BY <2>2, SameFieldsLine
  <2>4. ~NeedsSnapshot(I, fact) => LeadsTo(I.patches, I.baseline, d)
    <3> SUFFICES ASSUME ~NeedsSnapshot(I, fact) PROVE LeadsTo(I.patches, I.baseline, d)
      OBVIOUS
    <3>1. ~I.opaque /\ I.patches # <<>>
      BY DEF NeedsSnapshot, HasPending
    <3>2. ~AttemptOf(H)
      BY <2>2, <3>1 DEF Mirrors, HasPending
    <3>. QED  BY <2>2, <3>1, <3>2 DEF Mirrors
  <2>5. Changing(I.patches)
    BY <2>2 DEF Mirrors
  <2>6. Settles(K, d) /\ Lined(K) /\ Keeps(I, K, d)
    BY <2>1, <2>2, <2>3, <2>4, <2>5, CommitsLine
  <2>7. Keeps(H, K, d)
    BY <2>2, <2>3, <2>6 DEF Keeps, SameLine, Files
  <2>. QED  BY <1>1, <2>6, <2>7 DEF K
<1>. QED  BY <1>2, <1>3

-----------------------------------------------------------------------------
(***************************************************************************)
(* onPatch(): the mirror follows the writes.                               *)
(***************************************************************************)

(* Patches that change something, after others that do. *)
LEMMA ChangingConcat ==
  ASSUME NEW a \in Patches, NEW b \in Patches, Changing(a), Changing(b)
  PROVE  a \o b \in Patches /\ Changing(a \o b)
<1>1. /\ a \in Seq(PatchType) /\ b \in Seq(PatchType) /\ Len(a) \in Nat /\ Len(b) \in Nat
      /\ DOMAIN a = 1..Len(a) /\ DOMAIN b = 1..Len(b)
  BY DEF Patches
<1>2. /\ a \o b \in Seq(PatchType) /\ Len(a \o b) = Len(a) + Len(b) /\ DOMAIN (a \o b) = 1..Len(a \o b)
      /\ \A i \in 1..(Len(a) + Len(b)) : (a \o b)[i] = IF i <= Len(a) THEN a[i] ELSE b[i - Len(a)]
  BY <1>1, ConcatProperties
<1>3. ASSUME NEW i \in 1..(Len(a) + Len(b)) PROVE (a \o b)[i].previous # (a \o b)[i].next
  <2>1. CASE i <= Len(a)
    <3>1. i \in 1..Len(a)
      BY <1>1, <2>1
    <3>. QED  BY <2>1, <3>1, <1>1, <1>2 DEF Changing
  <2>2. CASE ~(i <= Len(a))
    <3>1. i - Len(a) \in 1..Len(b)
      BY <1>1, <2>2
    <3>. QED  BY <2>2, <3>1, <1>1, <1>2 DEF Changing
  <2>. QED  BY <2>1, <2>2
<1>. QED  BY <1>2, <1>3 DEF Patches, Changing

(* An attempt that is marked as started. *)
LEMMA StartedAttempts ==
  ASSUME NEW a \in AttemptTables, NEW n \in DOMAIN a, NEW b \in BOOLEAN
  PROVE  /\ [a EXCEPT ![n].started = b] \in AttemptTables
         /\ DOMAIN [a EXCEPT ![n].started = b] = DOMAIN a
         /\ [a EXCEPT ![n].started = b][n].started = b
         /\ [a EXCEPT ![n].started = b][n].places = a[n].places
         /\ b = a[n].started => [a EXCEPT ![n].started = b] = a
<1>1. PICK N \in SUBSET Nat : a \in [N -> Attempts]
  BY DEF AttemptTables
<1>2. n \in N /\ a[n] \in Attempts
  BY <1>1
<1> DEFINE r == [a[n] EXCEPT !.started = b]
           c == [a EXCEPT ![n] = r]
<1>3. r \in Attempts /\ r.started = b /\ r.places = a[n].places /\ (b = a[n].started => r = a[n])
  BY <1>2 DEF Attempts
<1>4. [a EXCEPT ![n].started = b] = c
  OBVIOUS
<1> HIDE DEF r
<1>5. c \in [N -> Attempts] /\ DOMAIN c = DOMAIN a /\ c[n] = r /\ (r = a[n] => c = a)
  BY <1>1, <1>2, <1>3
<1>6. c \in AttemptTables
  BY <1>5 DEF AttemptTables
<1>. QED  BY <1>3, <1>4, <1>5, <1>6

(* onPatch() leaves the line of the history. *)
LEMMA CollectsFields ==
  ASSUME NEW H \in HistoryType, NEW ps \in Patches
  PROVE  LET K == Collects(H, ps)
         IN  /\ K \in HistoryType /\ K.attached = H.attached /\ K.calls = H.calls
             /\ K.past = H.past /\ K.future = H.future /\ K.baseline = H.baseline
             /\ K.owner = H.owner /\ K.opaque = H.opaque
<1> DEFINE K == Collects(H, ps)
           n == H.owner
           started == H.attempts[n].started \/ ps # <<>>
           a == [H.attempts EXCEPT ![n].started = started]
<1>1. CASE AttemptOf(H)
  <2>1. K = [H EXCEPT !.attempts = a]
    <3>1. K = [H EXCEPT !.attempts[H.owner].started = @ \/ ps # <<>>]
      BY <1>1 DEF Collects
    <3>. QED  BY <3>1
  <2>2. n \in DOMAIN H.attempts /\ H.attempts \in AttemptTables /\ started \in BOOLEAN
    BY <1>1, HistoryFields DEF AttemptOf
  <2> HIDE DEF started
  <2>3. a \in AttemptTables
    BY <2>2, StartedAttempts
  <2> HIDE DEF a, K
  <2>4. /\ K \in HistoryType /\ K.attached = H.attached /\ K.calls = H.calls
        /\ K.past = H.past /\ K.future = H.future /\ K.baseline = H.baseline
        /\ K.owner = H.owner /\ K.opaque = H.opaque
    BY <2>1, <2>3 DEF HistoryType
  <2>. QED  BY <2>4 DEF K
<1>2. CASE ~AttemptOf(H) /\ H.opaque
  <2>1. K = H
    BY <1>2 DEF Collects
  <2> HIDE DEF K
  <2>. QED  BY <2>1 DEF K
<1>3. CASE ~AttemptOf(H) /\ ~H.opaque
  <2> DEFINE qs == H.patches \o ps
  <2>1. K = [H EXCEPT !.patches = qs]
    BY <1>3 DEF Collects
  <2>2. qs \in Patches
    BY HistoryFields DEF Patches
  <2> HIDE DEF K, qs
  <2>3. /\ K \in HistoryType /\ K.attached = H.attached /\ K.calls = H.calls
        /\ K.past = H.past /\ K.future = H.future /\ K.baseline = H.baseline
        /\ K.owner = H.owner /\ K.opaque = H.opaque
    BY <2>1, <2>2 DEF HistoryType
  <2>. QED  BY <2>3 DEF K
<1>. QED  BY <1>1, <1>2, <1>3

(* The mirror follows the writes it hears of, while a publication of them that
   is not its own is on its way. *)
LEMMA CollectsMirrors ==
  ASSUME NEW h \in Histories, NEW H \in HistoryType, NEW ps \in Patches, NEW d \in States, NEW t \in States,
         NEW c, Mirrors(h, H, d, c), Changing(ps), LeadsTo(ps, d, t),
         NEW c2, c2 # NoFact, ~Own(h, c2)
  PROVE  Mirrors(h, Collects(H, ps), t, c2)
<1> DEFINE K == Collects(H, ps)
           n == H.owner
           started == H.attempts[n].started \/ ps # <<>>
           a == [H.attempts EXCEPT ![n].started = started]
<1>1. CASE AttemptOf(H)
  <2>1. K = [H EXCEPT !.attempts = a]
    <3>1. K = [H EXCEPT !.attempts[H.owner].started = @ \/ ps # <<>>]
      BY <1>1 DEF Collects
    <3>. QED  BY <3>1
  <2>2. n \in DOMAIN H.attempts /\ H.attempts \in AttemptTables /\ started \in BOOLEAN
    BY <1>1, HistoryFields DEF AttemptOf
  <2>3. started \/ ps = <<>>
    OBVIOUS
  <2>4. ~started => ~H.attempts[n].started
    OBVIOUS
  <2> HIDE DEF started
  <2>5. /\ a \in AttemptTables /\ DOMAIN a = DOMAIN H.attempts
        /\ a[n].started = started /\ a[n].places = H.attempts[n].places
    BY <2>2, StartedAttempts
  <2> HIDE DEF a, K
  <2>6. /\ K.attempts = a /\ K.owner = n /\ K.patches = H.patches /\ K.opaque = H.opaque
        /\ K.baseline = H.baseline
    BY <2>1, <2>5 DEF HistoryType
  <2>7. ~HasPending(H) /\ (H.attempts[n].started \/ AgreeOn(H.attempts[n].places, H.baseline, d))
    BY <1>1 DEF Mirrors
  <2>8. ~started => t = d
    <3>1. ~started => ps = <<>>
      BY <2>3
    <3>. QED  BY <3>1, PatchedEmpty DEF LeadsTo
  <2>9. AttemptOf(K) /\ ~HasPending(K) /\ Changing(K.patches)
    BY <1>1, <2>5, <2>6, <2>7 DEF AttemptOf, HasPending, Mirrors
  <2>10. a[n].started \/ AgreeOn(a[n].places, K.baseline, t)
    BY <2>4, <2>5, <2>6, <2>7, <2>8
  <2>. QED  BY <2>6, <2>9, <2>10 DEF Mirrors, K
<1>2. CASE ~AttemptOf(H) /\ H.opaque
  <2>1. K = H
    BY <1>2 DEF Collects
  <2> HIDE DEF K
  <2>. QED  BY <1>2, <2>1 DEF K, Mirrors
<1>3. CASE ~AttemptOf(H) /\ ~H.opaque
  <2> DEFINE qs == H.patches \o ps
  <2>1. K = [H EXCEPT !.patches = qs]
    BY <1>3 DEF Collects
  <2>2. H.patches \in Patches /\ H.baseline \in States /\ Changing(H.patches) /\ LeadsTo(H.patches, H.baseline, d)
    BY <1>3, HistoryFields DEF Mirrors
  <2>3. Changing(qs) /\ LeadsTo(qs, H.baseline, t)
    BY <2>2, ChangingConcat, LeadsToConcat
  <2> HIDE DEF K, qs
  <2>4. /\ K.attempts = H.attempts /\ K.owner = n /\ K.patches = qs /\ K.opaque = H.opaque
        /\ K.baseline = H.baseline
    BY <2>1 DEF HistoryType
  <2>5. ~AttemptOf(K) /\ ~K.opaque
    BY <1>3, <2>4 DEF AttemptOf
  <2>. QED  BY <2>3, <2>4, <2>5 DEF Mirrors, K
<1>. QED  BY <1>1, <1>2, <1>3

(* To hear of no patches changes nothing. *)
LEMMA CollectsNothing ==
  ASSUME NEW H \in HistoryType
  PROVE  Collects(H, <<>>) = H
<1> DEFINE K == Collects(H, <<>>)
           n == H.owner
<1>1. CASE AttemptOf(H)
  <2> DEFINE b == H.attempts[n].started \/ <<>> # <<>>
             a == [H.attempts EXCEPT ![n].started = b]
  <2>1. K = [H EXCEPT !.attempts = a]
    <3>1. K = [H EXCEPT !.attempts[H.owner].started = @ \/ <<>> # <<>>]
      BY <1>1 DEF Collects
    <3>. QED  BY <3>1
  <2>2. n \in DOMAIN H.attempts /\ H.attempts \in AttemptTables /\ b \in BOOLEAN
    BY <1>1, HistoryFields DEF AttemptOf
  <2>3. b = H.attempts[n].started
    <3>1. PICK N \in SUBSET Nat : H.attempts \in [N -> Attempts]
      BY <2>2 DEF AttemptTables
    <3>2. H.attempts[n].started \in BOOLEAN
      BY <2>2, <3>1 DEF Attempts
    <3>. QED  BY <3>2
  <2> HIDE DEF b
  <2>4. a = H.attempts
    BY <2>2, <2>3, StartedAttempts
  <2> HIDE DEF a, K
  <2>5. K = H
    BY <2>1, <2>4 DEF HistoryType
  <2>. QED  BY <2>5 DEF K
<1>2. CASE ~AttemptOf(H) /\ H.opaque
  BY <1>2 DEF Collects
<1>3. CASE ~AttemptOf(H) /\ ~H.opaque
  <2> DEFINE qs == H.patches \o <<>>
  <2>1. K = [H EXCEPT !.patches = qs]
    BY <1>3 DEF Collects
  <2>2. qs = H.patches
    BY HistoryFields DEF Patches
  <2> HIDE DEF K, qs
  <2>3. K = H
    BY <2>1, <2>2 DEF HistoryType
  <2>. QED  BY <2>3 DEF K
<1>. QED  BY <1>1, <1>2, <1>3

(* A raw write makes what is pending opaque, but a replay that has not started
   does not hear of it. *)
LEMMA CollectsOpaqueFields ==
  ASSUME NEW H \in HistoryType
  PROVE  LET K == CollectsOpaque(H)
         IN  /\ K \in HistoryType /\ K.attached = H.attached /\ K.calls = H.calls
             /\ K.past = H.past /\ K.future = H.future /\ K.baseline = H.baseline
             /\ K.owner = H.owner /\ K.attempts = H.attempts
             /\ AttemptOf(H) => K = H
             /\ ~AttemptOf(H) => K.opaque /\ K.patches = <<>>
<1>1. CASE AttemptOf(H)
  BY <1>1 DEF CollectsOpaque
<1>2. CASE ~AttemptOf(H)
  BY <1>2, NoPatches DEF CollectsOpaque, HistoryType
<1>. QED  BY <1>1, <1>2

(* The mirror is opaque after a raw write, unless a replay that started took it. *)
LEMMA CollectsOpaqueMirrors ==
  ASSUME NEW h \in Histories, NEW H \in HistoryType, NEW d \in States, NEW t \in States,
         NEW c, Mirrors(h, H, d, c), AttemptOf(H) => H.attempts[H.owner].started,
         NEW c2, c2 # NoFact, ~Own(h, c2)
  PROVE  Mirrors(h, CollectsOpaque(H), t, c2)
<1> DEFINE K == CollectsOpaque(H)
<1>1. CASE AttemptOf(H)
  <2>1. K = H
    BY <1>1, CollectsOpaqueFields
  <2> HIDE DEF K
  <2>. QED  BY <1>1, <2>1 DEF Mirrors, K
<1>2. CASE ~AttemptOf(H)
  <2>1. /\ K.owner = H.owner /\ K.attempts = H.attempts /\ K.opaque /\ K.patches = <<>>
    BY <1>2, CollectsOpaqueFields
  <2> HIDE DEF K
  <2>2. ~AttemptOf(K)
    BY <1>2, <2>1 DEF AttemptOf
  <2>. QED  BY <2>1, <2>2, NoPatches DEF Mirrors, K
<1>. QED  BY <1>1, <1>2

(* Nothing differs from itself. *)
LEMMA DiffNothing ==
  ASSUME NEW s \in States
  PROVE  Diff(s, s) = <<>>
<1> DEFINE differ == {p \in Places : s[p] # s[p]}
<1>1. differ = {}
  OBVIOUS
<1>2. IsFiniteSet({}) /\ Cardinality({}) = 0
  BY FS_EmptySet
<1>3. DOMAIN SetToSeq({}) = 1..0
  BY <1>2, SetToSeqOnto
<1>4. Diff(s, s) = [i \in DOMAIN SetToSeq(differ) |-> Patch(SetToSeq(differ)[i], s, s[SetToSeq(differ)[i]])]
  BY DEF Diff
<1>5. DOMAIN SetToSeq(differ) = {}
  <2>1. 1..0 = {}
    OBVIOUS
  <2>. QED  BY <1>1, <1>3, <2>1
<1> HIDE DEF differ
<1>6. Diff(s, s) = [i \in {} |-> Patch(SetToSeq(differ)[i], s, s[SetToSeq(differ)[i]])]
  BY <1>4, <1>5
<1>. QED  BY <1>6

-----------------------------------------------------------------------------
(***************************************************************************)
(* The invariant, and what a publication does to it.                       *)
(***************************************************************************)

HistoryTypeOK ==
  /\ policy \in [deferring : BOOLEAN, overridden : BOOLEAN]
  /\ data \in States
  /\ publication \in Facts
  /\ transaction \in BOOLEAN /\ batched \in BOOLEAN
  /\ histories \in [Histories -> HistoryType]
  /\ queued \in [Histories -> Facts]
  /\ blurred \subseteq Histories

(* Where a fact may wait. *)
Waiting ==
  /\ publication # NoFact <=> batched
  /\ batched => transaction
  /\ \A h \in Histories : ~histories[h].attached \/ ~policy.deferring => queued[h] = NoFact

\* The fact that will reach the history h, as far as it is known.
Coming(h) == IF publication = NoFact THEN queued[h] ELSE Joined(queued[h], publication)

Mirroring ==
  \A h \in Histories \ blurred :
    /\ Lined(histories[h])
    /\ histories[h].attached => Mirrors(h, histories[h], data, Coming(h))

HistoryInv == HistoryTypeOK /\ Waiting /\ Mirroring

(* What undo() and redo() change of a history but the two stacks. *)
LEMMA MovedFields ==
  ASSUME NEW H \in HistoryType, NEW inverse \in BOOLEAN, Replayable(H, inverse) # <<>>
  PROVE  LET K == Moved(H, inverse)
         IN  /\ K \in HistoryType /\ K.attached = H.attached /\ K.baseline = H.baseline
             /\ K.patches = H.patches /\ K.opaque = H.opaque /\ K.owner = H.owner
             /\ K.attempts = H.attempts /\ K.calls = H.calls + 1
             /\ Last(Replayable(H, inverse)) \in Entries
<1> DEFINE e == Last(Replayable(H, inverse))
           q == Replayable(H, inverse)
<1>1. q \in Seq(Entries) /\ q # <<>>
  BY HistoryFields DEF Replayable
<1>2. e \in Entries /\ Front(q) \in Seq(Entries)
  <2> HIDE DEF q
  <2>1. Last(q) \in Entries /\ Front(q) \in Seq(Entries)
    BY <1>1 DEF Last, Front
  <2>. QED  BY <2>1 DEF q
<1>3. Append(H.past, e) \in Seq(Entries) /\ Append(H.future, e) \in Seq(Entries) /\ H.calls + 1 \in Nat
  <2> HIDE DEF e
  <2>. QED  BY <1>2, HistoryFields
<1>4. CASE inverse
  <2> DEFINE f == Append(H.future, e)
             p == Front(H.past)
  <2>1. Moved(H, inverse) = [H EXCEPT !.calls = H.calls + 1, !.past = p, !.future = f]
    BY <1>4 DEF Moved
  <2>2. p \in Seq(Entries) /\ f \in Seq(Entries)
    BY <1>2, <1>3, <1>4 DEF Replayable
  <2> HIDE DEF p, f
  <2>. QED  BY <1>2, <1>3, <2>1, <2>2 DEF HistoryType
<1>5. CASE ~inverse
  <2> DEFINE f == Front(H.future)
             p == Append(H.past, e)
  <2>1. Moved(H, inverse) = [H EXCEPT !.calls = H.calls + 1, !.past = p, !.future = f]
    BY <1>5 DEF Moved
  <2>2. p \in Seq(Entries) /\ f \in Seq(Entries)
    BY <1>2, <1>3, <1>5 DEF Replayable
  <2> HIDE DEF p, f
  <2>. QED  BY <1>2, <1>3, <2>1, <2>2 DEF HistoryType
<1>. QED  BY <1>4, <1>5

(* undo() and redo() begin with nothing collected. *)
LEMMA SettledFields ==
  ASSUME HistoryTypeOK, NEW h \in Histories
  PROVE  /\ Settled(h) \in HistoryType /\ ~HasPending(Settled(h))
         /\ Settled(h).attached = histories[h].attached /\ Settled(h).calls = histories[h].calls
<1>1. histories[h] \in HistoryType /\ data \in States
  BY DEF HistoryTypeOK
<1>. QED  BY <1>1, RecordsFields, FactTypes DEF Settled

(* What was collected has been committed to the line. *)
LEMMA SettledLine ==
  ASSUME HistoryInv, NEW h \in Histories \ blurred, histories[h].attached
  PROVE  /\ Lined(Settled(h)) /\ Keeps(histories[h], Settled(h), data)
         /\ Settled(h) = histories[h] \/ Settles(Settled(h), data)
         /\ \/ Settled(h).baseline = data
            \/ Coming(h) # NoFact /\ ~Own(h, Coming(h)) /\ AttemptOf(histories[h])
<1> DEFINE H == histories[h]
           G == Settled(h)
<1>1. H \in HistoryType /\ data \in States /\ h \in Histories /\ Lined(H) /\ Mirrors(h, H, data, Coming(h))
  BY DEF HistoryInv, HistoryTypeOK, Mirroring
<1>2. CASE HasPending(H)
  <2>1. G = Records(h, H, NoFact, data)
    BY <1>2 DEF Settled
  <2>2. Lined(G) /\ Keeps(H, G, data) /\ Settles(G, data)
    BY <1>1, <2>1, RecordsLine, FactTypes
  <2>. QED  BY <2>2 DEF Settles
<1>3. CASE ~HasPending(H)
  <2>1. G = H
    BY <1>3 DEF Settled
  <2>2. Keeps(H, H, data)
    BY DEF Keeps, SameLine
  <2>3. ~AttemptOf(H) => H.baseline = data
    <3>1. ~AttemptOf(H) => LeadsTo(<<>>, H.baseline, data)
      BY <1>1, <1>3 DEF Mirrors, HasPending
    <3>. QED  BY <1>1, <3>1, HistoryFields, PatchedEmpty DEF LeadsTo
  <2>. QED  BY <1>1, <2>1, <2>2, <2>3 DEF Mirrors, Settles
<1>. QED  BY <1>2, <1>3

(* What a publication of the state s, told to the histories H, leaves. *)
Published(H, s) ==
  \A h \in Histories \ blurred' :
    \/ histories'[h] = H[h]
    \/ /\ ~policy.deferring /\ ~transaction' /\ H[h].attached
       /\ Settles(histories'[h], s) /\ Keeps(H[h], histories'[h], s)

(* Notify() keeps the invariant, where the histories mirror what they are told. *)
LEMMA NotifyMirrors ==
  ASSUME HistoryTypeOK, Waiting,
         NEW H \in [Histories -> HistoryType], NEW s \in States, NEW fact \in Facts, fact # NoFact,
         \A h \in Histories : H[h].attached = histories[h].attached,
         blurred' \subseteq Histories,
         \A h \in Histories \ blurred' :
           Lined(H[h]) /\ (H[h].attached => Mirrors(h, H[h], s, Joined(queued[h], fact))),
         Notify(H, s, fact), data' = s, policy' = policy, transaction' = FALSE
  PROVE  HistoryInv' /\ Published(H, s)
<1>1. publication' = NoFact /\ batched' = FALSE /\ Attached(H) = {h \in Histories : H[h].attached}
  BY DEF Notify, Attached
<1>2. policy \in [deferring : BOOLEAN, overridden : BOOLEAN] /\ queued \in [Histories -> Facts]
  BY DEF HistoryTypeOK
<1>4. CASE policy.deferring
  <2>1. /\ queued' = [h \in Histories |-> IF h \in Attached(H) THEN Joined(queued[h], fact) ELSE queued[h]]
        /\ histories' = H
    BY <1>4 DEF Notify
  <2>2. queued' \in [Histories -> Facts]
    BY <1>2, <2>1, JoinedFacts
  <2>3. HistoryTypeOK'
    BY <1>1, <1>2, <2>1, <2>2, FactTypes DEF HistoryTypeOK
  <2>4. Waiting'
    BY <1>1, <1>4, <2>1 DEF Waiting
  <2>5. Mirroring'
    <3> SUFFICES ASSUME NEW h \in Histories \ blurred'
                 PROVE  /\ Lined(histories'[h])
                        /\ histories'[h].attached => Mirrors(h, histories'[h], data', Coming(h)')
      BY DEF Mirroring
    <3>1. H[h].attached => Coming(h)' = Joined(queued[h], fact)
      BY <1>1, <2>1 DEF Coming
    <3>. QED  BY <2>1, <3>1
  <2>. QED  BY <2>1, <2>3, <2>4, <2>5 DEF HistoryInv, Published
<1>5. CASE ~policy.deferring
  <2>1. /\ histories' = [h \in Histories |-> IF h \in Attached(H) THEN Records(h, H[h], fact, s) ELSE H[h]]
        /\ queued' = queued
    BY <1>5 DEF Notify
  <2>2. ASSUME NEW h \in Histories
        PROVE  histories'[h] \in HistoryType /\ histories'[h].attached = H[h].attached
    BY <2>1, RecordsFields
  <2>3. ASSUME NEW h \in Histories \ blurred'
        PROVE  /\ Lined(histories'[h])
               /\ H[h].attached => Settles(histories'[h], s) /\ Keeps(H[h], histories'[h], s)
               /\ ~H[h].attached => histories'[h] = H[h]
    <3>1. CASE H[h].attached
      <4>1. queued[h] = NoFact /\ Joined(queued[h], fact) = fact
        BY <1>2, <1>5, JoinedFacts DEF Waiting
      <4>2. Lined(H[h]) /\ Mirrors(h, H[h], s, fact) /\ H[h] \in HistoryType
        BY <3>1, <4>1
      <4>3. Own(h, fact) => H[h].baseline = s
        BY <4>2 DEF Mirrors
      <4>4. histories'[h] = Records(h, H[h], fact, s)
        BY <1>1, <2>1, <3>1
      <4>. QED  BY <3>1, <4>2, <4>3, <4>4, RecordsLine
    <3>2. CASE ~H[h].attached
      BY <1>1, <2>1, <3>2
    <3>. QED  BY <3>1, <3>2
  <2>4. histories' \in [Histories -> HistoryType]
    <3>1. histories' = [h \in Histories |-> histories'[h]]
      BY <2>1
    <3>. QED  BY <2>2, <3>1
  <2>5. HistoryTypeOK'
    BY <1>1, <1>2, <2>1, <2>4, FactTypes DEF HistoryTypeOK
  <2>6. Waiting'
    BY <1>1, <1>5, <2>1 DEF Waiting
  <2>7. Mirroring'
    <3> SUFFICES ASSUME NEW h \in Histories \ blurred'
                 PROVE  /\ Lined(histories'[h])
                        /\ histories'[h].attached => Mirrors(h, histories'[h], data', Coming(h)')
      BY DEF Mirroring
    <3>. QED  BY <2>2, <2>3, SettledMirrors
  <2>. QED  BY <1>5, <2>3, <2>5, <2>6, <2>7 DEF HistoryInv, Published
<1>. QED  BY <1>4, <1>5

(* emitUpdate() keeps the invariant, where the histories mirror what they are told. *)
LEMMA EmitMirrors ==
  ASSUME HistoryTypeOK, Waiting,
         NEW H \in [Histories -> HistoryType], NEW s \in States, NEW f \in Facts, f # NoFact,
         \A h \in Histories : H[h].attached = histories[h].attached,
         blurred' \subseteq Histories,
         \A h \in Histories \ blurred' :
           Lined(H[h]) /\ (H[h].attached => Mirrors(h, H[h], s, Joined(queued[h], Joined(publication, f)))),
         Emit(H, s, f), policy' = policy, transaction' = transaction
  PROVE  HistoryInv' /\ Published(H, s) /\ data' = s
<1>1. /\ publication \in Facts /\ queued \in [Histories -> Facts] /\ transaction \in BOOLEAN
      /\ policy \in [deferring : BOOLEAN, overridden : BOOLEAN]
  BY DEF HistoryTypeOK
<1> DEFINE fact == Joined(publication, f)
<1>2. fact \in Facts /\ fact # NoFact
  BY <1>1, JoinedFacts
<1>3. data' = s
  BY DEF Emit
<1>4. CASE transaction
  <2>1. publication' = fact /\ batched' = TRUE /\ histories' = H /\ queued' = queued
    BY <1>4 DEF Emit
  <2> HIDE DEF fact
  <2>2. HistoryTypeOK'
    BY <1>1, <1>2, <1>3, <2>1 DEF HistoryTypeOK
  <2>3. Waiting'
    BY <1>2, <1>4, <2>1 DEF Waiting
  <2>4. Mirroring'
    <3> SUFFICES ASSUME NEW h \in Histories \ blurred'
                 PROVE  /\ Lined(histories'[h])
                        /\ histories'[h].attached => Mirrors(h, histories'[h], data', Coming(h)')
      BY DEF Mirroring
    <3>1. Coming(h)' = Joined(queued[h], fact)
      BY <1>2, <2>1 DEF Coming
    <3>. QED  BY <1>3, <2>1, <3>1 DEF fact
  <2>. QED  BY <1>3, <2>1, <2>2, <2>3, <2>4 DEF HistoryInv, Published
<1>5. CASE ~transaction
  <2>1. Notify(H, s, fact) /\ transaction' = FALSE
    BY <1>1, <1>5 DEF Emit
  <2> HIDE DEF fact
  <2>2. \A h \in Histories \ blurred' :
           Lined(H[h]) /\ (H[h].attached => Mirrors(h, H[h], s, Joined(queued[h], fact)))
    BY DEF fact
  <2>. QED  BY <1>2, <1>3, <2>1, <2>2, NotifyMirrors
<1>. QED  BY <1>4, <1>5

(* A fact that reaches a history with the publication of writes is its own only
   if nothing else was on its way. *)
LEMMA EmittedFact ==
  ASSUME HistoryTypeOK, NEW f \in Facts, f # NoFact, NEW h \in Histories
  PROVE  LET c == Joined(queued[h], Joined(publication, f))
         IN  /\ c # NoFact
             /\ Own(h, c) => Own(h, f) /\ Coming(h) = NoFact
<1>1. publication \in Facts /\ queued[h] \in Facts
  BY DEF HistoryTypeOK
<1>2. Joined(publication, f) \in Facts /\ Joined(publication, f) # NoFact
  BY <1>1, JoinedFacts
<1>. QED  BY <1>1, <1>2, JoinedFacts DEF Coming

(* The histories that heard of the writes. *)
LEMMA ToldFields ==
  ASSUME HistoryTypeOK, NEW ps \in Patches
  PROVE  /\ Told(ps) \in [Histories -> HistoryType]
         /\ \A h \in Histories :
              /\ Told(ps)[h].attached = histories[h].attached
              /\ Told(ps)[h].past = histories[h].past /\ Told(ps)[h].future = histories[h].future
              /\ Told(ps)[h].baseline = histories[h].baseline
<1>1. histories \in [Histories -> HistoryType]
  BY DEF HistoryTypeOK
<1>. QED  BY <1>1, CollectsFields DEF Told

(* The histories mirror the state that the patches lead to. *)
LEMMA ToldMirrors ==
  ASSUME HistoryInv, NEW ps \in Patches, NEW t \in States, Changing(ps), LeadsTo(ps, data, t),
         NEW h \in Histories \ blurred
  PROVE  /\ Lined(Told(ps)[h]) /\ SameLine(histories[h], Told(ps)[h])
         /\ \A c : histories[h].attached /\ c # NoFact /\ ~Own(h, c) => Mirrors(h, Told(ps)[h], t, c)
<1>1. histories[h] \in HistoryType /\ data \in States /\ HistoryTypeOK /\ Lined(histories[h])
  BY DEF HistoryInv, HistoryTypeOK, Mirroring
<1>2. Lined(Told(ps)[h]) /\ SameLine(histories[h], Told(ps)[h])
  BY <1>1, ToldFields, SameFieldsLine
<1>3. ASSUME NEW c, histories[h].attached, c # NoFact, ~Own(h, c)
      PROVE  Mirrors(h, Told(ps)[h], t, c)
  <2>1. Told(ps)[h] = Collects(histories[h], ps)
    BY <1>3 DEF Told
  <2>2. Mirrors(h, histories[h], data, Coming(h))
    BY <1>3 DEF HistoryInv, Mirroring
  <2>. QED  BY <1>1, <1>3, <2>1, <2>2, CollectsMirrors
<1>. QED  BY <1>2, <1>3

-----------------------------------------------------------------------------
(***************************************************************************)
(* Steps of the lines.                                                     *)
(***************************************************************************)

\* What a step does to the line of h.
Advances(h) == UNCHANGED Line(h)!timelineVars \/ Line(h)!TimelineNext

(* The length of the line, and where the cursor is in it. *)
LEMMA LineLength ==
  ASSUME NEW H \in HistoryType, Lined(H)
  PROVE  /\ Len(H.past) \in Nat /\ Len(H.future) \in Nat
         /\ Len(StepsOf(H)) = Len(H.past) + 1 + Len(H.future)
         /\ H.baseline = StepsOf(H)[Len(H.past) + 1]
  BY HistoryFields DEF Lined, Threads

(* What is kept or filed from the same line. *)
LEMMA KeepsFrom ==
  ASSUME NEW H \in HistoryType, NEW G \in HistoryType, Lined(H), Lined(G), SameLine(H, G),
         NEW K, NEW s, Keeps(G, K, s)
  PROVE  Keeps(H, K, s)
<1>1. H.baseline = G.baseline
  BY LineLength DEF SameLine
<1>. QED  BY <1>1 DEF Keeps, SameLine, Files

(* To keep or to file is to stay or to commit. *)
LEMMA KeptAdvances ==
  ASSUME NEW h \in Histories, histories[h] \in HistoryType, Lined(histories[h]),
         histories'[h] \in HistoryType, Lined(histories'[h]),
         NEW s \in States, Keeps(histories[h], histories'[h], s)
  PROVE  Advances(h)
<1> DEFINE H == histories[h]
           K == histories'[h]
<1>1. CASE SameLine(H, K)
  <2>1. UNCHANGED Line(h)!timelineVars
    BY <1>1 DEF SameLine, Line!timelineVars
  <2>. QED  BY <2>1 DEF Advances
<1>2. CASE Files(H, K, s)
  <2>1. s # StepsOf(H)[Len(H.past) + 1]
    BY <1>2, LineLength DEF Files
  <2>2. Len(K.past) + 1 = Len(StepsOf(K))
    <3>1. Len(K.future) = 0
      BY <1>2 DEF Files
    <3>2. Len(StepsOf(K)) = Len(K.past) + 1 + 0 /\ Len(K.past) \in Nat
      BY <3>1, LineLength
    <3> HIDE DEF K
    <3>. QED  BY <3>2
  <2>3. StepsOf(K) = Extended(StepsOf(H), Len(H.past) + 1, s)
    BY <1>2 DEF Files
  <2>4. Line(h)!Commit(s)
    BY <2>1, <2>2, <2>3 DEF Line!Commit, Line!Differs, Line!Committed, Extended
  <2>. QED  BY <2>4 DEF Advances, Line!TimelineNext
<1>. QED  BY <1>1, <1>2 DEF Keeps

(* A replay moves the cursor, from the state that was committed first. *)
LEMMA MovedAdvances ==
  ASSUME NEW h \in Histories, histories[h] \in HistoryType, Lined(histories[h]),
         NEW G \in HistoryType, Lined(G), NEW s \in States, Keeps(histories[h], G, s),
         NEW inverse \in BOOLEAN, Replayable(G, inverse) # <<>>,
         StepsOf(histories'[h]) = StepsOf(G),
         Len(histories'[h].past) = IF inverse THEN Len(G.past) - 1 ELSE Len(G.past) + 1
  PROVE  Advances(h)
<1> DEFINE H == histories[h]
           K == histories'[h]
           n == Len(G.past)
           m == Len(G.future)
<1>1. n \in Nat /\ m \in Nat /\ Len(StepsOf(G)) = n + 1 + m
  BY LineLength
<1>2. inverse => n # 0
  BY HistoryFields DEF Replayable
<1>3. ~inverse => m # 0
  BY HistoryFields DEF Replayable
<1> HIDE DEF n, m
<1>4. CASE SameLine(H, G)
  <2>1. Len(H.past) = n /\ StepsOf(K) = StepsOf(H) /\ Len(StepsOf(H)) = n + 1 + m
    BY <1>1, <1>4 DEF SameLine, n
  <2>2. CASE inverse
    <3>1. Len(K.past) = n - 1
      BY <2>2 DEF n
    <3>2. n + 1 > 1 /\ n - 1 + 1 = n + 1 - 1
      BY <1>1, <1>2, <2>2
    <3>3. Line(h)!Undo
      BY <2>1, <3>1, <3>2 DEF Line!Undo
    <3>. QED  BY <3>3 DEF Advances, Line!TimelineNext
  <2>3. CASE ~inverse
    <3>1. Len(K.past) = n + 1
      BY <2>3 DEF n
    <3>2. n + 1 < n + 1 + m
      BY <1>1, <1>3, <2>3
    <3>3. Line(h)!Redo
      BY <2>1, <3>1, <3>2 DEF Line!Redo
    <3>. QED  BY <3>3 DEF Advances, Line!TimelineNext
  <2>. QED  BY <2>2, <2>3
<1>5. CASE Files(H, G, s)
  <2>1. m = 0 /\ inverse
    BY <1>3, <1>5 DEF Files, m
  <2>2. s # StepsOf(H)[Len(H.past) + 1]
    BY <1>5, LineLength DEF Files
  <2>3. StepsOf(K) = Extended(StepsOf(H), Len(H.past) + 1, s)
    BY <1>5 DEF Files
  <2>4. Len(K.past) + 1 = Len(StepsOf(K)) - 1
    <3> DEFINE a == Len(K.past)
               b == Len(StepsOf(K))
    <3>1. a = n - 1 /\ b = n + 1 + m /\ m = 0 /\ n \in Nat
      BY <1>1, <2>1 DEF n
    <3> HIDE DEF a, b
    <3>2. a + 1 = b - 1
      BY <3>1
    <3>. QED  BY <3>2 DEF a, b
  <2>5. Line(h)!CommitAndUndo(s)
    BY <2>2, <2>3, <2>4 DEF Line!CommitAndUndo, Line!Differs, Line!Committed, Extended
  <2>. QED  BY <2>5 DEF Advances, Line!TimelineNext
<1>. QED  BY <1>4, <1>5 DEF Keeps

(* To be cleared, or connected, is to start over. *)
LEMMA FreshAdvances ==
  ASSUME NEW h \in Histories, histories'[h] \in HistoryType,
         histories'[h].past = <<>>, histories'[h].future = <<>>
  PROVE  Lined(histories'[h]) /\ Advances(h)
<1> DEFINE K == histories'[h]
<1>1. Lined(K) /\ StepsOf(K) = <<K.baseline>> /\ K.baseline \in States
  BY FreshLine, HistoryFields
<1>2. Len(K.past) + 1 = 1
  OBVIOUS
<1>3. Line(h)!StartOver(K.baseline)
  BY <1>1, <1>2 DEF Line!StartOver
<1>. QED  BY <1>1, <1>3 DEF Advances, Line!TimelineNext

(* A publication told to histories H whose lines are those of before. *)
LEMMA PublishedAdvances ==
  ASSUME HistoryInv, HistoryInv', NEW H, NEW s \in States, Published(H, s),
         NEW h \in Histories \ blurred, h \notin blurred',
         H[h] \in HistoryType, Lined(H[h]), SameLine(histories[h], H[h])
  PROVE  Advances(h)
<1>1. /\ histories[h] \in HistoryType /\ Lined(histories[h])
      /\ histories'[h] \in HistoryType /\ Lined(histories'[h])
  BY DEF HistoryInv, HistoryTypeOK, Mirroring
<1>2. Keeps(H[h], histories'[h], s)
  BY DEF Published, Keeps, SameLine
<1>3. Keeps(histories[h], histories'[h], s)
  BY <1>1, <1>2, KeepsFrom
<1>. QED  BY <1>1, <1>3, KeptAdvances

(* Where the histories that are not h are what they were, and what is on its
   way says no less. *)
LEMMA OthersMirror ==
  ASSUME HistoryInv, HistoryTypeOK', Waiting', data' = data, blurred \subseteq blurred',
         NEW X \in SUBSET Histories,
         \A g \in Histories \ X :
           /\ histories'[g] = histories[g]
           /\ Coming(g)' = NoFact => Coming(g) = NoFact
           /\ Own(g, Coming(g)') => Own(g, Coming(g)) \/ Coming(g) = NoFact,
         \A g \in X \ blurred' :
           /\ Lined(histories'[g])
           /\ histories'[g].attached => Mirrors(g, histories'[g], data, Coming(g)')
  PROVE  HistoryInv' /\ \A g \in Histories \ (X \cup blurred') : Advances(g)
<1>1. Mirroring'
  <2> SUFFICES ASSUME NEW g \in Histories \ blurred'
               PROVE  /\ Lined(histories'[g])
                      /\ histories'[g].attached => Mirrors(g, histories'[g], data', Coming(g)')
    BY DEF Mirroring
  <2>1. CASE g \in X
    BY <2>1
  <2>2. CASE g \notin X
    <3>1. g \in Histories \ blurred /\ histories'[g] = histories[g]
      BY <2>2
    <3>2. Lined(histories[g]) /\ (histories[g].attached => Mirrors(g, histories[g], data, Coming(g)))
      BY <3>1 DEF HistoryInv, Mirroring
    <3>3. histories[g].attached => Mirrors(g, histories[g], data, Coming(g)')
      BY <2>2, <3>2, WeakerMirrors
    <3>. QED  BY <3>1, <3>2, <3>3
  <2>. QED  BY <2>1, <2>2
<1>2. ASSUME NEW g \in Histories \ (X \cup blurred') PROVE Advances(g)
  <2>1. histories'[g] = histories[g] /\ g \in Histories
    OBVIOUS
  <2>2. UNCHANGED Line(g)!timelineVars
    BY <2>1 DEF Line!timelineVars
  <2>. QED  BY <2>2 DEF Advances
<1>. QED  BY <1>1, <1>2 DEF HistoryInv

-----------------------------------------------------------------------------
(***************************************************************************)
(* The actions.                                                            *)
(***************************************************************************)

\* A step keeps the invariant, and every history it does not blur goes on.
Proceeds == HistoryInv' /\ \A h \in Histories \ blurred' : Advances(h)

(* Writes that every attached history hears of. *)
LEMMA EmitProceeds ==
  ASSUME HistoryInv, NEW H \in [Histories -> HistoryType], NEW s \in States, NEW f \in Facts, f # NoFact,
         \A h \in Histories : H[h].attached = histories[h].attached,
         blurred \subseteq blurred', blurred' \subseteq Histories,
         \A h \in Histories \ blurred' :
           /\ Lined(H[h]) /\ SameLine(histories[h], H[h])
           /\ H[h].attached => Mirrors(h, H[h], s, Joined(queued[h], Joined(publication, f))),
         Emit(H, s, f), policy' = policy, transaction' = transaction
  PROVE  Proceeds
<1>1. HistoryInv' /\ Published(H, s)
  BY EmitMirrors DEF HistoryInv
<1>2. ASSUME NEW h \in Histories \ blurred' PROVE Advances(h)
  <2>1. h \in Histories \ blurred /\ h \notin blurred'
    OBVIOUS
  <2>. QED  BY <1>1, <2>1, PublishedAdvances
<1>. QED  BY <1>1, <1>2 DEF Proceeds

(* Writes that patches describe. *)
LEMMA ToldProceeds ==
  ASSUME HistoryInv, NEW ps \in Patches, NEW t \in States, Changing(ps), LeadsTo(ps, data, t),
         NEW f \in Facts, f # NoFact, \A h : ~Own(h, f),
         Emit(Told(ps), t, f), UNCHANGED <<policy, transaction, blurred>>
  PROVE  Proceeds
<1> DEFINE H == Told(ps)
<1>1. HistoryTypeOK /\ blurred \subseteq Histories
  BY DEF HistoryInv, HistoryTypeOK
<1>2. H \in [Histories -> HistoryType] /\ \A h \in Histories : H[h].attached = histories[h].attached
  BY <1>1, ToldFields
<1>3. ASSUME NEW h \in Histories \ blurred'
      PROVE  /\ Lined(H[h]) /\ SameLine(histories[h], H[h])
             /\ H[h].attached => Mirrors(h, H[h], t, Joined(queued[h], Joined(publication, f)))
  <2>1. h \in Histories \ blurred
    OBVIOUS
  <2>2. /\ Joined(queued[h], Joined(publication, f)) # NoFact
        /\ ~Own(h, Joined(queued[h], Joined(publication, f)))
    BY <1>1, EmittedFact
  <2>. QED  BY <1>2, <2>1, <2>2, ToldMirrors
<1> HIDE DEF H
<1>4. Emit(H, t, f)
  BY DEF H
<1>. QED  BY <1>1, <1>2, <1>3, <1>4, EmitProceeds

(* update(). *)
LEMMA UpdateProceeds ==
  ASSUME HistoryInv, NEW p \in Places, NEW v \in Values, Update(p, v)
  PROVE  Proceeds
<1> DEFINE w == Patch(p, data, v)
           t == [data EXCEPT ![p] = v]
<1>1. data \in States /\ data[p] # v
  BY DEF HistoryInv, HistoryTypeOK, Update
<1>2. <<w>> \in Patches /\ LeadsTo(<<w>>, data, t) /\ t \in States
  BY <1>1, SingleLeads
<1>3. Changing(<<w>>)
  BY <1>1 DEF Changing, Patch
<1>4. Emit(Told(<<w>>), t, Mutation) /\ UNCHANGED <<policy, transaction, blurred>>
  BY DEF Update, Calls
<1> HIDE DEF w, t
<1>. QED  BY <1>2, <1>3, <1>4, ToldProceeds, FactTypes

(* setData() and restore(). *)
LEMMA InstallProceeds ==
  ASSUME HistoryInv, NEW s \in Roots, Install(s)
  PROVE  Proceeds
<1>1. s \in States /\ data \in States
  BY HistoryAssumption DEF States, HistoryInv, HistoryTypeOK
<1>2. Diff(data, s) \in Patches /\ Changing(Diff(data, s)) /\ LeadsTo(Diff(data, s), data, s)
  BY <1>1, DiffLemma
<1>3. Emit(Told(Diff(data, s)), s, Installed) /\ UNCHANGED <<policy, transaction, blurred>>
  BY DEF Install, Calls
<1>. QED  BY <1>1, <1>2, <1>3, ToldProceeds, FactTypes

(* A raw write: the histories whose replay has not started are blurred. *)
LEMMA RawWriteProceeds ==
  ASSUME HistoryInv, NEW p \in Unseen, NEW v \in Values, RawWrite(p, v)
  PROVE  Proceeds
<1> DEFINE H == ToldOpaque
           t == [data EXCEPT ![p] = v]
<1>1. HistoryTypeOK /\ blurred \subseteq Histories /\ p \in Places /\ data \in States
  BY HistoryAssumption DEF HistoryInv, HistoryTypeOK
<1>2. t \in States
  BY <1>1 DEF States
<1>3. /\ blurred \subseteq blurred' /\ blurred' \subseteq Histories
      /\ \A h \in Histories \ blurred' :
           AttemptOf(histories[h]) => histories[h].attempts[histories[h].owner].started
  BY <1>1 DEF RawWrite
<1>4. Emit(H, t, Mutation) /\ UNCHANGED <<policy, transaction>>
  BY DEF RawWrite, Calls
<1>5. ASSUME NEW h \in Histories
      PROVE  /\ H[h] \in HistoryType /\ H[h].attached = histories[h].attached
             /\ H[h].past = histories[h].past /\ H[h].future = histories[h].future
             /\ H[h].baseline = histories[h].baseline
  <2>1. histories[h] \in HistoryType
    BY <1>1 DEF HistoryTypeOK
  <2>. QED  BY <2>1, CollectsOpaqueFields DEF ToldOpaque
<1>6. H \in [Histories -> HistoryType]
  <2>1. H = [h \in Histories |-> H[h]]
    BY DEF ToldOpaque
  <2> HIDE DEF H
  <2>. QED  BY <1>5, <2>1
<1>7. ASSUME NEW h \in Histories \ blurred'
      PROVE  /\ Lined(H[h]) /\ SameLine(histories[h], H[h])
             /\ H[h].attached => Mirrors(h, H[h], t, Joined(queued[h], Joined(publication, Mutation)))
  <2>1. h \in Histories \ blurred /\ histories[h] \in HistoryType /\ Lined(histories[h])
    BY <1>1, <1>3 DEF HistoryInv, HistoryTypeOK, Mirroring
  <2>2. Lined(H[h]) /\ SameLine(histories[h], H[h])
    BY <1>5, <2>1, SameFieldsLine
  <2>3. ASSUME H[h].attached
        PROVE  Mirrors(h, H[h], t, Joined(queued[h], Joined(publication, Mutation)))
    <3>1. /\ Joined(queued[h], Joined(publication, Mutation)) # NoFact
          /\ ~Own(h, Joined(queued[h], Joined(publication, Mutation)))
      BY <1>1, EmittedFact, FactTypes
    <3>2. Mirrors(h, histories[h], data, Coming(h)) /\ histories[h].attached
      BY <1>5, <2>1, <2>3 DEF HistoryInv, Mirroring
    <3>3. H[h] = CollectsOpaque(histories[h])
      BY <3>2 DEF ToldOpaque
    <3> HIDE DEF H, t
    <3>. QED  BY <1>1, <1>2, <1>3, <2>1, <3>1, <3>2, <3>3, CollectsOpaqueMirrors
  <2>. QED  BY <2>2, <2>3
<1> HIDE DEF H, t
<1>. QED  BY <1>2, <1>3, <1>4, <1>5, <1>6, <1>7, EmitProceeds, FactTypes

(* setData() of an equal state. *)
LEMMA InstallEqualProceeds ==
  ASSUME HistoryInv, InstallEqual
  PROVE  Proceeds
<1>1. /\ publication' = IF publication = NoFact THEN NoFact ELSE Mixed
      /\ queued' = [h \in Histories |-> IF queued[h] = NoFact THEN NoFact ELSE Mixed]
      /\ UNCHANGED <<policy, transaction, data, batched, histories, blurred>>
  BY DEF InstallEqual, Calls
<1>2. HistoryTypeOK /\ Waiting
  BY DEF HistoryInv
<1>3. HistoryTypeOK'
  BY <1>1, <1>2, FactTypes DEF HistoryTypeOK
<1>4. Waiting'
  BY <1>1, <1>2, FactTypes DEF Waiting
<1>5. ASSUME NEW g \in Histories
      PROVE  /\ Coming(g)' = NoFact => Coming(g) = NoFact
             /\ ~Own(g, Coming(g)')
  <2>1. queued[g] \in Facts /\ publication \in Facts
    BY <1>2 DEF HistoryTypeOK
  <2>2. queued'[g] = IF queued[g] = NoFact THEN NoFact ELSE Mixed
    BY <1>1
  <2>3. CASE publication = NoFact
    BY <1>1, <2>1, <2>2, <2>3, FactTypes DEF Coming
  <2>4. CASE publication # NoFact
    <3>1. Coming(g)' = Joined(queued'[g], Mixed) /\ queued'[g] \in Facts
      BY <1>1, <2>2, <2>4, FactTypes DEF Coming
    <3>. QED  BY <3>1, FactTypes, JoinedFacts
  <2>. QED  BY <2>3, <2>4
<1>6. {} \in SUBSET Histories
  OBVIOUS
<1>7. \A g \in {} \ blurred' : /\ Lined(histories'[g])
                               /\ histories'[g].attached => Mirrors(g, histories'[g], data, Coming(g)')
  OBVIOUS
<1>8. HistoryInv' /\ \A g \in Histories \ ({} \cup blurred') : Advances(g)
  BY <1>1, <1>3, <1>4, <1>5, <1>6, <1>7, OthersMirror
<1>. QED  BY <1>8 DEF Proceeds

(* A transaction begins. *)
LEMMA BeginProceeds ==
  ASSUME HistoryInv, Begin
  PROVE  Proceeds
<1>1. /\ UNCHANGED <<policy, data, publication, batched, histories, queued, blurred>>
      /\ transaction' = TRUE
  BY DEF Begin
<1>2. HistoryTypeOK' /\ Waiting'
  BY <1>1 DEF HistoryInv, HistoryTypeOK, Waiting
<1>3. \A g : Coming(g)' = Coming(g)
  BY <1>1 DEF Coming
<1>4. {} \in SUBSET Histories
  OBVIOUS
<1>5. \A g \in {} \ blurred' : /\ Lined(histories'[g])
                               /\ histories'[g].attached => Mirrors(g, histories'[g], data, Coming(g)')
  OBVIOUS
<1>6. HistoryInv' /\ \A g \in Histories \ ({} \cup blurred') : Advances(g)
  BY <1>1, <1>2, <1>3, <1>4, <1>5, OthersMirror
<1>. QED  BY <1>6 DEF Proceeds

(* A transaction ends, and its batch is told. *)
LEMMA EndProceeds ==
  ASSUME HistoryInv, End
  PROVE  Proceeds
<1>1. transaction /\ transaction' = FALSE /\ UNCHANGED <<policy, data, blurred>>
  BY DEF End
<1>2. CASE batched
  <2>1. Notify(histories, data, publication) /\ publication # NoFact
    BY <1>2 DEF End, HistoryInv, Waiting
  <2>2. /\ histories \in [Histories -> HistoryType] /\ data \in States /\ publication \in Facts
        /\ blurred' \subseteq Histories /\ HistoryTypeOK /\ Waiting
    BY <1>1 DEF HistoryInv, HistoryTypeOK
  <2>3. \A h \in Histories \ blurred' :
          /\ Lined(histories[h])
          /\ histories[h].attached => Mirrors(h, histories[h], data, Joined(queued[h], publication))
    BY <1>1, <2>1 DEF HistoryInv, Mirroring, Coming
  <2>4. HistoryInv' /\ Published(histories, data)
    BY <1>1, <2>1, <2>2, <2>3, NotifyMirrors
  <2>5. ASSUME NEW h \in Histories \ blurred' PROVE Advances(h)
    <3>1. h \in Histories \ blurred /\ h \notin blurred' /\ histories[h] \in HistoryType
      BY <1>1, <2>2
    <3>2. Lined(histories[h]) /\ SameLine(histories[h], histories[h])
      BY <2>3 DEF SameLine
    <3>. QED  BY <2>2, <2>4, <3>1, <3>2, PublishedAdvances
  <2>. QED  BY <2>4, <2>5 DEF Proceeds
<1>3. CASE ~batched
  <2>1. UNCHANGED <<publication, batched, histories, queued>>
    BY <1>3 DEF End
  <2>2. HistoryTypeOK' /\ Waiting'
    BY <1>1, <1>3, <2>1 DEF HistoryInv, HistoryTypeOK, Waiting
  <2>3. \A g : Coming(g)' = Coming(g)
    BY <2>1 DEF Coming
  <2>4. {} \in SUBSET Histories
    OBVIOUS
  <2>5. \A g \in {} \ blurred' : /\ Lined(histories'[g])
                                 /\ histories'[g].attached => Mirrors(g, histories'[g], data, Coming(g)')
    OBVIOUS
  <2>6. HistoryInv' /\ \A g \in Histories \ ({} \cup blurred') : Advances(g)
    BY <1>1, <2>1, <2>2, <2>3, <2>4, <2>5, OthersMirror
  <2>. QED  BY <2>6 DEF Proceeds
<1>. QED  BY <1>2, <1>3

(* A step that changes one history only. *)
LEMMA OneProceeds ==
  ASSUME HistoryInv, NEW h \in Histories, NEW K \in HistoryType,
         histories' = [histories EXCEPT ![h] = K],
         UNCHANGED <<policy, data, transaction, batched>>,
         publication' \in {publication, JoinedByReplay},
         queued' \in {queued, [queued EXCEPT ![h] = NoFact]},
         K.attached \/ queued'[h] = NoFact,
         blurred \subseteq blurred', blurred' \subseteq Histories,
         h \notin blurred' => Lined(K) /\ (K.attached => Mirrors(h, K, data, Coming(h)'))
  PROVE  HistoryInv' /\ \A g \in Histories \ ({h} \cup blurred') : Advances(g)
<1>1. /\ HistoryTypeOK /\ Waiting /\ publication \in Facts
      /\ histories \in [Histories -> HistoryType] /\ queued \in [Histories -> Facts]
  BY DEF HistoryInv, HistoryTypeOK
<1>2. /\ histories' \in [Histories -> HistoryType] /\ queued' \in [Histories -> Facts]
      /\ histories'[h] = K
      /\ \A g \in Histories \ {h} : histories'[g] = histories[g] /\ queued'[g] = queued[g]
      /\ queued'[h] \in {queued[h], NoFact}
  BY <1>1, FactTypes
<1>3. publication' \in Facts /\ (publication' = NoFact <=> publication = NoFact)
  BY <1>1, FactTypes DEF JoinedByReplay
<1>4. HistoryTypeOK'
  BY <1>1, <1>2, <1>3 DEF HistoryTypeOK
<1>5. Waiting'
  <2>1. publication' # NoFact <=> batched'
    BY <1>1, <1>3 DEF Waiting
  <2>2. ASSUME NEW g \in Histories, ~histories'[g].attached \/ ~policy.deferring
        PROVE  queued'[g] = NoFact
    <3>1. CASE g = h
      BY <1>1, <1>2, <2>2, <3>1 DEF Waiting
    <3>2. CASE g # h
      BY <1>1, <1>2, <2>2, <3>2 DEF Waiting
    <3>. QED  BY <3>1, <3>2
  <2>. QED  BY <1>1, <2>1, <2>2 DEF Waiting
<1>6. ASSUME NEW g \in Histories \ {h}
      PROVE  /\ histories'[g] = histories[g]
             /\ Coming(g)' = NoFact => Coming(g) = NoFact
             /\ Own(g, Coming(g)') => Own(g, Coming(g)) \/ Coming(g) = NoFact
  <2>1. histories'[g] = histories[g] /\ queued'[g] = queued[g] /\ queued[g] \in Facts
    BY <1>1, <1>2
  <2>2. CASE publication' = publication
    BY <2>1, <2>2 DEF Coming
  <2>3. CASE publication' # publication
    <3>1. publication' = Mixed /\ publication # NoFact
      BY <2>3 DEF JoinedByReplay
    <3>2. Coming(g)' = Joined(queued[g], Mixed)
      BY <2>1, <3>1, FactTypes DEF Coming
    <3>. QED  BY <2>1, <3>2, JoinedFacts, FactTypes
  <2>. QED  BY <2>2, <2>3
<1>7. {h} \in SUBSET Histories
  OBVIOUS
<1>8. \A g \in {h} \ blurred' : /\ Lined(histories'[g])
                                /\ histories'[g].attached => Mirrors(g, histories'[g], data, Coming(g)')
  BY <1>2
<1>. QED  BY <1>4, <1>5, <1>6, <1>7, <1>8, OthersMirror

(* The invariant, for one history. *)
LEMMA UnblurredFacts ==
  ASSUME HistoryInv, NEW h \in Histories
  PROVE  /\ histories[h] \in HistoryType /\ data \in States /\ blurred \subseteq Histories
         /\ queued[h] \in Facts /\ publication \in Facts
         /\ h \notin blurred => Lined(histories[h])
         /\ h \notin blurred /\ histories[h].attached => Mirrors(h, histories[h], data, Coming(h))
  BY DEF HistoryInv, HistoryTypeOK, Mirroring

(* The scheduler delivers a publication. *)
LEMMA DeliverProceeds ==
  ASSUME HistoryInv, NEW h \in Histories, Deliver(h)
  PROVE  Proceeds
<1> DEFINE H == histories[h]
           K == Records(h, H, queued[h], data)
<1>1. /\ ~transaction /\ queued[h] # NoFact
      /\ queued' = [queued EXCEPT ![h] = NoFact]
      /\ histories' = [histories EXCEPT ![h] = K]
      /\ UNCHANGED <<policy, data, publication, transaction, batched, blurred>>
  BY DEF Deliver
<1>2. /\ H \in HistoryType /\ data \in States /\ blurred \subseteq Histories /\ queued[h] \in Facts
      /\ h \notin blurred => Lined(H)
      /\ h \notin blurred /\ H.attached => Mirrors(h, H, data, Coming(h))
  BY UnblurredFacts
<1>3. H.attached /\ Coming(h) = queued[h]
  BY <1>1 DEF HistoryInv, Waiting, Coming
<1>4. K \in HistoryType /\ K.attached
  BY <1>2, <1>3, RecordsFields
<1>5. ASSUME h \notin blurred PROVE Settles(K, data) /\ Lined(K) /\ Keeps(H, K, data)
  <2>1. Mirrors(h, H, data, queued[h]) /\ Lined(H)
    BY <1>2, <1>3, <1>5
  <2>2. Own(h, queued[h]) => H.baseline = data
    BY <2>1 DEF Mirrors
  <2>. QED  BY <1>2, <2>1, <2>2, RecordsLine
<1> HIDE DEF K
<1>6. h \notin blurred' => Lined(K) /\ (K.attached => Mirrors(h, K, data, Coming(h)'))
  BY <1>1, <1>2, <1>4, <1>5, SettledMirrors
<1>7. HistoryInv' /\ \A g \in Histories \ ({h} \cup blurred') : Advances(g)
  BY <1>1, <1>2, <1>4, <1>6, OneProceeds
<1>8. ASSUME h \notin blurred' PROVE Advances(h)
  <2>1. histories'[h] = K
    BY <1>1 DEF HistoryInv, HistoryTypeOK
  <2>. QED  BY <1>1, <1>2, <1>4, <1>5, <1>8, <2>1, KeptAdvances
<1>. QED  BY <1>7, <1>8 DEF Proceeds

(* A replay of nothing commits what was collected. *)
LEMMA ReplayNothingProceeds ==
  ASSUME HistoryInv, NEW h \in Histories, ReplayNothing(h)
  PROVE  Proceeds
<1> DEFINE H == histories[h]
           K == Settled(h)
<1>1. /\ H.attached /\ HasPending(H)
      /\ histories' = [histories EXCEPT ![h] = K]
      /\ UNCHANGED <<policy, data, publication, transaction, batched, queued, blurred>>
  BY DEF ReplayNothing
<1>2. H \in HistoryType /\ data \in States /\ blurred \subseteq Histories /\ (h \notin blurred => Lined(H))
  BY UnblurredFacts
<1>3. K \in HistoryType /\ K.attached /\ ~HasPending(K)
  BY <1>1, SettledFields DEF HistoryInv
<1>4. ASSUME h \notin blurred PROVE Settles(K, data) /\ Lined(K) /\ Keeps(H, K, data)
  <2>1. Lined(K) /\ Keeps(H, K, data) /\ (K = H \/ Settles(K, data))
    BY <1>1, <1>4, SettledLine
  <2>. QED  BY <1>1, <1>3, <2>1
<1> HIDE DEF K
<1>5. h \notin blurred' => Lined(K) /\ (K.attached => Mirrors(h, K, data, Coming(h)'))
  BY <1>1, <1>2, <1>3, <1>4, SettledMirrors
<1>6. HistoryInv' /\ \A g \in Histories \ ({h} \cup blurred') : Advances(g)
  BY <1>1, <1>2, <1>3, <1>5, OneProceeds
<1>7. ASSUME h \notin blurred' PROVE Advances(h)
  <2>1. histories'[h] = K
    BY <1>1 DEF HistoryInv, HistoryTypeOK
  <2>. QED  BY <1>1, <1>2, <1>3, <1>4, <1>7, <2>1, KeptAdvances
<1>. QED  BY <1>6, <1>7 DEF Proceeds

(* The empty stacks, and the empty table. *)
LEMMA EmptySequences == <<>> \in Seq(Entries) /\ <<>> \in AttemptTables /\ Len(<<>>) = 0
<1>1. <<>> \in [{} -> Attempts] /\ {} \in SUBSET Nat
  OBVIOUS
<1>. QED  BY <1>1 DEF AttemptTables

(* clear(). *)
LEMMA ClearProceeds ==
  ASSUME HistoryInv, NEW h \in Histories, Clear(h)
  PROVE  Proceeds
<1> DEFINE H == histories[h]
           W == IF AttemptOf(H) THEN WithoutAttempt(H, H.owner) ELSE H
           C == [W EXCEPT !.past = <<>>, !.future = <<>>, !.baseline = data, !.owner = 0]
           K == WithoutPending(C)
<1>1. H \in HistoryType /\ data \in States /\ blurred \subseteq Histories
  BY UnblurredFacts
<1>2. /\ H.attached
      /\ histories' = [histories EXCEPT ![h] = K]
      /\ UNCHANGED <<policy, data, publication, transaction, batched, queued, blurred>>
  BY DEF Clear, Calls
<1>3. W \in HistoryType /\ W.attached
  <2>1. WithoutAttempt(H, H.owner) \in HistoryType /\ WithoutAttempt(H, H.owner).attached = H.attached
    BY <1>1, WithoutAttemptFields DEF WithoutAttempt, HistoryType
  <2>. QED  BY <1>1, <1>2, <2>1
<1> HIDE DEF W
<1>4. C \in HistoryType /\ C.attached /\ C.past = <<>> /\ C.future = <<>> /\ C.baseline = data
  BY <1>1, <1>3, EmptySequences DEF HistoryType
<1> HIDE DEF C
<1>5. K \in HistoryType /\ K.attached /\ K.past = <<>> /\ K.future = <<>> /\ Settles(K, data)
  BY <1>4, WithoutPendingFields DEF Settles
<1> HIDE DEF K
<1>6. histories'[h] = K
  BY <1>2 DEF HistoryInv, HistoryTypeOK
<1>7. Lined(K) /\ Advances(h)
  BY <1>5, <1>6, FreshAdvances
<1>8. Mirrors(h, K, data, Coming(h)')
  BY <1>1, <1>5, SettledMirrors
<1>9. HistoryInv' /\ \A g \in Histories \ ({h} \cup blurred') : Advances(g)
  BY <1>1, <1>2, <1>5, <1>7, <1>8, OneProceeds
<1>. QED  BY <1>7, <1>9 DEF Proceeds

(* A history that begins. *)
LEMMA FreshFields ==
  ASSUME NEW s \in States, NEW attached \in BOOLEAN
  PROVE  /\ Fresh(s, attached) \in HistoryType /\ Fresh(s, attached).attached = attached
         /\ Fresh(s, attached).past = <<>> /\ Fresh(s, attached).future = <<>>
         /\ Settles(Fresh(s, attached), s) /\ Lined(Fresh(s, attached))
<1> DEFINE K == Fresh(s, attached)
<1>1. /\ K \in HistoryType /\ K.attached = attached /\ K.past = <<>> /\ K.future = <<>>
      /\ K.baseline = s /\ K.patches = <<>> /\ K.opaque = FALSE
  BY EmptySequences, NoPatches DEF Fresh, HistoryType
<1> HIDE DEF K
<1>2. Lined(K)
  BY <1>1, FreshLine
<1>3. Settles(K, s)
  BY <1>1 DEF Settles, HasPending
<1>. QED  BY <1>1, <1>2, <1>3 DEF K

(* The constructor. *)
LEMMA ConnectProceeds ==
  ASSUME HistoryInv, NEW h \in Histories, Connect(h)
  PROVE  Proceeds
<1> DEFINE K == Fresh(data, TRUE)
<1>1. data \in States /\ blurred \subseteq Histories
  BY UnblurredFacts
<1>2. /\ histories' = [histories EXCEPT ![h] = K]
      /\ UNCHANGED <<policy, data, publication, transaction, batched, queued, blurred>>
  BY DEF Connect, Calls
<1>3. K \in HistoryType /\ K.attached /\ K.past = <<>> /\ K.future = <<>> /\ Settles(K, data)
  BY <1>1, FreshFields
<1> HIDE DEF K
<1>4. histories'[h] = K
  BY <1>2 DEF HistoryInv, HistoryTypeOK
<1>5. Lined(K) /\ Advances(h)
  BY <1>3, <1>4, FreshAdvances
<1>6. Mirrors(h, K, data, Coming(h)')
  BY <1>1, <1>3, SettledMirrors
<1>7. HistoryInv' /\ \A g \in Histories \ ({h} \cup blurred') : Advances(g)
  BY <1>1, <1>2, <1>3, <1>5, <1>6, OneProceeds
<1>. QED  BY <1>5, <1>7 DEF Proceeds

(* disconnect(). *)
LEMMA DisconnectProceeds ==
  ASSUME HistoryInv, NEW h \in Histories, Disconnect(h)
  PROVE  Proceeds
<1> DEFINE H == histories[h]
           K == [H EXCEPT !.attached = FALSE]
<1>1. H \in HistoryType /\ data \in States /\ blurred \subseteq Histories /\ (h \notin blurred => Lined(H))
  BY UnblurredFacts
<1>2. /\ histories' = [histories EXCEPT ![h] = K]
      /\ queued' = [queued EXCEPT ![h] = NoFact] /\ queued'[h] = NoFact
      /\ UNCHANGED <<policy, data, publication, transaction, batched, blurred>>
  BY DEF Disconnect, Calls, HistoryInv, HistoryTypeOK
<1>3. /\ K \in HistoryType /\ K.attached = FALSE /\ K.past = H.past /\ K.future = H.future
      /\ K.baseline = H.baseline
  BY <1>1 DEF HistoryType
<1> HIDE DEF K
<1>4. h \notin blurred => Lined(K) /\ SameLine(H, K)
  BY <1>1, <1>3, SameFieldsLine
<1>5. HistoryInv' /\ \A g \in Histories \ ({h} \cup blurred') : Advances(g)
  BY <1>1, <1>2, <1>3, <1>4, OneProceeds
<1>6. ASSUME h \notin blurred' PROVE Advances(h)
  <2>1. histories'[h] = K /\ Keeps(H, K, data)
    BY <1>2, <1>4, <1>6 DEF HistoryInv, HistoryTypeOK, Keeps
  <2>. QED  BY <1>1, <1>2, <1>3, <1>4, <1>6, <2>1, KeptAdvances
<1>. QED  BY <1>5, <1>6 DEF Proceeds

(* A refused replay: the history is not blurred where it had settled at the state. *)
LEMMA RefusedProceeds ==
  ASSUME HistoryInv, NEW h \in Histories, NEW inverse \in BOOLEAN, Refused(h, inverse)
  PROVE  Proceeds
<1> DEFINE G == Settled(h)
           H == [G EXCEPT !.calls = G.calls + 1]
<1>1. /\ histories[h] \in HistoryType /\ data \in States /\ blurred \subseteq Histories
      /\ HistoryTypeOK /\ (h \notin blurred => Lined(histories[h]))
  BY UnblurredFacts DEF HistoryInv
<1>2. /\ histories[h].attached /\ Replayable(H, inverse) # <<>>
      /\ blurred' = IF H.baseline = data THEN blurred ELSE blurred \cup {h}
      /\ UNCHANGED <<policy, transaction, data, batched, queued>>
      /\ \/ /\ histories' = [histories EXCEPT ![h] = [H EXCEPT !.baseline = data, !.owner = 0]]
            /\ publication' = JoinedByReplay
         \/ /\ \E owner \in {0, H.owner} :
                 histories' = [histories EXCEPT ![h] =
                   [(IF H.baseline = data THEN H ELSE Moved(H, inverse)) EXCEPT !.owner = owner]]
            /\ publication' = publication
  BY DEF Refused, Calls
<1>3. G \in HistoryType /\ ~HasPending(G) /\ G.attached
  BY <1>1, <1>2, SettledFields
<1>4. h \notin blurred => Lined(G) /\ Keeps(histories[h], G, data)
  BY <1>2, SettledLine
<1> HIDE DEF G
<1>5. /\ H \in HistoryType /\ ~HasPending(H) /\ H.attached
      /\ H.past = G.past /\ H.future = G.future /\ H.baseline = G.baseline
  BY <1>3 DEF HistoryType, HasPending
<1> HIDE DEF H
<1>6. ASSUME NEW K \in HistoryType, K.attached, histories' = [histories EXCEPT ![h] = K],
             publication' \in {publication, JoinedByReplay},
             H.baseline = data => /\ Settles(K, data) /\ K.past = H.past /\ K.future = H.future
      PROVE  Proceeds
  <2>1. ASSUME h \notin blurred' PROVE /\ H.baseline = data /\ h \notin blurred
                                       /\ Lined(K) /\ Settles(K, data) /\ Keeps(histories[h], K, data)
    <3>1. H.baseline = data /\ h \notin blurred
      BY <1>2, <2>1
    <3>2. Lined(G) /\ Keeps(histories[h], G, data) /\ G.baseline = data
      BY <1>4, <1>5, <3>1
    <3>3. Settles(K, data) /\ K.past = G.past /\ K.future = G.future /\ K.baseline = G.baseline
      BY <1>5, <1>6, <3>1, <3>2 DEF Settles
    <3>4. Lined(K) /\ SameLine(G, K)
      BY <1>3, <1>6, <3>2, <3>3, SameFieldsLine
    <3>5. Keeps(histories[h], K, data)
      BY <3>2, <3>3, <3>4 DEF Keeps, SameLine, Files
    <3>. QED  BY <3>1, <3>3, <3>4, <3>5
  <2>2. blurred \subseteq blurred' /\ blurred' \subseteq Histories
    BY <1>1, <1>2
  <2>3. h \notin blurred' => Lined(K) /\ (K.attached => Mirrors(h, K, data, Coming(h)'))
    BY <1>1, <1>6, <2>1, SettledMirrors
  <2>4. HistoryInv' /\ \A g \in Histories \ ({h} \cup blurred') : Advances(g)
    BY <1>2, <1>6, <2>2, <2>3, OneProceeds
  <2>5. ASSUME h \notin blurred' PROVE Advances(h)
    <3>1. histories'[h] = K
      BY <1>1, <1>6 DEF HistoryTypeOK
    <3>. QED  BY <1>1, <1>6, <2>1, <2>5, <3>1, KeptAdvances
  <2>. QED  BY <2>4, <2>5 DEF Proceeds
<1>7. CASE /\ histories' = [histories EXCEPT ![h] = [H EXCEPT !.baseline = data, !.owner = 0]]
           /\ publication' = JoinedByReplay
  <2> DEFINE K == [H EXCEPT !.baseline = data, !.owner = 0]
  <2>1. /\ K \in HistoryType /\ K.attached /\ Settles(K, data) /\ K.past = H.past /\ K.future = H.future
    BY <1>1, <1>5 DEF HistoryType, Settles, HasPending
  <2> HIDE DEF K
  <2>2. histories' = [histories EXCEPT ![h] = K]
    BY <1>7 DEF K
  <2>. QED  BY <1>6, <1>7, <2>1, <2>2
<1>8. CASE /\ \E owner \in {0, H.owner} :
                histories' = [histories EXCEPT ![h] =
                  [(IF H.baseline = data THEN H ELSE Moved(H, inverse)) EXCEPT !.owner = owner]]
           /\ publication' = publication
  <2>1. PICK owner \in {0, H.owner} :
               histories' = [histories EXCEPT ![h] =
                 [(IF H.baseline = data THEN H ELSE Moved(H, inverse)) EXCEPT !.owner = owner]]
    BY <1>8
  <2> DEFINE M == IF H.baseline = data THEN H ELSE Moved(H, inverse)
             K == [M EXCEPT !.owner = owner]
  <2>2. M \in HistoryType /\ M.attached /\ owner \in Nat
    BY <1>2, <1>5, MovedFields, HistoryFields
  <2>3. H.baseline = data => M = H
    OBVIOUS
  <2>4. histories' = [histories EXCEPT ![h] = K]
    BY <2>1
  <2> HIDE DEF M
  <2>5. /\ K \in HistoryType /\ K.attached /\ K.baseline = M.baseline /\ K.past = M.past /\ K.future = M.future
        /\ K.patches = M.patches /\ K.opaque = M.opaque
    BY <2>2 DEF HistoryType
  <2> HIDE DEF K
  <2>6. H.baseline = data => Settles(K, data) /\ K.past = H.past /\ K.future = H.future
    BY <1>5, <2>3, <2>5 DEF Settles, HasPending
  <2>. QED  BY <1>6, <1>8, <2>4, <2>5, <2>6
<1>. QED  BY <1>2, <1>7, <1>8

-----------------------------------------------------------------------------
(***************************************************************************)
(* undo() and redo().                                                      *)
(***************************************************************************)

\* The history K that a replay of the entry e leaves, from the settled G.
Crosses(G, K, e, inverse) ==
  /\ K.past = Moved(G, inverse).past /\ K.future = Moved(G, inverse).future
  /\ K.baseline = Beyond(e, G.baseline, inverse)

\* What is true of h once it has gone back, or forth.
Arrives(h, inverse) ==
  LET G == Settled(h)
  IN  /\ StepsOf(histories'[h]) = StepsOf(G)
      /\ Len(histories'[h].past) = IF inverse THEN Len(G.past) - 1 ELSE Len(G.past) + 1
      /\ G.baseline = data => histories'[h].baseline = data'

(* A replay that published what it wrote, or nothing: the history has crossed
   its entry, and the others have heard of the writes. *)
LEMMA ReplayEmits ==
  ASSUME HistoryInv, NEW h \in Histories, histories[h].attached, NEW inverse \in BOOLEAN,
         Replayable(Settled(h), inverse) # <<>>,
         NEW K \in HistoryType, K.attached, Crosses(Settled(h), K, Last(Replayable(Settled(h), inverse)), inverse),
         NEW ps \in Patches, NEW t \in States, Changing(ps), LeadsTo(ps, data, t),
         NEW n \in Nat,
         h \notin blurred =>
           Mirrors(h, K, t, Joined(queued[h], Joined(publication, ReplayFact(h, n)))),
         Settled(h).baseline = data => K.baseline = t,
         Emit([Told(ps) EXCEPT ![h] = K], t, ReplayFact(h, n)),
         UNCHANGED <<policy, transaction, blurred>>
  PROVE  Proceeds /\ (h \notin blurred => Arrives(h, inverse))
<1> DEFINE f == ReplayFact(h, n)
           H == [Told(ps) EXCEPT ![h] = K]
           G == Settled(h)
           e == Last(Replayable(G, inverse))
<1>1. /\ HistoryTypeOK /\ Waiting /\ blurred \subseteq Histories /\ blurred' = blurred
      /\ histories[h] \in HistoryType /\ data \in States
      /\ publication \in Facts /\ queued[h] \in Facts
  BY DEF HistoryInv, HistoryTypeOK
<1>2. f \in Facts /\ f # NoFact /\ (\A g : Own(g, f) => g = h) /\ Own(h, f)
  BY ReplayFacts DEF ReplayFact, Own
<1>3. Told(ps) \in [Histories -> HistoryType]
  BY <1>1, ToldFields
<1>4. /\ H \in [Histories -> HistoryType] /\ H[h] = K
      /\ \A g \in Histories : g # h => H[g] = Told(ps)[g]
  BY <1>3
<1>5. \A g \in Histories : H[g].attached = histories[g].attached
  BY <1>1, <1>4, ToldFields
<1>6. G \in HistoryType
  BY <1>1, SettledFields
<1> HIDE DEF f
<1>7. ASSUME NEW g \in Histories \ blurred', g # h
      PROVE  /\ Lined(H[g]) /\ SameLine(histories[g], H[g])
             /\ H[g].attached => Mirrors(g, H[g], t, Joined(queued[g], Joined(publication, f)))
  <2>1. g \in Histories \ blurred /\ H[g] = Told(ps)[g]
    BY <1>1, <1>4, <1>7
  <2>2. /\ Joined(queued[g], Joined(publication, f)) # NoFact
        /\ ~Own(g, Joined(queued[g], Joined(publication, f)))
    BY <1>1, <1>2, <1>7, EmittedFact
  <2> HIDE DEF H
  <2>. QED  BY <1>5, <2>1, <2>2, ToldMirrors
<1>8. ASSUME h \notin blurred
      PROVE  /\ Lined(K) /\ StepsOf(K) = StepsOf(G)
             /\ Len(K.past) = IF inverse THEN Len(G.past) - 1 ELSE Len(G.past) + 1
             /\ Lined(G) /\ Keeps(histories[h], G, data)
  <2>1. Lined(G) /\ Keeps(histories[h], G, data)
    BY <1>8, SettledLine
  <2> HIDE DEF G
  <2>2. /\ K.past = Moved(G, inverse).past /\ K.future = Moved(G, inverse).future
        /\ K.baseline = Beyond(Last(Replayable(G, inverse)), G.baseline, inverse)
    BY DEF Crosses, G
  <2>3. Replayable(G, inverse) # <<>>
    BY DEF G
  <2>. QED  BY <1>6, <2>1, <2>2, <2>3, MovedLine
<1>9. Emit(H, t, f)
  BY DEF f
<1>10. \A g \in Histories \ blurred' :
         Lined(H[g]) /\ (H[g].attached => Mirrors(g, H[g], t, Joined(queued[g], Joined(publication, f))))
  <2> TAKE g \in Histories \ blurred'
  <2>1. CASE g = h
    <3>1. h \notin blurred /\ H[g] = K
      BY <1>1, <1>4, <2>1
    <3>2. Mirrors(h, K, t, Joined(queued[h], Joined(publication, f)))
      BY <3>1 DEF f
    <3>. QED  BY <1>8, <2>1, <3>1, <3>2
  <2>2. CASE g # h
    BY <1>7, <2>2
  <2>. QED  BY <2>1, <2>2
<1> HIDE DEF H
<1>11. HistoryInv' /\ Published(H, t) /\ data' = t
  BY <1>1, <1>2, <1>4, <1>5, <1>9, <1>10, EmitMirrors
<1>12. ASSUME NEW g \in Histories \ blurred', g # h PROVE Advances(g)
  <2>1. g \in Histories \ blurred /\ g \notin blurred'
    BY <1>1
  <2>. QED  BY <1>4, <1>7, <1>11, <1>12, <2>1, PublishedAdvances
<1>13. ASSUME h \notin blurred
       PROVE  /\ StepsOf(histories'[h]) = StepsOf(G)
              /\ Len(histories'[h].past) = IF inverse THEN Len(G.past) - 1 ELSE Len(G.past) + 1
              /\ histories'[h].baseline = K.baseline
  <2>1. CASE histories'[h] = K
    BY <1>8, <1>13, <2>1
  <2>2. CASE histories'[h] # K
    <3>1. /\ ~policy.deferring /\ ~transaction' /\ K.attached
          /\ Settles(histories'[h], t) /\ Keeps(K, histories'[h], t)
      BY <1>1, <1>4, <1>11, <1>13, <2>2 DEF Published
    <3>2. queued[h] = NoFact /\ publication = NoFact
      BY <1>1, <3>1 DEF Waiting
    <3>3. Joined(queued[h], Joined(publication, f)) = f
      BY <1>2, <3>2, JoinedFacts, FactTypes
    <3>4. Mirrors(h, K, t, f)
      BY <1>13, <3>3 DEF f
    <3>5. K.baseline = t
      BY <1>2, <3>4 DEF Mirrors
    <3>6. SameLine(K, histories'[h])
      BY <3>1, <3>5 DEF Keeps, Files
    <3>. QED  BY <1>8, <1>13, <3>1, <3>5, <3>6 DEF SameLine, Settles
  <2>. QED  BY <2>1, <2>2
<1>14. h \notin blurred => Arrives(h, inverse)
  BY <1>11, <1>13 DEF Arrives
<1>15. ASSUME h \notin blurred' PROVE Advances(h)
  <2>1. h \notin blurred /\ Lined(histories[h])
    BY <1>1, <1>15, UnblurredFacts
  <2> HIDE DEF G
  <2>2. Replayable(G, inverse) # <<>>
    BY DEF G
  <2>. QED  BY <1>1, <1>6, <1>8, <1>13, <2>1, <2>2, MovedAdvances
<1>. QED  BY <1>11, <1>12, <1>14, <1>15 DEF Proceeds

(* A replay that wrote nothing: the history has crossed its entry. *)
LEMMA ReplayIsSilent ==
  ASSUME HistoryInv, NEW h \in Histories, histories[h].attached, NEW inverse \in BOOLEAN,
         Replayable(Settled(h), inverse) # <<>>,
         NEW K \in HistoryType, K.attached, Crosses(Settled(h), K, Last(Replayable(Settled(h), inverse)), inverse),
         h \notin blurred => Mirrors(h, K, data, Coming(h)'),
         Settled(h).baseline = data => K.baseline = data,
         histories' = [Told(<<>>) EXCEPT ![h] = K],
         publication' \in {publication, JoinedByReplay},
         UNCHANGED <<policy, data, transaction, batched, queued, blurred>>
  PROVE  Proceeds /\ (h \notin blurred => Arrives(h, inverse))
<1> DEFINE G == Settled(h)
<1>1. /\ HistoryTypeOK /\ blurred \subseteq Histories /\ histories[h] \in HistoryType /\ data \in States
      /\ histories \in [Histories -> HistoryType]
  BY DEF HistoryInv, HistoryTypeOK
<1>2. Told(<<>>) = histories
  <2>1. \A g \in Histories : Told(<<>>)[g] = histories[g]
    BY <1>1, CollectsNothing DEF Told
  <2>2. Told(<<>>) = [g \in Histories |-> Told(<<>>)[g]]
    BY DEF Told
  <2>. QED  BY <1>1, <2>1, <2>2
<1>3. histories' = [histories EXCEPT ![h] = K] /\ histories'[h] = K
  BY <1>1, <1>2
<1>4. G \in HistoryType
  BY <1>1, SettledFields
<1>5. ASSUME h \notin blurred
      PROVE  /\ Lined(K) /\ StepsOf(K) = StepsOf(G)
             /\ Len(K.past) = IF inverse THEN Len(G.past) - 1 ELSE Len(G.past) + 1
             /\ Lined(G) /\ Keeps(histories[h], G, data)
  <2>1. Lined(G) /\ Keeps(histories[h], G, data)
    BY <1>5, SettledLine
  <2> HIDE DEF G
  <2>2. /\ K.past = Moved(G, inverse).past /\ K.future = Moved(G, inverse).future
        /\ K.baseline = Beyond(Last(Replayable(G, inverse)), G.baseline, inverse)
    BY DEF Crosses, G
  <2>3. Replayable(G, inverse) # <<>>
    BY DEF G
  <2>. QED  BY <1>4, <2>1, <2>2, <2>3, MovedLine
<1>6. h \notin blurred' => Lined(K) /\ (K.attached => Mirrors(h, K, data, Coming(h)'))
  BY <1>5
<1>7. HistoryInv' /\ \A g \in Histories \ ({h} \cup blurred') : Advances(g)
  BY <1>1, <1>3, <1>6, OneProceeds
<1>8. ASSUME h \notin blurred' PROVE Advances(h)
  <2>1. h \notin blurred /\ Lined(histories[h])
    BY <1>8, UnblurredFacts
  <2> HIDE DEF G
  <2>2. Replayable(G, inverse) # <<>>
    BY DEF G
  <2>. QED  BY <1>1, <1>3, <1>4, <1>5, <2>1, <2>2, MovedAdvances
<1>9. h \notin blurred => Arrives(h, inverse)
  BY <1>3, <1>5 DEF Arrives
<1>. QED  BY <1>7, <1>8, <1>9 DEF Proceeds

(* The table of attempts with one more. *)
LEMMA MoreAttempts ==
  ASSUME NEW a \in AttemptTables, NEW n \in Nat, NEW r \in Attempts
  PROVE  LET b == [m \in DOMAIN a \cup {n} |-> IF m = n THEN r ELSE a[m]]
         IN  b \in AttemptTables /\ n \in DOMAIN b /\ b[n] = r
<1> DEFINE b == [m \in DOMAIN a \cup {n} |-> IF m = n THEN r ELSE a[m]]
<1>1. PICK N \in SUBSET Nat : a \in [N -> Attempts]
  BY DEF AttemptTables
<1>2. b \in [(N \cup {n}) -> Attempts] /\ N \cup {n} \in SUBSET Nat
  BY <1>1
<1>. QED  BY <1>2 DEF AttemptTables

(* A replay through the draft: what it will publish is its own only where
   nothing else was on its way, and then the baseline is the state it leaves. *)
LEMMA ReplayOnDraftProceeds ==
  ASSUME HistoryInv, NEW h \in Histories, histories[h].attached, NEW inverse \in BOOLEAN,
         Replayable(Settled(h), inverse) # <<>>,
         Last(Replayable(Settled(h), inverse)).kind = "patches",
         ReplayOnDraft(h, Moved(Settled(h), inverse), Last(Replayable(Settled(h), inverse)), inverse),
         UNCHANGED <<policy, transaction, blurred>>
  PROVE  Proceeds /\ (h \notin blurred => Arrives(h, inverse))
<1> DEFINE G == Settled(h)
           M == Moved(G, inverse)
           e == Last(Replayable(G, inverse))
           D == Directed(e.patches, inverse)
           writes == Writes(data, D)
           r == [started |-> writes # <<>>, places |-> PlacesOf(e.patches)]
           attempts == [n \in DOMAIN M.attempts \cup {M.calls} |-> IF n = M.calls THEN r ELSE M.attempts[n]]
           K == [M EXCEPT !.owner = M.calls, !.attempts = attempts, !.baseline = Patched(M.baseline, D)]
           t == Patched(data, D)
<1>1. /\ HistoryTypeOK /\ histories[h] \in HistoryType /\ data \in States
      /\ queued[h] \in Facts /\ publication \in Facts
      /\ h \notin blurred => Mirrors(h, histories[h], data, Coming(h))
  BY UnblurredFacts DEF HistoryInv
<1>2. G \in HistoryType /\ ~HasPending(G) /\ G.attached /\ G.calls \in Nat /\ G.baseline \in States
  BY <1>1, SettledFields, HistoryFields
<1>3. /\ M \in HistoryType /\ M.attached /\ M.baseline = G.baseline /\ ~HasPending(M)
      /\ M.calls = G.calls + 1 /\ e \in Entries
  BY <1>2, MovedFields DEF HasPending
<1>4. /\ e.patches \in Patches /\ D \in Patches
      /\ PlacesOf(D) = PlacesOf(e.patches) /\ PlacesOf(e.patches) \subseteq Places
  <2>1. e.patches \in Patches
    BY <1>3 DEF Entries
  <2> HIDE DEF e
  <2>. QED  BY <2>1, InvertedType, PlacesOfInverted DEF Directed
<1>5. /\ writes \in Patches /\ Changing(writes) /\ LeadsTo(writes, data, t)
      /\ t \in States /\ Patched(data, writes) = t /\ Patched(M.baseline, D) \in States
  BY <1>1, <1>2, <1>3, <1>4, WritesLemma, PatchedType DEF LeadsTo
<1>6. M.calls \in Nat /\ M.calls # 0
  <2> DEFINE c == G.calls
  <2>1. c \in Nat /\ M.calls = c + 1
    BY <1>2, <1>3
  <2> HIDE DEF c, M
  <2>. QED  BY <2>1
<1>7. /\ r \in Attempts /\ attempts \in AttemptTables
      /\ M.calls \in DOMAIN attempts /\ attempts[M.calls] = r
  <2>1. r \in Attempts
    BY <1>4 DEF Attempts
  <2>2. M.attempts \in AttemptTables
    BY <1>3, HistoryFields
  <2> HIDE DEF r, M
  <2>. QED  BY <1>6, <2>1, <2>2, MoreAttempts
<1>8. ReplayOnDraft(h, M, e, inverse) <=>
        IF writes # <<>> THEN Emit([Told(writes) EXCEPT ![h] = K], Patched(data, writes), ReplayFact(h, M.calls))
        ELSE /\ histories' = [Told(writes) EXCEPT ![h] = K]
             /\ publication' = JoinedByReplay
             /\ UNCHANGED <<data, batched, queued>>
  BY DEF ReplayOnDraft
<1>9. e.kind = "patches" /\ Replayable(G, inverse) # <<>> /\ ReplayOnDraft(h, M, e, inverse)
  OBVIOUS
<1>10. \/ G.baseline = data
       \/ h \in blurred
       \/ Coming(h) # NoFact /\ ~Own(h, Coming(h))
  BY SettledLine
<1> HIDE DEF attempts
<1>11. /\ K \in HistoryType /\ K.attached /\ ~HasPending(K) /\ K.past = M.past /\ K.future = M.future
       /\ K.baseline = Patched(G.baseline, D) /\ K.owner = M.calls /\ K.attempts = attempts
  <2> HIDE DEF M, D
  <2>. QED  BY <1>3, <1>5, <1>6, <1>7 DEF HistoryType, HasPending
<1> HIDE DEF K
<1>12. AttemptOf(K) /\ K.attempts[K.owner] = r /\ Changing(K.patches)
  <2>1. K.patches = <<>>
    BY <1>11 DEF HasPending
  <2>. QED  BY <1>6, <1>7, <1>11, <2>1, NoPatches DEF AttemptOf
<1>13. Crosses(G, K, e, inverse)
  BY <1>9, <1>11 DEF Crosses, Beyond
<1>14. G.baseline = data => K.baseline = t
  BY <1>11
<1> HIDE DEF M, D, writes, t, r, e, G
<1>15. CASE writes # <<>>
  <2>1. Emit([Told(writes) EXCEPT ![h] = K], t, ReplayFact(h, M.calls))
    BY <1>5, <1>8, <1>9, <1>15
  <2> DEFINE c == Joined(queued[h], Joined(publication, ReplayFact(h, M.calls)))
  <2>2. c # NoFact /\ (Own(h, c) => Coming(h) = NoFact)
    BY <1>1, <1>6, EmittedFact, ReplayFacts
  <2> HIDE DEF c
  <2>3. h \notin blurred => Mirrors(h, K, t, c)
    <3>1. K.attempts[K.owner].started
      <4>1. (writes # <<>>) = TRUE
        BY <1>15
      <4>2. r = [started |-> TRUE, places |-> PlacesOf(e.patches)]
        BY <4>1 DEF r
      <4>. QED  BY <1>12, <4>2
    <3>. QED  BY <1>10, <1>11, <1>12, <1>14, <2>2, <3>1 DEF Mirrors
  <2>4. h \notin blurred => Mirrors(h, K, t, Joined(queued[h], Joined(publication, ReplayFact(h, M.calls))))
    BY <2>3 DEF c
  <2>. QED  BY <1>5, <1>6, <1>9, <1>11, <1>13, <1>14, <2>1, <2>4, ReplayEmits DEF G, e
<1>16. CASE writes = <<>>
  <2>1. /\ histories' = [Told(<<>>) EXCEPT ![h] = K]
        /\ publication' = JoinedByReplay
        /\ UNCHANGED <<data, batched, queued>>
    BY <1>8, <1>9, <1>16
  <2>2. t = data
    BY <1>1, <1>4, <1>16, WritesNothing DEF writes, t
  <2>3. AgreeOn(K.attempts[K.owner].places, K.baseline, data)
    <3>1. AgreeOn(PlacesOf(D), Patched(G.baseline, D), Patched(data, D))
      BY <1>1, <1>2, <1>4, PatchedAgree
    <3>. QED  BY <1>4, <1>11, <1>12, <2>2, <3>1 DEF r, t
  <2>4. /\ Coming(h)' = NoFact => Coming(h) = NoFact
        /\ Own(h, Coming(h)') => Own(h, Coming(h))
    <3>1. CASE publication = NoFact
      BY <2>1, <3>1 DEF Coming, JoinedByReplay
    <3>2. CASE publication # NoFact
      <4>1. publication' = Mixed /\ Coming(h)' = Joined(queued[h], Mixed)
        BY <2>1, <3>2, FactTypes DEF Coming, JoinedByReplay
      <4>. QED  BY <1>1, <4>1, JoinedFacts, FactTypes
    <3>. QED  BY <3>1, <3>2
  <2>5. h \notin blurred => Mirrors(h, K, data, Coming(h)')
    BY <1>10, <1>11, <1>12, <1>14, <2>2, <2>3, <2>4 DEF Mirrors, Settles
  <2>. QED  BY <1>9, <1>11, <1>13, <1>14, <2>1, <2>2, <2>5, ReplayIsSilent DEF G, e
<1>. QED  BY <1>15, <1>16

(* A replay through restore() leaves the state that it takes for its baseline. *)
LEMMA ReplayByRestoreProceeds ==
  ASSUME HistoryInv, NEW h \in Histories, histories[h].attached, NEW inverse \in BOOLEAN,
         Replayable(Settled(h), inverse) # <<>>,
         ReplayByRestore(h, Moved(Settled(h), inverse), Last(Replayable(Settled(h), inverse)), inverse),
         UNCHANGED <<policy, transaction, blurred>>
  PROVE  Proceeds /\ (h \notin blurred => Arrives(h, inverse))
<1> DEFINE G == Settled(h)
           M == Moved(G, inverse)
           e == Last(Replayable(G, inverse))
           s == Beyond(e, M.baseline, inverse)
           K == [M EXCEPT !.owner = M.calls, !.baseline = s]
           ps == Diff(data, s)
<1>1. HistoryTypeOK /\ histories[h] \in HistoryType /\ data \in States
  BY UnblurredFacts DEF HistoryInv
<1>2. G \in HistoryType /\ ~HasPending(G) /\ G.attached /\ G.calls \in Nat /\ G.baseline \in States
  BY <1>1, SettledFields, HistoryFields
<1>3. /\ M \in HistoryType /\ M.attached /\ M.baseline = G.baseline /\ ~HasPending(M) /\ e \in Entries
  BY <1>2, MovedFields DEF HasPending
<1>4. s \in States /\ M.calls \in Nat
  BY <1>2, <1>3, BeyondType, HistoryFields
<1>5. /\ IF s # data THEN Emit([Told(ps) EXCEPT ![h] = K], s, ReplayFact(h, M.calls))
         ELSE histories' = [Told(ps) EXCEPT ![h] = K] /\ UNCHANGED <<data, publication, batched, queued>>
      /\ Replayable(G, inverse) # <<>>
  BY DEF ReplayByRestore
<1>6. ps \in Patches /\ Changing(ps) /\ LeadsTo(ps, data, s) /\ (s = data => ps = <<>>)
  BY <1>1, <1>4, DiffLemma, DiffNothing
<1> HIDE DEF s
<1>7. /\ K \in HistoryType /\ K.attached /\ K.past = M.past /\ K.future = M.future /\ Settles(K, s)
      /\ K.baseline = s
  <2> HIDE DEF M
  <2>. QED  BY <1>3, <1>4 DEF HistoryType, Settles, HasPending
<1> HIDE DEF K
<1>8. Crosses(G, K, e, inverse)
  BY <1>3, <1>7 DEF Crosses, s
<1>9. \A c : Mirrors(h, K, s, c)
  BY <1>4, <1>7, SettledMirrors
<1> HIDE DEF M, e, G, ps
<1>10. CASE s # data
  <2>1. Emit([Told(ps) EXCEPT ![h] = K], s, ReplayFact(h, M.calls))
    BY <1>5, <1>10
  <2>. QED  BY <1>4, <1>5, <1>6, <1>7, <1>8, <1>9, <2>1, ReplayEmits DEF G, e
<1>11. CASE s = data
  <2>1. /\ histories' = [Told(<<>>) EXCEPT ![h] = K]
        /\ UNCHANGED <<data, publication, batched, queued>>
    BY <1>5, <1>6, <1>11
  <2>. QED  BY <1>5, <1>7, <1>8, <1>9, <1>11, <2>1, ReplayIsSilent DEF G, e
<1>. QED  BY <1>10, <1>11

(* undo() and redo(). *)
LEMMA ReplayProceeds ==
  ASSUME HistoryInv, NEW h \in Histories, NEW inverse \in BOOLEAN, Replay(h, inverse)
  PROVE  Proceeds /\ (h \notin blurred => Arrives(h, inverse)) /\ Replayable(Settled(h), inverse) # <<>>
<1>1. /\ histories[h].attached /\ UNCHANGED <<policy, transaction, blurred>>
      /\ Replayable(Settled(h), inverse) # <<>>
  BY DEF Replay, Calls
<1>2. CASE OnDraft(Last(Replayable(Settled(h), inverse)))
  <2>1. /\ Last(Replayable(Settled(h), inverse)).kind = "patches"
        /\ ReplayOnDraft(h, Moved(Settled(h), inverse), Last(Replayable(Settled(h), inverse)), inverse)
    BY <1>2 DEF Replay, OnDraft
  <2>. QED  BY <1>1, <2>1, ReplayOnDraftProceeds
<1>3. CASE ~OnDraft(Last(Replayable(Settled(h), inverse)))
  <2>1. ReplayByRestore(h, Moved(Settled(h), inverse), Last(Replayable(Settled(h), inverse)), inverse)
    BY <1>3 DEF Replay
  <2>. QED  BY <1>1, <2>1, ReplayByRestoreProceeds
<1>. QED  BY <1>2, <1>3

-----------------------------------------------------------------------------
(***************************************************************************)
(* The theorems.                                                           *)
(***************************************************************************)

(* At first. *)
LEMMA InitMirrors ==
  ASSUME Init
  PROVE  HistoryInv /\ \A h \in Histories : Line(h)!TimelineInit
<1>1. Initial \in States /\ policy \in [deferring : BOOLEAN, overridden : BOOLEAN]
  BY HistoryAssumption DEF Init, States
<1>2. PICK first \in Histories : histories = [h \in Histories |-> Fresh(data, h = first)]
  BY DEF Init
<1>3. ASSUME NEW h \in Histories
      PROVE  /\ histories[h] \in HistoryType /\ histories[h].past = <<>> /\ histories[h].future = <<>>
             /\ Settles(histories[h], data) /\ Lined(histories[h])
  BY <1>1, <1>2, FreshFields DEF Init
<1>4. /\ data = Initial /\ publication = NoFact /\ transaction = FALSE /\ batched = FALSE
      /\ queued = [h \in Histories |-> NoFact] /\ blurred = {}
  BY DEF Init
<1>5. HistoryTypeOK
  BY <1>1, <1>2, <1>3, <1>4, FactTypes DEF HistoryTypeOK
<1>6. Waiting
  BY <1>4 DEF Waiting
<1>7. Mirroring
  BY <1>1, <1>3, <1>4, SettledMirrors DEF Mirroring
<1>8. ASSUME NEW h \in Histories PROVE Line(h)!TimelineInit
  <2>1. StepsOf(histories[h]) = <<histories[h].baseline>> /\ histories[h].baseline \in States
    BY <1>3, FreshLine, HistoryFields
  <2>2. Len(histories[h].past) + 1 = 1
    BY <1>3
  <2>. QED  BY <2>1, <2>2 DEF Line!TimelineInit
<1>. QED  BY <1>5, <1>6, <1>7, <1>8 DEF HistoryInv

(* Every action keeps the invariant and moves along the lines. *)
LEMMA NextProceeds ==
  ASSUME HistoryInv, Next
  PROVE  Proceeds
<1>1. CASE \E p \in Places, v \in Values : Update(p, v)
  BY <1>1, UpdateProceeds
<1>2. CASE \E p \in Unseen, v \in Values : RawWrite(p, v)
  BY <1>2, RawWriteProceeds
<1>3. CASE \E s \in Roots : Install(s)
  BY <1>3, InstallProceeds
<1>4. CASE InstallEqual
  BY <1>4, InstallEqualProceeds
<1>5. CASE Begin
  BY <1>5, BeginProceeds
<1>6. CASE End
  BY <1>6, EndProceeds
<1>7. ASSUME NEW h \in Histories,
             \/ Deliver(h) \/ ReplayNothing(h) \/ Clear(h) \/ Connect(h) \/ Disconnect(h)
             \/ \E inverse \in BOOLEAN : Replay(h, inverse) \/ Refused(h, inverse)
      PROVE  Proceeds
  <2>1. CASE Deliver(h)
    BY <2>1, DeliverProceeds
  <2>2. CASE ReplayNothing(h)
    BY <2>2, ReplayNothingProceeds
  <2>3. CASE Clear(h)
    BY <2>3, ClearProceeds
  <2>4. CASE Connect(h)
    BY <2>4, ConnectProceeds
  <2>5. CASE Disconnect(h)
    BY <2>5, DisconnectProceeds
  <2>6. CASE \E inverse \in BOOLEAN : Replay(h, inverse)
    BY <2>6, ReplayProceeds
  <2>7. CASE \E inverse \in BOOLEAN : Refused(h, inverse)
    BY <2>7, RefusedProceeds
  <2>. QED  BY <1>7, <2>1, <2>2, <2>3, <2>4, <2>5, <2>6, <2>7
<1>. QED  BY <1>1, <1>2, <1>3, <1>4, <1>5, <1>6, <1>7 DEF Next

(* Every step keeps the invariant and moves along the lines. *)
LEMMA StepProceeds ==
  ASSUME HistoryInv, [Next]_vars
  PROVE  Proceeds
<1>1. CASE Next
  BY <1>1, NextProceeds
<1>2. CASE UNCHANGED vars
  <2>1. /\ UNCHANGED <<policy, data, publication, transaction, batched, histories, queued, blurred>>
    BY <1>2 DEF vars
  <2>2. HistoryTypeOK' /\ Waiting'
    BY <2>1 DEF HistoryInv, HistoryTypeOK, Waiting
  <2>3. \A g : Coming(g)' = Coming(g)
    BY <2>1 DEF Coming
  <2>4. Mirroring'
    BY <2>1, <2>3 DEF HistoryInv, Mirroring
  <2>5. ASSUME NEW h \in Histories PROVE Advances(h)
    BY <2>1 DEF Advances, Line!timelineVars
  <2>. QED  BY <2>2, <2>4, <2>5 DEF Proceeds, HistoryInv
<1>. QED  BY <1>1, <1>2

(***************************************************************************)
(* The invariant of CarburetorHistory: a history that is attached mirrors  *)
(* the state but for what it has collected, and knows of what is on its    *)
(* way; the entries of each history lead from state to state in both       *)
(* directions.                                                             *)
(***************************************************************************)
THEOREM HistoryInvariant == Spec => []HistoryInv
<1>1. Init => HistoryInv
  BY InitMirrors
<1>2. HistoryInv /\ [Next]_vars => HistoryInv'
  BY StepProceeds DEF Proceeds
<1>. QED  BY <1>1, <1>2, PTL DEF Spec

(* Nothing that a publication brought escapes the history (record()): once
   delivered, there is nothing pending, and the baseline is the state. *)
THEOREM NothingIsMissed == Spec => []NothingEscapes
<1>1. HistoryInv => NothingEscapes
  <2> SUFFICES ASSUME HistoryInv, NEW h \in Histories \ blurred,
                      ~transaction, queued[h] = NoFact, histories[h].attached
               PROVE  ~HasPending(histories[h]) /\ histories[h].baseline = data
    BY DEF NothingEscapes
  <2>1. Coming(h) = NoFact
    BY DEF HistoryInv, Waiting, Coming
  <2>. QED  BY <2>1 DEF HistoryInv, Mirroring, Mirrors, Settles
<1>. QED  BY <1>1, HistoryInvariant, PTL

(* What record() takes for granted of the fact that reaches it is true of it. *)
THEOREM FactsSayWhatHappened == Spec => []FactsAreExact
<1>1. HistoryInv => FactsAreExact
  <2> SUFFICES ASSUME HistoryInv, NEW h \in Histories \ blurred, histories[h].attached
               PROVE  /\ queued[h] # NoFact /\ ~transaction => FactHolds(h, queued[h])
                      /\ publication # NoFact /\ ~policy.deferring => FactHolds(h, publication)
    BY DEF FactsAreExact
  <2>1. Mirrors(h, histories[h], data, Coming(h))
    BY DEF HistoryInv, Mirroring
  <2>2. ASSUME NEW c, c # NoFact, Mirrors(h, histories[h], data, c) PROVE FactHolds(h, c)
    <3>1. CASE Own(h, c)
      BY <2>2, <3>1 DEF FactHolds, Mirrors, Own
    <3>2. CASE ~Own(h, c)
      <4> SUFFICES ASSUME histories[h].owner = 0, ~NeedsSnapshot(histories[h], c)
                   PROVE  Patched(histories[h].baseline, histories[h].patches) = data
        BY <3>2 DEF FactHolds, Own
      <4>1. ~AttemptOf(histories[h]) /\ ~histories[h].opaque
        BY DEF AttemptOf, NeedsSnapshot
      <4>. QED  BY <2>2, <4>1 DEF Mirrors, LeadsTo
    <3>. QED  BY <3>1, <3>2
  <2>3. queued[h] # NoFact /\ ~transaction => Coming(h) = queued[h]
    BY DEF HistoryInv, Waiting, Coming
  <2>4. publication # NoFact /\ ~policy.deferring => Coming(h) = publication
    <3>1. queued[h] \in Facts /\ publication \in Facts
      BY UnblurredFacts
    <3>. QED  BY <3>1, JoinedFacts DEF HistoryInv, Waiting, Coming
  <2>. QED  BY <2>1, <2>2, <2>3, <2>4
<1>. QED  BY <1>1, HistoryInvariant, PTL

(* Each history implements the timeline that its user sees, whatever is
   deferred, coalesced or replayed by another history meanwhile. *)
THEOREM EachHistoryIsATimeline == Spec => IsTimeline
<1>1. Init => \A h \in Histories : Line(h)!TimelineInit
  BY InitMirrors
<1>2. HistoryInv /\ [Next]_vars =>
        [\A h \in Histories : h \in blurred' \/ UNCHANGED Line(h)!timelineVars \/ Line(h)!TimelineNext]_vars
  BY StepProceeds DEF Proceeds, Advances
<1>. QED  BY <1>1, <1>2, HistoryInvariant, PTL DEF Spec, IsTimeline

(* A replay leaves the state it went to, one step beside the one it came from. *)
THEOREM ReplaysCanBeTakenBack == Spec => ReplaysAreReversible
<1>1. ASSUME HistoryInv, NEW h \in Histories, NEW inverse \in BOOLEAN,
             Replay(h, inverse), ~AttemptOf(histories[h]), h \notin blurred
      PROVE  histories'[h].baseline = data' /\ Across(h, inverse)' = data
  <2> DEFINE G == Settled(h)
             n == Len(G.past)
  <2>1. /\ Arrives(h, inverse) /\ Replayable(G, inverse) # <<>> /\ HistoryTypeOK
        /\ histories[h].attached
    BY <1>1, ReplayProceeds DEF Replay, HistoryInv
  <2>2. G.baseline = data /\ Lined(G) /\ G \in HistoryType
    BY <1>1, <2>1, SettledLine, SettledFields
  <2>3. n \in Nat /\ StepsOf(G)[n + 1] = data
    BY <2>2, LineLength
  <2>4. /\ histories'[h].baseline = data' /\ StepsOf(histories'[h]) = StepsOf(G)
        /\ Len(histories'[h].past) = IF inverse THEN n - 1 ELSE n + 1
    BY <2>1, <2>2 DEF Arrives
  <2> HIDE DEF G, n
  <2>5. n - 1 + 1 + 1 = n + 1 /\ n + 1 + 1 - 1 = n + 1
    BY <2>3
  <2>6. Across(h, inverse)' =
          StepsOf(histories'[h])[IF inverse THEN Len(histories'[h].past) + 1 + 1
                                 ELSE Len(histories'[h].past) + 1 - 1]
    BY DEF Across
  <2>. QED  BY <2>3, <2>4, <2>5, <2>6
<1>2. HistoryInv /\ [Next]_vars =>
        [\A h \in Histories, inverse \in BOOLEAN :
           Replay(h, inverse) /\ ~AttemptOf(histories[h]) /\ h \notin blurred =>
             histories'[h].baseline = data' /\ Across(h, inverse)' = data]_vars
  BY <1>1
<1>. QED  BY <1>2, HistoryInvariant, PTL DEF Spec, ReplaysAreReversible
=============================================================================
