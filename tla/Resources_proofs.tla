--------------------------- MODULE Resources_proofs ---------------------------
(***************************************************************************)
(* What a slot promises its callers, for any loader keys, any number of    *)
(* operations and callbacks nested to any depth: a late answer is ignored, *)
(* every promise that was handed out ends, Pending has a loader behind it, *)
(* and nothing is served under a key it was not loaded for.  The proofs    *)
(* look at the frames of the call stack as a set; all they need of its     *)
(* order is that of two operations on the stack the one above took the     *)
(* slot later.                                                             *)
(*                                                                         *)
(* The last part carries this, and what ResourceCache_proofs says of the   *)
(* cache, over to the two of them side by side (MCResources).              *)
(***************************************************************************)
EXTENDS MCResources, SequenceTheorems, TLAPS

FramesOf(s) == {s[i] : i \in 1..Len(s)}

Ordered(s) ==
  \A i, j \in 1..Len(s) :
    i < j /\ s[i].kind # "call" /\ s[j].kind # "call" => s[i].op < s[j].op

Stack(s) == s \in Seq(FramesOf(s)) /\ Ordered(s)

\* Every operation in F took the slot before g.
AllBefore(F, g) == \A f \in F : f.kind # "call" /\ g.kind # "call" => f.op < g.op

-----------------------------------------------------------------------------
(***************************************************************************)
(* Stacks.                                                                 *)
(***************************************************************************)
LEMMA EmptyLemma == Stack(<<>>) /\ FramesOf(<<>>) = {}
BY DEF Stack, FramesOf, Ordered

LEMMA PushLemma ==
  ASSUME NEW s, Stack(s), NEW g, AllBefore(FramesOf(s), g)
  PROVE  /\ Stack(Append(s, g))
         /\ FramesOf(Append(s, g)) = FramesOf(s) \cup {g}
         /\ Append(s, g) = s \o <<g>>
<1> DEFINE F == FramesOf(s) \cup {g}
           t == Append(s, g)
<1>1. s \in Seq(F) /\ g \in F
  <2>1. s \in Seq(FramesOf(s)) /\ FramesOf(s) \subseteq F
    BY DEF Stack
  <2>. QED  BY <2>1, SeqMonotonic
<1>2. /\ t \in Seq(F) /\ Len(t) = Len(s) + 1 /\ Len(s) \in Nat
      /\ \A i \in 1..Len(s) : t[i] = s[i]
      /\ t[Len(s) + 1] = g
  <2>. HIDE DEF F
  <2>. QED  BY <1>1, AppendProperties, LenProperties
<1>3. FramesOf(t) = F
  <2>1. ASSUME NEW f \in FramesOf(t) PROVE f \in F
    <3>1. PICK i \in 1..Len(s) + 1 : f = t[i]
      BY <1>2, <2>1 DEF FramesOf
    <3>. HIDE DEF t
    <3>2. CASE i = Len(s) + 1
      BY <1>2, <3>1, <3>2
    <3>3. CASE i # Len(s) + 1
      <4>1. i \in 1..Len(s)
        BY <1>2, <3>3
      <4>. QED  BY <1>2, <3>1, <4>1 DEF FramesOf
    <3>. QED  BY <3>2, <3>3
  <2>2. ASSUME NEW f \in FramesOf(s) PROVE f \in FramesOf(t)
    <3>1. PICK i \in 1..Len(s) : f = s[i]
      BY <2>2 DEF FramesOf
    <3>2. i \in 1..Len(t) /\ t[i] = f
      <4>. HIDE DEF t
      <4>. QED  BY <1>2, <3>1
    <3>. QED  BY <3>2 DEF FramesOf
  <2>3. g \in FramesOf(t)
    <3>1. Len(s) + 1 \in 1..Len(t) /\ t[Len(s) + 1] = g
      <4>. HIDE DEF t
      <4>. QED  BY <1>2
    <3>. QED  BY <3>1 DEF FramesOf
  <2>. QED  BY <2>1, <2>2, <2>3
<1>4. Ordered(t)
  <2>. SUFFICES ASSUME NEW i \in 1..Len(t), NEW j \in 1..Len(t), i < j,
                       t[i].kind # "call", t[j].kind # "call"
                PROVE  t[i].op < t[j].op
    BY DEF Ordered
  <2>. HIDE DEF t
  <2>1. i \in 1..Len(s) /\ t[i] = s[i] /\ s[i] \in FramesOf(s)
    <3>1. i \in 1..Len(s)
      BY <1>2
    <3>. QED  BY <1>2, <3>1 DEF FramesOf
  <2>2. CASE j = Len(s) + 1
    BY <1>2, <2>1, <2>2 DEF AllBefore
  <2>3. CASE j # Len(s) + 1
    <3>1. j \in 1..Len(s) /\ t[j] = s[j]
      BY <1>2, <2>3
    <3>. QED  BY <2>1, <3>1 DEF Stack, Ordered
  <2>. QED  BY <2>2, <2>3
<1>5. t = s \o <<g>>
  <2>. HIDE DEF F
  <2>. QED  BY <1>1, AppendIsConcat
<1>. QED  BY <1>2, <1>3, <1>4, <1>5 DEF Stack

LEMMA PopLemma ==
  ASSUME NEW s, Stack(s), s # <<>>
  PROVE  /\ Stack(Front(s))
         /\ FramesOf(s) = FramesOf(Front(s)) \cup {Last(s)}
         /\ AllBefore(FramesOf(Front(s)), Last(s))
<1> DEFINE F == FramesOf(s)
           t == Front(s)
           n == Len(s)
<1>1. s \in Seq(F) /\ n \in Nat /\ n > 0
  <2>1. s \in Seq(F)
    BY DEF Stack
  <2>. HIDE DEF F
  <2>. QED  BY <2>1, EmptySeq, LenProperties
<1>2. t \in Seq(F) /\ Len(t) = n - 1 /\ \A i \in 1..n - 1 : t[i] = s[i]
  <2>1. 1 \in 1..n + 1 /\ n - 1 \in 0..n /\ t = SubSeq(s, 1, n - 1)
    BY <1>1 DEF Front
  <2>. HIDE DEF F, t
  <2>2. /\ SubSeq(s, 1, n - 1) \in Seq(F)
        /\ Len(SubSeq(s, 1, n - 1)) = IF 1 <= n - 1 THEN (n - 1) - 1 + 1 ELSE 0
        /\ \A i \in 1..(n - 1) - 1 + 1 : SubSeq(s, 1, n - 1)[i] = s[1 + i - 1]
    BY <1>1, <2>1, SubSeqProperties
  <2>. HIDE DEF n
  <2>3. Len(t) = n - 1
    BY <1>1, <2>1, <2>2
  <2>4. ASSUME NEW i \in 1..n - 1 PROVE t[i] = s[i]
    <3>1. i \in 1..(n - 1) - 1 + 1 /\ 1 + i - 1 = i
      BY <1>1, <2>4
    <3>. QED  BY <2>1, <2>2, <3>1
  <2>. QED  BY <2>1, <2>2, <2>3, <2>4
<1>3. \A i \in 1..n - 1 : i \in 1..n /\ t[i] = s[i]
  BY <1>1, <1>2
<1>4. FramesOf(t) = {s[i] : i \in 1..n - 1}
  BY <1>2 DEF FramesOf
<1>5. F = FramesOf(t) \cup {Last(s)}
  <2>1. 1..n = (1..n - 1) \cup {n}
    <3>. HIDE DEF n
    <3>. QED  BY <1>1
  <2>2. F = {s[i] : i \in 1..n} /\ Last(s) = s[n]
    BY DEF FramesOf, Last
  <2>. QED  BY <1>4, <2>1, <2>2
<1>6. AllBefore(FramesOf(t), Last(s))
  <2>. SUFFICES ASSUME NEW i \in 1..n - 1, s[i].kind # "call", s[n].kind # "call"
                PROVE  s[i].op < s[n].op
    BY <1>4 DEF AllBefore, Last
  <2>1. i \in 1..n /\ n \in 1..n /\ i < n
    <3>. HIDE DEF n
    <3>. QED  BY <1>1
  <2>. QED  BY <2>1 DEF Stack, Ordered
<1>7. Ordered(t)
  BY <1>2, <1>3 DEF Stack, Ordered
<1>8. t \in Seq(FramesOf(t))
  <2>1. t = [i \in 1..n - 1 |-> t[i]] /\ n - 1 \in Nat
    <3>. HIDE DEF t, F, n
    <3>. QED  BY <1>1, <1>2
  <2>2. \A i \in 1..n - 1 : t[i] \in FramesOf(t)
    BY <1>2 DEF FramesOf
  <2>. HIDE DEF t, F, n
  <2>. QED  BY <2>1, <2>2
<1>. QED  BY <1>5, <1>6, <1>7, <1>8 DEF Stack

\* Application code is called on top of s, or not.
LEMMA CallsLemma ==
  ASSUME NEW s, Stack(s), NEW c, c = <<>> \/ c = <<CallFrame>>
  PROVE  /\ Stack(s \o c)
         /\ FramesOf(s) \subseteq FramesOf(s \o c)
         /\ FramesOf(s \o c) \subseteq FramesOf(s) \cup {CallFrame}
<1>1. CASE c = <<>>
  BY <1>1, ConcatEmptySeq DEF Stack
<1>2. CASE c = <<CallFrame>>
  <2>1. AllBefore(FramesOf(s), CallFrame)
    BY DEF AllBefore, CallFrame
  <2>. QED  BY <1>2, <2>1, PushLemma
<1>. QED  BY <1>1, <1>2

-----------------------------------------------------------------------------
(***************************************************************************)
(* The shape of the slot.  Answers are not typed, because nothing is said  *)
(* of their contents here.                                                 *)
(***************************************************************************)
IsState(t) ==
  /\ t = [root |-> t.root, locked |-> t.locked, status |-> t.status, data |-> t.data,
          at |-> t.at]
  /\ t.root \in Nat

\* A frame that was pushed when the slot had been taken at most v times.
IsFrame(f, v) ==
  \/ f = CallFrame
  \/ /\ f.kind # "call"
     /\ f.op \in 1..v
     /\ f.kind \in {"start", "publish", "recover", "load"} => f.superseded \in 0..f.op - 1
     /\ f.kind = "start" => f.key \in Keys /\ f.background \in BOOLEAN
     /\ f.kind \in {"publish", "recover"} =>
          /\ f = [kind |-> f.kind, op |-> f.op, superseded |-> f.superseded,
                  previous |-> f.previous, prior |-> f.prior, deferred |-> f.deferred]
          /\ IsState(f.previous)

Frames == FramesOf(stack)

Shape ==
  /\ operationVersion \in 0..MaxOps
  /\ request \in {0, operationVersion}
  /\ requests \in [Requests -> Request]
  /\ IsState(state)
  /\ Stack(stack)
  /\ \A f \in Frames : IsFrame(f, operationVersion)

LEMMA BoundsLemma == MaxOps \in Nat /\ Requests = 1..MaxOps /\ NoKey \notin Keys
BY SlotAssumption DEF Requests

LEMMA CallbacksLemma ==
  ASSUME NEW t, NEW keyMoved
  PROVE  Callbacks(t, keyMoved) = <<>> \/ Callbacks(t, keyMoved) = <<CallFrame>>
BY DEF Callbacks

\* The frame on top returns, and application code may be called.
LEMMA PoppedLemma ==
  ASSUME Shape, stack # <<>>, NEW c, c = <<>> \/ c = <<CallFrame>>
  PROVE  /\ Stack(Below \o c)
         /\ Top \in Frames
         /\ Frames \subseteq FramesOf(Below \o c) \cup {Top}
         /\ FramesOf(Below \o c) \subseteq Frames \cup {CallFrame}
<1>1. /\ Stack(Below)
      /\ Frames = FramesOf(Below) \cup {Top}
  BY PopLemma DEF Shape, Frames, Below, Top
<1>2. /\ Stack(Below \o c)
      /\ FramesOf(Below) \subseteq FramesOf(Below \o c)
      /\ FramesOf(Below \o c) \subseteq FramesOf(Below) \cup {CallFrame}
  BY <1>1, CallsLemma
<1>. QED  BY <1>1, <1>2

LEMMA BelowLemma ==
  ASSUME Shape, stack # <<>>
  PROVE  /\ Stack(Below)
         /\ Top \in Frames
         /\ Frames = FramesOf(Below) \cup {Top}
         /\ AllBefore(FramesOf(Below), Top)
         /\ IsFrame(Top, operationVersion)
<1>1. /\ Stack(Below)
      /\ Frames = FramesOf(Below) \cup {Top}
      /\ AllBefore(FramesOf(Below), Top)
  BY PopLemma DEF Shape, Frames, Below, Top
<1>. QED  BY <1>1 DEF Shape

\* The operation on top goes on as g.
LEMMA ReplacedLemma ==
  ASSUME Shape, stack # <<>>, Top.kind # "call",
         NEW g, g.kind # "call", g.op = Top.op, NEW c, c = <<>> \/ c = <<CallFrame>>
  PROVE  /\ Stack(Append(Below, g) \o c)
         /\ Append(Below, g) = Below \o <<g>>
         /\ g \in FramesOf(Append(Below, g) \o c)
         /\ Frames \subseteq FramesOf(Append(Below, g) \o c) \cup {Top}
         /\ \A f \in FramesOf(Append(Below, g) \o c) :
              \/ f = g
              \/ f = CallFrame
              \/ f \in Frames /\ (f.kind # "call" => f.op < g.op)
<1>1. AllBefore(FramesOf(Below), g)
  BY BelowLemma DEF AllBefore
<1>2. /\ Stack(Append(Below, g))
      /\ Append(Below, g) = Below \o <<g>>
      /\ FramesOf(Append(Below, g)) = FramesOf(Below) \cup {g}
  BY <1>1, BelowLemma, PushLemma
<1>3. /\ Stack(Append(Below, g) \o c)
      /\ FramesOf(Below) \cup {g} \subseteq FramesOf(Append(Below, g) \o c)
      /\ FramesOf(Append(Below, g) \o c) \subseteq FramesOf(Below) \cup {g, CallFrame}
  BY <1>2, CallsLemma
<1>4. \A f \in FramesOf(Below) : f \in Frames /\ (f.kind # "call" => f.op < g.op)
  BY <1>1, BelowLemma DEF AllBefore
<1>. QED  BY <1>2, <1>3, <1>4, BelowLemma

\* A new operation is pushed.
LEMMA PushedLemma ==
  ASSUME Shape, NEW g, g.kind # "call", g.op \in Nat,
         g.op > operationVersion \/ stack = <<>>,
         NEW c, c = <<>> \/ c = <<CallFrame>>
  PROVE  /\ Stack(stack \o <<g>> \o c)
         /\ g \in FramesOf(stack \o <<g>> \o c)
         /\ Frames \subseteq FramesOf(stack \o <<g>> \o c)
         /\ FramesOf(stack \o <<g>> \o c) \subseteq Frames \cup {g, CallFrame}
         /\ stack = <<>> => stack \o <<g>> = <<g>>
<1>1. AllBefore(Frames, g)
  <2>1. CASE stack = <<>>
    BY <2>1, EmptyLemma DEF AllBefore, Frames
  <2>2. CASE g.op > operationVersion
    <3>1. \A f \in Frames : f.kind # "call" => f.op \in 1..operationVersion
      BY DEF Shape, IsFrame, CallFrame
    <3>. SUFFICES ASSUME NEW f \in Frames, f.kind # "call", Stack(stack)
                  PROVE  f.op < g.op
      BY DEF AllBefore, Shape
    <3>2. f.op \in 1..operationVersion /\ operationVersion \in 0..MaxOps /\ MaxOps \in Nat
      BY <3>1, BoundsLemma DEF Shape
    <3>. QED  BY <2>2, <3>2
  <2>. QED  BY <2>1, <2>2
<1>2. /\ Stack(stack \o <<g>>)
      /\ FramesOf(stack \o <<g>>) = Frames \cup {g}
  BY <1>1, PushLemma DEF Shape, Frames
<1>3. /\ Stack(stack \o <<g>> \o c)
      /\ Frames \cup {g} \subseteq FramesOf(stack \o <<g>> \o c)
      /\ FramesOf(stack \o <<g>> \o c) \subseteq Frames \cup {g, CallFrame}
  BY <1>2, CallsLemma
<1>4. stack = <<>> => stack \o <<g>> = <<g>>
  OBVIOUS
<1>. QED  BY <1>3, <1>4

-----------------------------------------------------------------------------
(***************************************************************************)
(* The steps, as far as the stack is concerned.                            *)
(***************************************************************************)
\* A step that pops, or goes on, without taking the slot, keeps the frames well
\* formed.
LEMMA FramesStep ==
  ASSUME Shape, Stack(stack'), NEW g,
         operationVersion' \in 0..MaxOps, operationVersion <= operationVersion',
         IsFrame(g, operationVersion'),
         Frames' \subseteq Frames \cup {g, CallFrame}
  PROVE  \A f \in Frames' : IsFrame(f, operationVersion)'
<1>. SUFFICES ASSUME NEW f \in Frames'
              PROVE  IsFrame(f, operationVersion')
  OBVIOUS
<1>1. operationVersion \in Nat /\ operationVersion' \in Nat
  BY BoundsLemma DEF Shape
<1>2. CASE f = g \/ f = CallFrame
  BY <1>2 DEF IsFrame
<1>3. CASE f \in Frames
  <2>1. IsFrame(f, operationVersion)
    BY <1>3 DEF Shape
  <2>. QED  BY <1>1, <2>1 DEF IsFrame
<1>. QED  BY <1>2, <1>3

LEMMA TakeOverLemma ==
  ASSUME Shape, NEW g, TakeOver(g), g.kind # "call", g.op = operationVersion + 1,
         IsFrame(g, operationVersion + 1)
  PROVE  /\ operationVersion' = operationVersion + 1
         /\ operationVersion' \in 0..MaxOps /\ operationVersion < operationVersion'
         /\ request' = 0
         /\ Stack(stack')
         /\ g \in Frames'
         /\ Frames \subseteq Frames'
         /\ Frames' \subseteq Frames \cup {g, CallFrame}
         /\ \A f \in Frames' : IsFrame(f, operationVersion)'
<1> DEFINE c == IF request = 0 THEN <<>> ELSE <<CallFrame>>
<1>1. /\ operationVersion' = operationVersion + 1 /\ request' = 0
      /\ stack' = stack \o <<g>> \o c
      /\ c = <<>> \/ c = <<CallFrame>>
      /\ operationVersion < MaxOps
  BY DEF TakeOver
<1>2. operationVersion' \in 0..MaxOps /\ operationVersion < operationVersion' /\ g.op \in Nat
      /\ g.op > operationVersion
  BY <1>1, BoundsLemma DEF Shape
<1>. HIDE DEF c
<1>3. /\ Stack(stack')
      /\ g \in Frames'
      /\ Frames \subseteq Frames'
      /\ Frames' \subseteq Frames \cup {g, CallFrame}
  BY <1>1, <1>2, PushedLemma DEF Frames
<1>4. IsFrame(g, operationVersion') /\ operationVersion <= operationVersion'
  BY <1>1, BoundsLemma DEF Shape
<1>5. \A f \in Frames' : IsFrame(f, operationVersion)'
  BY <1>2, <1>3, <1>4, FramesStep
<1>. QED  BY <1>1, <1>2, <1>3, <1>5

-----------------------------------------------------------------------------
(***************************************************************************)
(* The inductive invariant.  An open promise has a loader, or a frame that *)
(* will settle it or call the loader; a promise follows a later one only.  *)
(* While Pending is shown, the request that owns the slot has a loader or  *)
(* a frame that goes on with it; if none owns it, the operation that took  *)
(* the slot last is on the stack, and will say something else unless a     *)
(* state installed meanwhile has done so.                                  *)
(***************************************************************************)
Finishing == {"publish", "recover", "load", "describe"}
Working == {"publish", "load", "describe"}
Replacing == {"abort", "clear", "restore", "recall"}

Promises ==
  \A r \in Requests :
    /\ requests[r].promise = "open" =>
         \/ requests[r].loader = "running"
         \/ \E f \in Frames : f.kind \in Finishing /\ f.op = r
    /\ requests[r].promise = "follows" => requests[r].successor > r

\* The root of the object that Pending was written to when p was shown.
PutBack(p) == IF p.locked THEN p.root + 1 ELSE p.root

Resumes(f) ==
  \/ f.kind \in Replacing /\ f.op = operationVersion
  \/ f.kind = "start" /\ f.op = operationVersion /\ state.root = f.before
  \/ f.kind = "recover" /\ f.op = operationVersion /\ state.root = PutBack(f.previous)

Works(f) == f.kind \in Working /\ f.op = request

ShowsPending == ~disposed /\ ~stranded /\ state.status = "Pending"

Awaited ==
  ShowsPending =>
    /\ request # 0 => requests[request].loader = "running" \/ \E f \in Frames : Works(f)
    /\ request = 0 => \E f \in Frames : Resumes(f)
    /\ \A f \in Frames : f.kind = "publish" /\ f.op = request => state.root = PutBack(f.previous)

IInv == Shape /\ Promises /\ Awaited

-----------------------------------------------------------------------------
(***************************************************************************)
(* What most steps leave as it was.                                        *)
(***************************************************************************)
LEMMA EditLemma ==
  ASSUME NEW t, IsState(t), NEW a, NEW b, NEW c
  PROVE  /\ IsState([t EXCEPT !.status = a])
         /\ [t EXCEPT !.status = a].status = a /\ [t EXCEPT !.status = a].root = t.root
         /\ IsState([t EXCEPT !.data = b])
         /\ [t EXCEPT !.data = b].status = t.status /\ [t EXCEPT !.data = b].root = t.root
         /\ IsState([t EXCEPT !.status = a, !.at = c])
         /\ [t EXCEPT !.status = a, !.at = c].status = a
         /\ IsState([t EXCEPT !.status = a, !.data = b, !.at = c])
         /\ [t EXCEPT !.status = a, !.data = b, !.at = c].status = a
<1> DEFINE S == [root : Nat, locked : {t.locked}, status : {t.status, a}, data : {t.data, b},
                 at : {t.at, c}]
<1>1. t \in S
  BY DEF IsState
<1>2. \A u \in S : IsState(u)
  BY DEF IsState
<1>3. /\ [t EXCEPT !.status = a] \in S
      /\ [t EXCEPT !.status = a].status = a /\ [t EXCEPT !.status = a].root = t.root
  BY <1>1
<1>4. /\ [t EXCEPT !.data = b] \in S
      /\ [t EXCEPT !.data = b].status = t.status /\ [t EXCEPT !.data = b].root = t.root
  BY <1>1
<1>5. /\ [t EXCEPT !.status = a, !.at = c] \in S
      /\ [t EXCEPT !.status = a, !.at = c].status = a
  BY <1>1
<1>6. /\ [t EXCEPT !.status = a, !.data = b, !.at = c] \in S
      /\ [t EXCEPT !.status = a, !.data = b, !.at = c].status = a
  BY <1>1
<1>. HIDE DEF S
<1>. QED  BY <1>2, <1>3, <1>4, <1>5, <1>6

LEMMA WritableLemma ==
  ASSUME IsState(state)
  PROVE  IsState(Writable) /\ Writable.root = PutBack(state)
<1> DEFINE S == [root : Nat, locked : {state.locked, FALSE}, status : {state.status},
                 data : {state.data}, at : {state.at}]
<1>1. state \in S /\ PutBack(state) \in Nat
  BY DEF IsState, PutBack
<1>2. \A u \in S : IsState(u)
  BY DEF IsState
<1>3. Writable = [state EXCEPT !.root = PutBack(state), !.locked = FALSE]
  BY <1>1 DEF Writable, PutBack
<1>4. Writable \in S /\ Writable.root = PutBack(state)
  BY <1>1, <1>3
<1>. HIDE DEF S
<1>. QED  BY <1>2, <1>4

LEMMA ShapeKept ==
  ASSUME Shape, operationVersion' = operationVersion, request' \in {0, operationVersion},
         requests' \in [Requests -> Request], IsState(state'), Stack(stack'),
         NEW g, IsFrame(g, operationVersion), Frames' \subseteq Frames \cup {g, CallFrame}
  PROVE  Shape'
<1>1. operationVersion' \in 0..MaxOps /\ operationVersion <= operationVersion'
  BY BoundsLemma DEF Shape
<1>2. \A f \in Frames' : IsFrame(f, operationVersion)'
  BY <1>1, FramesStep
<1>. QED  BY <1>1, <1>2 DEF Shape

LEMMA PromisesKept ==
  ASSUME Promises, requests' = requests,
         \A f \in Frames : f.kind \in Finishing => f \in Frames'
  PROVE  Promises'
BY DEF Promises

LEMMA AwaitedKept ==
  ASSUME Awaited, ShowsPending' => ShowsPending,
         state'.root = state.root, UNCHANGED <<request, operationVersion>>,
         request # 0 /\ requests[request].loader = "running" => requests'[request].loader = "running",
         \A f \in Frames : Works(f) \/ Resumes(f) => f \in Frames',
         \A f \in Frames' : f.kind = "publish" => f \in Frames
  PROVE  Awaited'
<1>. SUFFICES ASSUME ShowsPending'
              PROVE  Awaited'
  BY DEF Awaited
<1>1. \A f : (Works(f) => Works(f)') /\ (Resumes(f) => Resumes(f)')
  BY DEF Works, Resumes
<1>. QED  BY <1>1 DEF Awaited

LEMMA AwaitedNoMore ==
  ASSUME ~ShowsPending'
  PROVE  Awaited'
BY DEF Awaited

\* Application code is called by something that changes the state only.
LEMMA CalledStep ==
  ASSUME IInv, UNCHANGED <<request, operationVersion, requests>>, IsState(state'),
         NEW c, c = <<>> \/ c = <<CallFrame>>, stack' = stack \o c,
         ShowsPending' => ShowsPending /\ state'.root = state.root
  PROVE  IInv'
<1>1. /\ Stack(stack')
      /\ Frames \subseteq Frames'
      /\ Frames' \subseteq Frames \cup {CallFrame}
  BY CallsLemma DEF IInv, Shape, Frames
<1>2. IsFrame(CallFrame, operationVersion)
  BY DEF IsFrame
<1>3. Shape'
  BY <1>1, <1>2, ShapeKept DEF IInv, Shape
<1>4. Promises'
  BY <1>1, PromisesKept DEF IInv
<1>5. Awaited'
  <2>1. \A f \in Frames' : f.kind = "publish" => f \in Frames
    BY <1>1 DEF CallFrame
  <2>2. CASE ShowsPending'
    BY <1>1, <2>1, <2>2, AwaitedKept DEF IInv
  <2>3. CASE ~ShowsPending'
    BY <2>3, AwaitedNoMore
  <2>. QED  BY <2>2, <2>3
<1>. QED  BY <1>3, <1>4, <1>5 DEF IInv

\* A frame returns that settles no promise, and leaves the slot as it is unless
\* something else than Pending is shown.
LEMMA PoppedStep ==
  ASSUME IInv, stack # <<>>, UNCHANGED <<request, operationVersion, requests>>, IsState(state'),
         NEW c, c = <<>> \/ c = <<CallFrame>>, stack' = Below \o c,
         Top.kind \notin Finishing,
         ShowsPending' => ShowsPending /\ state'.root = state.root /\ ~Resumes(Top)
  PROVE  IInv'
<1>1. /\ Stack(stack')
      /\ Top \in Frames
      /\ Frames \subseteq Frames' \cup {Top}
      /\ Frames' \subseteq Frames \cup {CallFrame}
  BY PoppedLemma DEF IInv, Frames
<1>2. IsFrame(CallFrame, operationVersion)
  BY DEF IsFrame
<1>3. Shape'
  BY <1>1, <1>2, ShapeKept DEF IInv, Shape
<1>4. Promises'
  BY <1>1, PromisesKept DEF IInv
<1>5. Awaited'
  <2>1. \A f \in Frames' : f.kind = "publish" => f \in Frames
    BY <1>1 DEF CallFrame
  <2>2. CASE ShowsPending'
    <3>1. \A f \in Frames : Works(f) \/ Resumes(f) => f \in Frames'
      BY <1>1, <2>2 DEF Works, Working, Finishing
    <3>. QED  BY <2>1, <2>2, <3>1, AwaitedKept DEF IInv
  <2>3. CASE ~ShowsPending'
    BY <2>3, AwaitedNoMore
  <2>. QED  BY <2>2, <2>3
<1>. QED  BY <1>3, <1>4, <1>5 DEF IInv

-----------------------------------------------------------------------------
(***************************************************************************)
(* The operations that take the slot.                                      *)
(***************************************************************************)
LEMMA TakeOverStep ==
  ASSUME IInv, NEW g, TakeOver(g), g.kind \in Replacing \cup {"start"},
         g.op = operationVersion + 1, IsFrame(g, operationVersion + 1),
         g.kind = "start" => g.before = state.root,
         UNCHANGED <<state, requests, disposed, stranded>>
  PROVE  IInv'
<1>1. g.kind # "call"
  BY DEF Replacing
<1>2. /\ operationVersion' = operationVersion + 1
      /\ operationVersion' \in 0..MaxOps
      /\ request' = 0
      /\ Stack(stack')
      /\ g \in Frames'
      /\ Frames \subseteq Frames'
      /\ \A f \in Frames' : IsFrame(f, operationVersion)'
  BY <1>1, TakeOverLemma DEF IInv
<1>3. Shape'
  BY <1>2 DEF IInv, Shape
<1>4. Promises'
  BY <1>2, PromisesKept DEF IInv
<1>5. Resumes(g)'
  BY <1>2 DEF Resumes
<1>6. ASSUME NEW f \in Frames', f.kind = "publish" PROVE f.op # 0
  BY <1>2, <1>6 DEF IsFrame, CallFrame
<1>7. Awaited'
  BY <1>2, <1>5, <1>6 DEF Awaited
<1>. QED  BY <1>3, <1>4, <1>7 DEF IInv

LEMMA StartStep ==
  ASSUME IInv, NEW k \in Keys, NEW deferred, NEW background \in BOOLEAN,
         Start(k, deferred, background), UNCHANGED <<state, requests, disposed, stranded>>
  PROVE  IInv'
<1> DEFINE g == [kind |-> "start", op |-> operationVersion + 1, key |-> k,
                 superseded |-> IF Requested(k) THEN request ELSE 0, before |-> state.root,
                 deferred |-> deferred, background |-> background]
<1>1. TakeOver(g) /\ g.kind = "start" /\ g.op = operationVersion + 1 /\ g.before = state.root
  BY DEF Start
<1>2. IsFrame(g, operationVersion + 1)
  <2>1. operationVersion \in Nat /\ request \in 0..operationVersion
    BY BoundsLemma DEF IInv, Shape
  <2>2. g.superseded \in 0..operationVersion
    BY <2>1
  <2>. QED  BY <2>1, <2>2 DEF IsFrame
<1>. HIDE DEF g
<1>. QED  BY <1>1, <1>2, TakeOverStep

LEMMA RecallStep ==
  ASSUME IInv, NEW k, NEW deferred, Recall(k, deferred),
         UNCHANGED <<state, requests, disposed, stranded>>
  PROVE  IInv'
<1> DEFINE g(e) == [kind |-> "recall", op |-> operationVersion + 1, entry |-> e,
                    deferred |-> deferred]
<1>1. PICK e : TakeOver(g(e))
  BY DEF Recall
<1>2. g(e).kind \in Replacing /\ g(e).kind # "start" /\ g(e).op = operationVersion + 1
  BY DEF Replacing
<1>3. IsFrame(g(e), operationVersion + 1)
  BY BoundsLemma DEF IsFrame, IInv, Shape
<1>. HIDE DEF g
<1>. QED  BY <1>1, <1>2, <1>3, TakeOverStep

LEMMA AskStep ==
  ASSUME IInv, NEW k \in Keys, NEW deferred, Ask(k, deferred),
         UNCHANGED <<state, requests, disposed, stranded>>
  PROVE  IInv'
BY StartStep, RecallStep DEF Ask

LEMMA OperationStep ==
  ASSUME IInv, NEW kind \in {"abort", "clear", "restore"}, Operation(kind)
  PROVE  IInv'
<1> DEFINE g == [kind |-> kind, op |-> operationVersion + 1]
<1>1. TakeOver(g) /\ g.kind \in Replacing /\ g.kind # "start" /\ g.op = operationVersion + 1
  BY DEF Operation, Replacing
<1>2. IsFrame(g, operationVersion + 1)
  BY BoundsLemma DEF IsFrame, IInv, Shape
<1>3. UNCHANGED <<state, requests, disposed, stranded>>
  BY DEF Operation
<1>. HIDE DEF g
<1>. QED  BY <1>1, <1>2, <1>3, TakeOverStep

LEMMA DisposeStep ==
  ASSUME IInv, Dispose
  PROVE  IInv'
<1>1. /\ operationVersion' = operationVersion + 1 /\ operationVersion < MaxOps
      /\ request' = 0 /\ disposed' = TRUE
      /\ UNCHANGED <<state, requests, stack>>
  BY DEF Dispose
<1>2. operationVersion' \in 0..MaxOps /\ operationVersion <= operationVersion'
  BY <1>1, BoundsLemma DEF IInv, Shape
<1>3. IsFrame(CallFrame, operationVersion')
  BY DEF IsFrame
<1>4. Stack(stack') /\ Frames' = Frames
  BY <1>1 DEF IInv, Shape, Frames
<1>5. \A f \in Frames' : IsFrame(f, operationVersion)'
  BY <1>2, <1>3, <1>4, FramesStep DEF IInv
<1>6. Shape'
  BY <1>1, <1>2, <1>4, <1>5 DEF IInv, Shape
<1>7. Promises'
  BY <1>1, <1>4, PromisesKept DEF IInv
<1>8. Awaited'
  BY <1>1 DEF Awaited, ShowsPending
<1>. QED  BY <1>6, <1>7, <1>8 DEF IInv

\* The application installs a state, or writes the one there is.
LEMMA WriteStep ==
  ASSUME IInv, Update \/ \E status \in {"Idle", "Success", "Error"} : \E locked : SetData(status, locked)
  PROVE  IInv'
<1>0. state.root \in Nat /\ IsState(state)
  BY DEF IInv, Shape, IsState
<1>1. CASE Update
  <2> DEFINE t == [state EXCEPT !.data = Written]
  <2>1. IsState(t) /\ t.status = state.status /\ t.root = state.root
    BY <1>0, EditLemma
  <2>2. /\ state' = t /\ stack' = stack \o Callbacks(t, FALSE)
        /\ UNCHANGED <<request, operationVersion, requests, disposed, stranded>>
    BY <1>1 DEF Update, Publish
  <2>. HIDE DEF t
  <2>3. ShowsPending' => ShowsPending /\ state'.root = state.root
    BY <2>1, <2>2 DEF ShowsPending
  <2>. QED  BY <2>1, <2>2, <2>3, CallbacksLemma, CalledStep
<1>2. ASSUME NEW status \in {"Idle", "Success", "Error"}, NEW locked, SetData(status, locked)
      PROVE  IInv'
  <2> DEFINE t == [root |-> state.root + 1, locked |-> locked, status |-> status,
                   data |-> Written, at |-> 0]
  <2>1. IsState(t) /\ t.status # "Pending"
    BY <1>0 DEF IsState
  <2>2. /\ state' = t /\ stack' = stack \o Callbacks(t, answer.key # NoKey)
        /\ UNCHANGED <<request, operationVersion, requests, disposed, stranded>>
    BY <1>2 DEF SetData, Publish
  <2>. HIDE DEF t
  <2>3. ~ShowsPending'
    BY <2>1, <2>2 DEF ShowsPending
  <2>. QED  BY <2>1, <2>2, <2>3, CallbacksLemma, CalledStep
<1>. QED  BY <1>1, <1>2

LEMMA IdleStep ==
  ASSUME IInv, TakeSnapshot \/ Tick
  PROVE  IInv'
BY DEF IInv, Shape, Promises, Awaited, ShowsPending, Works, Resumes, Frames, TakeSnapshot, Tick

LEMMA OperationsStep ==
  ASSUME IInv, Operations
  PROVE  IInv'
<1>1. ASSUME NEW k \in Keys, Load(k) PROVE IInv'
  BY <1>1, AskStep DEF Load
<1>2. ASSUME NEW k \in Keys, Refresh(k) PROVE IInv'
  BY <1>2, StartStep DEF Refresh
<1>3. ASSUME NEW k \in Keys, Suspend(k) PROVE IInv'
  BY <1>3, StartStep, AskStep DEF Suspend
<1>4. CASE Abort \/ Clear \/ Restore
  BY <1>4, OperationStep DEF Abort, Clear, Restore
<1>5. CASE Dispose
  BY <1>5, DisposeStep
<1>. QED  BY <1>1, <1>2, <1>3, <1>4, <1>5, WriteStep, IdleStep DEF Operations

-----------------------------------------------------------------------------
(***************************************************************************)
(* Promises that settle, or follow.                                        *)
(***************************************************************************)
\* The records of all requests, as far as q is concerned with their promises: r
\* ends or is given a loader, and what another one has not kept it has ended.
Ending(q, r) ==
  \A x \in Requests :
    /\ q[x].promise = "open" =>
         requests[x].promise = "open" /\ (x # r \/ q[x].loader = "running")
    /\ q[x].promise = "follows" =>
         \/ requests[x].promise = "follows" /\ q[x].successor = requests[x].successor
         \/ q[x].successor > x
    /\ x # r /\ requests[x].loader = "running" => q[x].loader = "running"

LEMMA PromisesEnd ==
  ASSUME Promises, NEW r, Ending(requests', r),
         \A f \in Frames : f.kind \in Finishing /\ f.op # r => f \in Frames'
  PROVE  Promises'
BY DEF Promises, Ending

LEMMA SettledLemma ==
  ASSUME Shape, NEW r \in Requests
  PROVE  /\ Settled(r) \in [Requests -> Request]
         /\ \A x \in Requests : Settled(r)[x].loader = requests[x].loader
         /\ Ending(Settled(r), r)
         /\ AnsweredTo(r) \in [Requests -> Request]
         /\ \A x \in Requests : x # r => AnsweredTo(r)[x].loader = requests[x].loader
         /\ Ending(AnsweredTo(r), r)
<1>1. requests \in [Requests -> Request] /\ Requests \subseteq Nat
  BY BoundsLemma DEF Shape
<1>2. /\ Settled(r) \in [Requests -> Request]
      /\ \A x \in Requests : Settled(r)[x].loader = requests[x].loader
      /\ \A x \in Requests : x # r => Settled(r)[x] = requests[x]
      /\ Settled(r)[r].promise # "open"
      /\ Settled(r)[r].promise = "follows" => requests[r].promise = "follows"
      /\ Settled(r)[r].successor = requests[r].successor
  BY <1>1 DEF Settled, Request
<1>3. /\ AnsweredTo(r) \in [Requests -> Request]
      /\ \A x \in Requests : x # r => AnsweredTo(r)[x] = requests[x]
      /\ AnsweredTo(r)[r].promise = Settled(r)[r].promise
      /\ AnsweredTo(r)[r].successor = requests[r].successor
  BY <1>1, <1>2 DEF AnsweredTo, Request
<1>. QED  BY <1>2, <1>3 DEF Ending

LEMMA AdoptedLemma ==
  ASSUME NEW q \in [Requests -> Request], NEW s \in Requests, NEW r \in 0..s - 1
  PROVE  /\ Adopted(q, r, s) \in [Requests -> Request]
         /\ \A x \in Requests :
              /\ Adopted(q, r, s)[x].loader = q[x].loader
              /\ Adopted(q, r, s)[x].promise = "open" => q[x].promise = "open"
              /\ \/ Adopted(q, r, s)[x] = q[x]
                 \/ Adopted(q, r, s)[x].successor > x
<1>1. r \in Nat /\ s \in Nat /\ r < s /\ s \in 0..MaxOps /\ (r # 0 => r \in Requests)
  BY BoundsLemma
<1>2. CASE r # 0 /\ q[r].promise = "open"
  <2> DEFINE a == [q EXCEPT ![r].promise = "follows", ![r].successor = s]
  <2>1. Adopted(q, r, s) = a
    BY <1>2 DEF Adopted
  <2>2. /\ a \in [Requests -> Request]
        /\ a[r].loader = q[r].loader /\ a[r].promise = "follows" /\ a[r].successor = s
        /\ \A x \in Requests : x # r => a[x] = q[x]
    BY <1>1, <1>2 DEF Request
  <2>. HIDE DEF a
  <2>. QED  BY <1>1, <2>1, <2>2
<1>3. CASE ~(r # 0 /\ q[r].promise = "open")
  BY <1>3 DEF Adopted
<1>. QED  BY <1>2, <1>3

-----------------------------------------------------------------------------
(***************************************************************************)
(* What an operation does after the application code it called.            *)
(***************************************************************************)
LEMMA ReturnStep ==
  ASSUME IInv, Return \/ GiveWay \/ RememberAfter
  PROVE  IInv'
<1>1. /\ stack # <<>> /\ stack' = Below
      /\ UNCHANGED <<state, request, operationVersion, requests, disposed, stranded>>
      /\ Top.kind \in Replacing \cup {"call", "remember"}
      /\ Top.kind \in Replacing => Top.op # operationVersion
  BY DEF Return, GiveWay, RememberAfter, Runs, Replacing
<1>2. Top.kind \notin Finishing /\ ~Resumes(Top)
  BY <1>1 DEF Finishing, Replacing, Resumes
<1>3. stack' = Below \o <<>> /\ IsState(state')
  BY <1>1, BelowLemma, ConcatEmptySeq DEF IInv, Stack, Shape
<1>4. ShowsPending' => ShowsPending
  BY <1>1 DEF ShowsPending
<1>. QED  BY <1>1, <1>2, <1>3, <1>4, PoppedStep

LEMMA ReplacingStep ==
  ASSUME IInv, Aborted \/ Cleared \/ Restored \/ Recalled
  PROVE  IInv'
<1>0. IsState(state) /\ state.root \in Nat /\ IsState(Writable)
  BY WritableLemma DEF IInv, Shape, IsState
<1>1. /\ stack # <<>> /\ Top.kind \notin Finishing
      /\ UNCHANGED <<request, operationVersion, requests>>
  BY DEF Aborted, Cleared, Restored, Recalled, Continues, Runs, Finishing
<1>2. ASSUME Aborted PROVE IInv'
  <2> DEFINE t == [Writable EXCEPT !.status = "Idle"]
  <2>1. IsState(t) /\ t.status = "Idle"
    BY <1>0, EditLemma
  <2>2. state' = t /\ stack' = Below \o Callbacks(t, FALSE)
    BY <1>2 DEF Aborted, Publish
  <2>. HIDE DEF t
  <2>3. ~ShowsPending'
    BY <2>1, <2>2 DEF ShowsPending
  <2>. QED  BY <1>1, <2>1, <2>2, <2>3, CallbacksLemma, PoppedStep
<1>3. ASSUME Cleared PROVE IInv'
  <2> DEFINE t == InitialState(state.root + 1)
  <2>1. IsState(t) /\ t.status = "Idle"
    BY <1>0 DEF IsState, InitialState
  <2>2. state' = t /\ stack' = Below \o Callbacks(t, answer # NoAnswer)
    BY <1>3 DEF Cleared, Publish
  <2>. HIDE DEF t
  <2>3. ~ShowsPending'
    BY <2>1, <2>2 DEF ShowsPending
  <2>. QED  BY <1>1, <2>1, <2>2, <2>3, CallbacksLemma, PoppedStep
<1>4. ASSUME Restored PROVE IInv'
  <2> DEFINE t == [root |-> state.root + 1, locked |-> FALSE, data |-> saved.data, at |-> saved.at,
                   status |-> IF saved.status = "Pending" THEN "Idle" ELSE saved.status]
             m == answer.key # (IF saved.status \in {"Success", "Error"} THEN saved.key ELSE NoKey)
  <2>1. IsState(t) /\ t.status # "Pending"
    BY <1>0 DEF IsState
  <2>2. state' = t /\ stack' = Below \o Callbacks(t, m)
    BY <1>4 DEF Restored, Publish
  <2>. HIDE DEF t, m
  <2>3. ~ShowsPending'
    BY <2>1, <2>2 DEF ShowsPending
  <2>. QED  BY <1>1, <2>1, <2>2, <2>3, CallbacksLemma, PoppedStep
<1>5. ASSUME Recalled PROVE IInv'
  <2> DEFINE e == Top.entry
             t == [Writable EXCEPT !.status = "Success", !.data = e.data, !.at = e.at]
             c == IF Top.deferred THEN <<>> ELSE Callbacks(t, answer.key # e.key)
  <2>1. IsState(t) /\ t.status = "Success"
    <3> DEFINE w == Writable
               S == [root : Nat, locked : {w.locked}, status : {w.status, "Success"},
                     data : {w.data, e.data}, at : {w.at, e.at}]
    <3>1. w \in S
      BY <1>0 DEF IsState
    <3>2. \A u \in S : IsState(u)
      BY DEF IsState
    <3>. HIDE DEF e
    <3>3. t \in S /\ t.status = "Success"
      BY <3>1
    <3>. HIDE DEF S, t
    <3>. QED  BY <3>2, <3>3
  <2>2. state' = t /\ stack' = Below \o c
    BY <1>5 DEF Recalled
  <2>3. c = <<>> \/ c = <<CallFrame>>
    BY CallbacksLemma
  <2>. HIDE DEF t, c
  <2>4. ~ShowsPending'
    BY <2>1, <2>2 DEF ShowsPending
  <2>. QED  BY <1>1, <2>1, <2>2, <2>3, <2>4, PoppedStep
<1>. QED  BY <1>2, <1>3, <1>4, <1>5

LEMMA StartOvertakenStep ==
  ASSUME IInv, StartOvertaken
  PROVE  IInv'
<1> DEFINE f == Top
<1>1. /\ stack # <<>> /\ f.kind = "start" /\ stack' = Below
      /\ disposed \/ Overtaken(f)
      /\ UNCHANGED <<state, request, operationVersion, disposed, stranded>>
      /\ \/ disposed /\ f.superseded # 0 /\ requests' = Settled(f.superseded)
         \/ Requested(f.key) /\ requests' = Adopted(requests, f.superseded, request)
         \/ requests' = requests
  BY DEF StartOvertaken, Runs
<1>2. /\ f.op \in 1..operationVersion /\ operationVersion \in 0..MaxOps
      /\ f.superseded \in 0..f.op - 1
  <2>1. IsFrame(f, operationVersion) /\ operationVersion \in 0..MaxOps
    BY <1>1, BelowLemma DEF IInv, Shape
  <2>. HIDE DEF f
  <2>. QED  BY <1>1, <2>1 DEF IsFrame, CallFrame
<1>. HIDE DEF f
<1>3. /\ requests' \in [Requests -> Request]
      /\ Ending(requests', 0)
      /\ \A x \in Requests : requests'[x].loader = requests[x].loader
  <2>1. requests \in [Requests -> Request] /\ 0 \notin Requests
    BY BoundsLemma DEF IInv, Shape
  <2>2. CASE f.superseded # 0 /\ requests' = Settled(f.superseded)
    <3>1. f.superseded \in Requests
      BY <1>2, <2>2, BoundsLemma
    <3>. QED  BY <2>1, <2>2, <3>1, SettledLemma DEF IInv, Ending
  <2>3. CASE Requested(f.key) /\ requests' = Adopted(requests, f.superseded, request)
    <3>1. request \in Requests /\ f.superseded \in 0..request - 1
      BY <1>2, <2>3, BoundsLemma DEF Requested, IInv, Shape
    <3>2. /\ requests' \in [Requests -> Request]
          /\ \A x \in Requests :
               /\ requests'[x].loader = requests[x].loader
               /\ requests'[x].promise = "open" => requests[x].promise = "open"
               /\ \/ requests'[x] = requests[x]
                  \/ requests'[x].successor > x
      BY <2>1, <2>3, <3>1, AdoptedLemma
    <3>. QED  BY <2>1, <3>2 DEF Ending
  <2>4. CASE requests' = requests
    BY <2>1, <2>4 DEF Ending
  <2>. QED  BY <1>1, <2>2, <2>3, <2>4
<1>4. /\ Stack(stack')
      /\ Frames \subseteq Frames' \cup {f}
      /\ Frames' \subseteq Frames \cup {CallFrame}
  <2>1. Below = Below \o <<>>
    BY <1>1, BelowLemma, ConcatEmptySeq DEF IInv, Stack
  <2>. QED  BY <1>1, <2>1, PoppedLemma DEF IInv, Frames, f
<1>5. Shape'
  <2>1. IsFrame(CallFrame, operationVersion)
    BY DEF IsFrame
  <2>. QED  BY <1>1, <1>3, <1>4, <2>1, ShapeKept DEF IInv, Shape
<1>6. Promises'
  <2>1. \A g \in Frames : g.kind \in Finishing => g \in Frames'
    BY <1>1, <1>4 DEF Finishing
  <2>. QED  BY <1>3, <2>1, PromisesEnd DEF IInv
<1>7. Awaited'
  <2>1. CASE disposed
    BY <1>1, <2>1 DEF Awaited, ShowsPending
  <2>2. CASE Overtaken(f)
    <3>1. ~Works(f) /\ ~Resumes(f)
      BY <1>1, <2>2 DEF Overtaken, Works, Resumes, Working, Replacing
    <3>2. \A g \in Frames : Works(g) \/ Resumes(g) => g \in Frames'
      BY <1>4, <3>1
    <3>3. \A g \in Frames' : g.kind = "publish" => g \in Frames
      BY <1>4 DEF CallFrame
    <3>4. request # 0 => request \in Requests
      BY <1>2, BoundsLemma DEF IInv, Shape
    <3>5. ShowsPending' => ShowsPending
      BY <1>1 DEF ShowsPending
    <3>. QED  BY <1>1, <1>3, <3>2, <3>3, <3>4, <3>5, AwaitedKept DEF IInv
  <2>. QED  BY <1>1, <2>1, <2>2
<1>. QED  BY <1>5, <1>6, <1>7 DEF IInv

LEMMA InstallStep ==
  ASSUME IInv, Install
  PROVE  IInv'
<1> DEFINE f == Top
           t == [Writable EXCEPT !.status = "Pending"]
           g == [kind |-> "publish", op |-> f.op, superseded |-> f.superseded,
                 previous |-> state, prior |-> answer, deferred |-> f.deferred]
           c == IF f.deferred THEN <<>> ELSE Callbacks(t, FALSE)
           n == [key |-> f.key, background |-> f.background, loader |-> "none",
                 promise |-> "open", successor |-> 0, replacing |-> f.superseded]
<1>1. /\ stack # <<>> /\ f.kind = "start" /\ f.op = operationVersion
      /\ request' = f.op /\ requests' = [requests EXCEPT ![f.op] = n]
      /\ state' = t /\ stack' = Append(Below, g) \o c
      /\ UNCHANGED operationVersion
  BY DEF Install, Runs, Overtaken
<1>2. /\ f.op \in 1..operationVersion /\ f.op \in Requests
      /\ f.superseded \in 0..f.op - 1 /\ f.superseded \in 0..MaxOps
      /\ f.key \in Keys /\ f.background \in BOOLEAN
  <2>1. IsFrame(f, operationVersion) /\ operationVersion \in 0..MaxOps
    BY <1>1, BelowLemma DEF IInv, Shape
  <2>2. /\ f.op \in 1..operationVersion /\ f.superseded \in 0..f.op - 1
        /\ f.key \in Keys /\ f.background \in BOOLEAN
    BY <1>1, <2>1 DEF IsFrame, CallFrame
  <2>. HIDE DEF f
  <2>. QED  BY <2>1, <2>2, BoundsLemma
<1>3. IsState(state) /\ IsState(t) /\ t.root = PutBack(state)
  BY WritableLemma, EditLemma DEF IInv, Shape
<1>4. c = <<>> \/ c = <<CallFrame>>
  BY CallbacksLemma
<1>5. g.kind = "publish" /\ g.op = f.op /\ g.previous = state
  OBVIOUS
<1>6. IsFrame(g, operationVersion)
  BY <1>2, <1>3 DEF IsFrame
<1>7. /\ requests' \in [Requests -> Request]
      /\ requests'[f.op].promise = "open"
      /\ \A x \in Requests : x # f.op => requests'[x] = requests[x]
  <2>1. n \in Request /\ n.promise = "open"
    BY <1>2, BoundsLemma DEF Request
  <2>. HIDE DEF n, f
  <2>. QED  BY <1>1, <1>2, <2>1 DEF IInv, Shape
<1>8. /\ Stack(stack')
      /\ g \in Frames'
      /\ Frames \subseteq Frames' \cup {f}
      /\ \A h \in Frames' :
           \/ h = g
           \/ h = CallFrame
           \/ h \in Frames /\ (h.kind # "call" => h.op < g.op)
  <2>. HIDE DEF g, c
  <2>. QED  BY <1>1, <1>4, <1>5, ReplacedLemma DEF IInv, Frames
<1>. HIDE DEF f, g, c, n, t
<1>9. Shape'
  BY <1>1, <1>3, <1>6, <1>7, <1>8, ShapeKept DEF IInv
<1>10. Promises'
  <2>. SUFFICES ASSUME NEW r \in Requests
                PROVE  /\ requests'[r].promise = "open" =>
                            \/ requests'[r].loader = "running"
                            \/ \E h \in Frames' : h.kind \in Finishing /\ h.op = r
                       /\ requests'[r].promise = "follows" => requests'[r].successor > r
    BY DEF Promises
  <2>1. CASE r = f.op
    BY <1>5, <1>7, <1>8, <2>1 DEF Finishing
  <2>2. CASE r # f.op
    <3>1. \A h \in Frames : h.kind \in Finishing => h \in Frames'
      BY <1>1, <1>8 DEF Finishing
    <3>. QED  BY <1>7, <2>2, <3>1 DEF IInv, Promises
  <2>. QED  BY <2>1, <2>2
<1>11. Awaited'
  <2>1. \E h \in Frames' : h.kind \in Working /\ h.op = request'
    BY <1>1, <1>5, <1>8 DEF Working
  <2>2. request' # 0
    BY <1>1, <1>2
  <2>3. ASSUME NEW h \in Frames', h.kind = "publish", h.op = request'
        PROVE  h = g
    <3>1. h # CallFrame
      BY <2>3 DEF CallFrame
    <3>2. ~(h.op < g.op)
      BY <1>1, <1>2, <1>5, <2>3
    <3>. QED  BY <1>8, <2>3, <3>1, <3>2
  <2>4. state'.root = PutBack(g.previous)
    BY <1>1, <1>3, <1>5
  <2>. QED  BY <2>1, <2>2, <2>3, <2>4 DEF Awaited, Works
<1>. QED  BY <1>9, <1>10, <1>11 DEF IInv

\* The frame on top settles its promise and returns.  It was not what the slot
\* was waiting for, or something else than Pending is shown.
LEMMA FinishedStep ==
  ASSUME IInv, stack # <<>>, Top.kind \in Finishing, requests' = Settled(Top.op),
         operationVersion' = operationVersion, request' \in {0, operationVersion},
         IsState(state'),
         NEW c, c = <<>> \/ c = <<CallFrame>>, stack' = Below \o c,
         ShowsPending' => /\ ShowsPending
                          /\ state'.root = state.root
                          /\ request' = request
                          /\ ~Resumes(Top)
                          /\ ~Works(Top)
  PROVE  IInv'
<1>1. /\ Stack(stack')
      /\ Top \in Frames
      /\ Frames \subseteq Frames' \cup {Top}
      /\ Frames' \subseteq Frames \cup {CallFrame}
  BY PoppedLemma DEF IInv, Frames
<1>2. Top.op \in Requests
  BY <1>1, BoundsLemma DEF IInv, Shape, IsFrame, CallFrame, Finishing
<1>3. /\ requests' \in [Requests -> Request]
      /\ \A x \in Requests : requests'[x].loader = requests[x].loader
      /\ Ending(requests', Top.op)
  BY <1>2, SettledLemma DEF IInv
<1>4. Shape'
  <2>1. IsFrame(CallFrame, operationVersion)
    BY DEF IsFrame
  <2>. QED  BY <1>1, <1>3, <2>1, ShapeKept DEF IInv
<1>5. Promises'
  <2>1. \A f \in Frames : f.kind \in Finishing /\ f.op # Top.op => f \in Frames'
    BY <1>1
  <2>. QED  BY <1>3, <2>1, PromisesEnd DEF IInv
<1>6. Awaited'
  <2>1. CASE ShowsPending'
    <3>1. \A f \in Frames : Works(f) \/ Resumes(f) => f \in Frames'
      BY <1>1, <2>1
    <3>2. \A f \in Frames' : f.kind = "publish" => f \in Frames
      BY <1>1 DEF CallFrame
    <3>3. request # 0 => request \in Requests
      BY BoundsLemma DEF IInv, Shape
    <3>. QED  BY <1>3, <2>1, <3>1, <3>2, <3>3, AwaitedKept DEF IInv
  <2>2. CASE ~ShowsPending'
    BY <2>2, AwaitedNoMore
  <2>. QED  BY <2>1, <2>2
<1>. QED  BY <1>4, <1>5, <1>6 DEF IInv

LEMMA TopLemma ==
  ASSUME IInv, stack # <<>>, Top.kind # "call"
  PROVE  /\ Top.op \in 1..operationVersion /\ operationVersion \in Nat
         /\ Top.op \in Requests
         /\ Top.kind \in {"publish", "load"} => Top.superseded \in 0..Top.op - 1
         /\ Top.kind \in {"publish", "recover"} => IsState(Top.previous)
         /\ Below \o <<>> = Below
         /\ request # 0 => request \in Requests /\ request = operationVersion
<1>1. IsFrame(Top, operationVersion) /\ Stack(Below)
  BY BelowLemma DEF IInv
<1>2. Below \o <<>> = Below
  BY <1>1, ConcatEmptySeq DEF Stack
<1>3. operationVersion \in 0..MaxOps /\ request \in {0, operationVersion}
  BY DEF IInv, Shape
<1>. QED  BY <1>1, <1>2, <1>3, BoundsLemma DEF IsFrame, CallFrame

LEMMA DisownedStep ==
  ASSUME IInv, Disowned
  PROVE  IInv'
<1>1. /\ stack # <<>> /\ Top.kind = "publish" /\ requests' = Settled(Top.op)
      /\ stack' = Below /\ request # Top.op
      /\ UNCHANGED <<state, request, operationVersion, disposed, stranded>>
  BY DEF Disowned, Runs, IsCurrent
<1>2. Top.kind \in Finishing /\ ~Resumes(Top) /\ ~Works(Top)
  BY <1>1 DEF Finishing, Resumes, Replacing, Works
<1>3. stack' = Below \o <<>> /\ IsState(state') /\ request' \in {0, operationVersion}
  BY <1>1, TopLemma DEF IInv, Shape
<1>4. ShowsPending' => ShowsPending
  BY <1>1 DEF ShowsPending
<1>. QED  BY <1>1, <1>2, <1>3, <1>4, FinishedStep

LEMMA RecoverStep ==
  ASSUME IInv, Recover
  PROVE  IInv'
<1> DEFINE p == Top.previous
           back == IF p.locked THEN p ELSE [state EXCEPT !.status = p.status]
<1>1. /\ stack # <<>> /\ Top.kind = "recover" /\ requests' = Settled(Top.op)
      /\ UNCHANGED <<request, operationVersion, disposed>>
      /\ \/ /\ state' = back /\ stack' = Below \o Callbacks(back, FALSE)
            /\ stranded' = (stranded \/ p.status = "Pending")
         \/ /\ ~(operationVersion = Top.op /\ state.root = PutBack(p))
            /\ stack' = Below /\ UNCHANGED <<state, stranded>>
  BY DEF Recover, Runs, Publish, PutBack
<1>2. Top.kind \in Finishing /\ ~Works(Top) /\ request' \in {0, operationVersion}
  BY <1>1 DEF Finishing, Working, Works, IInv, Shape
<1>3. IsState(back) /\ back.status = p.status
  <2>1. IsState(p) /\ IsState(state)
    BY <1>1, TopLemma DEF IInv, Shape
  <2> DEFINE S == [root : Nat, locked : {state.locked}, status : {state.status, p.status},
                   data : {state.data}, at : {state.at}]
  <2>2. state \in S
    BY <2>1 DEF IsState
  <2>3. \A u \in S : IsState(u)
    BY DEF IsState
  <2>. HIDE DEF p
  <2>4. [state EXCEPT !.status = p.status] \in S /\ [state EXCEPT !.status = p.status].status = p.status
    BY <2>2
  <2>. HIDE DEF S
  <2>. QED  BY <2>1, <2>3, <2>4
<1>4. ASSUME state' = back, stack' = Below \o Callbacks(back, FALSE),
             stranded' = (stranded \/ p.status = "Pending")
      PROVE  IInv'
  <2>1. ~ShowsPending'
    BY <1>3, <1>4 DEF ShowsPending
  <2>. HIDE DEF back
  <2>. QED  BY <1>1, <1>2, <1>3, <1>4, <2>1, CallbacksLemma, FinishedStep
<1>5. ASSUME ~(operationVersion = Top.op /\ state.root = PutBack(p)), stack' = Below,
             UNCHANGED <<state, stranded>>
      PROVE  IInv'
  <2>1. ~Resumes(Top)
    BY <1>1, <1>5 DEF Resumes, Replacing
  <2>2. stack' = Below \o <<>> /\ IsState(state')
    BY <1>1, <1>5, TopLemma DEF IInv, Shape
  <2>3. ShowsPending' => ShowsPending
    BY <1>1, <1>5 DEF ShowsPending
  <2>. QED  BY <1>1, <1>2, <1>5, <2>1, <2>2, <2>3, FinishedStep
<1>. QED  BY <1>1, <1>4, <1>5

LEMMA SettleErrorStep ==
  ASSUME IInv, SettleError
  PROVE  IInv'
<1> DEFINE w == Writable
           t == [w EXCEPT !.status = "Error", !.at = now]
<1>1. /\ stack # <<>> /\ Top.kind = "describe" /\ requests' = Settled(Top.op)
      /\ UNCHANGED <<operationVersion, disposed, stranded>>
      /\ \/ request' = 0 /\ state' = t /\ stack' = Below \o Callbacks(t, FALSE)
         \/ /\ ~(operationVersion = Top.op /\ request = Top.op)
            /\ stack' = Below /\ UNCHANGED <<state, request>>
  BY DEF SettleError, Runs, Publish, IsCurrent
<1>2. Top.kind \in Finishing
  BY <1>1 DEF Finishing
<1>3. ASSUME request' = 0, state' = t, stack' = Below \o Callbacks(t, FALSE)
      PROVE  IInv'
  <2> DEFINE S == [root : Nat, locked : {w.locked}, status : {w.status, "Error"},
                   data : {w.data}, at : {w.at, now}]
  <2>1. w \in S
    BY WritableLemma DEF IsState, IInv, Shape
  <2>2. \A u \in S : IsState(u)
    BY DEF IsState
  <2>. HIDE DEF w
  <2>3. t \in S /\ t.status = "Error"
    BY <2>1
  <2>. HIDE DEF S, t
  <2>4. ~ShowsPending' /\ IsState(state')
    BY <1>3, <2>2, <2>3 DEF ShowsPending
  <2>. QED  BY <1>1, <1>2, <1>3, <2>4, CallbacksLemma, FinishedStep
<1>4. ASSUME ~(operationVersion = Top.op /\ request = Top.op), stack' = Below,
             UNCHANGED <<state, request>>
      PROVE  IInv'
  <2>1. ~Resumes(Top) /\ ~Works(Top)
    BY <1>1, <1>4, TopLemma DEF Resumes, Replacing, Works
  <2>2. stack' = Below \o <<>> /\ IsState(state') /\ request' \in {0, operationVersion}
    BY <1>1, <1>4, TopLemma DEF IInv, Shape
  <2>3. ShowsPending' => ShowsPending
    BY <1>1, <1>4 DEF ShowsPending
  <2>. QED  BY <1>1, <1>2, <1>4, <2>1, <2>2, <2>3, FinishedStep
<1>. QED  BY <1>1, <1>3, <1>4

\* The operation on top goes on, application code on top of it.
LEMMA GoesOnLemma ==
  ASSUME IInv, stack # <<>>, Top.kind # "call",
         NEW g, g.kind # "call", g.op = Top.op, stack' = Below \o <<g, CallFrame>>
  PROVE  /\ Stack(stack')
         /\ g \in Frames'
         /\ Frames \subseteq Frames' \cup {Top}
         /\ Frames' \subseteq Frames \cup {g, CallFrame}
         /\ \A f \in Frames' :
              \/ f = g
              \/ f = CallFrame
              \/ f \in Frames /\ (f.kind # "call" => f.op < g.op)
<1> DEFINE S == FramesOf(Below) \cup {g, CallFrame}
<1>1. Below \in Seq(S)
  <2>1. Below \in Seq(FramesOf(Below)) /\ FramesOf(Below) \subseteq S
    BY BelowLemma DEF IInv, Stack
  <2>. HIDE DEF S
  <2>. QED  BY <2>1, SeqMonotonic
<1>2. <<g>> \in Seq(S) /\ <<CallFrame>> \in Seq(S) /\ <<g, CallFrame>> = <<g>> \o <<CallFrame>>
  OBVIOUS
<1>. HIDE DEF S
<1>3. Below \o <<g, CallFrame>> = (Below \o <<g>>) \o <<CallFrame>>
  BY <1>1, <1>2, ConcatAssociative
<1>4. stack' = Append(Below, g) \o <<CallFrame>>
  BY <1>3, ReplacedLemma DEF IInv
<1>. QED  BY <1>4, ReplacedLemma DEF IInv, Frames

LEMMA CallLoaderStep ==
  ASSUME IInv, CallLoader
  PROVE  IInv'
<1> DEFINE g == [kind |-> "load", op |-> Top.op, superseded |-> Top.superseded]
<1>1. /\ stack # <<>> /\ Top.kind = "publish" /\ request = Top.op
      /\ stack' = Below \o <<g, CallFrame>>
      /\ UNCHANGED <<state, request, operationVersion, requests, disposed, stranded>>
  BY DEF CallLoader, Runs, IsCurrent
<1>2. g.kind = "load" /\ g.op = Top.op /\ IsFrame(g, operationVersion)
  BY <1>1, TopLemma DEF IsFrame
<1>. HIDE DEF g
<1>3. /\ Stack(stack')
      /\ g \in Frames'
      /\ Frames \subseteq Frames' \cup {Top}
      /\ Frames' \subseteq Frames \cup {g, CallFrame}
  BY <1>1, <1>2, GoesOnLemma
<1>4. Shape'
  BY <1>1, <1>2, <1>3, ShapeKept DEF IInv, Shape
<1>5. Promises'
  BY <1>1, <1>2, <1>3 DEF IInv, Promises, Finishing
<1>6. Awaited'
  <2>1. ShowsPending' => ShowsPending
    BY <1>1 DEF ShowsPending
  <2>2. \E h \in Frames' : h.kind \in Working /\ h.op = request'
    BY <1>1, <1>2, <1>3 DEF Working
  <2>3. request' # 0
    BY <1>1, TopLemma
  <2>4. \A f \in Frames' : f.kind = "publish" => f \in Frames
    BY <1>2, <1>3 DEF CallFrame
  <2>. QED  BY <1>1, <2>1, <2>2, <2>3, <2>4 DEF IInv, Awaited, Works
<1>. QED  BY <1>4, <1>5, <1>6 DEF IInv

LEMMA PublicationFailsStep ==
  ASSUME IInv, PublicationFails
  PROVE  IInv'
<1> DEFINE g == [kind |-> "recover", op |-> Top.op, superseded |-> Top.superseded,
                 previous |-> Top.previous, prior |-> Top.prior, deferred |-> Top.deferred]
<1>1. /\ stack # <<>> /\ Top.kind = "publish" /\ request = Top.op /\ request' = 0
      /\ stack' = Below \o <<[Top EXCEPT !.kind = "recover"], CallFrame>>
      /\ UNCHANGED <<state, operationVersion, requests, disposed, stranded>>
  BY DEF PublicationFails, Runs, IsCurrent
<1>2. [Top EXCEPT !.kind = "recover"] = g
  <2>1. Top = [kind |-> "publish", op |-> Top.op, superseded |-> Top.superseded,
               previous |-> Top.previous, prior |-> Top.prior, deferred |-> Top.deferred]
    BY <1>1, BelowLemma DEF IInv, IsFrame, CallFrame
  <2>2. ASSUME NEW o, NEW x, NEW p, NEW a, NEW d
        PROVE  [[kind |-> "publish", op |-> o, superseded |-> x, previous |-> p, prior |-> a,
                 deferred |-> d] EXCEPT !.kind = "recover"]
               = [kind |-> "recover", op |-> o, superseded |-> x, previous |-> p, prior |-> a,
                  deferred |-> d]
    OBVIOUS
  <2>. QED  BY <2>1, <2>2
<1>3. g.kind = "recover" /\ g.op = Top.op /\ g.previous = Top.previous /\ IsFrame(g, operationVersion)
  BY <1>1, BelowLemma, TopLemma DEF IInv, IsFrame, CallFrame
<1>. HIDE DEF g
<1>4. /\ Stack(stack')
      /\ g \in Frames'
      /\ Frames \subseteq Frames' \cup {Top}
      /\ Frames' \subseteq Frames \cup {g, CallFrame}
  BY <1>1, <1>2, <1>3, GoesOnLemma
<1>5. Shape'
  BY <1>1, <1>3, <1>4, ShapeKept DEF IInv, Shape
<1>6. Promises'
  BY <1>1, <1>3, <1>4 DEF IInv, Promises, Finishing
<1>7. Awaited'
  <2>. SUFFICES ASSUME ShowsPending'
                PROVE  /\ \E f \in Frames' : Resumes(f)'
                       /\ \A f \in Frames' : f.kind = "publish" => f.op # 0
    BY <1>1 DEF Awaited
  <2>1. ShowsPending
    BY <1>1 DEF ShowsPending
  <2>2. state.root = PutBack(Top.previous)
    BY <1>1, <2>1, BelowLemma DEF IInv, Awaited
  <2>3. g.op = operationVersion' /\ state'.root = PutBack(g.previous)
    BY <1>1, <1>3, <2>2, TopLemma
  <2>4. \A f \in Frames' : f.kind = "publish" => f.op # 0
    BY <1>5 DEF Shape, IsFrame, CallFrame
  <2>. QED  BY <1>3, <1>4, <2>3, <2>4 DEF Resumes
<1>. QED  BY <1>5, <1>6, <1>7 DEF IInv

LEMMA LoadingStep ==
  ASSUME IInv, Loading
  PROVE  IInv'
<1> DEFINE r == Top.op
           q == [requests EXCEPT ![r].loader = "running"]
<1>1. /\ stack # <<>> /\ Top.kind = "load" /\ stack' = Below
      /\ requests' = Adopted(q, Top.superseded, r)
      /\ UNCHANGED <<state, request, operationVersion, disposed, stranded>>
  BY DEF Loading, Runs
<1>2. r \in Requests /\ Top.superseded \in 0..r - 1
  BY <1>1, TopLemma
<1>3. /\ q \in [Requests -> Request]
      /\ q[r].loader = "running" /\ q[r].promise = requests[r].promise
      /\ q[r].successor = requests[r].successor
      /\ \A x \in Requests : x # r => q[x] = requests[x]
  <2>1. requests \in [Requests -> Request]
    BY DEF IInv, Shape
  <2>. HIDE DEF r
  <2>. QED  BY <1>2, <2>1 DEF Request
<1>. HIDE DEF q
<1>4. /\ requests' \in [Requests -> Request]
      /\ \A x \in Requests :
           /\ requests'[x].loader = q[x].loader
           /\ requests'[x].promise = "open" => q[x].promise = "open"
           /\ \/ requests'[x] = q[x]
              \/ requests'[x].successor > x
  BY <1>1, <1>2, <1>3, AdoptedLemma
<1>5. Ending(requests', r)
  BY <1>2, <1>3, <1>4 DEF Ending
<1>6. /\ Stack(stack')
      /\ Frames \subseteq Frames' \cup {Top}
      /\ Frames' \subseteq Frames \cup {CallFrame}
  BY <1>1, TopLemma, PoppedLemma DEF IInv, Frames
<1>7. Shape'
  <2>1. IsFrame(CallFrame, operationVersion)
    BY DEF IsFrame
  <2>. QED  BY <1>1, <1>4, <1>6, <2>1, ShapeKept DEF IInv, Shape
<1>8. Promises'
  BY <1>5, <1>6, PromisesEnd DEF IInv
<1>9. Awaited'
  <2>1. ShowsPending' => ShowsPending
    BY <1>1 DEF ShowsPending
  <2>2. \A f \in Frames' : f.kind = "publish" => f \in Frames
    BY <1>6 DEF CallFrame
  <2>3. CASE request = r
    <3>1. request' # 0 /\ requests'[request'].loader = "running"
      BY <1>1, <1>2, <1>3, <1>4, <2>3, BoundsLemma
    <3>. QED  BY <1>1, <2>1, <2>2, <3>1 DEF IInv, Awaited
  <2>4. CASE request # r
    <3>1. ~Works(Top) /\ ~Resumes(Top)
      BY <1>1, <2>4 DEF Works, Resumes, Replacing
    <3>2. \A f \in Frames : Works(f) \/ Resumes(f) => f \in Frames'
      BY <1>6, <3>1
    <3>3. request # 0 /\ requests[request].loader = "running" => requests'[request].loader = "running"
      BY <1>1, <1>3, <1>4, <2>4, TopLemma
    <3>. QED  BY <1>1, <2>1, <2>2, <3>2, <3>3, AwaitedKept DEF IInv
  <2>. QED  BY <2>3, <2>4
<1>. QED  BY <1>7, <1>8, <1>9 DEF IInv

-----------------------------------------------------------------------------
(***************************************************************************)
(* The answers.                                                            *)
(***************************************************************************)
\* Between tasks there is no frame, and the step pushes g and application code.
LEMMA SettlementLemma ==
  ASSUME IInv, NEW r \in Requests, stack = <<>>, request = r,
         NEW g, g.kind \in {"remember", "describe"}, g.op = r,
         NEW c, c = <<>> \/ c = <<CallFrame>>
  PROVE  /\ IsFrame(g, operationVersion)
         /\ Stack(<<g>> \o c)
         /\ g \in FramesOf(<<g>> \o c)
         /\ FramesOf(<<g>> \o c) \subseteq {g, CallFrame}
         /\ Frames = {}
         /\ Stack(<<>> \o c)
         /\ FramesOf(<<>> \o c) \subseteq {CallFrame}
<1>1. r \in Nat /\ r # 0 /\ r = operationVersion /\ Frames = {}
  BY BoundsLemma, EmptyLemma DEF IInv, Shape, Frames
<1>2. IsFrame(g, operationVersion)
  BY <1>1 DEF IsFrame
<1>3. /\ Stack(<<g>> \o c)
      /\ g \in FramesOf(<<g>> \o c)
      /\ FramesOf(<<g>> \o c) \subseteq {g, CallFrame}
  BY <1>1, PushedLemma DEF IInv
<1>4. /\ Stack(<<>> \o c)
      /\ FramesOf(<<>> \o c) \subseteq {CallFrame}
  BY CallsLemma, EmptyLemma
<1>. QED  BY <1>1, <1>2, <1>3, <1>4

LEMMA LateAnswerStep ==
  ASSUME IInv, NEW r \in Requests, LateAnswer(r)
  PROVE  IInv'
<1>1. /\ stack = <<>> /\ stack' = <<>> /\ request # r /\ requests' = AnsweredTo(r)
      /\ UNCHANGED <<state, request, operationVersion, disposed, stranded>>
  BY DEF LateAnswer, Answers, IsCurrent
<1>2. Stack(stack') /\ Frames' = {} /\ Frames = {}
  BY <1>1, EmptyLemma DEF Frames
<1>3. /\ requests' \in [Requests -> Request]
      /\ \A x \in Requests : x # r => requests'[x].loader = requests[x].loader
      /\ Ending(requests', r)
  BY <1>1, SettledLemma DEF IInv
<1>4. Shape'
  BY <1>1, <1>2, <1>3 DEF IInv, Shape
<1>5. Promises'
  BY <1>2, <1>3, PromisesEnd DEF IInv
<1>6. Awaited'
  <2>1. ShowsPending' => ShowsPending
    BY <1>1 DEF ShowsPending
  <2>2. request # 0 => request \in Requests
    BY BoundsLemma DEF IInv, Shape
  <2>. QED  BY <1>1, <1>2, <1>3, <2>1, <2>2, AwaitedKept DEF IInv
<1>. QED  BY <1>4, <1>5, <1>6 DEF IInv

LEMMA SettleSuccessStep ==
  ASSUME IInv, NEW r \in Requests, SettleSuccess(r)
  PROVE  IInv'
<1> DEFINE w == Writable
           t == [w EXCEPT !.status = "Success", !.data = r, !.at = now]
           g == [kind |-> "remember", op |-> r, at |-> now]
           c == Callbacks(t, FALSE)
<1>1. /\ stack = <<>> /\ request = r /\ request' = 0 /\ requests' = AnsweredTo(r)
      /\ state' = t /\ stack' = (IF state.locked THEN <<g>> ELSE <<>>) \o c
      /\ UNCHANGED <<operationVersion, disposed, stranded>>
  BY DEF SettleSuccess, Answers, IsCurrent, Publish
<1>2. IsState(t) /\ t.status = "Success"
  <2> DEFINE S == [root : Nat, locked : {w.locked}, status : {w.status, "Success"},
                   data : {w.data, r}, at : {w.at, now}]
  <2>1. w \in S
    BY WritableLemma DEF IsState, IInv, Shape
  <2>2. \A u \in S : IsState(u)
    BY DEF IsState
  <2>. HIDE DEF w
  <2>3. t \in S /\ t.status = "Success"
    BY <2>1
  <2>. HIDE DEF S, t
  <2>. QED  BY <2>2, <2>3
<1>3. c = <<>> \/ c = <<CallFrame>>
  BY CallbacksLemma
<1>4. g.kind = "remember" /\ g.op = r
  OBVIOUS
<1>. HIDE DEF w, t, g, c
<1>5. /\ IsFrame(g, operationVersion) /\ Frames = {}
      /\ Stack(stack') /\ Frames' \subseteq {g, CallFrame}
  <2>1. /\ IsFrame(g, operationVersion) /\ Frames = {}
        /\ Stack(<<g>> \o c) /\ FramesOf(<<g>> \o c) \subseteq {g, CallFrame}
        /\ Stack(<<>> \o c) /\ FramesOf(<<>> \o c) \subseteq {CallFrame}
    BY <1>1, <1>3, <1>4, SettlementLemma
  <2>2. Frames' = FramesOf(stack')
    BY DEF Frames
  <2>3. CASE state.locked
    BY <1>1, <2>1, <2>2, <2>3
  <2>4. CASE ~state.locked
    BY <1>1, <2>1, <2>2, <2>4
  <2>. QED  BY <2>1, <2>3, <2>4
<1>6. /\ requests' \in [Requests -> Request]
      /\ Ending(requests', r)
  BY <1>1, SettledLemma DEF IInv
<1>7. Shape'
  BY <1>1, <1>2, <1>5, <1>6, ShapeKept DEF IInv
<1>8. Promises'
  BY <1>5, <1>6, PromisesEnd DEF IInv
<1>9. Awaited'
  BY <1>1, <1>2 DEF Awaited, ShowsPending
<1>. QED  BY <1>7, <1>8, <1>9 DEF IInv

LEMMA LoaderFailsStep ==
  ASSUME IInv, NEW r \in Requests, LoaderFails(r)
  PROVE  IInv'
<1> DEFINE g == [kind |-> "describe", op |-> r]
<1>1. /\ stack = <<>> /\ request = r /\ requests' = [requests EXCEPT ![r].loader = "done"]
      /\ stack' = <<g, CallFrame>>
      /\ UNCHANGED <<state, request, operationVersion, disposed, stranded>>
  BY DEF LoaderFails, Answers, IsCurrent
<1>2. g.kind = "describe" /\ g.op = r /\ <<g, CallFrame>> = <<g>> \o <<CallFrame>>
  OBVIOUS
<1>. HIDE DEF g
<1>3. /\ IsFrame(g, operationVersion) /\ Frames = {} /\ g \in Frames'
      /\ Stack(stack') /\ Frames' \subseteq {g, CallFrame}
  <2> DEFINE c == <<CallFrame>>
  <2>1. c = <<>> \/ c = <<CallFrame>>
    OBVIOUS
  <2>2. stack' = <<g>> \o c /\ Frames' = FramesOf(stack')
    BY <1>1, <1>2 DEF Frames
  <2>. HIDE DEF c
  <2>3. /\ IsFrame(g, operationVersion) /\ Frames = {}
        /\ g \in FramesOf(<<g>> \o c)
        /\ Stack(<<g>> \o c) /\ FramesOf(<<g>> \o c) \subseteq {g, CallFrame}
    BY <1>1, <1>2, <2>1, SettlementLemma
  <2>. QED  BY <2>2, <2>3
<1>4. /\ requests' \in [Requests -> Request]
      /\ \A x \in Requests : x # r => requests'[x] = requests[x]
      /\ requests'[r].promise = requests[r].promise
      /\ requests'[r].successor = requests[r].successor
  <2>1. requests \in [Requests -> Request]
    BY DEF IInv, Shape
  <2>. QED  BY <1>1, <2>1 DEF Request
<1>5. Shape'
  BY <1>1, <1>3, <1>4, ShapeKept DEF IInv, Shape
<1>6. Promises'
  <2>. SUFFICES ASSUME NEW x \in Requests
                PROVE  /\ requests'[x].promise = "open" =>
                            \/ requests'[x].loader = "running"
                            \/ \E f \in Frames' : f.kind \in Finishing /\ f.op = x
                       /\ requests'[x].promise = "follows" => requests'[x].successor > x
    BY DEF Promises
  <2>1. CASE x = r
    BY <1>2, <1>3, <1>4, <2>1 DEF IInv, Promises, Finishing
  <2>2. CASE x # r
    BY <1>3, <1>4, <2>2 DEF IInv, Promises
  <2>. QED  BY <2>1, <2>2
<1>7. Awaited'
  <2>1. \E h \in Frames' : h.kind \in Working /\ h.op = request'
    BY <1>1, <1>2, <1>3 DEF Working
  <2>2. request' # 0
    BY <1>1, BoundsLemma
  <2>3. \A f \in Frames' : f.kind # "publish"
    BY <1>2, <1>3 DEF CallFrame
  <2>. QED  BY <2>1, <2>2, <2>3 DEF Awaited, Works
<1>. QED  BY <1>5, <1>6, <1>7 DEF IInv

-----------------------------------------------------------------------------
(***************************************************************************)
(* The theorems.                                                           *)
(***************************************************************************)
LEMMA InitLemma == Init => IInv
<1>. SUFFICES ASSUME Init PROVE IInv
  OBVIOUS
<1>1. IsState(state)
  BY DEF Init, InitialState, IsState
<1>2. NoRequest \in Request /\ NoRequest.promise = "settled"
  BY BoundsLemma DEF NoRequest, Request
<1>3. Stack(stack) /\ Frames = {}
  BY EmptyLemma DEF Init, Frames
<1>4. Shape
  BY <1>1, <1>2, <1>3, BoundsLemma DEF Init, Shape
<1>5. Promises
  BY <1>2 DEF Init, Promises
<1>6. Awaited
  BY DEF Init, Awaited, ShowsPending, InitialState
<1>. QED  BY <1>4, <1>5, <1>6 DEF IInv

LEMMA StepLemma == IInv /\ [Next]_vars => IInv'
<1>. SUFFICES ASSUME IInv, [Next]_vars PROVE IInv'
  OBVIOUS
<1>1. CASE Operations
  BY <1>1, OperationsStep
<1>2. CASE Continuations
  BY <1>2, ReturnStep, StartOvertakenStep, InstallStep, DisownedStep, CallLoaderStep, LoadingStep,
     PublicationFailsStep, RecoverStep, ReplacingStep, SettleErrorStep DEF Continuations
<1>3. CASE Settlements
  BY <1>3, LateAnswerStep, SettleSuccessStep, LoaderFailsStep, IdleStep DEF Settlements
<1>4. CASE UNCHANGED vars
  BY <1>4 DEF vars, IInv, Shape, Promises, Awaited, ShowsPending, Works, Resumes, Frames
<1>. QED  BY <1>1, <1>2, <1>3, <1>4 DEF Next

LEMMA Invariance == Spec => []IInv
BY InitLemma, StepLemma, PTL DEF Spec

\* Between tasks, Pending has a loader at work for the slot, however deeply the
\* operations before were nested in the callbacks of one another.
THEOREM PendingRequested == Spec => []PendingIsRequested
<1>1. IInv => PendingIsRequested
  BY EmptyLemma DEF IInv, Awaited, ShowsPending, PendingIsRequested, Frames
<1>. QED  BY <1>1, Invariance, PTL

\* Between tasks, every promise of the slot is settled, has a loader to settle
\* it, or follows that of a later request.
THEOREM NoneForgotten == Spec => []NoAwaiterForgotten
<1>1. IInv => NoAwaiterForgotten
  <2>. SUFFICES ASSUME IInv, stack = <<>>, NEW r \in Requests, requests[r].promise # "settled"
                PROVE  \/ requests[r].loader = "running"
                       \/ requests[r].promise = "follows" /\ requests[r].successor > r
    BY DEF NoAwaiterForgotten
  <2>1. requests[r].promise \in {"open", "follows"}
    BY DEF IInv, Shape, Request
  <2>. QED  BY <2>1, EmptyLemma DEF IInv, Promises, Frames
<1>. QED  BY <1>1, Invariance, PTL

\* No loader is done after a step other than its answer.
LEMMA LoaderLemma ==
  ASSUME IInv, [Next]_vars, NEW r \in Requests,
         requests[r].loader = "running", requests'[r].loader = "done"
  PROVE  LateAnswer(r) \/ SettleSuccess(r) \/ LoaderFails(r)
<1>0. requests \in [Requests -> Request]
  BY DEF IInv, Shape
<1>1. CASE Operations
  BY <1>1 DEF Operations, Load, Refresh, Suspend, Abort, Clear, Restore, Operation, Update,
              TakeSnapshot, Dispose, SetData
<1>2. ASSUME Return \/ GiveWay \/ RememberAfter \/ Aborted \/ Cleared \/ Restored \/ Recalled
               \/ CallLoader \/ PublicationFails \/ Tick \/ UNCHANGED vars
      PROVE  requests' = requests
  BY <1>2 DEF Return, GiveWay, RememberAfter, Aborted, Cleared, Restored, Recalled, CallLoader,
              PublicationFails, Tick, vars
<1>3. ASSUME NEW x, requests' = Settled(x)
      PROVE  FALSE
  BY <1>0, <1>3 DEF Settled, Request
<1>4. ASSUME NEW q \in [Requests -> Request], NEW x, NEW y, requests' = Adopted(q, x, y)
      PROVE  requests'[r].loader = q[r].loader
  BY <1>4 DEF Adopted, Request
<1>5. ASSUME StartOvertaken PROVE FALSE
  BY <1>0, <1>3, <1>4, <1>5 DEF StartOvertaken
<1>6. ASSUME Install PROVE FALSE
  BY <1>0, <1>6 DEF Install
<1>7. ASSUME Disowned \/ Recover \/ SettleError PROVE FALSE
  BY <1>3, <1>7 DEF Disowned, Recover, SettleError
<1>8. ASSUME Loading PROVE FALSE
  <2> DEFINE q == [requests EXCEPT ![Top.op].loader = "running"]
  <2>1. requests' = Adopted(q, Top.superseded, Top.op)
    BY <1>8 DEF Loading
  <2>2. q \in [Requests -> Request] /\ q[r].loader = "running"
    BY <1>0 DEF Request
  <2>. HIDE DEF q
  <2>. QED  BY <1>4, <2>1, <2>2
<1>9. ASSUME NEW x \in Requests, LateAnswer(x) \/ SettleSuccess(x) PROVE x = r
  BY <1>0, <1>9 DEF LateAnswer, SettleSuccess, AnsweredTo, Settled, Request
<1>10. ASSUME NEW x \in Requests, LoaderFails(x) PROVE x = r
  BY <1>0, <1>10 DEF LoaderFails, Request
<1>. QED  BY <1>1, <1>2, <1>5, <1>6, <1>7, <1>8, <1>9, <1>10 DEF Next, Continuations, Settlements

\* When another operation has taken the slot, the answer of a request changes
\* neither what is shown nor what is remembered, whatever that operation was.
THEOREM LateIgnored == Spec => LateAnswerIsIgnored
<1> DEFINE Ignored ==
      \A r \in Requests :
        requests[r].loader = "running" /\ requests'[r].loader = "done" /\ operationVersion # r
          => UNCHANGED <<state, answer, request, memory>>
<1>1. IInv /\ [Next]_vars => [Ignored]_vars
  <2>. SUFFICES ASSUME IInv, [Next]_vars, NEW r \in Requests, requests[r].loader = "running",
                       requests'[r].loader = "done", operationVersion # r
                PROVE  UNCHANGED <<state, answer, request, memory>>
    OBVIOUS
  <2>1. ~SettleSuccess(r)
    <3>1. request # r
      BY BoundsLemma DEF IInv, Shape
    <3>. QED  BY <3>1 DEF SettleSuccess, IsCurrent
  <2>2. LateAnswer(r) \/ LoaderFails(r)
    BY <2>1, LoaderLemma
  <2>. QED  BY <2>2 DEF LateAnswer, LoaderFails
<1>. QED  BY <1>1, Invariance, PTL DEF Spec, LateAnswerIsIgnored

-----------------------------------------------------------------------------
(***************************************************************************)
(* Sequences, as the memory of answers uses them.                          *)
(***************************************************************************)
\* What Filtered returns (the recursion is solved in ResourceCache_proofs).
LEMMA SelectedLemma ==
  ASSUME NEW S, NEW s \in Seq(S), NEW T
  PROVE  /\ Filtered(s, T) \in Seq(S)
         /\ ToSet(Filtered(s, T)) = ToSet(s) \cap T
         /\ Len(Filtered(s, T)) <= Len(s)
         /\ ~(ToSet(s) \subseteq T) => Len(Filtered(s, T)) < Len(s)
<1>1. Cache!Filtered(s, T) = Filtered(s, T)
  BY DEF Cache!Filtered, Filtered
<1>2. \A t : Cache!ToSet(t) = ToSet(t)
  BY DEF Cache!ToSet, ToSet
<1>. QED  BY <1>1, <1>2, Cache!FilteredLemma

LEMMA AppendedLemma ==
  ASSUME NEW S, NEW s \in Seq(S), NEW e \in S
  PROVE  /\ Append(s, e) \in Seq(S)
         /\ Len(Append(s, e)) = Len(s) + 1
         /\ ToSet(Append(s, e)) = ToSet(s) \cup {e}
<1> DEFINE t == Append(s, e)
           m == Len(s)
<1>1. /\ t \in Seq(S) /\ Len(t) = m + 1 /\ m \in Nat
      /\ t[m + 1] = e /\ \A i \in 1..m : t[i] = s[i]
  BY AppendProperties, LenProperties
<1>2. DOMAIN s = 1..m
  OBVIOUS
<1>. HIDE DEF t, m
<1>3. DOMAIN t = (1..m) \cup {m + 1}
  BY <1>1
<1>4. ToSet(t) = ToSet(s) \cup {e}
  BY <1>1, <1>2, <1>3 DEF ToSet
<1>. QED  BY <1>1, <1>4 DEF t, m

LEMMA CutLemma ==
  ASSUME NEW S, NEW s \in Seq(S), NEW n \in Nat
  PROVE  LET t == IF Len(s) > n THEN SubSeq(s, Len(s) - n + 1, Len(s)) ELSE s
         IN  t \in Seq(S) /\ Len(t) <= n /\ ToSet(t) \subseteq ToSet(s)
<1> DEFINE m == Len(s)
           t == SubSeq(s, m - n + 1, m)
<1>1. m \in Nat /\ DOMAIN s = 1..m
  OBVIOUS
<1>2. CASE m > n
  <2>1. m - n + 1 \in 1..m + 1 /\ m \in 0..m /\ m - n + 1 <= m + 1
    BY <1>1, <1>2
  <2>2. /\ t \in Seq(S) /\ Len(t) = m - (m - n + 1) + 1
        /\ \A i \in 1..m - (m - n + 1) + 1 : t[i] = s[m - n + 1 + i - 1]
    BY <2>1, SubSeqProperties
  <2>. HIDE DEF t, m
  <2>3. m - (m - n + 1) + 1 = n /\ \A i \in 1..n : m - n + 1 + i - 1 \in 1..m
    BY <1>1, <1>2
  <2>4. t \in Seq(S) /\ Len(t) = n /\ DOMAIN t = 1..n
    BY <2>2, <2>3
  <2>5. \A i \in 1..n : t[i] \in ToSet(s)
    BY <1>1, <2>2, <2>3 DEF ToSet
  <2>6. ToSet(t) \subseteq ToSet(s)
    BY <2>4, <2>5 DEF ToSet
  <2>. QED  BY <1>2, <2>4, <2>6 DEF t, m
<1>3. CASE ~(m > n)
  BY <1>1, <1>3
<1>. QED  BY <1>2, <1>3

-----------------------------------------------------------------------------
(***************************************************************************)
(* The memory of answers keeps to its limit, and forgets rather than make  *)
(* something up.                                                           *)
(***************************************************************************)
IsMemory(m) == m \in Seq(Remembered) /\ Len(m) <= MaxEntries

LEMMA WithoutLemma ==
  ASSUME IsMemory(memory), NEW k
  PROVE  /\ IsMemory(Without(k))
         /\ ToSet(Without(k)) \subseteq ToSet(memory)
         /\ HitsOf(k) # {} => Len(Without(k)) < MaxEntries
<1> DEFINE T == {e \in Remembered : e.key # k}
<1>1. /\ Filtered(memory, T) \in Seq(Remembered)
      /\ ToSet(Filtered(memory, T)) = ToSet(memory) \cap T
      /\ Len(Filtered(memory, T)) <= Len(memory)
      /\ ~(ToSet(memory) \subseteq T) => Len(Filtered(memory, T)) < Len(memory)
  BY SelectedLemma DEF IsMemory
<1>2. HitsOf(k) # {} => ~(ToSet(memory) \subseteq T)
  BY DEF HitsOf
<1>3. Without(k) = Filtered(memory, T)
  BY DEF Without
<1>4. Len(memory) \in Nat /\ Len(memory) <= MaxEntries /\ MaxEntries \in Nat
      /\ Len(Filtered(memory, T)) \in Nat
  BY <1>1, SlotAssumption, LenProperties DEF IsMemory
<1>. HIDE DEF T
<1>. QED  BY <1>1, <1>2, <1>3, <1>4 DEF IsMemory

LEMMA LookedLemma ==
  ASSUME IsMemory(memory), NEW k
  PROVE  IsMemory(Looked(k)) /\ ToSet(Looked(k)) \subseteq ToSet(memory)
<1>1. CASE HitsOf(k) = {}
  BY <1>1, WithoutLemma DEF Looked
<1>2. CASE HitsOf(k) # {}
  <2> DEFINE e == CHOOSE x \in HitsOf(k) : TRUE
  <2>1. e \in ToSet(memory)
    BY <1>2 DEF HitsOf
  <2>. HIDE DEF e
  <2>2. e \in Remembered
    <3>1. \A i \in DOMAIN memory : memory[i] \in Remembered
      BY DEF IsMemory
    <3>. QED  BY <2>1, <3>1 DEF ToSet
  <2>3. Looked(k) = Append(Without(k), e)
    BY <1>2 DEF Looked, e
  <2>4. /\ Without(k) \in Seq(Remembered) /\ Len(Without(k)) < MaxEntries
        /\ ToSet(Without(k)) \subseteq ToSet(memory)
    BY <1>2, WithoutLemma DEF IsMemory
  <2>5. /\ Looked(k) \in Seq(Remembered) /\ Len(Looked(k)) = Len(Without(k)) + 1
        /\ ToSet(Looked(k)) = ToSet(Without(k)) \cup {e}
    BY <2>2, <2>3, <2>4, AppendedLemma
  <2>6. Len(Without(k)) \in Nat /\ MaxEntries \in Nat
    BY <2>4, SlotAssumption, LenProperties
  <2>. QED  BY <2>1, <2>4, <2>5, <2>6 DEF IsMemory
<1>. QED  BY <1>1, <1>2

LEMMA RememberLemma ==
  ASSUME IsMemory(memory), NEW k \in Keys, NEW d \in Data, NEW at \in 0..MaxTime
  PROVE  /\ IsMemory(Remember(k, d, at))
         /\ ToSet(Remember(k, d, at)) \subseteq ToSet(memory) \cup {[key |-> k, data |-> d, at |-> at]}
<1> DEFINE e == [key |-> k, data |-> d, at |-> at]
           m == Append(Without(k), e)
           n == Filtered(m, Recent)
<1>1. e \in Remembered
  BY DEF Remembered
<1>. HIDE DEF e
<1>2. m \in Seq(Remembered) /\ ToSet(m) \subseteq ToSet(memory) \cup {e}
  BY <1>1, WithoutLemma, AppendedLemma DEF IsMemory
<1>. HIDE DEF m
<1>3. n \in Seq(Remembered) /\ ToSet(n) \subseteq ToSet(m)
  BY <1>2, SelectedLemma
<1>4. Remember(k, d, at) =
        IF Len(n) > MaxEntries THEN SubSeq(n, Len(n) - MaxEntries + 1, Len(n)) ELSE n
  BY DEF Remember, m, e
<1>. HIDE DEF n
<1>5. MaxEntries \in Nat
  BY SlotAssumption
<1>6. /\ Remember(k, d, at) \in Seq(Remembered) /\ Len(Remember(k, d, at)) <= MaxEntries
      /\ ToSet(Remember(k, d, at)) \subseteq ToSet(n)
  BY <1>3, <1>4, <1>5, CutLemma
<1>. QED  BY <1>2, <1>3, <1>6 DEF IsMemory, e

-----------------------------------------------------------------------------
(***************************************************************************)
(* Where data come from.  What is remembered, saved or shown for a key was *)
(* loaded for it, and so were the data a frame of the stack may still show *)
(* as it goes on: those of a recalled answer, those that a failed          *)
(* publication puts back, and those that are served while a request in the *)
(* background replaces them.                                               *)
(***************************************************************************)
LoadedFor(q, d, k) == d \in Requests => q[d].key = k /\ q[d].loader = "done"

Loaders ==
  \A r \in Requests :
    requests[r].loader # "none" => requests[r].key \in Keys /\ r <= operationVersion

Unloaded == {"start", "publish", "load"}

\* What is known of a frame whatever has happened since it was pushed.
Known(f) ==
  /\ f.kind \in Finishing \cup {"remember"} => requests[f.op].key \in Keys
  /\ f.kind = "remember" => requests[f.op].loader = "done"
  /\ f.kind \in Unloaded => requests[f.op].loader = "none"
  /\ f.kind \in Replacing \cup {"start", "recover"} => f.op # request
  /\ f.kind = "recall" => LoadedFor(requests, f.entry.data, f.entry.key)
  /\ f.kind \in {"publish", "recover"} /\ f.previous.status = "Success" /\ f.prior.key # NoKey =>
       LoadedFor(requests, f.previous.data, f.prior.key)

\* What is shown while the slot is still as the frame left it.
Resumed(f) ==
  /\ f.kind = "start" /\ f.background /\ f.op = operationVersion /\ state.root = f.before =>
       LoadedFor(requests, state.data, f.key)
  /\ f.kind = "publish" /\ f.op = request =>
       \/ state.data = Written
       \/ /\ state.status = "Pending" /\ state.root = PutBack(f.previous)
          /\ state.data = f.previous.data
  /\ f.kind = "recover" /\ f.op = operationVersion =>
       /\ answer.key \in {f.prior.key, NoKey}
       /\ state.root = PutBack(f.previous) => state.data \in {f.previous.data, Written}

Remembering == \A e \in ToSet(memory) : LoadedFor(requests, e.data, e.key)

Showing ==
  state.status = "Success" /\ answer.key # NoKey => LoadedFor(requests, state.data, answer.key)

Saving ==
  saved.status = "Success" /\ saved.key # NoKey => LoadedFor(requests, saved.data, saved.key)

Revalidating ==
  request # 0 /\ requests[request].background =>
    LoadedFor(requests, state.data, requests[request].key)

Typed ==
  /\ state \in State /\ answer \in Answer /\ IsMemory(memory) /\ saved \in Snapshot
  /\ now \in 1..MaxTime /\ disposed \in BOOLEAN /\ stranded \in BOOLEAN
  /\ Frames \subseteq Frame

SlotInv ==
  /\ IInv
  /\ Typed
  /\ Loaders
  /\ \A f \in Frames : Known(f) /\ Resumed(f)
  /\ Remembering
  /\ Showing
  /\ Saving
  /\ Revalidating

-----------------------------------------------------------------------------
(***************************************************************************)
(* Types.                                                                  *)
(***************************************************************************)
LEMMA FrameLemma ==
  ASSUME NEW f \in Frame
  PROVE  /\ f.kind # "call" => f.op \in Requests
         /\ f.kind = "recall" => f.entry \in Remembered /\ f.deferred \in BOOLEAN
         /\ f.kind = "start" =>
              /\ f.key \in Keys /\ f.superseded \in 0..MaxOps /\ f.before \in Nat
              /\ f.deferred \in BOOLEAN /\ f.background \in BOOLEAN
         /\ f.kind \in {"publish", "recover"} =>
              /\ f.superseded \in 0..MaxOps /\ f.previous \in State /\ f.prior \in Answer
              /\ f.deferred \in BOOLEAN
         /\ f.kind = "load" => f.superseded \in 0..MaxOps
         /\ f.kind = "remember" => f.at \in 0..MaxTime
BY DEF Frame

LEMMA CallTyped == CallFrame \in Frame /\ CallFrame.kind = "call"
BY DEF CallFrame, Frame

LEMMA WritableTyped ==
  ASSUME state \in State
  PROVE  Writable \in State /\ Writable.data = state.data /\ Writable.root = PutBack(state)
<1> DEFINE n == IF state.locked THEN state.root + 1 ELSE state.root
<1>1. n \in Nat \ {0} /\ n = PutBack(state)
  BY DEF State, PutBack
<1>2. Writable = [state EXCEPT !.root = n, !.locked = FALSE]
  BY DEF Writable, State
<1>. HIDE DEF n
<1>3. /\ [state EXCEPT !.root = n, !.locked = FALSE] \in State
      /\ [state EXCEPT !.root = n, !.locked = FALSE].data = state.data
      /\ [state EXCEPT !.root = n, !.locked = FALSE].root = n
  BY <1>1 DEF State
<1>. QED  BY <1>1, <1>2, <1>3

LEMMA ConstantsLemma ==
  /\ Written \in Data /\ Written \notin Requests /\ 0 \in Data /\ 0 \notin Requests
  /\ Requests \subseteq Data
  /\ 0 \in 0..MaxTime /\ 1 \in 1..MaxTime /\ 1..MaxTime \subseteq 0..MaxTime
  /\ MaxTime \in Nat
  /\ NoAnswer \in Answer /\ NoAnswer.key = NoKey /\ NoAnswer.owner = 0
<1>1. MaxOps \in Nat /\ MaxTime \in Nat /\ MaxTime > 0
  BY SlotAssumption
<1>2. NoAnswer \in Answer /\ NoAnswer.key = NoKey /\ NoAnswer.owner = 0
  BY DEF NoAnswer, Answer
<1>. QED  BY <1>1, <1>2 DEF Written, Data, Requests

LEMMA ReconciledLemma ==
  ASSUME NEW a \in Answer, NEW t \in State
  PROVE  /\ Reconciled(a, t) \in Answer
         /\ Reconciled(a, t).key \in {a.key, NoKey}
<1> DEFINE o == IF a.owner = t.root THEN a ELSE NoAnswer
<1>1. o \in Answer /\ o.key \in {a.key, NoKey} /\ t.root \in Nat
  BY ConstantsLemma DEF State
<1>2. Reconciled(a, t) = CASE t.status = "Error" -> [o EXCEPT !.owner = t.root, !.failed = TRUE]
                           [] OTHER -> [o EXCEPT !.failed = FALSE]
  BY DEF Reconciled
<1>. HIDE DEF o
<1>3. /\ [o EXCEPT !.owner = t.root, !.failed = TRUE] \in Answer
      /\ [o EXCEPT !.owner = t.root, !.failed = TRUE].key = o.key
      /\ [o EXCEPT !.failed = FALSE] \in Answer
      /\ [o EXCEPT !.failed = FALSE].key = o.key
  BY <1>1 DEF Answer
<1>. QED  BY <1>1, <1>2, <1>3

-----------------------------------------------------------------------------
(***************************************************************************)
(* What a step does to the requests.                                       *)
(***************************************************************************)
Monotone(q) ==
  \A x \in Requests :
    /\ requests[x].key \in Keys => q[x].key \in Keys
    /\ requests[x].loader = "done" => q[x].loader = "done" /\ q[x].key = requests[x].key

Steady(q) ==
  \A x \in Requests :
    /\ q[x].key = requests[x].key /\ q[x].background = requests[x].background
    /\ requests[x].loader = "done" => q[x].loader = "done"

LEMMA SteadyLemma ==
  ASSUME NEW q, Steady(q)
  PROVE  Monotone(q)
BY DEF Steady, Monotone

LEMMA LoadedKept ==
  ASSUME NEW q, Monotone(q), NEW d, NEW k, LoadedFor(requests, d, k)
  PROVE  LoadedFor(q, d, k)
BY DEF Monotone, LoadedFor

LEMMA SettledFields ==
  ASSUME requests \in [Requests -> Request], NEW r \in Requests
  PROVE  \A x \in Requests :
           /\ Settled(r)[x].key = requests[x].key
           /\ Settled(r)[x].background = requests[x].background
           /\ Settled(r)[x].loader = requests[x].loader
           /\ AnsweredTo(r)[x].key = requests[x].key
           /\ AnsweredTo(r)[x].background = requests[x].background
           /\ AnsweredTo(r)[x].loader = IF x = r THEN "done" ELSE requests[x].loader
<1>1. /\ Settled(r) \in [Requests -> Request]
      /\ \A x \in Requests :
           /\ Settled(r)[x].key = requests[x].key
           /\ Settled(r)[x].background = requests[x].background
           /\ Settled(r)[x].loader = requests[x].loader
  BY DEF Settled, Request
<1>2. \A x \in Requests :
        /\ AnsweredTo(r)[x].key = Settled(r)[x].key
        /\ AnsweredTo(r)[x].background = Settled(r)[x].background
        /\ AnsweredTo(r)[x].loader = IF x = r THEN "done" ELSE Settled(r)[x].loader
  BY <1>1 DEF AnsweredTo, Request
<1>. QED  BY <1>1, <1>2

LEMMA AdoptedFields ==
  ASSUME NEW q \in [Requests -> Request], NEW r \in 0..MaxOps, NEW s
  PROVE  \A x \in Requests :
           /\ Adopted(q, r, s)[x].key = q[x].key
           /\ Adopted(q, r, s)[x].background = q[x].background
           /\ Adopted(q, r, s)[x].loader = q[x].loader
BY BoundsLemma DEF Adopted, Request

-----------------------------------------------------------------------------
(***************************************************************************)
(* The frames and the sources that a step leaves alone.                    *)
(***************************************************************************)
LEMMA OpLemma ==
  ASSUME SlotInv, NEW f \in Frames, f.kind # "call"
  PROVE  f.op \in Requests /\ f.op \in 1..operationVersion /\ operationVersion \in Nat
<1>1. IsFrame(f, operationVersion) /\ operationVersion \in 0..MaxOps
  BY DEF SlotInv, IInv, Shape
<1>. QED  BY <1>1, BoundsLemma DEF IsFrame, CallFrame

LEMMA KnownKept ==
  ASSUME NEW f, Known(f), Monotone(requests'), f.kind # "call" => f.op \in Requests,
         f.kind \in Replacing \cup {"start", "recover"} => f.op # request',
         f.kind \in Unloaded => requests'[f.op].loader = requests[f.op].loader
  PROVE  Known(f)'
<1>1. f.kind \in Finishing \cup {"remember"} => requests'[f.op].key \in Keys
  BY DEF Known, Monotone, Finishing
<1>2. f.kind = "remember" => requests'[f.op].loader = "done"
  BY DEF Known, Monotone
<1>3. f.kind = "recall" => LoadedFor(requests', f.entry.data, f.entry.key)
  BY LoadedKept DEF Known
<1>4. f.kind \in {"publish", "recover"} /\ f.previous.status = "Success" /\ f.prior.key # NoKey =>
        LoadedFor(requests', f.previous.data, f.prior.key)
  BY LoadedKept DEF Known
<1>. QED  BY <1>1, <1>2, <1>3, <1>4 DEF Known

\* A step that leaves what is shown as it is, or lets the application write it.
LEMMA CalmFrame ==
  ASSUME SlotInv, Monotone(requests'), operationVersion' = operationVersion,
         request' \in {0, request},
         \/ state' = state /\ answer' = answer
         \/ state'.data = Written /\ answer'.key \in {answer.key, NoKey},
         NEW f \in Frames,
         f.kind \in Unloaded => requests'[f.op].loader = requests[f.op].loader
  PROVE  Known(f)' /\ Resumed(f)'
<1>1. Known(f) /\ Resumed(f)
  BY DEF SlotInv
<1>2. CASE f.kind = "call"
  BY <1>2 DEF Known, Resumed, Finishing, Replacing, Unloaded
<1>3. CASE f.kind # "call"
  <2>1. f.op \in Requests /\ f.op # 0 /\ f.op \in 1..operationVersion
    BY <1>3, OpLemma, ConstantsLemma
  <2>2. Known(f)'
    BY <1>1, <2>1, KnownKept DEF Known
  <2>3. CASE state' = state /\ answer' = answer
    <3>1. f.kind = "start" /\ f.background /\ f.op = operationVersion /\ state.root = f.before =>
            LoadedFor(requests', state.data, f.key)
      BY <1>1, LoadedKept DEF Resumed
    <3>. QED  BY <1>1, <2>1, <2>2, <2>3, <3>1 DEF Resumed
  <2>4. CASE state'.data = Written /\ answer'.key \in {answer.key, NoKey}
    <3>1. LoadedFor(requests', Written, f.key)
      BY ConstantsLemma DEF LoadedFor
    <3>. QED  BY <1>1, <2>1, <2>2, <2>4, <3>1 DEF Resumed
  <2>. QED  BY <2>3, <2>4
<1>. QED  BY <1>2, <1>3

\* The frame of an operation that another one has overtaken resumes nothing.
LEMMA OlderFrame ==
  ASSUME SlotInv, Monotone(requests'), request' \in {0, operationVersion'},
         NEW f \in Frames, f.kind # "call" => f.op < operationVersion',
         f.kind \in Unloaded => requests'[f.op].loader = requests[f.op].loader
  PROVE  Known(f)' /\ Resumed(f)'
<1>1. Known(f)
  BY DEF SlotInv
<1>2. CASE f.kind = "call"
  BY <1>2 DEF Known, Resumed, Finishing, Replacing, Unloaded
<1>3. CASE f.kind # "call"
  <2>1. f.op \in Requests /\ f.op \in Nat /\ f.op # 0 /\ f.op # operationVersion'
    BY <1>3, OpLemma, ConstantsLemma
  <2>2. f.op # request'
    BY <2>1
  <2>3. Known(f)'
    BY <1>1, <2>1, <2>2, KnownKept
  <2>. QED  BY <2>1, <2>2, <2>3 DEF Resumed
<1>. QED  BY <1>2, <1>3

LEMMA CallSourced == Known(CallFrame)' /\ Resumed(CallFrame)'
BY CallTyped DEF Known, Resumed, Finishing, Replacing, Unloaded

\* Nothing new is shown, saved or remembered.
LEMMA SourcesKept ==
  ASSUME SlotInv, Steady(requests'), UNCHANGED <<state, answer, saved>>,
         \A e \in ToSet(memory') : e \in ToSet(memory) \/ LoadedFor(requests, e.data, e.key),
         request' \in {0, request}
  PROVE  Remembering' /\ Showing' /\ Saving' /\ Revalidating'
<1>0. Monotone(requests')
  BY SteadyLemma
<1>1. Remembering'
  BY <1>0, LoadedKept DEF SlotInv, Remembering
<1>2. Showing' /\ Saving'
  BY <1>0, LoadedKept DEF SlotInv, Showing, Saving
<1>3. Revalidating'
  <2>. SUFFICES ASSUME request' # 0, requests'[request'].background
                PROVE  LoadedFor(requests', state'.data, requests'[request'].key)
    BY DEF Revalidating
  <2>1. request' = request /\ request \in Requests
    BY BoundsLemma DEF SlotInv, IInv, Shape
  <2>2. /\ requests'[request].key = requests[request].key
        /\ requests'[request].background = requests[request].background
    BY <2>1 DEF Steady
  <2>3. LoadedFor(requests, state.data, requests[request].key)
    BY <2>1, <2>2 DEF SlotInv, Revalidating
  <2>. QED  BY <1>0, <2>1, <2>2, <2>3, LoadedKept
<1>. QED  BY <1>1, <1>2, <1>3

LEMMA LoadersKept ==
  ASSUME SlotInv, operationVersion <= operationVersion', operationVersion' \in Nat,
         Monotone(requests'), NEW r,
         \A x \in Requests : x # r => requests'[x].loader = requests[x].loader,
         r \in Requests => \/ requests'[r].loader = "none"
                           \/ requests[r].loader # "none"
                           \/ requests[r].key \in Keys /\ r <= operationVersion
  PROVE  Loaders'
<1>. SUFFICES ASSUME NEW x \in Requests, requests'[x].loader # "none"
              PROVE  requests'[x].key \in Keys /\ x <= operationVersion'
  BY DEF Loaders
<1>1. requests[x].key \in Keys /\ x <= operationVersion
  BY DEF SlotInv, Loaders
<1>2. x \in Nat /\ operationVersion \in Nat /\ requests'[x].key \in Keys
  BY <1>1, BoundsLemma DEF SlotInv, IInv, Shape, Monotone
<1>. QED  BY <1>1, <1>2

\* A step that shows nothing else: frames return, or g goes on; promises end, and
\* the loader of r is called or answers.
LEMMA QuietStep ==
  ASSUME SlotInv, IInv', UNCHANGED <<state, answer, operationVersion, saved>>,
         request' \in {0, request}, Steady(requests'),
         IsMemory(memory'),
         \A e \in ToSet(memory') : e \in ToSet(memory) \/ LoadedFor(requests, e.data, e.key),
         now' \in 1..MaxTime, disposed' \in BOOLEAN, stranded' \in BOOLEAN,
         NEW r,
         \A x \in Requests : x # r => requests'[x].loader = requests[x].loader,
         r \in Requests => \/ requests[r].loader # "none"
                           \/ requests[r].key \in Keys /\ r <= operationVersion,
         NEW g \in Frame, Known(g)', Resumed(g)',
         \A f \in Frames' :
           \/ f \in {g, CallFrame}
           \/ f \in Frames /\ (f.kind \in Unloaded => f.op # r)
  PROVE  SlotInv'
<1>0. Monotone(requests')
  BY SteadyLemma
<1>1. Typed'
  BY CallTyped DEF SlotInv, Typed
<1>2. Loaders'
  <2>1. operationVersion' \in Nat /\ operationVersion <= operationVersion'
    BY BoundsLemma DEF SlotInv, IInv, Shape
  <2>. QED  BY <1>0, <2>1, LoadersKept
<1>3. ASSUME NEW f \in Frames' PROVE Known(f)' /\ Resumed(f)'
  <2>1. CASE f = g
    BY <2>1
  <2>2. CASE f = CallFrame
    BY <2>2, CallSourced
  <2>3. CASE f \notin {g, CallFrame}
    <3>1. f \in Frames /\ (f.kind \in Unloaded => f.op # r)
      BY <2>3
    <3>2. f.kind \in Unloaded => requests'[f.op].loader = requests[f.op].loader
      BY <3>1, OpLemma DEF Unloaded
    <3>. QED  BY <1>0, <3>1, <3>2, CalmFrame
  <2>. QED  BY <2>1, <2>2, <2>3
<1>. QED  BY <1>1, <1>2, <1>3, SourcesKept DEF SlotInv

\* A frame returns, and promises end.
LEMMA QuietPop ==
  ASSUME SlotInv, IInv', UNCHANGED <<state, answer, request, operationVersion, saved, now,
                                     disposed, stranded>>,
         Steady(requests'),
         \A x \in Requests : requests'[x].loader = requests[x].loader,
         IsMemory(memory'),
         \A e \in ToSet(memory') : e \in ToSet(memory) \/ LoadedFor(requests, e.data, e.key),
         stack # <<>>, stack' = Below
  PROVE  SlotInv'
<1>1. Frames' \subseteq Frames
  BY BelowLemma DEF SlotInv, IInv, Frames
<1>2. now' \in 1..MaxTime /\ disposed' \in BOOLEAN /\ stranded' \in BOOLEAN
  BY DEF SlotInv, Typed
<1>3. \A f \in Frames' : f \in Frames /\ (f.kind \in Unloaded => f.op # 0)
  BY <1>1, OpLemma, ConstantsLemma DEF Unloaded
<1>4. 0 \notin Requests
  BY ConstantsLemma
<1>. QED  BY <1>2, <1>3, <1>4, CallTyped, CallSourced, QuietStep

-----------------------------------------------------------------------------
(***************************************************************************)
(* The operations.                                                         *)
(***************************************************************************)
LEMMA TakenStep ==
  ASSUME SlotInv, IInv', NEW g \in Frame, TakeOver(g), g.kind \in Replacing \cup {"start"},
         g.op = operationVersion + 1, IsFrame(g, operationVersion + 1),
         g.kind = "recall" => LoadedFor(requests, g.entry.data, g.entry.key),
         g.kind = "start" /\ g.background => LoadedFor(requests, state.data, g.key),
         UNCHANGED <<state, answer, requests, saved, now, disposed, stranded>>,
         IsMemory(memory'), ToSet(memory') \subseteq ToSet(memory)
  PROVE  SlotInv'
<1>1. /\ operationVersion' = operationVersion + 1
      /\ operationVersion' \in 0..MaxOps /\ operationVersion < operationVersion'
      /\ request' = 0
      /\ Frames' \subseteq Frames \cup {g, CallFrame}
  <2>1. g.kind # "call"
    BY DEF Replacing
  <2>. QED  BY <2>1, TakeOverLemma DEF SlotInv, IInv
<1>2. Steady(requests') /\ Monotone(requests')
  BY SteadyLemma DEF Steady
<1>3. operationVersion \in Nat /\ operationVersion' \in Nat /\ operationVersion + 1 \in Requests
  BY <1>1, BoundsLemma DEF SlotInv, IInv, Shape
<1>4. Known(g)' /\ Resumed(g)'
  <2>1. requests[g.op].loader = "none"
    BY <1>3 DEF SlotInv, Loaders
  <2>2. g.op # request'
    BY <1>1, <1>3, ConstantsLemma
  <2>3. g.kind \notin Finishing \cup {"remember", "publish", "recover"}
    BY DEF Replacing, Finishing
  <2>4. Known(g)'
    BY <2>1, <2>2, <2>3 DEF Known
  <2>. QED  BY <2>3, <2>4 DEF Resumed
<1>5. Typed'
  BY <1>1, CallTyped DEF SlotInv, Typed
<1>6. Loaders'
  BY <1>1, <1>2, <1>3, LoadersKept
<1>7. ASSUME NEW f \in Frames' PROVE Known(f)' /\ Resumed(f)'
  <2>1. CASE f = g
    BY <1>4, <2>1
  <2>2. CASE f = CallFrame
    BY <2>2, CallSourced
  <2>3. CASE f \in Frames
    <3>1. f.kind # "call" => f.op < operationVersion'
      BY <1>1, <1>3, <2>3, OpLemma
    <3>. QED  BY <1>1, <1>2, <2>3, <3>1, OlderFrame
  <2>. QED  BY <1>1, <2>1, <2>2, <2>3
<1>. QED  BY <1>1, <1>2, <1>5, <1>6, <1>7, SourcesKept DEF SlotInv

LEMMA StartSourced ==
  ASSUME SlotInv, IInv', NEW k \in Keys, NEW deferred \in BOOLEAN, NEW background \in BOOLEAN,
         Start(k, deferred, background),
         background => HasAnswer(k, "Success"),
         UNCHANGED <<state, answer, requests, saved, now, disposed, stranded>>,
         IsMemory(memory'), ToSet(memory') \subseteq ToSet(memory)
  PROVE  SlotInv'
<1> DEFINE g == [kind |-> "start", op |-> operationVersion + 1, key |-> k,
                 superseded |-> IF Requested(k) THEN request ELSE 0, before |-> state.root,
                 deferred |-> deferred, background |-> background]
<1>1. TakeOver(g) /\ g.kind = "start" /\ g.op = operationVersion + 1 /\ g.key = k
      /\ g.background = background
  BY DEF Start
<1>2. /\ operationVersion \in Nat /\ request \in 0..operationVersion /\ request \in 0..MaxOps
      /\ 0 \in 0..MaxOps /\ operationVersion + 1 \in Requests /\ state.root \in Nat
  BY <1>1, BoundsLemma DEF SlotInv, IInv, Shape, IsState, TakeOver
<1>3. g.superseded \in 0..operationVersion /\ g.superseded \in 0..MaxOps
  BY <1>2
<1>4. IsFrame(g, operationVersion + 1)
  BY <1>2, <1>3 DEF IsFrame
<1>5. g \in Frame
  BY <1>2, <1>3 DEF Frame
<1>6. background => LoadedFor(requests, state.data, k)
  <2>. SUFFICES ASSUME background PROVE LoadedFor(requests, state.data, k)
    OBVIOUS
  <2>1. state.status = "Success" /\ answer.key = k /\ k # NoKey
    BY BoundsLemma DEF HasAnswer
  <2>. QED  BY <2>1 DEF SlotInv, Showing
<1>. HIDE DEF g
<1>. QED  BY <1>1, <1>4, <1>5, <1>6, TakenStep

LEMMA RecallSourced ==
  ASSUME SlotInv, IInv', NEW k \in Keys, NEW deferred \in BOOLEAN, Recall(k, deferred),
         UNCHANGED <<state, answer, requests, saved, now, disposed, stranded>>,
         IsMemory(memory'), ToSet(memory') \subseteq ToSet(memory)
  PROVE  SlotInv'
<1> DEFINE g(e) == [kind |-> "recall", op |-> operationVersion + 1, entry |-> e,
                    deferred |-> deferred]
<1>1. PICK e \in HitsOf(k) : TakeOver(g(e))
  BY DEF Recall
<1>2. g(e).kind = "recall" /\ g(e).op = operationVersion + 1 /\ g(e).entry = e
      /\ g(e).kind \in Replacing /\ g(e).kind # "start"
  BY DEF Replacing
<1>3. operationVersion \in Nat /\ operationVersion + 1 \in Requests
  BY <1>1, BoundsLemma DEF SlotInv, IInv, Shape, TakeOver
<1>4. IsFrame(g(e), operationVersion + 1)
  BY <1>3 DEF IsFrame
<1>5. e \in ToSet(memory) /\ e \in Remembered
  <2>1. \A i \in DOMAIN memory : memory[i] \in Remembered
    BY DEF SlotInv, Typed, IsMemory
  <2>2. e \in ToSet(memory)
    BY <1>1 DEF HitsOf
  <2>. QED  BY <2>1, <2>2 DEF ToSet
<1>6. g(e) \in Frame
  BY <1>3, <1>5 DEF Frame
<1>7. LoadedFor(requests, e.data, e.key)
  BY <1>5 DEF SlotInv, Remembering
<1>. HIDE DEF g
<1>. QED  BY <1>1, <1>2, <1>4, <1>6, <1>7, TakenStep

LEMMA AskSourced ==
  ASSUME SlotInv, IInv', NEW k \in Keys, NEW deferred \in BOOLEAN, Ask(k, deferred),
         UNCHANGED <<state, answer, requests, saved, now, disposed, stranded>>
  PROVE  SlotInv'
<1>1. IsMemory(memory') /\ ToSet(memory') \subseteq ToSet(memory)
  BY LookedLemma DEF Ask, SlotInv, Typed
<1>. QED  BY <1>1, StartSourced, RecallSourced DEF Ask

LEMMA OperationSourced ==
  ASSUME SlotInv, IInv', NEW kind \in {"abort", "clear", "restore"}, Operation(kind)
  PROVE  SlotInv'
<1> DEFINE g == [kind |-> kind, op |-> operationVersion + 1]
<1>1. TakeOver(g) /\ g.kind \in Replacing /\ g.kind \notin {"start", "recall"}
      /\ g.op = operationVersion + 1
  BY DEF Operation, Replacing
<1>2. operationVersion \in Nat /\ operationVersion + 1 \in Requests
  BY <1>1, BoundsLemma DEF SlotInv, IInv, Shape, TakeOver
<1>3. IsFrame(g, operationVersion + 1) /\ g \in Frame
  BY <1>2 DEF IsFrame, Frame
<1>4. UNCHANGED <<state, answer, requests, memory, saved, now, disposed, stranded>>
  BY DEF Operation
<1>5. IsMemory(memory') /\ ToSet(memory') \subseteq ToSet(memory)
  BY <1>4 DEF SlotInv, Typed
<1>. HIDE DEF g
<1>. QED  BY <1>1, <1>3, <1>4, <1>5, TakenStep

LEMMA DisposeSourced ==
  ASSUME SlotInv, IInv', Dispose
  PROVE  SlotInv'
<1>1. /\ operationVersion' = operationVersion + 1 /\ operationVersion < MaxOps
      /\ request' = 0 /\ disposed' = TRUE /\ answer' = NoAnswer /\ memory' = <<>>
      /\ UNCHANGED <<state, requests, saved, now, stack, stranded>>
  BY DEF Dispose
<1>2. operationVersion \in Nat /\ operationVersion' \in Nat /\ Frames' = Frames
  BY <1>1, BoundsLemma DEF SlotInv, IInv, Shape, Frames
<1>3. Monotone(requests')
  BY <1>1 DEF Monotone
<1>4. IsMemory(memory') /\ ToSet(memory') = {}
  BY <1>1, SlotAssumption DEF IsMemory, ToSet
<1>5. Typed'
  BY <1>1, <1>2, <1>4, ConstantsLemma DEF SlotInv, Typed
<1>6. Loaders'
  BY <1>1, <1>2, <1>3, LoadersKept
<1>7. ASSUME NEW f \in Frames' PROVE Known(f)' /\ Resumed(f)'
  <2>1. f \in Frames /\ (f.kind # "call" => f.op < operationVersion')
    BY <1>1, <1>2, OpLemma
  <2>. QED  BY <1>1, <1>3, <2>1, OlderFrame
<1>8. Remembering' /\ Showing' /\ Saving' /\ Revalidating'
  BY <1>1, <1>4, ConstantsLemma DEF SlotInv, Remembering, Showing, Saving, Revalidating
<1>. QED  BY <1>5, <1>6, <1>7, <1>8 DEF SlotInv

\* The application shows its own data.
LEMMA WrittenStep ==
  ASSUME SlotInv, IInv', NEW t \in State, t.data = Written, NEW keyMoved,
         Publish(t, answer, keyMoved, stack),
         UNCHANGED <<request, operationVersion, requests, memory, saved, now, disposed, stranded>>
  PROVE  SlotInv'
<1>1. /\ state' = t /\ answer' = Reconciled(answer, t)
      /\ Frames' \subseteq Frames \cup {CallFrame}
  <2>1. stack' = stack \o Callbacks(t, keyMoved)
    BY DEF Publish
  <2>2. Callbacks(t, keyMoved) = <<>> \/ Callbacks(t, keyMoved) = <<CallFrame>>
    BY CallbacksLemma
  <2>. QED  BY <2>1, <2>2, CallsLemma DEF Publish, SlotInv, IInv, Shape, Frames
<1>2. answer' \in Answer /\ answer'.key \in {answer.key, NoKey}
  BY <1>1, ReconciledLemma DEF SlotInv, Typed
<1>3. Steady(requests') /\ Monotone(requests')
  BY SteadyLemma DEF Steady
<1>4. Typed'
  BY <1>1, <1>2, CallTyped DEF SlotInv, Typed
<1>5. Loaders' /\ Remembering' /\ Saving'
  BY DEF SlotInv, Loaders, Remembering, Saving
<1>6. ASSUME NEW f \in Frames' PROVE Known(f)' /\ Resumed(f)'
  <2>1. CASE f = CallFrame
    BY <2>1, CallSourced
  <2>2. CASE f \in Frames
    BY <1>1, <1>2, <1>3, <2>2, CalmFrame
  <2>. QED  BY <1>1, <2>1, <2>2
<1>7. \A k : LoadedFor(requests', Written, k)
  BY ConstantsLemma DEF LoadedFor
<1>8. Showing' /\ Revalidating'
  BY <1>1, <1>7 DEF Showing, Revalidating
<1>. QED  BY <1>4, <1>5, <1>6, <1>8 DEF SlotInv

LEMMA WriteSourced ==
  ASSUME SlotInv, IInv',
         Update \/ \E status \in {"Idle", "Success", "Error"} : \E locked \in BOOLEAN : SetData(status, locked)
  PROVE  SlotInv'
<1>0. state \in State
  BY DEF SlotInv, Typed
<1>1. CASE Update
  <2> DEFINE t == [state EXCEPT !.data = Written]
  <2>1. t \in State /\ t.data = Written
    BY <1>0, ConstantsLemma DEF State
  <2>2. Publish(t, answer, FALSE, stack)
        /\ UNCHANGED <<request, operationVersion, requests, memory, saved, now, disposed, stranded>>
    BY <1>1 DEF Update
  <2>. HIDE DEF t
  <2>. QED  BY <2>1, <2>2, WrittenStep
<1>2. ASSUME NEW status \in {"Idle", "Success", "Error"}, NEW locked \in BOOLEAN, SetData(status, locked)
      PROVE  SlotInv'
  <2> DEFINE t == [root |-> state.root + 1, locked |-> locked, status |-> status,
                   data |-> Written, at |-> 0]
  <2>1. t \in State /\ t.data = Written
    BY <1>0, ConstantsLemma DEF State, Statuses
  <2>2. Publish(t, answer, answer.key # NoKey, stack)
        /\ UNCHANGED <<request, operationVersion, requests, memory, saved, now, disposed, stranded>>
    BY <1>2 DEF SetData
  <2>. HIDE DEF t
  <2>. QED  BY <2>1, <2>2, WrittenStep
<1>. QED  BY <1>1, <1>2

LEMMA IdleSourced ==
  ASSUME SlotInv, IInv', TakeSnapshot \/ Tick \/ UNCHANGED vars
  PROVE  SlotInv'
<1>1. /\ UNCHANGED <<state, answer, request, operationVersion, requests, memory, disposed, stack,
                     stranded>>
      /\ now' \in 1..MaxTime
      /\ \/ saved' = saved
         \/ saved' = [status |-> state.status, data |-> state.data, at |-> state.at, key |-> answer.key]
  <2>1. now \in 1..MaxTime /\ (now < MaxTime => now + 1 \in 1..MaxTime)
    BY ConstantsLemma DEF SlotInv, Typed
  <2>. QED  BY <2>1 DEF TakeSnapshot, Tick, vars
<1>2. Frames' = Frames
  BY <1>1 DEF Frames
<1>3. Steady(requests') /\ Monotone(requests')
  BY <1>1, SteadyLemma DEF Steady
<1>4. saved' \in Snapshot
  BY <1>1 DEF SlotInv, Typed, State, Answer, Snapshot
<1>5. Typed'
  BY <1>1, <1>2, <1>4 DEF SlotInv, Typed
<1>6. Saving'
  BY <1>1 DEF SlotInv, Saving, Showing
<1>7. Loaders' /\ Remembering' /\ Showing' /\ Revalidating'
  BY <1>1 DEF SlotInv, Loaders, Remembering, Showing, Revalidating
<1>8. \A f \in Frames' : Known(f)' /\ Resumed(f)'
  BY <1>1, <1>2, <1>3, CalmFrame
<1>. QED  BY <1>5, <1>6, <1>7, <1>8 DEF SlotInv

LEMMA OperationsSourced ==
  ASSUME SlotInv, IInv', Operations
  PROVE  SlotInv'
<1>0. IsMemory(memory)
  BY DEF SlotInv, Typed
<1>1. ASSUME NEW k \in Keys, Load(k) PROVE SlotInv'
  BY <1>1, AskSourced DEF Load
<1>2. ASSUME NEW k \in Keys, Refresh(k) PROVE SlotInv'
  BY <1>0, <1>2, StartSourced DEF Refresh
<1>3. ASSUME NEW k \in Keys, Suspend(k) PROVE SlotInv'
  BY <1>0, <1>3, StartSourced, AskSourced DEF Suspend
<1>4. CASE Abort \/ Clear \/ Restore
  BY <1>4, OperationSourced DEF Abort, Clear, Restore
<1>5. \A locked \in {FALSE, MayLock} : locked \in BOOLEAN
  BY SlotAssumption
<1>. QED  BY <1>1, <1>2, <1>3, <1>4, <1>5, DisposeSourced, WriteSourced, IdleSourced DEF Operations

-----------------------------------------------------------------------------
(***************************************************************************)
(* The continuations.                                                      *)
(***************************************************************************)
\* The frames that are left when the one on top returns took the slot before it.
LEMMA LeftLemma ==
  ASSUME SlotInv, stack # <<>>, NEW c, c = <<>> \/ c = <<CallFrame>>, stack' = Below \o c
  PROVE  \A f \in Frames' :
           \/ f = CallFrame
           \/ f \in Frames /\ (f.kind # "call" /\ Top.kind # "call" => f.op < Top.op)
<1>1. /\ Stack(Below) /\ FramesOf(Below) \subseteq Frames
      /\ AllBefore(FramesOf(Below), Top)
  BY BelowLemma DEF SlotInv, IInv
<1>2. Frames' \subseteq FramesOf(Below) \cup {CallFrame}
  BY <1>1, CallsLemma DEF Frames
<1>. QED  BY <1>1, <1>2 DEF AllBefore

LEMMA TopSourced ==
  ASSUME SlotInv, stack # <<>>
  PROVE  /\ Top \in Frames /\ Top \in Frame
         /\ Known(Top) /\ Resumed(Top)
         /\ Top.kind # "call" =>
              /\ Top.op \in Requests /\ Top.op \in 1..operationVersion /\ operationVersion \in Nat
              /\ Below \o <<>> = Below
<1>1. Top \in Frames
  BY BelowLemma DEF SlotInv, IInv
<1>. QED  BY <1>1, OpLemma, TopLemma DEF SlotInv, Typed

LEMMA ReturnSourced ==
  ASSUME SlotInv, IInv', Return \/ GiveWay
  PROVE  SlotInv'
<1>1. /\ stack # <<>> /\ stack' = Below
      /\ UNCHANGED <<state, answer, request, operationVersion, requests, memory, saved, now,
                     disposed, stranded>>
  BY DEF Return, GiveWay, Runs
<1>2. Steady(requests') /\ IsMemory(memory')
  BY <1>1 DEF Steady, SlotInv, Typed
<1>. QED  BY <1>1, <1>2, QuietPop

LEMMA RememberAfterSourced ==
  ASSUME SlotInv, IInv', RememberAfter
  PROVE  SlotInv'
<1> DEFINE k == requests[Top.op].key
           e == [key |-> k, data |-> Top.op, at |-> Top.at]
<1>1. /\ stack # <<>> /\ stack' = Below /\ Top.kind = "remember"
      /\ memory' = Remember(k, Top.op, Top.at)
      /\ UNCHANGED <<state, answer, request, operationVersion, requests, saved, now, disposed,
                     stranded>>
  BY DEF RememberAfter, Runs
<1>2. /\ k \in Keys /\ requests[Top.op].loader = "done" /\ Top.op \in Data
      /\ Top.at \in 0..MaxTime
  BY <1>1, TopSourced, FrameLemma, ConstantsLemma DEF Known
<1>3. IsMemory(memory) /\ Steady(requests')
  BY <1>1 DEF SlotInv, Typed, Steady
<1>4. e.key = k /\ e.data = Top.op
  OBVIOUS
<1>. HIDE DEF k, e
<1>5. IsMemory(memory') /\ ToSet(memory') \subseteq ToSet(memory) \cup {e}
  BY <1>1, <1>2, <1>3, RememberLemma DEF e
<1>6. LoadedFor(requests, e.data, e.key)
  BY <1>2, <1>4 DEF LoadedFor, k
<1>. QED  BY <1>1, <1>3, <1>5, <1>6, QuietPop

LEMMA StartOvertakenSourced ==
  ASSUME SlotInv, IInv', StartOvertaken
  PROVE  SlotInv'
<1> DEFINE f == Top
<1>1. /\ stack # <<>> /\ f.kind = "start" /\ stack' = Below
      /\ UNCHANGED <<state, answer, request, operationVersion, memory, saved, now, disposed,
                     stranded>>
      /\ \/ f.superseded # 0 /\ requests' = Settled(f.superseded)
         \/ requests' = Adopted(requests, f.superseded, request)
         \/ requests' = requests
  BY DEF StartOvertaken, Runs
<1>2. f.superseded \in 0..MaxOps
  BY <1>1, TopSourced, FrameLemma
<1>. HIDE DEF f
<1>3. requests \in [Requests -> Request] /\ IsMemory(memory')
  BY <1>1 DEF SlotInv, IInv, Shape, Typed
<1>4. \A x \in Requests :
        /\ requests'[x].key = requests[x].key
        /\ requests'[x].background = requests[x].background
        /\ requests'[x].loader = requests[x].loader
  <2>1. CASE f.superseded # 0 /\ requests' = Settled(f.superseded)
    <3>1. f.superseded \in Requests
      BY <1>2, <2>1, BoundsLemma
    <3>. QED  BY <1>3, <2>1, <3>1, SettledFields
  <2>2. CASE requests' = Adopted(requests, f.superseded, request)
    BY <1>2, <1>3, <2>2, AdoptedFields
  <2>3. CASE requests' = requests
    BY <2>3
  <2>. QED  BY <1>1, <2>1, <2>2, <2>3
<1>5. Steady(requests')
  BY <1>4 DEF Steady
<1>. QED  BY <1>1, <1>3, <1>4, <1>5, QuietPop

LEMMA DisownedSourced ==
  ASSUME SlotInv, IInv', Disowned
  PROVE  SlotInv'
<1>1. /\ stack # <<>> /\ Top.kind = "publish" /\ stack' = Below /\ requests' = Settled(Top.op)
      /\ UNCHANGED <<state, answer, request, operationVersion, memory, saved, now, disposed,
                     stranded>>
  BY DEF Disowned, Runs
<1>2. requests \in [Requests -> Request] /\ IsMemory(memory') /\ Top.op \in Requests
  BY <1>1, TopSourced DEF SlotInv, IInv, Shape, Typed
<1>3. \A x \in Requests : requests'[x].loader = requests[x].loader
  BY <1>1, <1>2, SettledFields
<1>4. Steady(requests')
  BY <1>1, <1>2, SettledFields DEF Steady
<1>. QED  BY <1>1, <1>2, <1>3, <1>4, QuietPop

LEMMA LoadingSourced ==
  ASSUME SlotInv, IInv', Loading
  PROVE  SlotInv'
<1> DEFINE r == Top.op
           q == [requests EXCEPT ![r].loader = "running"]
<1>1. /\ stack # <<>> /\ Top.kind = "load" /\ stack' = Below
      /\ requests' = Adopted(q, Top.superseded, r)
      /\ UNCHANGED <<state, answer, request, operationVersion, memory, saved, now, disposed,
                     stranded>>
  BY DEF Loading, Runs
<1>2. /\ r \in Requests /\ r \in 1..operationVersion /\ operationVersion \in Nat
      /\ Top.superseded \in 0..MaxOps /\ requests[r].key \in Keys /\ Below \o <<>> = Below
  BY <1>1, TopSourced, FrameLemma DEF Known, Finishing
<1>3. requests \in [Requests -> Request]
  BY DEF SlotInv, IInv, Shape
<1>. HIDE DEF r
<1>4. /\ q \in [Requests -> Request] /\ q[r].loader = "running"
      /\ \A x \in Requests :
           /\ q[x].key = requests[x].key /\ q[x].background = requests[x].background
           /\ x # r => q[x].loader = requests[x].loader
  BY <1>2, <1>3 DEF Request
<1>. HIDE DEF q
<1>5. \A x \in Requests :
        /\ requests'[x].key = requests[x].key
        /\ requests'[x].background = requests[x].background
        /\ requests'[x].loader = IF x = r THEN "running" ELSE requests[x].loader
  BY <1>1, <1>2, <1>4, AdoptedFields
<1>6. Steady(requests') /\ \A x \in Requests : x # r => requests'[x].loader = requests[x].loader
  <2>1. requests[r].loader = "none"
    BY <1>1, TopSourced DEF Known, Unloaded, r
  <2>. QED  BY <1>2, <1>5, <2>1 DEF Steady
<1>7. \A f \in Frames' :
        \/ f = CallFrame
        \/ f \in Frames /\ (f.kind \in Unloaded => f.op # r)
  <2>1. \A f \in Frames' : f = CallFrame \/ (f \in Frames /\ (f.kind # "call" => f.op < r))
    BY <1>1, <1>2, LeftLemma DEF r
  <2>2. \A f \in Frames : f.kind \in Unloaded => f.op \in Nat
    BY OpLemma, BoundsLemma DEF Unloaded
  <2>. QED  BY <1>2, <2>1, <2>2 DEF Unloaded
<1>8. /\ IsMemory(memory') /\ now' \in 1..MaxTime /\ disposed' \in BOOLEAN
      /\ stranded' \in BOOLEAN
  BY <1>1 DEF SlotInv, Typed
<1>. QED  BY <1>1, <1>2, <1>6, <1>7, <1>8, CallTyped, CallSourced, QuietStep

LEMMA InstallSourced ==
  ASSUME SlotInv, IInv', Install
  PROVE  SlotInv'
<1> DEFINE f == Top
           t == [Writable EXCEPT !.status = "Pending"]
           c == IF f.deferred THEN <<>> ELSE Callbacks(t, FALSE)
           n == [key |-> f.key, background |-> f.background, loader |-> "none",
                 promise |-> "open", successor |-> 0, replacing |-> f.superseded]
<1>0. PICK g : g = [kind |-> "publish", op |-> f.op, superseded |-> f.superseded,
                    previous |-> state, prior |-> answer, deferred |-> f.deferred]
  OBVIOUS
<1>1. /\ stack # <<>> /\ f.kind = "start" /\ f.op = operationVersion /\ state.root = f.before
      /\ request' = f.op /\ requests' = [requests EXCEPT ![f.op] = n]
      /\ state' = t /\ answer' = NoAnswer /\ stack' = Append(Below, g) \o c
      /\ UNCHANGED <<operationVersion, memory, saved, now, disposed, stranded>>
  BY <1>0 DEF Install, Runs, Overtaken
<1>2. /\ f.op \in Requests /\ operationVersion \in Nat /\ f.op # 0
      /\ f.key \in Keys /\ f.superseded \in 0..MaxOps /\ f.deferred \in BOOLEAN
      /\ requests[f.op].loader = "none"
  <2>1. f \in Frame /\ Known(f)
    BY <1>1, TopSourced
  <2>2. f.op \in Requests /\ operationVersion \in Nat
    BY <1>1, TopSourced
  <2>. HIDE DEF f
  <2>. QED  BY <1>1, <2>1, <2>2, FrameLemma, ConstantsLemma DEF Known, Unloaded
<1>3. state \in State /\ answer \in Answer
  BY DEF SlotInv, Typed
<1>4. /\ t \in State /\ t.status = "Pending" /\ t.data = state.data /\ t.root = PutBack(state)
  <2> DEFINE w == Writable
  <2>1. w \in State /\ w.data = state.data /\ w.root = PutBack(state)
    BY <1>3, WritableTyped
  <2>. HIDE DEF w
  <2>2. /\ [w EXCEPT !.status = "Pending"] \in State
        /\ [w EXCEPT !.status = "Pending"].status = "Pending"
        /\ [w EXCEPT !.status = "Pending"].data = w.data
        /\ [w EXCEPT !.status = "Pending"].root = w.root
    BY <2>1 DEF State, Statuses
  <2>. QED  BY <2>1, <2>2 DEF w
<1>5. /\ g.kind = "publish" /\ g.op = f.op /\ g.previous = state /\ g.prior = answer
      /\ n.key = f.key /\ n.background = f.background /\ n.loader = "none"
  BY <1>0
<1>6. g \in Frame
  BY <1>0, <1>2, <1>3 DEF Frame
<1>7. c = <<>> \/ c = <<CallFrame>>
  BY CallbacksLemma
<1>8. \A h \in Frames' :
        \/ h = g
        \/ h = CallFrame
        \/ h \in Frames /\ (h.kind # "call" => h.op < g.op)
  <2>. HIDE DEF c
  <2>. QED  BY <1>1, <1>5, <1>7, ReplacedLemma DEF SlotInv, IInv, Frames
<1>. HIDE DEF t, c, n
<1>9. /\ requests'[f.op] = n
      /\ \A x \in Requests : x # f.op => requests'[x] = requests[x]
  <2>1. requests \in [Requests -> Request]
    BY DEF SlotInv, IInv, Shape
  <2>. HIDE DEF f
  <2>. QED  BY <1>1, <1>2, <2>1
<1>10. f.background => LoadedFor(requests, state.data, f.key)
  BY <1>1, TopSourced DEF Resumed
<1>. HIDE DEF f
<1>11. Monotone(requests')
  BY <1>2, <1>5, <1>9 DEF Monotone
<1>12. Typed'
  BY <1>1, <1>4, <1>6, <1>8, CallTyped, ConstantsLemma DEF SlotInv, Typed
<1>13. Loaders'
  BY <1>1, <1>2, <1>5, <1>9, <1>11, LoadersKept
<1>14. Known(g)' /\ Resumed(g)'
  <2>1. state.status = "Success" /\ answer.key # NoKey => LoadedFor(requests', state.data, answer.key)
    BY <1>11, LoadedKept DEF SlotInv, Showing
  <2>2. Known(g)'
    BY <1>2, <1>5, <1>9, <2>1 DEF Known, Finishing, Replacing, Unloaded
  <2>. QED  BY <1>1, <1>4, <1>5, <2>2 DEF Resumed
<1>15. ASSUME NEW h \in Frames' PROVE Known(h)' /\ Resumed(h)'
  <2>1. CASE h = g
    BY <1>14, <2>1
  <2>2. CASE h = CallFrame
    BY <2>2, CallSourced
  <2>3. CASE h \notin {g, CallFrame}
    <3>1. h \in Frames /\ (h.kind # "call" => h.op < f.op)
      BY <1>5, <1>8, <2>3
    <3>2. h.kind \in Unloaded => requests'[h.op].loader = requests[h.op].loader
      <4>. SUFFICES ASSUME h.kind \in Unloaded
                    PROVE  requests'[h.op].loader = requests[h.op].loader
        OBVIOUS
      <4>1. h.op \in Requests /\ h.op < f.op
        BY <3>1, OpLemma DEF Unloaded
      <4>2. h.op # f.op
        BY <1>2, <4>1, BoundsLemma
      <4>. QED  BY <1>9, <4>1, <4>2
    <3>. QED  BY <1>1, <1>11, <3>1, <3>2, OlderFrame
  <2>. QED  BY <2>1, <2>2, <2>3
<1>16. Remembering' /\ Saving'
  BY <1>1, <1>11, LoadedKept DEF SlotInv, Remembering, Saving
<1>17. Showing'
  BY <1>1, <1>4 DEF Showing
<1>18. Revalidating'
  BY <1>1, <1>4, <1>5, <1>9, <1>10, <1>11, LoadedKept DEF Revalidating
<1>. QED  BY <1>12, <1>13, <1>15, <1>16, <1>17, <1>18 DEF SlotInv

LEMMA CallLoaderSourced ==
  ASSUME SlotInv, IInv', CallLoader
  PROVE  SlotInv'
<1>0. PICK g : g = [kind |-> "load", op |-> Top.op, superseded |-> Top.superseded]
  OBVIOUS
<1>1. /\ stack # <<>> /\ Top.kind = "publish"
      /\ stack' = Below \o <<g, CallFrame>>
      /\ UNCHANGED <<state, answer, request, operationVersion, requests, memory, saved, now,
                     disposed, stranded>>
  BY <1>0 DEF CallLoader, Runs
<1>2. /\ Top.op \in Requests /\ Top.superseded \in 0..MaxOps
      /\ requests[Top.op].key \in Keys /\ requests[Top.op].loader = "none"
  BY <1>1, TopSourced, FrameLemma DEF Known, Finishing, Unloaded
<1>3. g.kind = "load" /\ g.op = Top.op /\ g \in Frame
  BY <1>0, <1>2 DEF Frame
<1>4. \A f \in Frames' : f = g \/ f = CallFrame \/ f \in Frames
  BY <1>1, <1>3, GoesOnLemma DEF SlotInv
<1>5. Known(g)' /\ Resumed(g)'
  BY <1>1, <1>2, <1>3 DEF Known, Resumed, Unloaded, Finishing, Replacing
<1>6. Steady(requests') /\ 0 \notin Requests
  BY <1>1, ConstantsLemma DEF Steady
<1>7. \A f \in Frames : f.kind \in Unloaded => f.op # 0
  BY <1>6, OpLemma DEF Unloaded
<1>8. /\ IsMemory(memory') /\ now' \in 1..MaxTime /\ disposed' \in BOOLEAN
      /\ stranded' \in BOOLEAN
  BY <1>1 DEF SlotInv, Typed
<1>. QED  BY <1>1, <1>3, <1>4, <1>5, <1>6, <1>7, <1>8, QuietStep

LEMMA PublicationFailsSourced ==
  ASSUME SlotInv, IInv', PublicationFails
  PROVE  SlotInv'
<1>0. PICK g : g = [Top EXCEPT !.kind = "recover"]
  OBVIOUS
<1>1. /\ stack # <<>> /\ Top.kind = "publish" /\ request = Top.op /\ request' = 0
      /\ answer' = Top.prior
      /\ stack' = Below \o <<g, CallFrame>>
      /\ UNCHANGED <<state, operationVersion, requests, memory, saved, now, disposed, stranded>>
  BY <1>0 DEF PublicationFails, Runs, IsCurrent
<1>2. /\ Top.op \in Requests /\ Top.op # 0 /\ requests[Top.op].key \in Keys
      /\ Top.prior \in Answer /\ Top.previous \in State /\ Top \in Frame
      /\ Known(Top) /\ Resumed(Top) /\ operationVersion \in Nat
  BY <1>1, TopSourced, FrameLemma, ConstantsLemma DEF Known, Finishing
<1>3. /\ g \in Frame
      /\ g.kind = "recover" /\ g.op = Top.op /\ g.previous = Top.previous /\ g.prior = Top.prior
  <2> DEFINE F == [kind : {"publish", "recover"}, op : Requests, superseded : 0..MaxOps,
                   previous : State, prior : Answer, deferred : BOOLEAN]
  <2>1. Top \in F
    BY <1>1, <1>2 DEF Frame
  <2>2. \A f \in F : /\ [f EXCEPT !.kind = "recover"] \in F
                     /\ [f EXCEPT !.kind = "recover"].kind = "recover"
                     /\ [f EXCEPT !.kind = "recover"].op = f.op
                     /\ [f EXCEPT !.kind = "recover"].previous = f.previous
                     /\ [f EXCEPT !.kind = "recover"].prior = f.prior
    OBVIOUS
  <2>3. F \subseteq Frame
    BY DEF Frame
  <2>. HIDE DEF F
  <2>. QED  BY <1>0, <2>1, <2>2, <2>3
<1>4. \A f \in Frames' :
        \/ f = g
        \/ f = CallFrame
        \/ f \in Frames /\ (f.kind # "call" => f.op < g.op)
  BY <1>1, <1>3, GoesOnLemma DEF SlotInv
<1>5. Top.op = operationVersion
  BY <1>1, <1>2, ConstantsLemma DEF SlotInv, IInv, Shape
<1>6. Monotone(requests') /\ Steady(requests')
  BY <1>1, SteadyLemma DEF Steady
<1>7. Known(g)' /\ Resumed(g)'
  <2>1. Known(g)'
    BY <1>1, <1>2, <1>3 DEF Known, Finishing, Unloaded, Replacing
  <2>2. state.data = Written \/ state.data = Top.previous.data
    BY <1>1, <1>2 DEF Resumed
  <2>. QED  BY <1>1, <1>3, <2>1, <2>2 DEF Resumed
<1>8. Typed'
  BY <1>1, <1>2, <1>3, <1>4, CallTyped DEF SlotInv, Typed
<1>9. ASSUME NEW f \in Frames' PROVE Known(f)' /\ Resumed(f)'
  <2>1. CASE f = g
    BY <1>7, <2>1
  <2>2. CASE f = CallFrame
    BY <2>2, CallSourced
  <2>3. CASE f \notin {g, CallFrame}
    BY <1>1, <1>3, <1>4, <1>5, <1>6, <2>3, OlderFrame
  <2>. QED  BY <2>1, <2>2, <2>3
<1>10. Showing'
  <2>1. state.data = Written \/ state.status = "Pending"
    BY <1>1, <1>2 DEF Resumed
  <2>2. \A k : LoadedFor(requests, Written, k)
    BY ConstantsLemma DEF LoadedFor
  <2>. QED  BY <1>1, <2>1, <2>2 DEF Showing
<1>11. Loaders' /\ Remembering' /\ Saving' /\ Revalidating'
  BY <1>1 DEF SlotInv, Loaders, Remembering, Saving, Revalidating
<1>. QED  BY <1>8, <1>9, <1>10, <1>11 DEF SlotInv

\* The operation that took the slot last says what is shown.
LEMMA ShownStep ==
  ASSUME SlotInv, IInv', stack # <<>>, Top.kind # "call", Top.op = operationVersion,
         UNCHANGED <<operationVersion, saved, now, disposed>>, stranded' \in BOOLEAN,
         request' = 0, Steady(requests'),
         \A x \in Requests : requests'[x].loader = requests[x].loader,
         NEW c, c = <<>> \/ c = <<CallFrame>>, stack' = Below \o c,
         state' \in State, answer' \in Answer,
         state'.status = "Success" /\ answer'.key # NoKey =>
           LoadedFor(requests, state'.data, answer'.key),
         IsMemory(memory'), ToSet(memory') \subseteq ToSet(memory)
  PROVE  SlotInv'
<1>1. \A f \in Frames' :
        \/ f = CallFrame
        \/ f \in Frames /\ (f.kind # "call" => f.op < operationVersion')
  BY LeftLemma
<1>2. Monotone(requests') /\ operationVersion' \in Nat /\ operationVersion \in Nat
  BY SteadyLemma, BoundsLemma DEF SlotInv, IInv, Shape
<1>3. Typed'
  BY <1>1, CallTyped DEF SlotInv, Typed
<1>4. Loaders'
  <2>1. \A x \in Requests : x # 0 => requests'[x].loader = requests[x].loader
    OBVIOUS
  <2>2. 0 \notin Requests /\ operationVersion <= operationVersion'
    BY <1>2, ConstantsLemma
  <2>. QED  BY <1>2, <2>1, <2>2, LoadersKept
<1>5. ASSUME NEW f \in Frames' PROVE Known(f)' /\ Resumed(f)'
  <2>1. CASE f = CallFrame
    BY <2>1, CallSourced
  <2>2. CASE f # CallFrame
    <3>1. f \in Frames /\ (f.kind # "call" => f.op < operationVersion')
      BY <1>1, <2>2
    <3>2. f.kind \in Unloaded => requests'[f.op].loader = requests[f.op].loader
      BY <3>1, OpLemma DEF Unloaded
    <3>. QED  BY <1>2, <3>1, <3>2, OlderFrame
  <2>. QED  BY <2>1, <2>2
<1>6. Remembering' /\ Saving'
  BY <1>2, LoadedKept DEF SlotInv, Remembering, Saving
<1>7. Showing' /\ Revalidating'
  BY <1>2, LoadedKept DEF Showing, Revalidating
<1>. QED  BY <1>3, <1>4, <1>5, <1>6, <1>7 DEF SlotInv

LEMMA ReplacingSourced ==
  ASSUME SlotInv, IInv', Aborted \/ Cleared \/ Restored \/ Recalled
  PROVE  SlotInv'
<1>1. /\ stack # <<>> /\ Top.kind # "call" /\ Top.kind \in Replacing /\ Top.op = operationVersion
      /\ UNCHANGED <<request, operationVersion, requests, saved, now, disposed, stranded>>
  BY DEF Aborted, Cleared, Restored, Recalled, Continues, Runs, Replacing
<1>2. request' = 0 /\ Steady(requests') /\ stranded' \in BOOLEAN
  BY <1>1, TopSourced DEF Known, SlotInv, IInv, Shape, Typed, Steady
<1>3. /\ state \in State /\ answer \in Answer /\ IsMemory(memory) /\ state.root \in Nat
      /\ Writable \in State /\ saved \in Snapshot
  BY WritableTyped DEF SlotInv, Typed, State
<1>4. ASSUME Aborted PROVE SlotInv'
  <2> DEFINE t == [Writable EXCEPT !.status = "Idle"]
  <2>1. t \in State /\ t.status = "Idle"
    <3> DEFINE w == Writable
    <3>1. w \in State
      BY <1>3
    <3>. HIDE DEF w
    <3>2. [w EXCEPT !.status = "Idle"] \in State /\ [w EXCEPT !.status = "Idle"].status = "Idle"
      BY <3>1 DEF State, Statuses
    <3>. QED  BY <3>2 DEF w
  <2>2. /\ state' = t /\ answer' = Reconciled(NoAnswer, t) /\ memory' = memory
        /\ stack' = Below \o Callbacks(t, FALSE)
    BY <1>4 DEF Aborted, Publish
  <2>. HIDE DEF t
  <2>3. answer' \in Answer
    BY <2>1, <2>2, ReconciledLemma, ConstantsLemma
  <2>. QED  BY <1>1, <1>2, <1>3, <2>1, <2>2, <2>3, CallbacksLemma, ShownStep
<1>5. ASSUME Cleared PROVE SlotInv'
  <2> DEFINE t == InitialState(state.root + 1)
  <2>1. t \in State /\ t.status = "Idle"
    BY <1>3, ConstantsLemma DEF InitialState, State, Statuses
  <2>2. /\ state' = t /\ answer' = Reconciled(NoAnswer, t) /\ memory' = <<>>
        /\ stack' = Below \o Callbacks(t, answer # NoAnswer)
    BY <1>5 DEF Cleared, Publish
  <2>. HIDE DEF t
  <2>3. answer' \in Answer
    BY <2>1, <2>2, ReconciledLemma, ConstantsLemma
  <2>4. IsMemory(memory') /\ ToSet(memory') \subseteq ToSet(memory)
    BY <2>2, SlotAssumption DEF IsMemory, ToSet
  <2>. QED  BY <1>1, <1>2, <1>3, <2>1, <2>2, <2>3, <2>4, CallbacksLemma, ShownStep
<1>6. ASSUME Restored PROVE SlotInv'
  <2> DEFINE t == [root |-> state.root + 1, locked |-> FALSE, data |-> saved.data, at |-> saved.at,
                   status |-> IF saved.status = "Pending" THEN "Idle" ELSE saved.status]
             settled == saved.status \in {"Success", "Error"}
             a == IF settled THEN [key |-> saved.key, owner |-> t.root,
                                   failed |-> saved.status = "Error"] ELSE NoAnswer
             m == answer.key # (IF settled THEN saved.key ELSE NoKey)
  <2>1. /\ t \in State /\ t.data = saved.data
        /\ t.status = "Success" => saved.status = "Success"
    BY <1>3, ConstantsLemma DEF State, Snapshot, Statuses
  <2>2. a \in Answer /\ a.key \in {saved.key, NoKey}
    BY <1>3, <2>1, ConstantsLemma DEF Answer, Snapshot, State
  <2>3. /\ state' = t /\ answer' = Reconciled(a, t) /\ memory' = memory
        /\ stack' = Below \o Callbacks(t, m)
    BY <1>6 DEF Restored, Publish
  <2>. HIDE DEF t, a, m
  <2>4. answer' \in Answer /\ answer'.key \in {a.key, NoKey}
    BY <2>1, <2>2, <2>3, ReconciledLemma
  <2>5. state'.status = "Success" /\ answer'.key # NoKey =>
          LoadedFor(requests, state'.data, answer'.key)
    BY <2>1, <2>2, <2>3, <2>4 DEF SlotInv, Saving
  <2>. QED  BY <1>1, <1>2, <1>3, <2>1, <2>3, <2>4, <2>5, CallbacksLemma, ShownStep
<1>7. ASSUME Recalled PROVE SlotInv'
  <2> DEFINE e == Top.entry
             t == [Writable EXCEPT !.status = "Success", !.data = e.data, !.at = e.at]
             a == [key |-> e.key, owner |-> t.root, failed |-> FALSE]
             c == IF Top.deferred THEN <<>> ELSE Callbacks(t, answer.key # e.key)
  <2>1. Top.kind = "recall" /\ e \in Remembered /\ LoadedFor(requests, e.data, e.key)
    <3>1. Top.kind = "recall"
      BY <1>7 DEF Recalled, Continues, Runs
    <3>. QED  BY <1>1, <3>1, TopSourced, FrameLemma DEF Known
  <2>2. t \in State /\ t.data = e.data
    <3> DEFINE w == Writable
    <3>1. w \in State /\ e.data \in Data /\ e.at \in 0..MaxTime
      BY <1>3, <2>1 DEF Remembered
    <3>. HIDE DEF w, e
    <3>2. /\ [w EXCEPT !.status = "Success", !.data = e.data, !.at = e.at] \in State
          /\ [w EXCEPT !.status = "Success", !.data = e.data, !.at = e.at].data = e.data
      BY <3>1 DEF State, Statuses
    <3>. QED  BY <3>2 DEF w
  <2>3. state' = t /\ answer' = a /\ stack' = Below \o c /\ memory' = memory
    BY <1>7 DEF Recalled
  <2>4. c = <<>> \/ c = <<CallFrame>>
    BY CallbacksLemma
  <2>. HIDE DEF e, t, c
  <2>5. answer' \in Answer /\ answer'.key = e.key
    BY <2>1, <2>2, <2>3 DEF Answer, Remembered, State
  <2>. HIDE DEF a
  <2>. QED  BY <1>1, <1>2, <1>3, <2>1, <2>2, <2>3, <2>4, <2>5, ShownStep
<1>. QED  BY <1>4, <1>5, <1>6, <1>7

LEMMA RecoverSourced ==
  ASSUME SlotInv, IInv', Recover
  PROVE  SlotInv'
<1> DEFINE p == Top.previous
           back == IF p.locked THEN p ELSE [state EXCEPT !.status = p.status]
<1>1. /\ stack # <<>> /\ Top.kind = "recover" /\ requests' = Settled(Top.op)
      /\ UNCHANGED <<request, operationVersion, memory, saved, now, disposed>>
      /\ \/ /\ operationVersion = Top.op /\ state.root = PutBack(p)
            /\ state' = back /\ answer' = Reconciled(answer, back)
            /\ stack' = Below \o Callbacks(back, FALSE)
            /\ stranded' = (stranded \/ p.status = "Pending")
         \/ stack' = Below /\ UNCHANGED <<state, answer, stranded>>
  BY DEF Recover, Runs, Publish, PutBack
<1>2. /\ Top.op \in Requests /\ Top.op # request /\ p \in State /\ Top.prior \in Answer
      /\ p.status = "Success" /\ Top.prior.key # NoKey => LoadedFor(requests, p.data, Top.prior.key)
      /\ Resumed(Top)
  BY <1>1, TopSourced, FrameLemma DEF Known
<1>3. /\ requests \in [Requests -> Request] /\ state \in State /\ answer \in Answer
      /\ IsMemory(memory') /\ ToSet(memory') \subseteq ToSet(memory)
  BY <1>1 DEF SlotInv, IInv, Shape, Typed
<1>4. Steady(requests') /\ \A x \in Requests : requests'[x].loader = requests[x].loader
  BY <1>1, <1>2, <1>3, SettledFields DEF Steady
<1>5. /\ back \in State /\ back.status = p.status
      /\ back.data \in {p.data, state.data}
  <2>1. p.status \in Statuses
    BY <1>2 DEF State
  <2>. HIDE DEF p
  <2>2. /\ [state EXCEPT !.status = p.status] \in State
        /\ [state EXCEPT !.status = p.status].status = p.status
        /\ [state EXCEPT !.status = p.status].data = state.data
    BY <1>3, <2>1 DEF State
  <2>. QED  BY <1>2, <2>2
<1>. HIDE DEF back
<1>6. ASSUME operationVersion = Top.op, state.root = PutBack(p),
             state' = back, answer' = Reconciled(answer, back),
             stack' = Below \o Callbacks(back, FALSE), stranded' = (stranded \/ p.status = "Pending")
      PROVE  SlotInv'
  <2>1. request' = 0
    BY <1>1, <1>2, <1>6 DEF SlotInv, IInv, Shape
  <2>2. stranded' \in BOOLEAN
    BY <1>6, Zenon
  <2>3. answer' \in Answer /\ answer'.key \in {answer.key, NoKey}
    BY <1>3, <1>5, <1>6, ReconciledLemma
  <2>4. answer.key \in {Top.prior.key, NoKey} /\ state.data \in {p.data, Written}
    BY <1>1, <1>2, <1>6 DEF Resumed
  <2>5. \A k : LoadedFor(requests, Written, k)
    BY ConstantsLemma DEF LoadedFor
  <2>6. state'.status = "Success" /\ answer'.key # NoKey =>
          LoadedFor(requests, state'.data, answer'.key)
    BY <1>2, <1>5, <1>6, <2>3, <2>4, <2>5
  <2>. QED  BY <1>1, <1>3, <1>4, <1>5, <1>6, <2>1, <2>2, <2>3, <2>6, CallbacksLemma, ShownStep
<1>7. ASSUME stack' = Below, UNCHANGED <<state, answer, stranded>>
      PROVE  SlotInv'
  BY <1>1, <1>3, <1>4, <1>7, QuietPop
<1>. QED  BY <1>1, <1>6, <1>7

LEMMA SettleErrorSourced ==
  ASSUME SlotInv, IInv', SettleError
  PROVE  SlotInv'
<1> DEFINE r == Top.op
           k == requests[r].key
           w == Writable
           t == [w EXCEPT !.status = "Error", !.at = now]
           a == [key |-> k, owner |-> t.root, failed |-> TRUE]
<1>1. /\ stack # <<>> /\ Top.kind = "describe" /\ requests' = Settled(r)
      /\ UNCHANGED <<operationVersion, saved, now, disposed, stranded>>
      /\ \/ /\ operationVersion = r /\ request' = 0 /\ memory' = Without(k)
            /\ state' = t /\ answer' = Reconciled(a, t) /\ stack' = Below \o Callbacks(t, FALSE)
         \/ stack' = Below /\ UNCHANGED <<state, answer, request, memory>>
  BY DEF SettleError, Runs, Publish
<1>2. r \in Requests /\ k \in Keys
  BY <1>1, TopSourced DEF Known, Finishing
<1>3. /\ requests \in [Requests -> Request] /\ state \in State /\ IsMemory(memory)
      /\ stranded' \in BOOLEAN /\ now \in 0..MaxTime
  BY <1>1, ConstantsLemma DEF SlotInv, IInv, Shape, Typed
<1>4. Steady(requests') /\ \A x \in Requests : requests'[x].loader = requests[x].loader
  BY <1>1, <1>2, <1>3, SettledFields DEF Steady
<1>5. t \in State /\ t.status = "Error"
  <2>1. w \in State
    BY <1>3, WritableTyped
  <2>. HIDE DEF w
  <2>. QED  BY <1>3, <2>1 DEF State, Statuses
<1>. HIDE DEF t
<1>6. a \in Answer
  BY <1>2, <1>5 DEF Answer, State
<1>. HIDE DEF a, k
<1>7. ASSUME operationVersion = r, request' = 0, memory' = Without(k),
             state' = t, answer' = Reconciled(a, t), stack' = Below \o Callbacks(t, FALSE)
      PROVE  SlotInv'
  <2>1. IsMemory(memory') /\ ToSet(memory') \subseteq ToSet(memory)
    BY <1>3, <1>7, WithoutLemma
  <2>2. answer' \in Answer
    BY <1>5, <1>6, <1>7, ReconciledLemma
  <2>. QED  BY <1>1, <1>3, <1>4, <1>5, <1>7, <2>1, <2>2, CallbacksLemma, ShownStep
<1>8. ASSUME stack' = Below, UNCHANGED <<state, answer, request, memory>>
      PROVE  SlotInv'
  BY <1>1, <1>3, <1>4, <1>8, QuietPop
<1>. QED  BY <1>1, <1>7, <1>8

-----------------------------------------------------------------------------
(***************************************************************************)
(* The answers of loaders.                                                 *)
(***************************************************************************)
LEMMA LateAnswerSourced ==
  ASSUME SlotInv, IInv', NEW r \in Requests, LateAnswer(r)
  PROVE  SlotInv'
<1>1. /\ stack = <<>> /\ requests[r].loader = "running" /\ requests' = AnsweredTo(r)
      /\ UNCHANGED <<state, answer, request, operationVersion, memory, saved, now, disposed, stack,
                     stranded>>
  BY DEF LateAnswer, Answers
<1>2. requests \in [Requests -> Request] /\ Frames' = {}
  BY <1>1, EmptyLemma DEF SlotInv, IInv, Shape, Frames
<1>3. /\ Steady(requests')
      /\ \A x \in Requests : x # r => requests'[x].loader = requests[x].loader
  BY <1>1, <1>2, SettledFields DEF Steady
<1>4. /\ IsMemory(memory') /\ now' \in 1..MaxTime /\ disposed' \in BOOLEAN
      /\ stranded' \in BOOLEAN
  BY <1>1 DEF SlotInv, Typed
<1>. QED  BY <1>1, <1>2, <1>3, <1>4, CallTyped, CallSourced, QuietStep

LEMMA LoaderFailsSourced ==
  ASSUME SlotInv, IInv', NEW r \in Requests, LoaderFails(r)
  PROVE  SlotInv'
<1>0. PICK g : g = [kind |-> "describe", op |-> r]
  OBVIOUS
<1>1. /\ stack = <<>> /\ requests[r].loader = "running" /\ request = r
      /\ requests' = [requests EXCEPT ![r].loader = "done"]
      /\ stack' = <<g, CallFrame>>
      /\ UNCHANGED <<state, answer, request, operationVersion, memory, saved, now, disposed, stranded>>
  BY <1>0 DEF LoaderFails, Answers, IsCurrent
<1>2. g.kind = "describe" /\ g.op = r /\ g \in Frame /\ <<g, CallFrame>> = <<g>> \o <<CallFrame>>
  BY <1>0 DEF Frame
<1>3. Frames' \subseteq {g, CallFrame}
  <2> DEFINE c == <<CallFrame>>
  <2>1. c = <<>> \/ c = <<CallFrame>>
    OBVIOUS
  <2>2. stack' = <<g>> \o c /\ Frames' = FramesOf(stack')
    BY <1>1, <1>2 DEF Frames
  <2>. HIDE DEF c
  <2>3. FramesOf(<<g>> \o c) \subseteq {g, CallFrame}
    BY <1>1, <1>2, <2>1, SettlementLemma DEF SlotInv
  <2>. QED  BY <2>2, <2>3
<1>4. /\ requests[r].key \in Keys
      /\ \A x \in Requests :
           /\ requests'[x].key = requests[x].key
           /\ requests'[x].background = requests[x].background
           /\ requests'[x].loader = IF x = r THEN "done" ELSE requests[x].loader
  <2>1. requests \in [Requests -> Request] /\ requests[r].key \in Keys
    BY <1>1 DEF SlotInv, IInv, Shape, Loaders
  <2>. QED  BY <1>1, <2>1 DEF Request
<1>5. Steady(requests')
  BY <1>4 DEF Steady
<1>6. Known(g)' /\ Resumed(g)'
  BY <1>2, <1>4 DEF Known, Resumed, Finishing, Replacing, Unloaded
<1>7. /\ IsMemory(memory') /\ now' \in 1..MaxTime /\ disposed' \in BOOLEAN
      /\ stranded' \in BOOLEAN
  BY <1>1 DEF SlotInv, Typed
<1>. QED  BY <1>1, <1>2, <1>3, <1>4, <1>5, <1>6, <1>7, QuietStep

LEMMA SettleSuccessSourced ==
  ASSUME SlotInv, IInv', NEW r \in Requests, SettleSuccess(r)
  PROVE  SlotInv'
<1> DEFINE w == Writable
           t == [w EXCEPT !.status = "Success", !.data = r, !.at = now]
           k == requests[r].key
           a == [key |-> k, owner |-> t.root, failed |-> FALSE]
           c == Callbacks(t, FALSE)
<1>0. PICK g : g = [kind |-> "remember", op |-> r, at |-> now]
  OBVIOUS
<1>1. /\ stack = <<>> /\ requests[r].loader = "running" /\ request = r /\ request' = 0
      /\ requests' = AnsweredTo(r)
      /\ state' = t /\ answer' = Reconciled(a, t)
      /\ stack' = (IF state.locked THEN <<g>> ELSE <<>>) \o c
      /\ memory' = IF state.locked THEN memory ELSE Remember(k, r, now)
      /\ UNCHANGED <<operationVersion, saved, now, disposed, stranded>>
  BY <1>0 DEF SettleSuccess, Answers, IsCurrent, Publish
<1>2. /\ requests \in [Requests -> Request] /\ k \in Keys /\ state \in State /\ IsMemory(memory)
      /\ now \in 0..MaxTime /\ r \in Data
  BY <1>1, ConstantsLemma DEF SlotInv, IInv, Shape, Typed, Loaders
<1>3. t \in State /\ t.data = r
  <2>1. w \in State
    BY <1>2, WritableTyped
  <2>. HIDE DEF w
  <2>. QED  BY <1>2, <2>1 DEF State, Statuses
<1>4. c = <<>> \/ c = <<CallFrame>>
  BY CallbacksLemma
<1>. HIDE DEF t, c
<1>5. a \in Answer /\ a.key = k
  BY <1>2, <1>3 DEF Answer, State
<1>6. answer' \in Answer /\ answer'.key \in {k, NoKey}
  BY <1>1, <1>3, <1>5, ReconciledLemma
<1>. HIDE DEF a
<1>7. g.kind = "remember" /\ g.op = r /\ g \in Frame
  BY <1>0, <1>2 DEF Frame
<1>8. Frames' \subseteq {g, CallFrame}
  <2>1. /\ FramesOf(<<g>> \o c) \subseteq {g, CallFrame}
        /\ FramesOf(<<>> \o c) \subseteq {CallFrame}
    BY <1>1, <1>4, <1>7, SettlementLemma DEF SlotInv
  <2>. QED  BY <1>1, <2>1 DEF Frames
<1>9. /\ \A x \in Requests :
           /\ requests'[x].key = requests[x].key
           /\ requests'[x].background = requests[x].background
           /\ requests'[x].loader = IF x = r THEN "done" ELSE requests[x].loader
      /\ Steady(requests') /\ Monotone(requests')
  BY <1>1, <1>2, SettledFields, SteadyLemma DEF Steady
<1>10. /\ IsMemory(memory')
       /\ ToSet(memory') \subseteq ToSet(memory) \cup {[key |-> k, data |-> r, at |-> now]}
  <2>. HIDE DEF k
  <2>. QED  BY <1>1, <1>2, RememberLemma
<1>11. LoadedFor(requests', r, k)
  BY <1>9 DEF LoadedFor
<1>12. Typed'
  BY <1>1, <1>3, <1>6, <1>7, <1>8, <1>10, CallTyped DEF SlotInv, Typed
<1>13. Loaders'
  <2>1. operationVersion' \in Nat /\ operationVersion <= operationVersion'
    BY <1>1, BoundsLemma DEF SlotInv, IInv, Shape
  <2>2. requests[r].loader # "none" /\ \A x \in Requests : x # r => requests'[x].loader = requests[x].loader
    BY <1>1, <1>9
  <2>. QED  BY <1>9, <2>1, <2>2, LoadersKept
<1>14. \A f \in Frames' : Known(f)' /\ Resumed(f)'
  <2>1. r # request'
    BY <1>1, ConstantsLemma
  <2>2. Known(g)' /\ Resumed(g)'
    BY <1>2, <1>7, <1>9, <2>1 DEF Known, Resumed, Finishing, Replacing, Unloaded
  <2>. QED  BY <1>8, <2>2, CallSourced
<1>15. Remembering'
  <2>1. \A e \in ToSet(memory) : LoadedFor(requests', e.data, e.key)
    BY <1>9, LoadedKept DEF SlotInv, Remembering
  <2>2. \A e \in {[key |-> k, data |-> r, at |-> now]} : LoadedFor(requests', e.data, e.key)
    BY <1>11
  <2>. QED  BY <1>10, <2>1, <2>2 DEF Remembering
<1>16. Showing' /\ Revalidating'
  BY <1>1, <1>3, <1>6, <1>11 DEF Showing, Revalidating
<1>17. Saving'
  BY <1>1, <1>9, LoadedKept DEF SlotInv, Saving
<1>. QED  BY <1>12, <1>13, <1>14, <1>15, <1>16, <1>17 DEF SlotInv

-----------------------------------------------------------------------------
LEMMA SlotInit == Init => SlotInv
<1>. SUFFICES ASSUME Init PROVE SlotInv
  OBVIOUS
<1>1. IInv /\ Frames = {}
  BY InitLemma, EmptyLemma DEF Init, Frames
<1>2. IsMemory(memory) /\ ToSet(memory) = {}
  BY SlotAssumption DEF Init, IsMemory, ToSet
<1>3. Typed
  <2>1. state \in State /\ saved \in Snapshot
    BY ConstantsLemma DEF Init, InitialState, State, Statuses, Snapshot
  <2>2. answer \in Answer /\ now \in 1..MaxTime /\ disposed \in BOOLEAN /\ stranded \in BOOLEAN
    BY ConstantsLemma DEF Init
  <2>. QED  BY <1>1, <1>2, <2>1, <2>2 DEF Typed
<1>4. Loaders
  BY DEF Init, Loaders, NoRequest
<1>5. Remembering /\ Showing /\ Saving /\ Revalidating
  BY <1>2 DEF Init, Remembering, Showing, Saving, Revalidating, InitialState
<1>. QED  BY <1>1, <1>3, <1>4, <1>5 DEF SlotInv

LEMMA SlotStep == SlotInv /\ [Next]_vars => SlotInv'
<1>. SUFFICES ASSUME SlotInv, [Next]_vars PROVE SlotInv'
  OBVIOUS
<1>0. IInv'
  BY StepLemma DEF SlotInv
<1>1. CASE Operations
  BY <1>0, <1>1, OperationsSourced
<1>2. CASE Continuations
  BY <1>0, <1>2, ReturnSourced, StartOvertakenSourced, InstallSourced, DisownedSourced,
     CallLoaderSourced, LoadingSourced, PublicationFailsSourced, RecoverSourced, ReplacingSourced,
     RememberAfterSourced, SettleErrorSourced DEF Continuations
<1>3. CASE Settlements
  BY <1>0, <1>3, LateAnswerSourced, SettleSuccessSourced, LoaderFailsSourced, IdleSourced
     DEF Settlements
<1>4. CASE UNCHANGED vars
  BY <1>0, <1>4, IdleSourced
<1>. QED  BY <1>1, <1>2, <1>3, <1>4 DEF Next

LEMMA SlotInvariance == Spec => []SlotInv
BY SlotInit, SlotStep, PTL DEF Spec

\* The slot is well typed, its call stack included, and its memory keeps to the
\* limit.
THEOREM SlotTypesHold == Spec => []TypeOK
<1>1. SlotInv => TypeOK
  <2>. SUFFICES ASSUME SlotInv PROVE TypeOK
    OBVIOUS
  <2>1. stack \in Seq(Frame)
    <3>1. stack \in Seq(FramesOf(stack)) /\ FramesOf(stack) \subseteq Frame
      BY DEF SlotInv, IInv, Shape, Stack, Typed, Frames
    <3>. QED  BY <3>1, SeqMonotonic
  <2>2. request \in 0..operationVersion
    BY BoundsLemma DEF SlotInv, IInv, Shape
  <2>. QED  BY <2>1, <2>2 DEF SlotInv, IInv, Shape, Typed, IsMemory, TypeOK
<1>. QED  BY <1>1, SlotInvariance, PTL

\* What suspend() serves for a key, from the slot, from the memory of answers or
\* from before a request in the background, was loaded for that key or written
\* by the application, whatever operations came in between.
THEOREM OwnKeyOnly == Spec => []ServedUnderItsKey
<1>1. SlotInv => ServedUnderItsKey
  <2>. SUFFICES ASSUME SlotInv, NEW k \in Keys, NEW d \in Served(k) \cap Requests
                PROVE  requests[d].key = k
    BY DEF ServedUnderItsKey
  <2>1. CASE HasAnswer(k, "Success") /\ d = state.data
    <3>1. state.status = "Success" /\ answer.key = k /\ k # NoKey
      BY <2>1, BoundsLemma DEF HasAnswer
    <3>. QED  BY <2>1, <3>1 DEF SlotInv, Showing, LoadedFor
  <2>2. CASE Requested(k) /\ requests[request].background /\ d = state.data
    BY <2>2 DEF SlotInv, Revalidating, LoadedFor, Requested
  <2>3. CASE \E e \in HitsOf(k) : d = e.data
    BY <2>3 DEF SlotInv, Remembering, LoadedFor, HitsOf
  <2>. QED  BY <2>1, <2>2, <2>3 DEF Served
<1>. QED  BY <1>1, SlotInvariance, PTL

-----------------------------------------------------------------------------
(***************************************************************************)
(* The slot beside the cache: each behaves as it does alone.               *)
(***************************************************************************)
LEMMA SlotRuns == ResourcesSpec => Spec
<1>1. ResourcesInit => Init
  BY DEF ResourcesInit
<1>2. [ResourcesNext]_<<vars, cache>> => [Next]_vars
  BY DEF ResourcesNext
<1>. QED  BY <1>1, <1>2, PTL DEF ResourcesSpec, Spec

LEMMA CacheRuns == ResourcesSpec => Cache!CacheSpec
<1>1. ResourcesInit => Cache!CacheInit
  BY DEF ResourcesInit
<1>2. [ResourcesNext]_<<vars, cache>> => [Cache!CacheNext]_(Cache!cacheVars)
  BY DEF ResourcesNext, cache, Cache!cacheVars, Cache!ledger, Cache!history
<1>. QED  BY <1>1, <1>2, PTL DEF ResourcesSpec, Cache!CacheSpec

\* Between tasks, every promise that load(), refresh() or suspend() handed out,
\* of the slot or of the cache, is settled, has a loader to settle it, or
\* follows that of a later request.
THEOREM AllPromisesEnd == ResourcesSpec => []EveryPromiseEnds
<1>1. NoAwaiterForgotten /\ Cache!EveryFetchEnds => EveryPromiseEnds
  BY DEF EveryPromiseEnds
<1>2. Cache!CacheSpec => []Cache!EveryFetchEnds
  BY Cache!PromisesEnd, CacheAssumed
<1>. QED  BY <1>1, <1>2, NoneForgotten, SlotRuns, CacheRuns, PTL

\* An answer that was asked for before the last invalidation of its key counts
\* as stale, whatever came in between.
THEOREM InvalidatedStale == ResourcesSpec => []InvalidatedStaysStale
<1>1. Cache!CacheSpec => []Cache!InvalidatedStaysStale
  BY Cache!StaysStale, CacheAssumed
<1>. QED  BY <1>1, CacheRuns, PTL DEF InvalidatedStaysStale

\* An answer in the cache is never replaced by that of an earlier request.
THEOREM NewestStays == ResourcesSpec => NewestAnswerWins
<1>1. Cache!CacheSpec => Cache!NewestAnswerWins
  BY Cache!NewestWins, CacheAssumed
<1>. QED  BY <1>1, CacheRuns, PTL DEF NewestAnswerWins

\* Between tasks the count of the eviction ledger is the number of entries, and
\* every entry has its place in the order of last use.
THEOREM LedgerStaysExact == ResourcesSpec => []LedgerExact
<1>1. Cache!CacheSpec => []Cache!LedgerExact
  BY Cache!LedgerIsExact, CacheAssumed
<1>. QED  BY <1>1, CacheRuns, PTL DEF LedgerExact

\* While evict() skips its scans, no entry could be evicted but those that were
\* freed without a release().
THEOREM FreedStaysReported == ResourcesSpec => []FreedIsReported
<1>1. Cache!CacheSpec => []Cache!FreedIsReported
  BY Cache!NothingFreeIsSkipped, CacheAssumed
<1>. QED  BY <1>1, CacheRuns, PTL DEF FreedIsReported

\* The slot and the cache beside it are well typed.
THEOREM AllTypesHold == ResourcesSpec => []ResourcesTypeOK
<1>1. Cache!CacheSpec => []Cache!CacheTypeOK
  BY Cache!CacheTypesHold, CacheAssumed
<1>. QED  BY <1>1, SlotTypesHold, SlotRuns, CacheRuns, PTL DEF ResourcesTypeOK

\* And so the slot beside the cache serves nothing under another key.
THEOREM OwnKeyBeside == ResourcesSpec => []ServedUnderItsKey
BY OwnKeyOnly, SlotRuns, PTL
=============================================================================
