---------------------------- MODULE Timers_proofs ----------------------------
(***************************************************************************)
(* The two parts of the library that live on timers.  The throttle         *)
(* implements the scheduler's promise, for every set of keys and every     *)
(* depth limit, whatever the updates do.  The mirror forgets nothing that  *)
(* the store published, has a dispatch coming for what is dirty, and over  *)
(* a store that delivers at once leaves no branch behind when it is        *)
(* disposed of, for every set of branches and texts.                       *)
(***************************************************************************)
EXTENDS UpdateThrottle, PersistPartitions, SequenceTheorems, TLAPS

-----------------------------------------------------------------------------
(***************************************************************************)
(* Sequences.                                                              *)
(***************************************************************************)

\* The first n elements of a sequence.
LEMMA PrefixLemma ==
  ASSUME NEW S, NEW s \in Seq(S), NEW n \in Nat, n <= Len(s)
  PROVE  /\ SubSeq(s, 1, n) \in Seq(S)
         /\ Len(SubSeq(s, 1, n)) = n
         /\ \A k \in 1..n : SubSeq(s, 1, n)[k] = s[k]
<1>1. \A k \in 1..n : s[k] \in S
  OBVIOUS
<1>2. /\ SubSeq(s, 1, n) \in Seq(S)
      /\ Len(SubSeq(s, 1, n)) = IF 1 <= n THEN n - 1 + 1 ELSE 0
      /\ \A k \in 1..n - 1 + 1 : SubSeq(s, 1, n)[k] = s[1 + k - 1]
  BY <1>1, SubSeqProperties
<1>3. n - 1 + 1 = n /\ \A k \in Nat : 1 + k - 1 = k
  OBVIOUS
<1>. QED  BY <1>2, <1>3

\* One more element.
LEMMA AppendLemma ==
  ASSUME NEW S, NEW s \in Seq(S), NEW e \in S
  PROVE  /\ Append(s, e) \in Seq(S)
         /\ Len(Append(s, e)) = Len(s) + 1
         /\ \A k \in 1..Len(s) : Append(s, e)[k] = s[k]
         /\ Append(s, e)[Len(s) + 1] = e
OBVIOUS

\* Odd and even.
LEMMA ParityLemma ==
  ASSUME NEW k \in Nat
  PROVE  /\ k % 2 \in {0, 1}
         /\ (k + 1) % 2 = 1 - (k % 2)
OBVIOUS

-----------------------------------------------------------------------------
(***************************************************************************)
(* The call stack.                                                         *)
(***************************************************************************)

\* Flushes are at the odd places, updates at the even ones.
LEMMA ShapeLemma ==
  ASSUME TypeOK, NEW k \in 1..Len(stack)
  PROVE  /\ stack[k] \in Frame
         /\ k % 2 = 1 => stack[k] \in FlushFrame /\ stack[k].kind = "flush"
         /\ k % 2 = 0 => stack[k] \in CallFrame /\ stack[k].kind = "call"
<1>1. stack[k] \in Frame
  BY DEF TypeOK
<1>2. k \in Nat /\ k % 2 \in {0, 1}
  BY ParityLemma DEF TypeOK
<1>. QED  BY <1>1, <1>2 DEF TypeOK, WellStacked, Frame, FlushFrame, CallFrame

LEMMA FlushesLemma ==
  ASSUME TypeOK
  PROVE  /\ Flushes = {k \in 1..Len(stack) : k % 2 = 1}
         /\ \A k \in Flushes : stack[k].todo \in SUBSET Keys
<1>1. \A k \in 1..Len(stack) : k \in Nat /\ k % 2 \in {0, 1}
  BY ParityLemma DEF TypeOK
<1>. QED  BY <1>1, ShapeLemma DEF Flushes, FlushFrame

LEMMA RunningLemma ==
  ASSUME TypeOK
  PROVE  /\ Running("flush") => Len(stack) > 0 /\ Len(stack) % 2 = 1 /\ Top \in FlushFrame
         /\ Running("call") => Len(stack) > 1 /\ Len(stack) % 2 = 0 /\ Top \in CallFrame
<1>1. Len(stack) \in Nat /\ Len(stack) % 2 \in {0, 1}
  BY ParityLemma DEF TypeOK
<1>. QED  BY <1>1, ShapeLemma DEF Running, Top

LEMMA BelowLemma ==
  ASSUME TypeOK, Len(stack) > 0
  PROVE  /\ Below \in Seq(Frame)
         /\ Len(Below) = Len(stack) - 1
         /\ \A k \in 1..Len(stack) - 1 : Below[k] = stack[k]
<1>. DEFINE n == Len(stack) - 1
<1>1. n \in Nat /\ n <= Len(stack) /\ stack \in Seq(Frame)
  BY DEF TypeOK
<1>2. /\ SubSeq(stack, 1, n) \in Seq(Frame)
      /\ Len(SubSeq(stack, 1, n)) = n
      /\ \A k \in 1..n : SubSeq(stack, 1, n)[k] = stack[k]
  <2>. HIDE DEF n
  <2>. QED  BY <1>1, PrefixLemma
<1>. QED  BY <1>2 DEF Below

LEMMA RetopLemma ==
  ASSUME TypeOK, Len(stack) > 0, NEW f \in Frame
  PROVE  /\ Retop(f) \in Seq(Frame)
         /\ Len(Retop(f)) = Len(stack)
         /\ \A k \in 1..Len(stack) - 1 : Retop(f)[k] = stack[k]
         /\ Retop(f)[Len(stack)] = f
BY BelowLemma, AppendLemma DEF Retop, TypeOK

\* cancelActive takes the keys out of every round, and does nothing else.
LEMMA CancelLemma ==
  ASSUME TypeOK, NEW K
  PROVE  /\ CancelActive(K) \in Seq(Frame)
         /\ Len(CancelActive(K)) = Len(stack)
         /\ \A k \in 1..Len(stack) :
              /\ CancelActive(K)[k].kind = stack[k].kind
              /\ k % 2 = 1 => CancelActive(K)[k].todo = stack[k].todo \ K
              /\ k % 2 = 0 => CancelActive(K)[k] = stack[k]
<1>1. CancelActive(K) = [k \in 1..Len(stack) |-> CancelActive(K)[k]]
  BY DEF CancelActive
<1>2. ASSUME NEW k \in 1..Len(stack)
      PROVE  /\ CancelActive(K)[k] \in Frame
             /\ CancelActive(K)[k].kind = stack[k].kind
             /\ k % 2 = 1 => CancelActive(K)[k].todo = stack[k].todo \ K
             /\ k % 2 = 0 => CancelActive(K)[k] = stack[k]
  <2>1. CancelActive(K)[k] = IF k \in Flushes THEN [stack[k] EXCEPT !.todo = @ \ K] ELSE stack[k]
    BY DEF CancelActive
  <2>2. k \in Nat /\ k % 2 \in {0, 1} /\ (k \in Flushes <=> k % 2 = 1)
    BY ParityLemma, FlushesLemma DEF TypeOK
  <2>3. CASE k % 2 = 1
    <3>1. stack[k] \in FlushFrame
      BY <2>3, ShapeLemma
    <3>2. /\ [stack[k] EXCEPT !.todo = @ \ K] \in FlushFrame
          /\ [stack[k] EXCEPT !.todo = @ \ K].kind = stack[k].kind
          /\ [stack[k] EXCEPT !.todo = @ \ K].todo = stack[k].todo \ K
      BY <3>1 DEF FlushFrame
    <3>. QED  BY <2>1, <2>2, <2>3, <3>2 DEF Frame
  <2>4. CASE k % 2 = 0
    BY <2>1, <2>2, <2>4, ShapeLemma
  <2>. QED  BY <2>2, <2>3, <2>4
<1>3. Len(stack) \in Nat
  BY DEF TypeOK
<1>4. CancelActive(K) \in [1..Len(stack) -> Frame]
  BY <1>1, <1>2
<1>5. CancelActive(K) \in Seq(Frame) /\ Len(CancelActive(K)) = Len(stack)
  BY <1>3, <1>4
<1>. QED  BY <1>2, <1>5

-----------------------------------------------------------------------------
(***************************************************************************)
(* The invariant of the throttle: no strengthening is needed.              *)
(***************************************************************************)
Inv == TypeOK /\ WaitsOnce /\ NothingLeftBehind

\* The frames after a step, once they are known to alternate.
LEMMA NextStackLemma ==
  ASSUME stack' \in Seq(Frame),
         \A k \in 1..Len(stack') :
           /\ k % 2 = 1 => stack'[k].kind = "flush"
           /\ k % 2 = 0 => stack'[k].kind = "call"
  PROVE  /\ WellStacked'
         /\ Flushes' = {k \in 1..Len(stack') : k % 2 = 1}
<1>1. \A k \in 1..Len(stack') : k % 2 \in {0, 1}
  BY ParityLemma
<1>. QED  BY <1>1 DEF WellStacked, Flushes

\* What the invariant says of the frames, by their places.
LEMMA InvLemma ==
  ASSUME Inv
  PROVE  /\ \A k \in 1..Len(stack) : k % 2 = 1 => stack[k].todo \in SUBSET Keys
         /\ \A k \in 1..Len(stack) : k % 2 = 1 => stack[k].todo \cap updaters = {}
         /\ \A j, k \in 1..Len(stack) :
              j % 2 = 1 /\ k % 2 = 1 /\ j # k => stack[j].todo \cap stack[k].todo = {}
         /\ raised => \A j \in 1..Len(stack) : j % 2 = 1 => stack[j].todo = {}
         /\ \A j, k \in 1..Len(stack) :
              k % 2 = 0 /\ stack[k].caught /\ j % 2 = 1 /\ j < k => stack[j].todo = {}
BY FlushesLemma, ShapeLemma DEF Inv, WaitsOnce, NothingLeftBehind

\* A step that leaves a prefix of the stack, with keys taken out of its rounds
\* or not, and adds nothing to the queue.
LEMMA PrefixStepLemma ==
  ASSUME Inv,
         stack' \in Seq(Frame), Len(stack') <= Len(stack),
         \A k \in 1..Len(stack') :
           /\ k % 2 = 1 => /\ stack'[k].kind = "flush"
                           /\ stack'[k].todo \subseteq stack[k].todo
           /\ k % 2 = 0 => stack'[k] = stack[k],
         updaters' \subseteq Keys,
         \A k \in 1..Len(stack') : k % 2 = 1 => stack'[k].todo \cap updaters' = {},
         timeout' \in {"none", "armed", "fired"},
         flushDepth' \in 0..MaxUpdateDepth,
         raised' \in BOOLEAN,
         raised' => Running("call")' /\ \A j \in 1..Len(stack') : j % 2 = 1 => stack'[j].todo = {}
  PROVE  Inv'
<1>1. Len(stack) \in Nat /\ Len(stack') \in Nat
  BY DEF Inv, TypeOK
<1>2. \A k \in 1..Len(stack') : k \in 1..Len(stack) /\ k % 2 \in {0, 1}
  BY <1>1, ParityLemma
<1>3. \A k \in 1..Len(stack') : k % 2 = 0 => stack'[k].kind = "call"
  BY <1>2, ShapeLemma DEF Inv
<1>4. WellStacked' /\ Flushes' = {k \in 1..Len(stack') : k % 2 = 1}
  BY <1>3, NextStackLemma
<1>5. TypeOK'
  BY <1>4 DEF TypeOK
<1>6. WaitsOnce'
  BY <1>2, <1>4, InvLemma DEF WaitsOnce
<1>7. NothingLeftBehind'
  <2>1. ASSUME NEW k \in 1..Len(stack'), stack'[k].kind = "call", stack'[k].caught,
               NEW j \in Flushes', j < k
        PROVE  stack'[j].todo = {}
    <3>1. k % 2 = 0 /\ stack'[k] = stack[k]
      BY <2>1, <1>2
    <3>2. stack[j].todo = {}
      BY <2>1, <3>1, <1>2, <1>4, InvLemma
    <3>. QED  BY <3>2, <1>4
  <2>2. raised' => \A j \in Flushes' : stack'[j].todo = {}
    BY <1>4
  <2>. QED  BY <2>1, <2>2 DEF NothingLeftBehind
<1>. QED  BY <1>5, <1>6, <1>7 DEF Inv

\* A step that puts one frame on the stack, takes keys out of the round below
\* it at most, and leaves the queue alone.
LEMMA PushStepLemma ==
  ASSUME Inv, ~raised,
         stack' \in Seq(Frame), Len(stack') = Len(stack) + 1,
         \A k \in 1..Len(stack) :
           /\ k % 2 = 1 => /\ stack'[k].kind = "flush"
                           /\ stack'[k].todo \subseteq stack[k].todo
           /\ k % 2 = 0 => stack'[k] = stack[k],
         LET top == stack'[Len(stack')] IN
           \/ Len(stack') % 2 = 1 /\ top.kind = "flush" /\ top.todo = {}
           \/ Len(stack') % 2 = 0 /\ top.kind = "call" /\ ~top.caught,
         timeout' \in {"none", "armed", "fired"},
         UNCHANGED <<updaters, flushDepth, raised>>
  PROVE  Inv'
<1>. DEFINE n == Len(stack')
<1>1. Len(stack) \in Nat /\ n \in Nat /\ n = Len(stack) + 1
  BY DEF Inv, TypeOK
<1>2. \A k \in 1..n : (k \in 1..Len(stack) \/ k = n) /\ k % 2 \in {0, 1}
  BY <1>1, ParityLemma
<1>3. \A k \in 1..n :
        /\ k % 2 = 1 => stack'[k].kind = "flush"
        /\ k % 2 = 0 => stack'[k].kind = "call"
  BY <1>2, ShapeLemma DEF Inv
<1>4. WellStacked' /\ Flushes' = {k \in 1..n : k % 2 = 1}
  BY <1>3, NextStackLemma
<1>5. \A k \in 1..n : k % 2 = 1 =>
        \/ k \in 1..Len(stack) /\ stack'[k].todo \subseteq stack[k].todo
        \/ stack'[k].todo = {}
  BY <1>2
<1>6. TypeOK'
  BY <1>4 DEF TypeOK, Inv
<1>7. WaitsOnce'
  <2>1. \A k \in Flushes' : stack'[k].todo \cap updaters' = {}
    BY <1>4, <1>5, InvLemma
  <2>2. ASSUME NEW j \in Flushes', NEW k \in Flushes', j # k
        PROVE  stack'[j].todo \cap stack'[k].todo = {}
    BY <2>2, <1>4, <1>5, InvLemma
  <2>. QED  BY <2>1, <2>2 DEF WaitsOnce
<1>8. NothingLeftBehind'
  <2>1. ASSUME NEW k \in 1..n, stack'[k].kind = "call", stack'[k].caught,
               NEW j \in Flushes', j < k
        PROVE  stack'[j].todo = {}
    <3>1. k % 2 = 0 /\ k \in 1..Len(stack) /\ stack'[k] = stack[k]
      BY <2>1, <1>2, <1>3
    <3>2. j \in 1..Len(stack) /\ j % 2 = 1
      BY <2>1, <3>1, <1>1, <1>4
    <3>3. stack[j].todo = {}
      BY <2>1, <3>1, <3>2, InvLemma
    <3>. QED  BY <3>2, <3>3
  <2>. QED  BY <2>1 DEF NothingLeftBehind
<1>. QED  BY <1>6, <1>7, <1>8 DEF Inv

-----------------------------------------------------------------------------
(***************************************************************************)
(* Every operation keeps the invariant.                                    *)
(***************************************************************************)
LEMMA ScheduleStep == Inv /\ (\E u \in Keys : Schedule(u)) => Inv'
<1>. SUFFICES ASSUME Inv, NEW u \in Keys, Schedule(u) PROVE Inv'
  OBVIOUS
<1>1. ~raised /\ TypeOK
  BY DEF Schedule, Application, Inv
<1>2. /\ stack' \in Seq(Frame)
      /\ Len(stack') = Len(stack)
      /\ \A k \in 1..Len(stack) :
           /\ stack'[k].kind = stack[k].kind
           /\ k % 2 = 1 => stack'[k].todo = stack[k].todo \ {u}
           /\ k % 2 = 0 => stack'[k] = stack[k]
  BY <1>1, CancelLemma DEF Schedule
<1>3. /\ updaters' = updaters \cup {u} /\ updaters' \subseteq Keys
      /\ timeout' \in {"none", "armed", "fired"}
      /\ flushDepth' \in 0..MaxUpdateDepth
      /\ raised' = FALSE
  BY <1>1 DEF Schedule, TypeOK
<1>4. Len(stack) \in Nat
  BY <1>1 DEF TypeOK
<1>5. \A k \in 1..Len(stack) : k % 2 = 1 =>
        /\ stack'[k].kind = "flush"
        /\ stack'[k].todo \subseteq stack[k].todo
        /\ stack'[k].todo \cap updaters' = {}
  BY <1>1, <1>2, <1>3, InvLemma, ShapeLemma
<1>6. Len(stack') <= Len(stack)
  BY <1>2, <1>4
<1>7. \A k \in 1..Len(stack') :
        /\ k % 2 = 1 => /\ stack'[k].kind = "flush"
                        /\ stack'[k].todo \subseteq stack[k].todo
        /\ k % 2 = 0 => stack'[k] = stack[k]
  BY <1>2, <1>5
<1>8. \A k \in 1..Len(stack') : k % 2 = 1 => stack'[k].todo \cap updaters' = {}
  BY <1>2, <1>5
<1>9. raised' \in BOOLEAN /\ ~raised'
  BY <1>3
<1>. QED  BY <1>2, <1>3, <1>6, <1>7, <1>8, <1>9, PrefixStepLemma

LEMMA CancelStep == Inv /\ (\E u \in Keys : Cancel(u)) => Inv'
<1>. SUFFICES ASSUME Inv, NEW u \in Keys, Cancel(u) PROVE Inv'
  OBVIOUS
<1>1. ~raised /\ TypeOK
  BY DEF Cancel, Application, Inv
<1>2. /\ stack' \in Seq(Frame)
      /\ Len(stack') = Len(stack)
      /\ \A k \in 1..Len(stack) :
           /\ stack'[k].kind = stack[k].kind
           /\ k % 2 = 1 => stack'[k].todo = stack[k].todo \ {u}
           /\ k % 2 = 0 => stack'[k] = stack[k]
  BY <1>1, CancelLemma DEF Cancel
<1>3. /\ updaters' = updaters \ {u} /\ updaters' \subseteq Keys
      /\ timeout' \in {"none", "armed", "fired"}
      /\ flushDepth' \in 0..MaxUpdateDepth
      /\ raised' = FALSE
  BY <1>1 DEF Cancel, TypeOK
<1>4. Len(stack) \in Nat
  BY <1>1 DEF TypeOK
<1>5. \A k \in 1..Len(stack) : k % 2 = 1 =>
        /\ stack'[k].kind = "flush"
        /\ stack'[k].todo \subseteq stack[k].todo
        /\ stack'[k].todo \cap updaters' = {}
  BY <1>1, <1>2, <1>3, InvLemma, ShapeLemma
<1>6. Len(stack') <= Len(stack)
  BY <1>2, <1>4
<1>7. \A k \in 1..Len(stack') :
        /\ k % 2 = 1 => /\ stack'[k].kind = "flush"
                        /\ stack'[k].todo \subseteq stack[k].todo
        /\ k % 2 = 0 => stack'[k] = stack[k]
  BY <1>2, <1>5
<1>8. \A k \in 1..Len(stack') : k % 2 = 1 => stack'[k].todo \cap updaters' = {}
  BY <1>2, <1>5
<1>9. raised' \in BOOLEAN /\ ~raised'
  BY <1>3
<1>. QED  BY <1>2, <1>3, <1>6, <1>7, <1>8, <1>9, PrefixStepLemma

\* A flush begins: with a call stack that is empty or ends in an update.
LEMMA FlushBeginsLemma ==
  ASSUME Inv, stack = <<>> \/ Running("call"), ~raised, stack' = Flush,
         timeout' \in {"none", "armed", "fired"},
         UNCHANGED <<updaters, flushDepth, raised>>
  PROVE  Inv'
<1>. DEFINE top == [kind |-> "flush", todo |-> {}]
<1>1. TypeOK /\ stack \in Seq(Frame) /\ Len(stack) \in Nat
  BY DEF Inv, TypeOK
<1>2. Len(stack) % 2 = 0
  BY <1>1, RunningLemma
<1>3. top \in Frame
  BY DEF Frame, FlushFrame
<1>4. /\ stack' \in Seq(Frame)
      /\ Len(stack') = Len(stack) + 1
      /\ \A k \in 1..Len(stack) : stack'[k] = stack[k]
      /\ stack'[Len(stack')] = top
  BY <1>1, <1>3, AppendLemma DEF Flush
<1>5. Len(stack') % 2 = 1
  BY <1>1, <1>2, <1>4, ParityLemma
<1>6. \A k \in 1..Len(stack) : k % 2 = 1 => stack'[k].kind = "flush"
  BY <1>1, <1>4, ShapeLemma
<1>7. top.kind = "flush" /\ top.todo = {}
  OBVIOUS
<1>. QED  BY <1>4, <1>5, <1>6, <1>7, PushStepLemma

LEMMA FlushStep == Inv /\ (TimerFires \/ FlushPending \/ FlushAgain) => Inv'
<1>. SUFFICES ASSUME Inv, TimerFires \/ FlushPending \/ FlushAgain PROVE Inv'
  OBVIOUS
<1>1. timeout' \in {"none", "armed", "fired"}
  BY DEF Inv, TypeOK, TimerFires, FlushPending, FlushAgain
<1>2. raised \in BOOLEAN /\ (raised => Running("call"))
  BY DEF Inv, TypeOK
<1>3. ~raised /\ (stack = <<>> \/ Running("call"))
  BY <1>2 DEF TimerFires, FlushPending, FlushAgain, Running
<1>. QED  BY <1>1, <1>3, FlushBeginsLemma DEF TimerFires, FlushPending, FlushAgain

\* Frames are taken off the stack, all of them clear once the error is raised.
LEMMA PopLemma ==
  ASSUME Inv, NEW n \in Nat, n <= Len(stack), stack' = SubSeq(stack, 1, n),
         UNCHANGED updaters,
         timeout' \in {"none", "armed", "fired"},
         flushDepth' \in 0..MaxUpdateDepth,
         raised' \in BOOLEAN,
         raised' => n > 0 /\ n % 2 = 0 /\ \A j \in 1..n : j % 2 = 1 => stack[j].todo = {}
  PROVE  Inv'
<1>1. TypeOK /\ stack \in Seq(Frame) /\ Len(stack) \in Nat
  BY DEF Inv, TypeOK
<1>2. /\ stack' \in Seq(Frame)
      /\ Len(stack') = n
      /\ \A k \in 1..n : stack'[k] = stack[k]
  BY <1>1, PrefixLemma
<1>3. Len(stack') <= Len(stack)
  BY <1>2
<1>4. \A k \in 1..n : k \in 1..Len(stack)
  BY <1>1
<1>5. \A k \in 1..Len(stack') :
        /\ k % 2 = 1 => /\ stack'[k].kind = "flush"
                        /\ stack'[k].todo \subseteq stack[k].todo
        /\ k % 2 = 0 => stack'[k] = stack[k]
  BY <1>1, <1>2, <1>4, ShapeLemma
<1>6. \A k \in 1..Len(stack') : k % 2 = 1 => stack'[k].todo \cap updaters' = {}
  BY <1>2, <1>4, InvLemma
<1>7. updaters' \subseteq Keys
  BY <1>1 DEF TypeOK
<1>8. raised' => Running("call")'
  <2>. SUFFICES ASSUME raised' PROVE Running("call")'
    OBVIOUS
  <2>1. n \in 1..Len(stack) /\ n % 2 = 0
    BY <1>1
  <2>2. stack'[n].kind = "call"
    BY <2>1, <1>1, <1>2, ShapeLemma
  <2>. QED  BY <2>1, <2>2, <1>2 DEF Running, Top
<1>9. raised' => \A j \in 1..Len(stack') : j % 2 = 1 => stack'[j].todo = {}
  BY <1>2
<1>. QED  BY <1>2, <1>3, <1>5, <1>6, <1>7, <1>8, <1>9, PrefixStepLemma

LEMMA ReturnStep == Inv /\ Return => Inv'
<1>. SUFFICES ASSUME Inv, Return PROVE Inv'
  OBVIOUS
<1>1. TypeOK /\ Len(stack) \in Nat /\ Len(stack) > 1
  BY RunningLemma DEF Inv, TypeOK, Return
<1>2. /\ stack' = SubSeq(stack, 1, Len(stack) - 1)
      /\ UNCHANGED updaters
      /\ timeout' \in {"none", "armed", "fired"}
      /\ flushDepth' \in 0..MaxUpdateDepth
      /\ raised' \in BOOLEAN /\ ~raised'
  BY <1>1 DEF Return, Below, TypeOK
<1>3. Len(stack) - 1 \in Nat /\ Len(stack) - 1 <= Len(stack)
  BY <1>1
<1>. QED  BY <1>2, <1>3, PopLemma

LEMMA LeaveLemma ==
  ASSUME TypeOK, NEW frames, Leave(frames)
  PROVE  /\ stack' = frames
         /\ timeout' \in {"none", "armed", "fired"}
         /\ flushDepth' \in 0..MaxUpdateDepth
BY ThrottleAssumption DEF Leave, TypeOK

LEMMA EndFlushStep == Inv /\ EndFlush => Inv'
<1>. SUFFICES ASSUME Inv, EndFlush PROVE Inv'
  OBVIOUS
<1>1. TypeOK /\ Len(stack) \in Nat /\ Len(stack) > 0 /\ Len(stack) % 2 = 1
  BY RunningLemma DEF Inv, TypeOK, EndFlush
<1>2. /\ stack' = SubSeq(stack, 1, Len(stack) - 1)
      /\ timeout' \in {"none", "armed", "fired"}
      /\ flushDepth' \in 0..MaxUpdateDepth
  BY <1>1, LeaveLemma DEF EndFlush, Below
<1>3. UNCHANGED <<updaters, raised>> /\ raised \in BOOLEAN /\ (raised => Running("call"))
  BY <1>1 DEF EndFlush, TypeOK
<1>4. ~raised' /\ raised' \in BOOLEAN
  BY <1>3 DEF EndFlush, Running
<1>5. Len(stack) - 1 \in Nat /\ Len(stack) - 1 <= Len(stack)
  BY <1>1
<1>. QED  BY <1>2, <1>3, <1>4, <1>5, PopLemma

\* The error leaves the flush with nothing waiting below.
LEMMA ThrowStep == Inv /\ Throw => Inv'
<1>. SUFFICES ASSUME Inv, Throw PROVE Inv'
  OBVIOUS
<1>. DEFINE n == Len(stack) - 2
<1>1. TypeOK /\ Len(stack) \in Nat /\ Len(stack) > 1 /\ Len(stack) % 2 = 0
  BY RunningLemma DEF Inv, TypeOK, Throw
<1>2. n \in Nat /\ n <= Len(stack) /\ n % 2 = 0
  BY <1>1
<1>3. /\ stack' = SubSeq(stack, 1, n)
      /\ timeout' \in {"none", "armed", "fired"}
      /\ flushDepth' \in 0..MaxUpdateDepth
  BY <1>1, LeaveLemma DEF Throw
<1>4. /\ UNCHANGED updaters
      /\ raised' = (Len(stack) > 2)
      /\ raised \/ Top.caught
  BY DEF Throw
<1>5. \A j \in 1..n : j % 2 = 1 => stack[j].todo = {}
  <2>1. CASE raised
    BY <2>1, <1>1, InvLemma
  <2>2. CASE Top.caught
    <3>1. /\ Len(stack) \in 1..Len(stack)
          /\ stack[Len(stack)].caught
          /\ \A j \in 1..n : j \in 1..Len(stack) /\ j < Len(stack)
      BY <2>2, <1>1 DEF Top
    <3>. QED  BY <3>1, <1>1, InvLemma
  <2>. QED  BY <1>4, <2>1, <2>2
<1>6. raised' \in BOOLEAN /\ (raised' => n > 0)
  <2>1. (Len(stack) > 2) \in BOOLEAN /\ ((Len(stack) > 2) => n > 0)
    BY <1>1
  <2>. HIDE DEF n
  <2>. QED  BY <1>4, <2>1, Zenon
<1>. HIDE DEF n
<1>. QED  BY <1>2, <1>3, <1>4, <1>5, <1>6, PopLemma

\* Giving up clears every round first.
LEMMA GiveUpStep == Inv /\ GiveUp => Inv'
<1>. SUFFICES ASSUME Inv, GiveUp PROVE Inv'
  OBVIOUS
<1>. DEFINE n == Len(stack) - 1
            cleared == CancelActive(Keys)
<1>1. TypeOK /\ Len(stack) \in Nat /\ Len(stack) > 0 /\ Len(stack) % 2 = 1
  BY RunningLemma DEF Inv, TypeOK, GiveUp
<1>2. n \in Nat /\ n <= Len(stack) /\ n % 2 = 0
  BY <1>1
<1>3. /\ cleared \in Seq(Frame)
      /\ Len(cleared) = Len(stack)
      /\ \A k \in 1..Len(stack) :
           /\ cleared[k].kind = stack[k].kind
           /\ k % 2 = 1 => cleared[k].todo = stack[k].todo \ Keys
           /\ k % 2 = 0 => cleared[k] = stack[k]
  BY <1>1, CancelLemma
<1>4. /\ stack' = SubSeq(cleared, 1, n)
      /\ timeout' \in {"none", "armed", "fired"}
      /\ flushDepth' \in 0..MaxUpdateDepth
  BY <1>1, LeaveLemma DEF GiveUp
<1>5. /\ updaters' = {}
      /\ raised' = (Len(stack) > 1)
  BY DEF GiveUp
<1>6. /\ stack' \in Seq(Frame)
      /\ Len(stack') = n
      /\ \A k \in 1..n : k \in 1..Len(stack) /\ stack'[k] = cleared[k]
  <2>. HIDE DEF cleared
  <2>1. n <= Len(cleared)
    BY <1>2, <1>3
  <2>2. \A k \in 1..n : k \in 1..Len(stack)
    BY <1>1
  <2>. HIDE DEF n
  <2>. QED  BY <1>2, <1>3, <1>4, <2>1, <2>2, PrefixLemma
<1>7. \A k \in 1..n :
        /\ k % 2 = 1 => stack'[k].kind = "flush" /\ stack'[k].todo = {}
        /\ k % 2 = 0 => stack'[k] = stack[k]
  <2>. SUFFICES ASSUME NEW k \in 1..n
                PROVE  /\ k % 2 = 1 => stack'[k].kind = "flush" /\ stack'[k].todo = {}
                       /\ k % 2 = 0 => stack'[k] = stack[k]
    OBVIOUS
  <2>1. k \in 1..Len(stack) /\ stack'[k] = cleared[k]
    BY <1>6
  <2>2. k % 2 = 1 => stack[k].kind = "flush" /\ stack[k].todo \in SUBSET Keys
    BY <2>1, <1>1, ShapeLemma, InvLemma
  <2>. HIDE DEF cleared
  <2>. QED  BY <1>3, <2>1, <2>2
<1>8. \A k \in 1..Len(stack') :
        /\ k % 2 = 1 => stack'[k].kind = "flush" /\ stack'[k].todo \subseteq stack[k].todo
        /\ k % 2 = 0 => stack'[k] = stack[k]
  BY <1>6, <1>7
<1>9. \A k \in 1..Len(stack') : k % 2 = 1 => stack'[k].todo \cap updaters' = {}
  BY <1>5
<1>10. raised' => Running("call")' /\ \A j \in 1..Len(stack') : j % 2 = 1 => stack'[j].todo = {}
  <2>1. raised' => n \in 1..n
    <3>1. (Len(stack) > 1) => n \in 1..n
      BY <1>1
    <3>. HIDE DEF n
    <3>. QED  BY <1>5, <3>1, Zenon
  <2>2. raised' => stack'[n].kind = "call"
    BY <2>1, <1>1, <1>2, <1>6, <1>7, ShapeLemma
  <2>. QED  BY <2>1, <2>2, <1>6, <1>7 DEF Running, Top
<1>11. updaters' \subseteq Keys /\ raised' \in BOOLEAN /\ Len(stack') <= Len(stack)
  BY <1>1, <1>2, <1>5, <1>6
<1>. QED  BY <1>4, <1>6, <1>8, <1>9, <1>10, <1>11, PrefixStepLemma

\* The queue becomes the round of the innermost flush.
LEMMA NextRoundStep == Inv /\ NextRound => Inv'
<1>. SUFFICES ASSUME Inv, NextRound PROVE Inv'
  OBVIOUS
<1>. DEFINE n == Len(stack)
            top == [Top EXCEPT !.todo = updaters]
<1>1. TypeOK /\ n \in Nat /\ n > 0 /\ n % 2 = 1 /\ Top \in FlushFrame
  BY RunningLemma DEF Inv, TypeOK, NextRound
<1>2. top \in Frame /\ top.kind = "flush" /\ top.todo = updaters
  BY <1>1 DEF TypeOK, Frame, FlushFrame
<1>3. /\ stack' = Retop(top)
      /\ updaters' = {}
      /\ flushDepth' \in 0..MaxUpdateDepth
      /\ UNCHANGED <<timeout, raised>>
  BY <1>1, ThrottleAssumption DEF NextRound, TypeOK
<1>4. /\ stack' \in Seq(Frame)
      /\ Len(stack') = n
      /\ \A k \in 1..n - 1 : stack'[k] = stack[k]
      /\ stack'[n] = top
  <2>. HIDE DEF top
  <2>. QED  BY <1>1, <1>2, <1>3, RetopLemma
<1>5. \A k \in 1..n : (k \in 1..n - 1 \/ k = n) /\ k % 2 \in {0, 1}
  BY <1>1, ParityLemma
<1>6. \A k \in 1..n :
        /\ k % 2 = 1 => stack'[k].kind = "flush"
        /\ k % 2 = 0 => stack'[k].kind = "call" /\ stack'[k] = stack[k]
  BY <1>1, <1>2, <1>4, <1>5, ShapeLemma
<1>7. WellStacked' /\ Flushes' = {k \in 1..n : k % 2 = 1}
  BY <1>4, <1>6, NextStackLemma
<1>8. ~raised /\ raised' \in BOOLEAN /\ ~raised'
  BY <1>1, <1>3 DEF TypeOK, NextRound, Running
<1>9. TypeOK'
  BY <1>1, <1>3, <1>4, <1>7, <1>8 DEF TypeOK
<1>10. WaitsOnce'
  <2>1. ASSUME NEW j \in Flushes', NEW k \in Flushes', j # k
        PROVE  stack'[j].todo \cap stack'[k].todo = {}
    <3>1. j \in 1..n /\ k \in 1..n /\ j % 2 = 1 /\ k % 2 = 1
      BY <1>7
    <3>2. CASE j = n
      BY <2>1, <3>1, <3>2, <1>2, <1>4, <1>5, InvLemma
    <3>3. CASE k = n
      BY <2>1, <3>1, <3>3, <1>2, <1>4, <1>5, InvLemma
    <3>4. CASE j # n /\ k # n
      BY <2>1, <3>1, <3>4, <1>4, <1>5, InvLemma
    <3>. QED  BY <3>2, <3>3, <3>4
  <2>. QED  BY <1>3, <2>1 DEF WaitsOnce
<1>11. NothingLeftBehind'
  <2>1. ASSUME NEW k \in 1..Len(stack'), stack'[k].kind = "call", stack'[k].caught,
               NEW j \in Flushes', j < k
        PROVE  stack'[j].todo = {}
    <3>1. k \in 1..n /\ k % 2 = 0 /\ stack'[k] = stack[k]
      BY <2>1, <1>4, <1>5, <1>6
    <3>2. j \in 1..n /\ j \in 1..n - 1 /\ j % 2 = 1
      BY <2>1, <3>1, <1>1, <1>7
    <3>3. stack[k].caught /\ j < k
      BY <2>1, <3>1
    <3>4. stack[j].todo = {}
      BY <3>1, <3>2, <3>3, InvLemma
    <3>. QED  BY <3>2, <3>4, <1>4
  <2>. QED  BY <1>8, <2>1 DEF NothingLeftBehind
<1>. QED  BY <1>9, <1>10, <1>11 DEF Inv

\* Catching the error leaves the rounds as they are: clear.
LEMMA CatchStep == Inv /\ Catch => Inv'
<1>. SUFFICES ASSUME Inv, Catch PROVE Inv'
  OBVIOUS
<1>. DEFINE n == Len(stack)
            top == [Top EXCEPT !.caught = TRUE]
<1>1. TypeOK /\ raised /\ n \in Nat /\ n > 1 /\ n % 2 = 0 /\ Top \in CallFrame
  BY RunningLemma DEF Inv, TypeOK, Catch
<1>2. top \in Frame /\ top.kind = "call"
  BY <1>1 DEF Frame, CallFrame
<1>3. /\ stack' = Retop(top)
      /\ raised' = FALSE
      /\ UNCHANGED <<updaters, timeout, flushDepth>>
  BY DEF Catch
<1>4. /\ stack' \in Seq(Frame)
      /\ Len(stack') = n
      /\ \A k \in 1..n - 1 : stack'[k] = stack[k]
      /\ stack'[n] = top
  <2>. HIDE DEF top
  <2>. QED  BY <1>1, <1>2, <1>3, RetopLemma
<1>5. \A k \in 1..n : (k \in 1..n - 1 \/ k = n) /\ k % 2 \in {0, 1}
  BY <1>1, ParityLemma
<1>6. \A k \in 1..n :
        /\ k % 2 = 1 => stack'[k].kind = "flush" /\ stack'[k].todo = {} /\ stack[k].todo = {}
        /\ k % 2 = 0 => stack'[k].kind = "call"
  BY <1>1, <1>2, <1>4, <1>5, ShapeLemma, InvLemma
<1>7. WellStacked' /\ Flushes' = {k \in 1..n : k % 2 = 1}
  BY <1>4, <1>6, NextStackLemma
<1>8. TypeOK'
  BY <1>1, <1>3, <1>4, <1>7 DEF TypeOK
<1>9. WaitsOnce' /\ NothingLeftBehind'
  BY <1>3, <1>6, <1>7 DEF WaitsOnce, NothingLeftBehind
<1>. QED  BY <1>8, <1>9 DEF Inv

\* An update leaves the round, and its frame is put on top.
LEMMA RunStep == Inv /\ (\E u \in Keys : RunUpdater(u)) => Inv'
<1>. SUFFICES ASSUME Inv, NEW u \in Keys, RunUpdater(u) PROVE Inv'
  OBVIOUS
<1>. DEFINE n == Len(stack)
            top == [Top EXCEPT !.todo = @ \ {u}]
            call == [kind |-> "call", key |-> u, caught |-> FALSE]
<1>1. TypeOK /\ n \in Nat /\ n > 0 /\ n % 2 = 1 /\ Top \in FlushFrame
  BY RunningLemma DEF Inv, TypeOK, RunUpdater
<1>2. top \in Frame /\ top.kind = "flush" /\ top.todo = Top.todo \ {u}
  BY <1>1 DEF Frame, FlushFrame
<1>3. call \in Frame /\ call.kind = "call" /\ ~call.caught
  BY DEF Frame, CallFrame
<1>4. stack' = Append(Retop(top), call) /\ UNCHANGED <<updaters, timeout, flushDepth, raised>>
  BY DEF RunUpdater
<1>. HIDE DEF call, top
<1>5. /\ Retop(top) \in Seq(Frame)
      /\ Len(Retop(top)) = n
      /\ \A k \in 1..n - 1 : Retop(top)[k] = stack[k]
      /\ Retop(top)[n] = top
  BY <1>1, <1>2, RetopLemma
<1>6. /\ stack' \in Seq(Frame)
      /\ Len(stack') = n + 1
      /\ \A k \in 1..n : stack'[k] = Retop(top)[k]
      /\ stack'[n + 1] = call
  BY <1>3, <1>4, <1>5, AppendLemma
<1>7. \A k \in 1..n : (k \in 1..n - 1 \/ k = n) /\ k % 2 \in {0, 1}
  BY <1>1, ParityLemma
<1>8. \A k \in 1..Len(stack) :
        /\ k % 2 = 1 => /\ stack'[k].kind = "flush"
                        /\ stack'[k].todo \subseteq stack[k].todo
        /\ k % 2 = 0 => stack'[k] = stack[k]
  BY <1>1, <1>2, <1>5, <1>6, <1>7, ShapeLemma DEF Top
<1>9. (n + 1) % 2 = 0
  BY <1>1
<1>10. LET last == stack'[Len(stack')] IN
         \/ Len(stack') % 2 = 1 /\ last.kind = "flush" /\ last.todo = {}
         \/ Len(stack') % 2 = 0 /\ last.kind = "call" /\ ~last.caught
  BY <1>3, <1>6, <1>9
<1>11. ~raised /\ timeout' \in {"none", "armed", "fired"}
  BY <1>1, <1>4 DEF TypeOK, RunUpdater, Running
<1>. QED  BY <1>4, <1>6, <1>8, <1>10, <1>11, PushStepLemma

-----------------------------------------------------------------------------
LEMMA InvInductive == Inv /\ [Next]_vars => Inv'
<1>. SUFFICES ASSUME Inv, [Next]_vars PROVE Inv'
  OBVIOUS
<1>1. CASE \E u \in Keys : Schedule(u) \/ Cancel(u)
  BY <1>1, ScheduleStep, CancelStep
<1>2. CASE FlushPending \/ FlushAgain \/ TimerFires
  BY <1>2, FlushStep
<1>3. CASE Return
  BY <1>3, ReturnStep
<1>4. CASE Catch
  BY <1>4, CatchStep
<1>5. CASE NextRound
  BY <1>5, NextRoundStep
<1>6. CASE GiveUp
  BY <1>6, GiveUpStep
<1>7. CASE \E u \in Keys : RunUpdater(u)
  BY <1>7, RunStep
<1>8. CASE Throw
  BY <1>8, ThrowStep
<1>9. CASE EndFlush
  BY <1>9, EndFlushStep
<1>10. CASE UNCHANGED vars
  <2>1. UNCHANGED <<updaters, stack, timeout, flushDepth, raised>>
    BY <1>10 DEF vars
  <2>. QED  BY <2>1 DEF Inv, TypeOK, WaitsOnce, NothingLeftBehind, WellStacked, Flushes,
                        Running, Top
<1>. QED  BY <1>1, <1>2, <1>3, <1>4, <1>5, <1>6, <1>7, <1>8, <1>9, <1>10 DEF Next, Engine

LEMMA InitInv == Init => Inv
<1>. SUFFICES ASSUME Init PROVE Inv
  OBVIOUS
<1>1. stack \in Seq(Frame) /\ Len(stack) = 0 /\ 1..Len(stack) = {}
  BY DEF Init
<1>2. WellStacked /\ Flushes = {}
  BY <1>1 DEF WellStacked, Flushes
<1>3. TypeOK
  <2>1. /\ updaters = {} /\ updaters \subseteq Keys
        /\ timeout = "none" /\ flushDepth = 0
        /\ raised \in BOOLEAN /\ ~raised
    BY DEF Init
  <2>2. flushDepth \in 0..MaxUpdateDepth
    BY <2>1, ThrottleAssumption
  <2>. QED  BY <1>1, <1>2, <2>1, <2>2 DEF TypeOK
<1>4. WaitsOnce /\ NothingLeftBehind
  BY <1>1, <1>2 DEF Init, WaitsOnce, NothingLeftBehind
<1>. QED  BY <1>3, <1>4 DEF Inv

LEMMA SpecInv == Spec => []Inv
BY InitInv, InvInductive, PTL DEF Spec

(***************************************************************************)
(* The variables have their types, and frames of flushes and of updates    *)
(* alternate (letsUpdate, runFlushingUpdater).                             *)
(***************************************************************************)
THEOREM TypeCorrect == Spec => []TypeOK
BY SpecInv, PTL DEF Inv

(***************************************************************************)
(* An update waits in one place only, however deeply flushes are nested:   *)
(* cancelActive() reaches every round under way.                           *)
(***************************************************************************)
THEOREM OnePlace == Spec => []WaitsOnce
BY SpecInv, PTL DEF Inv

(***************************************************************************)
(* The depth error passes through flushes that have nothing left to run,   *)
(* so the updates it drops are those letsUpdate() gave up.                 *)
(***************************************************************************)
THEOREM NoneLeftBehind == Spec => []NothingLeftBehind
BY SpecInv, PTL DEF Inv

-----------------------------------------------------------------------------
(***************************************************************************)
(* The throttle implements the scheduler.                                  *)
(***************************************************************************)
LEMMA HalfLemma ==
  ASSUME NEW n \in Nat
  PROVE  /\ n \div 2 \in Nat
         /\ n % 2 = 0 => (n + 1) \div 2 = n \div 2
         /\ n % 2 = 1 => (n - 1) \div 2 = n \div 2 /\ (n + 1) \div 2 = n \div 2 + 1
         /\ n % 2 = 0 /\ n > 0 => (n - 1) \div 2 = n \div 2 - 1 /\ (n - 2) \div 2 = n \div 2 - 1
         /\ n > 1 => n \div 2 > 0
         /\ n % 2 = 1 => 2 * (n \div 2 + 1) = n + 1
OBVIOUS

LEMMA DoubleLemma ==
  ASSUME NEW n \in Nat
  PROVE  \A k \in 1..(n \div 2) : 2 * k \in 1..n /\ (2 * k) % 2 = 0
OBVIOUS

\* What is owed, and what runs, by the places of the frames.
OwedByPlace ==
  \A u : u \in Owed <=> \/ u \in updaters
                       \/ \E k \in 1..Len(stack) : k % 2 = 1 /\ u \in stack[k].todo

RunningByPlace ==
  /\ RunningKeys \in Seq(Keys)
  /\ Len(RunningKeys) = Len(stack) \div 2
  /\ \A k \in 1..(Len(stack) \div 2) : RunningKeys[k] = stack[2 * k].key

LEMMA PlacesLemma == Inv => OwedByPlace /\ RunningByPlace
<1>. SUFFICES ASSUME Inv PROVE OwedByPlace /\ RunningByPlace
  OBVIOUS
<1>1. OwedByPlace
  BY FlushesLemma DEF OwedByPlace, Owed, Inv
<1>2. RunningByPlace
  <2>1. Len(stack) \in Nat /\ Len(stack) \div 2 \in Nat
    BY HalfLemma DEF Inv, TypeOK
  <2>2. \A k \in 1..(Len(stack) \div 2) : stack[2 * k].key \in Keys
    BY <2>1, DoubleLemma, ShapeLemma DEF Inv, CallFrame
  <2>. QED  BY <2>1, <2>2 DEF RunningByPlace, RunningKeys
<1>. QED  BY <1>1, <1>2

LEMMA NextPlacesLemma == Inv /\ [Next]_vars => OwedByPlace' /\ RunningByPlace'
<1>1. Inv' => OwedByPlace' /\ RunningByPlace'
  BY PlacesLemma, PTL
<1>. QED  BY <1>1, InvInductive

LEMMA SameRunningLemma ==
  ASSUME RunningByPlace, RunningByPlace', Len(stack') \in Nat,
         Len(stack') \div 2 = Len(stack) \div 2,
         \A k \in 1..Len(stack') : k % 2 = 0 => stack'[k].key = stack[k].key
  PROVE  UNCHANGED RunningKeys
<1>. DEFINE m == Len(stack') \div 2
<1>1. \A k \in 1..m : 2 * k \in 1..Len(stack') /\ (2 * k) % 2 = 0
  BY DoubleLemma
<1>2. /\ RunningKeys \in Seq(Keys) /\ RunningKeys' \in Seq(Keys)
      /\ Len(RunningKeys) = m /\ Len(RunningKeys') = m
      /\ \A k \in 1..m : RunningKeys[k] = stack[2 * k].key
      /\ \A k \in 1..m : RunningKeys'[k] = stack'[2 * k].key
  BY DEF RunningByPlace
<1>. HIDE DEF m
<1>3. \A k \in 1..m : RunningKeys'[k] = RunningKeys[k]
  BY <1>1, <1>2
<1>. QED  BY <1>2, <1>3, SeqEqual

\* The updates that ran return: the last key is taken off.
LEMMA FewerRunningLemma ==
  ASSUME RunningByPlace, RunningByPlace', Len(stack) \in Nat, Len(stack') \in Nat,
         Len(stack) \div 2 > 0,
         Len(stack') \div 2 = Len(stack) \div 2 - 1,
         \A k \in 1..Len(stack') : k % 2 = 0 => stack'[k].key = stack[k].key
  PROVE  /\ RunningKeys # <<>>
         /\ RunningKeys' = SubSeq(RunningKeys, 1, Len(RunningKeys) - 1)
<1>. DEFINE n == Len(RunningKeys) - 1
<1>1. /\ RunningKeys \in Seq(Keys) /\ RunningKeys' \in Seq(Keys)
      /\ Len(stack) \div 2 \in Nat
      /\ Len(RunningKeys) = Len(stack) \div 2
      /\ Len(RunningKeys') = Len(stack') \div 2
  BY HalfLemma DEF RunningByPlace
<1>2. n \in Nat /\ n <= Len(RunningKeys) /\ Len(RunningKeys') = n
  BY <1>1
<1>3. \A k \in 1..n : RunningKeys'[k] = RunningKeys[k]
  <2>1. \A k \in 1..n : k \in 1..n + 1 /\ n + 1 = Len(stack) \div 2 /\ n = Len(stack') \div 2
    BY <1>1, <1>2
  <2>2. \A k \in 1..n : 2 * k \in 1..Len(stack') /\ (2 * k) % 2 = 0
    BY <2>1, DoubleLemma
  <2>3. /\ \A k \in 1..n : RunningKeys[k] = stack[2 * k].key
        /\ \A k \in 1..n : RunningKeys'[k] = stack'[2 * k].key
    <3>. HIDE DEF n
    <3>. QED  BY <2>1 DEF RunningByPlace
  <2>. QED  BY <2>2, <2>3
<1>. HIDE DEF n
<1>4. /\ SubSeq(RunningKeys, 1, n) \in Seq(Keys)
      /\ Len(SubSeq(RunningKeys, 1, n)) = n
      /\ \A k \in 1..n : SubSeq(RunningKeys, 1, n)[k] = RunningKeys[k]
  BY <1>1, <1>2, PrefixLemma
<1>5. RunningKeys' = SubSeq(RunningKeys, 1, n)
  BY <1>1, <1>2, <1>3, <1>4, SeqEqual
<1>6. RunningKeys # <<>>
  BY <1>1
<1>. QED  BY <1>5, <1>6 DEF n

LEMMA SchedulePromised ==
  ASSUME Inv, OwedByPlace, RunningByPlace, OwedByPlace', RunningByPlace',
         NEW u \in Keys, Schedule(u)
  PROVE  Promise!Schedule(u)
<1>1. /\ Len(stack) \in Nat
      /\ Len(stack') = Len(stack)
      /\ \A k \in 1..Len(stack) :
           /\ k % 2 = 1 => stack'[k].todo = stack[k].todo \ {u}
           /\ k % 2 = 0 => stack'[k] = stack[k]
  BY CancelLemma DEF Schedule, Inv, TypeOK
<1>2. updaters' = updaters \cup {u}
  BY DEF Schedule
<1>3. Owed' = Owed \cup {u}
  BY <1>1, <1>2 DEF OwedByPlace
<1>4. UNCHANGED RunningKeys
  BY <1>1, SameRunningLemma
<1>. QED  BY <1>3, <1>4 DEF Promise!Schedule

LEMMA CancelPromised ==
  ASSUME Inv, OwedByPlace, RunningByPlace, OwedByPlace', RunningByPlace',
         NEW u \in Keys, Cancel(u)
  PROVE  Promise!Cancel(u)
<1>1. /\ Len(stack) \in Nat
      /\ Len(stack') = Len(stack)
      /\ \A k \in 1..Len(stack) :
           /\ k % 2 = 1 => stack'[k].todo = stack[k].todo \ {u}
           /\ k % 2 = 0 => stack'[k] = stack[k]
  BY CancelLemma DEF Cancel, Inv, TypeOK
<1>2. updaters' = updaters \ {u}
  BY DEF Cancel
<1>3. Owed' = Owed \ {u}
  BY <1>1, <1>2 DEF OwedByPlace
<1>4. UNCHANGED RunningKeys
  BY <1>1, SameRunningLemma
<1>. QED  BY <1>3, <1>4 DEF Promise!Cancel

\* The update was owed, in this round and, the rounds being disjoint, in this
\* one only.
LEMMA RunPromised ==
  ASSUME Inv, OwedByPlace, RunningByPlace, OwedByPlace', RunningByPlace',
         NEW u \in Keys, RunUpdater(u)
  PROVE  Promise!Run(u)
<1>. DEFINE n == Len(stack)
            top == [Top EXCEPT !.todo = @ \ {u}]
            call == [kind |-> "call", key |-> u, caught |-> FALSE]
<1>1. /\ TypeOK /\ n \in Nat /\ n > 0 /\ n % 2 = 1 /\ Top \in FlushFrame
      /\ Top = stack[n] /\ u \in Top.todo
  BY RunningLemma DEF Inv, TypeOK, RunUpdater, Top
<1>2. top \in Frame /\ top.todo = Top.todo \ {u}
  BY <1>1 DEF Frame, FlushFrame
<1>3. call \in Frame /\ call.key = u
  BY DEF Frame, CallFrame
<1>4. stack' = Append(Retop(top), call) /\ updaters' = updaters
  BY DEF RunUpdater
<1>. HIDE DEF call, top
<1>5. /\ Retop(top) \in Seq(Frame)
      /\ Len(Retop(top)) = n
      /\ \A k \in 1..n - 1 : Retop(top)[k] = stack[k]
      /\ Retop(top)[n] = top
  BY <1>1, <1>2, RetopLemma
<1>6. /\ Len(stack') = n + 1
      /\ \A k \in 1..n : stack'[k] = Retop(top)[k]
      /\ stack'[n + 1] = call
  BY <1>3, <1>4, <1>5, AppendLemma
<1>7. \A k \in 1..n : k \in 1..n - 1 \/ k = n
  BY <1>1
<1>8. \A k \in 1..n : k % 2 = 1 => stack'[k].todo = stack[k].todo \ {u}
  <2>. SUFFICES ASSUME NEW k \in 1..n, k % 2 = 1 PROVE stack'[k].todo = stack[k].todo \ {u}
    OBVIOUS
  <2>1. CASE k = n
    BY <2>1, <1>1, <1>2, <1>5, <1>6
  <2>2. CASE k # n
    <3>1. n \in 1..n /\ stack[k].todo \cap stack[n].todo = {}
      BY <2>2, <1>1, InvLemma
    <3>2. stack'[k] = stack[k]
      BY <2>2, <1>5, <1>6, <1>7
    <3>. QED  BY <3>1, <3>2, <1>1
  <2>. QED  BY <2>1, <2>2
<1>9. \A k \in 1..n + 1 : k % 2 = 1 => k \in 1..n
  BY <1>1
<1>10. u \notin updaters /\ u \in Owed
  <2>1. n \in 1..n /\ stack[n].todo \cap updaters = {}
    BY <1>1, InvLemma
  <2>. QED  BY <2>1, <1>1 DEF OwedByPlace
<1>11. Owed' = Owed \ {u}
  <2>1. \A v : v \in Owed' <=> v \in Owed /\ v # u
    <3>1. \A v : v \in Owed' <=> v \in updaters \/ \E k \in 1..n : k % 2 = 1 /\ v \in stack'[k].todo
      <4>1. \A k \in 1..n : k \in 1..n + 1
        BY <1>1
      <4>. QED  BY <4>1, <1>4, <1>6, <1>9 DEF OwedByPlace
    <3>. QED  BY <3>1, <1>8, <1>10 DEF OwedByPlace
  <2>. QED  BY <2>1
<1>12. RunningKeys' = Append(RunningKeys, u)
  <2>. DEFINE m == Len(RunningKeys)
  <2>1. /\ RunningKeys \in Seq(Keys) /\ RunningKeys' \in Seq(Keys)
        /\ m \in Nat /\ m = n \div 2
        /\ Len(RunningKeys') = m + 1 /\ m + 1 = (n + 1) \div 2
        /\ 2 * (m + 1) = n + 1
    <3>1. /\ n \div 2 \in Nat /\ (n + 1) \div 2 = n \div 2 + 1
          /\ 2 * (n \div 2 + 1) = n + 1
      BY <1>1, HalfLemma
    <3>2. /\ RunningKeys \in Seq(Keys) /\ RunningKeys' \in Seq(Keys)
          /\ m = n \div 2 /\ Len(RunningKeys') = (n + 1) \div 2
      BY <1>6 DEF RunningByPlace
    <3>. HIDE DEF m, n
    <3>. QED  BY <3>1, <3>2
  <2>2. \A k \in 1..m : RunningKeys'[k] = RunningKeys[k]
    <3>1. \A k \in 1..m : k \in 1..m + 1 /\ 2 * k \in 1..n - 1
      BY <2>1, <1>1
    <3>2. /\ \A k \in 1..m : RunningKeys[k] = stack[2 * k].key
          /\ \A k \in 1..m + 1 : RunningKeys'[k] = stack'[2 * k].key
      <4>. HIDE DEF m
      <4>. QED  BY <2>1, <1>6 DEF RunningByPlace
    <3>3. \A k \in 1..n - 1 : k \in 1..n /\ stack'[k] = stack[k]
      BY <1>1, <1>5, <1>6
    <3>. HIDE DEF m, n
    <3>. QED  BY <3>1, <3>2, <3>3
  <2>3. RunningKeys'[m + 1] = u
    BY <2>1, <1>3, <1>6 DEF RunningByPlace
  <2>. HIDE DEF m
  <2>4. /\ Append(RunningKeys, u) \in Seq(Keys)
        /\ Len(Append(RunningKeys, u)) = m + 1
        /\ \A k \in 1..m : Append(RunningKeys, u)[k] = RunningKeys[k]
        /\ Append(RunningKeys, u)[m + 1] = u
    BY <2>1, AppendLemma DEF m
  <2>5. \A k \in 1..m + 1 : k \in 1..m \/ k = m + 1
    BY <2>1
  <2>. QED  BY <2>1, <2>2, <2>3, <2>4, <2>5, SeqEqual
<1>. QED  BY <1>10, <1>11, <1>12 DEF Promise!Run

LEMMA FlushStutters ==
  ASSUME Inv, OwedByPlace, RunningByPlace, OwedByPlace', RunningByPlace',
         TimerFires \/ FlushPending \/ FlushAgain
  PROVE  UNCHANGED <<Owed, RunningKeys>>
<1>. DEFINE n == Len(stack)
            top == [kind |-> "flush", todo |-> {}]
<1>1. TypeOK /\ stack \in Seq(Frame) /\ n \in Nat
  BY DEF Inv, TypeOK
<1>2. n % 2 = 0
  BY <1>1, RunningLemma DEF TimerFires, FlushPending, FlushAgain
<1>3. stack' = Append(stack, top) /\ updaters' = updaters
  BY DEF TimerFires, FlushPending, FlushAgain, Flush
<1>4. top \in Frame /\ top.todo = {}
  BY DEF Frame, FlushFrame
<1>. HIDE DEF top
<1>5. /\ Len(stack') = n + 1
      /\ \A k \in 1..n : stack'[k] = stack[k]
      /\ stack'[n + 1] = top
  BY <1>1, <1>3, <1>4, AppendLemma
<1>6. \A k \in 1..n + 1 : k \in 1..n \/ k = n + 1
  BY <1>1
<1>7. \A k \in 1..n : k \in 1..n + 1
  BY <1>1
<1>8. UNCHANGED Owed
  <2>1. \A u : u \in Owed' <=> u \in Owed
    <3>. HIDE DEF n
    <3>. QED  BY <1>3, <1>4, <1>5, <1>6, <1>7 DEF OwedByPlace, n
  <2>. QED  BY <2>1
<1>9. UNCHANGED RunningKeys
  <2>1. (n + 1) \div 2 = n \div 2 /\ n + 1 \in Nat
    <3>. HIDE DEF n
    <3>. QED  BY <1>1, <1>2, HalfLemma
  <2>2. \A k \in 1..n + 1 : k % 2 = 0 => stack'[k].key = stack[k].key
    BY <1>1, <1>2, <1>5, <1>6
  <2>. QED  BY <2>1, <2>2, <1>5, SameRunningLemma
<1>. QED  BY <1>8, <1>9

LEMMA CatchStutters ==
  ASSUME Inv, OwedByPlace, RunningByPlace, OwedByPlace', RunningByPlace', Catch
  PROVE  UNCHANGED <<Owed, RunningKeys>>
<1>. DEFINE n == Len(stack)
            top == [Top EXCEPT !.caught = TRUE]
<1>1. TypeOK /\ n \in Nat /\ n > 1 /\ n % 2 = 0 /\ Top \in CallFrame /\ Top = stack[n]
  BY RunningLemma DEF Inv, TypeOK, Catch, Top
<1>2. top \in Frame /\ top.key = Top.key
  BY <1>1 DEF Frame, CallFrame
<1>3. stack' = Retop(top) /\ updaters' = updaters
  BY DEF Catch
<1>. HIDE DEF top
<1>4. /\ Len(stack') = n
      /\ \A k \in 1..n - 1 : stack'[k] = stack[k]
      /\ stack'[n] = top
  BY <1>1, <1>2, <1>3, RetopLemma
<1>5. \A k \in 1..n : (k \in 1..n - 1 \/ k = n) /\ (k % 2 = 1 => k \in 1..n - 1)
  BY <1>1
<1>6. UNCHANGED Owed
  <2>1. \A u : u \in Owed' <=> u \in Owed
    BY <1>3, <1>4, <1>5 DEF OwedByPlace
  <2>. QED  BY <2>1
<1>7. UNCHANGED RunningKeys
  <2>1. \A k \in 1..n : k % 2 = 0 => stack'[k].key = stack[k].key
    BY <1>1, <1>2, <1>4, <1>5
  <2>. QED  BY <2>1, <1>1, <1>4, SameRunningLemma
<1>. QED  BY <1>6, <1>7

LEMMA NextRoundStutters ==
  ASSUME Inv, OwedByPlace, RunningByPlace, OwedByPlace', RunningByPlace', NextRound
  PROVE  UNCHANGED <<Owed, RunningKeys>>
<1>. DEFINE n == Len(stack)
            top == [Top EXCEPT !.todo = updaters]
<1>1. /\ TypeOK /\ n \in Nat /\ n > 0 /\ n % 2 = 1 /\ Top \in FlushFrame
      /\ Top = stack[n] /\ stack[n].todo = {}
  BY RunningLemma DEF Inv, TypeOK, NextRound, Top
<1>2. top \in Frame /\ top.todo = updaters
  BY <1>1 DEF TypeOK, Frame, FlushFrame
<1>3. stack' = Retop(top) /\ updaters' = {}
  BY DEF NextRound
<1>. HIDE DEF top
<1>4. /\ Len(stack') = n
      /\ \A k \in 1..n - 1 : stack'[k] = stack[k]
      /\ stack'[n] = top
  BY <1>1, <1>2, <1>3, RetopLemma
<1>5. \A k \in 1..n : (k \in 1..n - 1 \/ k = n) /\ (k % 2 = 0 => k \in 1..n - 1)
  BY <1>1
<1>6. n \in 1..n
  BY <1>1
<1>7. UNCHANGED Owed
  <2>1. \A u : u \in Owed' <=> u \in Owed
    <3>. HIDE DEF n
    <3>. QED  BY <1>1, <1>2, <1>3, <1>4, <1>5, <1>6 DEF OwedByPlace, n
  <2>. QED  BY <2>1
<1>8. UNCHANGED RunningKeys
  <2>1. \A k \in 1..n : k % 2 = 0 => stack'[k].key = stack[k].key
    BY <1>4, <1>5
  <2>. QED  BY <2>1, <1>1, <1>4, SameRunningLemma
<1>. QED  BY <1>7, <1>8

\* The round that ends was run through, and the queue is empty.
LEMMA EndFlushStutters ==
  ASSUME Inv, OwedByPlace, RunningByPlace, OwedByPlace', RunningByPlace', EndFlush
  PROVE  UNCHANGED <<Owed, RunningKeys>>
<1>. DEFINE n == Len(stack)
<1>1. /\ TypeOK /\ stack \in Seq(Frame) /\ n \in Nat /\ n > 0 /\ n % 2 = 1
      /\ stack[n].todo = {}
  BY RunningLemma DEF Inv, TypeOK, EndFlush, Top
<1>2. stack' = SubSeq(stack, 1, n - 1) /\ updaters' = updaters
  BY DEF EndFlush, Leave, Below
<1>3. Len(stack') = n - 1 /\ \A k \in 1..n - 1 : stack'[k] = stack[k]
  BY <1>1, <1>2, BelowLemma DEF Below
<1>4. \A k \in 1..n : k \in 1..n - 1 \/ k = n
  BY <1>1
<1>5. \A k \in 1..n - 1 : k \in 1..n
  BY <1>1
<1>6. UNCHANGED Owed
  <2>1. \A k \in 1..n : k % 2 = 1 /\ stack[k].todo # {} => k \in 1..n - 1
    BY <1>1, <1>4
  <2>2. \A u : (\E k \in 1..n : k % 2 = 1 /\ u \in stack[k].todo)
              <=> (\E k \in 1..n - 1 : k % 2 = 1 /\ u \in stack'[k].todo)
    <3>. HIDE DEF n
    <3>. QED  BY <2>1, <1>3, <1>5
  <2>. QED  BY <2>2, <1>2, <1>3 DEF OwedByPlace
<1>7. UNCHANGED RunningKeys
  <2>1. (n - 1) \div 2 = n \div 2 /\ n - 1 \in Nat
    <3>. HIDE DEF n
    <3>. QED  BY <1>1, HalfLemma
  <2>. QED  BY <2>1, <1>3, SameRunningLemma
<1>. QED  BY <1>6, <1>7

LEMMA ReturnPromised ==
  ASSUME Inv, OwedByPlace, RunningByPlace, OwedByPlace', RunningByPlace', Return
  PROVE  Promise!Finish
<1>. DEFINE n == Len(stack)
<1>1. /\ TypeOK /\ stack \in Seq(Frame) /\ n \in Nat /\ n > 1 /\ n % 2 = 0
  BY RunningLemma DEF Inv, TypeOK, Return
<1>2. stack' = SubSeq(stack, 1, n - 1) /\ updaters' = updaters
  BY DEF Return, Below
<1>3. Len(stack') = n - 1 /\ \A k \in 1..n - 1 : stack'[k] = stack[k]
  BY <1>1, <1>2, BelowLemma DEF Below
<1>4. \A k \in 1..n : k % 2 = 1 => k \in 1..n - 1
  BY <1>1
<1>5. \A k \in 1..n - 1 : k \in 1..n
  BY <1>1
<1>6. UNCHANGED Owed
  <2>1. \A u : u \in Owed' <=> u \in Owed
    <3>. HIDE DEF n
    <3>. QED  BY <1>2, <1>3, <1>4, <1>5 DEF OwedByPlace, n
  <2>. QED  BY <2>1
<1>7. (n - 1) \div 2 = n \div 2 - 1 /\ n - 1 \in Nat /\ n \div 2 > 0
  <2>. HIDE DEF n
  <2>. QED  BY <1>1, HalfLemma
<1>8. /\ RunningKeys # <<>>
      /\ RunningKeys' = SubSeq(RunningKeys, 1, Len(RunningKeys) - 1)
  BY <1>1, <1>3, <1>7, FewerRunningLemma
<1>. QED  BY <1>6, <1>8 DEF Promise!Finish

\* The flush that the error ends has nothing left to run.
LEMMA ThrowPromised ==
  ASSUME Inv, OwedByPlace, RunningByPlace, OwedByPlace', RunningByPlace', Throw
  PROVE  Promise!Finish
<1>. DEFINE n == Len(stack)
<1>1. /\ TypeOK /\ stack \in Seq(Frame) /\ n \in Nat /\ n > 1 /\ n % 2 = 0
  BY RunningLemma DEF Inv, TypeOK, Throw
<1>2. /\ stack' = SubSeq(stack, 1, n - 2) /\ updaters' = updaters
      /\ raised \/ stack[n].caught
  BY DEF Throw, Leave, Top
<1>3. Len(stack') = n - 2 /\ \A k \in 1..n - 2 : stack'[k] = stack[k]
  <2>1. n - 2 \in Nat /\ n - 2 <= n
    BY <1>1
  <2>. QED  BY <2>1, <1>1, <1>2, PrefixLemma
<1>4. stack[n - 1].todo = {}
  <2>1. n - 1 \in 1..n /\ n \in 1..n /\ (n - 1) % 2 = 1 /\ n - 1 < n
    BY <1>1
  <2>2. CASE raised
    BY <2>1, <2>2, InvLemma
  <2>3. CASE stack[n].caught
    BY <2>1, <2>3, <1>1, InvLemma
  <2>. QED  BY <1>2, <2>2, <2>3
<1>5. \A k \in 1..n : k % 2 = 1 => k \in 1..n - 2 \/ k = n - 1
  BY <1>1
<1>6. \A k \in 1..n - 2 : k \in 1..n
  BY <1>1
<1>7. UNCHANGED Owed
  <2>1. \A k \in 1..n : k % 2 = 1 /\ stack[k].todo # {} => k \in 1..n - 2
    BY <1>4, <1>5
  <2>2. \A u : (\E k \in 1..n : k % 2 = 1 /\ u \in stack[k].todo)
              <=> (\E k \in 1..n - 2 : k % 2 = 1 /\ u \in stack'[k].todo)
    <3>. HIDE DEF n
    <3>. QED  BY <2>1, <1>3, <1>6
  <2>. QED  BY <2>2, <1>2, <1>3 DEF OwedByPlace
<1>8. (n - 2) \div 2 = n \div 2 - 1 /\ n - 2 \in Nat /\ n \div 2 > 0
  <2>. HIDE DEF n
  <2>. QED  BY <1>1, HalfLemma
<1>9. /\ RunningKeys # <<>>
      /\ RunningKeys' = SubSeq(RunningKeys, 1, Len(RunningKeys) - 1)
  BY <1>1, <1>3, <1>8, FewerRunningLemma
<1>. QED  BY <1>7, <1>9 DEF Promise!Finish

LEMMA GiveUpPromised ==
  ASSUME Inv, OwedByPlace, RunningByPlace, OwedByPlace', RunningByPlace', GiveUp
  PROVE  Promise!GiveUp
<1>. DEFINE n == Len(stack)
            cleared == CancelActive(Keys)
<1>1. TypeOK /\ n \in Nat /\ n > 0 /\ n % 2 = 1 /\ n - 1 \in Nat /\ n - 1 <= n
  BY RunningLemma DEF Inv, TypeOK, GiveUp
<1>2. /\ cleared \in Seq(Frame)
      /\ Len(cleared) = n
      /\ \A k \in 1..n :
           /\ k % 2 = 1 => cleared[k].todo = stack[k].todo \ Keys
           /\ k % 2 = 0 => cleared[k] = stack[k]
  BY <1>1, CancelLemma
<1>3. stack' = SubSeq(cleared, 1, n - 1) /\ updaters' = {}
  BY DEF GiveUp, Leave
<1>. HIDE DEF cleared
<1>4. Len(stack') = n - 1 /\ \A k \in 1..n - 1 : stack'[k] = cleared[k]
  BY <1>1, <1>2, <1>3, PrefixLemma
<1>5. \A k \in 1..n - 1 : k \in 1..n
  BY <1>1
<1>6. Owed' = {}
  <2>1. \A k \in 1..n - 1 : k % 2 = 1 => stack'[k].todo = {}
    BY <1>2, <1>4, <1>5, InvLemma
  <2>2. \A u : u \notin Owed'
    BY <2>1, <1>3, <1>4 DEF OwedByPlace
  <2>. QED  BY <2>2
<1>7. UNCHANGED RunningKeys
  <2>1. (n - 1) \div 2 = n \div 2
    BY <1>1, HalfLemma
  <2>2. \A k \in 1..n - 1 : k % 2 = 0 => stack'[k].key = stack[k].key
    BY <1>2, <1>4, <1>5
  <2>. QED  BY <2>1, <2>2, <1>1, <1>4, SameRunningLemma
<1>. QED  BY <1>6, <1>7 DEF Promise!GiveUp

-----------------------------------------------------------------------------
LEMMA StepPromised ==
  Inv /\ [Next]_vars => [Promise!SchedulerNext]_<<Owed, RunningKeys>>
<1>. SUFFICES ASSUME Inv, [Next]_vars
              PROVE  Promise!SchedulerNext \/ UNCHANGED <<Owed, RunningKeys>>
  OBVIOUS
<1>. USE PlacesLemma, NextPlacesLemma
<1>1. CASE \E u \in Keys : Schedule(u) \/ Cancel(u)
  <2>1. PICK u \in Keys : Schedule(u) \/ Cancel(u)
    BY <1>1
  <2>2. Promise!Schedule(u) \/ Promise!Cancel(u)
    BY <2>1, SchedulePromised, CancelPromised
  <2>. QED  BY <2>2 DEF Promise!SchedulerNext
<1>2. CASE FlushPending \/ FlushAgain \/ TimerFires
  BY <1>2, FlushStutters
<1>3. CASE Return
  BY <1>3, ReturnPromised DEF Promise!SchedulerNext
<1>4. CASE Catch
  BY <1>4, CatchStutters
<1>5. CASE NextRound
  BY <1>5, NextRoundStutters
<1>6. CASE GiveUp
  BY <1>6, GiveUpPromised DEF Promise!SchedulerNext
<1>7. CASE \E u \in Keys : RunUpdater(u)
  <2>1. PICK u \in Keys : RunUpdater(u)
    BY <1>7
  <2>2. Promise!Run(u)
    BY <2>1, RunPromised
  <2>. QED  BY <2>2 DEF Promise!SchedulerNext
<1>8. CASE Throw
  BY <1>8, ThrowPromised DEF Promise!SchedulerNext
<1>9. CASE EndFlush
  BY <1>9, EndFlushStutters
<1>10. CASE UNCHANGED vars
  BY <1>10 DEF vars, Owed, RunningKeys, Flushes
<1>. QED  BY <1>1, <1>2, <1>3, <1>4, <1>5, <1>6, <1>7, <1>8, <1>9, <1>10 DEF Next, Engine

LEMMA InitPromised == Init => Promise!SchedulerInit
<1>. SUFFICES ASSUME Init PROVE Owed = {} /\ RunningKeys = <<>>
  BY DEF Promise!SchedulerInit
<1>1. Inv /\ Len(stack) = 0 /\ updaters = {}
  BY InitInv DEF Init
<1>2. OwedByPlace /\ RunningByPlace
  BY <1>1, PlacesLemma
<1>3. \A u : u \notin Owed
  BY <1>1, <1>2 DEF OwedByPlace
<1>4. RunningKeys \in Seq(Keys) /\ Len(RunningKeys) = 0
  BY <1>1, <1>2 DEF RunningByPlace
<1>. QED  BY <1>3, <1>4

(***************************************************************************)
(* The throttle implements the scheduler: a key runs only while it is      *)
(* owed, and stops being owed by running, by cancel(), or when the         *)
(* throttle gives everything up.                                           *)
(***************************************************************************)
THEOREM SchedulerImplemented == Spec => ImplementsScheduler
<1>1. Init => Promise!SchedulerInit
  BY InitPromised
<1>2. Inv /\ [Next]_vars => [Promise!SchedulerNext]_Promise!schedulerVars
  BY StepPromised DEF Promise!schedulerVars
<1>. QED  BY <1>1, <1>2, SpecInv, PTL DEF Spec, ImplementsScheduler, Promise!SchedulerSpec

(***************************************************************************)
(* Each operation does to what is owed what a scheduler's does: after      *)
(* cancel() no run is left in any round of any flush.                      *)
(***************************************************************************)
THEOREM OperationsPromised == Spec => OperationsKeepPromise
<1>1. Inv /\ [Next]_vars =>
        [\A u \in Keys :
           /\ Schedule(u) => Promise!Schedule(u)
           /\ Cancel(u) => Promise!Cancel(u)
           /\ RunUpdater(u) => Promise!Run(u)]_vars
  BY PlacesLemma, NextPlacesLemma, SchedulePromised, CancelPromised, RunPromised
<1>. QED  BY <1>1, SpecInv, PTL DEF Spec, OperationsKeepPromise

-----------------------------------------------------------------------------
(***************************************************************************)
(* The mirror.  NothingForgotten is not inductive by itself: a write is    *)
(* skipped when the text is the last written one, so lastWritten must be   *)
(* what the storage holds (Truthful).  The promise of the disposer rests   *)
(* on Ahead: with an immediate scheduler and `coalesce`, a branch on its   *)
(* way to the storage means that the version has moved since the last      *)
(* write.                                                                  *)
(***************************************************************************)
Truthful == lastWritten = stored

Ahead ==
  /\ ~options.deferred /\ options.coalesce /\ ~disposed /\ (undelivered # {} \/ dirty # {})
       => lastSeen < version
  /\ ~options.coalesce => dirty = {}

MirrorInv == PersistTypeOK /\ Truthful /\ NothingForgotten /\ DirtyIsScheduled /\ Ahead

-----------------------------------------------------------------------------
(***************************************************************************)
(* What a write of some branches leaves.                                   *)
(***************************************************************************)
LEMMA WriteLemma ==
  ASSUME MirrorInv, NEW B \in SUBSET Partitions, NEW bad \in SUBSET Partitions,
         NEW F \in SUBSET Partitions, WriteBranches(B, bad, F)
  PROVE  /\ stored' \in [Partitions -> Entries]
         /\ lastWritten' = stored'
         /\ lastSeen' \in 0..version
         /\ failed' \subseteq Partitions
         /\ window' \in BOOLEAN
         /\ \A b \in B : wire[b] \in {stored'[b], Broken} \/ b \in failed'
         /\ \A b \in Partitions \ B : stored'[b] = stored[b] /\ (b \in F => b \in failed')
PROOF
<1> DEFINE tried == {b \in B : wire[b] # Broken}
           differ == {b \in tried : wire[b] # lastWritten[b]}
           done == differ \ bad
<1>1. /\ stored' = [b \in Partitions |-> IF b \in done THEN wire[b] ELSE stored[b]]
      /\ lastWritten' = [b \in Partitions |-> IF b \in done THEN wire[b] ELSE lastWritten[b]]
      /\ lastSeen' = IF tried = {} THEN lastSeen ELSE version
      /\ failed' = (F \ tried) \cup (differ \cap bad)
      /\ window' = (window \/ (options.throttled /\ \E b \in done : wire[b] # Absent))
  BY DEF WriteBranches
<1>2. \A b \in done : wire[b] \in Entries
  BY DEF MirrorInv, PersistTypeOK, Wires, Entries
<1>3. stored' \in [Partitions -> Entries] /\ lastWritten' = stored'
  BY <1>1, <1>2 DEF MirrorInv, PersistTypeOK, Truthful
<1>4. lastSeen' \in 0..version
  BY <1>1 DEF MirrorInv, PersistTypeOK
<1>5. failed' \subseteq Partitions /\ window' \in BOOLEAN
  BY <1>1 DEF MirrorInv, PersistTypeOK
<1>6. ASSUME NEW b \in B
      PROVE  wire[b] \in {stored'[b], Broken} \/ b \in failed'
  <2>1. CASE b \in done
    BY <1>1, <2>1
  <2>2. CASE b \in differ \cap bad
    BY <1>1, <2>2
  <2>3. CASE b \notin differ
    <3> HIDE DEF done
    <3>1. wire[b] = Broken \/ wire[b] = lastWritten[b]
      BY <2>3
    <3>2. stored'[b] = stored[b]
      BY <1>1, <2>3 DEF done
    <3> QED
      BY <3>1, <3>2 DEF MirrorInv, Truthful
  <2> QED
    BY <2>1, <2>2, <2>3
<1>7. ASSUME NEW b \in Partitions \ B
      PROVE  stored'[b] = stored[b] /\ (b \in F => b \in failed')
  BY <1>1
<1> QED
  BY <1>3, <1>4, <1>5, <1>6, <1>7

(***************************************************************************)
(* dispatch() leaves no dirty branch without a dispatch to come.           *)
(***************************************************************************)
LEMMA DispatchLemma ==
  ASSUME MirrorInv, NEW forced \in BOOLEAN, NEW bad \in SUBSET Partitions, NEW handle \in BOOLEAN,
         Dispatch(forced, bad, handle)
  PROVE  /\ stored' \in [Partitions -> Entries]
         /\ lastWritten' = stored'
         /\ lastSeen' \in 0..version
         /\ sealed' \in BOOLEAN
         /\ dirty' \subseteq dirty
         /\ failed' \subseteq Partitions
         /\ timer' \in BOOLEAN
         /\ window' \in BOOLEAN
         /\ dirty' # {} => timer' \/ disposed
         /\ dirty' # {} => lastSeen' = lastSeen
         /\ sealed' /\ ~disposed =>
              \A b \in Partitions :
                wire[b] \in {stored'[b], Broken} \/ b \in undelivered \cup dirty' \cup failed'
PROOF
<1>1. CASE disposed \/ (dirty = {} /\ failed = {})
  <2>1. timer' = handle /\ UNCHANGED <<dirty, writeVars>>
    BY <1>1 DEF Dispatch
  <2> QED
    BY <1>1, <2>1 DEF writeVars, MirrorInv, PersistTypeOK, Truthful, NothingForgotten, UpToDate
<1>2. CASE ~(disposed \/ (dirty = {} /\ failed = {})) /\ (~forced /\ window)
  <2>1. timer' = TRUE /\ UNCHANGED <<dirty, writeVars>>
    BY <1>2 DEF Dispatch
  <2> QED
    BY <1>2, <2>1 DEF writeVars, MirrorInv, PersistTypeOK, Truthful, NothingForgotten, UpToDate
<1>3. CASE ~(disposed \/ (dirty = {} /\ failed = {})) /\ ~(~forced /\ window)
  <2> DEFINE B == IF sealed THEN dirty \cup failed ELSE Partitions
  <2>1. /\ timer' = FALSE
        /\ dirty' = {}
        /\ sealed' = TRUE
        /\ WriteBranches(B, bad, {})
    BY <1>3 DEF Dispatch
  <2>2. B \in SUBSET Partitions
    BY DEF MirrorInv, PersistTypeOK
  <2>3. B = Partitions \/ (sealed /\ B = dirty \cup failed)
    OBVIOUS
  <2> HIDE DEF B
  <2>4. /\ stored' \in [Partitions -> Entries]
        /\ lastWritten' = stored'
        /\ lastSeen' \in 0..version
        /\ failed' \subseteq Partitions
        /\ window' \in BOOLEAN
        /\ \A b \in B : wire[b] \in {stored'[b], Broken} \/ b \in failed'
        /\ \A b \in Partitions \ B : stored'[b] = stored[b]
    BY <2>1, <2>2, WriteLemma
  <2>5. ASSUME NEW b \in Partitions, ~disposed
        PROVE  wire[b] \in {stored'[b], Broken} \/ b \in undelivered \cup dirty' \cup failed'
    <3>1. CASE b \in B
      BY <2>4, <3>1
    <3>2. CASE b \notin B
      <4>1. sealed /\ B = dirty \cup failed
        BY <2>3, <3>2
      <4>2. stored'[b] = stored[b]
        BY <2>4, <3>2
      <4> QED
        BY <2>5, <3>2, <4>1, <4>2 DEF MirrorInv, NothingForgotten, UpToDate
    <3> QED
      BY <3>1, <3>2
  <2> QED
    BY <2>1, <2>4, <2>5
<1> QED
  BY <1>1, <1>2, <1>3

-----------------------------------------------------------------------------
LEMMA InitMirror == PersistInit => MirrorInv
PROOF
<1> SUFFICES ASSUME PersistInit PROVE MirrorInv
  OBVIOUS
<1>1. wire \in [Partitions -> Wires]
  BY DEF PersistInit, Wires, Entries
<1>2. 0 \in 0..MaxVersion /\ 0 \in 0..0
  BY PersistAssumption
<1>3. PersistTypeOK
  BY <1>1, <1>2 DEF PersistInit, PersistTypeOK
<1> QED
  BY <1>3 DEF PersistInit, MirrorInv, Truthful, NothingForgotten, DirtyIsScheduled, Ahead

\* What Dispatch leaves is all a step that calls it needs.
LEMMA DispatchStep ==
  ASSUME MirrorInv, NEW forced \in BOOLEAN, NEW bad \in SUBSET Partitions, NEW handle \in BOOLEAN,
         Dispatch(forced, bad, handle),
         UNCHANGED <<options, branchVars, undelivered, disposed>>,
         queued' \in BOOLEAN,
         options.deferred \/ undelivered = {}
  PROVE  MirrorInv'
PROOF
<1>1. /\ stored' \in [Partitions -> Entries]
      /\ lastWritten' = stored'
      /\ lastSeen' \in 0..version
      /\ sealed' \in BOOLEAN
      /\ dirty' \subseteq dirty
      /\ failed' \subseteq Partitions
      /\ timer' \in BOOLEAN
      /\ window' \in BOOLEAN
      /\ dirty' # {} => timer' \/ disposed
      /\ dirty' # {} => lastSeen' = lastSeen
      /\ sealed' /\ ~disposed =>
           \A b \in Partitions :
             wire[b] \in {stored'[b], Broken} \/ b \in undelivered \cup dirty' \cup failed'
  BY DispatchLemma
<1>2. UNCHANGED <<options, version, wire, undelivered, disposed>>
  BY DEF branchVars
<1>3. PersistTypeOK'
  BY <1>1, <1>2 DEF MirrorInv, PersistTypeOK
<1>4. Truthful'
  BY <1>1 DEF Truthful
<1>5. NothingForgotten'
  BY <1>1, <1>2 DEF NothingForgotten, UpToDate
<1>6. DirtyIsScheduled'
  BY <1>1, <1>2 DEF DirtyIsScheduled
<1>7. Ahead'
  BY <1>1, <1>2 DEF MirrorInv, Ahead
<1> QED
  BY <1>3, <1>4, <1>5, <1>6, <1>7 DEF MirrorInv

LEMMA NextInv == MirrorInv /\ [PersistNext]_persistVars => MirrorInv'
PROOF
<1> SUFFICES ASSUME MirrorInv, [PersistNext]_persistVars PROVE MirrorInv'
  OBVIOUS
<1> USE DEF MirrorInv
<1>1. ASSUME NEW W \in SUBSET Partitions, Publish(W)
      PROVE  MirrorInv'
  <2>1. /\ ~disposed /\ version < MaxVersion
        /\ version' = version + 1
        /\ wire' \in [Partitions -> Wires]
        /\ W = {b \in Partitions : wire'[b] # wire[b]}
        /\ undelivered' = undelivered \cup W
        /\ UNCHANGED <<options, stored, lastWritten, lastSeen, sealed, failed, window,
                       dirty, queued, timer, disposed>>
    BY <1>1 DEF Publish, writeVars
  <2>2. PersistTypeOK'
    BY <2>1, PersistAssumption DEF PersistTypeOK
  <2>3. NothingForgotten'
    <3> SUFFICES ASSUME sealed, NEW b \in Partitions
                 PROVE  (UpToDate(b) \/ b \in undelivered \cup dirty \cup failed)'
      BY <2>1 DEF NothingForgotten
    <3>1. CASE b \in W
      BY <2>1, <3>1
    <3>2. CASE b \notin W
      BY <2>1, <3>2 DEF NothingForgotten, UpToDate
    <3> QED
      BY <3>1, <3>2
  <2>4. Ahead'
    BY <2>1 DEF Ahead, PersistTypeOK
  <2> QED
    BY <2>1, <2>2, <2>3, <2>4 DEF Truthful, DirtyIsScheduled
<1>2. ASSUME NEW b \in Partitions, MarkDirty(b)
      PROVE  MirrorInv'
  <2>1. /\ options.coalesce /\ b \in undelivered
        /\ undelivered' = undelivered \ {b}
        /\ dirty' = dirty \cup {b}
        /\ queued' = (queued \/ ~timer)
        /\ UNCHANGED <<options, version, wire, stored, lastWritten, lastSeen, sealed, failed,
                       window, timer, disposed>>
    BY <1>2 DEF MarkDirty, branchVars, writeVars
  <2>2. PersistTypeOK'
    BY <2>1 DEF PersistTypeOK
  <2>3. NothingForgotten' /\ DirtyIsScheduled'
    BY <2>1 DEF NothingForgotten, DirtyIsScheduled, UpToDate, PersistTypeOK
  <2> QED
    BY <2>1, <2>2, <2>3 DEF Truthful, Ahead
<1>3. ASSUME NEW b \in Partitions, NEW bad \in SUBSET Partitions, WriteBranch(b, bad)
      PROVE  MirrorInv'
  <2> DEFINE B == IF sealed THEN failed \cup {b} ELSE Partitions
  <2>1. /\ ~options.coalesce /\ b \in undelivered
        /\ undelivered' = undelivered \ {b}
        /\ sealed' = TRUE
        /\ WriteBranches(B, bad, failed)
        /\ UNCHANGED <<options, version, wire, dirty, queued, timer, disposed>>
    BY <1>3 DEF WriteBranch, branchVars
  <2>2. B \in SUBSET Partitions /\ failed \in SUBSET Partitions
    BY DEF PersistTypeOK
  <2>3. b \in B /\ (B = Partitions \/ (sealed /\ B = failed \cup {b}))
    OBVIOUS
  <2> HIDE DEF B
  <2>4. /\ stored' \in [Partitions -> Entries]
        /\ lastWritten' = stored'
        /\ lastSeen' \in 0..version
        /\ failed' \subseteq Partitions
        /\ window' \in BOOLEAN
        /\ \A e \in B : wire[e] \in {stored'[e], Broken} \/ e \in failed'
        /\ \A e \in Partitions \ B : stored'[e] = stored[e] /\ (e \in failed => e \in failed')
    BY <2>1, <2>2, WriteLemma
  <2>5. PersistTypeOK'
    BY <2>1, <2>4 DEF PersistTypeOK
  <2>6. NothingForgotten'
    <3> SUFFICES ASSUME ~disposed, NEW e \in Partitions
                 PROVE  (UpToDate(e) \/ e \in undelivered \cup dirty \cup failed)'
      BY <2>1 DEF NothingForgotten
    <3>1. CASE e \in B
      BY <2>1, <2>4, <3>1 DEF UpToDate
    <3>2. CASE e \notin B
      BY <2>1, <2>3, <2>4, <3>2 DEF NothingForgotten, UpToDate
    <3> QED
      BY <3>1, <3>2
  <2>7. Ahead'
    BY <2>1 DEF Ahead
  <2> QED
    BY <2>1, <2>4, <2>5, <2>6, <2>7 DEF Truthful, DirtyIsScheduled
<1>4. ASSUME NEW bad \in SUBSET Partitions, RunMicrotask(bad)
      PROVE  MirrorInv'
  BY <1>4, DispatchStep DEF RunMicrotask, BetweenTasks, PersistTypeOK
<1>5. ASSUME NEW bad \in SUBSET Partitions, DispatchTimerFires(bad)
      PROVE  MirrorInv'
  BY <1>5, DispatchStep DEF DispatchTimerFires, BetweenTasks, PersistTypeOK
<1>6. ASSUME NEW bad \in SUBSET Partitions, Drain(bad)
      PROVE  MirrorInv'
  BY <1>6, DispatchStep DEF Drain, PersistTypeOK
<1>7. ASSUME NEW bad \in SUBSET Partitions, Dispose(bad)
      PROVE  MirrorInv'
  <2>1. /\ disposed' = TRUE
        /\ undelivered' = {}
        /\ timer' = FALSE
        /\ UNCHANGED <<options, version, wire, dirty, queued>>
    BY <1>7 DEF Dispose, branchVars
  <2>2. /\ stored' \in [Partitions -> Entries]
        /\ lastWritten' = stored'
        /\ lastSeen' \in 0..version
        /\ failed' \subseteq Partitions
        /\ window' \in BOOLEAN
        /\ sealed' \in BOOLEAN
        /\ Drifted \/ lastSeen' = lastSeen
    <3>1. CASE Drifted
      <4>1. sealed' = TRUE /\ WriteBranches(Partitions, bad, failed)
        BY <1>7, <3>1 DEF Dispose
      <4>2. failed \in SUBSET Partitions /\ Partitions \in SUBSET Partitions
        BY DEF PersistTypeOK
      <4> QED
        BY <3>1, <4>1, <4>2, WriteLemma
    <3>2. CASE ~Drifted
      BY <1>7, <3>2 DEF Dispose, writeVars, PersistTypeOK, Truthful
    <3> QED
      BY <3>1, <3>2
  <2>3. PersistTypeOK'
    BY <2>1, <2>2 DEF PersistTypeOK
  <2> QED
    BY <2>1, <2>2, <2>3 DEF Truthful, NothingForgotten, DirtyIsScheduled, Ahead
<1>8. CASE WindowPasses
  BY <1>8 DEF WindowPasses, branchVars, PersistTypeOK, Truthful, NothingForgotten, UpToDate,
              DirtyIsScheduled, Ahead
<1>9. CASE UNCHANGED persistVars
  BY <1>9 DEF persistVars, PersistTypeOK, Truthful, NothingForgotten, UpToDate, DirtyIsScheduled, Ahead
<1> QED
  BY <1>1, <1>2, <1>3, <1>4, <1>5, <1>6, <1>7, <1>8, <1>9 DEF PersistNext, Deliver

LEMMA MirrorInvariance == PersistSpec => []MirrorInv
PROOF
  BY InitMirror, NextInv, PTL DEF PersistSpec

-----------------------------------------------------------------------------
(***************************************************************************)
(* Type correctness of persistPartitions().                                *)
(***************************************************************************)
THEOREM MirrorTypeCorrect == PersistSpec => []PersistTypeOK
PROOF
<1>1. MirrorInv => PersistTypeOK
  BY DEF MirrorInv
<1> QED
  BY <1>1, MirrorInvariance, PTL

(***************************************************************************)
(* A branch whose entry is behind is undelivered, dirty or failed: the     *)
(* code behind it is writeBranchDirect, writeBranch, dispatch, markDirty   *)
(* and the disposer.                                                       *)
(***************************************************************************)
THEOREM NoBranchForgotten == PersistSpec => []NothingForgotten
PROOF
<1>1. MirrorInv => NothingForgotten
  BY DEF MirrorInv
<1> QED
  BY <1>1, MirrorInvariance, PTL

(***************************************************************************)
(* Dirty branches have a microtask or a timer: markDirty and dispatch.     *)
(***************************************************************************)
THEOREM DirtyScheduled == PersistSpec => []DirtyIsScheduled
PROOF
<1>1. MirrorInv => DirtyIsScheduled
  BY DEF MirrorInv
<1> QED
  BY <1>1, MirrorInvariance, PTL

(***************************************************************************)
(* Over a store that delivers at once, the disposer leaves nothing behind  *)
(* but what the storage refuses.                                           *)
(***************************************************************************)
THEOREM ReconciledAtOnce == PersistSpec => DisposerReconcilesAtOnce
PROOF
<1> DEFINE AtOnce == ~options.deferred /\ (options.coalesce \/ undelivered = {})
<1>1. ASSUME MirrorInv, [PersistNext]_persistVars, disposed', ~disposed, AtOnce
      PROVE  Reconciled'
  <2>1. PICK bad \in SUBSET Partitions : Dispose(bad)
    BY <1>1 DEF PersistNext, persistVars, Deliver, Publish, MarkDirty, WriteBranch, RunMicrotask, DispatchTimerFires,
                Drain, WindowPasses, PersistTypeOK, MirrorInv
  <2>2. UNCHANGED wire
    BY <2>1 DEF Dispose, branchVars
  <2>3. CASE Drifted
    <3>1. WriteBranches(Partitions, bad, failed)
      BY <2>1, <2>3 DEF Dispose
    <3>2. failed \in SUBSET Partitions /\ Partitions \in SUBSET Partitions
      BY <1>1 DEF MirrorInv, PersistTypeOK
    <3>3. \A b \in Partitions : wire[b] \in {stored'[b], Broken} \/ b \in failed'
      BY <1>1, <3>1, <3>2, WriteLemma
    <3> QED
      BY <2>2, <3>3 DEF Reconciled, UpToDate
  <2>4. CASE ~Drifted
    <3>1. UNCHANGED <<stored, failed, sealed>> /\ failed = {} /\ version = lastSeen
      BY <2>1, <2>4 DEF Dispose, writeVars, Drifted
    <3>2. ~(lastSeen < version)
      BY <1>1, <3>1 DEF MirrorInv, PersistTypeOK
    <3>3. undelivered = {} /\ dirty = {}
      <4>1. options.coalesce \/ (undelivered = {} /\ dirty = {})
        BY <1>1 DEF MirrorInv, Ahead
      <4> QED
        BY <1>1, <3>2, <4>1 DEF MirrorInv, Ahead
    <3> QED
      BY <1>1, <2>2, <3>1, <3>3 DEF MirrorInv, NothingForgotten, Reconciled, UpToDate
  <2> QED
    BY <2>3, <2>4
<1>2. MirrorInv /\ [PersistNext]_persistVars => [disposed' /\ ~disposed /\ ~options.deferred
                               /\ (options.coalesce \/ undelivered = {}) => Reconciled']_persistVars
  BY <1>1
<1> QED
  BY <1>2, MirrorInvariance, PTL DEF PersistSpec, DisposerReconcilesAtOnce
=============================================================================
