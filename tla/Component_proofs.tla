---------------------------- MODULE Component_proofs ----------------------------
(***************************************************************************)
(* A component and the scopes it takes its stores from.  What a component  *)
(* shows is current, and it is registered for what it shows, for all       *)
(* stores, schedulers, props and numbers of publications.  Then: whatever  *)
(* factories do, a scope disposes once of every instance it owns, and of   *)
(* an instance before those it was built from, for any number of scopes,   *)
(* tokens and instances and calls nested to any depth.                     *)
(***************************************************************************)
EXTENDS ClassComponent, Scope, FiniteSetTheorems, SequenceTheorems, WellFoundedInduction,
        NaturalsInduction, TLAPS

Description == [source : Stores, baseline : Nat, reads : (SUBSET Places) \ {{}}]

\* f describes what some slots read, none of it later than today.
Describes(f) ==
  /\ f \in [DOMAIN f -> Description]
  /\ DOMAIN f \subseteq Slots
  /\ \A k \in DOMAIN f : /\ k \in Stores => f[k].source = k
                         /\ f[k].baseline <= version[f[k].source]

\* f is the description of the render r, whose output was given by its reads:
\* it still is, or one of them has been written since.
IsOf(f, r) ==
  /\ r.props \in Props
  /\ DOMAIN f = SlotsOf(r.props)
  /\ r.output = [uid \in Uses[r.props] |-> r.output[uid]]
  /\ \A k \in DOMAIN f :
       /\ f[k].source = Source[r.props]
       /\ \/ f[k].reads = ReadsOf(f[k].source, Uid(k)) /\ r.output[Uid(k)] = ValueOf(f[k].source, Uid(k))
          \/ f[k].reads \cap unpublished[f[k].source] # {}
          \/ HasDrift(f[k].source, f[k].baseline, f[k].reads)

\* The snapshot of the selection is that of the render r.
IsSnapshotOf(r) == "selection" \in Uses[r.props] => snapshot = r.output["selection"]

-----------------------------------------------------------------------------
(***************************************************************************)
(* The invariant.                                                          *)
(***************************************************************************)
StoresOK ==
  /\ data \in [Stores -> [Places -> 0..1]]
  /\ version \in [Stores -> Nat]
  /\ lastWrite \in [Stores -> [Places -> Nat]]
  /\ \A s \in Stores, p \in Places : lastWrite[s][p] <= version[s]
  /\ unpublished \in [Stores -> SUBSET Places]

ComponentOK ==
  /\ phase \in {"new", "mounted", "hidden", "gone"}
  /\ updating \in BOOLEAN /\ settled \in BOOLEAN /\ attempt.onScreen \in BOOLEAN
  /\ attempt = [state |-> attempt.state, props |-> attempt.props, entries |-> attempt.entries, onScreen |-> attempt.onScreen]
  /\ Describes(committed)
  /\ Fresh => Describes(attempt.entries)

\* Registrations are those of the handles, and only they are called.
Registered ==
  /\ registered = [r \in Registrations |-> IF Holds(installed, r) THEN ReadsAt(installed, r) ELSE {}]
  /\ queued \subseteq {r \in Registrations : Holds(installed, r)}
  /\ installed = IF phase = "mounted" THEN Handles(committed) ELSE <<>>

\* Whose descriptions are where.
Described ==
  /\ settled => IsOf(committed, shown)
  /\ settled /\ attempt.state = "consumed" => IsSnapshotOf(shown)
  /\ work # None => Fresh /\ IsOf(attempt.entries, work) /\ IsSnapshotOf(work)
  /\ Fresh /\ attempt.onScreen => IsOf(attempt.entries, shown) /\ IsSnapshotOf(shown)

\* What was written since the render on the screen is not forgotten.
Noticed ==
  phase = "mounted" /\ settled =>
    \A k \in DOMAIN committed :
      HasDrift(committed[k].source, committed[k].baseline, committed[k].reads) =>
        updating \/ (work # None /\ work.took) \/ <<committed[k].source, Uid(k)>> \in queued

IInv == StoresOK /\ ComponentOK /\ Registered /\ Described /\ Noticed

-----------------------------------------------------------------------------
(***************************************************************************)
(* Slots, reads and entries.                                               *)
(***************************************************************************)
LEMMA Slotted ==
  /\ \A s \in Stores, uid \in Uids : SlotAt(s, uid) \in Slots /\ Uid(SlotAt(s, uid)) = uid
  /\ \A k \in Slots : Uid(k) \in Uids
  /\ \A s \in Stores, k \in Slots : (k \in Stores => k = s) => k = SlotAt(s, Uid(k))
BY ComponentAssumption DEF SlotAt, Uid, Slots, Uids

LEMMA ReadsType ==
  \A s, uid : ReadsOf(s, uid) \in (SUBSET Places) \ {{}}
BY DEF ReadsOf, Behind, Places

LEMMA PropsType ==
  \A p \in Props : Source[p] \in Stores /\ Uses[p] \subseteq Uids /\ SlotsOf(p) \subseteq Slots
BY ComponentAssumption, Slotted DEF SlotsOf, Uids

\* What a render records describes what it read, and the store has not moved.
LEMMA EntriesLemma ==
  ASSUME StoresOK, NEW p \in Props
  PROVE  /\ Describes(Entries(p))
         /\ DOMAIN Entries(p) = SlotsOf(p)
         /\ \A k \in SlotsOf(p) : /\ Entries(p)[k].source = Source[p]
                                  /\ Entries(p)[k].reads = ReadsOf(Source[p], Uid(k))
                                  /\ Uid(k) \in Uses[p]
<1>1. /\ Source[p] \in Stores /\ SlotsOf(p) \subseteq Slots /\ version[Source[p]] \in Nat
      /\ \A k \in SlotsOf(p) : Uid(k) \in Uses[p] /\ (k \in Stores => k = Source[p])
  BY PropsType, Slotted, ComponentAssumption DEF SlotsOf, StoresOK, SlotAt
<1>2. \A k \in SlotsOf(p) : ReadsOf(Source[p], Uid(k)) \in (SUBSET Places) \ {{}}
  BY ReadsType
<1>3. Entries(p) \in [SlotsOf(p) -> Description]
  BY <1>1, <1>2 DEF Entries, Description
<1>4. Describes(Entries(p))
  BY <1>1, <1>3 DEF Entries, Describes
<1>. QED  BY <1>1, <1>4 DEF Entries

-----------------------------------------------------------------------------
(***************************************************************************)
(* Registrations follow the handles.                                       *)
(***************************************************************************)
LEMMA CommitLemma ==
  ASSUME Registered, ComponentOK, CommitSubscriptions, phase' = "mounted"
  PROVE  Registered'
<1>. DEFINE d == Descriptions
<1>1. Describes(d)
  BY DEF ComponentOK, Descriptions
<1>2. installed' = Handles(d) /\ committed' = d
  BY DEF CommitSubscriptions
<1>3. \A r \in Registrations :
        /\ Holds(Handles(d), r) <=> Holds(d, r)
        /\ Holds(d, r) => ReadsAt(Handles(d), r) = ReadsAt(d, r)
  BY DEF Holds, Handles, ReadsAt
<1>. HIDE DEF d
<1>4. Refile(Left(d), Resubscribed(d))
  BY DEF CommitSubscriptions, d
<1>5. \A r \in Registrations :
        registered'[r] = IF Holds(d, r) THEN ReadsAt(d, r) ELSE {}
  BY <1>4 DEF Refile, Left, Resubscribed, Registered
<1>6. registered' = [r \in Registrations |-> IF Holds(Handles(d), r) THEN ReadsAt(Handles(d), r) ELSE {}]
  BY <1>3, <1>4, <1>5 DEF Refile
<1>7. queued' \subseteq {r \in Registrations : Holds(Handles(d), r)}
  BY <1>3, <1>4 DEF Refile, Left, Resubscribed, Registered
<1>. QED  BY <1>2, <1>6, <1>7 DEF Registered, Handles, Holds, ReadsAt

LEMMA ReleaseLemma ==
  ASSUME Registered, ReleaseSubscriptions, phase' # "mounted"
  PROVE  Registered'
<1>1. registered' = [r \in Registrations |-> {}] /\ queued' = {}
  BY DEF ReleaseSubscriptions, Refile, Registered
<1>2. \A r : ~Holds(<<>>, r)
  BY DEF Holds
<1>. QED  BY <1>1, <1>2 DEF Registered, ReleaseSubscriptions, Holds


-----------------------------------------------------------------------------
(***************************************************************************)
(* The stores change.                                                      *)
(***************************************************************************)
LEMMA MutateLemma ==
  ASSUME IInv, NEW s \in Stores, NEW p \in Places, Mutate(s, p)
  PROVE  IInv'
<1>. USE DEF IInv
<1>1. /\ data' = [data EXCEPT ![s][p] = 1 - @]
      /\ unpublished' = [unpublished EXCEPT ![s] = @ \cup {p}]
      /\ UNCHANGED <<version, lastWrite, reactVars, slotVars>>
  BY DEF Mutate
<1>2. StoresOK'
  BY <1>1 DEF StoresOK
<1>3. ComponentOK' /\ Registered' /\ Noticed'
  BY <1>1 DEF ComponentOK, Describes, Fresh, Registered, Noticed, HasDrift, reactVars, slotVars
<1>4. ASSUME NEW f, NEW r, IsOf(f, r)
      PROVE  IsOf(f, r)'
  <2>1. \A k \in DOMAIN f : f[k].source \in Stores
    BY <1>4, PropsType DEF IsOf
  <2>2. ASSUME NEW t \in Stores, NEW uid
        PROVE  \/ ReadsOf(t, uid)' = ReadsOf(t, uid) /\ ValueOf(t, uid)' = ValueOf(t, uid)
               \/ ReadsOf(t, uid) \cap unpublished'[t] # {}
    <3>1. CASE t = s /\ p \in ReadsOf(t, uid)
      BY <1>1, <3>1 DEF StoresOK
    <3>2. CASE ~(t = s /\ p \in ReadsOf(t, uid))
      <4>1. \A q \in ReadsOf(t, uid) : data'[t][q] = data[t][q]
        BY <1>1, <3>2, ReadsType DEF StoresOK
      <4>2. "gate" \in ReadsOf(t, uid) /\ (uid # "tracked" => Behind(t) \in ReadsOf(t, uid))
        BY DEF ReadsOf
      <4>. QED  BY <4>1, <4>2 DEF ReadsOf, ValueOf, Behind
    <3>. QED  BY <3>1, <3>2
  <2>3. \A t \in Stores : unpublished[t] \subseteq unpublished'[t] /\ lastWrite'[t] = lastWrite[t]
    BY <1>1 DEF StoresOK
  <2>4. ASSUME NEW k \in DOMAIN f
        PROVE  \/ f[k].reads = ReadsOf(f[k].source, Uid(k))' /\ r.output[Uid(k)] = ValueOf(f[k].source, Uid(k))'
               \/ f[k].reads \cap unpublished'[f[k].source] # {}
               \/ HasDrift(f[k].source, f[k].baseline, f[k].reads)'
    <3>. DEFINE t == f[k].source
    <3>1. t \in Stores
      BY <2>1
    <3>2. /\ \/ f[k].reads = ReadsOf(t, Uid(k)) /\ r.output[Uid(k)] = ValueOf(t, Uid(k))
             \/ f[k].reads \cap unpublished[t] # {}
             \/ HasDrift(t, f[k].baseline, f[k].reads)
      BY <1>4 DEF IsOf
    <3>3. HasDrift(t, f[k].baseline, f[k].reads) => HasDrift(t, f[k].baseline, f[k].reads)'
      BY <2>3, <3>1 DEF HasDrift
    <3>. HIDE DEF t
    <3>. QED  BY <2>2, <2>3, <3>1, <3>2, <3>3 DEF t
  <2>. QED  BY <1>4, <2>4 DEF IsOf
<1>5. Described'
  BY <1>1, <1>4 DEF Described, Fresh, IsSnapshotOf, reactVars, slotVars
<1>. QED  BY <1>2, <1>3, <1>5

\* Callbacks, once the stores have moved: Drifted says for what reason a slot
\* may have been written since.
LEMMA CalledLemma ==
  ASSUME IInv, StoresOK', NEW s \in Stores, NEW called,
         called \subseteq {r \in {s} \X Uids : Holds(installed, r)},
         Called(s, called, version'[s]),
         data' = data, UNCHANGED <<phase, work, shown, attempt, snapshot, settled>>,
         \A f : Describes(f) => Describes(f)',
         \A f, r : Describes(f) /\ IsOf(f, r) => IsOf(f, r)',
         phase = "mounted" =>
           \A k \in DOMAIN committed :
             (\E p \in committed[k].reads : lastWrite'[committed[k].source][p] > committed[k].baseline) =>
               HasDrift(committed[k].source, committed[k].baseline, committed[k].reads)
                 \/ <<committed[k].source, Uid(k)>> \in called
  PROVE  IInv'
<1>. DEFINE selected == <<s, "selection">>
            moved == selected \in called /\ Unmoved(s)
            reads == ReadsOf(s, "selection")
<1>1. reads \in (SUBSET Places) \ {{}} /\ reads' = reads /\ ValueOf(s, "selection")' = ValueOf(s, "selection")
  BY ReadsType DEF ReadsOf, ValueOf, Behind
<1>2. /\ updating' = (updating \/ <<s, "tracked">> \in called \/ (selected \in called /\ ~Unmoved(s)))
      /\ queued' = queued \ called
      /\ ~moved => UNCHANGED <<committed, installed, registered>>
      /\ moved => /\ committed' = [committed EXCEPT ![Connection] = [source |-> s, baseline |-> version'[s], reads |-> reads]]
                  /\ installed' = [installed EXCEPT ![Connection].reads = reads]
                  /\ registered' = [registered EXCEPT ![selected] = reads]
  BY DEF Called
<1>3. \A r \in called : r = <<s, "tracked">> \/ r = selected
  BY DEF Uids
<1>4. Describes(committed) /\ (Fresh => Describes(attempt.entries)) /\ Fresh' = Fresh
  BY DEF IInv, ComponentOK, Fresh
<1>. HIDE DEF selected, moved, reads
<1>5. CASE ~moved
  <2>1. UNCHANGED <<committed, installed, registered>> /\ (called # {} => updating')
    BY <1>2, <1>3, <1>5 DEF moved
  <2>2. ComponentOK'
    BY <1>2, <1>4, <2>1 DEF IInv, ComponentOK
  <2>3. Registered'
    BY <1>2, <2>1 DEF IInv, Registered
  <2>4. Described'
    BY <1>4, <2>1 DEF IInv, Described, IsSnapshotOf
  <2>5. Noticed'
    BY <1>2, <2>1 DEF IInv, Noticed, HasDrift
  <2>. QED  BY <2>2, <2>3, <2>4, <2>5 DEF IInv
<1>6. CASE moved
  <2>1. /\ selected \in called /\ Connection \in DOMAIN committed /\ committed[Connection].source = s
        /\ attempt.state = "consumed" /\ ValueOf(s, "selection") = snapshot
    BY <1>6 DEF moved, Unmoved
  <2>2. /\ Holds(installed, selected) /\ selected \in Registrations
        /\ Uid(Connection) = "selection" /\ SlotAt(s, "selection") = Connection
    BY <2>1 DEF selected, Registrations, Uid, SlotAt, Uids
  <2>3. phase = "mounted" /\ installed = Handles(committed)
    BY <2>2 DEF IInv, Registered, Holds
  <2>4. /\ DOMAIN committed' = DOMAIN committed
        /\ committed'[Connection] = [source |-> s, baseline |-> version'[s], reads |-> reads]
        /\ \A k \in DOMAIN committed : k # Connection => committed'[k] = committed[k]
        /\ committed' \in [DOMAIN committed -> Description]
    <3>1. committed \in [DOMAIN committed -> Description] /\ version'[s] \in Nat
      BY <1>4 DEF Describes, StoresOK
    <3>. QED  BY <1>1, <1>2, <1>6, <2>1, <3>1 DEF Description
  <2>5. Describes(committed)'
    <3>1. Describes(committed)' <=>
            /\ committed' \in [DOMAIN committed' -> Description]
            /\ DOMAIN committed' \subseteq Slots
            /\ \A k \in DOMAIN committed' : /\ k \in Stores => committed'[k].source = k
                                            /\ committed'[k].baseline <= version'[committed'[k].source]
      BY DEF Describes
    <3>2. \A k \in DOMAIN committed : /\ k \in Stores => committed[k].source = k
                                      /\ committed[k].baseline <= version'[committed[k].source]
      BY <1>4 DEF Describes
    <3>3. Connection \notin Stores /\ version'[s] <= version'[s]
      BY ComponentAssumption DEF StoresOK
    <3>. QED  BY <1>4, <2>4, <3>1, <3>2, <3>3 DEF Describes
  <2>6. ComponentOK'
    BY <1>2, <1>4, <2>5 DEF IInv, ComponentOK
  <2>7. installed' = Handles(committed)'
    <3>1. installed' = [installed EXCEPT ![Connection] = [source |-> s, reads |-> reads]]
      BY <1>2, <1>6, <2>1, <2>3 DEF Handles
    <3>. QED  BY <2>1, <2>3, <2>4, <3>1 DEF Handles
  <2>8. \A r \in Registrations : Holds(installed', r) <=> Holds(installed, r)
    <3>1. \A k \in DOMAIN committed : committed'[k].source = committed[k].source
      BY <2>1, <2>4
    <3>. QED  BY <2>3, <2>4, <2>7, <3>1 DEF Holds, Handles
  <2>9. \A r \in Registrations : Holds(installed, r) =>
          ReadsAt(installed', r) = IF r = selected THEN reads ELSE ReadsAt(installed, r)
    <3>. TAKE r \in Registrations
    <3>. HAVE Holds(installed, r)
    <3>1. CASE SlotAt(r[1], r[2]) = Connection
      <4>1. r = selected
        BY <2>1, <2>3, <3>1, ComponentAssumption DEF Registrations, Uids, Holds, Handles, selected, SlotAt
      <4>. QED  BY <2>1, <2>2, <2>4, <2>7, <4>1 DEF ReadsAt, Handles, selected
    <3>2. CASE SlotAt(r[1], r[2]) # Connection
      BY <2>2, <2>3, <2>4, <2>7, <3>2 DEF ReadsAt, Handles, Holds, selected
    <3>. QED  BY <3>1, <3>2
  <2>10. registered' = [r \in Registrations |-> IF Holds(installed', r) THEN ReadsAt(installed', r) ELSE {}]
    BY <1>2, <1>6, <2>2, <2>8, <2>9 DEF IInv, Registered
  <2>11. Registered'
    BY <1>2, <2>3, <2>7, <2>8, <2>10 DEF IInv, Registered, Holds, ReadsAt, Handles
  <2>12. settled => IsOf(committed, shown)'
    <3>. HAVE settled
    <3>1. IsOf(committed, shown) /\ IsSnapshotOf(shown)
      BY <2>1 DEF IInv, Described
    <3>2. \A f, r : f = committed /\ r = shown => IsOf(f, r)'
      BY <1>4, <3>1
    <3>3. "selection" \in Uses[shown.props]
      BY <2>1, <3>1, PropsType, ComponentAssumption DEF IsOf, SlotsOf, SlotAt, Uids
    <3>4. shown.output["selection"] = ValueOf(s, "selection")'
      BY <1>1, <2>1, <3>1, <3>3 DEF IsSnapshotOf
    <3>5. committed'[Connection].reads = ReadsOf(s, "selection")' /\ committed'[Connection].source = s
      BY <1>1, <2>4 DEF reads
    <3>6. /\ shown.props \in Props
          /\ DOMAIN committed' = SlotsOf(shown.props)
          /\ shown.output = [uid \in Uses[shown.props] |-> shown.output[uid]]
          /\ \A k \in DOMAIN committed' : committed'[k].source = Source[shown.props]
      BY <2>1, <2>4, <3>1, <3>5 DEF IsOf
    <3>7. \A k \in DOMAIN committed : committed[k].source = s
      BY <2>1, <3>1 DEF IsOf
    <3>8. \A k \in DOMAIN committed :
            \/ committed[k].reads = ReadsOf(s, Uid(k))' /\ shown.output[Uid(k)] = ValueOf(s, Uid(k))'
            \/ committed[k].reads \cap unpublished'[s] # {}
            \/ \E p \in committed[k].reads : lastWrite'[s][p] > committed[k].baseline
      <4>1. PICK f, r : f = committed /\ r = shown
        OBVIOUS
      <4>2. IsOf(f, r)'
        BY <3>2, <4>1
      <4>3. \A k \in DOMAIN f : f[k].source = s
        BY <3>7, <4>1
      <4>4. \A k \in DOMAIN f :
              \/ f[k].reads = ReadsOf(s, Uid(k))' /\ r.output[Uid(k)] = ValueOf(s, Uid(k))'
              \/ f[k].reads \cap unpublished'[s] # {}
              \/ \E p \in f[k].reads : lastWrite'[s][p] > f[k].baseline
        BY <4>2, <4>3 DEF IsOf, HasDrift
      <4>. QED  BY <4>1, <4>4
    <3>9. \A k \in DOMAIN committed' :
            \/ committed'[k].reads = ReadsOf(s, Uid(k))' /\ shown.output[Uid(k)] = ValueOf(s, Uid(k))'
            \/ committed'[k].reads \cap unpublished'[s] # {}
            \/ \E p \in committed'[k].reads : lastWrite'[s][p] > committed'[k].baseline
      BY <2>2, <2>4, <3>4, <3>5, <3>8
    <3>10. s = Source[shown.props]
      BY <3>5, <3>6, <2>1, <2>4
    <3>. QED  BY <3>6, <3>9, <3>10 DEF IsOf, HasDrift
  <2>13. Described'
    BY <1>4, <2>12 DEF IInv, Described, IsSnapshotOf
  <2>14. Noticed'
    <3>1. SUFFICES ASSUME settled, NEW k \in DOMAIN committed,
                          \E p \in committed'[k].reads : lastWrite'[committed'[k].source][p] > committed'[k].baseline
                   PROVE  updating' \/ (work # None /\ work.took) \/ <<committed'[k].source, Uid(k)>> \in queued'
      BY <2>4 DEF Noticed, HasDrift
    <3>2. k # Connection
      BY <1>1, <2>4, <3>1 DEF StoresOK
    <3>3. committed'[k] = committed[k] /\ committed[k].source = k /\ Uid(k) = "tracked"
      BY <1>4, <2>4, <3>2 DEF Describes, Slots, Uid
    <3>4. updating \/ (work # None /\ work.took) \/ <<committed[k].source, Uid(k)>> \in queued \cup called
      BY <2>3, <3>1, <3>3 DEF IInv, Noticed
    <3>5. <<k, "tracked">> \in called => updating'
      <4>1. <<k, "tracked">> # selected
        BY DEF selected
      <4>. QED  BY <1>2, <1>3, <4>1
    <3>. QED  BY <1>2, <3>3, <3>4, <3>5
  <2>. QED  BY <2>6, <2>11, <2>13, <2>14 DEF IInv
<1>. QED  BY <1>5, <1>6

LEMMA PublishLemma ==
  ASSUME IInv, NEW s \in Stores, Publish(s)
  PROVE  IInv'
<1>. DEFINE matched == {r \in {s} \X Uids : registered[r] \cap unpublished[s] # {}}
<1>1. /\ version' = [version EXCEPT ![s] = @ + 1]
      /\ lastWrite' = [lastWrite EXCEPT ![s] = [p \in Places |-> IF p \in unpublished[s] THEN version[s] + 1 ELSE @[p]]]
      /\ unpublished' = [unpublished EXCEPT ![s] = {}]
      /\ UNCHANGED <<data, phase, work, shown, attempt, snapshot, settled>>
      /\ IF s \in Deferred
           THEN queued' = queued \cup matched /\ UNCHANGED <<updating, committed, installed, registered>>
           ELSE Called(s, matched, version[s] + 1)
  BY DEF Publish
<1>2. StoresOK /\ ComponentOK /\ Registered /\ Described /\ Noticed
  BY DEF IInv
<1>3. /\ \A t \in Stores : t # s => /\ version'[t] = version[t] /\ lastWrite'[t] = lastWrite[t]
                                    /\ unpublished'[t] = unpublished[t]
      /\ version'[s] = version[s] + 1 /\ version[s] \in Nat /\ unpublished'[s] = {}
      /\ \A p \in Places : lastWrite'[s][p] = IF p \in unpublished[s] THEN version[s] + 1 ELSE lastWrite[s][p]
  BY <1>1, <1>2 DEF StoresOK
<1>4. StoresOK'
  <2>1. /\ data' \in [Stores -> [Places -> 0..1]] /\ version' \in [Stores -> Nat]
        /\ lastWrite' \in [Stores -> [Places -> Nat]] /\ unpublished' \in [Stores -> SUBSET Places]
    BY <1>1, <1>2 DEF StoresOK
  <2>2. \A t \in Stores, p \in Places : lastWrite'[t][p] <= version'[t]
    BY <1>2, <1>3 DEF StoresOK
  <2>. QED  BY <2>1, <2>2 DEF StoresOK
<1>5. ASSUME NEW f, Describes(f)
      PROVE  Describes(f)'
  <2>1. \A k \in DOMAIN f : f[k].source \in Stores /\ f[k].baseline \in Nat
    BY <1>5 DEF Describes, Description
  <2>2. \A t \in Stores : version[t] <= version'[t] /\ version[t] \in Nat /\ version'[t] \in Nat
    BY <1>2, <1>3 DEF StoresOK
  <2>. QED  BY <1>5, <2>1, <2>2 DEF Describes
<1>6. \A t \in Stores, p \in Places : lastWrite[t][p] <= lastWrite'[t][p] /\ lastWrite[t][p] \in Nat /\ lastWrite'[t][p] \in Nat
  <2>1. \A t \in Stores, p \in Places : lastWrite[t][p] \in Nat /\ lastWrite[t][p] <= version[t]
    BY <1>2 DEF StoresOK
  <2>2. \A t \in Stores, p \in Places : t # s => lastWrite'[t][p] = lastWrite[t][p]
    BY <1>3
  <2>3. \A p \in Places : lastWrite'[s][p] = version[s] + 1 \/ lastWrite'[s][p] = lastWrite[s][p]
    BY <1>3
  <2>. QED  BY <1>3, <2>1, <2>2, <2>3
<1>7. ASSUME NEW f, NEW r, Describes(f), IsOf(f, r)
      PROVE  IsOf(f, r)'
  <2>1. ASSUME NEW k \in DOMAIN f
        PROVE  \/ f[k].reads = ReadsOf(f[k].source, Uid(k))' /\ r.output[Uid(k)] = ValueOf(f[k].source, Uid(k))'
               \/ f[k].reads \cap unpublished'[f[k].source] # {}
               \/ HasDrift(f[k].source, f[k].baseline, f[k].reads)'
    <3>. DEFINE t == f[k].source
    <3>1. t \in Stores /\ f[k].baseline \in Nat /\ f[k].baseline <= version[t] /\ f[k].reads \subseteq Places
      BY <1>7 DEF Describes, Description
    <3>2. \/ f[k].reads = ReadsOf(t, Uid(k)) /\ r.output[Uid(k)] = ValueOf(t, Uid(k))
          \/ f[k].reads \cap unpublished[t] # {}
          \/ HasDrift(t, f[k].baseline, f[k].reads)
      BY <1>7 DEF IsOf
    <3>. HIDE DEF t
    <3>3. CASE f[k].reads = ReadsOf(t, Uid(k)) /\ r.output[Uid(k)] = ValueOf(t, Uid(k))
      BY <1>1, <3>3 DEF ReadsOf, ValueOf, Behind, t
    <3>4. CASE f[k].reads \cap unpublished[t] # {}
      BY <1>3, <3>1, <3>4 DEF HasDrift, t
    <3>5. CASE HasDrift(t, f[k].baseline, f[k].reads)
      BY <1>6, <3>1, <3>5 DEF HasDrift, t
    <3>. QED  BY <3>2, <3>3, <3>4, <3>5
  <2>. QED  BY <1>7, <2>1 DEF IsOf
\* What drifts now was matched, or had drifted before.
<1>8. ASSUME NEW k \in DOMAIN committed, phase = "mounted",
             \E p \in committed[k].reads : lastWrite'[committed[k].source][p] > committed[k].baseline
      PROVE  HasDrift(committed[k].source, committed[k].baseline, committed[k].reads)
               \/ <<committed[k].source, Uid(k)>> \in matched
  <2>1. /\ committed[k].source \in Stores /\ committed[k].reads \subseteq Places
        /\ k \in Slots /\ (k \in Stores => k = committed[k].source)
    BY <1>2 DEF ComponentOK, Describes, Description
  <2>2. <<committed[k].source, Uid(k)>> \in Registrations /\ SlotAt(committed[k].source, Uid(k)) = k
    BY <2>1, Slotted DEF Registrations
  <2>3. registered[<<committed[k].source, Uid(k)>>] = committed[k].reads
    BY <1>2, <1>8, <2>2 DEF Registered, Holds, ReadsAt, Handles
  <2>. QED  BY <1>3, <1>8, <2>1, <2>2, <2>3 DEF HasDrift, Registrations
<1>9. matched \subseteq {r \in {s} \X Uids : Holds(installed, r)}
  BY <1>2 DEF Registered, Registrations
<1>. HIDE DEF matched
<1>10. CASE s \in Deferred
  <2>1. queued' = queued \cup matched /\ UNCHANGED <<updating, committed, installed, registered>>
    BY <1>1, <1>10
  <2>2. ComponentOK'
    BY <1>1, <1>2, <1>5, <2>1 DEF ComponentOK, Fresh
  <2>3. Registered'
    BY <1>1, <1>2, <1>9, <2>1 DEF Registered, Registrations
  <2>4. Described'
    BY <1>1, <1>2, <1>7, <2>1 DEF Described, ComponentOK, Fresh, IsSnapshotOf
  <2>5. Noticed'
    BY <1>1, <1>2, <1>8, <2>1 DEF Noticed, HasDrift
  <2>. QED  BY <1>4, <2>2, <2>3, <2>4, <2>5 DEF IInv
<1>11. CASE s \notin Deferred
  <2>1. Called(s, matched, version'[s])
    BY <1>1, <1>3, <1>11
  <2>2. phase = "mounted" =>
          \A k \in DOMAIN committed :
            (\E p \in committed[k].reads : lastWrite'[committed[k].source][p] > committed[k].baseline) =>
              HasDrift(committed[k].source, committed[k].baseline, committed[k].reads)
                \/ <<committed[k].source, Uid(k)>> \in matched
    BY <1>8
  <2>. QED  BY <1>1, <1>4, <1>5, <1>7, <1>9, <2>1, <2>2, CalledLemma
<1>. QED  BY <1>10, <1>11

LEMMA RunQueuedLemma ==
  ASSUME IInv, NEW s \in Stores, NEW uid \in Uids, RunQueued(s, uid)
  PROVE  IInv'
<1>. DEFINE called == {<<s, uid>>}
<1>1. /\ <<s, uid>> \in queued
      /\ Called(s, called, version'[s])
      /\ UNCHANGED <<data, version, lastWrite, unpublished, phase, work, shown, attempt, snapshot, settled>>
  BY DEF RunQueued, storeVars
<1>2. StoresOK'
  BY <1>1 DEF IInv, StoresOK
<1>3. called \subseteq {r \in {s} \X Uids : Holds(installed, r)}
  BY <1>1 DEF IInv, Registered
<1>4. \A f : Describes(f) => Describes(f)'
  BY <1>1 DEF Describes
<1>5. \A f, r : Describes(f) /\ IsOf(f, r) => IsOf(f, r)'
  BY <1>1 DEF IsOf, HasDrift, ReadsOf, ValueOf, Behind
<1>6. \A k \in DOMAIN committed :
        (\E p \in committed[k].reads : lastWrite'[committed[k].source][p] > committed[k].baseline) =>
          HasDrift(committed[k].source, committed[k].baseline, committed[k].reads)
            \/ <<committed[k].source, Uid(k)>> \in called
  BY <1>1 DEF HasDrift
<1>. HIDE DEF called
<1>. QED  BY <1>1, <1>2, <1>3, <1>4, <1>5, <1>6, CalledLemma

-----------------------------------------------------------------------------
(***************************************************************************)
(* React renders, commits, hides and shows.                                *)
(***************************************************************************)
\* While no store moves, descriptions and snapshots stay what they are.
LEMMA StillLemma ==
  ASSUME UNCHANGED storeVars
  PROVE  /\ StoresOK => StoresOK'
         /\ \A f : Describes(f)' <=> Describes(f)
         /\ \A f, r : IsOf(f, r)' <=> IsOf(f, r)
         /\ \A t, since, reads : HasDrift(t, since, reads)' <=> HasDrift(t, since, reads)
BY DEF storeVars, StoresOK, Describes, IsOf, HasDrift, ReadsOf, ValueOf, Behind

\* Described goes by what it names: it stays while that does, or work is gone.
LEMMA StillDescribed ==
  ASSUME Described, UNCHANGED <<storeVars, committed, shown, attempt, snapshot, settled>>,
         work' = None \/ work' = work
  PROVE  Described'
<1>1. /\ IsOf(committed, shown)' <=> IsOf(committed, shown)
      /\ IsSnapshotOf(shown)' <=> IsSnapshotOf(shown)
      /\ Fresh' <=> Fresh
  BY DEF IsOf, IsSnapshotOf, Fresh, storeVars, ReadsOf, ValueOf, Behind, HasDrift
<1>2. IsOf(attempt.entries, shown)' <=> IsOf(attempt.entries, shown)
  BY DEF IsOf, storeVars, ReadsOf, ValueOf, Behind, HasDrift
<1>3. work' # None => /\ IsOf(attempt.entries, work)' <=> IsOf(attempt.entries, work)
                      /\ IsSnapshotOf(work)' <=> IsSnapshotOf(work)
                      /\ work # None
  BY DEF IsOf, IsSnapshotOf, storeVars, ReadsOf, ValueOf, Behind, HasDrift
<1>. QED  BY <1>1, <1>2, <1>3 DEF Described

LEMMA OutputLemma ==
  ASSUME StoresOK, NEW p \in Props
  PROVE  /\ Output(p) \in [Uses[p] -> 0..1]
         /\ \A uid \in Uses[p] : Output(p)[uid] = ValueOf(Source[p], uid)
         /\ \A took \in BOOLEAN : [props |-> p, output |-> Output(p), took |-> took] # None
<1>1. \A uid \in Uses[p] : ValueOf(Source[p], uid) \in 0..1
  BY PropsType DEF StoresOK, ValueOf, Behind, Places
<1>2. Output(p) \in [Uses[p] -> 0..1] /\ \A uid \in Uses[p] : Output(p)[uid] = ValueOf(Source[p], uid)
  BY <1>1 DEF Output
<1>3. Output(p) \in UNION {[ways -> 0..1] : ways \in SUBSET {"tracked", "selection"}}
  BY <1>2, PropsType DEF Uids
<1>. QED  BY <1>2, <1>3, ComponentAssumption

LEMMA RenderLemma ==
  ASSUME IInv, NEW p \in Props, Render(p)
  PROVE  IInv'
<1>1. /\ attempt' = [state |-> "fresh", props |-> p, entries |-> Entries(p), onScreen |-> FALSE]
      /\ snapshot' = IF "selection" \in Uses[p] THEN ValueOf(Source[p], "selection") ELSE snapshot
      /\ work' = [props |-> p, output |-> Output(p), took |-> updating]
      /\ updating' = FALSE
      /\ UNCHANGED <<storeVars, registered, queued, committed, installed, phase, shown, settled>>
  BY DEF Render, slotVars
<1>2. StoresOK /\ ComponentOK /\ Registered /\ Described /\ Noticed
  BY DEF IInv
<1>3. /\ StoresOK'
      /\ \A f : Describes(f)' <=> Describes(f)
      /\ \A f, r : IsOf(f, r)' <=> IsOf(f, r)
      /\ \A t, since, reads : HasDrift(t, since, reads)' <=> HasDrift(t, since, reads)
  BY <1>1, <1>2, StillLemma
<1>4. Describes(Entries(p)) /\ DOMAIN Entries(p) = SlotsOf(p)
  BY <1>2, EntriesLemma
<1>5. work' # None /\ work'.props = p /\ work'.output = Output(p) /\ work'.took = updating
  BY <1>1, <1>2, OutputLemma DEF ComponentOK
<1>6. ASSUME NEW r, r.props = p, r.output = Output(p)
      PROVE  IsOf(Entries(p), r)
  <2>1. r.output = [uid \in Uses[r.props] |-> r.output[uid]]
    BY <1>6 DEF Output
  <2>2. \A k \in SlotsOf(p) : /\ Entries(p)[k].source = Source[p]
                              /\ Entries(p)[k].reads = ReadsOf(Source[p], Uid(k))
                              /\ r.output[Uid(k)] = ValueOf(Source[p], Uid(k))
    BY <1>2, <1>6, EntriesLemma, OutputLemma
  <2>. QED  BY <1>4, <1>6, <2>1, <2>2 DEF IsOf
<1>7. ComponentOK'
  <2>1. Describes(committed)' /\ Describes(attempt.entries)'
    BY <1>1, <1>2, <1>3, <1>4 DEF ComponentOK, Describes, storeVars
  <2>. QED  BY <1>1, <1>2, <2>1 DEF ComponentOK
<1>8. Registered'
  BY <1>1, <1>2 DEF Registered
<1>9. Described'
  <2>1. settled' => IsOf(committed, shown)'
    BY <1>1, <1>2, <1>3 DEF Described, IsOf, storeVars, ReadsOf, ValueOf, Behind, HasDrift
  <2>2. IsOf(attempt.entries, work)'
    <3>1. \A f, r : f = Entries(p) /\ r.props = p /\ r.output = Output(p) => IsOf(f, r)'
      BY <1>3, <1>6
    <3>2. attempt'.entries = Entries(p)
      BY <1>1
    <3>3. PICK f, r : f = attempt'.entries /\ r = work'
      OBVIOUS
    <3>4. IsOf(f, r)'
      BY <1>5, <3>1, <3>2, <3>3
    <3>. QED  BY <3>3, <3>4 DEF IsOf
  <2>3. IsSnapshotOf(work)'
    BY <1>1, <1>2, <1>5, OutputLemma DEF IsSnapshotOf
  <2>4. attempt'.state = "fresh" /\ attempt'.onScreen = FALSE
    BY <1>1
  <2>. QED  BY <2>1, <2>2, <2>3, <2>4 DEF Described, Fresh
<1>10. Noticed'
  <2>1. UNCHANGED <<lastWrite, phase, settled, committed, queued>>
    BY <1>1 DEF storeVars
  <2>2. updating => work' # None /\ work'.took
    BY <1>5
  <2>3. work = None
    BY DEF Render
  <2>. QED  BY <1>2, <2>1, <2>2, <2>3 DEF Noticed, HasDrift
<1>. QED  BY <1>3, <1>7, <1>8, <1>9, <1>10 DEF IInv

LEMMA RenderThrowsLemma ==
  ASSUME IInv, NEW p \in Props, RenderThrows(p)
  PROVE  IInv'
<1>1. /\ attempt' = [state |-> "abandoned", props |-> p, entries |-> <<>>, onScreen |-> FALSE]
      /\ work = None
      /\ UNCHANGED <<storeVars, registered, queued, committed, installed, phase, updating, work, shown, settled>>
  BY DEF RenderThrows, slotVars
<1>2. StoresOK /\ ComponentOK /\ Registered /\ Described /\ Noticed
  BY DEF IInv
<1>3. StoresOK' /\ Registered'
  BY <1>1, <1>2 DEF StoresOK, Registered, storeVars
<1>4. ComponentOK'
  BY <1>1, <1>2 DEF ComponentOK, Describes, Fresh, storeVars
<1>5. Described'
  BY <1>1, <1>2 DEF Described, Fresh, IsOf, storeVars, ReadsOf, ValueOf, Behind, HasDrift
<1>6. Noticed'
  BY <1>1, <1>2 DEF Noticed, HasDrift, storeVars
<1>. QED  BY <1>3, <1>4, <1>5, <1>6 DEF IInv

LEMMA DiscardLemma ==
  ASSUME IInv, Discard
  PROVE  IInv'
<1>1. /\ work # None /\ work' = None
      /\ updating' = (updating \/ work.took)
      /\ UNCHANGED <<storeVars, registered, queued, committed, installed, phase, shown, attempt, snapshot, settled>>
  BY DEF Discard, slotVars
<1>2. StoresOK /\ ComponentOK /\ Registered /\ Described /\ Noticed
  BY DEF IInv
<1>3. StoresOK' /\ Registered'
  BY <1>1, <1>2 DEF StoresOK, Registered, storeVars
<1>4. ComponentOK'
  BY <1>1, <1>2 DEF ComponentOK, Describes, Fresh, storeVars
<1>5. Described'
  BY <1>1, <1>2, StillDescribed
<1>6. Noticed'
  BY <1>1, <1>2 DEF Noticed, HasDrift, storeVars
<1>. QED  BY <1>3, <1>4, <1>5, <1>6 DEF IInv

LEMMA CommitHiddenLemma ==
  ASSUME IInv, CommitHidden
  PROVE  IInv'
<1>1. /\ phase # "mounted" /\ phase' = "hidden" /\ work # None
      /\ shown' = [props |-> work.props, output |-> work.output] /\ work' = None
      /\ attempt' = [attempt EXCEPT !.onScreen = TRUE]
      /\ settled' = FALSE
      /\ UNCHANGED <<storeVars, registered, queued, committed, installed, updating, snapshot>>
  BY DEF CommitHidden, Show, slotVars
<1>2. StoresOK /\ ComponentOK /\ Registered /\ Described /\ Noticed
  BY DEF IInv
<1>3. StoresOK' /\ Registered'
  BY <1>1, <1>2 DEF StoresOK, Registered, storeVars
<1>4. attempt' = [state |-> attempt.state, props |-> attempt.props, entries |-> attempt.entries, onScreen |-> TRUE]
  BY <1>1, <1>2 DEF ComponentOK
<1>5. ComponentOK'
  BY <1>1, <1>2, <1>4 DEF ComponentOK, Describes, Fresh, storeVars
<1>6. Described'
  <2>1. IsOf(attempt.entries, work) /\ IsSnapshotOf(work)
    BY <1>1, <1>2 DEF Described
  <2>2. IsOf(attempt.entries, shown)'
    BY <1>1, <1>4, <2>1 DEF IsOf, storeVars, ReadsOf, ValueOf, Behind, HasDrift
  <2>3. IsSnapshotOf(shown)'
    BY <1>1, <2>1 DEF IsSnapshotOf
  <2>. QED  BY <1>1, <2>2, <2>3 DEF Described
<1>7. Noticed'
  BY <1>1 DEF Noticed
<1>. QED  BY <1>3, <1>5, <1>6, <1>7 DEF IInv

LEMMA ReleaseStepLemma ==
  ASSUME IInv, Hide \/ Unmount
  PROVE  IInv'
<1>1. /\ phase' \in {"hidden", "gone"} /\ (work' = None \/ work' = work)
      /\ ReleaseSubscriptions
      /\ UNCHANGED <<storeVars, committed, updating, shown, attempt, snapshot, settled>>
  BY DEF Hide, Unmount, ReleaseSubscriptions
<1>2. StoresOK /\ ComponentOK /\ Registered /\ Described /\ Noticed
  BY DEF IInv
<1>3. StoresOK'
  BY <1>1, <1>2 DEF StoresOK, storeVars
<1>4. Registered'
  BY <1>1, <1>2, ReleaseLemma
<1>5. ComponentOK'
  BY <1>1, <1>2 DEF ComponentOK, Describes, Fresh, storeVars
<1>6. Described'
  BY <1>1, <1>2, StillDescribed
<1>7. Noticed'
  BY <1>1 DEF Noticed
<1>. QED  BY <1>3, <1>4, <1>5, <1>6, <1>7 DEF IInv

\* Once mounted, a commit of what describes the screen holds the invariant.
LEMMA CommitStepLemma ==
  ASSUME IInv, CommitSubscriptions, phase' = "mounted",
         UNCHANGED <<storeVars, snapshot>>,
         work' = None, settled' \in BOOLEAN,
         settled' => IsOf(Descriptions, shown') /\ (attempt.state \in {"fresh", "consumed"} => IsSnapshotOf(shown'))
  PROVE  IInv'
<1>1. StoresOK /\ ComponentOK /\ Registered /\ Described /\ Noticed
  BY DEF IInv
<1>. DEFINE d == Descriptions
<1>2. /\ committed' = d
      /\ attempt' = IF Fresh THEN [attempt EXCEPT !.state = "consumed", !.entries = <<>>] ELSE attempt
      /\ updating' = (updating \/ \E k \in DOMAIN d : HasDrift(d[k].source, d[k].baseline, d[k].reads))
  BY DEF CommitSubscriptions
<1>3. Describes(d)
  BY <1>1 DEF ComponentOK, Descriptions
<1>4. settled' => IsOf(d, shown') /\ (attempt.state \in {"fresh", "consumed"} => IsSnapshotOf(shown'))
  OBVIOUS
<1>. HIDE DEF d
<1>5. StoresOK'
  BY <1>1 DEF StoresOK, storeVars
<1>6. Registered'
  BY <1>1, CommitLemma
<1>7. /\ attempt'.state # "fresh" /\ attempt'.onScreen = attempt.onScreen
      /\ attempt' = [state |-> attempt'.state, props |-> attempt'.props, entries |-> attempt'.entries, onScreen |-> attempt'.onScreen]
      /\ attempt'.state = "consumed" => attempt.state \in {"fresh", "consumed"}
  BY <1>1, <1>2 DEF ComponentOK, Fresh
<1>8. ComponentOK'
  <2>1. Describes(committed)'
    BY <1>2, <1>3 DEF Describes, storeVars
  <2>2. updating' \in BOOLEAN
    BY <1>1, <1>2 DEF ComponentOK
  <2>. QED  BY <1>1, <1>7, <2>1, <2>2 DEF ComponentOK, Fresh
<1>9. Described'
  <2>1. settled' => IsOf(committed, shown)'
    BY <1>2, <1>4 DEF IsOf, storeVars, ReadsOf, ValueOf, Behind, HasDrift
  <2>2. settled' /\ attempt'.state = "consumed" => IsSnapshotOf(shown)'
    BY <1>4, <1>7 DEF IsSnapshotOf
  <2>. QED  BY <1>7, <2>1, <2>2 DEF Described, Fresh
<1>10. Noticed'
  BY <1>2 DEF Noticed, HasDrift, storeVars
<1>. QED  BY <1>5, <1>6, <1>8, <1>9, <1>10 DEF IInv

LEMMA CommitOrRevealLemma ==
  ASSUME IInv, Commit \/ Reveal
  PROVE  IInv'
<1>1. StoresOK /\ ComponentOK /\ Registered /\ Described /\ Noticed
  BY DEF IInv
<1>2. CASE Commit
  <2>1. /\ phase' = "mounted" /\ work # None /\ CommitSubscriptions /\ settled' = TRUE
        /\ shown' = [props |-> work.props, output |-> work.output] /\ work' = None
        /\ UNCHANGED <<storeVars, snapshot>>
    BY <1>2 DEF Commit, Show
  <2>2. Fresh /\ IsOf(attempt.entries, work) /\ IsSnapshotOf(work)
    BY <1>1, <2>1 DEF Described
  <2>3. IsOf(Descriptions, shown') /\ IsSnapshotOf(shown')
    BY <2>1, <2>2 DEF Descriptions, IsOf, IsSnapshotOf
  <2>. QED  BY <2>1, <2>3, CommitStepLemma
<1>3. CASE Reveal
  <2>1. /\ phase' = "mounted" /\ work = None /\ CommitSubscriptions
        /\ settled' = IF Fresh THEN attempt.onScreen ELSE settled
        /\ UNCHANGED <<storeVars, work, shown, snapshot>>
    BY <1>3 DEF Reveal
  <2>2. settled' \in BOOLEAN
    BY <1>1, <2>1 DEF ComponentOK
  <2>3. settled' => IsOf(Descriptions, shown) /\ (attempt.state \in {"fresh", "consumed"} => IsSnapshotOf(shown))
    BY <1>1, <2>1 DEF Described, Descriptions, Fresh
  <2>. QED  BY <2>1, <2>2, <2>3, CommitStepLemma
<1>. QED  BY <1>2, <1>3

-----------------------------------------------------------------------------
(***************************************************************************)
(* The invariant holds, and what follows from it.                          *)
(***************************************************************************)
LEMMA InitLemma ==
  ASSUME ComponentInit
  PROVE  IInv
<1>1. StoresOK
  BY DEF ComponentInit, StoresOK
<1>2. ComponentOK
  <2>1. committed = <<>> /\ DOMAIN committed = {} /\ committed \in [{} -> Description]
    BY DEF ComponentInit
  <2>2. Describes(committed)
    BY <2>1 DEF Describes
  <2>. QED  BY <2>2 DEF ComponentInit, ComponentOK, NoAttempt, Fresh
<1>3. Registered
  BY DEF ComponentInit, Registered, Holds
<1>4. Described /\ Noticed
  BY DEF ComponentInit, Described, Noticed, NoAttempt, Fresh
<1>. QED  BY <1>1, <1>2, <1>3, <1>4 DEF IInv

LEMMA NextLemma ==
  ASSUME IInv, [ComponentNext]_componentVars
  PROVE  IInv'
<1>1. CASE UNCHANGED componentVars
  <2>1. StoresOK' /\ ComponentOK' /\ Registered' /\ Noticed'
    BY <1>1 DEF IInv, componentVars, storeVars, reactVars, slotVars, StoresOK, ComponentOK, Registered, Noticed,
                Describes, Fresh, HasDrift
  <2>2. Described'
    BY <1>1, StillDescribed DEF IInv, componentVars, storeVars, reactVars, slotVars
  <2>. QED  BY <2>1, <2>2 DEF IInv
<1>2. CASE ComponentNext
  BY <1>2, PublishLemma, MutateLemma, RunQueuedLemma, RenderLemma, RenderThrowsLemma, DiscardLemma,
     CommitHiddenLemma, ReleaseStepLemma, CommitOrRevealLemma
  DEF ComponentNext
<1>. QED  BY <1>1, <1>2

LEMMA Invariant == ComponentSpec => []IInv
BY InitLemma, NextLemma, PTL DEF ComponentSpec

(***************************************************************************)
(* For all stores, schedulers and props: what is on the screen is what a   *)
(* render would give now, or another render is due, or the store still has *)
(* to call.                                                                *)
(***************************************************************************)
THEOREM ScreenCurrent == ComponentSpec => []ScreenIsCurrent
<1>1. IInv => ScreenIsCurrent
  <2>. SUFFICES ASSUME IInv, phase = "mounted", settled,
                       ~(updating \/ (work # None /\ work.took)), ~Owes(Source[shown.props])
                PROVE  shown.output = Output(shown.props)
    BY DEF ScreenIsCurrent
  <2>. DEFINE s == Source[shown.props]
  <2>1. /\ shown.props \in Props /\ DOMAIN committed = SlotsOf(shown.props)
        /\ shown.output = [uid \in Uses[shown.props] |-> shown.output[uid]]
    BY DEF IInv, Described, IsOf
  <2>2. ASSUME NEW uid \in Uses[shown.props]
        PROVE  shown.output[uid] = ValueOf(s, uid)
    <3>. DEFINE k == SlotAt(s, uid)
    <3>1. s \in Stores /\ uid \in Uids /\ k \in DOMAIN committed /\ Uid(k) = uid
      BY <2>1, PropsType, Slotted DEF SlotsOf
    <3>2. /\ committed[k].source = s
          /\ \/ shown.output[uid] = ValueOf(s, uid)
             \/ committed[k].reads \cap unpublished[s] # {}
             \/ HasDrift(s, committed[k].baseline, committed[k].reads)
      BY <3>1 DEF IInv, Described, IsOf
    <3>3. registered[<<s, uid>>] = committed[k].reads
      BY <3>1, <3>2 DEF IInv, Registered, Holds, ReadsAt, Handles, Registrations
    <3>4. <<s, uid>> \notin queued /\ unpublished[s] \cap registered[<<s, uid>>] = {}
      BY <3>1 DEF Owes
    <3>5. ~HasDrift(s, committed[k].baseline, committed[k].reads)
      BY <3>1, <3>2, <3>4 DEF IInv, Noticed
    <3>. QED  BY <3>2, <3>3, <3>4, <3>5
  <2>. QED  BY <2>1, <2>2 DEF Output
<1>. QED  BY <1>1, Invariant, PTL

(***************************************************************************)
(* For all stores, schedulers and props: the component is registered for   *)
(* what the render on the screen reads, and nowhere else.                  *)
(***************************************************************************)
THEOREM HeldExactly == ComponentSpec => []HeldForTheScreen
<1>1. IInv => HeldForTheScreen
  <2>. SUFFICES ASSUME IInv, phase = "mounted" => settled, NEW s \in Stores, NEW uid \in Uids
                PROVE  registered[<<s, uid>>] # {} <=>
                         phase = "mounted" /\ Source[shown.props] = s /\ uid \in Uses[shown.props]
    BY DEF HeldForTheScreen
  <2>1. registered[<<s, uid>>] = IF Holds(installed, <<s, uid>>) THEN ReadsAt(installed, <<s, uid>>) ELSE {}
    BY DEF IInv, Registered, Registrations
  <2>2. CASE phase # "mounted"
    BY <2>1, <2>2 DEF IInv, Registered, Holds
  <2>3. CASE phase = "mounted"
    <3>. DEFINE k == SlotAt(s, uid)
    <3>1. /\ installed = Handles(committed) /\ Describes(committed) /\ IsOf(committed, shown)
      BY <2>3 DEF IInv, Registered, ComponentOK, Described
    <3>2. registered[<<s, uid>>] # {} <=> k \in DOMAIN committed /\ committed[k].source = s
      BY <2>1, <3>1 DEF Holds, ReadsAt, Handles, Describes, Description
    <3>3. Source[shown.props] = s => (k \in SlotsOf(shown.props) <=> uid \in Uses[shown.props])
      BY <3>1, PropsType, Slotted DEF IsOf, SlotsOf
    <3>. QED  BY <2>3, <3>1, <3>2, <3>3 DEF IsOf
  <2>. QED  BY <2>2, <2>3
<1>. QED  BY <1>1, Invariant, PTL

-----------------------------------------------------------------------------
(***************************************************************************)
(* Scopes.  First, what FlattenSeq returns.  It is a recursive function;   *)
(* that a property holds of all its values is shown of the least number    *)
(* for which it would not hold.                                            *)
(***************************************************************************)
LEMMA LeastNumber ==
  ASSUME NEW T, T \subseteq Nat, T # {}
  PROVE  \E n \in T : \A m \in T : n <= m
<1> DEFINE R == {ss \in Nat \X Nat : ss[1] < ss[2]}
<1>1. IsWellFoundedOn(OpToRel(<, Nat), Nat)
  BY NatLessThanWellFounded
<1>2. OpToRel(<, Nat) = R
  BY DEF OpToRel
<1>3. IsWellFoundedOn(R, Nat)
  BY <1>1, <1>2
<1>4. PICK n \in T : \A m \in T : ~(<<m, n>> \in R)
  <2> HIDE DEF R
  <2>. QED BY <1>3, WFMin
<1>5. ASSUME NEW m \in T PROVE n <= m
  <2>1. CASE m < n
    <3>1. <<m, n>> \in R
      BY <2>1
    <3>. QED  BY <3>1, <1>4
  <2>. QED  BY <2>1
<1>. QED  BY <1>5

\* f solves the recursion of FlattenSeq for the first n pieces of ss.
Solution(f, ss, n) == f = [i \in 1..n |-> IF i = 1 THEN ss[i] ELSE f[i - 1] \o ss[i]]

\* What f says of the first n pieces: it is made of their elements, and in
\* their order.
Joins(f, ss, n) ==
  /\ \A k \in DOMAIN f : \E a \in 1..n : f[k] \in ToSet(ss[a])
  /\ \A a \in 1..n : ToSet(ss[a]) \subseteq ToSet(f)
  /\ \A j, k \in DOMAIN f : j < k =>
       \/ \E a, b \in 1..n : a < b /\ f[j] \in ToSet(ss[a]) /\ f[k] \in ToSet(ss[b])
       \/ \E a \in 1..n : \E p, q \in DOMAIN ss[a] : p < q /\ ss[a][p] = f[j] /\ ss[a][q] = f[k]

LEMMA JoinLemma ==
  ASSUME NEW S, NEW ss \in Seq(Seq(S)), NEW n \in 1..Len(ss), n > 1,
         NEW g \in Seq(S), Joins(g, ss, n - 1)
  PROVE  g \o ss[n] \in Seq(S) /\ Joins(g \o ss[n], ss, n)
<1> DEFINE f == g \o ss[n]
<1>1. /\ ss[n] \in Seq(S) /\ f \in Seq(S) /\ DOMAIN f = 1..(Len(g) + Len(ss[n]))
      /\ DOMAIN g = 1..Len(g) /\ DOMAIN ss[n] = 1..Len(ss[n]) /\ Len(g) \in Nat /\ Len(ss[n]) \in Nat
      /\ \A k \in DOMAIN g : f[k] = g[k]
      /\ \A k \in DOMAIN ss[n] : f[Len(g) + k] = ss[n][k]
  OBVIOUS
<1>2. \A k \in DOMAIN f : k \in DOMAIN g \/ (k - Len(g) \in DOMAIN ss[n] /\ f[k] = ss[n][k - Len(g)])
  BY <1>1
<1>3. 1..(n - 1) \subseteq 1..n /\ n \in 1..n /\ \A a \in 1..(n - 1) : a < n
  OBVIOUS
<1> HIDE DEF f
<1>4. ASSUME NEW k \in DOMAIN f PROVE \E a \in 1..n : f[k] \in ToSet(ss[a])
  <2>1. CASE k \in DOMAIN g
    <3>1. PICK a \in 1..(n - 1) : g[k] \in ToSet(ss[a])
      BY <2>1 DEF Joins
    <3>. QED  BY <2>1, <3>1, <1>1, <1>3
  <2>2. CASE k \notin DOMAIN g
    <3>1. f[k] \in ToSet(ss[n])
      BY <2>2, <1>2 DEF ToSet
    <3>. QED  BY <3>1, <1>3
  <2>. QED  BY <2>1, <2>2
<1>5. ASSUME NEW a \in 1..n PROVE ToSet(ss[a]) \subseteq ToSet(f)
  <2>1. CASE a = n
    <3>1. \A k \in DOMAIN ss[n] : Len(g) + k \in DOMAIN f
      BY <1>1
    <3>. QED  BY <2>1, <3>1, <1>1 DEF ToSet
  <2>2. CASE a # n
    <3>1. ToSet(ss[a]) \subseteq ToSet(g)
      BY <2>2 DEF Joins
    <3>2. DOMAIN g \subseteq DOMAIN f
      BY <1>1
    <3>. QED  BY <3>1, <3>2, <1>1 DEF ToSet
  <2>. QED  BY <2>1, <2>2
<1>6. ASSUME NEW j \in DOMAIN f, NEW k \in DOMAIN f, j < k
      PROVE  \/ \E a, b \in 1..n : a < b /\ f[j] \in ToSet(ss[a]) /\ f[k] \in ToSet(ss[b])
             \/ \E a \in 1..n : \E p, q \in DOMAIN ss[a] : p < q /\ ss[a][p] = f[j] /\ ss[a][q] = f[k]
  <2>1. CASE k \in DOMAIN g
    <3>1. j \in DOMAIN g /\ f[j] = g[j] /\ f[k] = g[k]
      BY <2>1, <1>1, <1>6
    <3>2. \/ \E a, b \in 1..(n - 1) : a < b /\ g[j] \in ToSet(ss[a]) /\ g[k] \in ToSet(ss[b])
          \/ \E a \in 1..(n - 1) : \E p, q \in DOMAIN ss[a] : p < q /\ ss[a][p] = g[j] /\ ss[a][q] = g[k]
      BY <2>1, <3>1, <1>6 DEF Joins
    <3>3. CASE \E a, b \in 1..(n - 1) : a < b /\ g[j] \in ToSet(ss[a]) /\ g[k] \in ToSet(ss[b])
      <4>1. PICK a \in 1..(n - 1), b \in 1..(n - 1) : a < b /\ g[j] \in ToSet(ss[a]) /\ g[k] \in ToSet(ss[b])
        BY <3>3
      <4>2. a \in 1..n /\ b \in 1..n
        BY <1>3
      <4>. QED  BY <3>1, <4>1, <4>2
    <3>4. CASE \E a \in 1..(n - 1) : \E p, q \in DOMAIN ss[a] : p < q /\ ss[a][p] = g[j] /\ ss[a][q] = g[k]
      <4>1. PICK a \in 1..(n - 1) : \E p, q \in DOMAIN ss[a] : p < q /\ ss[a][p] = g[j] /\ ss[a][q] = g[k]
        BY <3>4
      <4>2. a \in 1..n
        BY <1>3
      <4>. QED  BY <3>1, <4>1, <4>2
    <3>. QED  BY <3>2, <3>3, <3>4
  <2>2. CASE k \notin DOMAIN g /\ j \in DOMAIN g
    <3>1. PICK a \in 1..(n - 1) : g[j] \in ToSet(ss[a])
      BY <2>2 DEF Joins
    <3>2. f[k] \in ToSet(ss[n])
      BY <2>2, <1>2 DEF ToSet
    <3>. QED  BY <2>2, <3>1, <3>2, <1>1, <1>3
  <2>3. CASE k \notin DOMAIN g /\ j \notin DOMAIN g
    <3>1. /\ k - Len(g) \in DOMAIN ss[n] /\ f[k] = ss[n][k - Len(g)]
          /\ j - Len(g) \in DOMAIN ss[n] /\ f[j] = ss[n][j - Len(g)]
      BY <2>3, <1>2
    <3>2. j - Len(g) < k - Len(g)
      BY <1>1, <1>6
    <3>. QED  BY <3>1, <3>2, <1>3
  <2>. QED  BY <2>1, <2>2, <2>3
<1>. QED  BY <1>1, <1>4, <1>5, <1>6 DEF Joins, f

LEMMA SolvedLemma ==
  ASSUME NEW S, NEW ss \in Seq(Seq(S)), NEW N \in 1..Len(ss), NEW f, Solution(f, ss, N)
  PROVE  \A n \in 1..N : f[n] \in Seq(S) /\ Joins(f[n], ss, n)
<1> DEFINE Bad == {n \in 1..N : ~(f[n] \in Seq(S) /\ Joins(f[n], ss, n))}
<1>1. SUFFICES ASSUME Bad # {} PROVE FALSE
  OBVIOUS
<1>2. PICK n \in Bad : \A m \in Bad : n <= m
  <2>1. Bad \subseteq Nat
    OBVIOUS
  <2> HIDE DEF Bad
  <2>. QED  BY <1>1, <2>1, LeastNumber
<1>3. n \in 1..N /\ N \in 1..Len(ss) /\ Len(ss) \in Nat /\ n \in 1..Len(ss)
  OBVIOUS
<1>4. CASE n = 1
  <2>1. f[1] = ss[1] /\ ss[1] \in Seq(S)
    BY <1>3, <1>4 DEF Solution
  <2>2. Joins(ss[1], ss, 1)
    BY <2>1 DEF Joins, ToSet
  <2>. QED  BY <1>4, <2>1, <2>2
<1>5. CASE n # 1
  <2>1. n - 1 \in 1..N /\ n - 1 \notin Bad /\ n > 1
    BY <1>2, <1>3, <1>5
  <2>2. f[n - 1] \in Seq(S) /\ Joins(f[n - 1], ss, n - 1)
    BY <2>1
  <2>3. f[n] = f[n - 1] \o ss[n]
    BY <1>3, <1>5 DEF Solution
  <2>. QED  BY <1>3, <2>1, <2>2, <2>3, JoinLemma
<1>. QED  BY <1>4, <1>5

LEMMA SolvableLemma ==
  ASSUME NEW ss
  PROVE  \A n \in Nat : \E f : Solution(f, ss, n)
<1> DEFINE Bad == {n \in Nat : ~ \E f : Solution(f, ss, n)}
<1>1. SUFFICES ASSUME Bad # {} PROVE FALSE
  OBVIOUS
<1>2. PICK n \in Bad : \A m \in Bad : n <= m
  <2>1. Bad \subseteq Nat
    OBVIOUS
  <2> HIDE DEF Bad
  <2>. QED  BY <1>1, <2>1, LeastNumber
<1>3. CASE n = 0
  <2> DEFINE e == [i \in 1..0 |-> ss[1]]
  <2>1. Solution(e, ss, 0)
    BY DEF Solution
  <2>. QED  BY <1>3, <2>1
<1>4. CASE n > 0
  <2>1. PICK f : Solution(f, ss, n - 1)
    BY <1>2, <1>4
  <2> DEFINE g == [i \in 1..n |-> IF i < n THEN f[i] ELSE IF i = 1 THEN ss[i] ELSE f[n - 1] \o ss[n]]
             h == [i \in 1..n |-> IF i = 1 THEN ss[i] ELSE g[i - 1] \o ss[i]]
  <2>2. ASSUME NEW i \in 1..n PROVE g[i] = h[i]
    <3>1. CASE i < n
      <4>1. i \in 1..(n - 1)
        BY <3>1
      <4>2. f[i] = IF i = 1 THEN ss[i] ELSE f[i - 1] \o ss[i]
        BY <4>1, <2>1 DEF Solution
      <4>3. i # 1 => g[i - 1] = f[i - 1]
        BY <3>1
      <4>. QED  BY <3>1, <4>2, <4>3
    <3>2. CASE i = n
      <4>1. i # 1 => g[i - 1] = f[n - 1]
        BY <3>2
      <4>. QED  BY <3>2, <4>1
    <3>. QED  BY <3>1, <3>2
  <2>3. g = h
    <3>1. g = [i \in 1..n |-> g[i]] /\ h = [i \in 1..n |-> h[i]]
      OBVIOUS
    <3> HIDE DEF g, h
    <3>2. [i \in 1..n |-> g[i]] = [i \in 1..n |-> h[i]]
      BY <2>2
    <3>. QED  BY <3>1, <3>2
  <2>4. Solution(g, ss, n)
    BY <2>3 DEF Solution
  <2>. QED  BY <2>4
<1>. QED  BY <1>3, <1>4

LEMMA FlattenLemma ==
  ASSUME NEW S, NEW ss \in Seq(Seq(S))
  PROVE  FlattenSeq(ss) \in Seq(S) /\ Joins(FlattenSeq(ss), ss, Len(ss))
<1> DEFINE F == CHOOSE f : Solution(f, ss, Len(ss))
<1>1. CASE Len(ss) = 0
  <2>1. FlattenSeq(ss) = ss /\ ss = <<>>
    BY <1>1 DEF FlattenSeq
  <2>2. ss \in Seq(S) /\ Joins(ss, ss, 0)
    BY <2>1 DEF Joins, ToSet
  <2>. QED  BY <1>1, <2>1, <2>2
<1>2. CASE Len(ss) # 0
  <2>1. FlattenSeq(ss) = F[Len(ss)]
    BY <1>2 DEF FlattenSeq, Solution
  <2>2. Solution(F, ss, Len(ss))
    <3>1. Len(ss) \in Nat
      OBVIOUS
    <3>2. \E f : Solution(f, ss, Len(ss))
      BY <3>1, SolvableLemma, Zenon
    <3>. QED  BY <3>2, Zenon
  <2>3. Len(ss) \in 1..Len(ss)
    BY <1>2
  <2> HIDE DEF F
  <2>. QED  BY <2>1, <2>2, <2>3, SolvedLemma
<1>. QED  BY <1>1, <1>2

-----------------------------------------------------------------------------
IsOpened(s) == Parent[s] = NoScope \/ s \in ToSet(opened)

Instance == [scope : Scopes, needs : SUBSET Nat]
GetFrame == [scope : Scopes, token : Tokens, asked : Scopes, got : SUBSET Nat, instance : Nat]

ScopeTypes ==
  /\ ScopeAssumption
  /\ opened \in Seq(Scopes) /\ IsInjective(opened)
  /\ disposed \subseteq Scopes
  /\ DOMAIN instances = Scopes /\ DOMAIN delegated = Scopes
  /\ creationOrder \in [Scopes -> Seq(Nat)]
  /\ frames \in Seq(GetFrame)
  /\ made \in Seq(Instance)
  /\ deaths \in Seq(Nat)

\* A live child has a live parent.
FamilyLives == \A s \in Scopes : Live(s) /\ Parent[s] # NoScope => Parent[s] \notin disposed

\* An instance is built from older ones, by a scope there is.
Built ==
  \A i \in DOMAIN made :
    IsOpened(made[i].scope) /\ \A d \in made[i].needs : d \in DOMAIN made /\ d < i

Increasing(o) == \A j, k \in DOMAIN o : j < k => o[j] < o[k]

\* A live scope owns its instances in the order of their creation, and no
\* other scope owns anything.
Ordered(s) ==
  /\ Increasing(creationOrder[s])
  /\ \A i \in ToSet(creationOrder[s]) : i \in DOMAIN made /\ made[i].scope = s
  /\ s \notin disposed => \A i \in DOMAIN made : made[i].scope = s => i \in ToSet(creationOrder[s])
  /\ s \in disposed => creationOrder[s] = <<>>

\* What is dead was in a scope that is disposed, and died once.
Buried ==
  /\ IsInjective(deaths)
  /\ ToSet(deaths) = {i \in DOMAIN made : made[i].scope \in disposed}

\* What a scope hands out is owned by it, or by its parent.
Handed(s) ==
  /\ \A t \in DOMAIN instances[s] : instances[s][t] \in ToSet(creationOrder[s])
  /\ \A t \in DOMAIN delegated[s] :
       Live(s) /\ Parent[s] # NoScope /\ delegated[s][t] \in ToSet(creationOrder[Parent[s]])

\* A get() on the stack, when q are the instances there are.
FrameSound(f, q) ==
  /\ IsOpened(f.scope) /\ IsOpened(f.asked)
  /\ f.asked = f.scope \/ Parent[f.asked] = f.scope
  /\ f.got \subseteq DOMAIN q
  /\ f.instance # 0 => f.instance \in DOMAIN q /\ q[f.instance].scope = f.scope

StackOf(s, q) == s \in Seq(GetFrame) /\ \A k \in DOMAIN s : FrameSound(s[k], q)

FramesSound == StackOf(frames, made)

Owners == \A s \in Scopes : Ordered(s) /\ Handed(s)

ScopeInv ==
  ScopeTypes /\ FamilyLives /\ Built /\ Owners /\ Buried /\ FramesSound /\ UsersGoFirst

-----------------------------------------------------------------------------
LEMMA ParentLemma ==
  ASSUME ScopeAssumption, NEW s \in Scopes
  PROVE  /\ Parent[s] \in Scopes \cup {NoScope}
         /\ Parent[s] # NoScope => Parent[s] \in Scopes /\ Parent[Parent[s]] = NoScope
         /\ Parent[s] # s
BY DEF ScopeAssumption

LEMMA AliveLemma ==
  ASSUME ScopeInv
  PROVE  /\ \A i \in DOMAIN made : IsDead(i) <=> made[i].scope \in disposed
         /\ \A s \in Scopes : \A i \in ToSet(creationOrder[s]) :
              i \in DOMAIN made /\ made[i].scope = s /\ s \notin disposed /\ ~IsDead(i)
<1>1. \A i \in DOMAIN made : IsDead(i) <=> made[i].scope \in disposed
  BY DEF ScopeInv, Buried, IsDead
<1>2. ASSUME NEW s \in Scopes, NEW i \in ToSet(creationOrder[s])
      PROVE  i \in DOMAIN made /\ made[i].scope = s /\ s \notin disposed
  <2>1. creationOrder[s] # <<>>
    BY <1>2 DEF ToSet
  <2>. QED  BY <1>2, <2>1 DEF ScopeInv, Owners, Ordered
<1>. QED  BY <1>1, <1>2

\* The calls that are left when a get() ends.
LEMMA ToldLemma ==
  ASSUME NEW q \in Seq(Instance), NEW st, StackOf(st, q), NEW i \in DOMAIN q
  PROVE  StackOf(Told(st, i), q)
<1>1. CASE st # <<>> /\ Last(st).instance = 0
  <2> DEFINE n == Len(st)
             f == [st[n] EXCEPT !.got = @ \cup {i}]
             g == [st EXCEPT ![n] = f]
  <2>1. st \in Seq(GetFrame) /\ n \in DOMAIN st /\ st[n] \in GetFrame /\ FrameSound(st[n], q)
    BY <1>1 DEF StackOf
  <2>2. i \in Nat
    OBVIOUS
  <2>3. /\ f \in GetFrame /\ f.scope = st[n].scope /\ f.asked = st[n].asked
        /\ f.got = st[n].got \cup {i} /\ f.instance = st[n].instance
    BY <2>1, <2>2 DEF GetFrame
  <2> HIDE DEF f
  <2>4. Told(st, i) = g
    BY <1>1 DEF Told, Last, f
  <2>5. g \in Seq(GetFrame) /\ DOMAIN g = DOMAIN st /\ \A k \in DOMAIN st : g[k] = IF k = n THEN f ELSE st[k]
    BY <2>1, <2>3
  <2>6. FrameSound(f, q)
    BY <2>1, <2>3 DEF FrameSound
  <2>. QED  BY <2>4, <2>5, <2>6 DEF StackOf
<1>2. CASE ~(st # <<>> /\ Last(st).instance = 0)
  BY <1>2 DEF Told
<1>. QED  BY <1>1, <1>2

LEMMA TopLemma ==
  ASSUME ScopeInv, frames # <<>>
  PROVE  /\ Top \in GetFrame /\ FrameSound(Top, made) /\ Top.scope \in Scopes /\ Top.asked \in Scopes
         /\ StackOf(Thrown, made)
<1>1. frames \in Seq(GetFrame) /\ Len(frames) \in DOMAIN frames /\ StackOf(frames, made)
  BY DEF ScopeInv, ScopeTypes, FramesSound
<1>2. Top \in GetFrame /\ FrameSound(Top, made)
  BY <1>1 DEF Top, Last, StackOf
<1>3. Thrown = SubSeq(frames, 1, Len(frames) - 1)
  BY DEF Thrown, Front
<1>4. Thrown \in Seq(GetFrame) /\ DOMAIN Thrown = 1..(Len(frames) - 1)
      /\ \A k \in DOMAIN Thrown : k \in DOMAIN frames /\ Thrown[k] = frames[k]
  BY <1>1, <1>3
<1>5. StackOf(Thrown, made)
  BY <1>1, <1>4 DEF StackOf
<1>. QED  BY <1>2, <1>5 DEF GetFrame

-----------------------------------------------------------------------------
(***************************************************************************)
(* What dispose() takes: the children of s, then s, and of each scope the  *)
(* newest instance first.                                                  *)
(***************************************************************************)
LEMMA ReverseLemma ==
  ASSUME NEW S, NEW o \in Seq(S)
  PROVE  /\ Reverse(o) \in Seq(S) /\ DOMAIN Reverse(o) = DOMAIN o
         /\ ToSet(Reverse(o)) = ToSet(o)
         /\ \A j, k \in DOMAIN o :
              j < k => /\ Len(o) - k + 1 \in DOMAIN o /\ Len(o) - j + 1 \in DOMAIN o
                       /\ Len(o) - k + 1 < Len(o) - j + 1
                       /\ Reverse(o)[j] = o[Len(o) - j + 1] /\ Reverse(o)[k] = o[Len(o) - k + 1]
<1>1. /\ DOMAIN o = 1..Len(o) /\ Len(o) \in Nat
      /\ Reverse(o) = [i \in 1..Len(o) |-> o[(Len(o) - i) + 1]]
  BY DEF Reverse
<1>2. \A i \in 1..Len(o) : (Len(o) - i) + 1 \in 1..Len(o)
  BY <1>1
<1>3. Reverse(o) \in Seq(S) /\ DOMAIN Reverse(o) = DOMAIN o /\ \A i \in 1..Len(o) : Reverse(o)[i] = o[(Len(o) - i) + 1]
  BY <1>1, <1>2
<1>4. ToSet(Reverse(o)) \subseteq ToSet(o)
  BY <1>1, <1>2, <1>3 DEF ToSet
<1>5. ASSUME NEW i \in DOMAIN o PROVE o[i] \in ToSet(Reverse(o))
  <2>1. (Len(o) - i) + 1 \in 1..Len(o) /\ (Len(o) - ((Len(o) - i) + 1)) + 1 = i
    BY <1>1
  <2>2. Reverse(o)[(Len(o) - i) + 1] = o[i]
    BY <2>1, <1>3
  <2>. QED  BY <2>1, <2>2, <1>1, <1>3 DEF ToSet
<1>6. ToSet(o) \subseteq ToSet(Reverse(o))
  BY <1>5 DEF ToSet
<1>7. ASSUME NEW j \in DOMAIN o, NEW k \in DOMAIN o, j < k
      PROVE  /\ Len(o) - k + 1 \in DOMAIN o /\ Len(o) - j + 1 \in DOMAIN o
             /\ Len(o) - k + 1 < Len(o) - j + 1
             /\ Reverse(o)[j] = o[Len(o) - j + 1] /\ Reverse(o)[k] = o[Len(o) - k + 1]
  BY <1>1, <1>3, <1>7
<1>. QED  BY <1>3, <1>4, <1>6, <1>7

LEMMA DisposalLemma ==
  ASSUME ScopeInv, NEW s \in Scopes
  PROVE  /\ Disposal(s) \in Seq(Nat) /\ ToSet(Disposal(s)) = ToSet(creationOrder[s])
         /\ \A j, k \in DOMAIN Disposal(s) : j < k => Disposal(s)[j] > Disposal(s)[k]
<1>1. creationOrder[s] \in Seq(Nat) /\ Increasing(creationOrder[s])
  BY DEF ScopeInv, ScopeTypes, Owners, Ordered
<1> DEFINE o == creationOrder[s]
<1>2. o \in Seq(Nat) /\ \A j, k \in DOMAIN o : j < k => o[j] < o[k]
  BY <1>1 DEF Increasing
<1>3. Disposal(s) = Reverse(o)
  BY DEF Disposal
<1> HIDE DEF o
<1>4. \A j, k \in DOMAIN Reverse(o) : j < k => Reverse(o)[j] > Reverse(o)[k]
  BY <1>2, ReverseLemma
<1>. QED  BY <1>2, <1>3, <1>4, ReverseLemma DEF o

Taken(s, k) == IF Reverse(opened)[k] \in ChildrenOf(s) THEN Disposal(Reverse(opened)[k]) ELSE <<>>
Pieces(s) == [k \in DOMAIN opened |-> Taken(s, k)]

\* The first of two instances that dispose() takes one after the other: it is
\* the newer of the two, or is in a child and the other is not in that child.
Precedes(s, i, j) ==
  \/ made[i].scope = made[j].scope /\ i > j
  \/ made[i].scope \in ChildrenOf(s) /\ made[j].scope \in ChildrenOf(s) \cup {s} /\ made[i].scope # made[j].scope

LEMMA PiecesLemma ==
  ASSUME ScopeInv, NEW s \in Scopes
  PROVE  /\ Pieces(s) \in Seq(Seq(Nat)) /\ Len(Pieces(s)) = Len(opened)
         /\ \A k \in 1..Len(opened) : \A i \in ToSet(Pieces(s)[k]) :
              /\ Reverse(opened)[k] \in ChildrenOf(s)
              /\ Pieces(s)[k] = Disposal(Reverse(opened)[k])
              /\ i \in DOMAIN made /\ made[i].scope = Reverse(opened)[k]
         /\ \A c \in ChildrenOf(s) : \A i \in ToSet(creationOrder[c]) :
              \E k \in 1..Len(opened) : i \in ToSet(Pieces(s)[k])
         /\ \A j, k \in 1..Len(opened) : j # k => Reverse(opened)[j] # Reverse(opened)[k]
<1>1. opened \in Seq(Scopes) /\ IsInjective(opened) /\ ChildrenOf(s) \subseteq Scopes
  BY DEF ScopeInv, ScopeTypes, ChildrenOf, ToSet
<1>2. /\ DOMAIN opened = 1..Len(opened) /\ Len(opened) \in Nat
      /\ Reverse(opened) \in Seq(Scopes) /\ DOMAIN Reverse(opened) = 1..Len(opened)
      /\ ToSet(Reverse(opened)) = ToSet(opened)
  BY <1>1, ReverseLemma
<1>3. \A k \in 1..Len(opened) : Taken(s, k) \in Seq(Nat)
  BY <1>1, <1>2, DisposalLemma DEF Taken
<1>4. Pieces(s) \in Seq(Seq(Nat)) /\ Len(Pieces(s)) = Len(opened) /\ \A k \in 1..Len(opened) : Pieces(s)[k] = Taken(s, k)
  BY <1>2, <1>3 DEF Pieces
<1>5. ASSUME NEW k \in 1..Len(opened), NEW i \in ToSet(Pieces(s)[k])
      PROVE  /\ Reverse(opened)[k] \in ChildrenOf(s)
             /\ Pieces(s)[k] = Disposal(Reverse(opened)[k])
             /\ i \in DOMAIN made /\ made[i].scope = Reverse(opened)[k]
  <2>1. Reverse(opened)[k] \in ChildrenOf(s) /\ Pieces(s)[k] = Disposal(Reverse(opened)[k])
    BY <1>4, <1>5 DEF Taken, ToSet
  <2>2. i \in ToSet(creationOrder[Reverse(opened)[k]])
    BY <2>1, <1>1, DisposalLemma
  <2>. QED  BY <2>1, <2>2, <1>1, AliveLemma
<1>6. ASSUME NEW c \in ChildrenOf(s), NEW i \in ToSet(creationOrder[c])
      PROVE  \E k \in 1..Len(opened) : i \in ToSet(Pieces(s)[k])
  <2>1. c \in ToSet(Reverse(opened))
    BY <1>2 DEF ChildrenOf
  <2>2. PICK k \in 1..Len(opened) : Reverse(opened)[k] = c
    BY <2>1, <1>2 DEF ToSet
  <2>3. Pieces(s)[k] = Disposal(c)
    BY <2>2, <1>4 DEF Taken
  <2>. QED  BY <2>3, <1>1, DisposalLemma
<1>7. ASSUME NEW j \in 1..Len(opened), NEW k \in 1..Len(opened), j # k
      PROVE  Reverse(opened)[j] # Reverse(opened)[k]
  <2>1. /\ Reverse(opened)[j] = opened[Len(opened) - j + 1] /\ Reverse(opened)[k] = opened[Len(opened) - k + 1]
        /\ Len(opened) - j + 1 \in DOMAIN opened /\ Len(opened) - k + 1 \in DOMAIN opened
        /\ Len(opened) - j + 1 # Len(opened) - k + 1
    BY <1>2, <1>7 DEF Reverse
  <2>. QED  BY <2>1, <1>1 DEF IsInjective
<1>. QED  BY <1>4, <1>5, <1>6, <1>7

LEMMA ChildrenDieLemma ==
  ASSUME ScopeInv, NEW s \in Scopes
  PROVE  LET f == FlattenSeq(Pieces(s))
         IN  /\ f \in Seq(Nat)
             /\ \A k \in DOMAIN f : f[k] \in DOMAIN made /\ made[f[k]].scope \in ChildrenOf(s)
             /\ \A c \in ChildrenOf(s) : ToSet(creationOrder[c]) \subseteq ToSet(f)
             /\ \A j, k \in DOMAIN f : j < k => Precedes(s, f[j], f[k])
<1> DEFINE ss == Pieces(s)
           f == FlattenSeq(ss)
           N == Len(opened)
<1>1. f \in Seq(Nat) /\ Joins(f, ss, N)
  BY PiecesLemma, FlattenLemma
<1>2. \A k \in 1..N : \A i \in ToSet(ss[k]) :
        /\ Reverse(opened)[k] \in ChildrenOf(s) /\ ss[k] = Disposal(Reverse(opened)[k])
        /\ i \in DOMAIN made /\ made[i].scope = Reverse(opened)[k]
  BY PiecesLemma
<1>3. \A j, k \in 1..N : j # k => Reverse(opened)[j] # Reverse(opened)[k]
  BY PiecesLemma
<1>4. \A c \in ChildrenOf(s) : \A i \in ToSet(creationOrder[c]) : \E k \in 1..N : i \in ToSet(ss[k])
  BY PiecesLemma
<1>5. N \in Nat /\ ChildrenOf(s) \subseteq Scopes
  BY DEF ScopeInv, ScopeTypes, ChildrenOf, ToSet
<1> HIDE DEF ss, f, N
<1>6. \A k \in DOMAIN f : f[k] \in DOMAIN made /\ made[f[k]].scope \in ChildrenOf(s)
  BY <1>1, <1>2 DEF Joins
<1>7. ASSUME NEW c \in ChildrenOf(s) PROVE ToSet(creationOrder[c]) \subseteq ToSet(f)
  BY <1>1, <1>4 DEF Joins
<1>8. ASSUME NEW j \in DOMAIN f, NEW k \in DOMAIN f, j < k
      PROVE  Precedes(s, f[j], f[k])
  <2>1. CASE \E a, b \in 1..N : a < b /\ f[j] \in ToSet(ss[a]) /\ f[k] \in ToSet(ss[b])
    <3>1. PICK a \in 1..N, b \in 1..N : a < b /\ f[j] \in ToSet(ss[a]) /\ f[k] \in ToSet(ss[b])
      BY <2>1
    <3>2. a # b
      BY <3>1
    <3>. QED  BY <3>1, <3>2, <1>2, <1>3 DEF Precedes
  <2>2. CASE \E a \in 1..N : \E p, q \in DOMAIN ss[a] : p < q /\ ss[a][p] = f[j] /\ ss[a][q] = f[k]
    <3>1. PICK a \in 1..N : \E p, q \in DOMAIN ss[a] : p < q /\ ss[a][p] = f[j] /\ ss[a][q] = f[k]
      BY <2>2
    <3>2. PICK p \in DOMAIN ss[a], q \in DOMAIN ss[a] : p < q /\ ss[a][p] = f[j] /\ ss[a][q] = f[k]
      BY <3>1
    <3>3. f[j] \in ToSet(ss[a]) /\ f[k] \in ToSet(ss[a])
      BY <3>2 DEF ToSet
    <3>4. /\ Reverse(opened)[a] \in Scopes /\ ss[a] = Disposal(Reverse(opened)[a])
          /\ made[f[j]].scope = made[f[k]].scope
      BY <3>3, <1>2, <1>5
    <3>5. f[j] > f[k]
      BY <3>2, <3>4, DisposalLemma
    <3>. QED  BY <3>4, <3>5 DEF Precedes
  <2>. QED  BY <1>1, <1>8, <2>1, <2>2 DEF Joins
<1>. QED  BY <1>1, <1>6, <1>7, <1>8 DEF f, ss

LEMMA DeathsLemma ==
  ASSUME ScopeInv, NEW s \in Scopes, Live(s)
  PROVE  /\ Deaths(s) \in Seq(Nat)
         /\ ToSet(Deaths(s)) = {i \in DOMAIN made : made[i].scope \in ChildrenOf(s) \cup {s}}
         /\ \A j, k \in DOMAIN Deaths(s) : j < k => Precedes(s, Deaths(s)[j], Deaths(s)[k])
<1> DEFINE f == FlattenSeq(Pieces(s))
           d == Disposal(s)
<1>1. Deaths(s) = f \o d
  BY DEF Deaths, Pieces, Taken
<1>2. /\ f \in Seq(Nat)
      /\ \A k \in DOMAIN f : f[k] \in DOMAIN made /\ made[f[k]].scope \in ChildrenOf(s)
      /\ \A c \in ChildrenOf(s) : ToSet(creationOrder[c]) \subseteq ToSet(f)
      /\ \A j, k \in DOMAIN f : j < k => Precedes(s, f[j], f[k])
  BY ChildrenDieLemma
<1>3. /\ d \in Seq(Nat) /\ ToSet(d) = ToSet(creationOrder[s])
      /\ \A j, k \in DOMAIN d : j < k => d[j] > d[k]
  BY DisposalLemma
<1>4. \A k \in DOMAIN d : d[k] \in DOMAIN made /\ made[d[k]].scope = s
  BY <1>3, AliveLemma DEF ToSet
<1>5. s \notin disposed /\ ChildrenOf(s) \subseteq Scopes /\ s \notin ChildrenOf(s)
      /\ \A c \in ChildrenOf(s) : c \notin disposed
  BY ParentLemma DEF Live, ScopeInv, ScopeTypes, ChildrenOf, ToSet
<1> DEFINE D == f \o d
<1> HIDE DEF f, d
<1>6. /\ D \in Seq(Nat) /\ DOMAIN D = 1..(Len(f) + Len(d)) /\ Len(f) \in Nat /\ Len(d) \in Nat
      /\ DOMAIN f = 1..Len(f) /\ DOMAIN d = 1..Len(d)
      /\ \A k \in DOMAIN f : D[k] = f[k]
      /\ \A k \in DOMAIN d : D[Len(f) + k] = d[k]
  BY <1>2, <1>3
<1>7. \A k \in DOMAIN D : k \in DOMAIN f \/ (k - Len(f) \in DOMAIN d /\ D[k] = d[k - Len(f)])
  BY <1>6
<1> HIDE DEF D
<1>8. \A k \in DOMAIN D : D[k] \in DOMAIN made /\ made[D[k]].scope \in ChildrenOf(s) \cup {s}
  BY <1>2, <1>4, <1>6, <1>7
<1>9. ASSUME NEW i \in DOMAIN made, made[i].scope \in ChildrenOf(s) \cup {s} PROVE i \in ToSet(D)
  <2>1. i \in ToSet(creationOrder[made[i].scope])
    BY <1>5, <1>9 DEF ScopeInv, Owners, Ordered
  <2>2. i \in ToSet(f) \/ i \in ToSet(d)
    BY <2>1, <1>2, <1>3, <1>9
  <2>3. ToSet(f) \subseteq ToSet(D)
    BY <1>6 DEF ToSet
  <2>4. ToSet(d) \subseteq ToSet(D)
    <3>1. \A k \in DOMAIN d : Len(f) + k \in DOMAIN D
      BY <1>6
    <3>. QED  BY <3>1, <1>6 DEF ToSet
  <2>. QED  BY <2>2, <2>3, <2>4
<1>10. ASSUME NEW j \in DOMAIN D, NEW k \in DOMAIN D, j < k
       PROVE  Precedes(s, D[j], D[k])
  <2>1. CASE k \in DOMAIN f
    <3>1. j \in DOMAIN f
      BY <2>1, <1>6, <1>10
    <3>. QED  BY <2>1, <3>1, <1>2, <1>6, <1>10
  <2>2. CASE k \notin DOMAIN f /\ j \in DOMAIN f
    BY <2>2, <1>2, <1>4, <1>5, <1>6, <1>7 DEF Precedes
  <2>3. CASE k \notin DOMAIN f /\ j \notin DOMAIN f
    <3>1. /\ j - Len(f) \in DOMAIN d /\ D[j] = d[j - Len(f)]
          /\ k - Len(f) \in DOMAIN d /\ D[k] = d[k - Len(f)]
      BY <2>3, <1>7
    <3>2. j - Len(f) < k - Len(f)
      BY <1>6, <1>10
    <3>3. D[j] > D[k]
      BY <3>1, <3>2, <1>3
    <3>. QED  BY <3>1, <3>3, <1>4 DEF Precedes
  <2>. QED  BY <2>1, <2>2, <2>3
<1>11. ToSet(D) = {i \in DOMAIN made : made[i].scope \in ChildrenOf(s) \cup {s}}
  BY <1>8, <1>9 DEF ToSet
<1>. QED  BY <1>1, <1>6, <1>10, <1>11 DEF D

-----------------------------------------------------------------------------
(***************************************************************************)
(* Steps that make no instance and dispose of none.                        *)
(***************************************************************************)
HandedOut(own, given) ==
  /\ DOMAIN own = Scopes /\ DOMAIN given = Scopes
  /\ \A s \in Scopes :
       /\ \A t \in DOMAIN own[s] : own[s][t] \in ToSet(creationOrder[s])
       /\ \A t \in DOMAIN given[s] :
            Live(s) /\ Parent[s] # NoScope /\ given[s][t] \in ToSet(creationOrder[Parent[s]])

LEMMA HandedLemma == ScopeInv => HandedOut(instances, delegated)
BY DEF ScopeInv, ScopeTypes, Owners, Handed, HandedOut

LEMMA KeepLemma ==
  ASSUME ScopeInv, UNCHANGED <<opened, disposed, creationOrder, made, deaths>>,
         StackOf(frames', made), HandedOut(instances', delegated')
  PROVE  ScopeInv'
<1>1. ScopeTypes' /\ FramesSound'
  BY DEF ScopeInv, ScopeTypes, StackOf, FramesSound, HandedOut, FrameSound, IsOpened
<1>2. FamilyLives' /\ Built' /\ Buried' /\ UsersGoFirst'
  BY DEF ScopeInv, FamilyLives, Built, Buried, UsersGoFirst, Live, IsOpened
<1>3. Owners'
  BY DEF ScopeInv, Owners, Ordered, Handed, HandedOut, Live
<1>. QED  BY <1>1, <1>2, <1>3 DEF ScopeInv

\* A token has an instance of its own.
LEMMA WithLemma ==
  ASSUME NEW own, NEW given, HandedOut(own, given), NEW s \in Scopes, NEW t, NEW i \in ToSet(creationOrder[s])
  PROVE  HandedOut([own EXCEPT ![s] = With(@, t, i)], given)
BY DEF HandedOut, With

LEMMA GivenLemma ==
  ASSUME NEW own, NEW given, HandedOut(own, given), NEW s \in Scopes, Live(s), Parent[s] # NoScope,
         NEW t, NEW i \in ToSet(creationOrder[Parent[s]])
  PROVE  HandedOut(own, [given EXCEPT ![s] = With(@, t, i)])
BY DEF HandedOut, With

LEMMA WithoutLemma ==
  ASSUME NEW own, NEW given, HandedOut(own, given), NEW s \in Scopes, NEW t
  PROVE  /\ HandedOut([own EXCEPT ![s] = Without(@, t)], given)
         /\ HandedOut(own, [given EXCEPT ![s] = Without(@, t)])
BY DEF HandedOut, Without

\* The owner of a token is the scope itself or its parent.
LEMMA OwnerLemma ==
  ASSUME ScopeInv, NEW s \in Scopes, NEW t, Live(s)
  PROVE  /\ Owner(s, t) \in Scopes /\ IsOpened(Owner(s, t)) /\ Owner(s, t) \notin disposed
         /\ s = Owner(s, t) \/ (Parent[s] = Owner(s, t) /\ Parent[s] # NoScope)
<1>1. ScopeAssumption /\ FamilyLives
  BY DEF ScopeInv, ScopeTypes
<1>. QED  BY <1>1, ParentLemma DEF Owner, IsOpened, Live, FamilyLives

LEMMA GetExistingStep ==
  ASSUME ScopeInv, NEW s \in Scopes, NEW t \in Tokens, GetExisting(s, t)
  PROVE  ScopeInv'
<1> DEFINE o == Owner(s, t)
<1>1. /\ Live(s) /\ UNCHANGED <<opened, disposed, instances, creationOrder, made, deaths>>
      /\ made \in Seq(Instance) /\ StackOf(frames, made) /\ HandedOut(instances, delegated)
  BY HandedLemma DEF GetExisting, keptVars, ScopeInv, ScopeTypes, FramesSound
<1>2. CASE o # s /\ t \in DOMAIN delegated[s]
  <2>1. frames' = Told(frames, delegated[s][t]) /\ delegated' = delegated
    BY <1>2 DEF GetExisting
  <2>2. Parent[s] \in Scopes /\ delegated[s][t] \in ToSet(creationOrder[Parent[s]])
    BY <1>1, <1>2, ParentLemma DEF HandedOut, ScopeInv, ScopeTypes
  <2>3. StackOf(frames', made)
    BY <2>1, <2>2, <1>1, AliveLemma, ToldLemma
  <2>. QED  BY <2>1, <2>3, <1>1, KeepLemma
<1>3. CASE ~(o # s /\ t \in DOMAIN delegated[s])
  <2>1. /\ t \in DOMAIN instances[o] /\ frames' = Told(frames, instances[o][t])
        /\ delegated' = IF o = s THEN delegated ELSE [delegated EXCEPT ![s] = With(@, t, instances[o][t])]
    BY <1>3 DEF GetExisting
  <2>2. o \in Scopes /\ (s = o \/ (Parent[s] = o /\ Parent[s] # NoScope))
    BY <1>1, OwnerLemma
  <2> HIDE DEF o
  <2>3. instances[o][t] \in ToSet(creationOrder[o])
    BY <1>1, <2>1, <2>2 DEF HandedOut
  <2>4. StackOf(frames', made)
    BY <2>1, <2>2, <2>3, <1>1, AliveLemma, ToldLemma
  <2>5. HandedOut(instances, delegated')
    BY <2>1, <2>2, <2>3, <1>1, GivenLemma
  <2>. QED  BY <2>4, <2>5, <1>1, KeepLemma
<1>. QED  BY <1>2, <1>3

LEMMA GetCreatesStep ==
  ASSUME ScopeInv, NEW s \in Scopes, NEW t \in Tokens, GetCreates(s, t)
  PROVE  ScopeInv'
<1> DEFINE o == Owner(s, t)
           f == [scope |-> o, token |-> t, asked |-> s, got |-> {}, instance |-> 0]
<1>1. /\ Live(s) /\ UNCHANGED <<opened, disposed, instances, creationOrder, delegated, made, deaths>>
      /\ frames' = Append(frames, f)
      /\ made \in Seq(Instance) /\ StackOf(frames, made) /\ HandedOut(instances, delegated)
  BY HandedLemma DEF GetCreates, keptVars, ScopeInv, ScopeTypes, FramesSound
<1>2. o \in Scopes /\ IsOpened(o) /\ IsOpened(s) /\ (s = o \/ Parent[s] = o)
  BY <1>1, OwnerLemma DEF Live, IsOpened
<1>3. f \in GetFrame /\ FrameSound(f, made)
  BY <1>2 DEF GetFrame, FrameSound
<1> HIDE DEF f
<1>4. StackOf(frames', made)
  BY <1>1, <1>3 DEF StackOf
<1>. QED  BY <1>1, <1>4, KeepLemma

LEMMA HydrateStep ==
  ASSUME ScopeInv, NEW s \in Scopes, NEW t \in Tokens, Hydrate(s, t)
  PROVE  ScopeInv'
BY HandedLemma, KeepLemma DEF Hydrate, keptVars, ScopeInv, FramesSound

LEMMA FactoryThrowsStep ==
  ASSUME ScopeInv, FactoryThrows
  PROVE  ScopeInv'
BY HandedLemma, TopLemma, KeepLemma DEF FactoryThrows, Creating, keptVars

LEMMA HydrationFailsStep ==
  ASSUME ScopeInv, HydrationFails
  PROVE  ScopeInv'
<1>1. /\ frames # <<>> /\ frames' = Thrown
      /\ UNCHANGED <<opened, disposed, creationOrder, delegated, made, deaths>>
      /\ \/ instances' = instances
         \/ instances' = [instances EXCEPT ![Top.scope] = Without(@, Top.token)]
  BY DEF HydrationFails, Hydrating, keptVars
<1>2. HandedOut(instances, delegated) /\ Top.scope \in Scopes
  BY <1>1, HandedLemma, TopLemma
<1>3. HandedOut([instances EXCEPT ![Top.scope] = Without(@, Top.token)], delegated)
  BY <1>2, WithoutLemma
<1>. QED  BY <1>1, <1>2, <1>3, TopLemma, KeepLemma

\* A get() ends with an instance of its scope, which is alive.
LEMMA AnswerLemma ==
  ASSUME ScopeInv, frames # <<>>, Top.scope \notin disposed,
         NEW q \in Seq(Instance), NEW i \in DOMAIN q, StackOf(Thrown, q), Answer(i)
  PROVE  /\ StackOf(frames', q) /\ DOMAIN delegated' = Scopes
         /\ \A s \in Scopes : \A t \in DOMAIN delegated'[s] :
              /\ Live(s) /\ Parent[s] # NoScope
              /\ \/ delegated'[s][t] \in ToSet(creationOrder[Parent[s]])
                 \/ delegated'[s][t] = i /\ Parent[s] = Top.scope
<1>1. FrameSound(Top, made) /\ Top.scope \in Scopes /\ Top.asked \in Scopes /\ HandedOut(instances, delegated)
  BY TopLemma, HandedLemma
<1>2. CASE Top.asked \in disposed
  BY <1>1, <1>2 DEF Answer, HandedOut
<1>3. CASE Top.asked \notin disposed
  <2>1. frames' = Told(Thrown, i)
    BY <1>3 DEF Answer
  <2>2. StackOf(frames', q)
    BY <2>1, ToldLemma
  <2>3. CASE Top.asked = Top.scope
    BY <2>2, <2>3, <1>1, <1>3 DEF Answer, HandedOut
  <2>4. CASE Top.asked # Top.scope
    <3>1. /\ Parent[Top.asked] = Top.scope /\ Live(Top.asked) /\ Parent[Top.asked] # NoScope
      BY <2>4, <1>1, <1>3 DEF FrameSound, IsOpened, Live, ScopeInv, ScopeTypes, ScopeAssumption
    <3>2. delegated' = [delegated EXCEPT ![Top.asked] = With(@, Top.token, i)]
      BY <2>4, <1>3 DEF Answer
    <3>. QED  BY <2>2, <3>1, <3>2, <1>1 DEF HandedOut, With
  <2>. QED  BY <2>3, <2>4
<1>. QED  BY <1>2, <1>3

LEMMA HydratedStep ==
  ASSUME ScopeInv, Hydrated
  PROVE  ScopeInv'
<1>1. /\ frames # <<>> /\ Top.instance # 0
      /\ UNCHANGED <<opened, disposed, instances, creationOrder, made, deaths>>
      /\ made \in Seq(Instance) /\ HandedOut(instances, delegated)
      /\ Top.scope \in Scopes /\ FrameSound(Top, made) /\ StackOf(Thrown, made)
  BY HandedLemma, TopLemma DEF Hydrated, Hydrating, keptVars, ScopeInv, ScopeTypes
<1>2. CASE Top.scope \in disposed
  BY <1>1, <1>2, KeepLemma DEF Hydrated
<1>3. CASE Top.scope \notin disposed
  <2> DEFINE i == Top.instance
  <2>1. i \in DOMAIN made /\ made[i].scope = Top.scope /\ Answer(i)
    BY <1>1, <1>3 DEF Hydrated, FrameSound
  <2>2. i \in ToSet(creationOrder[Top.scope])
    BY <2>1, <1>1, <1>3 DEF ScopeInv, Owners, Ordered
  <2> HIDE DEF i
  <2>3. /\ StackOf(frames', made) /\ DOMAIN delegated' = Scopes
        /\ \A s \in Scopes : \A t \in DOMAIN delegated'[s] :
              /\ Live(s) /\ Parent[s] # NoScope
              /\ \/ delegated'[s][t] \in ToSet(creationOrder[Parent[s]])
                 \/ delegated'[s][t] = i /\ Parent[s] = Top.scope
    BY <2>1, <1>1, <1>3, AnswerLemma
  <2>4. HandedOut(instances, delegated')
    BY <2>2, <2>3, <1>1 DEF HandedOut
  <2>. QED  BY <2>3, <2>4, <1>1, KeepLemma
<1>. QED  BY <1>2, <1>3

-----------------------------------------------------------------------------
(***************************************************************************)
(* A scope takes an instance under a token: FactoryReturns,                *)
(* FactoryReturnsAnother, set().                                           *)
(***************************************************************************)
\* The new instance of a scope there is, built from instances that are alive.
LEMMA GrowLemma ==
  ASSUME ScopeInv, NEW s \in Scopes, IsOpened(s), s \notin disposed, NEW N, N \subseteq DOMAIN made,
         made' = Append(made, [scope |-> s, needs |-> N]),
         creationOrder' = [creationOrder EXCEPT ![s] = Append(@, Len(made) + 1)],
         UNCHANGED <<opened, disposed, deaths>>
  PROVE  /\ made' \in Seq(Instance) /\ Len(made) + 1 \in DOMAIN made'
         /\ \A st : StackOf(st, made) => StackOf(st, made')
         /\ creationOrder' \in [Scopes -> Seq(Nat)]
         /\ Len(made) + 1 \in ToSet(creationOrder'[s])
         /\ \A c \in Scopes : ToSet(creationOrder[c]) \subseteq ToSet(creationOrder'[c])
         /\ FamilyLives' /\ Built' /\ Buried' /\ UsersGoFirst'
         /\ \A c \in Scopes : Ordered(c)'
<1> DEFINE n == Len(made) + 1
           e == [scope |-> s, needs |-> N]
           o == creationOrder[s]
<1>1. /\ made \in Seq(Instance) /\ n \in Nat /\ DOMAIN made = 1..(n - 1)
      /\ creationOrder \in [Scopes -> Seq(Nat)] /\ o \in Seq(Nat)
  BY DEF ScopeInv, ScopeTypes
<1>2. e \in Instance /\ e.scope = s /\ e.needs = N
  BY <1>1 DEF Instance
<1> HIDE DEF e
<1>3. /\ made' \in Seq(Instance) /\ DOMAIN made' = 1..n /\ n \in DOMAIN made' /\ n \notin DOMAIN made
      /\ \A i \in DOMAIN made : i \in DOMAIN made' /\ made'[i] = made[i]
      /\ \A i \in DOMAIN made' : i \in DOMAIN made \/ i = n
      /\ made'[n] = e
  BY <1>1, <1>2 DEF e
<1>4. \A st : StackOf(st, made) => StackOf(st, made')
  BY <1>3 DEF StackOf, FrameSound
<1> DEFINE p == Append(o, n)
<1>5. /\ p \in Seq(Nat) /\ DOMAIN p = 1..(Len(o) + 1) /\ Len(o) \in Nat /\ DOMAIN o = 1..Len(o)
      /\ \A k \in DOMAIN o : p[k] = o[k]
      /\ p[Len(o) + 1] = n
  BY <1>1
<1>6. creationOrder' \in [Scopes -> Seq(Nat)] /\ creationOrder'[s] = p
      /\ \A c \in Scopes \ {s} : creationOrder'[c] = creationOrder[c]
  BY <1>1, <1>5
<1> HIDE DEF o, p
<1>7. ToSet(p) = ToSet(o) \cup {n}
  <2>1. ToSet(o) \subseteq ToSet(p) /\ n \in ToSet(p)
    BY <1>5 DEF ToSet
  <2>2. \A k \in DOMAIN p : p[k] \in ToSet(o) \cup {n}
    BY <1>5 DEF ToSet
  <2>. QED  BY <2>1, <2>2 DEF ToSet
<1>8. FamilyLives' /\ Buried' /\ UsersGoFirst'
  <2>1. FamilyLives' /\ UsersGoFirst'
    <3>1. \A k \in DOMAIN deaths : deaths[k] \in DOMAIN made
      BY DEF ScopeInv, Buried, ToSet
    <3>. QED  BY <3>1, <1>3 DEF ScopeInv, FamilyLives, UsersGoFirst, Live
  <2>2. ToSet(deaths) = {i \in DOMAIN made' : made'[i].scope \in disposed}
    BY <1>2, <1>3 DEF ScopeInv, Buried
  <2>. QED  BY <2>1, <2>2 DEF ScopeInv, Buried
<1>9. Built'
  <2>1. \A d \in N : d \in DOMAIN made' /\ d < n
    BY <1>1, <1>3
  <2>2. IsOpened(s)'
    BY DEF IsOpened
  <2>3. \A i \in DOMAIN made : IsOpened(made[i].scope)' /\ \A d \in made[i].needs : d \in DOMAIN made' /\ d < i
    BY <1>3 DEF ScopeInv, Built, IsOpened
  <2>. QED  BY <2>1, <2>2, <2>3, <1>2, <1>3 DEF Built
<1>10. ASSUME NEW c \in Scopes PROVE Ordered(c)'
  <2>1. Ordered(c)
    BY DEF ScopeInv, Owners
  <2>2. CASE c # s
    BY <2>1, <2>2, <1>2, <1>3, <1>6 DEF Ordered
  <2>3. CASE c = s
    <3>1. \A i \in ToSet(o) : i \in DOMAIN made /\ made[i].scope = s
      BY <2>1, <2>3 DEF Ordered, o
    <3>2. Increasing(o)
      BY <2>1, <2>3 DEF Ordered, o
    <3>3. Increasing(p)
      <4>1. ASSUME NEW k \in DOMAIN o PROVE o[k] < n
        <5>1. o[k] \in ToSet(o)
          BY DEF ToSet
        <5>2. o[k] \in 1..(n - 1)
          BY <5>1, <3>1, <1>1
        <5>. QED  BY <5>2, <1>1
      <4>2. \A k \in DOMAIN p : k \in DOMAIN o \/ k = Len(o) + 1
        BY <1>5
      <4>. QED  BY <3>2, <4>1, <4>2, <1>5 DEF Increasing
    <3>4. \A i \in ToSet(p) : i \in DOMAIN made' /\ made'[i].scope = s
      BY <3>1, <1>2, <1>3, <1>7
    <3>5. \A i \in DOMAIN made' : made'[i].scope = s => i \in ToSet(p)
      BY <2>1, <2>3, <1>3, <1>7 DEF Ordered, o
    <3>. QED  BY <2>3, <3>3, <3>4, <3>5, <1>6 DEF Ordered
  <2>. QED  BY <2>2, <2>3
<1>11. \A c \in Scopes : ToSet(creationOrder[c]) \subseteq ToSet(creationOrder'[c])
  BY <1>6, <1>7 DEF o
<1>. QED  BY <1>3, <1>4, <1>6, <1>7, <1>8, <1>9, <1>10, <1>11

\* What is handed out after a scope has taken one more.
LEMMA TakenLemma ==
  ASSUME ScopeInv, NEW s \in Scopes, NEW t, UNCHANGED <<opened, disposed>>,
         NEW i, i \in ToSet(creationOrder'[s]),
         \A c \in Scopes : ToSet(creationOrder[c]) \subseteq ToSet(creationOrder'[c]),
         instances' = [instances EXCEPT ![s] = With(@, t, i)],
         DOMAIN delegated' = Scopes,
         \A c \in Scopes : \A u \in DOMAIN delegated'[c] :
              /\ Live(c) /\ Parent[c] # NoScope
              /\ \/ delegated'[c][u] \in ToSet(creationOrder[Parent[c]])
                 \/ delegated'[c][u] = i /\ Parent[c] = s
  PROVE  DOMAIN instances' = Scopes /\ \A c \in Scopes : Handed(c)'
<1>1. HandedOut(instances, delegated) /\ \A c \in Scopes : Live(c)' <=> Live(c)
  BY HandedLemma DEF Live
<1>2. DOMAIN instances' = Scopes
  BY <1>1 DEF HandedOut
<1>3. ASSUME NEW c \in Scopes PROVE Handed(c)'
  <2>1. \A u \in DOMAIN instances'[c] : instances'[c][u] \in ToSet(creationOrder'[c])
    BY <1>1 DEF HandedOut, With
  <2>2. \A u \in DOMAIN delegated'[c] : delegated'[c][u] \in ToSet(creationOrder'[Parent[c]])
    BY ParentLemma DEF ScopeInv, ScopeTypes
  <2>. QED  BY <2>1, <2>2, <1>1 DEF Handed
<1>. QED  BY <1>2, <1>3

\* The instance a factory returned is answered with, or restored first.
LEMMA AdoptLemma ==
  ASSUME ScopeInv, frames # <<>>, Top.scope \notin disposed,
         NEW q \in Seq(Instance), NEW i \in DOMAIN q, q[i].scope = Top.scope,
         \A st : StackOf(st, made) => StackOf(st, q), Adopt(i)
  PROVE  /\ StackOf(frames', q) /\ DOMAIN delegated' = Scopes
         /\ \A s \in Scopes : \A t \in DOMAIN delegated'[s] :
              /\ Live(s) /\ Parent[s] # NoScope
              /\ \/ delegated'[s][t] \in ToSet(creationOrder[Parent[s]])
                 \/ delegated'[s][t] = i /\ Parent[s] = Top.scope
<1>1. /\ StackOf(frames, q) /\ StackOf(Thrown, q) /\ HandedOut(instances, delegated)
      /\ Top \in GetFrame /\ frames \in Seq(GetFrame)
  BY TopLemma, HandedLemma DEF ScopeInv, ScopeTypes, FramesSound
<1>2. CASE Top.token \in lazyHydration[Top.scope]
  <2> DEFINE n == Len(frames)
             f == [Top EXCEPT !.instance = i, !.got = {}]
             g == [frames EXCEPT ![n] = f]
  <2>1. n \in DOMAIN frames /\ frames[n] = Top /\ i \in Nat
    BY <1>1 DEF Top, Last
  <2>2. /\ f \in GetFrame /\ f.scope = Top.scope /\ f.asked = Top.asked
        /\ f.got = {} /\ f.instance = i
    BY <2>1, <1>1 DEF GetFrame
  <2>3. frames' = g /\ delegated' = delegated
    <3>1. frames' = [frames EXCEPT ![n].instance = i, ![n].got = {}] /\ delegated' = delegated
      BY <1>2 DEF Adopt
    <3>2. [frames EXCEPT ![n].instance = i, ![n].got = {}] = g
      BY <2>1
    <3>. QED  BY <3>1, <3>2
  <2> HIDE DEF f
  <2>4. g \in Seq(GetFrame) /\ DOMAIN g = DOMAIN frames /\ \A k \in DOMAIN frames : g[k] = IF k = n THEN f ELSE frames[k]
    BY <2>1, <2>2, <1>1
  <2>5. FrameSound(f, q)
    BY <2>1, <2>2, <1>1 DEF FrameSound, StackOf
  <2>6. StackOf(g, q)
    BY <2>4, <2>5, <1>1 DEF StackOf
  <2>. QED  BY <2>3, <2>6, <1>1 DEF HandedOut
<1>3. CASE Top.token \notin lazyHydration[Top.scope]
  <2>1. Answer(i)
    BY <1>3 DEF Adopt
  <2>. QED  BY <2>1, <1>1, AnswerLemma
<1>. QED  BY <1>2, <1>3

LEMMA FactoryReturnsAnotherStep ==
  ASSUME ScopeInv, NEW i, FactoryReturnsAnother(i)
  PROVE  ScopeInv'
<1> DEFINE s == Top.scope
<1>1. /\ frames # <<>> /\ s \notin disposed /\ i \in ToSet(creationOrder[s])
      /\ Adopt(i) /\ UNCHANGED <<opened, disposed, made, deaths>>
      /\ made \in Seq(Instance) /\ s \in Scopes /\ creationOrder \in [Scopes -> Seq(Nat)]
  BY TopLemma DEF FactoryReturnsAnother, Creating, Survived, Adopt, keptVars, ScopeInv, ScopeTypes
<1>2. /\ instances' = [instances EXCEPT ![s] = With(@, Top.token, i)]
      /\ creationOrder' = [creationOrder EXCEPT ![s] = IF i \in ToSet(@) THEN @ ELSE Append(@, i)]
  BY <1>1 DEF Adopt
<1>3. creationOrder' = creationOrder
  BY <1>1, <1>2
<1>4. i \in DOMAIN made /\ made[i].scope = s
  BY <1>1, AliveLemma
<1>5. /\ StackOf(frames', made) /\ DOMAIN delegated' = Scopes
      /\ \A c \in Scopes : \A t \in DOMAIN delegated'[c] :
              /\ Live(c) /\ Parent[c] # NoScope
              /\ \/ delegated'[c][t] \in ToSet(creationOrder[Parent[c]])
                 \/ delegated'[c][t] = i /\ Parent[c] = s
  BY <1>1, <1>4, AdoptLemma
<1> HIDE DEF s
<1>6. HandedOut([instances EXCEPT ![s] = With(@, Top.token, i)], delegated)
  BY <1>1, HandedLemma, WithLemma
<1>7. HandedOut(instances', delegated')
  BY <1>1, <1>2, <1>5, <1>6 DEF HandedOut
<1>. QED  BY <1>1, <1>3, <1>5, <1>7, KeepLemma

LEMMA FactoryReturnsStep ==
  ASSUME ScopeInv, FactoryReturns
  PROVE  ScopeInv'
<1> DEFINE s == Top.scope
           n == Len(made) + 1
           N == {d \in Top.got : ~IsDead(d)}
<1>1. /\ frames # <<>> /\ made' = Append(made, [scope |-> s, needs |-> N])
      /\ UNCHANGED <<opened, disposed>>
      /\ s \in Scopes /\ IsOpened(s) /\ N \subseteq DOMAIN made /\ StackOf(Thrown, made)
  BY TopLemma DEF FactoryReturns, Creating, Adopt, keptVars, FrameSound
<1>2. /\ made \in Seq(Instance) /\ n \in Nat /\ DOMAIN made = 1..(n - 1) /\ n \notin DOMAIN made
      /\ creationOrder \in [Scopes -> Seq(Nat)]
  BY DEF ScopeInv, ScopeTypes
<1>3. CASE Survived(s)
  <2>1. Adopt(n) /\ s \notin disposed /\ deaths' = deaths
    BY <1>3 DEF FactoryReturns, Adopt, Survived
  <2>2. n \notin ToSet(creationOrder[s])
    BY <1>1, <1>2, AliveLemma
  <2>3. /\ creationOrder' = [creationOrder EXCEPT ![s] = Append(@, n)]
        /\ instances' = [instances EXCEPT ![s] = With(@, Top.token, n)]
    BY <2>1, <2>2, <1>1, <1>2 DEF Adopt
  <2>4. made'[n].scope = s
    BY <1>1, <1>2
  <2> HIDE DEF N
  <2>5. /\ made' \in Seq(Instance) /\ n \in DOMAIN made'
        /\ \A st : StackOf(st, made) => StackOf(st, made')
        /\ creationOrder' \in [Scopes -> Seq(Nat)]
        /\ n \in ToSet(creationOrder'[s])
        /\ \A c \in Scopes : ToSet(creationOrder[c]) \subseteq ToSet(creationOrder'[c])
        /\ FamilyLives' /\ Built' /\ Buried' /\ UsersGoFirst'
        /\ \A c \in Scopes : Ordered(c)'
    BY <2>1, <2>3, <1>1, GrowLemma
  <2> HIDE DEF s, n
  <2>6. /\ StackOf(frames', made') /\ DOMAIN delegated' = Scopes
        /\ \A c \in Scopes : \A t \in DOMAIN delegated'[c] :
              /\ Live(c) /\ Parent[c] # NoScope
              /\ \/ delegated'[c][t] \in ToSet(creationOrder[Parent[c]])
                 \/ delegated'[c][t] = n /\ Parent[c] = s
    BY <2>1, <2>4, <2>5, <1>1, AdoptLemma DEF s
  <2>7. DOMAIN instances' = Scopes /\ \A c \in Scopes : Handed(c)'
    BY <2>3, <2>5, <2>6, <1>1, TakenLemma
  <2>8. ScopeTypes' /\ FramesSound' /\ Owners'
    <3>1. FramesSound'
      BY <2>6, <1>1 DEF FramesSound, StackOf, FrameSound, IsOpened
    <3>2. ScopeTypes'
      BY <2>1, <2>5, <2>6, <2>7, <1>1 DEF ScopeInv, ScopeTypes, StackOf
    <3>. QED  BY <3>1, <3>2, <2>5, <2>7 DEF Owners
  <2>. QED  BY <2>5, <2>8 DEF ScopeInv
<1>4. CASE ~Survived(s)
  <2>1. /\ deaths' = Append(deaths, n) /\ frames' = Thrown /\ s \in disposed
        /\ UNCHANGED <<instances, creationOrder, delegated>>
    BY <1>4 DEF FactoryReturns, Survived
  <2> DEFINE e == [scope |-> s, needs |-> N]
  <2>2. e \in Instance /\ e.scope = s /\ e.needs = N
    BY <1>1, <1>2 DEF Instance
  <2>3. \A d \in N : d \in DOMAIN made /\ made[d].scope \notin disposed
    BY <1>1, AliveLemma
  <2> HIDE DEF e, N
  <2>4. /\ made' \in Seq(Instance) /\ DOMAIN made' = 1..n
        /\ \A i \in DOMAIN made : i \in DOMAIN made' /\ made'[i] = made[i]
        /\ \A i \in DOMAIN made' : i \in DOMAIN made \/ i = n
        /\ n \in DOMAIN made' /\ made'[n] = e
    BY <1>1, <1>2, <2>2 DEF e
  <2>5. /\ deaths \in Seq(Nat) /\ IsInjective(deaths)
        /\ ToSet(deaths) = {i \in DOMAIN made : made[i].scope \in disposed}
    BY DEF ScopeInv, ScopeTypes, Buried
  <2>6. /\ deaths' \in Seq(Nat) /\ DOMAIN deaths' = 1..(Len(deaths) + 1) /\ DOMAIN deaths = 1..Len(deaths)
        /\ Len(deaths) \in Nat
        /\ \A k \in DOMAIN deaths : deaths'[k] = deaths[k] /\ deaths[k] \in DOMAIN made
        /\ deaths'[Len(deaths) + 1] = n
        /\ \A k \in DOMAIN deaths' : k \in DOMAIN deaths \/ k = Len(deaths) + 1
    <3>1. \A k \in DOMAIN deaths : deaths[k] \in DOMAIN made
      BY <2>5 DEF ToSet
    <3>. QED  BY <3>1, <2>1, <2>5, <1>2
  <2>7. Buried'
    <3>1. IsInjective(deaths')
      BY <2>5, <2>6, <1>2 DEF IsInjective
    <3>2. ToSet(deaths') = ToSet(deaths) \cup {n}
      <4>1. ToSet(deaths') \subseteq ToSet(deaths) \cup {n}
        BY <2>6 DEF ToSet
      <4>2. ToSet(deaths) \subseteq ToSet(deaths')
        BY <2>6 DEF ToSet
      <4>3. n \in ToSet(deaths')
        BY <2>6 DEF ToSet
      <4>. QED  BY <4>1, <4>2, <4>3
    <3>3. ToSet(deaths') = {i \in DOMAIN made' : made'[i].scope \in disposed}
      BY <3>2, <2>1, <2>2, <2>4, <2>5
    <3>. QED  BY <3>1, <3>3, <1>1 DEF Buried
  <2>8. UsersGoFirst'
    <3>1. ASSUME NEW j \in DOMAIN deaths', NEW k \in DOMAIN deaths', j < k,
                 deaths'[j] \in made'[deaths'[k]].needs,
                 made'[deaths'[j]].scope \in {made'[deaths'[k]].scope, Parent[made'[deaths'[k]].scope]}
          PROVE  FALSE
      <4>1. j \in DOMAIN deaths
        BY <3>1, <2>6
      <4>2. CASE k \in DOMAIN deaths
        BY <3>1, <4>1, <4>2, <2>4, <2>6 DEF ScopeInv, UsersGoFirst
      <4>3. CASE k \notin DOMAIN deaths
        <5>1. deaths[j] \in N
          BY <3>1, <4>1, <4>3, <2>2, <2>4, <2>6
        <5>2. deaths[j] \in ToSet(deaths)
          BY <4>1 DEF ToSet
        <5>. QED  BY <5>1, <5>2, <2>3, <2>5
      <4>. QED  BY <4>2, <4>3
    <3>. QED  BY <3>1 DEF UsersGoFirst
  <2>9. Built'
    <3>1. \A i \in DOMAIN made : IsOpened(made[i].scope)' /\ \A d \in made[i].needs : d \in DOMAIN made' /\ d < i
      BY <2>4, <1>1 DEF ScopeInv, Built, IsOpened
    <3>2. \A d \in N : d \in DOMAIN made' /\ d < n
      BY <2>3, <2>4, <1>2
    <3>. QED  BY <3>1, <3>2, <2>2, <2>4, <1>1 DEF Built, IsOpened
  <2>10. ASSUME NEW c \in Scopes PROVE Ordered(c)' /\ Handed(c)'
    <3>1. Ordered(c) /\ Handed(c) /\ UNCHANGED <<creationOrder, disposed, instances, delegated, opened>>
      BY <2>1, <1>1 DEF ScopeInv, Owners
    <3>. QED  BY <3>1, <2>1, <2>2, <2>4 DEF Ordered, Handed, Live
  <2>11. FamilyLives' /\ FramesSound' /\ ScopeTypes'
    <3>1. StackOf(Thrown, made')
      BY <1>1, <2>4 DEF StackOf, FrameSound
    <3>2. FramesSound'
      BY <3>1, <2>1, <1>1 DEF FramesSound, StackOf, FrameSound, IsOpened
    <3>3. ScopeTypes'
      BY <3>1, <1>1, <2>1, <2>4, <2>6 DEF ScopeInv, ScopeTypes, StackOf
    <3>. QED  BY <3>2, <3>3, <1>1 DEF ScopeInv, FamilyLives, Live
  <2>. QED  BY <2>7, <2>8, <2>9, <2>10, <2>11 DEF ScopeInv, Owners
<1>. QED  BY <1>3, <1>4

LEMMA SetStep ==
  ASSUME ScopeInv, NEW s \in Scopes, NEW t \in Tokens, NEW i, Set(s, t, i)
  PROVE  ScopeInv'
<1>1. /\ Live(s) /\ UNCHANGED <<opened, disposed, frames, deaths>>
      /\ instances' = [instances EXCEPT ![s] = With(@, t, i)]
      /\ delegated' = [delegated EXCEPT ![s] = Without(@, t)]
      /\ HandedOut(instances, delegated) /\ StackOf(frames, made) /\ made \in Seq(Instance)
  BY HandedLemma DEF Set, keptVars, ScopeInv, ScopeTypes, FramesSound
<1>2. HandedOut(instances, delegated')
  BY <1>1, WithoutLemma
<1>3. CASE i \in ToSet(creationOrder[s]) /\ UNCHANGED <<made, creationOrder>>
  BY <1>1, <1>2, <1>3, WithLemma, KeepLemma
<1>4. CASE /\ i = Len(made) + 1
           /\ made' = Append(made, [scope |-> s, needs |-> {}])
           /\ creationOrder' = [creationOrder EXCEPT ![s] = Append(@, i)]
  <2>1. IsOpened(s) /\ s \notin disposed
    BY <1>1 DEF Live, IsOpened
  <2>2. /\ made' \in Seq(Instance)
        /\ \A st : StackOf(st, made) => StackOf(st, made')
        /\ creationOrder' \in [Scopes -> Seq(Nat)]
        /\ i \in ToSet(creationOrder'[s])
        /\ \A c \in Scopes : ToSet(creationOrder[c]) \subseteq ToSet(creationOrder'[c])
        /\ FamilyLives' /\ Built' /\ Buried' /\ UsersGoFirst'
        /\ \A c \in Scopes : Ordered(c)'
    <3> DEFINE N == {}
    <3>1. /\ N \subseteq DOMAIN made
          /\ made' = Append(made, [scope |-> s, needs |-> N])
          /\ creationOrder' = [creationOrder EXCEPT ![s] = Append(@, Len(made) + 1)]
      BY <1>4
    <3> HIDE DEF N
    <3>2. /\ made' \in Seq(Instance)
          /\ \A st : StackOf(st, made) => StackOf(st, made')
          /\ creationOrder' \in [Scopes -> Seq(Nat)]
          /\ Len(made) + 1 \in ToSet(creationOrder'[s])
          /\ \A c \in Scopes : ToSet(creationOrder[c]) \subseteq ToSet(creationOrder'[c])
          /\ FamilyLives' /\ Built' /\ Buried' /\ UsersGoFirst'
          /\ \A c \in Scopes : Ordered(c)'
      BY <2>1, <3>1, <1>1, GrowLemma
    <3>. QED  BY <3>2, <1>4
  <2>3. DOMAIN instances' = Scopes /\ \A c \in Scopes : Handed(c)'
    <3>1. /\ DOMAIN delegated' = Scopes
          /\ \A c \in Scopes : \A u \in DOMAIN delegated'[c] :
               Live(c) /\ Parent[c] # NoScope /\ delegated'[c][u] \in ToSet(creationOrder[Parent[c]])
      BY <1>2 DEF HandedOut
    <3>. QED  BY <3>1, <2>2, <1>1, TakenLemma
  <2>4. ScopeTypes' /\ FramesSound' /\ Owners'
    <3>1. FramesSound'
      BY <2>2, <1>1 DEF FramesSound, StackOf, FrameSound, IsOpened
    <3>2. ScopeTypes'
      BY <2>2, <2>3, <1>1, <1>2 DEF ScopeInv, ScopeTypes, HandedOut
    <3>. QED  BY <3>1, <3>2, <2>2, <2>3 DEF Owners
  <2>. QED  BY <2>2, <2>4 DEF ScopeInv
<1>. QED  BY <1>3, <1>4 DEF Set

-----------------------------------------------------------------------------
LEMMA ChildStep ==
  ASSUME ScopeInv, NEW s \in Scopes, Child(s)
  PROVE  ScopeInv'
<1>1. /\ Parent[s] # NoScope /\ Live(Parent[s]) /\ s \notin ToSet(opened)
      /\ opened' = Append(opened, s)
      /\ UNCHANGED <<disposed, instances, creationOrder, delegated, frames, made, deaths>>
      /\ opened \in Seq(Scopes) /\ IsInjective(opened)
  BY DEF Child, ScopeInv, ScopeTypes
<1>2. /\ opened' \in Seq(Scopes) /\ DOMAIN opened = 1..Len(opened) /\ DOMAIN opened' = 1..(Len(opened) + 1)
      /\ Len(opened) \in Nat /\ \A k \in DOMAIN opened : opened'[k] = opened[k]
      /\ opened'[Len(opened) + 1] = s
      /\ \A k \in DOMAIN opened' : k \in DOMAIN opened \/ k = Len(opened) + 1
  BY <1>1
<1>3. \A k \in DOMAIN opened : opened[k] # s
  BY <1>1 DEF ToSet
<1>4. IsInjective(opened')
  BY <1>1, <1>2, <1>3 DEF IsInjective
<1>5. ToSet(opened') = ToSet(opened) \cup {s}
  <2>1. ToSet(opened) \subseteq ToSet(opened') /\ s \in ToSet(opened')
    BY <1>2 DEF ToSet
  <2>2. \A k \in DOMAIN opened' : opened'[k] \in ToSet(opened) \cup {s}
    BY <1>2 DEF ToSet
  <2>. QED  BY <2>1, <2>2 DEF ToSet
<1>6. /\ \A c : IsOpened(c) => IsOpened(c)'
      /\ \A c : Live(c) => Live(c)'
      /\ \A c : Live(c)' => Live(c) \/ c = s
  BY <1>1, <1>5 DEF IsOpened, Live
<1>7. ScopeTypes' /\ Built' /\ Buried' /\ UsersGoFirst'
  BY <1>1, <1>2, <1>4, <1>6 DEF ScopeInv, ScopeTypes, Built, Buried, UsersGoFirst
<1>8. FamilyLives'
  BY <1>1, <1>6 DEF ScopeInv, FamilyLives, Live
<1>9. Owners'
  BY <1>1, <1>6 DEF ScopeInv, Owners, Ordered, Handed
<1>10. FramesSound'
  BY <1>1, <1>6 DEF ScopeInv, FramesSound, StackOf, FrameSound
<1>. QED  BY <1>7, <1>8, <1>9, <1>10 DEF ScopeInv

LEMMA DisposeStep ==
  ASSUME ScopeInv, NEW s \in Scopes, Dispose(s)
  PROVE  ScopeInv'
<1> DEFINE F == ChildrenOf(s) \cup {s}
           D == Deaths(s)
<1>1. /\ Live(s) /\ disposed' = disposed \cup F /\ deaths' = deaths \o D
      /\ creationOrder' = [c \in Scopes |-> IF c \in F THEN <<>> ELSE creationOrder[c]]
      /\ instances' = [c \in Scopes |-> IF c \in F THEN <<>> ELSE instances[c]]
      /\ delegated' = [c \in Scopes |-> IF c \in F THEN <<>> ELSE delegated[c]]
      /\ UNCHANGED <<opened, frames, made>>
  BY DEF Dispose
<1>2. /\ D \in Seq(Nat) /\ ToSet(D) = {i \in DOMAIN made : made[i].scope \in F}
      /\ \A j, k \in DOMAIN D : j < k => Precedes(s, D[j], D[k])
  BY <1>1, DeathsLemma
<1>3. /\ s \notin disposed /\ ChildrenOf(s) \subseteq Scopes
      /\ \A c \in ChildrenOf(s) : Parent[c] = s /\ c \notin disposed /\ IsOpened(c)
      /\ \A c \in Scopes : Live(c) /\ Parent[c] = s => c \in ChildrenOf(s)
  BY <1>1, ParentLemma DEF Live, ScopeInv, ScopeTypes, ChildrenOf, ToSet, IsOpened, ScopeAssumption
<1>4. ScopeAssumption /\ made \in Seq(Instance) /\ deaths \in Seq(Nat)
      /\ \A i \in DOMAIN made : made[i].scope \in Scopes /\ i \in Nat
  <2>1. ScopeAssumption /\ made \in Seq(Instance) /\ deaths \in Seq(Nat)
    BY DEF ScopeInv, ScopeTypes
  <2>2. \A i \in DOMAIN made : made[i] \in Instance /\ i \in Nat
    BY <2>1
  <2>. QED  BY <2>1, <2>2 DEF Instance
<1> HIDE DEF D
<1>5. /\ deaths' \in Seq(Nat) /\ DOMAIN deaths' = 1..(Len(deaths) + Len(D))
      /\ DOMAIN deaths = 1..Len(deaths) /\ DOMAIN D = 1..Len(D) /\ Len(deaths) \in Nat /\ Len(D) \in Nat
      /\ \A k \in DOMAIN deaths : deaths'[k] = deaths[k]
      /\ \A k \in DOMAIN D : deaths'[Len(deaths) + k] = D[k]
  BY <1>1, <1>2, <1>4
<1>6. \A k \in DOMAIN deaths' : k \in DOMAIN deaths \/ (k - Len(deaths) \in DOMAIN D /\ deaths'[k] = D[k - Len(deaths)])
  BY <1>5
<1>7. /\ \A k \in DOMAIN D : D[k] \in DOMAIN made /\ made[D[k]].scope \in F
      /\ \A k \in DOMAIN deaths : deaths[k] \in DOMAIN made /\ made[deaths[k]].scope \in disposed
  <2>1. \A k \in DOMAIN D : D[k] \in ToSet(D)
    BY DEF ToSet
  <2>2. \A k \in DOMAIN deaths : deaths[k] \in ToSet(deaths)
    BY DEF ToSet
  <2>. QED  BY <2>1, <2>2, <1>2 DEF ScopeInv, Buried
<1>8. \A c \in F : c \notin disposed /\ c \in Scopes
  BY <1>3
<1>9. ASSUME NEW j \in DOMAIN D, NEW k \in DOMAIN D, j < k
      PROVE  /\ D[j] # D[k]
             /\ ~(D[j] \in made[D[k]].needs /\ made[D[j]].scope \in {made[D[k]].scope, Parent[made[D[k]].scope]})
  <2>1. Precedes(s, D[j], D[k]) /\ D[j] \in DOMAIN made /\ D[k] \in DOMAIN made
    BY <1>2, <1>7, <1>9
  <2>2. CASE made[D[j]].scope = made[D[k]].scope /\ D[j] > D[k]
    <3>1. \A d \in made[D[k]].needs : d < D[k]
      BY <2>1 DEF ScopeInv, Built
    <3>. QED  BY <2>1, <2>2, <3>1, <1>4
  <2>3. CASE /\ made[D[j]].scope \in ChildrenOf(s) /\ made[D[k]].scope \in ChildrenOf(s) \cup {s}
             /\ made[D[j]].scope # made[D[k]].scope
    <3>1. Parent[made[D[j]].scope] = s /\ s \in Scopes /\ s # NoScope
      BY <2>3, <1>3, <1>4 DEF ScopeAssumption
    <3>2. made[D[j]].scope # s
      BY <3>1, <1>4, ParentLemma
    <3>3. CASE made[D[k]].scope \in ChildrenOf(s)
      BY <2>3, <3>2, <3>3, <1>3
    <3>4. CASE made[D[k]].scope = s
      <4>1. made[D[j]].scope # Parent[s]
        BY <3>1, <2>1, <1>4, ParentLemma
      <4>. QED  BY <2>3, <3>4, <4>1
    <3>. QED  BY <2>3, <3>3, <3>4
  <2>. QED  BY <2>1, <2>2, <2>3 DEF Precedes
<1>10. Buried'
  <2>1. ASSUME NEW j \in DOMAIN deaths', NEW k \in DOMAIN deaths', j < k
        PROVE  deaths'[j] # deaths'[k]
    <3>1. CASE k \in DOMAIN deaths
      <4>1. j \in DOMAIN deaths
        BY <2>1, <3>1, <1>5
      <4>. QED  BY <2>1, <3>1, <4>1, <1>5 DEF ScopeInv, Buried, IsInjective
    <3>2. CASE k \notin DOMAIN deaths /\ j \in DOMAIN deaths
      BY <3>2, <1>5, <1>6, <1>7, <1>8
    <3>3. CASE k \notin DOMAIN deaths /\ j \notin DOMAIN deaths
      <4>1. j - Len(deaths) < k - Len(deaths)
        BY <2>1, <1>5
      <4>. QED  BY <3>3, <4>1, <1>6, <1>9
    <3>. QED  BY <3>1, <3>2, <3>3
  <2>2. IsInjective(deaths')
    <3>1. \A j, k \in DOMAIN deaths' : j # k => j < k \/ k < j
      BY <1>5
    <3>. QED  BY <2>1, <3>1 DEF IsInjective
  <2>3. ToSet(deaths') = ToSet(deaths) \cup ToSet(D)
    <3>1. ToSet(deaths') \subseteq ToSet(deaths) \cup ToSet(D)
      BY <1>5, <1>6 DEF ToSet
    <3>2. ToSet(deaths) \subseteq ToSet(deaths')
      BY <1>5 DEF ToSet
    <3>3. ToSet(D) \subseteq ToSet(deaths')
      <4>1. \A k \in DOMAIN D : Len(deaths) + k \in DOMAIN deaths'
        BY <1>5
      <4>. QED  BY <4>1, <1>5 DEF ToSet
    <3>. QED  BY <3>1, <3>2, <3>3
  <2>4. ToSet(deaths) = {i \in DOMAIN made : made[i].scope \in disposed}
    BY DEF ScopeInv, Buried
  <2>5. ToSet(deaths') = {i \in DOMAIN made : made[i].scope \in disposed \cup F}
    BY <2>3, <2>4, <1>2
  <2>. QED  BY <2>2, <2>5, <1>1 DEF Buried
<1>11. UsersGoFirst'
  <2>1. ASSUME NEW j \in DOMAIN deaths', NEW k \in DOMAIN deaths', j < k,
               deaths'[j] \in made[deaths'[k]].needs,
               made[deaths'[j]].scope \in {made[deaths'[k]].scope, Parent[made[deaths'[k]].scope]}
        PROVE  FALSE
    <3>1. CASE k \in DOMAIN deaths
      <4>1. j \in DOMAIN deaths
        BY <2>1, <3>1, <1>5
      <4>. QED  BY <2>1, <3>1, <4>1, <1>5 DEF ScopeInv, UsersGoFirst
    <3>2. CASE k \notin DOMAIN deaths /\ j \in DOMAIN deaths
      <4> DEFINE c == made[deaths'[k]].scope
                 b == made[deaths'[j]].scope
      <4>1. c \in F /\ b \in disposed
        BY <3>2, <1>5, <1>6, <1>7
      <4>2. b = Parent[c] /\ b \in Scopes /\ c \in Scopes
        BY <4>1, <2>1, <1>8, <3>2, <1>5, <1>7, <1>4
      <4>3. Live(c) /\ Parent[c] # NoScope
        <5>1. b # NoScope
          BY <4>2, <1>4 DEF ScopeAssumption
        <5>2. Live(c)
          BY <4>1, <1>1, <1>3 DEF Live, IsOpened
        <5>. QED  BY <5>1, <5>2, <4>2
      <4>. QED  BY <4>1, <4>2, <4>3 DEF ScopeInv, FamilyLives
    <3>3. CASE k \notin DOMAIN deaths /\ j \notin DOMAIN deaths
      <4>1. j - Len(deaths) < k - Len(deaths)
        BY <2>1, <1>5
      <4>. QED  BY <2>1, <3>3, <4>1, <1>6, <1>9
    <3>. QED  BY <3>1, <3>2, <3>3
  <2>. QED  BY <2>1, <1>1 DEF UsersGoFirst
<1>12. \A c \in Scopes : Live(c)' => Live(c) /\ c \notin F
  BY <1>1 DEF Live
<1>13. FamilyLives'
  <2>1. ASSUME NEW c \in Scopes, Live(c)', Parent[c] # NoScope PROVE Parent[c] \notin disposed'
    <3>1. Live(c) /\ c \notin F /\ Parent[c] \notin disposed
      BY <2>1, <1>12 DEF ScopeInv, FamilyLives
    <3>2. Parent[c] # s
      BY <3>1, <1>3
    <3>3. Parent[c] \notin ChildrenOf(s)
      <4>1. Parent[Parent[c]] = NoScope /\ s # NoScope
        BY <2>1, <1>4 DEF ScopeAssumption
      <4>. QED  BY <4>1, <1>3
    <3>. QED  BY <3>1, <3>2, <3>3, <1>1
  <2>. QED  BY <2>1 DEF FamilyLives
<1>14. ASSUME NEW c \in Scopes PROVE Ordered(c)' /\ Handed(c)'
  <2>1. Ordered(c) /\ Handed(c)
    BY DEF ScopeInv, Owners
  <2>2. CASE c \in F
    <3>1. creationOrder'[c] = <<>> /\ instances'[c] = <<>> /\ delegated'[c] = <<>> /\ c \in disposed'
      BY <2>2, <1>1
    <3>2. ToSet(<<>>) = {} /\ Increasing(<<>>)
      BY DEF ToSet, Increasing
    <3>. QED  BY <3>1, <3>2 DEF Ordered, Handed
  <2>3. CASE c \notin F
    <3>1. creationOrder'[c] = creationOrder[c] /\ instances'[c] = instances[c] /\ delegated'[c] = delegated[c]
          /\ (c \in disposed' <=> c \in disposed)
      BY <2>3, <1>1
    <3>2. Ordered(c)'
      BY <2>1, <3>1, <1>1 DEF Ordered
    <3>3. ASSUME NEW t \in DOMAIN delegated[c]
          PROVE  Live(c)' /\ Parent[c] # NoScope /\ delegated[c][t] \in ToSet(creationOrder'[Parent[c]])
      <4>1. Live(c) /\ Parent[c] # NoScope /\ delegated[c][t] \in ToSet(creationOrder[Parent[c]])
        BY <2>1, <3>3 DEF Handed
      <4>2. Parent[c] \in Scopes /\ Parent[Parent[c]] = NoScope
        BY <4>1, <1>4 DEF ScopeAssumption
      <4>3. Parent[c] \notin F
        <5>1. Parent[c] # s
          BY <4>1, <2>3, <1>3
        <5>2. s # NoScope
          BY <1>4 DEF ScopeAssumption
        <5>. QED  BY <5>1, <5>2, <4>2, <1>3
      <4>4. Live(c)'
        BY <4>1, <3>1, <1>1 DEF Live
      <4>. QED  BY <4>1, <4>2, <4>3, <4>4, <1>1
    <3>. QED  BY <3>1, <3>2, <3>3, <2>1 DEF Handed
  <2>. QED  BY <2>2, <2>3
<1>15. ScopeTypes' /\ Built' /\ FramesSound'
  <2>1. creationOrder' \in [Scopes -> Seq(Nat)]
    BY <1>1 DEF ScopeInv, ScopeTypes
  <2>2. disposed' \subseteq Scopes
    BY <1>1, <1>8 DEF ScopeInv, ScopeTypes
  <2>. QED  BY <2>1, <2>2, <1>1, <1>5 DEF ScopeInv, ScopeTypes, Built, FramesSound, StackOf, FrameSound, IsOpened
<1>. QED  BY <1>10, <1>11, <1>13, <1>14, <1>15 DEF ScopeInv, Owners

-----------------------------------------------------------------------------
LEMMA ScopeInitLemma == ScopeAssumption /\ ScopeInit => ScopeInv
<1>. SUFFICES ASSUME ScopeAssumption, ScopeInit PROVE ScopeInv
  OBVIOUS
<1>1. /\ opened = <<>> /\ disposed = {} /\ frames = <<>> /\ made = <<>> /\ deaths = <<>>
      /\ \A s \in Scopes : creationOrder[s] = <<>> /\ instances[s] = <<>> /\ delegated[s] = <<>>
  BY DEF ScopeInit
<1>2. ToSet(<<>>) = {} /\ IsInjective(<<>>) /\ Increasing(<<>>)
  BY DEF ToSet, IsInjective, Increasing
<1>3. ScopeTypes
  BY <1>1, <1>2 DEF ScopeInit, ScopeTypes
<1>4. FamilyLives /\ Built /\ Buried /\ UsersGoFirst
  BY <1>1, <1>2 DEF FamilyLives, Built, Buried, UsersGoFirst, Live
<1>5. Owners
  BY <1>1, <1>2 DEF Owners, Ordered, Handed
<1>6. FramesSound
  BY <1>1 DEF FramesSound, StackOf
<1>. QED  BY <1>3, <1>4, <1>5, <1>6 DEF ScopeInv

LEMMA ScopeStepLemma == ScopeInv /\ [ScopeNext]_scopeVars => ScopeInv'
<1>. SUFFICES ASSUME ScopeInv, [ScopeNext]_scopeVars PROVE ScopeInv'
  OBVIOUS
<1>1. CASE \E s \in Scopes, t \in Tokens :
             \/ GetExisting(s, t) \/ GetCreates(s, t) \/ Hydrate(s, t)
             \/ \E i \in 1..MaxInstances : Set(s, t, i)
  BY <1>1, GetExistingStep, GetCreatesStep, HydrateStep, SetStep
<1>2. CASE \E s \in Scopes : Child(s) \/ Dispose(s)
  BY <1>2, ChildStep, DisposeStep
<1>3. CASE \E i \in 1..MaxInstances : FactoryReturnsAnother(i)
  BY <1>3, FactoryReturnsAnotherStep
<1>4. CASE FactoryReturns \/ FactoryThrows \/ Hydrated \/ HydrationFails
  BY <1>4, FactoryReturnsStep, FactoryThrowsStep, HydratedStep, HydrationFailsStep
<1>5. CASE UNCHANGED scopeVars
  BY <1>5, HandedLemma, KeepLemma DEF scopeVars, ScopeInv, FramesSound
<1>. QED  BY <1>1, <1>2, <1>3, <1>4, <1>5 DEF ScopeNext

LEMMA ScopeInvariance == ScopeSpec => []ScopeInv
BY ScopeAssumption, ScopeInitLemma, ScopeStepLemma, PTL DEF ScopeSpec

\* Every instance a scope created or was given is disposed of exactly once,
\* with its scope or, if its own factory disposed of the scope, at once; what a
\* scope hands out is alive.
THEOREM DieOnce == ScopeSpec => []OwnedDieOnce
<1>1. ASSUME ScopeInv PROVE OwnedDieOnce
  <2>1. ASSUME NEW i \in DOMAIN made
        PROVE  Cardinality({k \in DOMAIN deaths : deaths[k] = i}) = IF made[i].scope \in disposed THEN 1 ELSE 0
    <3> DEFINE K == {k \in DOMAIN deaths : deaths[k] = i}
    <3>1. CASE made[i].scope \in disposed
      <4>1. PICK k \in DOMAIN deaths : deaths[k] = i
        BY <2>1, <3>1, <1>1 DEF ScopeInv, Buried, ToSet
      <4>2. K = {k}
        BY <4>1, <1>1 DEF ScopeInv, Buried, IsInjective
      <4>. QED  BY <3>1, <4>2, FS_Singleton
    <3>2. CASE made[i].scope \notin disposed
      <4>1. K = {}
        BY <2>1, <3>2, <1>1 DEF ScopeInv, Buried, ToSet
      <4>. QED  BY <3>2, <4>1, FS_EmptySet
    <3>. QED  BY <3>1, <3>2
  <2>2. ASSUME NEW s \in Scopes, NEW t \in Tokens
        PROVE  /\ t \in DOMAIN instances[s] => ~IsDead(instances[s][t])
               /\ t \in DOMAIN delegated[s] => ~IsDead(delegated[s][t])
    <3>1. Handed(s)
      BY <1>1 DEF ScopeInv, Owners
    <3>2. Parent[s] # NoScope => Parent[s] \in Scopes
      BY <1>1, ParentLemma DEF ScopeInv, ScopeTypes
    <3>. QED  BY <3>1, <3>2, <1>1, AliveLemma DEF Handed
  <2>. QED  BY <2>1, <2>2 DEF OwnedDieOnce
<1>. QED  BY <1>1, ScopeInvariance, PTL

\* An instance never outlives those its factory was built from, in its own scope
\* or in the parent.
THEOREM UsersFirst == ScopeSpec => []UsersGoFirst
<1>1. ScopeInv => UsersGoFirst
  BY DEF ScopeInv
<1>. QED  BY <1>1, ScopeInvariance, PTL
=============================================================================
