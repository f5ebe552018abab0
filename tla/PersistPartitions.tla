--------------------------- MODULE PersistPartitions ---------------------------
(***************************************************************************)
(* persistPartitions(): the branches of a store mirrored in a storage, one *)
(* entry per branch, from the moment the stored branches are restored to   *)
(* the disposer.                                                           *)
(*                                                                         *)
(* A notification of the store reaches a branch through a subscription of  *)
(* its own.  Between the publication and the call, it is undelivered: on   *)
(* an immediate scheduler because the pass is still running (callbacks of  *)
(* other subscribers may write or dispose in between), on a deferring one  *)
(* because the call is queued.  A branch that is published again before    *)
(* its call is called once.                                                *)
(*                                                                         *)
(* The options are chosen once: `coalesce`, `throttleMs` (or none), and    *)
(* the scheduler of the store.  The storage may fail at any write.         *)
(***************************************************************************)
EXTENDS Naturals, FiniteSets

CONSTANTS
  Partitions,   (* The branches.                                           *)
  Texts,        (* The texts a branch is stringified to.                   *)
  Absent,       (* No text: a branch that is undefined; no entry.          *)
  Broken,       (* A branch that cannot be stringified.                    *)
  Options,      (* The options the application may choose.                 *)
  MaxVersion    (* Bound: publications of the store.                       *)

ASSUME PersistAssumption ==
  /\ Absent \notin Texts
  /\ Broken \notin Texts \cup {Absent}
  /\ Options \subseteq [coalesce : BOOLEAN, throttled : BOOLEAN, deferred : BOOLEAN]
  /\ \A o \in Options : o.throttled => o.coalesce
  /\ MaxVersion \in Nat

VARIABLES
  options,      (* What the application chose.                             *)
  version,      (* getVersion() of the store.                              *)
  wire,         (* Of each branch, its text now.                           *)
  undelivered,  (* Branches with a notification that has not reached them. *)
  stored,       (* The entries of the storage.                             *)
  lastWritten,  (* The last stored text of each branch, as known.          *)
  lastSeen,     (* lastSeenVersion.                                        *)
  sealed,       (* Has every branch been written once?                     *)
  dirty,        (* `pending`: branches for the next dispatch.              *)
  failed,       (* Branches whose last write or removal failed.            *)
  queued,       (* Is a dispatch queued as a microtask?                    *)
  timer,        (* Is the timer set?                                       *)
  window,       (* Is the throttle window of the last write open?          *)
  disposed

persistVars == <<options, version, wire, undelivered, stored, lastWritten, lastSeen, sealed,
          dirty, failed, queued, timer, window, disposed>>
branchVars == <<version, wire>>
writeVars == <<stored, lastWritten, lastSeen, sealed, failed, window>>

Wires == Texts \cup {Absent, Broken}
Entries == Texts \cup {Absent}

-----------------------------------------------------------------------------
\* writeBranchDirect for each branch of B; the storage fails for those of bad.
\* F is the set of branches marked as failed before.
WriteBranches(B, bad, F) ==
  LET tried == {b \in B : wire[b] # Broken}
      differ == {b \in tried : wire[b] # lastWritten[b]}
      done == differ \ bad
  IN  /\ stored' = [b \in Partitions |-> IF b \in done THEN wire[b] ELSE stored[b]]
      /\ lastWritten' = [b \in Partitions |-> IF b \in done THEN wire[b] ELSE lastWritten[b]]
      /\ lastSeen' = IF tried = {} THEN lastSeen ELSE version
      /\ failed' = (F \ tried) \cup (differ \cap bad)
      /\ window' = (window \/ (options.throttled /\ \E b \in done : wire[b] # Absent))

\* Wrong variants (see README, mutants): one does not take up what failed, the
\* other does not set the timer.
DispatchForgetful(forced, bad, handle) ==
  IF disposed \/ (dirty = {} /\ failed = {}) \/ (~forced /\ window)
    THEN timer' = (handle \/ (window /\ dirty # {})) /\ UNCHANGED <<dirty, writeVars>>
  ELSE /\ timer' = FALSE
       /\ dirty' = {}
       /\ sealed' = TRUE
       /\ WriteBranches(IF sealed THEN dirty ELSE Partitions, bad, {})

DispatchUnarmed(forced, bad, handle) ==
  IF disposed \/ (dirty = {} /\ failed = {}) \/ (~forced /\ window)
    THEN timer' = handle /\ UNCHANGED <<dirty, writeVars>>
  ELSE /\ timer' = FALSE
       /\ dirty' = {}
       /\ sealed' = TRUE
       /\ WriteBranches(IF sealed THEN dirty \cup failed ELSE Partitions, bad, {})

\* dispatch(): writes every dirty branch, unless the window makes it wait.
Dispatch(forced, bad, handle) ==
  IF disposed \/ (dirty = {} /\ failed = {})
    THEN timer' = handle /\ UNCHANGED <<dirty, writeVars>>
  ELSE IF ~forced /\ window
    THEN timer' = TRUE /\ UNCHANGED <<dirty, writeVars>>
  ELSE /\ timer' = FALSE
       /\ dirty' = {}
       /\ sealed' = TRUE
       /\ WriteBranches(IF sealed THEN dirty \cup failed ELSE Partitions, bad, {})

-----------------------------------------------------------------------------
PersistInit ==
  /\ options \in Options
  /\ version = 0
  /\ wire \in [Partitions -> Entries]
  /\ undelivered = {}
  /\ stored \in [Partitions -> Entries]
  /\ lastWritten = stored
  /\ lastSeen = 0
  /\ sealed = FALSE
  /\ dirty = {}
  /\ failed = {}
  /\ queued = FALSE
  /\ timer = FALSE
  /\ window = FALSE
  /\ disposed = FALSE

\* The application publishes a change of the branches W, or of none of them.
Publish(W) ==
  /\ ~disposed
  /\ version < MaxVersion
  /\ version' = version + 1
  /\ wire' \in [Partitions -> Wires]
  /\ W = {b \in Partitions : wire'[b] # wire[b]}
  /\ undelivered' = undelivered \cup W
  /\ UNCHANGED <<options, writeVars, dirty, queued, timer, disposed>>

\* markDirty, with `coalesce`.
MarkDirty(b) ==
  /\ options.coalesce
  /\ b \in undelivered
  /\ undelivered' = undelivered \ {b}
  /\ dirty' = dirty \cup {b}
  /\ queued' = (queued \/ ~timer)
  /\ UNCHANGED <<options, branchVars, writeVars, timer, disposed>>

\* writeBranch, without.
WriteBranch(b, bad) ==
  /\ ~options.coalesce
  /\ b \in undelivered
  /\ undelivered' = undelivered \ {b}
  /\ sealed' = TRUE
  /\ WriteBranches(IF sealed THEN failed \cup {b} ELSE Partitions, bad, failed)
  /\ UNCHANGED <<options, branchVars, dirty, queued, timer, disposed>>

\* A pass of an immediate scheduler ends before the next task.
BetweenTasks == options.deferred \/ undelivered = {}

RunMicrotask(bad) ==
  /\ queued
  /\ BetweenTasks
  /\ queued' = FALSE
  /\ Dispatch(FALSE, bad, timer)
  /\ UNCHANGED <<options, branchVars, undelivered, disposed>>

DispatchTimerFires(bad) ==
  /\ timer
  /\ BetweenTasks
  /\ Dispatch(FALSE, bad, FALSE)
  /\ UNCHANGED <<options, branchVars, undelivered, queued, disposed>>

\* drain(): what is queued at the scheduler has been flushed before.
Drain(bad) ==
  /\ options.coalesce
  /\ ~disposed
  /\ undelivered = {}
  /\ Dispatch(TRUE, bad, timer)
  /\ UNCHANGED <<options, branchVars, undelivered, queued, disposed>>

WindowPasses ==
  /\ window
  /\ window' = FALSE
  /\ UNCHANGED <<options, branchVars, undelivered, stored, lastWritten, lastSeen, sealed,
                 dirty, failed, queued, timer, disposed>>

\* A wrong variant (see README, mutants): it asks for failures only.
DriftedByFailure == failed # {}

\* Has anything been published, or failed, since the last write?
Drifted == version # lastSeen \/ failed # {}

\* The disposer.  What the scheduler has not delivered is cancelled.
Dispose(bad) ==
  /\ ~disposed
  /\ disposed' = TRUE
  /\ undelivered' = {}
  /\ timer' = FALSE
  /\ IF Drifted
       THEN sealed' = TRUE /\ WriteBranches(Partitions, bad, failed)
       ELSE UNCHANGED writeVars
  /\ UNCHANGED <<options, branchVars, dirty, queued>>

Deliver == \E b \in Partitions :
             MarkDirty(b) \/ \E bad \in SUBSET Partitions : WriteBranch(b, bad)

PersistNext ==
  \/ \E W \in SUBSET Partitions : Publish(W)
  \/ Deliver
  \/ WindowPasses
  \/ \E bad \in SUBSET Partitions :
       RunMicrotask(bad) \/ DispatchTimerFires(bad) \/ Drain(bad) \/ Dispose(bad)

PersistSpec == PersistInit /\ [][PersistNext]_persistVars

(***************************************************************************)
(* The scheduler delivers, microtasks run, time passes and timers fire.    *)
(***************************************************************************)
PersistFairness ==
  /\ WF_persistVars(Deliver)
  /\ WF_persistVars(WindowPasses)
  /\ WF_persistVars(\E bad \in SUBSET Partitions : RunMicrotask(bad))
  /\ WF_persistVars(\E bad \in SUBSET Partitions : DispatchTimerFires(bad))

-----------------------------------------------------------------------------
(***************************************************************************)
(* The types of the variables, of persistPartitions().                     *)
(***************************************************************************)
PersistTypeOK ==
  /\ options \in Options
  /\ version \in 0..MaxVersion
  /\ wire \in [Partitions -> Wires]
  /\ undelivered \subseteq Partitions
  /\ stored \in [Partitions -> Entries]
  /\ lastWritten \in [Partitions -> Entries]
  /\ lastSeen \in 0..version
  /\ sealed \in BOOLEAN
  /\ dirty \subseteq Partitions
  /\ failed \subseteq Partitions
  /\ queued \in BOOLEAN
  /\ timer \in BOOLEAN
  /\ window \in BOOLEAN
  /\ disposed \in BOOLEAN

\* The storage has the branch as it is, or the branch cannot be stringified.
UpToDate(b) == wire[b] \in {stored[b], Broken}

(***************************************************************************)
(* Once the first write has sealed the entries, a branch whose entry is    *)
(* behind is on its way: its notification is undelivered, or it waits for  *)
(* the next dispatch, or its last write failed and will be tried again.    *)
(***************************************************************************)
NothingForgotten ==
  sealed /\ ~disposed =>
    \A b \in Partitions : UpToDate(b) \/ b \in undelivered \cup dirty \cup failed

(***************************************************************************)
(* Branches that wait for a dispatch have one coming: markDirty leaves the *)
(* microtask out when the timer is set, and the timer is never cleared     *)
(* with branches left behind.                                              *)
(***************************************************************************)
DirtyIsScheduled == dirty # {} /\ ~disposed => queued \/ timer

(***************************************************************************)
(* The entry of a branch catches up, or the storage has refused it.        *)
(***************************************************************************)
Behind(b) == sealed /\ ~disposed /\ ~UpToDate(b)

EventuallyStored == \A b \in Partitions : Behind(b) ~> ~Behind(b) \/ b \in failed

(***************************************************************************)
(* The disposer leaves no branch behind in the storage, except one whose   *)
(* write the storage refused: "The disposer writes any state a deferred    *)
(* scheduler had not yet delivered".                                       *)
(***************************************************************************)
Reconciled == sealed => \A b \in Partitions : UpToDate(b) \/ b \in failed

DisposerReconciles == [][disposed' /\ ~disposed => Reconciled']_persistVars

(***************************************************************************)
(* It keeps this promise over a store that delivers at once, unless it is  *)
(* called, without `coalesce`, in the middle of a pass.                    *)
(***************************************************************************)
DisposerReconcilesAtOnce ==
  [][disposed' /\ ~disposed /\ ~options.deferred /\ (options.coalesce \/ undelivered = {})
       => Reconciled']_persistVars

=============================================================================
