----------------------------- MODULE ResourceCache -----------------------------
(***************************************************************************)
(* ResourceCache: the answers of a loader, one entry per key.              *)
(*                                                                         *)
(* As in ResourceSlot, the application is called back in the middle of     *)
(* operations, by abort listeners, subscribers, loaders and the texts of   *)
(* errors, so the call stack is part of the state.  Each key has at most   *)
(* one request that may settle; the entries are bounded by an eviction     *)
(* ledger that spares what is requested or read, and that skips its scan   *)
(* while nothing has been reported as freed since one came up short.       *)
(*                                                                         *)
(* Data are abstracted to the request that loaded them.  The ttl is left   *)
(* open: an entry may be found stale at any time.  Left out: locked        *)
(* states, publications that throw, views, disposal, and writes of the     *)
(* application to single entries.                                          *)
(***************************************************************************)
EXTENDS Integers, Sequences, FiniteSets, SequencesExt, Selection

CONSTANTS
  Keys,             (* Encoded arguments of the loader.                    *)
  MaxEntries,       (* `maxEntries`                                        *)
  MaxRequests,      (* Bound: requests.                                    *)
  MaxRoots,         (* Bound: roots installed by setData() and restore().  *)
  MaxNesting        (* Bound: callbacks within one another that go on to   *)
                    (* call the cache.                                     *)

CacheAssumption ==
  IsFiniteSet(Keys) /\ {MaxEntries, MaxRequests, MaxRoots, MaxNesting} \subseteq Nat

Requests == 1..MaxRequests
Written == MaxRequests + 1     (* Data of the application.                 *)
Statuses == {"Idle", "Pending", "Success", "Error"}

VARIABLES
  entries,          (* data.entries                                        *)
  root,             (* The identity of `data`.                             *)
  runtime,          (* runtimeRecords, per key.                            *)
  fetches,          (* What is known of each request, in order of start.   *)
  lastUsed,         (* The ledger: keys, the least recently used first.    *)
  count,            (* The ledger: live entries.                           *)
  retainedAt,       (* The ledger: retainedAtCount, or 0.                  *)
  reads,            (* The keys one subscription reads.                    *)
  restores,         (* restoreGeneration                                   *)
  writes,           (* Keys written, and not published yet.                *)
  frames,           (* The call stack, the running frame last.             *)
  invalidatedAt,    (* History: the last request the last invalidation met.*)
  overrun,          (* History: see MarkLoading.                           *)
  unreported        (* History: see LeftFree.                              *)

ledger == <<lastUsed, count, retainedAt>>
history == <<invalidatedAt, overrun, unreported>>
cacheVars == <<entries, root, runtime, fetches, ledger, reads, restores, writes, frames, history>>

-----------------------------------------------------------------------------
\* `born` is the request that created the entry, or 0: the root that came with it.
Entry == [status : Statuses, data : 0..Written, error : BOOLEAN, refreshing : BOOLEAN,
          invalidated : BOOLEAN, failed : BOOLEAN, born : 0..MaxRequests]

InitialEntry(r) == [status |-> "Pending", data |-> 0, error |-> FALSE, refreshing |-> FALSE,
                    invalidated |-> FALSE, failed |-> FALSE, born |-> r]

\* No record: generation 0.  `failure` is the status a raw failure came with.
Runtime == [generation : 0..MaxRequests, request : 0..MaxRequests, failure : Statuses \cup {"none"}]
NoRuntime == [generation |-> 0, request |-> 0, failure |-> "none"]

\* The promise of a request is open, settled, or follows that of a later one.
Fetch == [key : Keys, retrying : BOOLEAN, invalidated : BOOLEAN,
          loader : {"none", "running", "done"}, settled : BOOLEAN, follows : 0..MaxRequests]

\* The identity of what is at a key: its root and its birth, or -1.
Identity(k) == <<root, IF k \in DOMAIN entries THEN entries[k].born ELSE -1>>
Identities == (0..2 * MaxRoots) \X (-1..MaxRequests)

CallFrame == [kind |-> "call"]
Frame ==
  [kind : {"call"}] \cup
  [kind : {"fetch"}, op : Requests, superseded : 0..MaxRequests, had : Statuses \cup {"none"},
   deferred : BOOLEAN] \cup
  [kind : {"loading"}, op : Requests, superseded : 0..MaxRequests, deferred : BOOLEAN] \cup
  [kind : {"evicted", "load"}, op : Requests, superseded : 0..MaxRequests] \cup
  [kind : {"abort", "release"}, op : Requests, identity : Identities] \cup
  [kind : {"forget"}, key : Keys] \cup
  [kind : {"bulk"}, keys : SUBSET Keys, live : SUBSET Requests, settles : BOOLEAN] \cup
  [kind : {"describe", "settled"}, op : Requests]

IsSnapshot(es) == DOMAIN es \subseteq Keys /\ \A k \in DOMAIN es : es[k] \in Entry

IsFrame(f) ==
  \/ f \in Frame
  \/ DOMAIN f = {"kind", "op", "data"} /\ f.kind = "restore" /\ f.op \in 1..MaxRoots /\ IsSnapshot(f.data)

CacheTypeOK ==
  /\ IsSnapshot(entries)
  /\ root \in 0..2 * MaxRoots
  /\ runtime \in [Keys -> Runtime]
  /\ fetches \in Seq(Fetch) /\ Len(fetches) <= MaxRequests
  /\ lastUsed \in Seq(Keys) /\ IsInjective(lastUsed)
  /\ count \in Int /\ retainedAt \in Nat
  /\ reads \subseteq Keys
  /\ restores \in 0..MaxRoots
  /\ writes \subseteq Keys
  /\ \A i \in DOMAIN frames : IsFrame(frames[i])
  /\ invalidatedAt \in [Keys -> 0..MaxRequests]
  /\ overrun \in BOOLEAN /\ unreported \subseteq Keys

CacheInit ==
  /\ entries = <<>> /\ root = 0
  /\ runtime = [k \in Keys |-> NoRuntime]
  /\ fetches = <<>>
  /\ lastUsed = <<>> /\ count = 0 /\ retainedAt = 0
  /\ reads = {} /\ restores = 0 /\ writes = {}
  /\ frames = <<>>
  /\ invalidatedAt = [k \in Keys |-> 0] /\ overrun = FALSE /\ unreported = {}

-----------------------------------------------------------------------------
(***************************************************************************)
(* The call stack.                                                         *)
(***************************************************************************)
Top == Last(frames)
Below == Front(frames)
Runs(kind) == frames # <<>> /\ Top.kind = kind

\* Application code runs, and calls the cache.
Application ==
  frames = <<>> \/ (Runs("call") /\ Cardinality({i \in DOMAIN frames : frames[i].kind = "call"}) <= MaxNesting)

\* abortAll() and clear() put the delivery off (`bulkDepth`).
InBulk(stack) == \E i \in DOMAIN stack : stack[i].kind = "bulk"

Return ==
  /\ Runs("call")
  /\ frames' = Below
  /\ UNCHANGED <<entries, root, runtime, fetches, ledger, reads, restores, writes, history>>

-----------------------------------------------------------------------------
(***************************************************************************)
(* Records, and publications.                                              *)
(***************************************************************************)
HasRequest(k) == runtime[k].request # 0
IsRetained(k) == HasRequest(k) \/ k \in reads
Live == {k \in DOMAIN entries : HasRequest(k)}

\* trimCacheRuntime(): a record goes with its request and its raw failure.
Trim(rec) == IF rec.request = 0 /\ rec.failure = "none" THEN NoRuntime ELSE rec
Trimmed(k) == [runtime EXCEPT ![k] = Trim(@)]

\* reconcileFailure(): a raw failure stays with the entry that still shows it,
\* is being retried, or failed to be retried.
Belongs(rec, e) ==
  \/ /\ rec.failure = "Error" /\ ~e.error
     /\ \/ e.status = "Pending" /\ rec.request # 0
        \/ e.status = "Idle" /\ e.failed
  \/ e.status = rec.failure /\ e.error

Reconcile(rec, es, k) ==
  IF rec.failure = "none" \/ (k \in DOMAIN es /\ Belongs(rec, es[k]))
    THEN rec ELSE Trim([rec EXCEPT !.failure = "none"])

Reconciled(rt, es, W) == [k \in Keys |-> IF k \in W THEN Reconcile(rt[k], es, k) ELSE rt[k]]

\* The keys W of es are written; unless that is put off, all that has been
\* written is published, and subscribers are called.
Publish(es, rt, W, rest, deferred) ==
  /\ entries' = es
  /\ IF deferred \/ InBulk(rest)
       THEN runtime' = rt /\ writes' = writes \cup W /\ frames' = rest
       ELSE /\ runtime' = Reconciled(rt, es, writes \cup W)
            /\ writes' = {}
            /\ frames' = Append(rest, CallFrame)

\* The microtask of emitSoon().
Microtask ==
  /\ frames = <<>>
  /\ writes # {}
  /\ Publish(entries, runtime, {}, <<>>, FALSE)
  /\ UNCHANGED <<root, fetches, ledger, reads, restores, history>>

-----------------------------------------------------------------------------
(***************************************************************************)
(* The eviction ledger.                                                    *)
(***************************************************************************)
LeftOut(S) == Filtered(lastUsed, Keys \ S)
Touch(k) == lastUsed' = Append(LeftOut({k}), k)

\* release(): what has been freed may be found by the next scan.
Release == retainedAt' = 0 /\ unreported' = {}
ReleaseIf(freed) == IF freed THEN Release ELSE UNCHANGED <<retainedAt, unreported>>

ShouldSkip ==
  \/ count <= MaxEntries
  \/ /\ retainedAt # 0
     /\ count < retainedAt + (IF MaxEntries > retainedAt THEN MaxEntries ELSE retainedAt)

\* removeEntries(): what is counted is what was there.
RemoveEntries(S, rest, deferred) ==
  LET gone == S \cap DOMAIN entries
  IN  /\ count' = count - Cardinality(gone)
      /\ lastUsed' = LeftOut(gone)
      /\ Publish([k \in DOMAIN entries \ gone |-> entries[k]],
                 [k \in Keys |-> IF k \in gone THEN Trim([runtime[k] EXCEPT !.failure = "none"])
                                 ELSE runtime[k]],
                 gone, rest, deferred)

\* evict(): the victims are the least recently used of those not retained.
Evict(rest, deferred) ==
  IF ShouldSkip
    THEN frames' = rest /\ UNCHANGED <<entries, runtime, ledger, writes, unreported>>
    ELSE LET free == Filtered(lastUsed, {k \in Keys : ~IsRetained(k)})
             excess == count - MaxEntries
             short == Len(free) < excess
             doomed == IF short THEN free ELSE SubSeq(free, 1, excess)
         IN  /\ retainedAt' = IF short THEN count ELSE 0
             /\ unreported' = {}
             /\ IF doomed = <<>>
                  THEN frames' = rest /\ UNCHANGED <<entries, runtime, lastUsed, count, writes>>
                  ELSE RemoveEntries(ToSet(doomed), rest, deferred)

-----------------------------------------------------------------------------
(***************************************************************************)
(* fetch(): one request for a key, in place of the one it supersedes.      *)
(***************************************************************************)
\* A wrong variant (see README, mutants): a key without a request takes any answer.
IsCurrentOrNone(r) == runtime[fetches[r].key].request \in {0, r}

IsCurrent(r) == runtime[fetches[r].key].request = r

\* Only a loader that was called knows the signal.
Listeners(S) == IF \E r \in S : fetches[r].loader = "running" THEN <<CallFrame>> ELSE <<>>

\* Is the answer of a request that starts now that of a retry?
Retrying(k) ==
  \/ k \in DOMAIN entries /\ (entries[k].status = "Error" \/ entries[k].failed \/ entries[k].error)
  \/ k \in DOMAIN entries /\ runtime[k].failure # "none"

\* The request is registered before the abort listeners of the other run.
Start(k, deferred) ==
  LET r == Len(fetches) + 1
      known == runtime[k].request
  IN  /\ r <= MaxRequests
      /\ fetches' = Append(fetches, [key |-> k, retrying |-> Retrying(k), invalidated |-> FALSE,
                                     loader |-> "none", settled |-> FALSE, follows |-> 0])
      /\ runtime' = [runtime EXCEPT ![k].generation = r, ![k].request = r]
      /\ frames' = Append(frames,
           [kind |-> "fetch", op |-> r, superseded |-> known, deferred |-> deferred,
            had |-> IF k \in DOMAIN entries THEN entries[k].status ELSE "none"])
           \o (IF known = 0 THEN <<>> ELSE Listeners({known}))

\* What a request shows of itself before its answer.
Marked(k, had, r) ==
  CASE had = "none" -> [j \in DOMAIN entries \cup {k} |-> IF j = k THEN InitialEntry(r) ELSE entries[j]]
    [] had = "Success" -> [entries EXCEPT ![k].refreshing = TRUE]
    [] OTHER -> [entries EXCEPT ![k].status = "Pending", ![k].error = FALSE]

\* markLoading() does not ask whether the request still owns the key: `overrun`
\* records that a listener had taken it.
MarkLoading ==
  /\ Runs("fetch")
  /\ LET k == fetches[Top.op].key
     IN  /\ Top.had = "none" \/ k \in DOMAIN entries
         /\ Publish(Marked(k, Top.had, Top.op), runtime, {k},
                    Append(Below, [kind |-> "loading", op |-> Top.op, superseded |-> Top.superseded,
                                   deferred |-> Top.deferred]), Top.deferred)
  /\ count' = IF Top.had = "none" THEN count + 1 ELSE count
  /\ overrun' = (overrun \/ ~IsCurrent(Top.op))
  /\ UNCHANGED <<root, fetches, lastUsed, retainedAt, reads, restores, invalidatedAt, unreported>>

\* The entry it found is gone: the write throws, and so does fetch().
MarkingFails ==
  /\ Runs("fetch")
  /\ LET k == fetches[Top.op].key
     IN  /\ Top.had # "none" /\ k \notin DOMAIN entries
         /\ runtime' = IF IsCurrent(Top.op) THEN [runtime EXCEPT ![k] = Trim([@ EXCEPT !.request = 0])]
                       ELSE runtime
  /\ fetches' = [fetches EXCEPT ![Top.op].settled = TRUE]
  /\ overrun' = (overrun \/ ~IsCurrent(Top.op))
  /\ frames' = Below
  /\ UNCHANGED <<entries, root, ledger, reads, restores, writes, invalidatedAt, unreported>>

EvictForLoading ==
  /\ Runs("loading")
  /\ IsCurrent(Top.op)
  /\ Evict(Append(Below, [kind |-> "evicted", op |-> Top.op, superseded |-> Top.superseded]), Top.deferred)
  /\ UNCHANGED <<root, fetches, reads, restores, invalidatedAt, overrun>>

\* adopt(): the awaiters of r, if any, observe the outcome of its successor.
Adopted(q, r, s) ==
  IF r # 0 /\ ~q[r].settled /\ q[r].follows = 0 THEN [q EXCEPT ![r].follows = s] ELSE q

\* A wrong variant (see README, mutants): its promise is left as it is.
SupersededSilently ==
  /\ Runs("loading") \/ Runs("evicted")
  /\ ~IsCurrent(Top.op)
  /\ fetches' = Adopted(fetches, Top.superseded, Top.op)
  /\ frames' = Below
  /\ UNCHANGED <<entries, root, runtime, ledger, reads, restores, writes, history>>

\* The request lost the key on the way to its loader, and is rejected.
Superseded ==
  /\ Runs("loading") \/ Runs("evicted")
  /\ ~IsCurrent(Top.op)
  /\ fetches' = [Adopted(fetches, Top.superseded, Top.op) EXCEPT ![Top.op].settled = TRUE]
  /\ frames' = Below
  /\ UNCHANGED <<entries, root, runtime, ledger, reads, restores, writes, history>>

CallLoader ==
  /\ Runs("evicted")
  /\ IsCurrent(Top.op)
  /\ fetches' = [fetches EXCEPT ![Top.op].loader = "running"]
  /\ frames' = Below \o <<[Top EXCEPT !.kind = "load"], CallFrame>>
  /\ UNCHANGED <<entries, root, runtime, ledger, reads, restores, writes, history>>

\* The loader has returned its promise.
Loading ==
  /\ Runs("load")
  /\ fetches' = Adopted(fetches, Top.superseded, Top.op)
  /\ frames' = Below
  /\ UNCHANGED <<entries, root, runtime, ledger, reads, restores, writes, history>>

-----------------------------------------------------------------------------
(***************************************************************************)
(* Operations that ask for an entry.  All of them touch it.                *)
(***************************************************************************)
\* An entry is read, a fresh one loaded, or the request in flight joined.
Visit(k) ==
  /\ Application
  /\ k \in DOMAIN entries \/ HasRequest(k)
  /\ Touch(k)
  /\ UNCHANGED <<entries, root, runtime, fetches, count, retainedAt, reads, restores, writes, frames,
                 history>>

Load(k) ==
  /\ Application
  /\ ~HasRequest(k)
  /\ Start(k, FALSE)
  /\ Touch(k)
  /\ UNCHANGED <<entries, root, count, retainedAt, reads, restores, writes, history>>

Refresh(k) ==
  /\ Application
  /\ Start(k, FALSE)
  /\ Touch(k)
  /\ UNCHANGED <<entries, root, count, retainedAt, reads, restores, writes, history>>

\* A read in a render: a failure is not retried before it is invalidated.
Suspend(k) ==
  /\ Application
  /\ ~HasRequest(k)
  /\ k \in DOMAIN entries => CASE entries[k].status = "Success" -> ~entries[k].failed
                               [] entries[k].status = "Error" -> entries[k].invalidated /\ ~entries[k].failed
                               [] OTHER -> TRUE
  /\ Start(k, TRUE)
  /\ Touch(k)
  /\ UNCHANGED <<entries, root, count, retainedAt, reads, restores, writes, history>>

\* A wrong variant (see README, mutants): a replacement is not reported.
SubscribeAnew(S) ==
  /\ Application
  /\ S # reads
  /\ reads' = S
  /\ ReleaseIf(S = {})
  /\ UNCHANGED <<entries, root, runtime, fetches, lastUsed, count, restores, writes, frames,
                 invalidatedAt, overrun>>

\* The reads of one subscription: it comes, is replaced under its id, or goes.
Subscribe(S) ==
  /\ Application
  /\ S # reads
  /\ reads' = S
  /\ ReleaseIf(reads # {})
  /\ UNCHANGED <<entries, root, runtime, fetches, lastUsed, count, restores, writes, frames,
                 invalidatedAt, overrun>>

-----------------------------------------------------------------------------
(***************************************************************************)
(* Abort, forget, clear.                                                   *)
(***************************************************************************)
\* abortKey(): the request is detached before its listeners run.
BeginAbort(r, rest) ==
  LET k == fetches[r].key
  IN  /\ runtime' = [runtime EXCEPT ![k].request = 0]
      /\ frames' = Append(rest, [kind |-> "abort", op |-> r, identity |-> Identity(k)]) \o Listeners({r})

Abort(k) ==
  /\ Application
  /\ HasRequest(k)
  /\ BeginAbort(runtime[k].request, frames)
  /\ UNCHANGED <<entries, root, fetches, ledger, reads, restores, writes, history>>

\* After callbacks: is the key as the abort of its request left it?
Undisturbed(k) ==
  Identity(k) = Top.identity /\ runtime[k].generation = Top.op /\ ~HasRequest(k)

Shows(k) == k \in DOMAIN entries /\ (entries[k].status = "Pending" \/ entries[k].refreshing)

\* `unreported` records an entry that is free now, without a release().
LeftFree(k) == IF k \in DOMAIN entries /\ ~IsRetained(k) THEN unreported \cup {k} ELSE unreported

\* Its cancellation is published, unless someone took the key, or it shows none.
Aborted ==
  /\ Runs("abort")
  /\ LET k == fetches[Top.op].key
     IN  /\ Undisturbed(k) /\ Shows(k)
         /\ Publish([entries EXCEPT
                       ![k].status = IF @ = "Pending" THEN "Idle" ELSE @,
                       ![k].refreshing = IF entries[k].status = "Pending" THEN @ ELSE FALSE,
                       ![k].failed = @ \/ fetches[Top.op].retrying \/ runtime[k].failure # "none"],
                    runtime, {k}, Append(Below, [Top EXCEPT !.kind = "release"]), FALSE)
  /\ UNCHANGED <<root, fetches, ledger, reads, restores, history>>

NothingToCancel ==
  /\ Runs("abort")
  /\ LET k == fetches[Top.op].key
     IN  /\ ~(Undisturbed(k) /\ Shows(k))
         /\ runtime' = IF Undisturbed(k) THEN Trimmed(k) ELSE runtime
         /\ unreported' = LeftFree(k)
  /\ frames' = Below
  /\ UNCHANGED <<entries, root, fetches, ledger, reads, restores, writes, invalidatedAt, overrun>>

ReleaseAborted ==
  /\ Runs("release")
  /\ LET k == fetches[Top.op].key
     IN  /\ IF Undisturbed(k) /\ ~IsRetained(k) THEN Release
            ELSE retainedAt' = retainedAt /\ unreported' = LeftFree(k)
         /\ runtime' = Trimmed(k)
  /\ frames' = Below
  /\ UNCHANGED <<entries, root, fetches, lastUsed, count, reads, restores, writes, invalidatedAt, overrun>>

\* forgetKey(): abortKey() first.
BeginForget(k, rest) ==
  LET f == Append(rest, [kind |-> "forget", key |-> k])
  IN  IF HasRequest(k) THEN BeginAbort(runtime[k].request, f) ELSE frames' = f /\ UNCHANGED runtime

Forget(k) ==
  /\ Application
  /\ BeginForget(k, frames)
  /\ UNCHANGED <<entries, root, fetches, ledger, reads, restores, writes, history>>

\* A request that a listener started keeps the entry.
Forgotten ==
  /\ Runs("forget")
  /\ LET k == Top.key
     IN  \/ /\ HasRequest(k)
            /\ frames' = Below
            /\ UNCHANGED <<entries, runtime, lastUsed, count, writes>>
         \/ /\ ~HasRequest(k) /\ k \notin DOMAIN entries
            /\ runtime' = [runtime EXCEPT ![k] = NoRuntime]
            /\ lastUsed' = LeftOut({k})
            /\ frames' = Below
            /\ UNCHANGED <<entries, count, writes>>
         \/ /\ ~HasRequest(k) /\ k \in DOMAIN entries
            /\ RemoveEntries({k}, Below, FALSE)
  /\ UNCHANGED <<root, fetches, retainedAt, reads, restores, history>>

InFlight == {runtime[k].request : k \in {k \in Keys : HasRequest(k)}}

Bulk(S, settles) ==
  /\ Application
  /\ InFlight # {}
  /\ frames' = Append(frames, [kind |-> "bulk", keys |-> S, live |-> InFlight, settles |-> settles])
  /\ UNCHANGED <<entries, root, runtime, fetches, ledger, reads, restores, writes, history>>

AbortAll == Bulk({}, FALSE)
Clear == Bulk(DOMAIN entries, TRUE)

\* Without a request there is no listener to interrupt it.
ClearIdle ==
  /\ Application
  /\ InFlight = {}
  /\ entries # <<>>
  /\ RemoveEntries(DOMAIN entries, frames, FALSE)
  /\ UNCHANGED <<root, fetches, retainedAt, reads, restores, history>>

BulkForget ==
  /\ Runs("bulk")
  /\ \E k \in Top.keys : BeginForget(k, Append(Below, [Top EXCEPT !.keys = @ \ {k}]))
  /\ UNCHANGED <<entries, root, fetches, ledger, reads, restores, writes, history>>

\* Of clear(), every request that was in flight settles.
BulkAbort ==
  /\ Runs("bulk")
  /\ Top.keys = {}
  /\ \E r \in Top.live :
       LET rest == Append(Below, [Top EXCEPT !.live = @ \ {r}])
       IN  /\ IF IsCurrent(r) THEN BeginAbort(r, rest) ELSE frames' = rest /\ UNCHANGED runtime
           /\ fetches' = [fetches EXCEPT ![r].settled = @ \/ (Top.settles /\ fetches[r].follows = 0)]
  /\ UNCHANGED <<entries, root, ledger, reads, restores, writes, history>>

FinishBulk ==
  /\ Runs("bulk")
  /\ Top.keys = {} /\ Top.live = {}
  /\ IF writes = {} THEN frames' = Below /\ UNCHANGED <<entries, runtime, writes>>
     ELSE Publish(entries, runtime, {}, Below, FALSE)
  /\ UNCHANGED <<root, fetches, ledger, reads, restores, history>>

-----------------------------------------------------------------------------
(***************************************************************************)
(* Invalidation.                                                           *)
(***************************************************************************)
\* A wrong variant (see README, mutants): what is stale already is passed over.
InvalidatedOnce(S) ==
  [r \in DOMAIN fetches |->
     IF fetches[r].key \in S /\ IsCurrent(r) /\ ~entries[fetches[r].key].invalidated
       THEN [fetches[r] EXCEPT !.invalidated = TRUE] ELSE fetches[r]]

\* Requests that are registered now are stale when they answer (the epoch).
Invalidated(S) ==
  [r \in DOMAIN fetches |->
     IF fetches[r].key \in S /\ IsCurrent(r) THEN [fetches[r] EXCEPT !.invalidated = TRUE] ELSE fetches[r]]

MarkedStale(S) ==
  [k \in DOMAIN entries |->
     IF k \in S THEN [entries[k] EXCEPT !.invalidated = TRUE, !.failed = FALSE] ELSE entries[k]]

\* `all`: invalidateAll() publishes in any case, also what had been put off.
InvalidateKeys(S, all) ==
  /\ Application
  /\ S # {} /\ S \subseteq DOMAIN entries
  /\ fetches' = Invalidated(S)
  /\ LET changed == {k \in S : MarkedStale(S)[k] # entries[k]}
     IN  IF changed = {} /\ ~(all /\ writes # {})
           THEN UNCHANGED <<entries, runtime, writes, frames>>
           ELSE Publish(MarkedStale(S), runtime, changed, frames, FALSE)
  /\ invalidatedAt' = [k \in Keys |-> IF k \in S THEN Len(fetches) ELSE invalidatedAt[k]]
  /\ UNCHANGED <<root, ledger, reads, restores, overrun, unreported>>

Invalidate(k) == InvalidateKeys({k}, FALSE)
InvalidateAll == InvalidateKeys(DOMAIN entries, TRUE)

-----------------------------------------------------------------------------
(***************************************************************************)
(* Other roots: setData(), and restore() of a snapshot.                    *)
(***************************************************************************)
\* Entries of the application, all alike.
Installed(S, status) ==
  [k \in S |-> [status |-> status, data |-> IF status = "Success" THEN Written ELSE 0,
                error |-> status = "Error", refreshing |-> FALSE, invalidated |-> FALSE,
                failed |-> status = "Error", born |-> 0]]

\* A wrong variant (see README, mutants): the entries are added to the count.
InstallAdding(es, rest) ==
  /\ root' = root + 1
  /\ \E new \in SetToSeqs(DOMAIN es \ ToSet(lastUsed)) :
       lastUsed' = Filtered(lastUsed, DOMAIN es) \o new
  /\ count' = count + Cardinality(DOMAIN es)
  /\ Release
  /\ Publish(es, [k \in Keys |-> IF runtime[k].failure = "none" THEN runtime[k]
                                 ELSE Trim([runtime[k] EXCEPT !.failure = "none"])], Keys, rest, FALSE)

\* didSetData(): the ledger follows the entries, no raw failure is theirs.
Install(es, rest) ==
  /\ root' = root + 1
  /\ \E new \in SetToSeqs(DOMAIN es \ ToSet(lastUsed)) :
       lastUsed' = Filtered(lastUsed, DOMAIN es) \o new
  /\ count' = Cardinality(DOMAIN es)
  /\ Release
  /\ Publish(es, [k \in Keys |-> IF runtime[k].failure = "none" THEN runtime[k]
                                 ELSE Trim([runtime[k] EXCEPT !.failure = "none"])], Keys, rest, FALSE)

\* Bound: between tasks.  What is in flight stays in flight.
SetData(es) ==
  /\ frames = <<>>
  /\ root < MaxRoots
  /\ Install(es, frames)
  /\ UNCHANGED <<fetches, reads, restores, invalidatedAt, overrun>>

\* All requests are cancelled, and the ledger is reset, before the listeners run.
Restore(data) ==
  /\ Application
  /\ restores < MaxRoots
  /\ restores' = restores + 1
  /\ runtime' = [k \in Keys |-> NoRuntime]
  /\ lastUsed' = <<>> /\ count' = 0 /\ Release
  /\ frames' = Append(frames, [kind |-> "restore", op |-> restores + 1, data |-> data])
               \o Listeners(InFlight)
  /\ UNCHANGED <<entries, root, fetches, reads, writes, invalidatedAt, overrun>>

\* A request that a listener started keeps its entry; no other is in flight.
Restored ==
  /\ Runs("restore")
  /\ restores = Top.op
  /\ Install([k \in DOMAIN Top.data \cup Live |->
                IF k \in Live THEN entries[k]
                ELSE [Top.data[k] EXCEPT !.status = IF @ = "Pending" THEN "Idle" ELSE @,
                                         !.refreshing = FALSE]], Below)
  /\ invalidatedAt' = [k \in Keys |-> 0]
  /\ UNCHANGED <<fetches, reads, restores, overrun>>

RestoreOvertaken ==
  /\ Runs("restore")
  /\ restores # Top.op
  /\ frames' = Below
  /\ UNCHANGED <<entries, root, runtime, fetches, ledger, reads, restores, writes, history>>

-----------------------------------------------------------------------------
(***************************************************************************)
(* Settlement, in a task of its own.                                       *)
(***************************************************************************)
Answers(r) == frames = <<>> /\ fetches[r].loader = "running"
Settled(r) == [fetches EXCEPT ![r].loader = "done", ![r].settled = @ \/ fetches[r].follows = 0]

LateAnswer(r) ==
  /\ Answers(r)
  /\ ~IsCurrent(r)
  /\ fetches' = Settled(r)
  /\ UNCHANGED <<entries, root, runtime, ledger, reads, restores, writes, frames, history>>

\* The entry is gone: all that is known of the key goes too.
SettleNothing(k, rest) ==
  /\ k \notin DOMAIN entries
  /\ runtime' = [runtime EXCEPT ![k] = NoRuntime]
  /\ lastUsed' = LeftOut({k})
  /\ frames' = rest
  /\ UNCHANGED <<entries, count, retainedAt, writes, unreported>>

\* The answer is stored; a key that nobody reads may be evicted from here on.
Settle(k, e, failure, rest) ==
  /\ k \in DOMAIN entries
  /\ ReleaseIf(k \notin reads)
  /\ Publish([entries EXCEPT ![k] = e],
             [runtime EXCEPT ![k] = Trim([@ EXCEPT !.request = 0, !.failure = failure])],
             {k}, rest, FALSE)
  /\ UNCHANGED <<lastUsed, count>>

SettleSuccess(r) ==
  /\ Answers(r)
  /\ IsCurrent(r)
  /\ fetches' = Settled(r)
  /\ LET k == fetches[r].key
     IN  \/ SettleNothing(k, <<>>)
         \/ Settle(k, [entries[k] EXCEPT !.status = "Success", !.data = r, !.error = FALSE,
                                         !.refreshing = FALSE, !.failed = FALSE,
                                         !.invalidated = fetches[r].invalidated],
                   "none", <<[kind |-> "settled", op |-> r]>>)
  /\ UNCHANGED <<root, reads, restores, invalidatedAt, overrun>>

\* The request is detached before the text of its error is asked for.
LoaderFails(r) ==
  /\ Answers(r)
  /\ IsCurrent(r)
  /\ fetches' = Settled(r)
  /\ runtime' = [runtime EXCEPT ![fetches[r].key].request = 0]
  /\ frames' = <<[kind |-> "describe", op |-> r], CallFrame>>
  /\ UNCHANGED <<entries, root, ledger, reads, restores, writes, history>>

\* An entry that has data keeps its status.
SettleFailure ==
  /\ Runs("describe")
  /\ LET r == Top.op
         k == fetches[r].key
         status == IF entries[k].status = "Success" \/ entries[k].data # 0
                     THEN entries[k].status ELSE "Error"
     IN  /\ runtime[k].generation = r /\ ~HasRequest(k)
         /\ \/ SettleNothing(k, Below)
            \/ Settle(k, [entries[k] EXCEPT !.status = status, !.error = TRUE, !.refreshing = FALSE,
                                            !.failed = ~fetches[r].invalidated],
                      status, Append(Below, [Top EXCEPT !.kind = "settled"]))
  /\ UNCHANGED <<root, fetches, reads, restores, invalidatedAt, overrun>>

FailureOvertaken ==
  /\ Runs("describe")
  /\ LET k == fetches[Top.op].key
     IN  /\ ~(runtime[k].generation = Top.op /\ ~HasRequest(k))
         /\ unreported' = LeftFree(k)
  /\ frames' = Below
  /\ UNCHANGED <<entries, root, runtime, fetches, ledger, reads, restores, writes, invalidatedAt, overrun>>

\* After the subscribers: the entries may be too many now.
EvictSettled ==
  /\ Runs("settled")
  /\ Evict(Below, FALSE)
  /\ UNCHANGED <<root, fetches, reads, restores, invalidatedAt, overrun>>

-----------------------------------------------------------------------------
CacheOperations ==
  \/ \E k \in Keys : Visit(k) \/ Load(k) \/ Refresh(k) \/ Suspend(k)
                     \/ Abort(k) \/ Forget(k) \/ Invalidate(k)
  \/ \E S \in SUBSET Keys : Cardinality(S) < 2 /\ Subscribe(S)
  \/ AbortAll \/ Clear \/ ClearIdle \/ InvalidateAll
  \/ \E k \in Keys : SetData(Installed({k}, "Success"))
  \/ SetData(Installed(Keys, "Error"))
  \/ Restore(entries) \/ Restore(Installed({}, "Idle"))

CacheContinuations ==
  \/ Return \/ Microtask
  \/ MarkLoading \/ MarkingFails \/ EvictForLoading \/ Superseded \/ CallLoader \/ Loading
  \/ Aborted \/ NothingToCancel \/ ReleaseAborted \/ Forgotten
  \/ BulkForget \/ BulkAbort \/ FinishBulk
  \/ Restored \/ RestoreOvertaken
  \/ SettleFailure \/ FailureOvertaken \/ EvictSettled

CacheSettlements ==
  \E r \in DOMAIN fetches : LateAnswer(r) \/ SettleSuccess(r) \/ LoaderFails(r)

CacheNext == CacheOperations \/ CacheContinuations \/ CacheSettlements

CacheSpec == CacheInit /\ [][CacheNext]_cacheVars

-----------------------------------------------------------------------------
(***************************************************************************)
(* An answer that was asked for before the last invalidation of its key    *)
(* counts as stale, however it came into the entry.                        *)
(***************************************************************************)
InvalidatedStaysStale ==
  \A k \in DOMAIN entries :
    entries[k].status = "Success" /\ ~entries[k].invalidated => entries[k].data > invalidatedAt[k]

(***************************************************************************)
(* While the cache holds one root, an answer is never replaced by that of  *)
(* a request that was started earlier.                                     *)
(***************************************************************************)
NewestAnswerWins ==
  [][\A k \in DOMAIN entries \cap DOMAIN entries' :
       root' = root /\ entries[k].data \in Requests => entries'[k].data >= entries[k].data]_cacheVars

(***************************************************************************)
(* Between tasks the ledger counts the entries and knows them all,         *)
(* unless a listener has overrun a fetch().                                *)
(***************************************************************************)
LedgerExact ==
  frames = <<>> /\ ~overrun =>
    count = Cardinality(DOMAIN entries) /\ DOMAIN entries \subseteq ToSet(lastUsed)

(***************************************************************************)
(* While the ledger skips its scans, no entry is free to be evicted, but   *)
(* for those that were freed without a release().                          *)
(***************************************************************************)
FreedIsReported ==
  frames = <<>> /\ ~overrun /\ retainedAt # 0 =>
    \A k \in DOMAIN entries \ unreported : IsRetained(k)

(***************************************************************************)
(* Between tasks, every promise that was handed out is settled, has a      *)
(* loader to settle it, or follows that of a later request.                *)
(***************************************************************************)
EveryFetchEnds ==
  frames = <<>> => \A r \in DOMAIN fetches :
    fetches[r].settled \/ fetches[r].loader = "running" \/ fetches[r].follows > r

=============================================================================
