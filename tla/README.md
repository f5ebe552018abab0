# ReactCarburetor in TLA+

Specifications of the engine of `@react-carburetor/core` (`src/lib/src/Carburetor`), checked
with TLC on small instances and, where the prover reaches, proved with TLAPS for every
instance. Paths below are relative to `src/lib/src/Carburetor` unless they start with `src/`.

## 1. The system

Everything runs on one JavaScript thread. What makes it hard is reentrancy: delivery calls
application code (subscribers, computed bodies, observers, abort handlers), and that code may
call any operation of any store while the delivery that called it is still on the stack.

| Part | State | Operations | Correct when |
|---|---|---|---|
| Store (`Store/Carburetor.ts`) | version, notified version, written paths, subscriptions with generation/matched/growth versions | draft writes, `emitUpdate`, `emitSoon`, `subscribe`, extend, `unsubscribe`, `dispose` | no subscription misses a publication of a path it reads; no callback of a dead or replaced registration runs |
| Transaction (`Store/Transaction`) | depth, writes per store, queued events | `transaction`, nested and reentrant | each store is told once, everything is handed over, events follow state |
| Wave (`Store/Scheduling/UpdateWave.ts`) | depth, deferred settlements | begin, end, defer | derived values settle after all their inputs were told |
| Schedulers (`Store/Scheduling`) | queue, running round, timer | schedule, cancel, flush | nothing queued is lost, cancelled work never runs, loops end |
| Path index and write log (`Store/Paths`) | paths with subscription ids; last version per path and ancestor, watermark | match, record, evict | the index agrees with the subscriptions; the log never denies a write |
| Patch observers (`Store/Transaction/PatchObserverRegistry.ts`) | recorders, the coalesced publication fact | attach, detach, publish | each observer sees each publication once, under the right origin |
| Computed (`Derived`) | cached value, leaf versions, announced value, edges | get, subscribe, invalidate, settle | an observer's value is current when the event loop is idle |
| Resource (`Resource/ResourceCarburetor.ts`) | slot, operation version, controller, memory | load, refresh, settle, abort | only the last request settles; no slot stays pending for ever |
| Resource cache (`Resource/Cache`) | entries, requests, invalidation epoch, eviction order | fetch, invalidate, settle, evict | a superseded answer is dropped; nothing being read or fetched is evicted |
| History (`Tooling/CarburetorHistory.ts`) | past, future, baseline | record, undo, redo | undo then redo restores the state |
| Persistence (`Tooling/persist.ts`, `Tooling/Persist`) | pending and failed branches, last written | coalesce, flush, retry, dispose | what is in storage catches up with the state |
| Scope (`Component/Scope`) | instances, creation order, kept payloads, children | `get`, `set`, `hydrate`, `child`, `dispose` | one instance per token, disposed once, before what it was built from |
| Components (`Component`) | render attempts, committed descriptions, installed handles, selection snapshots | render, commit, replay, release, wake | the screen is registered for what it read, and catches up |
| Hooks (`Interop`) | a subscription per hook | render, subscribe | as components |

How they meet. A mutation through a store's draft and `emitUpdate` raise the store's version,
file the paths in its write log and ask its path index which subscriptions they concern. Inside
a transaction this is put off to the batch, which all stores share. A selected subscription's
callback goes to the store's scheduler, which runs it at once or queues it. A computed, a
component, a history or a mirror in storage is a subscriber like any other; a computed settles in
the wave and then wakes observers of its own. A resource and its cache are stores whose writers
are answers from outside.

What is hard, besides reentrancy: deferring schedulers put time between a publication and its
delivery, in which anything may be replaced, disposed or written again; `emitSoon`, coalescing
and throttle windows leave work for a microtask or a timer; storage, bodies and callbacks fail in
the middle of a batch; the log, the rounds of a flush and the cache have limits. PROJECT.json
lists each hazard at its line, with the properties that watch it.

Not modelled, because they are layout, diagnostics, rendering or data plumbing rather than
protocol: the tracking proxies and diffs (`Store/Tracking`), DevTools, models, the testing
helpers, the ToDo demo, the native linter, the editor plugin and the benchmarks.

## 2. Modules

| Module | Models | Source |
|---|---|---|
| `Carburetor` | stores, subscriptions, transactions, `emitSoon`, queues, on an explicit call stack | `Store/Carburetor.ts`, `Store/Transaction` |
| `Carburetor_proofs` | types, then delivery (no update is lost), then calls (when callbacks start), then events | |
| `EventQueue` | one-off events, and the part of the batch that defers and delivers them | `Store/Utils/Graph/Events/StoreEvents.ts`, `Store/Transaction/UpdateBatch.ts` |
| `Computed`, `Computed_proofs` | derived values and the wave, on top of `Carburetor` | `Derived`, `Store/Scheduling/UpdateWave.ts` |
| `Scheduler` | abstract: what a store expects of a scheduler | `Models/Store.ts` |
| `UpdateThrottle` | the coalescing scheduler, which implements `Scheduler` | `Store/Scheduling/ComponentUpdateThrottle.ts` |
| `Paths` | nesting of paths, which reads a write touches | `Store/Paths/Diff/pathsIntersect.ts` |
| `SubscriberIndex` | the index of subscriptions by path | `Store/Paths/SubscriberIndex.ts` |
| `WriteLog` | the bounded log of written paths | `Store/Paths/WriteLog.ts` |
| `Paths_proofs` | the log, then the index | |
| `PersistPartitions` | branches of a store mirrored in a storage | `Tooling/Persist/PersistPartitions.ts` |
| `Timers_proofs` | the throttle, then the mirror | |
| `ResourceSlot` | one slot: requests, the memory of answers, callbacks in the middle of operations | `Resource/ResourceCarburetor.ts`, `Resource/Slot` |
| `ResourceCache`, `ResourceCache_proofs` | an entry per key: requests, invalidation, abort, restore, eviction | `Resource/Cache` |
| `Selection` | what filtering a sequence returns, for both | `Array.prototype.filter` |
| `Resources_proofs` | the slot, then the slot beside the cache | |
| `Timeline` | abstract: what the user of an undo history sees | the comment of `CarburetorHistory` |
| `History`, `History_proofs` | undo and redo, facts of publications, patch observers, installed states | `Tooling/CarburetorHistory.ts`, `Store/Transaction/PatchObserverRegistry.ts`, `Store/Transaction/installState.ts` |
| `ClassComponent` | a class component: attempts, commits, replays, registrations, selections | `Component/AntiHookComponent`, `Component/Connection` |
| `Scope` | instances by token, a child scope, disposal | `Component/Scope` |
| `Component_proofs` | the component, then the scope | |
| `MCBatch`, `MCCarburetor`, `MCComputed`, `MCComponent`, `MCHistory`, `MCPaths`, `MCPersist`, `MCReaders`, `MCResources`, `MCTimers` | the instances TLC checks | |

`Carburetor` uses the index and the log by their specification: `Match` is what
`MatchIsPathsIntersect` says the index returns, and `LogMatches` asks the complete history, which
by `NeverDenies` and `InventsNothing` is what the log answers above its watermark (below it, the
log answers true: more callers are told to look again). Its scheduled callbacks are what
`Scheduler` owes, which `UpdateThrottle` is shown to implement.

### 2.1 `Carburetor`

The call stack is a variable. A frame of kind `call` is application code, which may take any
operation in any order; `notify` is `CARBURETOR_NOTIFY_WRITES` between two subscribers; `flush`
is `UpdateBatch.flush` between two stores. The body of an operation that cannot be interrupted
by application code is one action.

| Action | Code |
|---|---|
| `DraftWrite` | a mutation through `draft` |
| `EmitUpdate` | `emitUpdate` with `emitStoreUpdate`, up to the first callback |
| `EmitSoon`, `RunMicrotask` | `emitSoon` and its continuation |
| `BeginTransaction`, `EndTransaction` | `transaction`, `UpdateBatch.begin` and `end` |
| `TakeBatch`, `NotifyBatched`, `EndFlush` | the loops of `UpdateBatch.flush` |
| `TellObservers`, `Deliver`, `EndNotify` | the two passes of `CARBURETOR_NOTIFY_WRITES` |
| `Subscribe`, `Retain`, `Extend`, `Unsubscribe`, `Dispose` | the operations of the same names |
| `RunScheduled` | a scheduler that queues runs one callback |
| `Return`, `StartTask` | application code returns; the event loop starts a task |

`seen` and `since` are history variables: the version an id was last called at, and the version
from which it reads a path. They state what a subscriber may have missed, and no guard reads them.
`HasDrift` is `CARBURETOR_HAS_DRIFT`. The paths of the application are abstract: `Overlaps` says
which contain each other. A callback that throws is one that returns: the failure is reported and
the pass goes on.

`EventQueue` has a stack of its own, with frames for application code, a pass, a flush in its three
stages (telling the stores, settling, draining) and the delivery of an event.

| Action | Code |
|---|---|
| `EmitEvent`, `Listen`, `Unlisten`, `CloseHub` | `emit` with `capture` and `enqueueAfterFlush`; `on` and its disposer; `dispose` |
| `Announce`, `Open`, `Close` | `emitUpdate`; `begin`; `end` |
| `TakeUntold`, `TellStore`, `CloseWave`, `FlushEnds` | the loops of `flush` and its `finally` |
| `DeliverNext`, `EndDrain` | `drainEvents` |
| `CallListener`, `EndDelivery` | what `capture` returned |
| `CallSubscriber`, `EndPass`, `SettleOne` | the passes and the wave, as callers of application code |

Two things one might not expect. The outer loop of `flush` looks at the batch once more after
the wave has settled (`UpdateBatch.ts:141`), and never finds anything: what a settlement publishes in a
transaction was flushed when that closed. And a transaction in a subscriber of a direct
publication drains its events when its own flush ends, before that publication has called its other
subscribers and settled its computeds; `EventsFollowTheirStates` speaks of the publications that
the batch took.

### 2.2 `Computed`

Extends `Carburetor` with the cells of the computeds, the wave, and the state as data, so that a
body has a value. The edges of a computed are subscriptions `<<c, s>>`, one per store. Two frames
are added: `drain` is `UpdateWave.end` between two settlements, `deliver` is `Computed.deliver`
between two observers.

| Action | Code |
|---|---|
| `Write`, `Publish`, `StoreStep` | the operations of `Carburetor`, with the shared write epoch |
| `Get` | `get`, `isStale`, `hasDrifted`, `recompute` |
| `Observe`, `Unobserve` | `subscribe`, `unsubscribe` with the attachment and release of edges |
| `DeliverEdge`, `RunEdge` | `onDependencyChanged`, within a pass and from a scheduler |
| `EndPass`, `SettleNext`, `EndDrain` | `UpdateWave.end` and `settle` |
| `WakeObserver`, `EndDeliver` | `deliver` |

`AttachEdges` is `attachDependencies` (new, replaced, kept and dropped edges); `HasDrifted` and
`Asked` are `hasDrifted` with what it remembers (`checked` for the epoch, `proven` for the leaf
watermarks); `OwesSettlement` compares with the announcement. A body reads a gate and then one of
two sets of places, which is the shortest body whose dependencies change; its value is the places
that are on. A failing body throws in one of these states.

### 2.3 `Scheduler` and `UpdateThrottle`

`Scheduler` has two variables: the keys that are owed a run, and those that are running. A key may
be scheduled, cancelled, run if it is owed, and a scheduler may give up on everything it owes.
`UpdateThrottle` implements it under

    owed    <- the queue and what is left in every round under way     (Owed)
    running <- the keys of the call frames, outermost first            (RunningKeys)

| Action | Code |
|---|---|
| `Schedule`, `Cancel` | `schedule`, `cancel`, both with `cancelActive` over every round |
| `TimerFires`, `FlushPending`, `FlushAgain` | `letsUpdate` from the timer, `flushPendingUpdates` and an update |
| `NextRound`, `GiveUp`, `EndFlush` | the loop over rounds, its depth limit, the `finally` |
| `RunUpdater`, `Return`, `Throw`, `Catch` | one update, and what the depth error does to it |

The constant `Rethrows` lets an update catch the depth error, go on scheduling, and throw the
same error later. `NothingLeftBehind` holds there too, `EventuallyPaid` does not: the `finally` of
the outer flush clears the handle while the queue is not empty (`ComponentUpdateThrottle.ts:190`).
The instance leaves it out, because no document promises anything of such an update.

### 2.4 `Paths`, `SubscriberIndex`, `WriteLog`

Paths are abstract, with the set of proper ancestors of each. The index keeps two buckets per
path in the forms the code gives them (a bare id, a set, an id with a count, a map of counts);
`Add`, `AddPath` and `RemoveId` are `add`, `addPath` and `remove`, and `MatchAll` is `match` with
its three ways to look (everything, one path, several paths with shared buckets visited once).
The log records a publication path by path (`BeginRecord`, `RecordPath`, `RecordPathEvicting`,
`RecordWildcard`), because it may evict between two of them; `Track` and `Untrack` switch the
recent paths on and off. `Matches` is `matches`, `KnowsPathsSince` with `Since` is `pathsSince`.
`published` is the history the answers are judged by.

### 2.5 `PersistPartitions`

| Action | Code |
|---|---|
| `Publish` | the application changes branches; their notifications are undelivered |
| `MarkDirty`, `WriteBranch` | the subscriber of a branch, with and without `coalesce` |
| `RunMicrotask`, `DispatchTimerFires`, `Drain` | `dispatch` from the microtask, the timer, and `drain` |
| `WindowPasses` | the throttle window of the last write ends |
| `Dispose` | the disposer, with its reconciliation |

The restore is the initial state: any branches, and storage entries known exactly. Each write may
fail for any set of branches (`bad`). `sealed` says whether every branch has been written once.

### 2.6 `ResourceSlot`

The call stack is a variable again, but the frames are others: what an operation of the slot has
still to do when the application code it called returns. Abort listeners run inside the operation
that cancels a request, subscribers inside a publication, the loader inside `start`, the text of
an error inside `settleError`; in each of these places the application may take any operation. A
request is known by the `operationVersion` it was started with. Data are abstracted to the request
that loaded them, or to the application; a state object to its number (`root`).

| Action | Code |
|---|---|
| `Load`, `Suspend`, `Refresh` | up to `cancelInFlight`, through the memory (`Recall`) or `start` (`Start`) |
| `Abort`, `Clear`, `Restore`, `Dispose` | up to the listeners |
| `Aborted`, `Cleared`, `Restored`, `Recalled`, `GiveWay` | after them: the rest, or nothing if another operation took the slot |
| `StartOvertaken`, `Install` | `start` after the listeners: joins, rejects, or registers the request and publishes Pending |
| `Disowned`, `PublicationFails`, `Recover` | after Pending: another took the slot; the publication threw, and is undone |
| `CallLoader`, `Loading` | the loader runs, and has returned its promise |
| `SettleSuccess`, `RememberAfter`, `LoaderFails`, `SettleError`, `LateAnswer` | the answer, in a task of its own |
| `SetData`, `Update`, `TakeSnapshot`, `Tick`, `Return` | the application and the clock |

An operation that changes nothing (a fresh answer, a request that is joined) is left out; what
`suspend` returns is stated by `Served`. `Remember` and `Looked` are the memory of answers.
Three behaviours of the code show here that no document settles, and the properties are stated
around them:

- `Recover` puts back the status before the failed publication. If that was the Pending of a
  request that `start` had just cancelled, the slot shows Pending with no request behind it
  (`ResourceCarburetor.ts:402-416`). `stranded` records this, and `PendingIsRequested` excludes it.
- A request whose publication of Pending is overtaken is rejected, and does not `adopt` the request
  it replaced (lines 426-429, against 447): the awaiters of that one see the outcome of its own
  loader, not that of a successor.
- A success in a locked state is remembered after its publication (lines 531-533), and so may bring
  back an answer that a subscriber of that publication has just cleared.

### 2.7 `ResourceCache`

Written like the slot, over a function from keys to entries. A request is numbered in the order of
start; `runtime` has the record of a key (its last request, the one in flight, the raw failure),
`fetches` the promises. An entry's identity is its root and the request that created it, which is
what `abortKey` and `restore` compare. The ledger of evictions is `lastUsed`, `count` and
`retainedAt`; `reads` is what one subscription reads.

| Action | Code |
|---|---|
| `Visit`, `Load`, `Refresh`, `Suspend` | `getEntry`, `runLoad`, `runRefresh`, `suspend`, with `touch`, and `fetch` up to the listeners |
| `MarkLoading`, `MarkingFails`, `EvictForLoading`, `Superseded`, `CallLoader`, `Loading` | the rest of `fetch` |
| `Abort`, `Aborted`, `NothingToCancel`, `ReleaseAborted` | `abortKey` before and after its listeners and its publication |
| `Forget`, `Forgotten`, `AbortAll`, `Clear`, `BulkForget`, `BulkAbort`, `FinishBulk`, `ClearIdle` | `forgetKey`, `abortAll`, `clear`, whose publications are put off |
| `Invalidate`, `InvalidateAll`, `Subscribe` | the operations of the same names |
| `SetData`, `Restore`, `Restored`, `RestoreOvertaken` | another root; `Install` is `didSetData` |
| `SettleSuccess`, `LoaderFails`, `SettleFailure`, `FailureOvertaken`, `EvictSettled`, `LateAnswer` | the answer |
| `Microtask`, `Return` | a deferred publication; application code returns |

`Evict` is `evict` with `selectVictims` and `removeEntries`, `ShouldSkip` the hysteresis. The order
in which `clear` visits keys is left open, and so is the ttl: an entry may be found stale at any time.
What the code does here that a caller might not expect, all found with TLC:

- `fetch` publishes Pending without asking whether its request still owns the key
  (`ResourceCacheLifecycle.ts:157-165`). A listener of the superseded request that calls `restore`,
  or aborts the key, leaves an entry that shows Pending (or `refreshing`) without a request; one
  that forgets the key makes the write throw (`MarkingFails`). `overrun` records these, and
  `LedgerExact` and `FreedIsReported` exclude them.
- `abortKey` returns early when its listeners replaced the entry (`ResourceCacheState.ts:497-499`),
  without `release()`, although the entry may be free now; `settleFailure` does so when the text of
  the error took the key. And the release after the publication of a cancellation is left out if a
  subscriber of that publication disturbed the key (lines 517-522): one that invalidates a failed entry whose
  retry was aborted makes `reconcileFailure` drop the record `abortKey` compares. `unreported`
  records the keys (`LeftFree`), for which a scan that came up short is not repeated until the next
  release or until the count has doubled.
- A failure keeps the status of an entry that has data, Pending included
  (`ResourceCacheLifecycle.ts:362-363`).

### 2.8 `Timeline` and `History`

`Timeline` is a line of states with a cursor: a change cuts off what lies ahead and is the next
step, undo and redo move by one, the oldest step is forgotten beyond the limit. `History`
implements it, once for each history (`StepsOf` walks the entries in both directions), with

    steps  <- the states its entries lead to, from its baseline   (StepsOf)
    cursor <- the number of entries to undo, plus one

A state is a function from places to values. A write the proxies can describe is a patch; one that
no patch describes (raw, native, locked, an order of keys) is opaque.

| Action | Code |
|---|---|
| `Update`, `RawWrite` | a mutation, seen by the draft or not, with its `emitUpdate` |
| `Install`, `InstallEqual` | `setData` and `restore`, of another state and of an equal one |
| `Begin`, `End` | a transaction around them |
| `Deliver` | a deferring scheduler brings the coalesced fact to a history |
| `Replay`, `ReplayNothing`, `Refused` | `undo` and `redo`: done, nothing there, refused before the first write |
| `Clear`, `Connect`, `Disconnect` | the operations of the same names and the constructor |

`Joined` is how facts coalesce, `Records` is `record`, `ReplayOnDraft` and `ReplayByRestore` are the
two ways of `apply`. There is no call stack: histories hear of a publication before its
subscribers, and after these nothing is left to the store and the history but to return, so
what a callback does is what the application does next. Left out are a scheduler that is flushed
inside a transaction, an `update` whose mutate function calls the history, use after `disconnect`,
and a replay that fails midway.

Three behaviours of the code show here, and the properties are stated around them:

- While the publication of a replay through the draft is queued, its history collects no patches
  (`CarburetorHistory.ts:267-271`). A write made then is not committed by the next `undo` or `redo`,
  although the comment at line 214 says that `redo` does so: `redo` goes on while a newer branch
  is queued, and `undo` takes back the step before. The write is committed later, as a state. A
  replay through `restore` does commit it. `ReplaysAreReversible` excludes this case.
- A replay that changes nothing and is followed by a raw write, or a replay that is refused while
  a write is being ignored, takes the write into its own baseline: the write is in no entry, and
  cannot be undone.
- A `restore` of the store may refuse a replay after the history has claimed it. `undo` puts the
  cursor back only if the baseline is the live state (`CarburetorHistory.ts:195-207`). If a raw write
  has moved the state, the cursor stays moved, and the baseline may stay behind although nothing
  is pending: the next entry starts from a state that was left earlier.

`blurred` records the histories of the last two, and the four properties exclude them. For
`NothingEscapes` this is so since the attempt to prove it: no run had come to a refusal of the third
kind with everything delivered.

### 2.9 `ClassComponent`

A component reads the store its props name, tracked (`useCarburetor`) or through a selection
(`connectSelection`), and the selection reads a gate and the place behind it. React is the
environment: it renders when it is asked to or when props change, throws finished renders away,
commits them in a visible or hidden tree, hides and shows the tree.

| Action | Code |
|---|---|
| `Render`, `RenderThrows` | the render boundary: an attempt is opened, filled with reads and baselines, closed or abandoned |
| `Commit`, `Reveal` | `componentDidMount`, `componentDidUpdate`, with `commitSubscriptions` |
| `Hide`, `Unmount` | `componentWillUnmount`, with `releaseSubscriptions` |
| `Discard`, `CommitHidden` | React only: no code of the library runs |
| `Mutate`, `Publish`, `RunQueued` | the store is written, publishes, and calls the component or its connection |

`attempt` is `pendingAttempt`, and is "consumed" when `committedAttempt` is the same object. Its
entries are the description a commit may take over; `committed` and `installed` are the fields of
the same names of each slot. `Left` and `Resubscribed` are what `alignSubscription` does to the
registrations, `Unmoved` is `selectionUnchanged`. `shown` (what is on the screen) and `settled`
(whether the descriptions are those of the screen) belong to nobody, and only properties read them.

Three actors interleave: the store, the component and React. A write between render and commit is
found by the drift check of the commit, and one while the tree is hidden by that of the replay.
What the check cannot see is the case in which a replay takes a render that was thrown away for that
of the screen (`reveal`, below); `settled` is false from then to the next commit.

Left out: computeds and resources as sources (any new version is a drift for them), effects and
the loads of stale resources, more than one connection, and everything that is about identity: the
reuse of snapshots, of views and of equal read sets.

### 2.10 `Scope`

| Action | Code |
|---|---|
| `GetExisting`, `GetCreates` | `get` up to the factory, in the scope itself or from its parent (`Owner`) |
| `FactoryReturns`, `FactoryReturnsAnother`, `FactoryThrows` | the rest of `get`: a new instance, one the scope has, an error |
| `Hydrated`, `HydrationFails` | the end of the first `get` of a token with a kept payload |
| `Set`, `Hydrate`, `Child`, `Dispose` | the operations of the same names |

A frame is a `get()` whose factory or whose `fromJSON()` runs: application code, which may take
every operation, `dispose()` of the scope that is resolving it included. `made` remembers for each
instance what its factory had got, and `deaths` the order in which instances are disposed of; no
guard depends on what they say. A cycle is a `get()` that is not offered: it throws, and changes
nothing.

Left out: children of children, an instance whose `dispose()` calls back, a factory that returns
an instance of another scope, `fromJSON()` of the instances that `hydrate()` finds, and one case
the property would refuse: a factory that gets the instance of another token, disposes of its
scope, and then returns that instance has it disposed of again (`CarburetorScope.ts:105`).

## 3. Runs

Run one with `tlc -workers 2 -config <name>.cfg <module>`. Two to three minutes is the longest.
Type invariants that are proved (section 4) are not checked by a run as well.

| Run | Module | Instance | States |
|---|---|---|---|
| `two_stores` | `MCBatch` | stores x and y, y deferring and mortal; subscription a at x, b at y; disjoint paths p and q; beside it, three events and two listeners | 2.4 million |
| `liveness` | `MCCarburetor` | one deferring, mortal store with a patch observer, one subscription that grows, `emitSoon`; fair | 112,000 |
| `timers` | `MCTimers` | a throttle with three keys and three rounds, and a mirror of two branches with every combination of options; fair | 64,000 |
| `computed_one` | `MCComputed` | one store, a computed c and a failing one f, one observer, transactions | 1.4 million |
| `computed_two` | `MCComputed` | c over x and the deferring y, and a plain subscriber; no transactions | 540,000 |
| `readers` | `MCReaders` | an index and a log over doc, doc.a, doc.b and doc.a.x; a component over two stores; a scope and its child | 853,000 |
| `resources` | `MCResources` | a slot and a cache, two keys, room for one answer | 2.7 million |
| `history` | `MCHistory` | two histories of one store, two places, a limit of two; every scheduler and either `restore` | 894,000 |
| `stale_after_flush` | `MCComputed` | c over two immediate stores in a transaction | to the violation |
| `failing_body` | `MCComputed` | a failing c with two observers | to the violation |
| `persist_lost` | `MCPersist` | a throttled subscription to a deferring store | to the violation |
| `reveal` | `MCComponent` | the component of `readers`, one publication | to the violation |

`two_stores`: no update is lost and the batch is empty between tasks, whatever callbacks write,
publish, open and dispose (`NoLostUpdate`, `QuiescentBatch`); a callback starts only for a
registration that is alive (`CallsOnlyTheLiving`); a drift question to a living store is answered
soundly unless a flush holds writes back (`DriftIsSoundOnceMatched`; a flush drops what it holds for
a disposed store, so nothing is claimed of one). Two publications per store let one be delivered inside the delivery
of the other; two registrations let one replace the other; five frames hold a flush, its pass, a
callback, and a flush or a pass of that callback with a callback of its own.

The events share the order of steps with the writes and nothing else, so they are explored by
themselves (`part`). An event arrives after the states it was emitted after, and after the events
before it (`EventsFollowTheirStates`), and none is forgotten (`NoEventIsForgotten`). Three events let
one wait, one join it, and one be emitted while they are delivered; two publications let one be in a
flush while a callback makes another; two transactions nest, in one frame or in two; eight frames
hold a task, its flush, a pass, a subscriber with a flush of its own, and a delivery with its
listener and what that does.

`liveness`: every subscription catches up, and a draft behind an `emitSoon` is published, although
a patch observer is called first and may publish, subscribe and extend reads before the pass.

`timers`: the throttle and the mirror share nothing, so the mirror is explored before the first
step of the throttle, and the throttle beside a mirror that has not begun. Of the throttle: the
depth limit leaves nothing behind (`NothingLeftBehind`), every update is paid (`EventuallyPaid`),
and it implements `Scheduler` (`ImplementsScheduler`; that it does so operation by operation is
proved only). Three rounds and three keys give flushes nested to the limit with a key left in each
of them. Of the mirror: with any options and any failing writes no branch is forgotten
(`NothingForgotten`), entries catch up or have been refused (`EventuallyStored`), and the disposer
of a store that delivers at once reconciles (`DisposerReconcilesAtOnce`). Two branches are the
fewest of which one can hide the other; three publications let one be written, one held back by the
window and one be undelivered.

`computed_one`, `computed_two`: a cache that would be handed out without running the body is
current (`TrustedIsCurrent`); in the end the observers know the value (`AnnouncedCatchesUp`); the
edges are the reads (`EdgesMatchReads`); no settlement is stranded (`NothingLeftInWave`). Three
draft mutations turn the gate on, change what is behind it and turn it off; two publications let
the second find the edges that the first moved. `computed_one` has nested passes and
transactions, nine frames deep; `computed_two` has a store whose edge is called later, out of a
wave, and asks only for `AnnouncedCatchesUp`. It has no transactions: over two stores, the first
finding below needs one.

`readers`: three explorations side by side, one of which is chosen at the start (`part`).

The paths: for every sequence of registrations, every match of up to three written paths in any
order finds the subscribers that `pathsIntersect` says and `hasReaderAt` is right (`LookupsAreExact`:
`MatchIsPathsIntersect` and `ReadersAreSeen` of `SubscriberIndex`), and buckets keep their smallest
form (`IndexTypeOK`); for every sequence of publications of one or two paths the log
denies nothing (`NeverDenies`) and lists the recent paths exactly (`PathsSinceIsExact`). Three
subscribers make a set that shrinks and is still a set, before it becomes a bare id; doc.a.x has an
ancestor that is itself below another; a log of three entries is full after one publication of
doc.a.x. An eviction leaves seven eighths of the capacity, which for three entries is three: the
margin is not exercised here, and is covered by the proofs, which hold for every capacity.

The component: what a visible tree shows is what a render would give, or a render or a call of the
store is due (`ScreenIsCurrent`), and it is registered where the screen reads and nowhere else
(`HeldForTheScreen`). One props reads the immediate store through a selection, the other the
deferring store in both ways, so that a change of props moves the selection, drops or adds the
tracked slot, and leaves calls in the scheduler behind. Two publications let one fall between
render and commit and one come after.

The scope: every instance is disposed of once, when its scope is (`OwnedDieOnce`), and before what
its factory had asked for (`UsersGoFirst`). A scope and a child, a token of each, two instances, one
payload and two nested factories are the fewest with which a local store asks for a shared one, a
store is replaced or fails to hydrate, and a factory disposes of either scope.

`resources`: a slot with three operations that take it, and beside it a cache with at most three
units of requests, installed roots and a second key; they share nothing but the keys, so the cache
is explored before the first step of the slot and the slot beside an untouched cache. Of the slot:
what is served for a key was loaded for it (`ServedUnderItsKey`), a late answer changes nothing
(`LateAnswerIsIgnored`), Pending means that a loader is at work (`PendingIsRequested`). Of the
cache: what was asked for before an invalidation stays stale (`InvalidatedStaysStale`), answers never
go back to an earlier request (`NewestAnswerWins`), the ledger counts and lists the entries
(`LedgerExact`), and while it skips its scans nothing could be evicted (`FreedIsReported`). Of both:
every promise ends (`EveryPromiseEnds`), and the types, with the limit of the memory
(`ResourcesTypeOK`). Three operations are the fewest of which one replaces another while a third
comes between them; room for one answer and two keys make every second answer evict. A callback
takes operations one level deep in the slot's stack of three frames and in the cache
(`MaxNesting = 1`); one level is what the guards after a callback are there for. With two
keys and one place, the backstop of the ledger (the count has doubled) is not reached.

`history`: with two histories, each of which sees the other's replays as changes, and every step
coalesced or told at once, undo and redo move along one line (`IsTimeline`) and can be taken back
(`ReplaysAreReversible`); a fact that reaches a history says what happened (`FactsAreExact`); once
all is delivered the mirror of a history that is not blurred is the state (`NothingEscapes`). Five calls are two writes, a replay, a
write or replay that is coalesced with it, and one to see what the history makes of that; two
entries are the fewest that a third pushes out; a place that only the draft writes and one that is
also written raw give entries of both kinds in one line.

Deadlock is checked except in `resources`, `timers`, `persist_lost`, `readers` and `reveal`, which
end when the bounded publications are used up, a component is gone, or a mirror or scope was disposed
of and has nothing left to do.

### Bounds

`MaxVersion`, `MaxGeneration`, `MaxStack`, `MaxDepth`, `MaxSoon`, `MaxObserve` and `MaxWrites`, for the histories `MaxEffort` (calls, plus attached histories), for the component `MaxPublished`, for the
scopes `MaxInstances`, `MaxKept` and `MaxNesting` (factories that run), and for
the resources `MaxOps`, `MaxRoot`, `MaxTime`, `MaxRequests`, `MaxRoots`, `MaxNesting` and `MaxEffort`, cap
what the application does, never what the engine does next: an operation is offered only while the
frames it needs still fit. `MaxUpdateDepth` and `Capacity` are numbers of the code.

### Fairness

The safety runs assume none. In `liveness`, `Fairness` says that the engine goes on while it can
(one thread, run to completion), that application code closes its transactions and returns
(`SF`, because a callback may do other things first; a callback that never returns hangs the
program), and that a deferring scheduler runs each queued callback (a timer fires, and the flush
takes whole rounds). In `timers`, the throttle's timers fire, the loop goes on, an update returns, and the depth
error travels or is caught; and the mirror's notifications are delivered, its window passes,
microtasks run and timers fire. Nothing is assumed of writes, publications or subscriptions.

### Mutants

Beside some definitions stands a wrong variant of it: a dropped guard, a forgotten reset, an order
swapped, as an edit of the code might bring. No action uses them. PROJECT.json pairs each property
of each passing run with such a variant that breaks it in that run, which shows that the
instance is large enough for the property to mean something.

### Findings

Four runs state what a comment of the source promises, and TLC finds it violated.

1. `stale_after_flush`, `AnnouncedCatchesUp`. A transaction writes x and y. While the flush tells
   y, a callback publishes another path of x directly and reads the computed. The direct pass
   raises the notified version of x past the write that the flush still holds, so
   `CARBURETOR_HAS_DRIFT` (`Store/Carburetor.ts:208`) answers from `matchedVersion` and says no,
   and the computed files the version of x as validated. When the flush reaches x, there is
   nothing to settle: the cached value stays old and the observers are never told.
   `DriftIsSoundOnceMatched` states the half that does hold, and `DriftSound` proves it.
2. `failing_body`, `AnnouncedCatchesUp`. A body that fails has read paths, but its edges remain
   those of its last success (`Derived/Computed.ts:285`), so the write that would make it
   succeed may wake nobody, against the comment at lines 61-64.
3. `persist_lost`, `DisposerReconciles`. One `lastSeenVersion` stands for all branches
   (`Tooling/Persist/PersistPartitions.ts:175`). A dispatch of one branch hides that the call for
   another is still queued; the disposer cancels that call and skips the reconciliation.
   `DisposerReconcilesAtOnce` states when the promise is kept.
4. `reveal`, `ReplayRestores`. A commit takes the pending attempt for a new render unless it is the
   one it consumed last (`Component/AntiHookComponent/Subscriptions.tsx:68`). A render that React
   finished and threw away, as it does when a transition suspends elsewhere, is neither. If the
   tree is then hidden and shown again without a render, `componentDidMount` installs the
   descriptions of that render, while the screen shows the one before; the comment at lines 63-67
   says that a replay restores the last committed description. Until the next commit the
   component may miss writes to what it shows, so `ScreenIsCurrent` and `HeldForTheScreen` are
   stated for a screen whose descriptions are its own (`settled`).

## 4. Proofs

`tlapm <module>` checks them. They hold for all values of the constants that satisfy the
assumption of the module (`CarburetorAssumption`, `ThrottleAssumption`, `PersistAssumption`,
`SlotAssumption`, `CacheAssumption`, `ComponentAssumption`, `ScopeAssumption`, `ComputedAssumption`,
`EventAssumption`, `HistoryAssumption`, `PathsAssumption` with `LogAssumption` and `IndexAssumption`): the home of an id is a store, bounds are numbers, paths
nest transitively, a path overlaps itself, a throttled mirror coalesces, props name a store, the parent of a scope has none,
and the states of a history are over finitely many places, since an installation lists those that differ.
`CacheAssumption` is a hypothesis of the theorems about the cache: `MCResources` takes the cache
and its theorems with `INSTANCE` and assumes it of its own constants, which discharges it.
Paths and subscribers are assumed to be finite for the index, whose buckets count them, and keys
for the cache, whose ledger counts its entries; at any time the code has finitely many of each.

| Theorem | Module | Says |
|---|---|---|
| `TypeCorrect` | `Carburetor_proofs` | stores, subscriptions, batch and stack keep their types |
| `NothingLost`, `DriftSound` | `Carburetor_proofs` | `NoLostUpdate`; `DriftIsSoundOnceMatched` |
| `NothingLeftInBatch`, `TakenWhole`, `OnlyTheLiving` | `Carburetor_proofs` | `QuiescentBatch`; `BatchIsTakenWhole` (not in a run: a callback starts only when no transaction is open and the batch is told); `CallsOnlyTheLiving` |
| `NoneForgotten`, `EventsInOrder` | `Carburetor_proofs` | `NoEventIsForgotten`; `EventsFollowTheirStates` |
| `EdgesAreReads`, `NothingLeftBehind` | `Computed_proofs` | `EdgesMatchReads`; `NothingLeftInWave` |
| `TrustedInOneStore`, `TrustedWhileBehind` | `Computed_proofs` | `TrustedIsCurrent`: with one store; with any number of them, while `NoFalseProof` holds |
| `ToldInOneStore`, `ToldWhileBehind` | `Computed_proofs` | `AnnouncedCatchesUp` for `SteadyFailures`: with one store; with any number of them, while `NoFalseProof` holds |
| `BatchEndsWithWaves` | `Computed_proofs` | `QuiescentBatch`, of the stores with computeds on top |
| `TypeCorrect`, `OnePlace`, `NoneLeftBehind` | `Timers_proofs` | of the throttle: `TypeOK` with the alternation of the stack; `WaitsOnce` (not in a run: an update waits in one place); `NothingLeftBehind` |
| `SchedulerImplemented`, `OperationsPromised` | `Timers_proofs` | the throttle implements `Scheduler`, operation by operation |
| `MirrorTypeCorrect`, `NoBranchForgotten`, `DirtyScheduled`, `ReconciledAtOnce` | `Timers_proofs` | the safety properties of the mirror, and that a dirty branch has a dispatch coming |
| `DeniesNothing`, `NothingInvented`, `SinceExact` | `Paths_proofs` | `NeverDenies` and, not in a run, `InventsNothing`: both halves of what `matches` promises; `PathsSinceIsExact` |
| `SmallestForms`, `EveryMatchExact`, `LookupsExact` | `Paths_proofs` | of the index: `IndexTypeOK`; `MatchIsPathsIntersect`, for sequences of any length and with repetitions; `LookupsAreExact` |
| `PendingRequested`, `NoneForgotten`, `LateIgnored` | `Resources_proofs` | `PendingIsRequested`, the slot's half of `EveryPromiseEnds`, `LateAnswerIsIgnored` |
| `StaysStale`, `NewestWins`, `PromisesEnd` | `ResourceCache_proofs` | of a cache: `InvalidatedStaysStale`; `NewestAnswerWins`; its half of `EveryPromiseEnds` |
| `CacheTypesHold`, `LedgerIsExact`, `NothingFreeIsSkipped` | `ResourceCache_proofs` | of a cache: `CacheTypeOK`; `LedgerExact`; `FreedIsReported` |
| `SlotTypesHold`, `OwnKeyOnly` | `Resources_proofs` | of a slot: `TypeOK`, the limit of the memory included; `ServedUnderItsKey` |
| `AllTypesHold`, `OwnKeyBeside` | `Resources_proofs` | `ResourcesTypeOK` and `ServedUnderItsKey` of a slot with a cache beside it, as the run states them |
| `InvalidatedStale`, `NewestStays`, `AllPromisesEnd` | `Resources_proofs` | `InvalidatedStaysStale` and `NewestAnswerWins` of a cache beside a slot, and all of `EveryPromiseEnds`, as the run states them |
| `LedgerStaysExact`, `FreedStaysReported` | `Resources_proofs` | `LedgerExact` and `FreedIsReported` of a cache beside a slot |
| `ScreenCurrent`, `HeldExactly` | `Component_proofs` | `ScreenIsCurrent`, `HeldForTheScreen` |
| `DieOnce`, `UsersFirst` | `Component_proofs` | of scopes: `OwnedDieOnce`; `UsersGoFirst` |
| `NothingIsMissed`, `FactsSayWhatHappened` | `History_proofs` | `NothingEscapes`; `FactsAreExact` |
| `EachHistoryIsATimeline` | `History_proofs` | `IsTimeline`: every history implements `Timeline` |
| `ReplaysCanBeTakenBack` | `History_proofs` | `ReplaysAreReversible` |

**Delivery.** `NoLostUpdate` says that a missed publication is owed in one of three places: the
batch (or a flush that took it), a pass, the scheduler. To see that a step moves the debt from one
to the next, `IInv` adds two facts: a pass selects registrations of its own store only
(`SelectedAtHome`), and no registration is newer than its store's counter
(`GenerationsBounded`). Without the second, a pass could refuse as "newer" the very registration
it selected. The stack is handled by one lemma for steps that carry every pass and flush with
work left over to the next stack (`CarryLemma`), and one for steps that start a pass.
The drift answer needs one more part of `IInv`: a publication after the read set last grew has
raised `matchedVersion`, or concerns paths the batch or a flush still holds (`Marked`). A step keeps
it because what it does not match stays where it waited (`UnmatchedKept`).

**Calls.** When a callback starts is a question about the stack. The invariant, on top of that of
delivery, says that what the scheduler holds is the call of a registration that lives
(`ScheduledLives`: `subscribe`, `unsubscribe` and `dispose` retract it); that transactions are open
only in the frame on top (`OpenOnTop`: a frame closes what it opened before it leaves, except into
the flush that closing starts); and that what is in the batch waits for that frame or for the
flush on top (`BatchAwaited`). A pass or the event loop then never meets an open transaction or a
batch. `StartsLemma` says that a callback starts in no other action.

**Events.** `StackSound` says of the stack what the batch may rely on: transactions are open only in
the frame on top; a pass that tells stores of a batch has its flush below it; events are never
delivered above a flush; and what the batch holds is awaited by the open transaction, by the flush
on top, or, for deliveries, by any flush or drain below. When a delivery starts, from `emit` or
from `drainEvents`, nothing of this is there, so no publication is untold. The order of the events
is the order of the queue (`InOrder`), and a delivery skips the queue only when it is empty.

**Computed values.** `EdgeInv` has the types and `EdgesMatchReads`. What makes it inductive is that
the types of frames carry facts about the cells. A settlement in the wave, or in a drain on the
stack, is alive only if its computed is observed (`Due`), so `settle` never attaches edges for
nobody; `unsubscribe` kills them in every frame at once (`Dead`, `DeadInStack`). A scheduled call
of an edge is of an edge that is there (`EdgesQueued`). What is said of every frame is said as a set
that the stack is a sequence over, so one lemma (`ReshapedIn`) covers pushes, pops and replaced
tops, and the drains that rewrite the whole stack have one of their own.

`TrustedIsCurrent` speaks of three short cuts of `get()`: an observed computed asks its edges, an
unobserved one the log, and both skip stores that were proven. `CellSound` is what a valid cache
stands for: its value is what the body returns now, or a path it read has been written since, in a
draft, or in a publication after the version of its leaf; and a leaf that is filed as proven or
checked has no such publication. Asking the log finds that publication. Asking the edges finds it
if the edge was marked; `EdgesMarked` says that it was, or that the write still waits in a batch.
In the latter case `CARBURETOR_HAS_DRIFT` answers from the marks alone only when the store has
notified up to its version, and takes for granted that then nothing waits: `NoFalseProof`. The
first finding breaks exactly this, so `TrustedWhileBehind` has it as a hypothesis, for any number
of stores: caches are trusted wrongly in no other way. `TrustedInOneStore` discharges it where it
does hold. There is one batch in the making (`Batching`): it is empty (`Calm`), in the open
transaction of the top frame (`Opened`), or in the flush on top (`Flushing`); so nothing is left
of it at the end (`BatchEndsWithWaves`). With one store no flush further down holds any of it,
because a flush notifies its only store with everything it took; and a store with a batch is
behind. With two stores the flush can be interrupted with one store left, which is the finding.

`AnnouncedCatchesUp` speaks of the end of a long chain: a write, its publication, the batch, the
flush, the pass, perhaps a scheduler, the wave, the settlement. `ToldInv` says what is true all
along it, of the value announced last and of the cache. Both know the places they were made from
(`Faithful`): each is on as the value says, or written in the draft, or in the log after the
version of its leaf. Of each place that was written since the announcement, and that the cache
still stands on, something is coming (`Coming`): a settlement that is alive in the wave or in a
drain, or the write itself (`Comes`): in the draft, in a batch, or as a call of the edge that a
pass or a scheduler still owes. Three exceptions make this inductive. Evaluations in between may
read other places, since the gate has turned; then a write to the gate is in the draft or in the
log (`GateTold`), and what is coming for the gate will do. A body that throws announces nothing,
so while it throws, or has a write to one of its places coming, nothing else need come (`Stuck`). And a pass brings an edge its
call only if the edge is not newer than the pass (`Numbered`). That a delivery may decide that
nothing is owed is `TrustedIsCurrent` again (`Knowing`), and that an announcement whose leaves
have not moved is one nothing happened to is `UntoldMoved`. When all is quiet, nothing is coming;
so the gate, and then every place, is as the announcement says. `SteadyFailures` says that a body
that throws reads the same places whichever way its gate is: the second finding is what happens
when it has just read a place for the first time. The
runs that pass satisfy it, as their failing computed f does.

**Throttle.** `WaitsOnce` and `NothingLeftBehind` are inductive together with the types. The step
simulation follows the actions: `NextRound` moves keys from the queue into a round, which is a
stutter of `owed` as long as they are not in an enclosing round too; a flush that the depth error
ends removes a round without a stutter only if the round is empty. These are the two invariants.

**Persistence.** A write is skipped when the text equals the last written one, so `NothingForgotten`
needs that `lastWritten` is what the storage holds (`Truthful`). The disposer's promise needs
`Ahead`: over an immediate scheduler with `coalesce`, a branch on its way means that the version
moved after the last write.

**Write log.** A publication is recorded path by path with evictions in between, so the invariant
speaks of what has been recorded so far: each such path is in the maps at its version or a later
one, also at all its ancestors, or the watermark has reached that version (`Covered`); and what
the maps hold was published (`Truthful`). The recent paths are a list in which a written path moves
to the end and which eviction cuts at the front. That `since` may stop at the first entry that is
not above the baseline needs the list in the order of versions (`Ordered`); that nothing is missing
needs every path recorded above both the watermark and the start of tracking (`Kept`).

**Index.** A bucket has one of five forms and changes between them with every registration. `IndexInv`
avoids the forms: the index is a function of the read sets (`IndexOf`). `ExactOf` is the form for a
set of subscribers, `BranchOf` for a tally of them, and each of the four operations on buckets is
shown to take the one of the contents before to the one of the contents after (`RegisterLemma`,
`UnregisterBranchLemma` and so on). That needs the guards of `add`, which files only what is new and
unfiles only what was there: a path filed twice would be counted twice. `FileAll` and `UnfileAll`
are folds over sets, which stand for recursive functions over all subsets. The index of the reads
so far solves their equation, and the smallest subset for which another solution differed
(`SmallestSubset`) would have a chosen path without which it does not differ (`FoldLemma`), so the order
does not matter. `matchMultiple` skips the buckets it has visited, and takes as visited the
shared buckets of the paths before the first shared ancestor; `Turned` says that whatever it may
skip is in the match already.

**Slot.** `PendingIsRequested` and `NoAwaiterForgotten` speak of the time between tasks, when
nothing is left of the operations on the stack; the invariant has to say, in the middle of any of
them, who will keep the promise. `IInv` is `Shape /\ Promises /\ Awaited`. `Shape`: operations on
the stack took the slot one after the other, upwards, and `request` is 0 or the last operation.
`Promises`: an open promise has a loader, or a frame that will publish, recover, load or describe
an error for it; a promise that follows another follows a later one. `Awaited`: while Pending is
shown, the owner has a loader or such a frame; or the operation that took the slot last is still
on the stack and will show something else, unless a state installed meanwhile did so. The order of
frames matters only in that operations increase, so the proofs look at the stack as a set
(`FramesOf`), with one lemma for a push, one for a pop and one for a replaced top. The theorems hold
for every limit on operations and on nesting.

`ServedUnderItsKey` is about where data come from, and what is shown now may be put away for later:
in the memory, in a snapshot, in the frame of an operation that a failed publication will undo. So
`SlotInv` says of each of these places that data under a key were loaded for that key
(`Remembering`, `Saving`, `Showing`). Of the frames it says this in two parts. `Known` holds however
long ago a frame was pushed: a recalled answer, and the state a publication that fails would put
back, were loaded for their keys. `Resumed` is about what the slot shows while a frame is on the
stack, and holds only as long as no other operation has taken the slot: a background request
that starts finds what was shown for its key before, and a publication finds either its own Pending with
the data it would put back, or data that a listener wrote. Once another operation has taken the slot, the
frame resumes nothing, which is what the operation version is for. What a background request
serves in the meantime is old data of its own key (`Revalidating`). `LoadedFor` says that the loader
of the data is done, so the start of a request, which sets its key, cannot turn the data of one key
into those of another: up to the call of its loader a request has none (`Unloaded`). The types go with
all this; that the memory keeps its limit needs the length of what `Filtered` returns.

**Cache.** Between an operation and its last effect any listener may load, abort, clear or
restore, so what is claimed of the entries has to say what may still come into them. `CacheInv`
ties an entry to the request of its key (`RequestsSound`): the request was started for that key, it
is marked if it was there at the last invalidation (the epoch of the code), and nothing the entry
shows is newer. So an answer replaces older data only, and counts as fresh only if its request
started after the invalidation. Three facts keep this. What a `restore()` on the stack is going to
install is older than every request there is (`NoneNewer`): a restore cancels them all before its
listeners run, and what listeners start is newer. A `markLoading()` whose `fetch()` found no entry
resets the entry even if a listener has taken the key in between, and would hide an answer; but none
has come, since answers come in tasks of their own and no `restore()` that was begun above that
`fetch()` holds one (`NoneLoaded`, and `Spares`, which compares the frames of the stack in pairs).
And an entry that succeeded has data. `AllPromised` follows each promise to a loader, to a later
request or to a `fetch()` on the stack. Most actions only take requests away and push or pop frames:
`QuietStep` deals with them, given that entries keep their data (`EntriesKept`), records at most
lose their request (`RuntimeKept`), and the stack `Goes` on without a new fetch or restore. A new
request, an answer and an installed root have steps of their own (`StartStep`, `SettleSuccessStep`,
`InstallStep`). The ledger is not in this invariant: whatever it evicts, an entry that goes
breaks no claim. The other two parts are what the ledger needs of the rest: the `fetch()` and
`restore()` that lie over a `fetch()` have taken its key from it (`Barred`), and of the `restore()`
on the stack only the last one called installs a root, and it lies over the others (`RootsSound`).

**Ledger.** That the count is the number of entries could be shown of each operation by itself, were
they not interrupted. `markLoading()` counts one more if its `fetch()` had found no entry, perhaps
many callbacks ago. So `LedgerInv` says of a `fetch()` that still has its key that it found the entry as
it is now, and that the key is in the order of last use (`Aware`); whoever changes the entry in between has to take the
key first, or is `overrun`. `restore()` empties the ledger before the listeners of what it cancels run, and
counts again when it installs: until then (`Resetting`) the ledger says nothing, and every
`fetch()` below has lost its key by `Barred`. An entry that was freed is reported by the end of
the operation that freed it, so while the ledger skips its scans an entry may be free whose abort or failure is
still on the stack (`Leaving`); when that frame goes, it releases, or `LeftFree` records the key.
The order of last use is a filtered sequence, and `Filtered` a recursive function: what it
returns (`FilteredLemma`) is shown of the least number for which it would not hold. `Cardinality`
is dealt with by the library's theorems on finite sets. The actions fall into those that leave the ledger alone
(`LedgerRuns`), release, touch, count one more, remove or install, with one lemma each.
`LedgerInv` also completes the types (`CacheTypesHold`).

**Component.** A component owes its screen to a chain of records: what a render read becomes an
attempt, the attempt of a commit the descriptions, the descriptions the handles, the handles
registrations. `Registered` ties the last three links: registrations are those of the handles,
which are those of the descriptions while the tree is mounted, and nothing else is queued.
`Described` says of whom the others are: the descriptions are those of the screen, and the pending
attempt is that of the finished render or of the render that was committed in a hidden tree. "Those
of" (`IsOf`) cannot mean that the store still has the value that was read; it means that a read was
written since, published or not. Once published, the version in the description is below that of the
write (`HasDrift`), and `Noticed` says that somebody knows: a render is due, or the call is queued.
A selection found unmoved keeps its screen and takes up new reads, and that is right only because
the snapshot is the one on the screen: the last conjuncts of `Described` are for this one step.

**Scope.** Instances are numbered as they are created, and what a factory got exists before the
instance does; so needs have smaller numbers (`Built`). The creation orders list exactly the
instances of live scopes, each once and in increasing order, as `Adopt` appends (`Owners`); the
frames on the stack hold only what may still be handed out (`FramesSound`), and `deaths` has the
instances of disposed scopes, each once (`Buried`). A disposal appends the reversed creation orders
of the children and then that of the scope (`DeathsLemma`): users before what they use, since those
of a scope come in decreasing order, and a child may use its parent's instances but not the other
way round. The children's orders are joined with `FlattenSeq`, a recursive function. What it
returns (`FlattenLemma`) needs an induction over the sequence; the library's induction theorems
cannot be used, but the least number for which the claim fails can be taken from
the well-foundedness of `<` (`LeastNumber`), and its predecessor refutes it.

**History.** Patches are replayed one after the other, and what they make of a state is what the last
patch at each place says; that closed form is how `Patched` is written, so that patches can be put
together (`PatchedConcat`) and taken back (`InvertedConcat`). `LeadsTo` is both: patches lead from
one state to another, and inverted and reversed they lead back. The invariant has, besides types,
two parts. `Waiting` says where a fact can be: a publication is underway only in a batch of an
open transaction, and a fact is queued only for an attached history of a deferring store.
`Mirroring` says what a history knows. `Mirrors`: what it has collected leads from its baseline to
the state; if nothing is on its way, nothing is pending either; if its own replay is what comes next,
the baseline is the state already; and a replay that is claimed but has not started has changed
nothing, at least at its places. `Lined`: the states of its line (`StepsOf`) are such that every entry
leads from one to the next and back, by patches or by snapshots. `StepsOf` walks the entries
with two recursive functions; `StepsAre` shows that any sequence along which the entries lead is the
one it finds, so the steps of the model need only name their line: `RecordsLine` for a commit,
`KeptAdvances`, `MovedAdvances` and `FreshAdvances` for a step of the store, of the cursor and of
`clear`. That a commit is never empty (`FiledLine`) uses that collected patches change something
(`Changing`): one patch alone cannot cancel itself out. Each action then gives the invariant
and the step of `Timeline` at once (`StepProceeds`).

Only model-checked: all liveness (`EventuallyCalled`, `SoonIsPublished`, `EventuallyPaid`,
`EventuallyStored`), which is out of reach of the prover. Every safety property that a passing run
checks is proved. Only `TrustedIsCurrent` and `AnnouncedCatchesUp` need hypotheses beyond the
assumptions on the constants, `NoFalseProof` or `OneStore`, and `SteadyFailures`; two findings show
what happens without them, and the passing runs satisfy them.

## 5. Not modelled, and next

PROJECT.json gives the reason for each part. The order of what comes next:

1. The end of a store's life: its timers and its abort signal.
2. The mirror of a whole store.
3. A component over computeds and resources, with its effects; a hook.
4. Replays of a history that fail midway; instances of a scope whose `dispose()` calls back.
