# Operit 2 core: TLA+ models, checks and proofs

Operit 2 is an assistant application whose Rust core (`src/core/crates`) runs on
every device of a user. The devices form a *Space*: each keeps a complete copy
of chats, settings, files and bindings, works offline, and exchanges operations
with its peers when they are reachable. This project models the parts of the
core in which a mistake would lose or corrupt user data without any test
noticing: the operation journal and its exchange, the exact receipts that steer
the exchange, the gates that decide when two devices exchange at all, the
replication of workspace files, the channel between two devices with the calls
and streams that share it, the turns of a chat with their cancellations, and the
leases that keep concurrent writers away from a running chat generation.

Contents: [inventory](#inventory), [modules](#modules),
[runs](#runs-bounds-and-results), [fairness](#fairness), [proofs](#proofs),
[disagreements](#disagreements-between-code-and-documentation),
[what is left out](#what-is-not-modelled), [plan](#plan).

## Inventory

| Component | State it keeps | Operations | Hard behaviour | What makes it correct |
|---|---|---|---|---|
| Operation journal (`SyncOperationStore.rs`, `transaction/Journal.rs`) | SQL table of originals with a pending flag, vector clock file, entity version log | append a local operation, receive a page, list pending, complete, export with an exact receipt | commit, clock and version are three durable writes; pages are lost, repeated, reordered | sequences are never reused, the clock never runs ahead of the journal, an original is completed once and only after its effect |
| Application of operations (`transaction/Kernel.rs`, `SyncConsistency.rs`, `RuntimeFileSyncStore.rs`) | live files, per-dataset owners | group pending originals, decide by version, materialize, record, complete | one operation of a batch fails; local writers run at the same time | versions name what is materialized; only newer operations replace |
| Exact receipts and the export scan (`SyncReceipt` in `SyncOperationStore.rs`, `PluginStorage.rs`) | sorted intervals of sequences per author; cursor and page of a scan | observe, merge, validate, find the next missing sequence, export a page | intervals touch and arrive in any order, sequences up to the `i64` maximum, rows stored between two queries | a receipt has exactly what was observed; a scan passes over no missing row and returns |
| Workspace file sync (`WorkspaceFileSyncStore.rs`) | durable inventory, intended write, time of the last full hash | scan, tracked change, apply a received operation, recover | outside programs edit without a lock; crash between write and inventory; the root disappears | received content is not journaled as an edit; edits are journaled before they are replaced; absence of the root is not a deletion |
| Chat execution leases (`ChatExecutionLease.rs`) | lease per chat, protected revisions, shared owners | begin, clone, guard, hand off, protect, release, drop | late callbacks and dropped futures of ended generations | a held generation keeps its chat; no chat stays leased without an owner; plugin writes stay out |
| Space synchronization service (`SpacePersistenceSyncService.rs`, `DevicePreferencesStore.rs`) | gate per peer: baselines, last probe, failures, backoff, pending mark; execution mutex; device preferences with a revision | cycle, probe, decide, full pass, pass of a route change, record outcome | state summaries read before and after awaits; baselines shared by cycle and route change; lost calls | a change reaches the peer in the end; a baseline hides nothing that was not fetched; idle devices only probe |
| Transaction data (`Transaction.rs`) | revisions with parents | order, merge, checkpoint | merge order differs between devices | the result does not depend on the order |
| Preferences (`PreferencesDataStore.rs`, `PreferenceOwner.rs`) | file, outbox of operations, merge base | update, publish, apply | crash between file and outbox | no update is lost, none is published twice |
| Chat store replication (`SqlChatSyncStore.rs`) | chats, messages, variants in SQL | local edit, apply payload, delete | deletion against late edits | deletion is final, replicas agree |
| Chat turns (`MessageProcessingDelegate.rs`, `MessageCoordinationDelegate.rs`, `ChatServiceCore.rs`, `WorkActivityService.rs`) | runtime per chat (turn, cancelling, loading, lease, receipt, work item, inbox), receipts, work items | send, stream, commit, continue, change route, finish, cancel, stop, delete, steer | a worker, a cancellation and a stop action end one turn together; early returns; late completions | the chat is leased and loading only for somebody still at work; every submission is answered; an answer that completed is committed |
| Bindings (`CoreNodeBindingStore.rs`) | records in the journal, cache | create, move, release, apply | two devices bind one key | the cache equals what a restart reads |
| Network control, Space membership (`NetworkControlStore.rs`, `CoreSpaceStore.rs`, `peer/space_join.rs`) | control log, epoch, members | join, leave, transfer authority | failure between the steps of a join | one authority; a failed join leaves the old Space |
| Link channel and sessions (`peer/crypto.rs`, `peer/dispatch.rs`, `foundation/link/src/session.rs`) | table of pending requests, registered watches, failure; open watches and pushes with their sequence on the serving side | call, open and close a watch, push items, read, end the channel, serve | reader, writers and close tasks end the channel on each other; futures are dropped while they wait | every exchange ends; streams are ordered and complete; no stream is open that nobody holds |
| Router and peer services (`CoreNodeRouter.rs`, `HostRuntimePeerService.rs`) | connections, routes | connect, relay, reconnect, pair | reconnection during a call | one route per peer; revoked peers stay out |
| Plugins, tools, providers, hosts, applications, edge firmware | mostly external | input and output | outside this project | - |

How they interact. A local change goes through its store, which writes its own
state and appends an operation to the journal. The synchronization service of
each device exchanges pages with every peer: it sends its receipt, gets the
originals it lacks, and hands them to the registry of owners
(`Registry::receive`), which stores them as pending, applies them dataset by
dataset through the owner callbacks, and completes them. All applications on a
device share one lock (`lockApplication`); local writers do not take it.
Workspace files are one such owner; its own lock serializes scans,
application edits and applications of received operations, but not the
terminals and editors of the user. A chat generation reads chat metadata under
a lease; plugin writes consult the lease, received operations do not. A send
takes the lease, begins a turn and leaves a worker behind; the worker, the
cancellation of the user and the stop action of the work item meet in the
runtime of the chat, each under its lock for one small step at a time.

`PROJECT.json` lists the hazards at their lines; the properties below were
chosen from that list.

## Modules

### ChatExecutionLease

One action is one critical section of the lease mutex. `active`, `dirty` and
`nextId` are the fields of `ChatExecutionLeaseState`; `clones` is the strong
count of the shared owner, of which `guards` are armed request guards;
`released` and `protected` are history. A call that returns an error changes
nothing and is a stuttering step. `MutatePluginExtension` is the plugin write
that runs under the mutex; `ApplyRemotePayload` and `DeleteChat` are the SQL
statements that do not take it. The lease id has a width (`MaxId`), as the code
uses a checked addition.

### SyncJournal

Any number of nodes, each with SQL originals, pending flags, clock file, entity
versions and live files; local writer threads; one applying thread per node (it
holds `lockApplication`); a network of pages.

| Code | Actions |
|---|---|
| `RuntimeFileSyncStore`: `writeBytes`, `appendBytes`, `delete` | `WriteBytes`, then `AppendLocal` ... |
| `appendLocalOperation`: commit, clock, version | `AppendLocal`, `WriteClock`, `RecordLocal` |
| `syncOperationsSince`, `readJournalWithInventory` | `Export` with `Missing`, `Winners`, `Page` |
| `syncApplyOperations`, `receiveOperations` | `Deliver`, `DeliverTwice`, `RetryPending` through `ReceivePage` |
| `Registry::receive`, owner callback of `SyncConsistency.rs` | `NextGroup`, `Check`, `Materialize`, `RecordRemote`, `Append`, `Complete`, `EndReceive` |
| errors, process death, lost pages | `FailWrite`, `FailApply`, `Crash`, `Lose` |

Data is abstracted: the bytes of a file are the author and the number of the
write, a page is a set (the code sorts it), a dataset is one entity. Export
sends, of the missing originals of one author on one entity, only the last one;
the others stay gaps that later pages fill. Wall clocks differ by constant
offsets; a page arrives at least one tick after its operations were made.

### ReplicatedLog

What the journal promises, without threads, pages and faults: replicas with
growing histories; an author writes under a new identity (`Author`), a replica
learns what somebody has written (`Learn`), the version of an entity moves
forward only (`Advance`), and an operation is settled only when a version has
reached it (`Settle`). SyncJournal instantiates it with `history` = originals,
`applied` = originals that are not pending, `version` = entity versions
(`ImplementsLog`).

### PeerSyncGate

Two storage members of a Space, each with its cycle task and, where a user
moves chats, the task of a route change. `gate` are the fields of
`PeerSyncGate`, `execution` its mutex, `loc` the locals of the tasks (the copy
of the gate a decision is made from, the page in transit).

| Code | Actions |
|---|---|
| `synchronizeOnce`, `peerPassRequired` | `CycleStart`, `CycleProbe`, `CycleProjection`, `CycleMember`, `CycleCallLost` |
| `synchronizeRouteChange` | `RouteChange` |
| `runPeerFullSync`, `synchronizePeer` | `PassBegins`, `PassPreferences` |
| `synchronizeDomains` and the two sides of `syncApplyOperations` | `PassPage`, `PassApply`, `PassSettle` |
| `recordPeerPassCompleted`, `recordPeerPassFailed` | `PassRecord`; `PassPreferencesFails`, `PassPageFails`, `PassApplyFails`, `PassSettleFails` |
| `DevicePreferencesStore::set`, `merge` | `SetPreference`, `MergePreferences` |
| the journal, the connection, the delay | `Append`, `Disconnect`, `Reconnect`, `BackoffElapses` |

What a member has of an origin is a count: a page brings the next operations of
each origin, as far as `PageLimit` reaches. That holes are filled is the subject
of SyncJournal and SyncReceipt. A preference document has one key. The length
of a backoff is abstracted to whether it still runs. A failed call may have
reached the peer, before or after its effect.

### ChatTurn

One chat. A task is one run of `sendMessageInternal` with its worker; an action
is one critical section of the lock of the chat runtimes, of the lease store, of
a receipt, of an inbox, or one awaited call. `runtime` is `ChatRuntime`, `holder`
the lock of the chat holder that sends, cancellations and deletions of users
take, and that workers, continuations and the stop action do not.

| Code | Actions |
|---|---|
| `sendMessageInternal`, `sendUserMessage` | `SendAdmitted` ... `SpawnWorker`, with one action for each kind of early return |
| futures that are dropped at an await (`dispatch.rs:222`), with the guards that run then | `SendDropped`, `CancelDropped` |
| the worker: collect, commit, guidance | `StreamEnds`, `CommitAssistant`, `ReadGuidanceLease`, `DrainGuidance`, `Decide` |
| `cleanupRuntimeAfterTurn`, `finishChatExecution(ForTurn)` | `CleanupRuntimeAfterTurn`, `CheckTurn`, `FailTurnReceipt`, `FinishChatExecution`, `PublishTerminalState` |
| `finalizeMessageAndNotify`, `completeTurnReceipt` | `FinalizeMessage`, `PublishCompleted`, `CompleteTurnReceipt` |
| `continuationOwnership`, `deliverContinuationResult`, `handleTokenLimitExceeded` | `OwnContinuation` ... `AnswerOrigin` |
| `cancelMessage`, `deleteChatHistory`, `stopWork`, `steerMessage` | `CancelRequested`, `StopWork`, `SteerMessage`, then `Reserve` ... `AnswerCancellation` |

The lease is the one of ChatExecutionLease, reduced to its generation: `Release`
frees only its own, a clone that goes away last releases (`HoldsLease` says which
points of a task own one). The turn number is unbounded here; it grows by one
with each turn and cancellation. `silenced`, `overrun` and `abandoned` are history
variables that no guard reads.

An inbound call of a peer is dropped when the connection of the peer ends, and
with it the `sendMessageInternal` or `cancelMessage` it runs, wherever that waits: a
send for the configuration (`SendDropped` at "admitted"), the message and the
stream ("building") or the presentation ("accepted"), a cancellation for the
producer ("aborting"). Of a send the two guards run, of a cancellation nothing. Workers and
continuations run in scheduled tasks and are not dropped; `deleteChatHistory` and
the stop action are not calls of a peer. `abandoned` are the turns this happened to.
The exits of a failed send are folded by what they do: those that clean the turn
up first and those that leave at once to the guards (`BuildFails`, `SpawnFails`).

### LinkChannel

One direction of an authenticated channel. A *user* is one operation of the
calling node (a call, a watch, a push) with its handle; `pending` and `watches`
are the two tables of `MultiplexedChannel`, `failure` how far `terminate` has
come, `up` the carrier. On the serving node `source` and `push` are the two
tables of `CoreLinkSession`, with the queue of each source.

| Code | Actions |
|---|---|
| `exchange`, `send` | `Enter` (as part of the operation), `Check`, `Write`, `WriteFails`, `TakeBack`, `Resume`, `Cancel` |
| `openWatch`, `watchCloseCallback`, `closeWatch` | `OpenWatch`, `DropStream`, `CloseWatch`, `Insert` |
| calls, `openPush`, `Push::send`, `Push::close` and its drop | `Call`, `OpenPush`, `PushItem`, `ClosePush`, `DropUnclosed` |
| `readLoop`, `routeIncoming`, `dispatchResponse`, `terminate` | `Read`, `ReaderStops`, `DrainPending`, `ClearWatches` |
| `serveIncoming`, `dispatchLoop` | `Flush`, `Respond`, `AnswerCall`, `Stop` |
| `CoreLinkSession::watch`, `push`, `nextWatchBatch` | `ServeWatchOpen`, `ServeWatchClose`, `ServePushOpen`, `ServeItem`, `ServePushClose`, `Drained` |

A host that refuses the close task of a dropped stream ends the channel
(`DropStream`); the one of a dropped push is ignored (`DropUnclosed`), and the user
ends as "unclosed".

One step is one critical section of a table, one awaited write, or one request
in the session, whose awaits nothing else of the session can interrupt. Calls run
in tasks of their own and are answered in any order. Ids are distinct, so that
the key of a user is the user. A frame on its way back concerns the pending
request or the watch of its key and nothing else, so `replies` keeps one queue per
key: the order of the frames of one key is the carrier's, the frames of different
keys are read (`Read(u)`) in any order. The requests of one stream share their key, which
is why a dropped item blocks the close of its push.

### SyncReceipt

One author and one database; authors and databases are independent until their
rows are sorted and cut to a page. `ranges` is the interval list of the receipt,
`rows`, `cursor` and `page` belong to the scan, `known` and `asked` are history.

| Code | Definitions |
|---|---|
| `observe`, `observeRange`, `merge` | `ObserveRange` with `WithRange`; the loop is `LastAbsorbed` |
| `validate`, `sequenceFor`, `containsSequence`, `nextMissingSequence` | `Valid`, `SequenceFor`, `ContainsSequence`, `NextMissingSequence` |
| the loop of `exportWithBudget` in `PluginStorage.rs` | `ExportWithBudget`, `ReadRows`, `EndScan` |
| `apply`, while the scan is between two queries | `StoreLate` |

`saturating_add` and `checked_add` are modelled at the largest sequence. The loop
of `observeRange` is stated by what it does after any number of turns
(`MergedStart`, `MergedEnd`: the least start and the greatest end so far) and by
where it stops, without recursion, for any list, so that it can be proved about. The
bytes of a row play no part in the scan and are left out. SyncJournal takes the
result for granted: its `Missing` is the set of the originals that the receiver
does not have, which `ReceiptIsExact` justifies.

### WorkspaceFileSync

One device. `live` are the files under the workspace root, `inventory`,
`intent` and `age` the durable inventory file (`age` is the time since
`lastFullHashAt`, saturated, or -1 for a time in the future), `version` what
the journal has of every file, `inbox` the received operations that are not
applied. `job` is the pass that holds the lock: a scan, a tracked change (scan,
change, scan with the path forced) or the application of a received operation
(scan, decide, save the intent, write, save the inventory, record).

| Code | Actions |
|---|---|
| `scan`, `track`/`trackPaths`, `materializeOperation(s)` | `Scan`, `Track`, `MaterializeOperation` |
| `recoverPending` | `WriteIntended`, `SaveRecovered` |
| `scanUnlocked`, `collect` | `CheckRoot`, `List`, `Collect`, `Publish`, `SaveScan` |
| the change of `trackPaths` | `Change`, `ChangeFails` |
| `applyUnlocked` | `SaveIntent`, `Skip`, then `WriteIntended`, `SaveRecovered`, `Record` |
| user, clock, volume, process | `Edit`, `Tick`, `ClockBack`, `LoseRoot`, `RootBack`, `Fail`, `Crash`, `Restart` |

A content stands for its hash and has a size; a scan that is not due for a full
round trusts an unchanged size (`Shortcut`). The host's `writeBytes` creates
missing directories and its `list` shows an absent directory as empty
(`operit-host-native-storage`); both are modelled. `author`, `edited` and
`cut` are history variables that no guard reads: who wrote a file last, whether
an application edit is not journaled yet, and whether a scan ended between an
operation it journaled and the save of its inventory. A scan that meets a listed
file which is gone by then (`Vanished`) ends with an error and gives the
outstanding edits up; see the observations below. `Scenarios` says which
faults may meet in one execution. Whether a received
operation is newer than the local version is chosen when it arrives and becomes
false when a local operation on the same file is journaled: that is all this
store sees of the order, which SyncJournal models.

The journal appears in WorkspaceFileSync as one atomic step per operation
(`Publish`, `Record`); SyncJournal shows what happens inside that step. Each
module is checked on its own.

## Runs, bounds and results

| Run | Properties | Result |
|---|---|---|
| `lease` | `TypeOK`, `HeldLeaseIsActive`, `LeasedChatHasOwner`, `DirtyIsOwnProtection`, `NoWriteUnderGeneration` | hold |
| `journal` | `TypeOK`, `FreshSequence`, `ClockNeverAhead`, `AppliedBeforeComplete`, `VersionIsNewest`, `CompletedStays`, `EventuallyInSync`, `ImplementsLog` | hold |
| `journal_race` | `VersionIsMaterialized` | violated: local write against application |
| `journal_crash` | `OnlyNewerChosen` | violated: crash before the version is recorded |
| `receipt` | `ReceiptIsExact`, `ReceiptIsAccepted`, `PageIsComplete`, `ScanReturns` | hold |
| `gate` | `TypeOK`, `BaselineIsHeld`, `SettledIsConverged`, `OperationsConverge`, `SettlesToProbing` | hold |
| `gate_prefs` | `SettledPreferencesAgree` | violated: preference set during a pass |
| `turn` | `TypeOK`, `LeaseHasOwner`, `LoadingHasOwner`, `CompletedIsCommitted`, `GenerationKeepsLease`, `ChatComesToRest`, `SubmissionsAnswered` | hold |
| `turn_stop` | `EverySubmissionAnswered` | violated: stop action of a work item |
| `link` | `WatchInOrder`, `PushInOrder`, `NothingLeftBehind`, `ExchangesEnd`, `EventsArrive` | hold |
| `workspace` | `IntentIsPending`, `InventoryIsPublished`, `NoEcho`, `AppEditsKept`, `TombstonesGenuine`, `EventuallyPublished` | hold |
| `workspace_root` | `TombstonesGenuine` | violated: recovery creates the root |

Bounds.

- *lease*: two chats, one revision, three generations, two clones or guards of
  each at once. Three generations on two chats let two successive generations of
  one chat overlap with one of the other, which is what stale handles need; the
  proofs remove the bounds.
- *journal*: two nodes with one writer each and two writes, one file, pages of
  one operation, two pages under way, two ticks, node 2 one tick ahead, two
  faults. Two operations of one author are the least for compaction to leave a
  gap; two pages under way overtake each other; the last tick only drains, so
  that writes at two different times, before and after the receipt of a page,
  remain. One fault reaches every cut of a write and of an application, a second
  one the recovery from the first; the proofs cover any number.
- *receipt*: six sequences, the sixth being the `i64` maximum, a page of three
  rows, queries of two, one late row. Six sequences are enough for three
  intervals with gaps, of which an observation absorbs none, some or all;
  a page larger than a query needs a second query to fill.
- *gate*: node 1 has dialled node 2 (so that one cycle goes through the
  projection and the other through its second loop only), the user of node 2
  writes two operations or an operation and a preference, one fault or one route
  change, pages of one operation and one page per pass. With one page per pass
  two operations already reach the limit `MAX_SYNC_PAGES_PER_PASS`. A route
  change that runs beside a cycle's probe *and* a fault that keeps that cycle
  from its own pass promote a probe which no pass has followed; `Quiet` exempts
  that double event, which the bound of one event keeps out of this run.
- *turn*: two turns, or a turn and its continuation, with a cancellation and
  guidance, a stop and guidance, a deletion, a rejected send, a route change, or a
  dropped call with a cancellation or with a stop.
  Two turns are what a late worker needs to meet its successor; the events in one
  scenario are the ones that meet in the runtime. Larger instances were explored
  when the model was written and found nothing more: a cancellation together with
  a stop (516,000 states, with liveness), all six events in one execution
  (1,000,000 states, invariants), and three turns (8,000,000 states without
  exhausting them).
- *link*: a call, a watch and a push, two at a time; a limit of one stream, two
  events of a source, three items of a push; one fault, or for a user alone one
  fault and one dropped exchange. Two users at the limit contend for the last
  stream; two events make a batch whose order shows; a dropped item, one refused
  because of it and one that is sent again are three. All three users with all
  events in one execution are out of reach: a search with the invariants only was
  stopped after eleven million states, without a violation so far, while the
  model was being written (with the check and the write of a frame as one step).
- *workspace*: two files, two contents of one size (so that only creation and
  deletion show in a listing and every rewrite depends on the full round), a
  full round due after one tick, two user edits, outside edits at any moment of a
  pass, one received operation, and one fault of any kind or two crashes. Two
  files are needed for "another file changed" and for a mass deletion; two
  crashes for a crash during the recovery of the first.

`CHECK_DEADLOCK FALSE` is set for the leases, the journal, the channel and the
turns, whose bounded writes, operations and sends end, and for the receipts, whose scan returns.
PeerSyncGate runs cycles and WorkspaceFileSync scans for ever.

Every property of a passing run has a mutant in its module, a changed definition
that a plausible mistake would produce (a release without the generation check,
a sequence from the clock file alone, a receipt that knows only the highest
sequence, a missing root check, ...), with which TLC finds the property violated.

## Fairness

*SyncJournal* (`LiveSpec`). A thread that runs keeps running: weak fairness of
`WriterStep`, `ApplierStep` and of time. The synchronization service polls its
peers and repeats a pass until nothing is missing: weak fairness of `Export`.
Delivery and the retry of pending originals compete for the application lock of
the receiving node, and the service retries both in every cycle: strong fairness
of `Deliver` to each node and of `RetryPending`. Faults have no fairness and are
bounded, so that they stop.

*SyncReceipt* (`LiveSpec`). The scan is one call that runs until it returns: weak
fairness of `ReadRows \/ EndScan`. Observations and late rows have none.

*WorkspaceFileSync* (`LiveSpec`). A pass that has the lock runs to its end (weak
fairness of `JobStep`). The scanner thread calls `scan` in an endless loop, the
service offers received operations again in every pass, and time goes on: strong
fairness of each, since each waits for the same lock or for the end of a pass. A
stopped application is started again and an absent volume comes back: weak
fairness of `Restart` and `RootBack`; without them nothing is promised.

*PeerSyncGate* (`LiveSpec`). The worker of the service runs cycles and a task
moves on where it stands, if only to a failed call (weak fairness of each
`TaskStep`); a backoff runs out; a lost connection is set up again. Users, route
changes and faults have no fairness and are bounded.

*ChatTurn* (`LiveSpec`). Tasks and cancellations that have begun go on (weak
fairness of `TaskStep` and `CancelStep`); this includes that a response stream
and a summary end, by themselves or by an error or timeout of the provider. Users
are free to do nothing, and calls are dropped without fairness: a send that
begins goes on unless its caller is gone, and `ChatComesToRest` says what a chat
comes to then. A continuation takes one of the two sends of the
instance; when none is left it may still fail.

*LinkChannel* (`LiveSpec`). An exchange that has begun goes on, the reader reads,
a thread that ends the channel finishes, and the session serves and flushes
(weak fairness of each); a reader notices a carrier that has ended, by its
heartbeat at the latest (`~up /\ ReaderStops`). This includes that the services
behind calls and streams answer: `exchange` has no timeout of its own. Users,
sources, faults and dropped futures have none.

## Proofs

All theorems hold for every value of the constants that satisfies the named
assumptions of the modules: bounds are numbers, ids are numbers or differ from the
markers for "none", the users of a channel are of one kind each, every writer has a
home, a peer gate is about two members (`NodeAssumption`: each pair of members has
its own gate). Apart from the two members, no theorem assumes that a set is
finite; sequences are bounded by the largest one, as in the code. Every safety
invariant and action property of the passing runs is a theorem. Two hypotheses
are more than assumptions on constants and are part of the statements that need
them (`RootApart`, `RootStays`, below).

**ChatExecutionLeaseProofs.** `TypeCorrect`, `HeldLeaseSafe`, `NoOrphanLease`,
`ExecutionExclusive`, `WritesExcluded`, `ProtectionIsOwn`. The inductive invariant adds to the
checked invariants that ids above `nextId` are unused (a fresh lease has no stale
handle) and that every armed guard owns a clone (disarming cannot take a clone
of somebody else). The key lemma is `ReleaseOwnFacts`: releasing a lease
leaves the entries of all other leases alone, because a chat's entry names its
own lease.

**SyncJournalProofs.** `Invariant`, `TypeCorrect`, `SequencesFresh`,
`ClockCommitted`, `CompletedIsApplied`, `CompletedForGood`, `NewestRecorded`,
`IdentitiesAgree`.
The inductive invariant `IInv` has three parts:

- `JournalInv`: pending originals are received ones (`PendingReceived`); what
  any node or page holds of an author, the author holds itself (`AuthorHolds`);
  an author's own sequences are `1..k` (`Contiguous`), which is what makes the
  maximum of the clock and the highest committed sequence fresh; an author has
  one original per sequence (`UniqueIdentity`); a writer past its commit holds a
  committed original (`WriterHolds`); the clock names a committed original.
- `ApplierInv`: the applying thread works on pending originals, and whatever it
  has behind it in a batch is covered by the entity version. Without it,
  completing a batch as a whole could complete an operation never applied.
- `AppliedBeforeComplete`, which is inductive only together with the first two,
  because versions grow (`RecordedCovers`, from transitivity of the order).

`NewestRecorded` adds `OwnRecorded`: as long as nothing failed, what a node has
written itself is covered by its version, or its writer still has to record it.

There is one lemma per action, and frame lemmas (`JournalFrame`, `VersionFrame`,
`ApplierMove`) for the parts that an action leaves alone. `IdentitiesAgree` has
no run of its own: it says that the fingerprint conflict of `Journal::put` cannot
arise among nodes that follow this code, so the models need no branch for it.

**SyncJournalRefinement.** `JournalImplementsLog`: every behaviour of SyncJournal
is one of ReplicatedLog under the mapping above. `AppendLocalIsAuthor` uses that
an author's sequences are contiguous and that nobody holds what its author does
not; `PageIsWritten` and `ReceiveIsLearn` that pages contain originals only;
`RecordIsAdvance` that a recorded version replaces only an older one;
`CompleteIsSettle` that a batch is completed only when versions cover it. All
of them rest on `IInv`; every other action is a stuttering step of the log.

**PeerSyncGateProofs.** `TypeCorrect`, `BaselineIsFetched`,
`SettledMeansConverged`. What a task compares was read before several awaits, so
the invariant says of each kind of copy what it may lag behind: a digest in a gate
or in a task's locals is never ahead of the clock it was read from (`Digests`), a
task is in a pass exactly when it holds the execution mutex (`Exclusive`), and
whatever is or is about to become the baseline is fetched, or a pass that will
compare is still to come, or the gate has work pending or a failure (`Promotion`,
in `Quiet` executions). Without the last, a baseline promoted by the
route-change task while a cycle is between probe and pass would hide operations;
`StuckIsPending` is its counterpart for originals that were received and could not
be applied.

**ChatTurnProofs.** `TypeCorrect`, `NoOrphanLease`, `NoOrphanTurn`,
`CompletionIsHonest`, `GenerationHasLease`, for any number of turns,
continuations and dropped calls. An abandoned turn is the one exception of
`NoOrphanTurn`: nobody is left to end it, and the lease is free or is kept
by the cancellation that was dropped. `TaskInv` says for every point of a task what it owns (turn, lease,
inbox, receipt) and what it has already committed; `Distinct` that a turn number is
handed out once and that a lease passes from a turn to its continuation;
`Continued` that a continuation comes after the turn it continues; `Cancelling`
that a cancellation has a turn number of its own and marks the runtime while that
is the current one; `Acquired` that no lease in use is acquired again. A lease is then released by whoever
comes last, the worker, the cancellation or the stop.

**LinkChannelProofs.** `WatchesAreInOrder`, `PushesAreInOrder`,
`NothingStaysBehind`, for any number of users, streams, events and faults. The
invariant is per user and says where its frames can be. Of a watch that is
registered, the frames under way are its opening answer, then exactly the events
its stream does not have yet, in their order, then its end (`InOrder`). A push has
at most one request or answer under way, because its key stays in the table until
the answer is read, also when the future that waits for it was dropped (`PushOK`);
what the session has executed is what was sent, but for that one item. `PushHeld`
and `WatchHeld` say who is still going to close a stream that the session has open,
or that the host refused the task that would have.

**WorkspaceFileSyncProofs.** Four invariants, three of them on top of the first.
`IInv` (what a pass has done at each step; outside a cut scan the inventory is
what the journal has, but for a received operation on its way and an edit just
published) gives `InventoryMatchesJournal`, for any faults. `OInv` (a file has one waiting
operation, and a pass that applies, and the intent it saves, are of one that waits)
gives `IntentBelongs`, for any faults.
`RInv` (a file that the user did not write last is as the inventory or the intent
says, and the scan has found it so) gives `ReceivedIsNotEcho` and
`DeletionIsGenuine` under `RootApart`: the root does not vanish during a pass, and
not in an execution with a crash or an error. The hypothesis is needed: the run
`workspace_root` violates `TombstonesGenuine` without it. `EInv` (an edit of the
application that is not journaled belongs to the tracked change in its second scan)
gives `EditIsKept` under `RootStays`, the first half of it.

**SyncReceiptProofs.** `ReceiptHasTheObserved`, `ReceiptIsValid`, `NoRowLeftOut`.
The invariant: the intervals are in order with a gap between any two (`Sorted`, which
is stronger than `validate` and is what makes both partition points meaningful),
they have exactly what was observed, and the cursor has left no missing row behind
that is not in the page (`Behind`). `MergedFacts` is the heart: a sequence between
the merged start and end is in the observed interval or in an absorbed one, for
the first absorbed interval that reaches it touches what was merged before. Least
and greatest members exist by well-foundedness of the naturals, the only induction.

Only model-checked: the temporal properties under fairness (`EventuallyInSync`,
`ScanReturns`, `OperationsConverge`, `SettlesToProbing`, `ChatComesToRest`,
`SubmissionsAnswered`, `ExchangesEnd`, `EventsArrive`, `EventuallyPublished`),
which are out of the prover's reach, and the violations, which are single
executions.

## Disagreements between code and documentation

The violation runs show behaviour that differs from what a comment or a document
says; `PROJECT.json` quotes the lines.

- `journal_race`: `writeSnapshot` writes bytes and journals later, without the
  lock of the applying thread; the version can name the local operation while
  the file holds received bytes, and other devices get the local ones.
- `journal_crash`: a crash after the commit of a local operation and before its
  version is recorded lets an older received operation replace it locally.
- `gate_prefs`: a pass exchanges preferences first and reads the summary that
  becomes its baseline last; a preference set in between waits for the next
  unrelated change.
- `turn_stop`: the stop action of a work item cancels the turn without answering
  its receipt; whoever waits for the submission waits until the next send.
- `workspace_root`: the recovery of an intended write runs before the check of
  the root, creates it, and the other files count as deleted.

Observations that the models reach and that have no run of their own, because no
document or comment promises otherwise or because a run above shows the same
cause:

- A send that its caller drops where it waits (`dispatch.rs:222`) runs only its
  guards. They do what their comment says ("ends requests whose future failed or
  was dropped", `WorkActivityService.rs:375`): the work item fails and the lease is
  given back. But the chat goes on loading the turn, with its released lease and its
  receipt, until the next send or cancellation (`SendDropped`).
- A chat operation received from another device rewrites metadata that a running
  generation has frozen (`SqlChatSyncStore.rs:1291`, `ApplyRemotePayload`); the
  leases bind plugin writes only.
- A scan journals its operations first and saves the inventory last
  (`WorkspaceFileSyncStore.rs:192`). After a crash in between, a file that is then
  deleted stays on the other devices. `EventuallyPublished` and
  `InventoryIsPublished` exclude executions with such a cut.
- Every scan that finds a change restarts the interval of the full-hash round,
  also when it trusted the sizes of the other files (`:191`).
- `trackPaths` scans twice, and the second scan fails when an outside program
  deletes a listed file before the scan reads it. The change just made is then not
  journaled; a change of equal size stays unseen until the next full-hash round,
  and a received operation may replace it before. The attempt to prove
  `AppEditsKept` led to this execution of 22 steps, which needs four edits and no
  fault; the statement leaves it out (`Vanished`) and is proved otherwise.
- An outside rewrite of equal size is replaced by a received operation without
  being journaled if no full-hash round came in between.
- With a clock that is behind, an edit is ordered before the version it replaces:
  its own device shows it and the others drop it.
- `finishChatExecutionForTurn` asks whether its turn is current and ends the
  execution under another lock (`MessageProcessingDelegate.rs:1005`); a turn
  begun in between is ended in its place. `GenerationKeepsLease`
  and `SubmissionsAnswered` exclude such executions
  (`overrun`).
- A send that is rejected because the chat is busy marks the work item of the
  running generation as failed.
- The work item of a turn that continued stays "running": only the item the
  runtime names at the end is closed.
- A cleaned-up turn frees its lease before it completes its receipt. A new send
  may come in between, and the finished turn's receiver gets an error.
- A `cancelMessage` that its caller drops while it waits for the producer
  (`MessageProcessingDelegate.rs:1604`) leaves the reservation in the runtime, with
  the lease of the chat: the worker returns because its turn is no longer current,
  further cancellations do nothing because one is under way, and sends are refused
  until the application restarts. `LoadingHasOwner`, `ChatComesToRest` and
  `SubmissionsAnswered` exclude the turns of dropped calls (`abandoned`,
  `silenced`); `LeaseHasOwner` holds for them too.
- An exchange that is dropped while it waits leaves its key in `pending`, and a
  dropped `openWatch` its registration and the watch of the peer too
  (`crypto.rs:458`). After a dropped push item the close that `Push::drop`
  schedules is refused as "already in flight" while the answer is outstanding,
  and the push stays open in the session. `NothingLeftBehind`
  leaves such users out (`cancelled`).
- `Push::drop` ignores a host that refuses its close task (`dispatch.rs:315`), where
  a dropped watch ends the channel: the push stays open in the session, and counts
  against its limit, until the channel ends. `NothingLeftBehind` allows exactly
  this (`"unclosed"`).
- A source that fails (a panic in its mapping) is reported to the calling node as
  an error of the watch, and `dispatchResponse` ends a stream only for `Closed`:
  the consumer waits on. `WatchInOrder` says what a stream has when it ends, not
  that it ends.
- `openWatch` replaces the registration of its id before the peer can refuse a
  duplicate, and removes it then. Ids are distinct in the model; relayed origins
  "may reuse IDs" (`HostRuntimePeerService.rs:586`), which is handled for calls
  there.

## What is not modelled

In the modelled components: export floors and space joining of the journal
(`setExportFloor`, `prepareSpaceJoin`: no caller outside tests), bootstrap
records, control operations (`recoverAppendedOperation`), preference outboxes
and owner snapshots, the legacy import; in the workspace store, symbolic links
and file/directory conflicts (errors, covered by `Fail`) and empty parent
directories; in the synchronization service, storage grants and their
revocation, peers that keep no storage, progress reports and more than two
members (each pair has its own gate); in the turns, several chats
(`updateChatExecutionState` stores the states of all chats at once), sequences a
plugin defers, the summary after a turn and what responses say; in the channel,
handshake, encryption and codecs, the timing of heartbeats, snapshots, and the
other direction, which shares only the carrier. Blobs are part of an operation: a missing blob is a failed
application. Hashes do not collide. SQLite transactions and single file writes of
the host are atomic, as the code assumes.

The other components are listed with a reason in `PROJECT.json`. User
interfaces, providers, tools, plugins, code generators and firmware are input
and output or generated; the rest is in the plan.

## Plan

In this order; each step is a module with its runs, mutants and, where marked,
proofs.

1. `CoreNodeBinding`: bindings over the journal, the cache against what a restart
   materializes.
2. `TransactionMerge`: `newer`, `ordered` and the merge of `Transaction.rs` as
   operators, checked for independence of the order over bounded inputs.
3. LinkChannel with ids that several origins share, and with snapshots.
4. `PreferenceOutbox`, `SpaceJoin`, `NetworkControl`, as far as they can be
   checked.
5. A refinement for another component: the channel as one queue per stream, on
   the invariant of LinkChannelProofs.
