# Verification of Realtime

TLA+ models of the sync core of Realtime: how the server keeps a CRDT document,
how it replaces one by a compacted successor, and how a plugin keeps its copy in
step with the server. TLC checks the models on small instances; TLAPS proves the
storage invariants for every instance.

Paths below are relative to the repository: `src/` is the Obsidian plugin,
`server/src/` the Rust server.

## The system

| Part | State | Operations | What makes it hard |
| --- | --- | --- | --- |
| Document storage (`crdt_storage.rs`, `PersistentDocument` in `crdt.rs`) | manifest, snapshot and update segment per generation; the live document; the mutation lock | load, import, migrate, append and publish, reject, compact, reload, repair, unload | crashes at every await, torn and zeroed records, failed truncations, half-done compactions, updates that panic |
| Document epochs (`crdt_epoch.rs`, `DocumentStore` in `crdt.rs`) | epoch manifest, physical documents, connections, one weak reference to the live instance | connect, write, propose, acknowledge, activate, retire, delete, recover | activation spans several locks while peers connect and write; restarts; dropped request handlers |
| Sync session (`RealtimeProvider.ts`, `clientToken.ts`, `documentEpoch.ts`; `run_connection` in `crdt.rs`) | status, lifecycle, token, socket, versions, timers, pending epoch | connect, disconnect, destroy, local update, socket events, five timers | late answers, half-open sockets, messages lost in part, read-only grants, epochs that move under it |
| Compatibility gate (`compatibilityGate.ts`) | generation, verified generation, check in flight, remembered failure | ensure, verify, invalidate | shared by all providers; a check may be older than the loss it should follow |
| Multiplexed transport (`mux.ts`, `dmux.rs`) | channels, queued opens, parts, backoff | open, data, part, close, reset, ping | replaced sockets, full queues, refused opens |
| Vault index and files (`VaultSync.ts`, `localSyncState.ts`, `bootstrapEvents.ts`) | index maps, path versions, local agreement, queues | create, delete, rename, modify, bootstrap, hibernate | events before the first sync, awaits between event and publication |
| Text and structured documents (`SyncedDoc.ts`, `Document.ts`, `StructuredDocument.ts`) | shared text, disk, last known disk text, local store | write, fold, startup merge, rebuild for an epoch | three copies that change during each other's awaits |
| Binary and config files (`BinarySync.ts`, `ConfigSync.ts`, `blobs.rs`) | disk hash, index entry, baseline, upload queue | reconcile, upload, download, resolve conflict | stale hashes, lost publication races |
| Plugin databases (`pluginDb/`, `plugindb.rs`) | change log, cursors, snapshots, tombstones | publish, apply, compact, rebase, migrate | gaps, reordered batches, replaced transports |
| Background jobs (`jobs.rs`) | intents with revisions and generations, tasks | enqueue, dispatch, execute, complete, fail, rotate | writes during execution, at-least-once tasks, restarts |

The rest (REST, MCP, search, git audit, rollback, backup, sharing, sign-in,
editor bindings, presence, settings, the CLI, SDK and web viewer) is listed with
its reasons in `PROJECT.json`.

A plugin's provider writes to the server through a connection; the connection
writes through `DocumentStore`, which picks the physical document of the current
epoch; that document appends to storage before it publishes. The three models
follow this chain. Each takes the one below for granted: `DocumentEpochs` assumes
that storage keeps what it acknowledged, and `SyncProvider` that the server keeps
what it saved and treats a proposal and an activation as single steps.

## Modules

| Module | Content |
| --- | --- |
| `DurableDocument` | What storage promises: an update is saved before it is visible or acknowledged, and what is acknowledged is never lost. Only an update that the document rejects may show without being saved, until the document is opened again. |
| `CrdtStorage` | The directory of one document and the append-before-publish transaction. |
| `CrdtStorageProofs` | The theorems about it. |
| `DocumentEpochs` | Epoch rollover of one logical document. |
| `SyncProvider` | One document's session with the server, through the gate. |
| `MCCrdtStorage`, `MCDocumentEpochs`, `MCSyncProvider` | The model values of the runs. |

A definition named "variant" is a plausible mistake in the definition after it;
with it in place the property in `PROJECT.json` fails.

### CrdtStorage

A document is the set of updates in it. A record is an update, `Short` (cut off)
or `Zeros` (allocated, never written), and has length one, so `log_bytes` is a
number of records. An action is the code between two awaits: `step` names the
await the holder of the mutation lock stands at, and `Crash` may happen at any
of them. `ApplyUpdate`, `DiscardPartialRecord`, `WriteRecord` and `Publish` are
`apply_update`; `WriteSnapshot`, `WriteLog` and `WriteManifest` are the three
atomic writes of `compact`, the last one with its clean-up. `Faults` selects what
else may go wrong. `doc` is what readers see: `read_with` does not wait for the
mutation lock, so `Visible` includes what an update that panicked left behind,
from the panic (`IntegrationPanics`) to the reload (`RejectAppendedUpdate`), and
beyond it when the reload fails (`ReloadFails`). `Recoverable` is what the next
load finds; where that load refuses the segment, because a record in it panics,
it is what a repair leaves. Integers at
the top of their range are `MaxGeneration`: the next generation does not exist
and the compaction fails, as the checked addition in the code does.

Not modelled: `recover_manifest`, which runs only when the manifest file itself
was damaged at rest; checksum collisions; a crash that leaves the last record at
its full length with part of its payload zero (the code takes that for damage and
refuses the load until a repair); and a power loss that undoes a rename whose
directory sync failed (`dirsync` keeps the rename).

### DocumentEpochs

Epoch `e` has a physical document of its own. A loaded physical document is an
instance; the store refers to one weakly, connections hold theirs, and `Keep`
drops the rest. Everything that releases a lock on its way has a step per lock:
joining is `Lookup` (`get_or_load` reads the current epoch and lets go of the
runtime lock), `Connect` (the live or loaded instance) and `Register`, and
`maybe_activate_epoch` is `StartActivation`, `BuildReplacement`, `SwitchManifest`
and `InstallDocument`. The write gate is free only while it is idle; the load
lock is free unless a peer is `"loading"`, and no load takes the write gate, so a
peer may look up, connect and register between any two steps of an activation.
The process may crash at every step.

Two history variables name the accidents through which this code loses what it
acknowledged: `reused` (a replacement left by an interrupted activation is taken
as it is) and `split` (the store's reference to an instance in use is
overwritten, after which the document can be loaded twice). `AckedKept` and
`RetiredConnectionsClose` are the promises without exception, and runs that
expect a violation show each broken. `LossExplained`, `OneInstance` and
`SharedRetiredConnectionsClose` say that nothing else breaks them.

Abstracted: the epoch a token names is part of the guard of a connect; a load and
a write of the server's own (`ServerWrite`) are one step; a timer that outlives
its epoch is forgotten, since its late call is one that any request may make; a
recovery window outlasts a load that is under way; `keep_warm` and the policy
that decides when a rollover is due are left out (a proposal may come at any
time). Two instances of one document append to one directory, which
`CrdtStorage`, with a single writer, does not cover.

### SyncProvider

JavaScript runs one handler at a time, so a handler is one action. It is written
as a chain of steps on a record of what the handler may change, and ends in
`Settle`, which runs the promise continuations left behind: the loop resumed by
a settled attempt, the reconnect after a lost socket, the rebuild for a new
epoch. `task[l]` is where the connect loop of lifecycle `l` waits; loops of
earlier lifecycles may still wait for a token. A socket carries messages in both
directions; `Break` delivers any part of them and may leave the client unaware.
`counted` and `fresh` are history variables; `fresh` is reset in `Lose`, at the
loss of an established connection itself, whether or not the gate is told. A loss
while the server is known to be incompatible does not invalidate the gate: a check
that was already under way may open it, and `VerifiedSinceLoss` asks there only
that the check ends after the loss.

A token asked for while an epoch is pending names that epoch (`token_epoch`), and
the device moves to it at once (`TokenMoved`); a token issued just before the
proposal is `"granted"` and may still be used. The transport is a field of the
provider: the mux (`monitored`) notices a dead socket and passes on why a channel
was refused, a plain WebSocket does neither. An update is saved and published in
one step, since both happen under the mutation lock and the server's SyncStep2
takes that lock too.

Left out: awareness, document invalidations, `followServer`, other callers of
`serverInfoChecked`, a throwing epoch handler, the token queue and backoff shared
by all documents, the epoch rewind after a restored backup, and all durations: a
timer that is set may fire, except that the timers that end a connection (and a
heartbeat before the answer to the last message) cost one of `MaxFaults` when
the answer is still on its way.

## Runs

| Run | Instance | Distinct states | Shows |
| --- | --- | --- | --- |
| `storage_faults` | 3 updates (one panics, one legacy, one imported), 3 generations, segments of 2; failing appends, truncations, reloads and writes | 741,457 | `AckedDurable`, `NoRecordBehindTorn`, `CrashLeavesLoadable`; storage implements `DurableDocument` |
| `storage_all_faults` | 2 updates, every fault | 2.7 million | `GenerationsInUsePresent`, `GenerationNeverBack` |
| `storage_dirsync` | 2 updates, only `dirsync` | violation of `AckedDurable` | an acknowledged update is lost (finding 1) |
| `storage_discard` | 2 updates, one panics, only `discard` | violation of `AckedDurable` | an acknowledged update is lost (finding 2) |
| `epochs_crash` | 2 peers, 3 epochs, crashes, fair | 172,089 | `LossExplained`, `EpochsTracked`, `OneInstance`, `ArmedTimerActivates`, `SharedRetiredConnectionsClose` |
| `epochs_faults` | 1 peer, every fault | 144,949 | `RetiredImmutable` |
| `epochs_stale_replacement` | 1 peer, crashes | violation of `AckedKept` | an acknowledged update is lost (finding 3) |
| `epochs_loaded_twice` | 1 peer, no fault, fair | violation of `RetiredConnectionsClose` | a connection stays on a retired document (finding 4) |
| `epochs_dropped_request` | 1 peer, `cancel`, fair | violation of `ArmedTimerActivates` | a rollover never ends (finding 5) |
| `provider_safety` | 1 local update, both grants, both transports, 2 sockets, 2 attempts per token, 2 faults | 2.6 million | `AcknowledgedMeansSaved`, `VerifiedSinceLoss` |
| `provider_live` | 1 local and 1 remote update, full grant, both transports, 1 socket, 1 `disconnect`, 1 fault, fair | 173,720 | `ConnectedSeesAll`, `LocalChangesArrive`, `RemoteChangesArrive` |
| `provider_stale_token` | both grants and 1 `disconnect` | violation of `AcknowledgedMeansSaved` | `hasLocalChanges` ends too early (finding 6) |

**Bounds.** Storage needs three generations so that one is removed while two are
in use, and segments of two records so that a damaged record can have one behind
it. Three epochs give a retired, a current and a pending one. Two sockets let
the server work off an abandoned connection while the next one opens. Two faults
are what it takes to find a server incompatible while a connection to it is still
open; in `provider_live` one fault is spent anywhere, and what follows it must
recover without another. Two attempts per token cover a first and a later
attempt. In `provider_safety` no remote update is needed, in `provider_live` it is
what `ConnectedSeesAll` and `RemoteChangesArrive` are about.
A provider that is destroyed and a server with no more updates really stop, so
the provider runs do not check deadlock.

**Fairness.** In `DocumentEpochs`: tasks that tokio has spawned run, loads end, and
timers fire; nothing is assumed of peers, writers or requests. An activation gets
the load lock although connections keep taking it, because a tokio mutex serves
its waiters in order: that is the one strong fairness assumption. In `SyncProvider`:
continuations run, sleeps end, requests are answered (or fail, at most
`MaxFaults` times), the network delivers or breaks, set timers fire, and an
incompatible server is eventually replaced by a compatible one, without which no
client can make progress. Nothing is assumed of the user or of epoch changes. All
of it is weak fairness.

## Proofs

`CrdtStorageProofs` proves, for any set of updates, any bounds and any faults
unless stated:

- `TypeCorrect`, `GenerationsInUseStay`, `GenerationMonotone`. None of them is
  inductive alone: whether a clean-up is safe depends on how far memory can lag
  behind the manifest. The invariant `Base` adds `OpFacts` (what the operation
  under the lock carries at each await) and `InForce` (memory is never ahead of
  the manifest and at most one generation behind, the gap `dirsync` opens).
- `AckedStayDurable`: under `Lossless` faults (no `dirsync`, no `cancel`, and
  `discard` only when no update panics; a failed `reload` is among them) every
  acknowledged update is found by the next load, or left by a repair. The invariant `Safe` adds `SegmentFacts` (the leading `Kept` records are good,
  and a longer segment is marked by `append_failed`), `AckedFacts`
  (what is acknowledged is live and among those records or the snapshot) and
  `CompactionFacts` (a generation being prepared equals the live document).
  Lemmas about cutting and padding segments carry the sequence reasoning.

Assumptions: `StorageAssumption` only. `storage_dirsync` and `storage_discard` show
that the theorem fails when `dirsync`, or `discard` with an update that panics, is
allowed.

Only model-checked: the refinement `ImplementsDurable`, `NoRecordBehindTorn`,
`CrashLeavesLoadable`, everything in `DocumentEpochs` and `SyncProvider`.
Liveness under fairness is beyond the prover and stays with TLC.

## Findings

1. *Directory sync after the manifest rename* (`crdt_storage.rs:239`). `compact`
   returns an error after the rename took effect; memory stays on the old
   generation and later acknowledged updates are appended where no load looks.
2. *Rejected record that cannot be cut off* (`crdt.rs:1714`).
   `reject_appended_update` returns when the truncation fails. Unlike after a
   failed append, nothing marks the segment: later updates are appended behind the
   record that panics and acknowledged, and every load stops at it.
3. *Replacement of an interrupted activation* (`crdt_storage.rs:352`). A crash
   after the replacement is created and before the manifest is saved leaves a
   replacement that the next activation uses unchanged.
4. *Load in the middle of an activation* (`crdt.rs:1222`). Between the switch of
   the manifest and the store's new reference, `get_or_load` opens an instance of
   the new document, and the reference to it is then overwritten. A later load
   opens a second instance; the next rollover retires only that one, and a
   connection of the first stays on a retired document. With two peers the same
   schedule also breaks `AckedKept`, without any fault: what is written to one
   instance is missing from a replacement built from the other.
5. *Dropped request inside an activation* (`crdt.rs:1160`). `activating` stays
   set, which blocks activation and connections until a restart.
6. *Late token* (`RealtimeProvider.ts:444`). The answer to an ended loop's token
   request replaces the token in use. When the grant changed, a read-only
   connection is taken for a full one. `disconnect` followed by `connect` is what
   a phone does on suspend and resume.

Further behaviour the models show when their constants are changed:

- with `"cancel"`, an append dropped between write and sync leaves part of a
  record that `append_failed` does not mark (`NoRecordBehindTorn`);
- a crash between the append and the rejection of an update that panics leaves
  it in the segment, which the disjunct in `CrashLeavesLoadable` allows for;
- after a failed reload the live document keeps what a rejected update left, and
  the next compaction saves it, which `DurableDocument` allows for;
- with `"save"`, connections of the old epoch stay open after a manifest that
  could not be saved (`SharedRetiredConnectionsClose`);
- a pending epoch has no timer after a restart, or when a connection registers
  between a proposal without peers and its activation; then a later request
  or the end of that connection has to trigger it, which is why
  `ArmedTimerActivates` speaks of a timer that is set;
- with a nonempty `Deletions`, changes that only delete are not seen as
  divergence on a read-only connection (`AcknowledgedMeansSaved`), as the
  comment in `noteReadOnlyDivergence` says.

## Plan

Next modules, in order:

1. `JobQueue` (`jobs.rs`): revisions, generations, tasks at least once,
   restarts. No write is forgotten; completion never covers a newer revision;
   every intent completes or fails for good.
2. `MuxTransport` (`mux.ts`, `dmux.rs`): an abstract per-channel link, and the
   multiplexed socket shown to implement it; no frame of an old socket reaches a
   channel of a new one, and a reset channel is told. Composed with the
   assumptions `SyncProvider` makes of its socket.
3. `FileDocument` (`SyncedDoc.ts`, `Document.ts`, `StructuredDocument.ts`): no
   edit on disk or in the shared text is overwritten unseen.
4. `BinaryReconcile` (`BinarySync.ts`, `ConfigSync.ts`, `blobs.rs`) for two
   devices over one index: no version is lost without a conflict.
5. `VaultIndex` (`VaultSync.ts`, `localSyncState.ts`, `bootstrapEvents.ts`).
6. `PluginDbLog` (`pluginDb/`, `plugindb.rs`): cursors never pass rows that were
   not applied; compaction never removes what a live cursor needs.
7. Rollback and cursor streaming.

Next theorems: `NoRecordBehindTorn` and `CrashLeavesLoadable` from `Safe`; the
refinement `ImplementsDurable`; `TypeOK`, `RetiredImmutable`, `EpochsTracked` and
`LossExplained` of `DocumentEpochs`; the safety of `JobQueue`.
