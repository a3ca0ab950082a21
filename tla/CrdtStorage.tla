----------------------------- MODULE CrdtStorage -----------------------------
(***************************************************************************)
(* Persistence of one CRDT document (server/src/crdt_storage.rs) and the   *)
(* append-before-publish transaction of PersistentDocument that drives it  *)
(* (server/src/crdt.rs).                                                   *)
(*                                                                         *)
(* A document directory holds, per generation, a snapshot and a segment of *)
(* update records, and one manifest that names the generation in force.    *)
(* A record is whole (an element of Updates), cut short (Short), or space  *)
(* the crash allocated without its data (Zeros).  All records have one     *)
(* unit of length, so log_bytes is the number of records.                  *)
(*                                                                         *)
(* The environment may crash the process at any await, and, where Faults   *)
(* allows it, fail an append, a truncation, an atomic write, or the        *)
(* directory sync that follows a rename, or drop a request handler.        *)
(***************************************************************************)
EXTENDS Integers, Sequences, FiniteSets

CONSTANTS
    Updates,            \* well-formed updates (they pass safe_yrs validation)
    Unintegrable,       \* those whose integration into the live doc panics
    LegacyContents,     \* contents of the version-1 file {id}.yjs, if any
    ImportContents,     \* contents of a y-sweet store offered for import
    MaxGeneration,      \* bound: stands for u64::MAX, where next overflows
    MaxLogRecords,      \* bound: max_log_bytes, in records
    CompactAfter,       \* COMPACT_AFTER_RECORDS
    MaxEntries,         \* bound: disk space of one segment, in records
    Faults,             \* subset of FaultKinds
    Short, Zeros        \* the two damaged forms of a record

\* append: a record cannot be written or synced; truncate: nor cut back then;
\* discard: a rejected record cannot be dropped; reload: it is dropped, but the
\* document cannot be loaded again;
\* write: an atomic write fails; dirsync: it fails after its rename took effect;
\* cancel: the request handler that runs the operation is dropped
FaultKinds ==
    {"append", "truncate", "discard", "reload", "write", "dirsync", "cancel"}

ASSUME StorageAssumption ==
    /\ Unintegrable \subseteq Updates
    /\ LegacyContents \subseteq Updates \ Unintegrable
    /\ ImportContents \subseteq Updates \ Unintegrable
    /\ MaxGeneration \in Nat
    /\ MaxLogRecords \in Nat \ {0}
    /\ CompactAfter \in Nat
    /\ MaxEntries \in Nat
    /\ Faults \subseteq FaultKinds
    /\ Short \notin Updates
    /\ Zeros \notin Updates
    /\ Short # Zeros

Integrable == Updates \ Unintegrable
Entries == Updates \cup {Short, Zeros}
Generations == 0..MaxGeneration
NoManifest == -1
NoUpdate == Short       \* any value that is not an update

\* Who holds the document's mutation lock, and where it stands.
Steps == {"idle", "append", "sync", "reject", "snapshot", "log", "manifest"}
Holders == {"session", "request", "compactor"}

VARIABLES
    \* on disk
    manifest,           \* generation named by manifest.json, or NoManifest
    snapshot,           \* snapshot[g]: contents of snapshot-g.bin
    log,                \* log[g]: records of updates-g.log
    present,            \* generations both of whose files exist
    legacy,             \* {id}.yjs exists and is not archived
    \* in memory: DocumentPersistence and the live document
    loaded,
    generation,
    records,            \* log_bytes: length of the segment known durable
    appendFailed,
    doc,                \* contents of the live document
    \* the operation under the mutation lock
    step,               \* the await it stands at, "idle" when the lock is free
    holder,             \* who runs it
    update,             \* the update it applies, NoUpdate for a compaction
    scheduled,          \* compaction_scheduled: a compaction task is spawned
    \* history
    acked               \* updates whose writer was told they are persisted

disk == <<manifest, snapshot, log, present, legacy>>
memory == <<loaded, generation, records, appendFailed, doc>>
op == <<step, holder, update>>
vars == <<disk, memory, op, scheduled, acked>>

DiskTypes ==
    /\ manifest \in Generations \cup {NoManifest}
    /\ snapshot \in [Generations -> SUBSET Updates]
    /\ log \in [Generations -> Seq(Entries)]
    /\ present \subseteq Generations
    /\ legacy \in BOOLEAN

MemoryTypes ==
    /\ loaded \in BOOLEAN
    /\ generation \in Generations
    /\ records \in Nat
    /\ appendFailed \in BOOLEAN
    /\ doc \subseteq Updates

OperationTypes ==
    /\ step \in Steps
    /\ holder \in Holders
    /\ update \in Updates \cup {NoUpdate}
    /\ scheduled \in BOOLEAN
    /\ acked \subseteq Updates

TypeOK == DiskTypes /\ MemoryTypes /\ OperationTypes

(* ------------------------- reading a segment --------------------------- *)

\* The records replay_log applies: those before the first damaged one.
Clean(s) == {i \in 1..Len(s) : \A j \in 1..i : s[j] \in Integrable}
Replayed(s) == {s[i] : i \in Clean(s)}

\* Variant of Recovers: an all-zero tail counts as corruption.
RecoversNoZeroTail(s, n) ==
    /\ n \in 0..Len(s)
    /\ \A i \in 1..n : s[i] \in Integrable
    /\ n = Len(s) \/ (n < Len(s) /\ s[n + 1] = Short)

\* replay_log stops after n records without calling the segment corrupt: at
\* its end, at a record that runs past the end, or at an all-zero tail.  A
\* record cut short with others behind it may also claim a length inside the
\* file and fail its checksum; then the load is refused.
Recovers(s, n) ==
    /\ n \in 0..Len(s)
    /\ \A i \in 1..n : s[i] \in Integrable
    /\ \/ \A i \in (n + 1)..Len(s) : s[i] = Zeros
       \/ n < Len(s) /\ s[n + 1] = Short

\* Where Repair cuts: before the first record it cannot apply.
Repairs(s, n) ==
    /\ n \in 0..Len(s)
    /\ \A i \in 1..n : s[i] \in Integrable
    /\ n < Len(s) => s[n + 1] \notin Integrable

\* set_len(n): cuts the segment, or extends it with zeros.
SetLen(s, n) ==
    IF n <= Len(s) THEN SubSeq(s, 1, n)
    ELSE s \o [i \in 1..(n - Len(s)) |-> Zeros]

\* What load_or_create would make of the directory as it is now.  Where it
\* refuses the segment, at a record that panics, this is what Repair leaves.
Recoverable ==
    IF manifest # NoManifest
    THEN IF manifest \in present
         THEN snapshot[manifest] \cup Replayed(log[manifest]) ELSE {}
    ELSE IF legacy THEN LegacyContents ELSE {}

(* ------------------------------- loading ------------------------------- *)

Init ==
    /\ manifest = NoManifest
    /\ snapshot = [g \in Generations |-> {}]
    /\ log = [g \in Generations |-> <<>>]
    /\ present = {}
    /\ legacy \in BOOLEAN
    /\ loaded = FALSE
    /\ generation = 0
    /\ records = 0
    /\ appendFailed = FALSE
    /\ doc = {}
    /\ step = "idle"
    /\ holder = "session"
    /\ update = NoUpdate
    /\ scheduled = FALSE
    /\ acked = IF legacy THEN LegacyContents ELSE {}

Forgotten ==
    /\ loaded' = FALSE
    /\ generation' = 0
    /\ records' = 0
    /\ appendFailed' = FALSE
    /\ doc' = {}

\* Variant of RemoveOldGenerations: the active generation counts as old.
RemoveOldGenerationsOffByOne(kept, active) ==
    \E removed \in SUBSET {g \in kept : g <= active} : present' = kept \ removed

\* remove_old_generations: best effort, any subset of the older files.
RemoveOldGenerations(kept, active) ==
    \E removed \in SUBSET {g \in kept : g < active} : present' = kept \ removed

Install(g, n, contents) ==
    /\ loaded' = TRUE
    /\ generation' = g
    /\ records' = n
    /\ appendFailed' = FALSE
    /\ doc' = contents

\* create_document: a temporary directory renamed into place.  The caller
\* gets the document, or an error after the rename (the directory sync, or
\* archiving the legacy file, failed) or a crash: then it is not loaded.
CreateDocument(contents) ==
    /\ manifest = NoManifest
    /\ manifest' = 0
    /\ snapshot' = [snapshot EXCEPT ![0] = contents]
    /\ log' = [log EXCEPT ![0] = <<>>]
    /\ present' = {0}

LoadOrCreate ==
    /\ ~loaded
    /\ CreateDocument(IF legacy THEN LegacyContents ELSE {})
    /\ \/ /\ Install(0, 0, IF legacy THEN LegacyContents ELSE {})
          /\ legacy' = FALSE
       \/ /\ Forgotten
          /\ legacy' \in {legacy, FALSE}
    /\ UNCHANGED <<op, scheduled, acked>>

\* import_ysweet_store skips a document that exists in either format.
ImportYsweet ==
    /\ ~loaded
    /\ ~legacy
    /\ CreateDocument(ImportContents)
    /\ acked' = acked \cup ImportContents
    /\ UNCHANGED <<legacy, memory, op, scheduled>>

\* load_existing in mode RecoverInterruptedAppend over the given segments:
\* the manifest's segment is cut after n records and both are installed.
LoadExisting(segments, n) ==
    /\ Recovers(segments[manifest], n)
    /\ log' = [segments EXCEPT ![manifest] = SubSeq(@, 1, n)]
    /\ RemoveOldGenerations(present, manifest)
    /\ Install(manifest, n,
               snapshot[manifest] \cup {segments[manifest][i] : i \in 1..n})

Load ==
    /\ ~loaded
    /\ manifest \in present
    /\ \E n \in 0..Len(log[manifest]) : LoadExisting(log, n)
    /\ UNCHANGED <<manifest, snapshot, legacy, op, scheduled, acked>>

\* inspect_store with repair, offline.
Repair ==
    /\ ~loaded
    /\ manifest \in present
    /\ \E n \in 0..Len(log[manifest]) :
          /\ Repairs(log[manifest], n)
          /\ log' = [log EXCEPT ![manifest] = SubSeq(@, 1, n)]
    /\ RemoveOldGenerations(present, manifest)
    /\ UNCHANGED <<manifest, snapshot, legacy, memory, op, scheduled, acked>>

\* The store holds documents weakly: an idle one is dropped.
Unload ==
    /\ loaded
    /\ step = "idle"
    /\ ~scheduled
    /\ Forgotten
    /\ UNCHANGED <<disk, op, scheduled, acked>>

(* ----------------------- apply_update, under the lock ------------------ *)

\* The operation reaches its next await.
GoTo(await) == step' = await /\ UNCHANGED <<holder, update>>

\* The operation ends, well or with an error, and releases the lock.
Release ==
    /\ step' = "idle"
    /\ holder' = "session"
    /\ update' = NoUpdate

Finish ==
    /\ Release
    /\ scheduled' = (scheduled /\ holder # "compactor")

\* The lock is taken; a record that would cross the replay limit compacts
\* before it appends.
ApplyUpdate(u, by) ==
    /\ loaded
    /\ step = "idle"
    /\ Len(log[generation]) < MaxEntries
    /\ step' = IF records + 1 > MaxLogRecords THEN "snapshot" ELSE "append"
    /\ holder' = by
    /\ update' = u
    /\ UNCHANGED <<disk, memory, scheduled, acked>>

SetLog(s) == log' = [log EXCEPT ![generation] = s]
Cut(n) == SetLen(log[generation], n)

\* Variant of DiscardPartialRecord: the flag is cleared, the segment not cut.
DiscardPartialRecordFlagOnly ==
    /\ step = "append"
    /\ appendFailed
    /\ appendFailed' = FALSE
    /\ UNCHANGED <<disk, loaded, generation, records, doc, op, scheduled, acked>>

\* append_update after a failed append: first cut back to the durable length.
DiscardPartialRecord ==
    /\ step = "append"
    /\ appendFailed
    /\ SetLog(Cut(records))
    /\ appendFailed' = FALSE
    /\ UNCHANGED <<manifest, snapshot, present, legacy, loaded, generation,
                   records, doc, op, scheduled, acked>>

DiscardPartialFails ==
    /\ step = "append"
    /\ appendFailed
    /\ "truncate" \in Faults
    /\ SetLog(log[generation]) \/ SetLog(Cut(records))
    /\ Finish
    /\ UNCHANGED <<manifest, snapshot, present, legacy, memory, acked>>

\* Variant of WriteRecord: the update is published before it is durable.
WriteRecordPublished ==
    /\ step = "append"
    /\ ~appendFailed
    /\ SetLog(Append(log[generation], update))
    /\ doc' = doc \cup {update}
    /\ GoTo("sync")
    /\ UNCHANGED <<manifest, snapshot, present, legacy, loaded, generation,
                   records, appendFailed, scheduled, acked>>

\* The record is written; until the sync returns a crash may damage it.
WriteRecord ==
    /\ step = "append"
    /\ ~appendFailed
    /\ SetLog(Append(log[generation], update))
    /\ GoTo("sync")
    /\ UNCHANGED <<manifest, snapshot, present, legacy, memory, scheduled,
                   acked>>

\* What may be left of the record being written.
Written == {<<>>, <<update>>, <<Short>>}
Before == SubSeq(log[generation], 1, Len(log[generation]) - 1)

\* The write or its sync fails, and the segment is cut back; if that fails
\* too, the segment takes no append until it succeeds.
AppendFails ==
    /\ step = "sync"
    /\ "append" \in Faults
    /\ \E tail \in Written :
          \/ /\ SetLog(SetLen(Before \o tail, records))
             /\ UNCHANGED appendFailed
          \/ /\ "truncate" \in Faults
             /\ SetLog(Before \o tail)
             /\ appendFailed' = TRUE
    /\ Finish
    /\ UNCHANGED <<manifest, snapshot, present, legacy, loaded, generation,
                   records, doc, acked>>

\* The record is durable: integrate it, publish it, acknowledge it, and
\* spawn a compaction when the segment has grown enough.
Publish ==
    /\ step = "sync"
    /\ update \in Integrable
    /\ records' = records + 1
    /\ doc' = doc \cup {update}
    /\ acked' = acked \cup {update}
    /\ Release
    /\ scheduled' = (scheduled \/ records' >= CompactAfter)
    /\ UNCHANGED <<disk, loaded, generation, appendFailed>>

\* Integration panics and may leave the live document half-applied.
IntegrationPanics ==
    /\ step = "sync"
    /\ update \in Unintegrable
    /\ records' = records + 1
    /\ doc' \in {doc, doc \cup {update}}
    /\ GoTo("reject")
    /\ UNCHANGED <<disk, loaded, generation, appendFailed, scheduled, acked>>

\* reject_appended_update: drop the record, then reload what remains.
RejectAppendedUpdate ==
    /\ step = "reject"
    /\ manifest \in present
    /\ LET cut == [log EXCEPT ![generation] = Cut(records - 1)]
       IN  \E n \in 0..Len(cut[manifest]) : LoadExisting(cut, n)
    /\ Finish
    /\ UNCHANGED <<manifest, snapshot, legacy, acked>>

\* No replay of the segment succeeds, or one need not.
Refuses(s) ==
    \/ \A n \in 0..Len(s) : ~Recovers(s, n)
    \/ \E i \in 1..(Len(s) - 1) : s[i] = Short

\* The record is dropped but the document cannot be reloaded.
ReloadFails ==
    /\ step = "reject"
    /\ SetLog(Cut(records - 1))
    /\ "reload" \in Faults \/ Refuses(log'[manifest])
    /\ records' = records - 1
    /\ Finish
    /\ UNCHANGED <<manifest, snapshot, present, legacy, loaded, generation,
                   appendFailed, doc, acked>>

\* The record cannot be dropped, or is dropped without the sync returning.
DiscardLastFails ==
    /\ step = "reject"
    /\ "discard" \in Faults
    /\ SetLog(log[generation]) \/ SetLog(Cut(records - 1))
    /\ Finish
    /\ UNCHANGED <<manifest, snapshot, present, legacy, memory, acked>>

(* ------------------------------ compaction ----------------------------- *)

\* compact_if_needed, the spawned task.
CompactIfNeeded ==
    /\ loaded
    /\ step = "idle"
    /\ scheduled
    /\ IF records >= CompactAfter
       THEN /\ step' = "snapshot"
            /\ holder' = "compactor"
            /\ UNCHANGED <<update, scheduled>>
       ELSE /\ scheduled' = FALSE
            /\ UNCHANGED op
    /\ UNCHANGED <<disk, memory, acked>>

NextGeneration == generation + 1

\* An atomic write of compact() goes on to the next step, or reports an
\* error although its rename took effect.
Continue(await) ==
    \/ GoTo(await) /\ UNCHANGED scheduled
    \/ "dirsync" \in Faults /\ Finish

\* Variants of WriteSnapshot: the records of the segment are left out, and the
\* generation's overflow is not checked.
WriteSnapshotStale ==
    /\ step = "snapshot"
    /\ generation < MaxGeneration
    /\ snapshot' = [snapshot EXCEPT ![NextGeneration] = snapshot[generation]]
    /\ Continue("log")
    /\ UNCHANGED <<manifest, log, present, legacy, memory, acked>>

WriteSnapshotUnchecked ==
    /\ step = "snapshot"
    /\ snapshot' = [snapshot EXCEPT ![NextGeneration] = doc]
    /\ Continue("log")
    /\ UNCHANGED <<manifest, log, present, legacy, memory, acked>>

WriteSnapshot ==
    /\ step = "snapshot"
    /\ generation < MaxGeneration
    /\ snapshot' = [snapshot EXCEPT ![NextGeneration] = doc]
    /\ Continue("log")
    /\ UNCHANGED <<manifest, log, present, legacy, memory, acked>>

WriteLog ==
    /\ step = "log"
    /\ log' = [log EXCEPT ![NextGeneration] = <<>>]
    /\ present' = present \cup {NextGeneration}
    /\ Continue("manifest")
    /\ UNCHANGED <<manifest, snapshot, legacy, memory, acked>>

\* Variant of WriteManifest: generation in place of its successor.
WriteManifestStale ==
    /\ step = "manifest"
    /\ manifest' = generation
    /\ IF holder = "compactor" THEN Finish
       ELSE GoTo("append") /\ UNCHANGED scheduled
    /\ UNCHANGED <<snapshot, log, present, legacy, memory, acked>>

\* The commit point, the switch in memory, and the clean-up behind it; a
\* forced compaction goes on to append its record.
WriteManifest ==
    /\ step = "manifest"
    /\ manifest' = NextGeneration
    /\ Install(NextGeneration, 0, doc)
    /\ RemoveOldGenerations(present, NextGeneration)
    /\ IF holder = "compactor" THEN Finish
       ELSE GoTo("append") /\ UNCHANGED scheduled
    /\ UNCHANGED <<snapshot, log, legacy, acked>>

\* The manifest is renamed into place but its directory sync fails.
ManifestUnsynced ==
    /\ step = "manifest"
    /\ "dirsync" \in Faults
    /\ manifest' = NextGeneration
    /\ Finish
    /\ UNCHANGED <<snapshot, log, present, legacy, memory, acked>>

\* Generation overflow, or a write that fails before its rename.
CompactionFails ==
    /\ step \in {"snapshot", "log", "manifest"}
    /\ "write" \in Faults \/ generation = MaxGeneration
    /\ Finish
    /\ UNCHANGED <<disk, memory, acked>>

(* ------------------------ crashes and dropped requests ----------------- *)

\* What the interrupted await may have done to the disk.
InFlight(tails) ==
    \/ /\ step = "sync"
       /\ \E tail \in tails : SetLog(Before \o tail)
       /\ UNCHANGED manifest
    \/ /\ step = "reject"
       /\ SetLog(log[generation]) \/ SetLog(Cut(records - 1))
       /\ UNCHANGED manifest
    \/ /\ step = "manifest"
       /\ manifest' \in {manifest, NextGeneration}
       /\ UNCHANGED log
    \/ /\ step \in {"idle", "append", "snapshot", "log"}
       /\ UNCHANGED <<manifest, log>>

Crash ==
    /\ loaded
    /\ InFlight(Written \cup {<<Zeros>>})
    /\ Forgotten
    /\ Release
    /\ scheduled' = FALSE
    /\ UNCHANGED <<snapshot, present, legacy, acked>>

\* The peer of an HTTP request goes away: the handler's future is dropped
\* at its await, the lock is released, and no error path runs.
CancelRequest ==
    /\ "cancel" \in Faults
    /\ holder = "request"
    /\ step # "idle"
    /\ InFlight(Written)
    /\ Release
    /\ UNCHANGED <<snapshot, present, legacy, memory, scheduled, acked>>

Next ==
    \/ LoadOrCreate \/ ImportYsweet \/ Load \/ Repair \/ Unload
    \/ \E u \in Updates, by \in {"session", "request"} : ApplyUpdate(u, by)
    \/ DiscardPartialRecord \/ DiscardPartialFails
    \/ WriteRecord \/ AppendFails \/ Publish
    \/ IntegrationPanics \/ RejectAppendedUpdate \/ ReloadFails
    \/ DiscardLastFails
    \/ CompactIfNeeded \/ WriteSnapshot \/ WriteLog \/ WriteManifest
    \/ ManifestUnsynced \/ CompactionFails
    \/ Crash \/ CancelRequest

Spec == Init /\ [][Next]_vars

(* ------------------------------ properties ----------------------------- *)

\* The faults under which nothing acknowledged is lost: no request handler is
\* dropped inside the transaction, a rename that took effect is never reported
\* as failed, and a record that panicked can be cut off again.
Lossless ==
    /\ Faults \cap {"dirsync", "cancel"} = {}
    /\ "discard" \notin Faults \/ Unintegrable = {}

\* Every update whose writer was told it is persisted is found again by the
\* next load of the document, or by the repair an operator runs where that load
\* refuses the segment, whatever crash, failed append, failed reload,
\* interrupted compaction or legacy migration lies between (apply_update,
\* compact, replay_log, load_or_create, inspect_store).
AckedDurable == acked \subseteq Recoverable

\* No append lands behind a damaged record, where replay would stop before
\* it (append_update, discard_partial_record).
NoRecordBehindTorn ==
    \A g \in Generations : \A i \in 1..(Len(log[g]) - 1) : log[g][i] \in Updates

\* The generation the manifest names, and the one memory appends to, always
\* have their files: compaction and its clean-up never remove a generation
\* in use (compact, remove_old_generations, load_existing).
GenerationsInUsePresent ==
    /\ manifest # NoManifest => manifest \in present
    /\ loaded => generation \in present

\* A stopped process never leaves a directory that the next load refuses
\* (replay_log in mode RecoverInterruptedAppend), unless it stopped while an
\* update that panics was in the segment.
CrashLeavesLoadable ==
    ~loaded /\ manifest # NoManifest =>
        \/ \E n \in 0..Len(log[manifest]) : Recovers(log[manifest], n)
        \/ \E i \in 1..Len(log[manifest]) : log[manifest][i] \in Unintegrable

\* The manifest never goes back to an older generation, and a reload in the
\* same process never does either (compact, reload).
GenerationNeverBack ==
    [][manifest' >= manifest
       /\ (loaded /\ loaded' => generation' >= generation)]_vars

\* The loaded document as its readers see it: read_with takes the awareness
\* lock alone, so it also shows what a panicking update left behind.
Visible == IF loaded THEN doc ELSE {}

Durable == INSTANCE DurableDocument
    WITH Rejected <- Unintegrable, saved <- Recoverable, visible <- Visible

\* The files, the log replay, the compaction and the rejection of an update that
\* panics together implement the promise of DurableDocument: an update is saved
\* before it is shown, shown before it is acknowledged, kept from then on, and
\* readers see nothing else but what a rejected update left (apply_update,
\* reject_appended_update, read_with).
ImplementsDurable == Durable!Spec
=============================================================================
