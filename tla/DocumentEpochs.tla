---------------------------- MODULE DocumentEpochs ----------------------------
(***************************************************************************)
(* Epoch rollover of one logical document: the epoch manifest              *)
(* (server/src/crdt_epoch.rs) and the part of DocumentStore that proposes, *)
(* acknowledges and activates epochs (server/src/crdt.rs).                 *)
(*                                                                         *)
(* Epoch e is stored as a physical document of its own, whose contents are *)
(* a set of updates; that storage keeps what it acknowledged is the        *)
(* subject of CrdtStorage and is taken for granted here.  A pending epoch  *)
(* is always the successor of the current one, so one Boolean records it.  *)
(*                                                                         *)
(* A loaded physical document is an instance.  The store refers to one     *)
(* instance weakly; connections and a running activation hold theirs.      *)
(***************************************************************************)
EXTENDS Naturals, FiniteSets

CONSTANTS
    Peers,              \* sync connections: devices and in-process peers
    Updates,
    MaxEpoch,           \* bound: stands for u64::MAX, where begin overflows
    Instances,          \* identities of loaded physical documents
    NoInstance,
    Faults              \* subset of FaultKinds

\* crash: the process dies and starts again
\* save: an epoch manifest cannot be saved
\* create: a replacement cannot be built, or not be synced once created
\* cancel: the request handler that runs an operation is dropped
FaultKinds == {"crash", "save", "create", "cancel"}

Epochs == 0..MaxEpoch

ASSUME EpochAssumption ==
    /\ MaxEpoch \in Nat
    /\ Faults \subseteq FaultKinds
    /\ NoInstance \notin Instances
    /\ IsFiniteSet(Peers) /\ IsFiniteSet(Instances)
    /\ Cardinality(Instances) > Cardinality(Peers) + 1

Steps == {"idle", "build", "switch", "install"}

VARIABLES
    \* on disk: the epoch manifest and the physical documents
    savedCurrent, savedPending, savedRetired,
    stored,             \* epochs whose physical document exists
    contents,           \* contents[e]: the updates stored for epoch e
    \* EpochRuntime
    current, pending, retired,
    activating,
    timedOut,           \* the pending epoch is older than ack_timeout_ms
    timer,              \* an acknowledgement timer of the pending epoch sleeps
    due,                \* some task has yet to call maybe_activate_epoch
    \* maybe_activate_epoch; the write gate is free only when it is idle
    step,
    source,             \* current_document, the instance it replaces
    request,            \* it runs in a request handler, not in a task
    \* loaded documents
    live,               \* the instance the store refers to, or NoInstance
    epochOf, docOf,     \* epoch and contents of each instance
    retiredDoc,         \* instances told to close their connections
    \* connections
    phase,              \* "none", "loading" (in get_or_load, which holds the
                        \* load lock), "joining" (not yet registered), "open"
    wanted,             \* the epoch a loading connection found to be current
    held,               \* the instance a connection holds
    registered,         \* entries of EpochRuntime.connections
    acknowledged,
    \* history
    acked,              \* updates whose writer was told they are persisted
    split,              \* the store's reference to a document in use was
                        \* overwritten, so that it may be loaded twice
    reused              \* a replacement was taken that lacks current updates

saved == <<savedCurrent, savedPending, savedRetired>>
disk == <<saved, stored, contents>>
manifest == <<current, pending, retired>>
task == <<step, source, request>>
docs == <<live, epochOf, docOf, retiredDoc>>
connections == <<phase, wanted, held, registered, acknowledged>>
history == <<acked, split, reused>>
vars == <<disk, manifest, activating, timedOut, timer, due, task, docs,
          connections, history>>

DiskTypes ==
    /\ savedCurrent \in Epochs /\ savedPending \in BOOLEAN
    /\ savedRetired \subseteq Epochs
    /\ stored \subseteq Epochs
    /\ contents \in [Epochs -> SUBSET Updates]

RuntimeTypes ==
    /\ current \in Epochs /\ pending \in BOOLEAN /\ retired \subseteq Epochs
    /\ activating \in BOOLEAN /\ timedOut \in BOOLEAN
    /\ timer \in BOOLEAN /\ due \in BOOLEAN
    /\ step \in Steps
    /\ source \in Instances \cup {NoInstance}
    /\ request \in BOOLEAN

DocumentTypes ==
    /\ live \in Instances \cup {NoInstance}
    /\ epochOf \in [Instances -> Epochs]
    /\ docOf \in [Instances -> SUBSET Updates]
    /\ retiredDoc \subseteq Instances
    /\ phase \in [Peers -> {"none", "loading", "joining", "open"}]
    /\ wanted \in [Peers -> Epochs]
    /\ held \in [Peers -> Instances \cup {NoInstance}]
    /\ registered \subseteq Peers
    /\ acknowledged \subseteq Peers
    /\ acked \subseteq Updates /\ split \in BOOLEAN /\ reused \in BOOLEAN

TypeOK == DiskTypes /\ RuntimeTypes /\ DocumentTypes

\* The pending epoch: EpochManifest::begin checked that it does not overflow.
Successor == current + 1

Init ==
    /\ savedCurrent = 0 /\ savedPending = FALSE /\ savedRetired = {}
    /\ stored = {0} /\ contents = [e \in Epochs |-> {}]
    /\ current = 0 /\ pending = FALSE /\ retired = {}
    /\ activating = FALSE /\ timedOut = FALSE /\ timer = FALSE /\ due = FALSE
    /\ step = "idle" /\ source = NoInstance /\ request = FALSE
    /\ live = NoInstance
    /\ epochOf = [i \in Instances |-> 0]
    /\ docOf = [i \in Instances |-> {}]
    /\ retiredDoc = {}
    /\ phase = [p \in Peers |-> "none"]
    /\ wanted = [p \in Peers |-> 0]
    /\ held = [p \in Peers |-> NoInstance]
    /\ registered = {} /\ acknowledged = {}
    /\ acked = {} /\ split = FALSE /\ reused = FALSE

(* --------------------------- loaded documents -------------------------- *)

Held == {held[p] : p \in Peers} \cup {source}

\* Only the instances in use stay in memory, with those told to close among
\* them; the store's reference r is weak.
Keep(used, r, told) ==
    /\ live' = IF r \in used THEN r ELSE NoInstance
    /\ epochOf' = [i \in Instances |-> IF i \in used THEN epochOf[i] ELSE 0]
    /\ docOf' = [i \in Instances |-> IF i \in used THEN docOf[i] ELSE {}]
    /\ retiredDoc' = told \cap used

\* Variant of Alive: the store's reference is never found.
NeverAlive(e) == FALSE

\* live_document: the store's weak reference is alive, and to the document of
\* epoch e.
Alive(e) == live # NoInstance /\ epochOf[live] = e
Loaded(e) == IF Alive(e) THEN live ELSE CHOOSE i \in Instances : i \notin Held

\* History: the store forgets an instance of the current epoch that is in use.
Displace == split' = (split \/ (live' # live /\ Alive(current)))

\* get_or_load once it knows the epoch: the live document, or else the stored
\* one (created empty if there is none) in an instance of its own, to which the
\* store then refers.
GetOrLoad(e) ==
    /\ live' = Loaded(e)
    /\ epochOf' = [epochOf EXCEPT ![Loaded(e)] = e]
    /\ docOf' = [docOf EXCEPT ![Loaded(e)] = IF Alive(e) THEN @ ELSE contents[e]]
    /\ retiredDoc' = IF Alive(e) THEN retiredDoc ELSE retiredDoc \ {Loaded(e)}
    /\ stored' = stored \cup {e}
    /\ Displace

\* The load lock: get_or_load holds it from reading the epoch to its end.
LoadLockFree == \A p \in Peers : phase[p] # "loading"

\* save_manifest: one atomic write of the manifest in memory, here given.
Save(c, pend, ret) ==
    savedCurrent' = c /\ savedPending' = pend /\ savedRetired' = ret

\* The retired epochs whose recovery window may be over: any of those given, as
\* long as no load has been under way since before the epoch was retired.
Expirable(ret) == ret \ {wanted[p] : p \in {q \in Peers : phase[q] = "loading"}}

\* remove_expired deletes the physical documents of expired epochs.
Delete(expired) ==
    /\ stored' = stored \ expired
    /\ contents' = [e \in Epochs |-> IF e \in expired THEN {} ELSE contents[e]]

\* cleanup_retired_epochs, from the retirement timer: delete, then save.
CleanupRetiredEpochs(expired) ==
    /\ expired # {}
    /\ expired \subseteq Expirable(retired)
    /\ Delete(expired)
    /\ retired' = retired \ expired
    /\ \/ Save(current, pending, retired')
       \/ "save" \in Faults /\ UNCHANGED saved
    /\ UNCHANGED <<current, pending, activating, timedOut, timer, due, task,
                   docs, connections, history>>

(* ------------------------------ connections ---------------------------- *)

\* connect_with_options enters get_or_load, which takes no write gate: under the
\* load lock it reads the current epoch and lets go of the runtime lock.
Lookup(p) ==
    /\ phase[p] = "none"
    /\ LoadLockFree
    /\ phase' = [phase EXCEPT ![p] = "loading"]
    /\ wanted' = [wanted EXCEPT ![p] = current]
    /\ UNCHANGED <<disk, manifest, activating, timedOut, timer, due, task, docs,
                   held, registered, acknowledged, history>>

\* The rest of get_or_load, up to the subscription.  A connection asks for the
\* epoch its token names or, in process, for none; another is turned away.
Connect(p) ==
    /\ phase[p] = "loading"
    /\ GetOrLoad(wanted[p])
    /\ phase' = [phase EXCEPT ![p] = "joining"]
    /\ wanted' = [wanted EXCEPT ![p] = 0]
    /\ held' = [held EXCEPT ![p] = Loaded(wanted[p])]
    /\ UNCHANGED <<saved, contents, manifest, activating, timedOut, timer, due,
                   task, registered, acknowledged, acked, reused>>

\* A connection's task ends and lets go of its instance; its entry goes.
Leave(p) ==
    /\ phase' = [phase EXCEPT ![p] = "none"]
    /\ held' = [held EXCEPT ![p] = NoInstance]
    /\ registered' = registered \ {p}
    /\ acknowledged' = acknowledged \ {p}
    /\ Keep({held[q] : q \in Peers \ {p}} \cup {source}, live, retiredDoc)
    /\ UNCHANGED wanted

\* The second half of connect_with_options, under the runtime lock.
Register(p) ==
    /\ phase[p] = "joining"
    /\ IF ~activating /\ epochOf[held[p]] = current
       THEN /\ phase' = [phase EXCEPT ![p] = "open"]
            /\ registered' = registered \cup {p}
            /\ UNCHANGED <<wanted, held, acknowledged, docs>>
       ELSE Leave(p)
    /\ UNCHANGED <<disk, manifest, activating, timedOut, timer, due, task,
                   history>>

\* Variants of ConnectionWrite: without the write gate, and without the check
\* of the connection's epoch.
ConnectionWriteUngated(p, u) ==
    /\ phase[p] = "open"
    /\ epochOf[held[p]] = current
    /\ p \notin registered \cap acknowledged
    /\ docOf' = [docOf EXCEPT ![held[p]] = @ \cup {u}]
    /\ contents' = [contents EXCEPT ![epochOf[held[p]]] = @ \cup {u}]
    /\ acked' = acked \cup {u}
    /\ UNCHANGED <<saved, stored, manifest, activating, timedOut, timer, due,
                   task, live, epochOf, retiredDoc, connections, split,
                   reused>>

ConnectionWriteAnyEpoch(p, u) ==
    /\ phase[p] = "open"
    /\ step = "idle"
    /\ p \notin registered \cap acknowledged
    /\ docOf' = [docOf EXCEPT ![held[p]] = @ \cup {u}]
    /\ contents' = [contents EXCEPT ![epochOf[held[p]]] = @ \cup {u}]
    /\ acked' = acked \cup {u}
    /\ UNCHANGED <<saved, stored, manifest, activating, timedOut, timer, due,
                   task, live, epochOf, retiredDoc, connections, split,
                   reused>>

\* apply_connection_update, under the write gate: connection_can_write, then
\* the update goes to the instance this connection holds and to its storage.
ConnectionWrite(p, u) ==
    /\ phase[p] = "open"
    /\ step = "idle"
    /\ epochOf[held[p]] = current
    /\ p \notin registered \cap acknowledged
    /\ docOf' = [docOf EXCEPT ![held[p]] = @ \cup {u}]
    /\ contents' = [contents EXCEPT ![epochOf[held[p]]] = @ \cup {u}]
    /\ acked' = acked \cup {u}
    /\ UNCHANGED <<saved, stored, manifest, activating, timedOut, timer, due,
                   task, live, epochOf, retiredDoc, connections, split,
                   reused>>

\* acknowledge_epoch; its caller then activates and leaves.
AcknowledgeEpoch(p) ==
    /\ phase[p] = "open"
    /\ pending
    /\ p \in registered
    /\ epochOf[held[p]] = current
    /\ acknowledged' = acknowledged \cup {p}
    /\ due' = TRUE
    /\ UNCHANGED <<disk, manifest, activating, timedOut, timer, task, docs,
                   phase, wanted, held, registered, history>>

\* connection_closed, after the client left or an error ended the loop: with an
\* epoch pending the task still has to call maybe_activate_epoch.
ConnectionClosed(p) ==
    /\ phase[p] = "open"
    /\ Leave(p)
    /\ due' = (due \/ pending)
    /\ UNCHANGED <<disk, manifest, activating, timedOut, timer, task, history>>

\* The same, on the retirement signal of the instance.
RetiredClosed(p) == held[p] \in retiredDoc /\ ConnectionClosed(p)

\* apply_update_for_epoch and modify: the write gate, the current document,
\* and no epoch pending.
ServerWrite(u) ==
    /\ step = "idle"
    /\ LoadLockFree
    /\ ~pending
    /\ docOf' = IF Alive(current) THEN [docOf EXCEPT ![live] = @ \cup {u}] ELSE docOf
    /\ contents' = [contents EXCEPT ![current] = @ \cup {u}]
    /\ stored' = stored \cup {current}
    /\ acked' = acked \cup {u}
    /\ UNCHANGED <<saved, manifest, activating, timedOut, timer, due, task,
                   live, epochOf, retiredDoc, connections, split, reused>>

(* ------------------------- proposing an epoch -------------------------- *)

OnCurrent == {p \in registered : epochOf[held[p]] = current}

\* Variant of Propose: the successor may overflow.
ProposeUnchecked ==
    /\ step = "idle" /\ LoadLockFree
    /\ pending' = TRUE
    /\ timedOut' = (pending /\ timedOut)
    /\ acknowledged' = acknowledged \ OnCurrent

\* begin_epoch_transition_for under the write gate.  EpochManifest::begin
\* keeps an epoch that is pending already; either way the connections must
\* acknowledge (again).
Propose ==
    /\ step = "idle" /\ LoadLockFree
    /\ current < MaxEpoch
    /\ pending' = TRUE
    /\ timedOut' = (pending /\ timedOut)
    /\ acknowledged' = acknowledged \ OnCurrent

\* With nobody connected the caller activates next, else a timer is set.
BeginEpochTransition ==
    /\ Propose
    /\ Save(current, TRUE, retired)
    /\ due' = (due \/ OnCurrent = {})
    /\ timer' = (timer \/ OnCurrent # {})
    /\ UNCHANGED <<stored, contents, current, retired, activating, task, docs,
                   phase, wanted, held, registered, history>>

\* save_manifest fails, or the request is dropped inside it: the epoch stays
\* pending in memory, and neither a proposal nor a timer follows.
BeginFails ==
    /\ {"save", "cancel"} \cap Faults # {}
    /\ Propose
    /\ Save(current, TRUE, retired) \/ UNCHANGED saved
    /\ UNCHANGED <<stored, contents, current, retired, activating, timer, due,
                   task, docs, phase, wanted, held, registered, history>>

\* ack_timeout_ms passes since the proposal.
AckWindowCloses ==
    /\ pending /\ ~timedOut
    /\ timedOut' = TRUE
    /\ UNCHANGED <<disk, manifest, activating, timer, due, task, docs,
                   connections, history>>

\* The timer's sleep ends, not before the acknowledgement window does.
TimerFires ==
    /\ timer
    /\ timedOut
    /\ timer' = FALSE
    /\ due' = TRUE
    /\ UNCHANGED <<disk, manifest, activating, timedOut, task, docs,
                   connections, history>>

(* ------------------------- activating an epoch ------------------------- *)

Waiting == OnCurrent \ acknowledged # {}

\* Variant of NotYet: connections are waited for without a limit.
NotYetNoTimeout == ~pending \/ activating \/ Waiting

\* The early return of maybe_activate_epoch.
NotYet == ~pending \/ activating \/ (Waiting /\ ~timedOut)

\* A task's call finds nothing to do.
ActivationReturns ==
    /\ due
    /\ step = "idle"
    /\ NotYet
    /\ due' = FALSE
    /\ UNCHANGED <<disk, manifest, activating, timedOut, timer, task, docs,
                   connections, history>>

\* maybe_activate_epoch up to get_or_load, called by a task that had to or by
\* ensure_document in some request.
StartActivation(byRequest) ==
    /\ byRequest \/ due
    /\ step = "idle"
    /\ LoadLockFree
    /\ ~NotYet
    /\ activating' = TRUE
    /\ step' = "build"
    /\ GetOrLoad(current)
    /\ source' = Loaded(current)
    /\ request' = byRequest
    /\ due' = (due /\ byRequest)
    /\ UNCHANGED <<saved, contents, manifest, timedOut, timer, connections,
                   acked, reused>>

\* create_or_load_replacement: a replacement that exists is loaded as it is.
Replace ==
    /\ stored' = stored \cup {Successor}
    /\ contents' = IF Successor \in stored THEN contents
                   ELSE [contents EXCEPT ![Successor] = docOf[source]]
    /\ reused' = (reused \/ (Successor \in stored
                                /\ ~(docOf[source] \subseteq contents[Successor])))

BuildReplacement ==
    /\ step = "build"
    /\ Replace
    /\ step' = "switch"
    /\ UNCHANGED <<saved, manifest, activating, timedOut, timer, due, source,
                   request, docs, connections, acked, split>>

\* The activation's task or request is over and lets go of its document.
Released == step' = "idle" /\ source' = NoInstance /\ request' = FALSE
EndActivation ==
    /\ Released
    /\ Keep({held[p] : p \in Peers}, live, retiredDoc)

\* The replacement cannot be built, or an error follows its creation.
BuildFails ==
    /\ step = "build"
    /\ "create" \in Faults
    /\ Replace \/ UNCHANGED <<stored, contents, reused>>
    /\ EndActivation
    /\ activating' = FALSE
    /\ UNCHANGED <<saved, manifest, timedOut, timer, due, connections,
                   acked, split>>

\* EpochManifest::activate.  A timer that outlives its epoch still makes its
\* call, perhaps before the window of the next one closes; that call is like the
\* one any request may make, so the timer is forgotten.
Activate ==
    /\ current' = Successor
    /\ pending' = FALSE
    /\ timedOut' = FALSE
    /\ timer' = FALSE

\* Variant of SwitchManifest: the previous epoch is not put on the list.
SwitchManifestUnlisted ==
    /\ step = "switch"
    /\ Activate
    /\ \E expired \in SUBSET Expirable(retired) :
          /\ Delete(expired)
          /\ retired' = retired \ expired
    /\ Save(Successor, FALSE, retired')
    /\ registered' = {p \in registered : epochOf[held[p]] = Successor}
    /\ acknowledged' = acknowledged \cap registered'
    /\ activating' = FALSE
    /\ step' = "install"
    /\ UNCHANGED <<due, source, request, docs, phase, wanted, held, history>>

\* The manifest in memory switches and is saved, which commits the epoch.
\* Expired epochs go, and connections of other epochs are forgotten.
SwitchManifest ==
    /\ step = "switch"
    /\ Activate
    /\ \E expired \in SUBSET Expirable(retired) :
          /\ Delete(expired)
          /\ retired' = (retired \ expired) \cup {current}
    /\ Save(Successor, FALSE, retired')
    /\ registered' = {p \in registered : epochOf[held[p]] = Successor}
    /\ acknowledged' = acknowledged \cap registered'
    /\ activating' = FALSE
    /\ step' = "install"
    /\ UNCHANGED <<due, source, request, docs, phase, wanted, held, history>>

\* save_manifest fails after the manifest in memory switched.
SwitchFails ==
    /\ step = "switch"
    /\ "save" \in Faults
    /\ Activate
    /\ retired' = retired \cup {current}
    /\ Save(Successor, FALSE, retired') \/ UNCHANGED saved
    /\ EndActivation
    /\ activating' = FALSE
    /\ UNCHANGED <<stored, contents, due, connections, history>>

\* The store's reference is overwritten by one to the new document, which
\* nobody holds, and the activation lets go of the old one.
ReplaceLive(told) ==
    /\ step = "install"
    /\ Released
    /\ Keep({held[p] : p \in Peers}, NoInstance, told)
    /\ Displace
    /\ UNCHANGED <<disk, manifest, activating, timedOut, timer, due, connections,
                   acked, reused>>

\* Variant of InstallDocument: the old document's connections are not told.
InstallDocumentQuietly == ReplaceLive(retiredDoc)

\* The new document is installed, and the connections of the old one are told
\* to close.
InstallDocument == ReplaceLive(retiredDoc \cup {source})

(* -------------------------- interruptions ------------------------------ *)

\* A request handler is dropped inside maybe_activate_epoch: the gate is
\* released and whatever it has not done yet is never done.
CancelRequest ==
    /\ request
    /\ step # "idle"
    /\ "cancel" \in Faults
    /\ EndActivation
    /\ \/ /\ UNCHANGED <<disk, manifest, timedOut, timer, reused>>
       \/ /\ step = "build"
          /\ Replace
          /\ UNCHANGED <<saved, manifest, timedOut, timer>>
       \/ /\ step = "switch"
          /\ Activate
          /\ retired' = retired \cup {current}
          /\ Save(Successor, FALSE, retired') \/ UNCHANGED saved
          /\ UNCHANGED <<stored, contents, reused>>
    /\ UNCHANGED <<activating, due, connections, acked, split>>

\* The process dies, perhaps between deleting expired epochs and saving that,
\* and starts again: epoch_runtime_initialized reads the manifest, deletes
\* what has expired and saves it.  Nothing sets the timer of a pending epoch.
Crash ==
    /\ "crash" \in Faults
    /\ current' = savedCurrent
    /\ pending' = savedPending
    /\ \E expired \in SUBSET savedRetired :
          /\ Delete(expired)
          /\ retired' = savedRetired \ expired
    /\ Save(savedCurrent, savedPending, retired')
    /\ activating' = FALSE /\ timer' = FALSE /\ due' = FALSE
    /\ Released
    /\ Keep({}, NoInstance, {})
    /\ phase' = [p \in Peers |-> "none"]
    /\ wanted' = [p \in Peers |-> 0]
    /\ held' = [p \in Peers |-> NoInstance]
    /\ registered' = {} /\ acknowledged' = {}
    /\ timedOut' = (timedOut /\ savedPending)
    /\ UNCHANGED history

Next ==
    \/ \E p \in Peers :
          \/ Lookup(p) \/ Connect(p) \/ Register(p) \/ AcknowledgeEpoch(p)
          \/ ConnectionClosed(p)
          \/ \E u \in Updates : ConnectionWrite(p, u)
    \/ \E u \in Updates : ServerWrite(u)
    \/ BeginEpochTransition \/ BeginFails
    \/ AckWindowCloses \/ TimerFires
    \/ ActivationReturns
    \/ \E byRequest \in BOOLEAN : StartActivation(byRequest)
    \/ BuildReplacement \/ BuildFails
    \/ SwitchManifest \/ SwitchFails
    \/ InstallDocument
    \/ CancelRequest
    \/ \E expired \in SUBSET retired : CleanupRetiredEpochs(expired)
    \/ Crash

Spec == Init /\ [][Next]_vars

\* What the runtime schedules: spawned tasks run on, timers fire, a load that
\* began ends, and a connection's task sees the retirement signal.  The load
\* lock is handed on in the order it was asked for, so an activation gets it
\* however many loads come.  Nothing obliges a peer to connect, to acknowledge
\* or to leave, nor a request to arrive.
Fairness ==
    /\ WF_vars(AckWindowCloses) /\ WF_vars(TimerFires)
    /\ WF_vars(ActivationReturns) /\ SF_vars(StartActivation(FALSE))
    /\ WF_vars(BuildReplacement) /\ WF_vars(SwitchManifest)
    /\ WF_vars(InstallDocument)
    /\ \A p \in Peers : WF_vars(Connect(p)) /\ WF_vars(RetiredClosed(p))

FairSpec == Spec /\ Fairness

(* ------------------------------ properties ----------------------------- *)

\* No acknowledged update is lost by a rollover: the current epoch's physical
\* document holds them all, and so does the one a restart would open.
AckedKept == acked \subseteq contents[current] \cap contents[savedCurrent]

\* A rollover loses acknowledged updates in two ways only: a replacement left by
\* an interrupted activation was taken as it was (create_or_load_replacement),
\* or a load between an activation's switch and its end made the document be
\* loaded twice (get_or_load).  Any other interleaving of connects, writes,
\* acknowledgements, restarts and activations keeps them.
LossExplained == AckedKept \/ split \/ reused

\* "The previous physical document remains immutable until its recovery
\* window expires" (crdt_epoch.rs): as long as an epoch stays retired, what
\* is stored for it does not change.
RetiredImmutable ==
    [][\A e \in retired \cap retired' : contents'[e] = contents[e]]_vars

\* Every physical document on disk is current, pending or on the list of
\* retired ones, so that none is kept for ever; and the manifest on disk
\* never names a current document that is missing.
EpochsTracked ==
    /\ stored \subseteq retired \cup {current}
          \cup (IF pending THEN {Successor} ELSE {})
    /\ savedCurrent \in stored

\* Unless the store's reference to it was overwritten while in use, all
\* connections that may write share one instance of the document, and the store
\* hands out that instance: what one of them writes is published to the others,
\* and a replacement is built from all of it (get_or_load, connect_with_options).
OneInstance ==
    \A p \in Peers :
        phase[p] = "open" /\ epochOf[held[p]] = current => live = held[p] \/ split

\* Nobody is connected, and nothing is left to activate a pending epoch but
\* the next request: as after a restart.
Dormant ==
    ~timer /\ ~due /\ step = "idle" /\ \A p \in Peers : phase[p] = "none"

\* Once the acknowledgement timer is set the epoch becomes active, whatever
\* the peers do, unless the process restarts first: "Activate a pending epoch
\* once its acknowledgement window closes even if no client request or
\* connection event happens to trigger the check" (crdt.rs).
ArmedTimerActivates == (pending /\ timer) ~> (~pending \/ Dormant)

\* "An activation that retires this document still reaches the connection"
\* (connect_with_options): a connection still on a retired document is closed.
RetiredConnectionsClose ==
    \A p \in Peers :
        (phase[p] = "open" /\ epochOf[held[p]] # current)
           ~> (phase[p] # "open" \/ epochOf[held[p]] = current)

\* The same unless the document was loaded twice: otherwise such a connection
\* "would keep answering sync-status probes while missing every later change"
\* (maybe_activate_epoch).
SharedRetiredConnectionsClose ==
    \A p \in Peers :
        (phase[p] = "open" /\ epochOf[held[p]] # current)
           ~> (phase[p] # "open" \/ epochOf[held[p]] = current \/ split)
=============================================================================
