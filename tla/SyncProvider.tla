----------------------------- MODULE SyncProvider -----------------------------
(***************************************************************************)
(* One document's sync session: the plugin's RealtimeProvider              *)
(* (src/sync/RealtimeProvider.ts) with the compatibility gate it dials     *)
(* through (src/sync/compatibilityGate.ts), and the server's end of each   *)
(* connection (run_connection in server/src/crdt.rs).                      *)
(*                                                                         *)
(* A document is the set of updates it has integrated, and a state vector  *)
(* is the set it stands for.  That the server keeps what it saved is the   *)
(* subject of CrdtStorage, and what it does with epochs that of            *)
(* DocumentEpochs; here a proposal and its activation are single steps.    *)
(*                                                                         *)
(* JavaScript runs one handler at a time, and the promise continuations it *)
(* leaves behind run before the next one.  A handler is one action here;   *)
(* a connect loop at "top" or "dial" is such a continuation, and no other  *)
(* handler of the provider runs before it.                                 *)
(***************************************************************************)
EXTENDS Integers, Sequences, FiniteSets

CONSTANTS
    LocalUpdates,       \* changes made on this device
    RemoteUpdates,      \* changes other peers save
    Deletions,          \* the local updates that only delete
    Levels,             \* grants a token may carry: "full", "read-only"
    Transports,         \* values of SyncSocket.livenessMonitored (TRUE: a mux)
    Retries,            \* SOCKET_RETRIES_PER_TOKEN
    MaxConns,           \* bound: sockets whose server end has not finished
    MaxLifecycle,       \* bound: calls of disconnect
    MaxFaults           \* bound: failures, needless timeouts, and calls of
                        \* disconnect and destroy

ASSUME ProviderAssumption ==
    /\ LocalUpdates \cap RemoteUpdates = {} /\ Deletions \subseteq LocalUpdates
    /\ Levels \subseteq {"full", "read-only"} /\ Levels # {}
    /\ Transports \subseteq BOOLEAN /\ Transports # {}
    /\ Retries \in Nat \ {0} /\ MaxConns \in Nat \ {0}
    /\ MaxLifecycle \in Nat /\ MaxFaults \in Nat

Updates == LocalUpdates \cup RemoteUpdates
ConnIds == 1..MaxConns
Lifecycles == 0..MaxLifecycle

VARIABLES
    p,          \* the provider's fields
    task,       \* task[l]: where the connect loop of lifecycle l waits
    gate,       \* the ServerCompatibilityGate, shared with other providers
    conn,       \* conn[k]: a socket, with the messages on their way
    server,     \* the document on the server, and the server's release
    counted,    \* history: local updates hasLocalChanges has to account for
    fresh,      \* history: checks since an established socket was lost
    faults

vars == <<p, task, gate, conn, server, counted, fresh, faults>>

Statuses == {"offline", "connecting", "error", "handshaking", "connected"}
Waits == {"none", "top", "gate", "token", "granted", "dial", "attempt",
          "sleep-top", "sleep-firm", "sleep-retry"}

\* doc: the local Y.Doc; token: the authorization of clientToken; sock: 0 or
\* the current socket; heartbeat, response, handshake: which timers are set;
\* pending: pendingEpoch, and with it epochFlushTimer, is set; accepted: the
\* device saved a later epoch for this document; monitored: its transport is
NewProvider(doc, monitored) ==
    [doc |-> doc, monitored |-> monitored, status |-> "offline",
     should |-> FALSE, destroyed |-> FALSE, life |-> 0, token |-> "none",
     rejected |-> FALSE, refusals |-> FALSE, attempt |-> 0, sock |-> 0,
     step1 |-> FALSE, version |-> 0, acked |-> -1, divergence |-> FALSE,
     heartbeat |-> FALSE, response |-> FALSE, handshake |-> FALSE,
     pending |-> FALSE, accepted |-> FALSE]

NoConn == [st |-> "free", level |-> "full", up |-> <<>>, down |-> <<>>]

NewGate == [gen |-> 0, verified |-> -1, check |-> -1, answers |-> {},
            failure |-> "none", wait |-> FALSE, known |-> FALSE]

-----------------------------------------------------------------------------
(* Messages *)

Msg(kind, us, v) == [kind |-> kind, updates |-> us, version |-> v]
Event(kind) == Msg(kind, {}, 0)

-----------------------------------------------------------------------------
(* The compatibility gate *)

IsOpen(g) == g.verified = g.gen /\ ~g.known
BlocksTraffic(g) == g.known \/ g.failure = "incompatible"

-----------------------------------------------------------------------------
(* The provider.  A handler is a chain of steps on the record w of what it *)
(* may change; Settle runs the continuations that are left at its end.     *)

w0 == [p |-> p, task |-> task, gate |-> gate, conn |-> conn,
       counted |-> counted, fresh |-> fresh]

\* step F on what step w left (which is thereby computed only once)
Then(w, F(_)) == CHOOSE r \in {F(v) : v \in {w}} : TRUE

Become(w) ==
    \E v \in {w} :
        /\ p' = v.p /\ task' = v.task /\ gate' = v.gate /\ conn' = v.conn
        /\ counted' = v.counted /\ fresh' = v.fresh

AwaitingAcknowledgement(q) == q.acked < q.version
HasLocalChanges(q) == q.divergence \/ AwaitingAcknowledgement(q)
CanContinue(q, l) == q.should /\ ~q.destroyed /\ q.life = l

\* the loop of the current lifecycle
At(w) == w.task[w.p.life]
Goto(w, place) == [w EXCEPT !.task[w.p.life] = place]

\* the client end of a socket is gone; the server finishes what it received
Hangup(c) == IF c.st = "opening" THEN NoConn
             ELSE [c EXCEPT !.st = "closing", !.down = <<>>]

DropSocket(w) ==
    [w EXCEPT !.p.sock = 0, !.p.pending = FALSE, !.p.heartbeat = FALSE,
              !.p.response = FALSE, !.p.handshake = FALSE,
              !.conn = [k \in ConnIds |-> IF k = w.p.sock THEN Hangup(@[k])
                                          ELSE @[k]]]

\* variant: the generation is not bumped
InvalidateNot(w) == w

Invalidate(w) == [w EXCEPT !.gate.gen = @ + 1]

\* an established connection was lost: whatever verified the server is old,
\* unless the gate is closed for a known incompatibility; then a check under
\* way, which has to open it, still counts
Lose(w) ==
    LET blocked == BlocksTraffic(w.gate)
    IN  [(IF blocked THEN w ELSE Invalidate(w)) EXCEPT !.fresh =
            [begun |-> blocked /\ w.gate.check # -1, passed |-> FALSE]]

FailSocket(w) ==
    IF w.p.sock = 0 THEN w
    ELSE [DropSocket(IF w.p.status = "connected" THEN Lose(w) ELSE w) EXCEPT
             !.p.status = IF w.p.should /\ ~w.p.destroyed THEN "error" ELSE @]

\* the socket accepts data from onopen on; what is sent on a connection that
\* is broken without the client's knowledge goes nowhere
Writable(q) == q.sock # 0 /\ q.status \in {"handshaking", "connected"}
Send(w, m) ==
    IF ~Writable(w.p) THEN w
    ELSE IF BlocksTraffic(w.gate) THEN FailSocket(w)
    ELSE IF w.conn[w.p.sock].st # "open" THEN w
    ELSE [w EXCEPT !.conn[w.p.sock].up = Append(@, m)]

\* variant: the probe names the version after the latest change
CheckSyncAhead(w) ==
    IF ~w.p.step1 \/ ~Writable(w.p) THEN w
    ELSE Send(w, Msg("status", {}, w.p.version + 1))

CheckSync(w) ==
    IF ~w.p.step1 \/ ~Writable(w.p) THEN w
    ELSE Then(Send(w, Msg("status", {}, w.p.version)),
              LAMBDA v : [v EXCEPT !.p.response = @ \/ v.p.sock # 0])

\* variant: an idle document is never probed, whatever its transport
ResetHeartbeatBusyOnly(w) ==
    [w EXCEPT !.p.heartbeat = ~w.p.step1 \/ AwaitingAcknowledgement(w.p)]

ResetHeartbeat(w) ==
    LET idle == w.p.step1 /\ ~AwaitingAcknowledgement(w.p)
    IN  [w EXCEPT !.p.heartbeat = ~(idle /\ w.p.monitored)]

Destroyed(w) ==
    [DropSocket(w) EXCEPT !.p.destroyed = TRUE, !.p.should = FALSE,
                          !.p.status = "offline",
                          !.task[w.p.life] = IF @ \in {"token", "granted"}
                                             THEN @ ELSE "none"]

\* setDocumentEpoch: the later epoch is on the device before it is acknowledged
SetDocumentEpoch(w) == [w EXCEPT !.p.accepted = TRUE]

\* what holds the retired epoch's state is replaced once the handler is done
RebuildForEpoch(w) == Destroyed(w)

FinishEpochHandoff(w) ==
    IF ~w.p.pending THEN w
    ELSE Send(SetDocumentEpoch([w EXCEPT !.p.pending = FALSE]),
              Event("epoch-ack"))

AcknowledgeVersion(w, v) ==
    Then([w EXCEPT !.p.divergence = @ /\ w.p.token = "read-only",
                   !.p.acked = IF v > @ THEN v ELSE @],
         LAMBDA u : IF HasLocalChanges(u.p) THEN u ELSE FinishEpochHandoff(u))

ReceiveEpochProposal(w) ==
    Then([w EXCEPT !.p.pending = TRUE],
         LAMBDA v : IF ~HasLocalChanges(v.p) \/ v.p.token = "read-only"
                    THEN FinishEpochHandoff(v) ELSE CheckSync(v))

\* variant: a read-only connection's answers count like any other's
IgnoreReadOnlyDivergence(w, missing) == w

NoteReadOnlyDivergence(w, missing) ==
    [w EXCEPT !.p.divergence =
        @ \/ (w.p.token = "read-only" /\ missing \ Deletions # {})]

\* variant: the server's SyncStep1 completes the handshake
ReceiveSyncStep1Completes(w, vector) ==
    CheckSync([Send(w, Msg("step2", w.p.doc \ vector, 0)) EXCEPT
                   !.p.step1 = TRUE, !.p.status = "connected"])

\* the answer to the server's SyncStep1 holds what its state vector lacks
ReceiveSyncStep1(w, vector) ==
    LET missing == w.p.doc \ vector
        Got(v) == NoteReadOnlyDivergence([v EXCEPT !.p.step1 = TRUE], missing)
    IN  Then(Then(Send(w, Msg("step2", missing, 0)), Got), CheckSync)

ReceiveSyncStep2(w, us) ==
    [w EXCEPT !.p.doc = @ \cup us, !.p.status = "connected",
              !.p.handshake = FALSE]

ReceiveMessage(w, m) ==
    CASE m.kind = "step1" -> ReceiveSyncStep1(w, m.updates)
      [] m.kind = "step2" -> ReceiveSyncStep2(w, m.updates)
      [] m.kind = "update" -> [w EXCEPT !.p.doc = @ \cup m.updates]
      [] m.kind = "status" -> AcknowledgeVersion(w, m.version)
      [] m.kind = "proposal" -> ReceiveEpochProposal(w)

OnMessage(w, m) ==
    IF BlocksTraffic(w.gate) THEN FailSocket(w)
    ELSE Then(ReceiveMessage(w, m),
              LAMBDA v : ResetHeartbeat([v EXCEPT !.p.response = FALSE]))

\* the handshake timer, set since the attempt began, starts anew
OnOpen(w) ==
    Then(Then([w EXCEPT !.p.status = "handshaking"],
              LAMBDA v : Send(v, Msg("step1", v.p.doc, 0))), ResetHeartbeat)

Deliver(w, m) ==
    CASE m.kind = "open" -> OnOpen(w)
      [] m.kind = "close" -> FailSocket(w)
      [] m.kind = "rejected" -> FailSocket([w EXCEPT !.p.rejected = TRUE])
      [] OTHER -> OnMessage(w, m)

StartLoop(w) == Goto([w EXCEPT !.p.status = "connecting"], "top")

\* runConnectLoop after an attempt failed
AfterAttempt(w) ==
    IF ~w.p.rejected THEN Goto(w, "sleep-retry")
    ELSE Goto([w EXCEPT !.p.token = "none", !.p.refusals = TRUE],
              IF w.p.refusals THEN "sleep-top" ELSE "top")

\* variant: only an attempt that fails is followed by another
SettleNoReconnect(w) ==
    IF w.p.accepted THEN RebuildForEpoch(w)
    ELSE IF w.p.destroyed \/ ~w.p.should \/ At(w) # "attempt" THEN w
    ELSE IF w.p.status = "connected" THEN Goto(w, "none")
    ELSE IF w.p.sock = 0 THEN AfterAttempt(w) ELSE w

\* a device that moved to a later epoch replaces the document and destroys its
\* provider; an attempt that settled resumes its loop; a socket that fails
\* when no loop runs starts one
Settle(w) ==
    IF w.p.accepted THEN RebuildForEpoch(w)
    ELSE IF w.p.destroyed \/ ~w.p.should THEN w
    ELSE IF At(w) = "attempt" /\ w.p.status = "connected"
    THEN Goto([w EXCEPT !.p.refusals = FALSE], "none")
    ELSE IF At(w) = "attempt" /\ w.p.sock = 0 THEN AfterAttempt(w)
    ELSE IF At(w) = "none" /\ w.p.sock = 0 THEN StartLoop(w)
    ELSE w

Finish(w) == \E v \in {w} : Become(Settle(v))

\* no continuation of the provider is due
Idle == task[p.life] \notin {"top", "dial"}

-----------------------------------------------------------------------------
(* Calls of the provider *)

\* a woken loop goes on where it slept
Wake(w) ==
    IF At(w) = "sleep-top" THEN Goto(w, "top")
    ELSE IF At(w) # "sleep-retry" THEN w
    ELSE IF w.p.attempt + 1 < Retries
    THEN Goto([w EXCEPT !.p.attempt = @ + 1],
              IF IsOpen(w.gate) THEN "dial" ELSE "top")
    ELSE Goto([w EXCEPT !.p.token = "none"], "top")

Connect ==
    /\ Idle /\ ~p.destroyed /\ p.status # "connected"
    /\ LET w == [w0 EXCEPT !.p.should = TRUE]
       IN  Become(IF At(w) = "none" THEN StartLoop(w) ELSE Wake(w))
    /\ UNCHANGED <<server, faults>>

\* a sleeping loop and one that waits for its attempt end at once; one that
\* waits for the gate or a token ends when it has it
Disconnect ==
    /\ Idle /\ ~p.destroyed /\ p.life < MaxLifecycle /\ faults < MaxFaults
    /\ LET w == DropSocket(w0)
       IN  Become([w EXCEPT !.p.should = FALSE, !.p.status = "offline",
                            !.p.life = @ + 1,
                            !.task[p.life] =
                                IF @ \in {"gate", "token", "granted"}
                                THEN @ ELSE "none"])
    /\ faults' = faults + 1
    /\ UNCHANGED server

Destroy ==
    /\ Idle /\ ~p.destroyed /\ faults < MaxFaults
    /\ Become(Destroyed(w0))
    /\ faults' = faults + 1
    /\ UNCHANGED server

\* documentUpdateListener
LocalUpdate(u) ==
    /\ Idle /\ ~p.destroyed /\ u \notin p.doc
    /\ LET w == [w0 EXCEPT !.p.doc = @ \cup {u}]
           v == [Send(w, Msg("update", {u}, 0)) EXCEPT
                     !.p.version = @ + 1, !.counted = @ \cup {u}]
       IN  Finish(IF p.token = "read-only" THEN w ELSE CheckSync(v))
    /\ UNCHANGED <<server, faults>>

-----------------------------------------------------------------------------
(* The connect loop *)

StartCheck(w) == [w EXCEPT !.gate.check = w.gate.gen,
                           !.gate.answers = {server.compatible},
                           !.fresh.begun = TRUE]

\* the top of runConnectLoop, up to where it waits: for the gate, or for a
\* token unless the cached one has not expired
LoopTop ==
    /\ task[p.life] = "top"
    /\ \E expired \in BOOLEAN :
         Become(
           IF ~CanContinue(p, p.life) THEN Goto(w0, "none")
           ELSE IF IsOpen(gate)
           THEN IF p.token # "none" /\ ~expired
                THEN Goto([w0 EXCEPT !.p.attempt = 0], "dial")
                ELSE Goto([w0 EXCEPT !.p.token = "none"], "token")
           ELSE IF gate.check # -1 THEN Goto(w0, "gate")
           ELSE IF gate.failure # "none" /\ gate.wait
           THEN Goto([w0 EXCEPT !.p.status = "error"], "sleep-top")
           ELSE Goto(StartCheck(w0), "gate"))
    /\ UNCHANGED <<server, faults>>

\* attemptConnection; sockets are alike, so the first free one will do
Dial(k) ==
    /\ task[p.life] = "dial" /\ conn[k].st = "free"
    /\ \A j \in 1..(k - 1) : conn[j].st # "free"
    /\ Become(Goto([w0 EXCEPT
           !.p.rejected = FALSE, !.p.status = "connecting", !.p.sock = k,
           !.p.step1 = FALSE, !.p.handshake = TRUE,
           !.conn[k] = [NoConn EXCEPT !.st = "opening", !.level = p.token]],
           "attempt"))
    /\ UNCHANGED <<server, faults>>

\* the socket cannot be created
DialFails ==
    /\ task[p.life] = "dial" /\ faults < MaxFaults
    /\ Become(AfterAttempt([w0 EXCEPT !.p.rejected = FALSE,
                                      !.p.status = "error"]))
    /\ faults' = faults + 1
    /\ UNCHANGED server

SleepEnds ==
    /\ task[p.life] \in {"sleep-top", "sleep-firm", "sleep-retry"}
    /\ Become(Wake(IF task[p.life] = "sleep-firm" THEN Goto(w0, "sleep-top")
                   ELSE w0))
    /\ UNCHANGED <<server, faults>>

\* a token for the epoch of this document, issued before another was proposed;
\* ensureClientToken keeps it whatever became of the loop that asked
TokenAnswer(l) ==
    /\ Idle
    /\ task[l] = "granted" \/ (task[l] = "token" /\ ~server.proposed)
    /\ \E level \in Levels :
         LET w == [w0 EXCEPT !.p.token = level]
         IN  Become(IF ~CanContinue(p, l) THEN [w EXCEPT !.task[l] = "none"]
                    ELSE Goto([w EXCEPT !.p.attempt = 0],
                              IF IsOpen(gate) THEN "dial" ELSE "top"))
    /\ UNCHANGED <<server, faults>>

\* the token names a later epoch, current or still pending: getClientToken
\* accepts that epoch
TokenMoved(l) ==
    /\ Idle /\ task[l] = "token" /\ server.proposed
    /\ Finish(SetDocumentEpoch([w0 EXCEPT !.task[l] = "none"]))
    /\ UNCHANGED <<server, faults>>

\* no token: a refusal sleeps out its backoff, no answer at all does not
TokenFails(l) ==
    /\ Idle /\ task[l] \in {"token", "granted"} /\ faults < MaxFaults
    /\ \E sleep \in {"sleep-top", "sleep-firm"} :
         Become(IF ~CanContinue(p, l) THEN [w0 EXCEPT !.task[l] = "none"]
                ELSE Goto([w0 EXCEPT !.p.status = "error"], sleep))
    /\ faults' = faults + 1
    /\ UNCHANGED server

-----------------------------------------------------------------------------
(* The gate's check, and what other providers do with the gate *)

\* the loops that wait for a check look at the gate again
Resume(w) ==
    [w EXCEPT !.task = [l \in Lifecycles |->
        IF @[l] # "gate" THEN @[l]
        ELSE IF CanContinue(w.p, l) THEN "top" ELSE "none"]]

\* variant: a check verifies the generation in which it ends
CheckPassesNow ==
    /\ Idle /\ gate.check # -1 /\ TRUE \in gate.answers
    /\ Become(Resume([w0 EXCEPT
           !.gate.verified = gate.gen, !.gate.check = -1,
           !.gate.failure = "none", !.gate.known = FALSE,
           !.fresh.passed = @ \/ fresh.begun]))
    /\ UNCHANGED <<server, faults>>

CheckPasses ==
    /\ Idle /\ gate.check # -1 /\ TRUE \in gate.answers
    /\ Become(Resume([w0 EXCEPT
           !.gate.verified = gate.check, !.gate.check = -1,
           !.gate.failure = "none", !.gate.wait = FALSE, !.gate.known = FALSE,
           !.gate.answers = {},
           !.fresh.passed = @ \/ fresh.begun]))
    /\ UNCHANGED <<server, faults>>

CheckFinds(error) ==
    Become(Resume([w0 EXCEPT
        !.gate.verified = -1, !.gate.check = -1, !.gate.failure = error,
        !.gate.wait = TRUE, !.gate.known = @ \/ error = "incompatible",
        !.gate.answers = {}, !.fresh.passed = FALSE]))

CheckRefuses ==
    /\ Idle /\ gate.check # -1 /\ FALSE \in gate.answers
    /\ CheckFinds("incompatible")
    /\ UNCHANGED <<server, faults>>

CheckUnreachable ==
    /\ Idle /\ gate.check # -1 /\ faults < MaxFaults
    /\ CheckFinds("unreachable")
    /\ faults' = faults + 1
    /\ UNCHANGED server

\* the time a failed check is remembered for is over
RecheckDue ==
    /\ gate.wait
    /\ gate' = [gate EXCEPT !.wait = FALSE]
    /\ UNCHANGED <<p, task, conn, server, counted, fresh, faults>>

\* another document's provider loses its connection
OtherLoses ==
    /\ Idle /\ faults < MaxFaults
    /\ Become(Lose(w0))
    /\ faults' = faults + 1
    /\ UNCHANGED server

\* verify: a forced check
Verify ==
    /\ Idle /\ gate.check = -1 /\ faults < MaxFaults
    /\ Become(StartCheck([w0 EXCEPT !.gate.failure = "none",
                                    !.gate.wait = FALSE,
                                    !.gate.verified = -1]))
    /\ faults' = faults + 1
    /\ UNCHANGED server

-----------------------------------------------------------------------------
(* Events of the socket and timers *)

Receive ==
    /\ Idle /\ p.sock # 0 /\ conn[p.sock].down # <<>>
    /\ LET c == conn[p.sock]
           w == [w0 EXCEPT !.conn[p.sock].down = Tail(@)]
       IN  Finish(Deliver(w, Head(c.down)))
    /\ UNCHANGED <<server, faults>>

\* nothing more will come on the current socket
Silent == p.sock # 0 /\ conn[p.sock].st = "closing" /\ conn[p.sock].down = <<>>

Quiet == IF p.sock = 0 THEN TRUE
         ELSE conn[p.sock].st # "opening" /\ conn[p.sock].down = <<>>
              /\ (Silent \/ conn[p.sock].up = <<>>)

\* the heartbeat timer: probe the server, or repeat the handshake; with messages
\* still on their way it counts as a fault
Heartbeat ==
    /\ Idle /\ p.heartbeat
    /\ Quiet \/ faults < MaxFaults
    /\ LET w == [w0 EXCEPT !.p.heartbeat = FALSE]
       IN  Finish(IF p.step1 THEN CheckSync(w)
                  ELSE Send(w, Msg("step1", p.doc, 0)))
    /\ faults' = IF Quiet THEN faults ELSE faults + 1
    /\ UNCHANGED server

\* the response timer, or the timer on an attempt; with the server's answer
\* still to come it counts as a fault
Timeout ==
    /\ Idle /\ p.sock # 0
    /\ p.response \/ (p.handshake /\ p.status # "connected")
    /\ Silent \/ faults < MaxFaults
    /\ Finish(FailSocket(w0))
    /\ faults' = IF Silent THEN faults ELSE faults + 1
    /\ UNCHANGED server

\* epochFlushTimer
FlushTimeout ==
    /\ Idle /\ p.pending
    /\ Finish(FinishEpochHandoff(w0))
    /\ UNCHANGED <<server, faults>>

\* the mux finds its real socket dead and closes every channel
TransportDetects ==
    /\ Idle /\ p.monitored /\ Silent
    /\ Finish(FailSocket(w0))
    /\ UNCHANGED <<server, faults>>

-----------------------------------------------------------------------------
(* The server *)

\* the server ends a connection; the close follows what was sent before
Ended(c) ==
    IF c.st = "open"
    THEN [c EXCEPT !.st = "closing", !.up = <<>>,
                   !.down = Append(@, Event("close"))]
    ELSE [c EXCEPT !.up = <<>>]

Outgoing(c, m) ==
    IF c.st = "open" THEN [c EXCEPT !.down = Append(@, m)] ELSE c

\* an update is saved, then published to every connection, its own included
Published(cs, us) ==
    [k \in ConnIds |-> Outgoing(cs[k], Msg("update", us, 0))]

InitialMessages == <<Event("open"), Msg("step1", server.doc, 0)>>

\* taken under the mutation lock, so it lacks no accepted update
SyncStep2(vector) == Msg("step2", server.doc \ vector, 0)

\* connect_with_options and the start of run_connection
Accept(k) ==
    /\ conn[k].st = "opening" /\ ~server.moved
    /\ conn' = [conn EXCEPT ![k].st = "open", ![k].down =
           InitialMessages
           \o (IF server.proposed THEN <<Event("proposal")>> ELSE <<>>)]
    /\ UNCHANGED <<p, task, gate, server, counted, fresh, faults>>

\* the token is refused: it expired, or it is for a retired epoch; only the
\* mux says so, a plain WebSocket just fails
Reject(k) ==
    /\ conn[k].st = "opening"
    /\ server.moved \/ faults < MaxFaults
    /\ conn' = [conn EXCEPT ![k].st = "closing",
                            ![k].down = <<Event(IF p.monitored
                                                THEN "rejected" ELSE "close")>>]
    /\ faults' = IF server.moved THEN faults ELSE faults + 1
    /\ UNCHANGED <<p, task, gate, server, counted, fresh>>

\* one turn of run_connection on a message of its client
ServerReceive(k) ==
    /\ conn[k].up # <<>>
    /\ LET m == Head(conn[k].up)
           cs == [conn EXCEPT ![k].up = Tail(@)]
           writes == /\ m.kind \in {"step2", "update"}
                     /\ conn[k].level # "read-only"
                     /\ ~(m.kind = "step2" /\ m.updates \subseteq server.doc)
       IN  /\ conn' =
                IF m.kind = "step1"
                THEN [cs EXCEPT ![k] = Outgoing(@, SyncStep2(m.updates))]
                ELSE IF m.kind = "status"
                THEN [cs EXCEPT ![k] = Outgoing(@, m)]
                ELSE IF m.kind = "epoch-ack" \/ (writes /\ server.moved)
                THEN [cs EXCEPT ![k] = Ended(@)]
                ELSE IF writes THEN Published(cs, m.updates) ELSE cs
           /\ server' = [server EXCEPT !.doc =
                IF writes /\ ~server.moved THEN @ \cup m.updates ELSE @]
    /\ UNCHANGED <<p, task, gate, counted, fresh, faults>>

\* the server's end of a socket the client has left is over
ServerEnds(k) ==
    /\ conn[k].st = "closing" /\ conn[k].up = <<>> /\ p.sock # k
    /\ conn' = [conn EXCEPT ![k] = NoConn]
    /\ UNCHANGED <<p, task, gate, server, counted, fresh, faults>>

RemoteUpdate(u) ==
    /\ u \notin server.doc
    /\ server' = [server EXCEPT !.doc = @ \cup {u}]
    /\ conn' = Published(conn, {u})
    /\ UNCHANGED <<p, task, gate, counted, fresh, faults>>

\* a token on its way was issued before the proposal
Propose ==
    /\ ~server.proposed /\ ~server.moved
    /\ server' = [server EXCEPT !.proposed = TRUE]
    /\ conn' = [k \in ConnIds |-> Outgoing(conn[k], Event("proposal"))]
    /\ \E issued \in SUBSET {l \in Lifecycles : task[l] = "token"} :
         task' = [l \in Lifecycles |->
                     IF l \in issued THEN "granted" ELSE task[l]]
    /\ UNCHANGED <<p, gate, counted, fresh, faults>>

\* the pending epoch becomes current and the old connections are closed
Activate ==
    /\ server.proposed /\ ~server.moved
    /\ server' = [server EXCEPT !.moved = TRUE]
    /\ conn' = [k \in ConnIds |-> Ended(conn[k])]
    /\ UNCHANGED <<p, task, gate, counted, fresh, faults>>

\* the server restarts, possibly as another release; a check under way may
\* have been answered by either
Restart ==
    /\ faults < MaxFaults
    /\ \E compatible \in BOOLEAN :
         /\ server' = [server EXCEPT !.compatible = compatible]
         /\ gate' = IF gate.check = -1 THEN gate
                    ELSE [gate EXCEPT !.answers = @ \cup {compatible}]
    /\ conn' = [k \in ConnIds |-> Ended(conn[k])]
    /\ faults' = faults + 1
    /\ UNCHANGED <<p, task, counted, fresh>>

\* the connection breaks: part of what is on its way arrives, and the client
\* may or may not be told
Break(k) ==
    /\ conn[k].st = "open" /\ faults < MaxFaults
    /\ \E n \in 0..Len(conn[k].up), m \in 0..Len(conn[k].down),
          told \in BOOLEAN :
         conn' = [conn EXCEPT ![k].st = "closing",
             ![k].up = SubSeq(@, 1, n),
             ![k].down = SubSeq(@, 1, m)
                         \o (IF told THEN <<Event("close")>> ELSE <<>>)]
    /\ faults' = faults + 1
    /\ UNCHANGED <<p, task, gate, server, counted, fresh>>

\* the operator installs a compatible release again
Upgrade ==
    /\ ~server.compatible
    /\ server' = [server EXCEPT !.compatible = TRUE]
    /\ gate' = IF gate.check = -1 THEN gate
               ELSE [gate EXCEPT !.answers = @ \cup {TRUE}]
    /\ conn' = [k \in ConnIds |-> Ended(conn[k])]
    /\ UNCHANGED <<p, task, counted, fresh, faults>>

-----------------------------------------------------------------------------

\* what an earlier run of the plugin left in the local store counts as pending
Init ==
    /\ \E doc \in SUBSET LocalUpdates, monitored \in Transports :
         p = NewProvider(doc, monitored) /\ counted = doc
    /\ task = [l \in Lifecycles |-> "none"]
    /\ gate = NewGate
    /\ conn = [k \in ConnIds |-> NoConn]
    /\ server = [doc |-> {}, proposed |-> FALSE, moved |-> FALSE,
                 compatible |-> TRUE]
    /\ fresh = [begun |-> FALSE, passed |-> FALSE]
    /\ faults = 0

ProviderStep ==
    \/ Connect \/ Disconnect \/ Destroy
    \/ \E u \in LocalUpdates : LocalUpdate(u)
    \/ LoopTop \/ DialFails \/ SleepEnds
    \/ \E k \in ConnIds : Dial(k)
    \/ \E l \in Lifecycles : TokenAnswer(l) \/ TokenMoved(l) \/ TokenFails(l)
    \/ CheckPasses \/ CheckRefuses \/ CheckUnreachable \/ RecheckDue
    \/ OtherLoses \/ Verify
    \/ Receive \/ Heartbeat \/ Timeout \/ FlushTimeout \/ TransportDetects

ServerStep ==
    \/ \E k \in ConnIds : \/ Accept(k) \/ Reject(k) \/ ServerReceive(k)
                          \/ ServerEnds(k) \/ Break(k)
    \/ \E u \in RemoteUpdates : RemoteUpdate(u)
    \/ Propose \/ Activate \/ Restart \/ Upgrade

Next == ProviderStep \/ ServerStep

Spec == Init /\ [][Next]_vars

\* the connect loop goes on, requests are answered, timers fire, the network
\* delivers and the server serves each connection; an incompatible release is
\* replaced in the end.  The actions under one WF exclude each other.
Fairness ==
    /\ WF_vars(LoopTop \/ SleepEnds \/ \E k \in ConnIds : Dial(k))
    /\ \A l \in Lifecycles : WF_vars(TokenAnswer(l) \/ TokenMoved(l))
    /\ \A k \in ConnIds : WF_vars(\/ Accept(k) \/ (server.moved /\ Reject(k))
                                  \/ ServerReceive(k) \/ ServerEnds(k))
    /\ WF_vars(CheckPasses \/ CheckRefuses) /\ WF_vars(RecheckDue)
    /\ WF_vars(Receive) /\ WF_vars(Quiet /\ Heartbeat)
    /\ WF_vars(FlushTimeout)
    /\ WF_vars(Silent /\ (Timeout \/ TransportDetects))
    /\ WF_vars(Upgrade)

FairSpec == Spec /\ Fairness

-----------------------------------------------------------------------------
(* Properties *)

Messages == [kind : {"open", "close", "rejected", "step1", "step2", "update",
                     "status", "proposal", "epoch-ack"},
             updates : SUBSET Updates, version : 0..Cardinality(LocalUpdates)]

\* Every field of the provider, the gate and the sockets keeps its type; in
\* particular no version is acknowledged that was never reached.
TypeOK ==
    /\ p.doc \subseteq Updates /\ p.status \in Statuses
    /\ p.life \in Lifecycles /\ p.token \in Levels \cup {"none"}
    /\ p.attempt \in 0..(Retries - 1) /\ p.sock \in ConnIds \cup {0}
    /\ p.version \in 0..Cardinality(LocalUpdates)
    /\ p.acked \in -1..p.version
    /\ \A l \in Lifecycles : task[l] \in Waits
    /\ \A k \in ConnIds :
         /\ conn[k].st \in {"free", "opening", "open", "closing"}
         /\ \A i \in DOMAIN conn[k].up : conn[k].up[i] \in Messages
         /\ \A i \in DOMAIN conn[k].down : conn[k].down[i] \in Messages
    /\ server.doc \subseteq Updates /\ counted \subseteq LocalUpdates

\* hasLocalChanges is false only when the server has saved every local change
\* the provider took charge of: across reconnects, broken connections whose
\* messages arrive in part, and connections that turn out to be read-only.
AcknowledgedMeansSaved == HasLocalChanges(p) \/ counted \subseteq server.doc

\* A provider that calls itself connected misses nothing the server holds but
\* what is on its way to it: SyncStep2 is a high-water mark, and every later
\* update is published to the connection.
ConnectedSeesAll ==
    p.status = "connected" /\ conn[p.sock].st = "open" =>
        server.doc \subseteq p.doc \cup
            UNION {conn[p.sock].down[i].updates : i \in
                      {j \in DOMAIN conn[p.sock].down :
                          conn[p.sock].down[j].kind \in {"step2", "update"}}}

\* No socket is opened before the server passed a check that began after the
\* last loss of an established connection, of this document or another; where
\* the server was then known to be incompatible, one that ended after the loss
\* (failSocket, invalidate, runCheck).
VerifiedSinceLoss == [][p'.sock \notin {0, p.sock} => fresh.passed]_vars

\* A provider that wants to be connected gets every local change to the
\* server, or is told to stop, or moves to a later epoch.
LocalChangesArrive ==
    \A u \in LocalUpdates :
        u \in counted ~> u \in server.doc \/ ~p.should

\* Every change saved by another peer reaches a provider that wants to be
\* connected, though its connection may break without notice while it idles.
RemoteChangesArrive ==
    \A u \in RemoteUpdates :
        u \in server.doc ~> u \in p.doc \/ ~p.should

=============================================================================
