---------------------------- MODULE KernelClient ----------------------------
(***************************************************************************)
(* The dnbd3 kernel client's connection of one device (src/kernel/net.c):   *)
(* the two request lists request_queue_send and request_queue_receive, the *)
(* send, receive and discover kernel threads, the one-second heartbeat     *)
(* timer, the connection_lock gate, panic mode, and the live handover to   *)
(* another server through better_sock (dnbd3_net_disconnect followed by    *)
(* dnbd3_net_connect).                                                      *)
(*                                                                         *)
(* Data is abstracted: a block request is a model value of Reqs, the two   *)
(* special requests (CMD_KEEPALIVE, CMD_GET_SERVERS) are the model values  *)
(* KA and GS, a socket is the server it is connected to.  The RTT          *)
(* arithmetic of the switching rule is left to AltServerSelection; here   *)
(* the outcome of the comparison is a free choice.  The servers and the    *)
(* block layer are the environment.                                        *)
(***************************************************************************)
EXTENDS Naturals, Sequences, SequencesExt, FiniteSets

CONSTANTS
    Servers,        \* the alt servers of the device (dev->alt_servers)
    Reqs,           \* block read requests the block layer may submit
    KA, GS,         \* special requests CMD_KEEPALIVE and CMD_GET_SERVERS
    NoServer,       \* ss_family == 0, also "no socket" and best_sock NULL
    NoReq,          \* no request being received / last_request sentinel
    PROBE_COUNT_TIMEOUT,
    PANIC_COUNT_MAX,                  \* panic_count saturates here (255)
    STARTUP_MODE_DURATION,
    TIMER_INTERVAL_KEEPALIVE_PACKET,
    TIMER_INTERVAL_PROBE_STARTUP,
    TIMER_INTERVAL_PROBE_NORMAL,
    TIMER_INTERVAL_PROBE_PANIC,
    HB_PERIOD,      \* a common multiple of the steady-state intervals
    MaxInFlight,    \* kmalloc of a special request fails with this many in flight
    MaxCrashes,     \* how often a server may fail (environment budget)
    MaxSpawnFailures \* how often kthread_create may fail

ASSUME /\ PROBE_COUNT_TIMEOUT \in Nat
       /\ PANIC_COUNT_MAX \in Nat /\ PANIC_COUNT_MAX > PROBE_COUNT_TIMEOUT
       /\ \A i \in {TIMER_INTERVAL_KEEPALIVE_PACKET, TIMER_INTERVAL_PROBE_NORMAL,
                    TIMER_INTERVAL_PROBE_PANIC} : HB_PERIOD % i = 0
       /\ NoServer \notin Servers /\ NoReq \notin Reqs /\ {KA, GS} \cap Reqs = {}

Special == {KA, GS}
Item == Reqs \cup Special
ThreadState == {"none", "init", "run", "exit"}

VARIABLES
    sendQ,        \* dev->request_queue_send, head first
    recvQ,        \* dev->request_queue_receive, head first
    receiving,    \* request taken off recvQ whose payload is being read
    wire,         \* replies the server owes on the current socket, in order
    sock,         \* dev->sock: the server it is connected to, or NoServer
    sockOpen,     \* FALSE once dev->sock was shut down or its peer failed
    curServer,    \* dev->cur_server.host
    panic, panicCount, discover, connLock,
    timer, hbCount,                 \* hb_timer armed, dev->heartbeat_count
    tSend, tRecv,                   \* dev->thread_send / thread_receive
    dState,       \* discover thread: none, waiting, probing, holding the lock
    toProbe,      \* servers of this cycle not probed yet
    bestServer,   \* best_server / best_sock of this cycle
    target,       \* host_compare of a panic takeover, best_server of a switch
    turn, ready, lastRequest,       \* discover thread locals
    up,           \* which servers answer (environment)
    submitted, ended, result,       \* block layer view of each request
    crashes, spawnFails

client == <<sendQ, recvQ, receiving, wire, sock, sockOpen, curServer>>
flags == <<panic, panicCount, discover, connLock, timer, hbCount>>
threads == <<tSend, tRecv, dState, toProbe, bestServer, target, turn, ready,
            lastRequest>>
env == <<up, submitted, ended, result, crashes, spawnFails>>
vars == <<client, flags, threads, env>>

TypeOK ==
    /\ sendQ \in Seq(Item) /\ recvQ \in Seq(Reqs)
    /\ receiving \in Reqs \cup {NoReq}
    /\ wire \in Seq(Item)
    /\ sock \in Servers \cup {NoServer} /\ sockOpen \in BOOLEAN
    /\ curServer \in Servers \cup {NoServer}
    /\ panic \in BOOLEAN /\ panicCount \in 0..PANIC_COUNT_MAX
    /\ discover \in BOOLEAN /\ connLock \in BOOLEAN
    /\ timer \in BOOLEAN /\ hbCount \in Nat
    /\ tSend \in ThreadState /\ tRecv \in ThreadState
    /\ dState \in {"none", "wait", "probe", "lockP", "lockS"}
    /\ target \in Servers \cup {NoServer}
    /\ toProbe \subseteq Servers /\ bestServer \in Servers \cup {NoServer}
    /\ turn \in 0..3 /\ ready \in BOOLEAN
    /\ lastRequest \in Item \cup {NoReq}
    /\ up \in [Servers -> BOOLEAN]
    /\ submitted \subseteq Reqs
    /\ ended \in [Reqs -> Nat] /\ result \in [Reqs -> {"none", "ok", "ioerr"}]
    /\ crashes \in 0..MaxCrashes /\ spawnFails \in 0..MaxSpawnFailures

-----------------------------------------------------------------------------
(* Helpers *)

\* timeout_seconds(x) of dnbd3_net_heartbeat
TimeoutSeconds(x) == hbCount % x = 0

\* ++dev->heartbeat_count, folded into one period once past start-up: every
\* test of the count is a test modulo an interval dividing HB_PERIOD or a
\* comparison with STARTUP_MODE_DURATION, which the folding preserves.
NextHbCount ==
    IF hbCount + 1 > STARTUP_MODE_DURATION + HB_PERIOD
    THEN hbCount + 1 - HB_PERIOD ELSE hbCount + 1

\* The special requests queued or sent and not yet answered: the model's
\* measure of the memory their kmalloc draws from.
InFlightSpecial ==
    Cardinality({i \in DOMAIN sendQ : sendQ[i] \in Special})
    + Cardinality({i \in DOMAIN wire : wire[i] \in Special})

\* The socket of the connection still carries data.
Healthy == sock # NoServer /\ sockOpen /\ up[sock]

\* The cleanup: label of dnbd3_net_send and dnbd3_net_receive: unless a
\* (dis)connect holds connection_lock, shut the socket down and enter panic.
CleanupPanic ==
    IF ~connLock
    THEN /\ sockOpen' = FALSE /\ panic' = TRUE /\ discover' = TRUE
    ELSE UNCHANGED <<sockOpen, panic, discover>>

\* Mutant: the first run of the send thread forgets the requests that were
\* sent on the previous socket.
RequeueReceivedDropped == sendQ

\* The head of the send queue the first time the send thread runs: every
\* request of request_queue_receive is moved to the head with list_add,
\* which reverses their order.
RequeueReceived == Reverse(recvQ) \o sendQ

-----------------------------------------------------------------------------
(* The block layer (dnbd3_queue_rq, outside net.c) and the servers *)

\* A read request of the block layer is appended to request_queue_send.
Submit(r) ==
    /\ r \notin submitted
    /\ sendQ' = Append(sendQ, r)
    /\ submitted' = submitted \cup {r}
    /\ UNCHANGED <<recvQ, receiving, wire, sock, sockOpen, curServer, flags,
                   threads, up, ended, result, crashes, spawnFails>>

\* dnbd3_blk_fail_all_requests: every request of both lists is unlinked and
\* ended with an I/O error; the special requests among them are freed.
FailAll(sq, rq) ==
    LET failed == (ToSet(sq) \cup ToSet(rq)) \cap Reqs
    IN  /\ sendQ' = <<>> /\ recvQ' = <<>>
        /\ ended' = [r \in Reqs |-> IF r \in failed THEN ended[r] + 1 ELSE ended[r]]
        /\ result' = [r \in Reqs |-> IF r \in failed THEN "ioerr" ELSE result[r]]

\* A server fails; the connection to it, if any, breaks.
Crash(s) ==
    /\ up[s] /\ crashes < MaxCrashes
    /\ up' = [up EXCEPT ![s] = FALSE]
    /\ crashes' = crashes + 1
    /\ sockOpen' = (sockOpen /\ sock # s)
    /\ UNCHANGED <<sendQ, recvQ, receiving, wire, sock, curServer, flags,
                   threads, submitted, ended, result, spawnFails>>

Recover(s) ==
    /\ ~up[s]
    /\ up' = [up EXCEPT ![s] = TRUE]
    /\ UNCHANGED <<client, flags, threads, submitted, ended, result, crashes,
                   spawnFails>>

-----------------------------------------------------------------------------
(* The heartbeat timer *)

\* dnbd3_net_heartbeat: outside panic, queue a keepalive and request a probe
\* on their cadences; in panic, request a probe on the panic cadence.
Heartbeat ==
    /\ timer
    /\ IF ~panic
       THEN /\ sendQ' = IF TimeoutSeconds(TIMER_INTERVAL_KEEPALIVE_PACKET)
                           /\ InFlightSpecial < MaxInFlight
                        THEN Append(sendQ, KA) ELSE sendQ
            /\ discover' = \/ discover
                           \/ hbCount > STARTUP_MODE_DURATION
                              /\ TimeoutSeconds(TIMER_INTERVAL_PROBE_NORMAL)
                           \/ hbCount <= STARTUP_MODE_DURATION
                              /\ TimeoutSeconds(TIMER_INTERVAL_PROBE_STARTUP)
       ELSE /\ discover' = (discover \/ TimeoutSeconds(TIMER_INTERVAL_PROBE_PANIC))
            /\ UNCHANGED sendQ
    /\ hbCount' = NextHbCount
    /\ UNCHANGED <<recvQ, receiving, wire, sock, sockOpen, curServer, panic,
                   panicCount, connLock, timer, threads, env>>

-----------------------------------------------------------------------------
(* The send thread, dnbd3_net_send *)

\* First run: requests already sent on an earlier socket are moved back.
SendInit ==
    /\ tSend = "init"
    /\ tSend' = "run"
    /\ sendQ' = RequeueReceived
    /\ recvQ' = <<>>
    /\ UNCHANGED <<receiving, wire, sock, sockOpen, curServer, flags, tRecv,
                   dState, toProbe, bestServer, target, turn, ready,
                   lastRequest, env>>

\* One loop iteration: take the head of the send queue (a read moves to the
\* receive queue before it is sent, a special request is dropped) and send
\* it; a failed send ends the thread through cleanup:.
SendRequest ==
    /\ tSend = "run" /\ sendQ # <<>>
    /\ LET req == Head(sendQ) IN
       /\ sendQ' = Tail(sendQ)
       /\ recvQ' = IF req \in Reqs THEN Append(recvQ, req) ELSE recvQ
       /\ IF Healthy
          THEN /\ wire' = Append(wire, req)
               /\ UNCHANGED <<tSend, sockOpen, panic, discover>>
          ELSE /\ tSend' = "exit" /\ CleanupPanic
               /\ UNCHANGED wire
    /\ UNCHANGED <<receiving, sock, curServer, panicCount, connLock, timer,
                   hbCount, tRecv, dState, toProbe, bestServer, target, turn,
                   ready, lastRequest, env>>

-----------------------------------------------------------------------------
(* The receive thread, dnbd3_net_receive *)

\* A reply header.  A broken or silent connection (recv error, orderly
\* shutdown, SOCKET_KEEPALIVE_TIMEOUT) ends the thread through cleanup:; a
\* CMD_GET_BLOCK reply takes its request off the receive queue, or ends the
\* thread when no request has its handle; CMD_GET_SERVERS and CMD_KEEPALIVE
\* replies are consumed.
ReceiveReply ==
    /\ tRecv = "run" /\ receiving = NoReq
    /\ \/ /\ ~Healthy
          /\ tRecv' = "exit" /\ CleanupPanic
          /\ UNCHANGED <<recvQ, receiving, wire>>
       \/ /\ Healthy /\ wire # <<>>
          /\ wire' = Tail(wire)
          /\ LET rep == Head(wire) IN
             IF rep \in Reqs
             THEN IF Contains(recvQ, rep)
                  THEN /\ recvQ' = RemoveFirst(recvQ, rep)
                       /\ receiving' = rep
                       /\ UNCHANGED <<tRecv, sockOpen, panic, discover>>
                  ELSE /\ tRecv' = "exit" /\ CleanupPanic
                       /\ UNCHANGED <<recvQ, receiving>>
             ELSE UNCHANGED <<recvQ, receiving, tRecv, sockOpen, panic, discover>>
    /\ UNCHANGED <<sendQ, sock, curServer, panicCount, connLock, timer, hbCount,
                   tSend, dState, toProbe, bestServer, target, turn, ready,
                   lastRequest, env>>

\* The payload of a CMD_GET_BLOCK reply: the request is ended with success,
\* or, when the connection breaks, put back at the head of the send queue.
ReceivePayload ==
    /\ tRecv = "run" /\ receiving # NoReq
    /\ receiving' = NoReq
    /\ IF Healthy
       THEN /\ ended' = [ended EXCEPT ![receiving] = @ + 1]
            /\ result' = [result EXCEPT ![receiving] = "ok"]
            /\ UNCHANGED <<sendQ, tRecv, sockOpen, panic, discover>>
       ELSE /\ sendQ' = Cons(receiving, sendQ)
            /\ tRecv' = "exit" /\ CleanupPanic
            /\ UNCHANGED <<ended, result>>
    /\ UNCHANGED <<recvQ, wire, sock, curServer, panicCount, connLock, timer,
                   hbCount, tSend, dState, toProbe, bestServer, target, turn,
                   ready, lastRequest, up, submitted, crashes, spawnFails>>

-----------------------------------------------------------------------------
(* dnbd3_net_disconnect followed by dnbd3_net_connect with better_sock *)

\* Mutant: a receive thread stopped in the middle of a payload drops its
\* request instead of requeueing it.
DisconnectQueueDropped == sendQ

\* dnbd3_net_disconnect: the socket is shut down and the timer deleted, the
\* three threads are stopped; a receive thread stopped in the middle of a
\* payload puts its request back at the head of the send queue.  The result
\* is the send queue it leaves.
DisconnectQueue ==
    IF receiving # NoReq THEN Cons(receiving, sendQ) ELSE sendQ

\* Mutant: the connect path does not start the heartbeat timer.
ConnectOkNoTimer(to, sq) ==
    /\ sendQ' = IF Cardinality({i \in DOMAIN sq : sq[i] \in Special}) < MaxInFlight
                THEN Cons(GS, sq) ELSE sq
    /\ sock' = to /\ sockOpen' = TRUE /\ curServer' = to
    /\ panic' = FALSE /\ panicCount' = 0
    /\ timer' = FALSE /\ hbCount' = 0
    /\ tSend' = "init" /\ tRecv' = "run" /\ dState' = "wait"
    /\ UNCHANGED <<recvQ, spawnFails>>

\* dnbd3_net_connect succeeding with better_sock: dev->sock is the server's
\* probe socket, the three threads are spawned, panic ends, CMD_GET_SERVERS
\* is queued at the head of the send queue and the timer is started.
ConnectOk(to, sq) ==
    /\ sendQ' = IF Cardinality({i \in DOMAIN sq : sq[i] \in Special}) < MaxInFlight
                THEN Cons(GS, sq) ELSE sq
    /\ sock' = to /\ sockOpen' = TRUE /\ curServer' = to
    /\ panic' = FALSE /\ panicCount' = 0
    /\ timer' = TRUE /\ hbCount' = 0
    /\ tSend' = "init" /\ tRecv' = "run" /\ dState' = "wait"
    /\ UNCHANGED <<recvQ, spawnFails>>

\* dnbd3_net_connect failing to spawn a thread: the error path stops the
\* threads already spawned (the send thread may have taken its first step),
\* releases the socket and clears cur_server; panic stays as it was.
ConnectFail(sq, panicBefore) ==
    /\ spawnFails < MaxSpawnFailures
    /\ spawnFails' = spawnFails + 1
    /\ \E sendRan \in BOOLEAN :
          /\ sendQ' = IF sendRan THEN Reverse(recvQ) \o sq ELSE sq
          /\ recvQ' = IF sendRan THEN <<>> ELSE recvQ
    /\ sock' = NoServer /\ sockOpen' = FALSE /\ curServer' = NoServer
    /\ panic' = panicBefore /\ timer' = FALSE
    /\ tSend' = "none" /\ tRecv' = "none" /\ dState' = "none"
    /\ UNCHANGED <<panicCount, hbCount>>

\* Mutant: switching to the server already connected keeps the current
\* socket, and with it the replies still owed on it.
HandoverReuseSocket(to, panicBefore) ==
    /\ receiving' = NoReq /\ wire' = IF to = sock THEN wire ELSE <<>>
    /\ discover' = FALSE /\ connLock' = FALSE
    /\ toProbe' = {} /\ bestServer' = NoServer /\ target' = NoServer
    /\ turn' = 0 /\ ready' = FALSE /\ lastRequest' = NoReq
    /\ \/ ConnectOk(to, DisconnectQueue)
       \/ ConnectFail(DisconnectQueue, panicBefore)
    /\ UNCHANGED <<up, submitted, ended, result, crashes>>

\* The discover thread, holding connection_lock, disconnects and connects
\* again to the server `to' whose probe socket it kept open, then drops the
\* lock and returns.
Handover(to, panicBefore) ==
    /\ receiving' = NoReq /\ wire' = <<>>
    /\ discover' = FALSE /\ connLock' = FALSE
    /\ toProbe' = {} /\ bestServer' = NoServer /\ target' = NoServer
    /\ turn' = 0 /\ ready' = FALSE /\ lastRequest' = NoReq
    /\ \/ ConnectOk(to, DisconnectQueue)
       \/ ConnectFail(DisconnectQueue, panicBefore)
    /\ UNCHANGED <<up, submitted, ended, result, crashes>>

-----------------------------------------------------------------------------
(* The discover thread, dnbd3_net_discover *)

\* Woken with dev->discover set: start a probe cycle over the alt servers.
DiscoverWake ==
    /\ dState = "wait" /\ discover
    /\ discover' = FALSE /\ dState' = "probe"
    /\ toProbe' = Servers /\ bestServer' = NoServer
    /\ UNCHANGED <<client, panic, panicCount, connLock, timer, hbCount, tSend,
                   tRecv, target, turn, ready, lastRequest, env>>

\* The RTT of server s was measured; the first answer is the best so far and
\* a later one replaces it when its RTT is lower.
MeasureRtt(s) ==
    \E better \in BOOLEAN :
        bestServer' = IF bestServer = NoServer \/ better THEN s ELSE bestServer

\* Probe one server: connect and handshake.  A failure only counts against
\* the server.  In panic the first server that answers is taken at once,
\* after spinning on connection_lock; otherwise its RTT is measured.
DiscoverProbe(s) ==
    /\ dState = "probe" /\ s \in toProbe
    /\ toProbe' = toProbe \ {s}
    /\ \/ /\ ~up[s]
          /\ UNCHANGED <<connLock, dState, bestServer, target>>
       \/ /\ up[s] /\ panic /\ ~connLock
          /\ connLock' = TRUE /\ dState' = "lockP" /\ target' = s
          /\ UNCHANGED bestServer
       \/ /\ up[s] /\ ~panic
          /\ MeasureRtt(s)
          /\ UNCHANGED <<connLock, dState, target>>
    /\ UNCHANGED <<client, panic, panicCount, discover, timer, hbCount, tSend,
                   tRecv, turn, ready, lastRequest, env>>

\* Panic take-over with connection_lock held: re-check panic, then hand over
\* to the server that answered; if panic ended meanwhile, drop the lock and
\* go on measuring it.
DiscoverTakeover ==
    /\ dState = "lockP"
    /\ IF panic
       THEN Handover(target, FALSE)
       ELSE /\ connLock' = FALSE /\ dState' = "probe"
            /\ MeasureRtt(target)
            /\ UNCHANGED <<client, panic, panicCount, discover, timer, hbCount,
                           tSend, tRecv, toProbe, target, turn, ready,
                           lastRequest, env>>

\* Mutant: panic_count is incremented without saturating.
NextPanicCountUnsaturated ==
    IF panic THEN panicCount + 1 ELSE panicCount

\* A probe cycle in panic counts, saturating at 255.
NextPanicCount ==
    IF panic /\ panicCount < PANIC_COUNT_MAX THEN panicCount + 1 ELSE panicCount

\* After the last server of the cycle: in panic count the cycle and, on the
\* cycle after PROBE_COUNT_TIMEOUT, fail every queued request.  With a best
\* server, decide whether to switch: it is faster by the RTT rule, or the
\* head of the send queue is the one seen at the previous decision (a hung
\* request).  A switch needs connection_lock free; otherwise the kept probe
\* socket is closed and the RTT window index advances.
DiscoverDecide ==
    /\ dState = "probe" /\ toProbe = {}
    /\ LET pc == NextPanicCount
           failing == panic /\ PROBE_COUNT_TIMEOUT > 0 /\ pc = PROBE_COUNT_TIMEOUT + 1
       IN
       /\ panicCount' = pc
       /\ IF failing THEN FailAll(sendQ, recvQ)
                     ELSE UNCHANGED <<sendQ, recvQ, ended, result>>
       /\ IF bestServer = NoServer
          THEN /\ dState' = "wait"
               /\ UNCHANGED <<connLock, bestServer, target, turn, ready, lastRequest>>
          ELSE \E faster, advance \in BOOLEAN :
               LET rttChange == ready /\ bestServer # curServer /\ faster
                   hungCheck == ready /\ ~rttChange
                   head == IF sendQ' = <<>> THEN NoReq ELSE Head(sendQ')
                   doChange == rttChange \/ (hungCheck /\ head # NoReq /\ head = lastRequest)
               IN
               /\ lastRequest' = IF hungCheck THEN head ELSE lastRequest
               /\ IF doChange /\ ~connLock
                  THEN /\ connLock' = TRUE /\ dState' = "lockS"
                       /\ target' = bestServer
                       /\ UNCHANGED <<bestServer, turn, ready>>
                  ELSE /\ bestServer' = NoServer /\ dState' = "wait"
                       /\ turn' = IF ~ready \/ advance THEN (turn + 1) % 4 ELSE turn
                       /\ ready' = (ready \/ turn' = 2)
                       /\ UNCHANGED <<connLock, target>>
    /\ UNCHANGED <<receiving, wire, sock, sockOpen, curServer, panic, discover,
                   timer, hbCount, tSend, tRecv, toProbe, up, submitted,
                   crashes, spawnFails>>

\* Switch with connection_lock held: hand over to the best server.
DiscoverSwitch ==
    /\ dState = "lockS"
    /\ Handover(target, panic)

-----------------------------------------------------------------------------

Init ==
    \E s \in Servers :   \* the state dnbd3_net_connect leaves behind
        /\ sendQ = <<GS>> /\ recvQ = <<>> /\ receiving = NoReq /\ wire = <<>>
        /\ sock = s /\ sockOpen = TRUE /\ curServer = s
        /\ panic = FALSE /\ panicCount = 0 /\ discover = FALSE
        /\ connLock = FALSE /\ timer = TRUE /\ hbCount = 0
        /\ tSend = "init" /\ tRecv = "run" /\ dState = "wait"
        /\ toProbe = {} /\ bestServer = NoServer /\ target = NoServer
        /\ turn = 0 /\ ready = FALSE /\ lastRequest = NoReq
        /\ up = [x \in Servers |-> TRUE]
        /\ submitted = {} /\ ended = [r \in Reqs |-> 0]
        /\ result = [r \in Reqs |-> "none"]
        /\ crashes = 0 /\ spawnFails = 0

SendThread == SendInit \/ SendRequest
ReceiveThread == ReceiveReply \/ ReceivePayload
DiscoverThread ==
    DiscoverWake \/ (\E s \in Servers : DiscoverProbe(s))
    \/ DiscoverTakeover \/ DiscoverDecide \/ DiscoverSwitch

Next ==
    \/ SendThread \/ ReceiveThread \/ DiscoverThread \/ Heartbeat
    \/ \E r \in Reqs : Submit(r)
    \/ \E s \in Servers : Crash(s) \/ Recover(s)

\* The kernel threads run at nice -20 and are woken whenever their wait
\* condition holds, so each gets scheduled when it keeps being able to run;
\* the timer fires every second; a failed server eventually answers again.
Fairness ==
    /\ SF_vars(SendThread) /\ SF_vars(ReceiveThread)
    /\ WF_vars(DiscoverThread) /\ WF_vars(Heartbeat)
    /\ \A s \in Servers : WF_vars(Recover(s))

Spec == Init /\ [][Next]_vars /\ Fairness

\* Timing: a heartbeat comes once a second, while the send and receive
\* threads (nice -20) take microseconds for a step on a local network, so
\* the timer fires only once they have no step left to take.  Under this
\* assumption a probe cycle, and so a switch, cannot overtake a request that
\* a healthy connection has answered.
WorkersIdle == ~ENABLED (SendThread \/ ReceiveThread)

TimelyNext == (Heartbeat /\ WorkersIdle) \/ (Next /\ ~Heartbeat)

TimelySpec ==
    /\ Init /\ [][TimelyNext]_vars
    /\ WF_vars(SendThread) /\ WF_vars(ReceiveThread)
    /\ WF_vars(DiscoverThread) /\ WF_vars(Heartbeat /\ WorkersIdle)
    /\ \A s \in Servers : WF_vars(Recover(s))

-----------------------------------------------------------------------------
(* Properties *)

\* How often request r is held on the paths of net.c.
Places(r) ==
    Cardinality({i \in DOMAIN sendQ : sendQ[i] = r})
    + Cardinality({i \in DOMAIN recvQ : recvQ[i] = r})
    + (IF receiving = r THEN 1 ELSE 0)

\* Every submitted block request is, exactly once, either still held by the
\* client (send queue, receive queue, or the receive thread reading its
\* payload) or ended towards the block layer; it is never lost by the
\* requeueing in dnbd3_net_send, dnbd3_net_receive's error path, a handover
\* or dnbd3_blk_fail_all_requests, and never ended twice.
RequestConservation ==
    \A r \in Reqs :
        IF r \in submitted
        THEN \/ ended[r] = 0 /\ Places(r) = 1
             \/ ended[r] = 1 /\ Places(r) = 0
        ELSE ended[r] = 0 /\ Places(r) = 0

\* On a working connection every CMD_GET_BLOCK reply the server owes is for a
\* request on request_queue_receive, at most one reply per request, so the
\* receive thread never tears a healthy connection down for an "unrequested
\* handle".
ReplyMatchesRequest ==
    Healthy =>
        \A i \in DOMAIN wire : wire[i] \in Reqs =>
            /\ Contains(recvQ, wire[i])
            /\ \A j \in DOMAIN wire : j # i => wire[j] # wire[i]

\* Whenever no (dis)connect holds connection_lock, the device still has a
\* discover thread and a heartbeat timer, so a lost server is noticed and
\* another one is probed: the device can recover without the user.
DeviceRecoverable ==
    ~connLock => dState # "none" /\ timer
====
