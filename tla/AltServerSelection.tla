------------------------- MODULE AltServerSelection -------------------------
(***************************************************************************)
(* The alt-server selection of the dnbd3 kernel client: one probe cycle of *)
(* dnbd3_net_discover (src/kernel/net.c) after another, over the table     *)
(* dev->alt_servers with its rolling RTT windows, failure counters and     *)
(* best_count, deciding whether to move the device to a faster server.     *)
(*                                                                         *)
(* KernelClient models the threads and queues around this loop and leaves  *)
(* the outcome of the RTT comparison free; here the arithmetic is kept and *)
(* the other threads are the environment: the receive thread applying a    *)
(* CMD_GET_SERVERS list (dnbd3_add_server / dnbd3_rem_server), the send    *)
(* and receive threads entering panic, and the heartbeat timer setting     *)
(* dev->discover.  Hosts are model values; RTT samples are microseconds.   *)
(* The low bits of the clock value `start`, which the code uses as coin    *)
(* flips, are kept as the class of start & 15 they fall in.               *)
(***************************************************************************)
EXTENDS Integers, FiniteSets

CONSTANTS
    Hosts,              \* alt server addresses
    NoHost,             \* ss_family == 0: an empty slot, best_server unset
    NUMBER_SERVERS,     \* size of dev->alt_servers
    Samples,            \* RTTs a successful test-block request may measure
    RTT_UNREACHABLE,    \* the window entry of a failed probe
    RTT_THRESHOLD_FACTOR(_),
    STARTUP_MODE_DURATION,
    PANIC_COUNT_MAX,    \* panic_count saturates here (255 in the code)
    PROBE_SUBSET,       \* isize outside start-up and panic (3 in the code)
    FAIL_SKIP,          \* failures beyond which a server is skipped (50)
    BEST_COUNT_CAP,     \* best_count is raised only below this (148)
    Reqs, NoReq,        \* block requests at the head of the send queue
    Reliable,           \* hosts that always answer a probe
    MaxPanics,          \* how often the connection may be lost
    MaxListUpdates,     \* how many CMD_GET_SERVERS entries arrive
    MaxCycles,          \* how many probe cycles start outside panic
    Replies(_),         \* CMD_SELECT_IMAGE replies host h may send
    NoName,             \* a reply without an image name (NULL)
    Request,            \* dev->imgname and dev->rid given to the ioctl
    MIN_SUPPORTED_SERVER,
    DNBD3_BLOCK_SIZE

ASSUME /\ NoHost \notin Hosts /\ NoReq \notin Reqs /\ Reliable \subseteq Hosts
       /\ NUMBER_SERVERS \in Nat \ {0} /\ PROBE_SUBSET \in Nat
       /\ \A s \in Samples : s \in Nat /\ s < RTT_UNREACHABLE

Slots == 0..NUMBER_SERVERS-1
Turns == 0..3                       \* rtts[4], turn = (turn + 1) % 4
BestRttInit == 268435455            \* best_rtt = 0xFFFFFFFul
NoRtt == -1                         \* rtt before its first assignment

\* The classes of start & 15 the code tells apart: 0 (every test false),
\* 8 (only & 15 non-zero), 4 (& 7 and & 15 non-zero), 1 (all non-zero).
StartClasses == {0, 1, 4, 8}
Low3(st) == st \in {1}              \* (ktime_to_us(start) & 3) != 0
Low7(st) == st \in {1, 4}           \* (ktime_to_us(start) & 7) != 0
Low15(st) == st \in {1, 4, 8}       \* (ktime_to_us(start) & 15) != 0

\* An uninitialized unsigned long: one value below every best_rtt and one
\* that no comparison with best_rtt prefers.
GarbageRtt == {0, BestRttInit}

\* A reply to CMD_SELECT_IMAGE: protocol version, image name, revision id
\* and file size, as the serializer reads them.
Reply == [version: Nat, name: STRING \cup {NoName}, rid: Nat, size: Nat]

ASSUME \A h \in Hosts : Replies(h) \subseteq Reply

VARIABLES
    alt,            \* dev->alt_servers: host, rtts, failures, best_count
    curHost,        \* dev->cur_server.host
    curRtt,         \* dev->cur_server.rtt
    panic, panicCount, discover,
    hb,             \* dev->heartbeat_count, saturated at STARTUP_MODE_DURATION
    pc,             \* where the discover thread is in its loop
    order,          \* check_order
    j, isize,       \* loop index over check_order, probe budget
    slot, hostCompare,              \* i, host_compare
    rtt, bestRtt, bestServer,
    turn, ready, lastReq, start,
    rttFrom,        \* the host whose window the value of rtt was taken from
    bestFrom,       \* the host whose window gave best_rtt
    panics, listUpdates, cycles,    \* budgets
    image           \* dev->imgname, dev->rid, dev->reported_size

thread == <<pc, order, j, isize, slot, hostCompare, rtt, bestRtt,
            bestServer, turn, ready, lastReq, start, rttFrom, bestFrom>>
device == <<alt, curHost, curRtt, panic, panicCount, discover, hb, image>>
vars == <<thread, device, panics, listUpdates, cycles>>

Entry == [host: Hosts \cup {NoHost}, rtts: [Turns -> Nat],
          failures: 0..FAIL_SKIP+1, best_count: Nat]
EmptyEntry == [host |-> NoHost, rtts |-> [t \in Turns |-> 0],
               failures |-> 0, best_count |-> 0]

-----------------------------------------------------------------------------
(* Arithmetic of the selection *)

\* rtt = (rtts[0] + rtts[1] + rtts[2] + rtts[3]) / 4
WindowMean(w) == (w[0] + w[1] + w[2] + w[3]) \div 4

\* Mutant: best_count is still raised at the cap.
BestCountWinAtCap(bc, cap) == IF bc <= cap THEN bc + 3 ELSE bc

\* A probe that won the cycle: best_count += 3 while below the cap.
BestCountWin(bc, cap) == IF bc < cap THEN bc + 3 ELSE bc
\* A successful probe: best_count -= 2 if above 1.
BestCountLoss(bc) == IF bc > 1 THEN bc - 2 ELSE bc
\* A failed probe: best_count -= 3 if above 2.
BestCountFail(bc) == IF bc > 2 THEN bc - 3 ELSE bc

\* rtt_threshold = 1500 - (alt->best_count * 10)
RttThreshold(bc) == 1500 - bc * 10

\* ++failures, counted up to the first value the skip test tells apart.
FailuresAfter(f) == IF f > FAIL_SKIP THEN f ELSE f + 1

\* The slots holding host h (get_existing_alt_from_addr, is_same_server).
SlotsOf(h) == {s \in Slots : alt[s].host = h}

\* The swap loop over check_order: position k is swapped with js[k].
RECURSIVE Shuffle(_, _, _)
Shuffle(o, k, js) ==
    IF k \notin DOMAIN js THEN o
    ELSE Shuffle([o EXCEPT ![k] = o[js[k]], ![js[k]] = o[k]], k + 1, js)

-----------------------------------------------------------------------------
(* Connecting to a server *)

\* dnbd3_connect: create the socket, set its timeouts and connect, retrying
\* on EINTR; TRUE when it returns a socket.  Only the outcome is kept: a
\* host of Reliable always connects, any other may not.
dnbd3_connect(h) == IF h \in Reliable THEN {TRUE} ELSE BOOLEAN

\* dnbd3_execute_handshake for the device d = [name, rid, size]: the reply
\* o is accepted if the server speaks a supported version and names an
\* image and a revision.  On the initial connect (reported_size 0) the name
\* must be the requested one if a revision was requested, and the image at
\* least one block; on any later connect the revision and the size must be
\* the device's.  Sending and receiving failures are dnbd3_connect's.
HandshakeOk(o, d) ==
    /\ o.version >= MIN_SUPPORTED_SERVER /\ o.name # NoName /\ o.rid # 0
    /\ d.size = 0 /\ d.rid # 0 => o.name = d.name
    /\ IF d.size = 0 THEN o.size >= DNBD3_BLOCK_SIZE
       ELSE o.rid = d.rid /\ o.size = d.size

\* The initial connect stores the image name, revision and size served.
AdoptImage(o) == [name |-> o.name, rid |-> o.rid, size |-> o.size]

\* dnbd3_request_test_block: request RTT_BLOCK_SIZE bytes at offset 0 and
\* read the reply; TRUE when the whole block arrived.
dnbd3_request_test_block(h) == IF h \in Reliable THEN {TRUE} ELSE BOOLEAN

-----------------------------------------------------------------------------
(* The discover thread *)

\* The locals of a discover thread as dnbd3_net_connect spawns it.
FreshThread ==
    /\ pc' = "wait" /\ order' = [k \in Slots |-> k]
    /\ j' = 0 /\ isize' = 0 /\ slot' = 0 /\ hostCompare' = NoHost
    /\ rtt' = NoRtt /\ bestRtt' = 0 /\ bestServer' = NoHost
    /\ turn' = 0 /\ ready' = FALSE /\ lastReq' = NoReq /\ start' = 0
    /\ rttFrom' = NoHost /\ bestFrom' = NoHost

\* Mutant: the probe budget ignores panic mode.
WakeIgnoresPanic ==
    /\ pc = "wait" /\ discover
    /\ panic \/ cycles < MaxCycles
    /\ cycles' = IF panic THEN cycles ELSE cycles + 1
    /\ LET n == IF hb < STARTUP_MODE_DURATION
                THEN NUMBER_SERVERS ELSE PROBE_SUBSET
       IN /\ isize' = n
          /\ IF NUMBER_SERVERS > n
             THEN \E js \in [0..n-1 -> Slots] : order' = Shuffle(order, 0, js)
             ELSE UNCHANGED order
    /\ discover' = FALSE
    /\ bestServer' = NoHost /\ bestRtt' = BestRttInit /\ bestFrom' = NoHost
    /\ j' = 0 /\ pc' = "lookup"
    /\ UNCHANGED <<alt, curHost, curRtt, panic, panicCount, hb, image,
                   slot, hostCompare, rtt, turn, ready, lastReq, start,
                   rttFrom, panics, listUpdates>>

\* Woken with dev->discover set: clear it, reset the best server, choose
\* how many servers to test and, outside start-up and panic, shuffle the
\* check order with the clock (the first j read is uninitialized, so the
\* swap partners are any slots).
Wake ==
    /\ pc = "wait" /\ discover
    /\ panic \/ cycles < MaxCycles
    /\ cycles' = IF panic THEN cycles ELSE cycles + 1
    /\ LET n == IF hb < STARTUP_MODE_DURATION \/ panic
                THEN NUMBER_SERVERS ELSE PROBE_SUBSET
       IN /\ isize' = n
          /\ IF NUMBER_SERVERS > n
             THEN \E js \in [0..n-1 -> Slots] : order' = Shuffle(order, 0, js)
             ELSE UNCHANGED order
    /\ discover' = FALSE
    /\ bestServer' = NoHost /\ bestRtt' = BestRttInit /\ bestFrom' = NoHost
    /\ j' = 0 /\ pc' = "lookup"
    /\ UNCHANGED <<alt, curHost, curRtt, panic, panicCount, hb, image,
                   slot, hostCompare, rtt, turn, ready, lastReq, start,
                   rttFrom, panics, listUpdates>>

\* Head of the loop over check_order: copy host and failures of slot i
\* under alt_servers_lock, then skip an empty slot, a server with too many
\* failures (outside panic, unless the clock says otherwise), and any server
\* but the current one once isize servers were tested.
Lookup ==
    /\ pc = "lookup"
    /\ IF j = NUMBER_SERVERS
       THEN /\ pc' = "decide"
            /\ UNCHANGED <<j, isize, slot, hostCompare>>
       ELSE LET i == order[j]
                h == alt[i].host
                f == alt[i].failures
            IN /\ slot' = i /\ hostCompare' = h
               /\ CASE h = NoHost ->
                         j' = j + 1 /\ UNCHANGED <<pc, isize>>
                    [] ~panic /\ f > FAIL_SKIP /\ Low7(start) ->
                         j' = j + 1 /\ UNCHANGED <<pc, isize>>
                    [] isize <= 0 /\ h # curHost ->
                         j' = j + 1 /\ isize' = isize - 1 /\ UNCHANGED pc
                    [] OTHER ->
                         isize' = isize - 1 /\ pc' = "probe" /\ UNCHANGED j
    /\ UNCHANGED <<device, order, rtt, bestRtt, bestServer, turn, ready,
                   lastReq, start, rttFrom, bestFrom, panics,
                   listUpdates, cycles>>

\* The error: path of the loop: under the lock, if slot i still holds the
\* server, count the failure, enter RTT_UNREACHABLE in the window and lower
\* best_count; if it is the current server its RTT becomes unreachable too.
ErrorPath ==
    /\ alt' = IF alt[slot].host = hostCompare
              THEN [alt EXCEPT ![slot].failures = FailuresAfter(@),
                               ![slot].rtts[turn] = RTT_UNREACHABLE,
                               ![slot].best_count = BestCountFail(@)]
              ELSE alt
    /\ curRtt' = IF curHost = hostCompare THEN RTT_UNREACHABLE ELSE curRtt
    /\ j' = j + 1 /\ pc' = "lookup"

\* The RTT of a successful test-block request was s.  Under the lock, if
\* slot i still holds the server, s enters the window at turn, rtt becomes
\* the window's mean, failures are cleared and best_count lowered; if the
\* slot was emptied or reused meanwhile, rtt keeps whatever it held before.
\* Then the server becomes the best of the cycle if rtt is below best_rtt,
\* and the current server's RTT is updated.
Record(s) ==
    LET own == alt[slot].host = hostCompare
        w == [alt[slot].rtts EXCEPT ![turn] = s]
        values == IF own THEN {WindowMean(w)}
                  ELSE IF rtt = NoRtt THEN GarbageRtt ELSE {rtt}
    IN /\ alt' = IF own
                 THEN [alt EXCEPT ![slot].rtts = w, ![slot].failures = 0,
                                  ![slot].best_count = BestCountLoss(@)]
                 ELSE alt
       /\ rttFrom' = IF own THEN hostCompare ELSE rttFrom
       /\ \E r \in values :
            /\ rtt' = r
            /\ IF bestRtt > r
               THEN /\ bestRtt' = r /\ bestServer' = hostCompare
                    /\ bestFrom' = rttFrom'
               ELSE UNCHANGED <<bestRtt, bestServer, bestFrom>>
            /\ curRtt' = IF curHost = hostCompare THEN r ELSE curRtt
       /\ j' = j + 1 /\ pc' = "lookup"

\* Panic take-over: the first server that completes the handshake in panic
\* becomes the current server.  With connection_lock taken the thread
\* clears panic, disconnects and connects through the probe socket, which
\* starts a new discover thread, and returns.  dnbd3_net_connect clears
\* panic_count and heartbeat_count; dev->cur_server.rtt is left as it was.
Takeover ==
    /\ curHost' = hostCompare
    /\ panic' = FALSE /\ panicCount' = 0 /\ hb' = 0 /\ discover' = FALSE
    /\ UNCHANGED <<alt, curRtt, image>>

\* Probe the server of slot i: connect and run the handshake, whose reply
\* is one host h may send; then, in panic, take the server over, and
\* otherwise take the clock as start and time a test-block request.  A
\* failure at any stage goes to error:.
Probe ==
    LET h == hostCompare
    IN /\ pc = "probe"
       /\ \/ /\ \E c \in dnbd3_connect(h), o \in Replies(h) : ~c \/ ~HandshakeOk(o, image)
             /\ ErrorPath
             /\ UNCHANGED <<curHost, panic, panicCount, discover, hb, image,
                            order, isize, slot, hostCompare, rtt, bestRtt, bestServer,
                            turn, ready, lastReq, start, rttFrom, bestFrom>>
          \/ \E o \in Replies(h) :
               /\ TRUE \in dnbd3_connect(h) /\ HandshakeOk(o, image)
               /\ \/ panic /\ Takeover /\ FreshThread
                  \/ /\ ~panic
                     /\ start' \in StartClasses
                     /\ \E answered \in dnbd3_request_test_block(h) :
                          IF answered THEN \E s \in Samples : Record(s)
                          ELSE /\ ErrorPath
                               /\ UNCHANGED <<rtt, bestRtt, bestServer, rttFrom,
                                              bestFrom>>
                     /\ UNCHANGED <<curHost, panic, panicCount, discover, hb, image,
                                    order, isize, slot, hostCompare, turn,
                                    ready, lastReq>>
       /\ UNCHANGED <<panics, listUpdates, cycles>>

\* Mutant: panic_count is raised without the saturation test.
PanicCountUnbounded(cnt) == cnt + 1

\* if (dev->panic_count < 255) dev->panic_count++
PanicCountAfter(cnt) == IF cnt < PANIC_COUNT_MAX THEN cnt + 1 ELSE cnt

\* turn = (turn + 1) % 4
NextTurn(t) == (t + 1) % 4

\* The end of a cycle.  In panic panic_count is raised (saturating).  With
\* no best server nothing else happens.  Otherwise the best server's
\* best_count is raised and the switching threshold derived from it (1500
\* when it is no longer in the table), and the device switches if it is
\* ready, the best server is another one, the clock allows and
\* RTT_THRESHOLD_FACTOR(cur_server.rtt) > best_rtt + rtt_threshold; failing
\* that, if it is ready, a request at the head of the send queue that was
\* already there at the previous check is taken as hung and forces a
\* switch.  A switch hands the probe socket to dnbd3_net_connect, which
\* starts a new discover thread.  Without a switch the window index turn
\* advances (unless the clock says otherwise once ready) and ready is set
\* when it reaches 2.
Decide ==
    /\ pc = "decide"
    /\ LET count == IF panic THEN PanicCountAfter(panicCount) ELSE panicCount
       IN IF bestServer = NoHost
          THEN /\ panicCount' = count /\ pc' = "wait"
               /\ UNCHANGED <<alt, curHost, curRtt, panic, discover, hb, image,
                              order, j, isize, slot, hostCompare, rtt,
                              bestRtt, bestServer, turn, ready, lastReq, start,
                              rttFrom, bestFrom>>
          ELSE
          LET as == SlotsOf(bestServer)
              a == CHOOSE s \in as : \A t \in as : s <= t
              bc == IF as = {} THEN 0
                    ELSE BestCountWin(alt[a].best_count, BEST_COUNT_CAP)
              threshold == IF as = {} THEN 1500 ELSE RttThreshold(bc)
              rttChange == /\ ready /\ bestServer # curHost /\ Low3(start)
                           /\ RTT_THRESHOLD_FACTOR(curRtt) > bestRtt + threshold
          IN
          /\ alt' = IF as = {} THEN alt ELSE [alt EXCEPT ![a].best_count = bc]
          /\ \E head \in Reqs \cup {NoReq} :
               LET hungCheck == ready /\ ~rttChange
                   hung == hungCheck /\ head # NoReq /\ head = lastReq
               IN IF rttChange \/ hung
                  THEN /\ curHost' = bestServer /\ curRtt' = bestRtt
                       /\ UNCHANGED image
                       /\ panic' = FALSE /\ panicCount' = 0 /\ hb' = 0
                       /\ discover' = FALSE
                       /\ FreshThread
                  ELSE /\ panicCount' = count
                       /\ lastReq' = IF hungCheck THEN head ELSE lastReq
                       /\ turn' = IF ~ready \/ Low15(start) THEN NextTurn(turn)
                                  ELSE turn
                       /\ ready' = (ready \/ turn' = 2)
                       /\ pc' = "wait"
                       /\ UNCHANGED <<curHost, curRtt, panic, discover, hb,
                                      image, order, j, isize, slot,
                                      hostCompare, rtt, bestRtt, bestServer,
                                      start, rttFrom, bestFrom>>
    /\ UNCHANGED <<panics, listUpdates, cycles>>

DiscoverStep == Wake \/ Lookup \/ Probe \/ Decide

-----------------------------------------------------------------------------
(* The environment *)

\* dnbd3_add_server: a host not in the table takes the first empty slot,
\* with an empty window.
AddServer(h) ==
    LET free == SlotsOf(NoHost)
    IN /\ SlotsOf(h) = {} /\ free # {}
       /\ alt' = [alt EXCEPT ![CHOOSE s \in free : \A t \in free : s <= t] =
                                [EmptyEntry EXCEPT !.host = h]]

\* dnbd3_rem_server: the slot of the host is emptied.
RemServer(h) ==
    /\ SlotsOf(h) # {}
    /\ alt' = [s \in Slots |-> IF alt[s].host = h THEN EmptyEntry ELSE alt[s]]

\* One entry of a CMD_GET_SERVERS reply in dnbd3_net_receive: failures == 0
\* adds the server, anything else removes it.
ServerListEntry ==
    /\ listUpdates < MaxListUpdates
    /\ \E h \in Hosts : AddServer(h) \/ RemServer(h)
    /\ listUpdates' = listUpdates + 1
    /\ UNCHANGED <<thread, curHost, curRtt, panic, panicCount, discover, hb,
                   image, panics, cycles>>

\* The cleanup: of the send or receive thread: the connection failed, the
\* device enters panic and wakes the discover thread.
ConnectionLost ==
    /\ ~panic /\ panics < MaxPanics
    /\ panic' = TRUE /\ discover' = TRUE /\ panics' = panics + 1
    /\ UNCHANGED <<thread, alt, curHost, curRtt, panicCount, hb, image,
                   listUpdates, cycles>>

\* dnbd3_net_heartbeat: ++heartbeat_count and, when the probe interval of
\* the current mode (start-up, normal or panic) is due, dev->discover = 1.
Heartbeat(due) ==
    /\ hb' = IF hb < STARTUP_MODE_DURATION THEN hb + 1 ELSE hb
    /\ discover' = (discover \/ due)
    /\ UNCHANGED <<thread, alt, curHost, curRtt, panic, panicCount, image,
                   panics, listUpdates, cycles>>

-----------------------------------------------------------------------------

\* The table and connection dnbd3_net_connect leaves behind: distinct hosts
\* with empty windows, the current server one of them, a fresh thread, and
\* the image the initial handshake with the current server stored.
ThreadInit ==
    /\ pc = "wait" /\ order = [k \in Slots |-> k]
    /\ j = 0 /\ isize = 0 /\ slot = 0 /\ hostCompare = NoHost
    /\ rtt = NoRtt /\ bestRtt = 0 /\ bestServer = NoHost
    /\ turn = 0 /\ ready = FALSE /\ lastReq = NoReq /\ start = 0
    /\ rttFrom = NoHost /\ bestFrom = NoHost

Init ==
    /\ \E hs \in [Slots -> Hosts \cup {NoHost}] :
          /\ \A s, t \in Slots : hs[s] = hs[t] /\ hs[s] # NoHost => s = t
          /\ alt = [s \in Slots |-> [EmptyEntry EXCEPT !.host = hs[s]]]
          /\ curHost \in {hs[s] : s \in Slots} \ {NoHost}
    /\ \E o \in Replies(curHost) :
          /\ HandshakeOk(o, [name |-> Request.name, rid |-> Request.rid, size |-> 0])
          /\ image = AdoptImage(o)
    /\ curRtt = 0
    /\ panic = FALSE /\ panicCount = 0 /\ discover = FALSE /\ hb = 0
    /\ ThreadInit
    /\ panics = 0 /\ listUpdates = 0 /\ cycles = 0

Next ==
    \/ DiscoverStep
    \/ ServerListEntry
    \/ ConnectionLost
    \/ \E due \in BOOLEAN : Heartbeat(due)

\* The discover kernel thread runs whenever it is not waiting, and the
\* heartbeat timer fires every second, so the probe interval of every mode
\* comes round: weak fairness of both.  Probe outcomes, list updates and
\* connection failures are the servers' and get none.
Fairness ==
    /\ WF_vars(DiscoverStep)
    /\ WF_vars(Heartbeat(TRUE))

Spec == Init /\ [][Next]_vars /\ Fairness

-----------------------------------------------------------------------------
(* Properties *)

TypeOK ==
    /\ alt \in [Slots -> Entry]
    /\ curHost \in Hosts /\ curRtt \in Nat
    /\ panic \in BOOLEAN /\ panicCount \in 0..PANIC_COUNT_MAX
    /\ discover \in BOOLEAN /\ hb \in 0..STARTUP_MODE_DURATION
    /\ pc \in {"wait", "lookup", "probe", "decide"}
    /\ order \in [Slots -> Slots] /\ j \in 0..NUMBER_SERVERS
    /\ slot \in Slots /\ hostCompare \in Hosts \cup {NoHost}
    /\ rtt \in Nat \cup {NoRtt} /\ bestRtt \in Nat
    /\ bestServer \in Hosts \cup {NoHost}
    /\ turn \in Turns /\ ready \in BOOLEAN /\ lastReq \in Reqs \cup {NoReq}
    /\ start \in StartClasses

\* The best_count values the code can produce from an added server's 0 by
\* wins, successful probes and failed probes, with the cap of net.c (148).
RECURSIVE BestCountClosure(_)
BestCountClosure(S) ==
    LET T == S \cup {BestCountWin(b, 148) : b \in S}
               \cup {BestCountLoss(b) : b \in S} \cup {BestCountFail(b) : b \in S}
    IN IF T = S THEN S ELSE BestCountClosure(T)

ReachableBestCounts == BestCountClosure({0})

(* The switching threshold 1500 - 10 * best_count that dnbd3_net_discover  *)
(* derives from a server's best_count never becomes negative: not for any  *)
(* value the updates after probes and wins can give best_count with the    *)
(* code's cap of 148 (a win at 147 still adds 3), nor for the entries of   *)
(* the table in this model.                                                *)
ThresholdNonNegative ==
    /\ \A b \in ReachableBestCounts : RttThreshold(b) >= 0
    /\ \A s \in Slots : RttThreshold(alt[s].best_count) >= 0

(* A device in panic leaves it, provided some server that answers and    *)
(* serves the device's image stays in the alt-server table: a panic cycle *)
(* of dnbd3_net_discover tests every slot, whatever the shuffled order,   *)
(* the failure counts and the probe budget, and takes over the first      *)
(* server that completes the handshake.                                   *)
Serves(h) == h \in Reliable /\ \A o \in Replies(h) : HandshakeOk(o, image)

PanicRecovers ==
    (<>[](\E s \in Slots : Serves(alt[s].host))) => [](panic => <>~panic)

(* The RTT that makes a server the best of a cycle, and against which the  *)
(* switching rule then weighs the current server, is the mean of that      *)
(* server's own window, as measured in the cycle.                          *)
BestRttMeasured == bestServer # NoHost => bestFrom = bestServer

====
