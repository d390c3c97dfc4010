# TLA+ models of dnbd3

This directory holds TLA+ specifications of the dnbd3 network block device
(repository `rafaelgieschke/dnbd3`, sources under `src/`), the TLC
configurations that check them, and `PROJECT.json`, which lists every
component, run, mutant, the source lines each definition models, the
findings and the hazards.

## The system

dnbd3 serves read-only disk images over TCP.

| Part | Source | What it does |
|---|---|---|
| Kernel client | `src/kernel/net.c` | One block device per connection. Three kernel threads (send, receive, discover) and a one-second heartbeat timer. Requests move between `request_queue_send` and `request_queue_receive`. The discover thread probes alt servers, measures RTTs and switches to a faster server by handing its probe socket over (`better_sock`). In *panic* (connection lost) it takes the first server that answers. `connection_lock` serialises (dis)connects. |
| Block-layer glue | `block.c` (not under `src/`) | `dnbd3_queue_rq` appends a read to the send queue. `dnbd3_blk_fail_all_requests` ends every queued request with an I/O error. |
| CoW store | `src/fuse/cowfile.c` | Copy-on-write overlay for the FUSE client. An L1 array of L2 blocks of metadata entries (data-file offset, a 4 KiB-granular bitfield, `timeChanged`). Writes pad partial 4 KiB frames from the origin server. Reads take each 4 KiB frame locally, as zeros, or from the origin. `setSize` truncates or extends. |
| CoW uploader | `src/fuse/cowfile.c` | A background thread uploads blocks whose `timeChanged` is older than a quiet period, with bounded parallelism and 5 retries. It clears `timeChanged` with a compare-and-swap. A final pass runs at unmount, then an optional merge request. |
| CRC32 | `src/shared/crc32.c` | Table-driven (slice-by-4, eight tables) and PCLMUL CRC-32 used for image integrity. |
| RPC / ACL | `src/server/rpc.c` | HTTP status endpoint of the server. Access is checked against CIDR rules loaded from a file. |
| IPC | `src/server/ipc.c` | Legacy local control socket. |
| Server main | `src/server/server.c` | Start-up, accept loop, signal handling, shutdown order. |
| Server data | `src/server/globals.h`, `uplink.h`, `utils.h` | Image, uplink, queue-slot and client structures. The uplink engine itself (`uplink.c`) is not under `src/`. |

How the parts interact:

- The kernel client and the FUSE client both talk the wire protocol to a server.
- The kernel client's block layer hands requests to `net.c`. The receive thread ends them.
- The CoW store reads origin data through the FUSE client's connection. The uploader reads the CoW store's metadata concurrently with the FUSE write handlers.

## Inventory

State, operations and what makes each part hard:

- **Kernel client** (`net.c`)
  - **State:** the two request lists; `sock`, `better_sock`, `cur_server`; `panic`, `panic_count`, `discover`, `connection_lock`, `heartbeat_count`; the three thread handles; the discover thread's locals (`turn`, `ready`, `last_request`, `best_server`/`best_sock`); the alt-server table (RTT window, failures, `best_count`).
  - **Operations:** `dnbd3_net_heartbeat`, `dnbd3_net_send`, `dnbd3_net_receive`, `dnbd3_net_discover`, `dnbd3_net_connect`, `dnbd3_net_disconnect`, and the socket helpers.
  - **Hard:** three threads, a timer and the block layer change the lists concurrently; connections break at any point; a switch moves in-flight requests to a new socket; the panic path and the switch path reconnect from inside the discover thread.
- **CoW store**
  - **State:** L1/L2 metadata, data-file size, `imageSize`, `originalImageSize`, each request's `workCounter` and `bytesWorkedOn`.
  - **Operations:** `cowfile_write`, `cowfile_read`, `cowfile_setSize`, `padBlockFromRemote`, `writePaddedBlock`, `readRemoteData`, `getBlock`, `createL2Block`.
  - **Hard:** concurrent FUSE handlers without per-block locks; asynchronous remote sub-requests; boundary arithmetic at 4 KiB frames, metadata blocks and `originalImageSize`.
- **CoW uploader**
  - **State:** per block `timeChanged`, `uploads`; the `uploadLoop` and `uploadLoopDone` flags; in-flight transfers with retry counts.
  - **Operations:** `uploaderLoop`, `addUpload`, `finishUpload`, `startMerge`, `cowfile_uploader`, `cowfile_close`.
  - **Hard:** the compare-and-swap against concurrent writes; retries; the final drain at unmount.
- **CRC32.** A pure function. The risk is that the sliced table form differs from the bitwise definition.
- **ACL matching** (`rpc.c`). Prefix-length arithmetic, first-match semantics, and reload while requests are checked.
- **Server main, IPC.** Mostly I/O. The shutdown order is the only protocol.

## Modules

| Module | Models | Status |
|---|---|---|
| `KernelClient` | `net.c`: lists, send, receive, discover threads, heartbeat, panic, take-over, switch, connect, disconnect | done |
| `BlockRequestService` | abstract promise to the block layer: every submitted request ends exactly once, eventually | done |
| `MCKernelClient` | instance for TLC, refinement mapping to `BlockRequestService` | done |
| `AltServerSelection` / `MCAltServerSelection` | `dnbd3_net_discover` step by step: probe order, skip tests, RTT window, `best_count`, threshold, `ready`/`turn`, switch and panic take-over, with GET_SERVERS updates, connection loss and the heartbeat | done |
| `CowStore` | CoW index, write, read, setSize, padding sub-requests | done |
| `CowUploader` | upload loop with CAS, retries, final pass, merge; with the writes that dirty blocks and unmount | done |
| `Crc32` / `MCCrc32` | table-driven `crc32()` on both byte orders, PCLMUL path as a black box, against the bitwise CRC-32 | done |
| `RpcAcl` | `addacl`/`getacl` rule construction and matching against a CIDR reference | planned |
| `UplinkQueue` | server uplink slots FREE/NEW/PENDING/PROCESSING, hop-on, failover re-issue, from the specification and `globals.h` | planned |

## KernelClient

### State and actions

Variables and what they correspond to in the code:

| Variable | Code |
|---|---|
| `sendQ`, `recvQ` | `request_queue_send`, `request_queue_receive` (sequences, head first) |
| `receiving` | the request the receive thread took off `recvQ` and is reading the payload of |
| `wire` | replies the server owes on the current socket, in TCP order |
| `sock`, `sockOpen` | `dev->sock` (the server it connects to) and whether the connection still carries data |
| `curServer` | `dev->cur_server.host` |
| `panic`, `panicCount`, `discover`, `connLock`, `timer`, `hbCount` | `dev->panic`, `panic_count`, `discover`, `connection_lock`, the armed `hb_timer`, `heartbeat_count` |
| `tSend`, `tRecv` | `thread_send`, `thread_receive`: `none` (NULL), `init` (spawned, not yet run), `run`, `exit` (returned, handle still set) |
| `dState` | the discover thread: `none`, `wait`, `probe`, or holding `connection_lock` for a take-over (`lockP`) or a switch (`lockS`) |
| `toProbe`, `bestServer`, `target`, `turn`, `ready`, `lastRequest` | the discover thread's locals |
| `up`, `submitted`, `ended`, `result` | environment: which servers answer, what the block layer submitted, and how often and how each request ended |

Actions and the code they stand for:

| Action | Code |
|---|---|
| `Heartbeat` | `dnbd3_net_heartbeat` |
| `SendInit` | the start of `dnbd3_net_send` |
| `SendRequest` | one iteration of the send loop, with its `cleanup:` |
| `ReceiveReply` | one reply header and its dispatch in `dnbd3_net_receive` |
| `ReceivePayload` | the GET_BLOCK payload and its requeue-on-error path |
| `DiscoverWake` | the top of the discover loop |
| `DiscoverProbe(s)` | one iteration of the probe loop |
| `DiscoverTakeover` | the panic branch after `connection_lock` is taken |
| `DiscoverDecide` | everything after the probe loop |
| `DiscoverSwitch` | the switch |

`Handover` is the discover thread's take-over (`net.c:218-233`) and switch (`:345-362`) under `connection_lock`: `dnbd3_net_disconnect` followed by `dnbd3_net_connect` with `better_sock`, split into `DisconnectQueue`, `ConnectOk` and `ConnectFail`. `Submit` and `FailAll` model the block-layer functions from the specification. `Crash` and `Recover` are the servers.

### Abstractions

- **Requests and sockets.** Block requests are model values. Keepalive and GET_SERVERS requests are the values `KA` and `GS`. A socket is identified by its server.
- **Socket helpers.** `dnbd3_connect`, the handshake and the RTT test block are reduced to success (the server is up) or failure. `AltServerSelection` models the handshake's checks of the server's reply.
- **The switch decision.** The RTT comparison and the clock-bit test are a free Boolean. Their arithmetic is modelled in `AltServerSelection`. The hung-request rule is kept exactly.
- **Probe order.** The shuffle is pseudo-random and reads an uninitialized `j`, so the order of probes is free.
- **Heartbeat count.** `heartbeat_count` is folded modulo `HB_PERIOD` once past start-up. Every use of it is a test modulo an interval dividing `HB_PERIOD`, or a comparison with `STARTUP_MODE_DURATION`, and the folding preserves both.
- **Memory.** A `kmalloc` of a special request fails when `MaxInFlight` special requests are queued or unanswered. This is the code's allocation-failure branch, used as the memory bound.
- **Not modelled.**
  - The contents of GET_SERVERS and LATEST_RID replies are consumed but have no effect.
  - The `fails > 50` skip and the `isize` limit have no effect with two servers.

### Runs

| Run | Config | Checks |
|---|---|---|
| `kc_safety` | `MCKernelClient_safety.cfg` | `TypeOK`, `RequestConservation`, `ReplyMatchesRequest` |
| `kc_live` | `MCKernelClient_live.cfg` | `ServiceRefinement` |
| `kc_spawnfail` | `MCKernelClient_spawnfail.cfg` | `DeviceRecoverable`; expected to be violated |

- **`kc_safety`** checks two invariants:
  - `RequestConservation`: every submitted request is held exactly once (send queue, receive queue, or being received) or has been ended exactly once.
  - `ReplyMatchesRequest`: on a working connection every GET_BLOCK reply owed is for a request on the receive queue, and no request is owed twice.

  The run covers server failures, panic take-over, switches, fail-all and one failed thread spawn. It passes with about 3.9 million distinct states.
  - **Symmetry** over servers and requests is used.
  - **Deadlock checking is off** because after a failed spawn the device really stops (see `kc_spawnfail`).
- **`kc_live`** has no spawn failure and passes.
  - It checks the refinement `ServiceRefinement` (abstract spec `BlockRequestService`, mapping `status` from `submitted`/`ended`/`result`). This includes that every submitted request is eventually ended.
  - Deadlock is checked.
- **`kc_spawnfail`** checks the invariant `DeviceRecoverable` (whenever `connection_lock` is free there is a discover thread and a running timer) and shows the finding. Without spawn failures it holds by construction, since only `ConnectOk` starts the thread and the timer, so no passing run checks it. When `kthread_create` fails in the connect done by the discover thread, the device is left with no threads and no timer. `panic` is 0 and the discover thread that called connect has returned. Nothing reconnects, so requests wait forever.

### Bounds and why they suffice

- **Servers and requests.** Two servers, so a switch and a take-over have a different target. Two requests, so order and requeueing of several requests can be observed.
- **Failures.** `MaxCrashes = 2` in `kc_safety`, so both servers can be down at once. It is 1 in `kc_live`, where one failure already forces panic, a take-over and a requeue. That is what lets panic last long enough for the fail-all cycle, with `PROBE_COUNT_TIMEOUT = 1`. `PANIC_COUNT_MAX = 3` keeps the saturation reachable above the fail-all value.
- **Special requests.** `MaxInFlight = 2` (1 in the liveness run).
- **Timer intervals.** All 1, with a start-up of 1, so every heartbeat can queue a keepalive and request a probe.

Coverage (`-coverage`) shows that every action and every disjunct fires in `kc_safety`. Three branches never fire:
- the unknown-handle branch of `ReceiveReply`, which is what `ReplyMatchesRequest` proves unreachable;
- the "panic already over" branch of `DiscoverTakeover`, unreachable because only the discover thread clears `panic`;
- the `bestServer = NoServer` branch of `DiscoverDecide` fires only with both servers down.

### Fairness

- **`Spec`.**
  - Strong fairness for the send and receive threads. They run at nice −20 and are woken whenever their wait condition holds.
  - Weak fairness for the discover thread and the timer.
  - Weak fairness for `Recover` of each server. This is an assumption about the environment: a failed server eventually answers again.
- **`TimelySpec`, used by `kc_live`.** It adds one timing assumption, stated in the module: a heartbeat fires only once the send and receive threads have no step left to take. They are nice −20 threads taking microseconds per step, against one second per tick.
  - Without it, TLC finds a behaviour where the discover thread switches again and again (hung-request rule). Each switch needs two heartbeat seconds, yet the send thread is never scheduled in between. Real scheduling does not produce this.
  - Symmetry is not used with liveness.

### Mutants

Each property is shown to fail under a plausible bug of the code it is about. See `mutants` in `PROJECT.json`.

| Bug | Property that fails |
|---|---|
| `panic_count` not saturated | `TypeOK` |
| the send thread forgets already-sent requests | `RequestConservation` |
| a switch to the same server reuses the old socket | `ReplyMatchesRequest` |
| disconnect drops the request being received | `ServiceRefinement` |

## AltServerSelection

`KernelClient` treats the discover thread's RTT comparison as a free choice. `AltServerSelection` keeps the arithmetic instead. It models the thread step by step and makes the rest of the device its environment.

### State and actions

| Variable | Code |
|---|---|
| `alt` | `dev->alt_servers[]`: `host`, `rtts[4]`, `failures`, `best_count` |
| `curHost`, `curRtt` | `dev->cur_server.host`, `dev->cur_server.rtt` |
| `panic`, `panicCount`, `discover`, `hb` | `dev->panic`, `panic_count`, `discover`, `heartbeat_count` (the last saturated at `STARTUP_MODE_DURATION`, the only value it is compared with) |
| `pc` | where the thread is: `wait`, `lookup` (head of the probe loop), `probe`, `decide` (after the loop) |
| `order`, `j`, `isize`, `slot`, `hostCompare` | `check_order`, `j`, `isize`, `i`, `host_compare` |
| `rtt`, `bestRtt`, `bestServer`, `turn`, `ready`, `lastReq`, `start` | the locals of the same names; `start` is the class of its low four bits |
| `rttFrom`, `bestFrom` | history: the host whose window gave `rtt` and `best_rtt` |
| `image` | `dev->imgname`, `dev->rid`, `dev->reported_size`, stored by the initial connect |
| `panics`, `listUpdates`, `cycles` | bounds on the environment and on normal probe cycles |

| Action | Code |
|---|---|
| `Wake` | `net.c:156-187`: clear `discover`, reset the best server, choose `isize`, shuffle `check_order` |
| `Lookup` | `:189-201`: read the slot under the lock; skip an empty slot, a failing server outside panic, or any server but the current one once the budget is used |
| `Probe` | `:203-278`, `:280-295`: `dnbd3_connect` and `dnbd3_execute_handshake` (`HandshakeOk`, `:817-947`); in panic take the server over (`Takeover`); else time `dnbd3_request_test_block` (`:949-1021`) and `Record` it, or take the `error:` path (`ErrorPath`) |
| `Decide` | `:297-375`: raise `panic_count`; raise the best server's `best_count` and derive the threshold; switch on RTT or on a hung request; or advance `turn` and set `ready` |
| `ServerListEntry` | one entry of a GET_SERVERS reply (`:623-645`): `dnbd3_add_server` or `dnbd3_rem_server` (not under `src/`, modelled from the specification) |
| `ConnectionLost` | the `cleanup:` of the send or receive thread (`:472-478`) |
| `Heartbeat(due)` | `dnbd3_net_heartbeat` (`:92-134`): whether this second's interval is due is free |

A take-over or a switch ends with `dnbd3_net_connect`, which starts a new discover thread. The model resets the thread's locals to their declarations (`FreshThread`).

### Abstractions

- A host in `Reliable` always connects and answers the test block. Any other host may fail at connect (or while sending or receiving the handshake), or at the test block. The measured RTT is drawn from `Samples`.
- A server's `CMD_SELECT_IMAGE` reply is any of `Replies(h)`, a record of protocol version, image name, revision id and size. `HandshakeOk` applies the code's checks to it. `Init` is the state after the ioctl's initial connect: the current server's reply passed the initial checks, and `AdoptImage` stored its name, revision and size (`:912-924`).
- `start` matters only through `& 3`, `& 7` and `& 15`, so it is one of four classes.
- `rtt` is declared without an initializer. Until the first probe of a thread assigns it, it reads as 0 or as a value above every `best_rtt`: the two outcomes the comparison tells apart.
- `failures` counts up to `FAIL_SKIP + 1`, the first value the skip test tells apart.
- The shuffle reads `j` before assigning it, so its swap partners are any slots.
- `RTT_THRESHOLD_FACTOR` is not defined in `src/`. The model uses the specification's factor of 4.

### Runs

| Run | Expect | Shows |
|---|---|---|
| `alt_pass` | pass | `TypeOK`. `ThresholdNonNegative`: `1500 - 10 * best_count` stays at least 0, both for every `best_count` the code's updates can reach with its cap of 148 and for the table in the model. `PanicRecovers`: if a server that answers and serves the device's image stays in the table, a device in panic leaves panic. s2 may answer the handshake with another revision, size, name or an old protocol version; `Probe` rejects such a server as the code does, which `PanicRecovers` relies on through `Serves`. |
| `alt_stale` | violation | `BestRttMeasured` fails. The receive thread removes the server being probed between `Lookup` and `Probe`. The locked update then skips, `rtt` keeps its old (here uninitialized) value, and line 260 makes the removed server the best with an RTT never measured for it. A later cycle can likewise carry one server's mean over to another. |

The handshake never compares the image name after the initial connect: the test at `net.c:901` runs only when `initial_connect` holds, while the comment above the function says the name is checked on switches. In `alt_pass` s2 may reply with another name and the same revision and size, and the device can move to it (a property "the server reported the stored name" fails there). That the device only moves to servers with the stored revision and size is not stated as a property: it is exactly `HandshakeOk`'s guard on every take-over and switch. The initial connect also accepts a revision other than the one the ioctl asked for (only the name is compared), so in `alt_pass` the device may open revision 2 of "img". With no run left for a violation, these divergences are recorded as a hazard.

`best_count` can reach 150 (a win at 147), one more than the [0, 148] the specification states. The threshold is then exactly 0, so `ThresholdNonNegative` still holds.

A related stale value has no property. After a panic take-over `dev->cur_server.rtt` keeps the value of the failed server, often `RTT_UNREACHABLE`. Every cycle probes the current server and overwrites it, but only while that server is in the alt table. Otherwise the stale value stays, and the first ready cycle switches to any other best server. Stating this needs a history of `curRtt`, and the run budget is spent.

### Bounds

- Two slots and two hosts, one of them `Reliable`. s1 always replies with revision 1 of "img" at 8192 bytes. s2 may also reply with revision 2, 12288 bytes, another name or protocol version 1, below `MIN_SUPPORTED_SERVER = 2`; the real version numbers are defined outside `src/`. This covers empty, reused and removed slots, and a current server that fails.
- `PROBE_SUBSET = 1` with `NUMBER_SERVERS = 2` makes the budget and the shuffle matter outside start-up and panic.
- `FAIL_SKIP = 0`, `BEST_COUNT_CAP = 1` and `PANIC_COUNT_MAX = 1` put every saturation within two steps. `ReachableBestCounts` checks the real cap of 148 separately, as a closure over the update functions.
- One lost connection and one list entry.
- `MaxCycles = 3` normal cycles. This sets `ready` (at `turn = 2`) and allows a switch afterwards. Panic cycles are not bounded. `turn` does not wrap within three cycles; a fourth cycle quadruples the state space past what the run budget allows.

### Fairness

- Weak fairness on the discover thread's steps: it is a kernel thread that runs whenever it is not waiting.
- Weak fairness on a heartbeat that sets `discover`: the timer fires every second, so every interval comes round.
- Nothing for probe outcomes, list updates or connection loss: the servers decide those.

### Mutants

| Mutant | Bug | Kills |
|---|---|---|
| `PanicCountUnbounded` | Drops the `panic_count < 255` test. | `TypeOK` |
| `BestCountWinAtCap` | `best_count <= 148` instead of `< 148`. | `ThresholdNonNegative` |
| `WakeIgnoresPanic` | Chooses `isize` from `heartbeat_count` only. | `PanicRecovers` |

## CowStore

Models the copy-on-write layer of the FUSE client (`src/fuse/cowfile.c`): the two-level index (`l1`, the L2 arena `meta` with `offset` and a frame bitfield `bits`), the data file, `cowfile_write` with its head/tail padding, `cowfile_read` and `cowfile_setSize`.

### State and actions

- `l1`, `nextL2`, `meta`, `dataFileSize`, `dataFile`, `imageSize`, `originalImageSize` are the fields of the CoW metadata and the data file. Data values are tags: `Orig(p)` for origin byte `p`, `Data(k, j)` for byte `j` of client write `k`, `Zero`, and `Junk` for bytes never written.
- `req` is the `cow_request_t` of each client write (its `workCounter`, its state). `th` holds the dispatcher threads with the loop variables of `cowfile_write` (`pc` is one of idle/outer/inner/alloc). `pending` holds the padding reads sent to the server. `rd` is the `cow_request_t` of each client read (`workCounter`, `bytesWorkedOn`, reply) and `rpending` the remote reads it sent.
- `content` and `contentSize` are a ghost: the file as a POSIX client expects it after the writes and `setSize` calls it has made.
- `WriteBegin` is the start of `cowfile_write`, with the call past the end that pads the gap. `WriteOuter` and `WriteInner` are the two loops, `WriteAlloc` is `createL2Block` under `l2CreateLock`, and `DoChunk` is one chunk: `getBlock`, then either `writeData` or `padBlockFromRemote`. `writePaddedBlock` is the callback of a padding read. `Release` is `finishWriteRequest` when the counter reaches zero.
- `Read` is `cowfile_read` up to the end of its loop, one step on a dispatcher thread; `ReadDone` is the `atomic_fetch_sub` after the loop, a step of its own. `ReadState` is the fresh request with `workCounter` 1 (the loop's own hold). `ReadLoop` and `ReadIter` walk the ranges by data source (`getBlockDataSource`). `ReadRun` reads a zero or local run at once and sends a remote run with `readRemote`, which raises the counter. Between the two steps the receive thread may answer every remote read; the loop's own hold keeps the counter at 1 or more until `ReadDone`, which then replies itself. `readRemoteData` is the callback on the receive thread (`cowfile_handleCallback`): it adds the run's length to `bytesWorkedOn`, and the one that drops the counter from 1 replies. The data a remote run returns is the origin, which no operation changes, so the buffer is computed in the loop's step. Every read sees the store as one snapshot at that step.
- `SetSize` is `cowfile_setSize`: `ClearLoop` runs `clearBitsInBitfield` on truncation and `GrowStore` handles extension.
- `Terminating` is the stutter once all operations have been issued.

### Runs

| Run | Expect | Shows |
|---|---|---|
| `cow_counters` | pass | With two threads, two writes in flight, and unaligned, past-the-end and resizing operations, `WorkCounterAccounts` holds: the counter always equals the open call frames plus the padding reads in flight. `WritesComplete` also holds. One read of `[0, 6)` races with them; after the write `<<3, 1>>` it splits into remote, local and remote runs, so two of its remote reads are in flight at once. `ReadWorkAccounts` holds: its counter is the remote reads in flight plus the loop's hold until `ReadDone`, `bytesWorkedOn` plus their lengths is its size, and it is answered with every byte and only after the last callback. `ReadsComplete` holds, including the order where every remote read finishes before `ReadDone` and the read thread replies itself (checked reachable). |
| `cow_samealloc` | violation | Two threads write different frames of one unallocated block. Both allocate it in `getBlock` without a lock (`cowfile.c:990`), and the first write is lost. |

`FileMatchesContent` is checked on quiescent states: when no write is in flight, every read `cowfile_read` can serve returns the client's bytes. It has no passing run. With concurrent writes, resizing or writes past the end it fails, each time for a real reason, and one write at a time inside the image shows little. Besides `cow_samealloc`, the violations below were found with it; they have no standing run, because the project keeps at most twelve runs. Each is reproduced by editing `MCCowStore_grow.cfg`:
- `SizeOps = {3, 9}` gives the truncate-then-extend case (hazard at `:1346`).
- `WriteOps = {<<8, 2>>}` gives the gap padding past `originalImageSize` (`:1226`).
- `SizeOps = {12}` with `WriteOps = {<<10, 2>>, <<9, 1>>}` gives the zero-pad spill (`:1074`).
- `MCWriteOpsInside` with `InFlight = 2` gives concurrent unaligned writes to adjacent ranges (`:962`).

`MCCowStore_grow.cfg` itself runs one thread on a file whose last block holds data, with `WriteOps <- MCWriteOpsLastBlock`, `SizeOps <- MCSizeOpsGrow`, `MaxOps = 2` and `InFlight = 1`. There `FileMatchesContent` fails: `setSize` beyond the end clears the whole bitfield of the block that held the old end (`cowfile.c:1173`, `start = MIN(..., 0)` is always 0). The case is sequential and deterministic, so a unit test reaches it as well; the run budget goes to concurrent behaviour.

### Bounds

`BLOCK = 2`, `FRAMES = 2`, `L2SIZE = 2`, `L1SIZE = 2`: two L1 entries, each with two L2 entries of two frames of two bytes. This is enough for a write to span frames, metadata blocks and L1 entries, and for a block to be unallocated, partly or fully written. `ORIGIN_SIZE = 6` ends the origin inside a frame. `MaxOps` is 2 to 5 and `InFlight` is 1 or 2 (how many writes FUSE has outstanding). `MaxReads` bounds the client's reads: 1 in `cow_counters`, because with two reads it runs past five minutes. The operation sets in `MCCowStore.tla` are chosen to reach inside, last-block, growing and same-block cases.

### Fairness

The dispatcher threads and the receive thread that runs the padding callbacks keep running. So there is weak fairness on each thread's steps (a read's thread included, so `ReadDone` follows `Read`) and on `writePaddedBlock` and `readRemoteData`, written out as `[]<>~ENABLED \/ []<><<A>>`. Nothing is assumed of FUSE issuing operations.

### Mutants

| Mutant | Bug | Kills |
|---|---|---|
| `getBlockAlwaysAllocates` | Allocates again for an allocated block. | `TypeOK` (the file grows past its bound) |
| `padBlockFromRemoteUncounted` | Sends a padding read without raising the counter. | `WorkCounterAccounts` |
| `ReleaseAtZero` | Replies only when the counter is already zero. | `WritesComplete` |
| `ReadStateCounterZero` | A read's `workCounter` starts at 0, so the loop's release replies while a remote read is still in flight. | `ReadWorkAccounts` |
| `ReadDoneNoReply` | The `fetch_sub` after the loop drops the hold without replying, for when every remote read finished during the loop. | `ReadsComplete` |

## CowUploader

Models the uploader thread of `cowfile.c` (`uploaderLoop`, `addUpload`, `MessageHandler`, `finishUpload`, `mergeRemote`/`startMerge`), together with the writes that mark blocks dirty (`cowfile_write` stamping `timeChanged`) and `cowfile_close`.

### State and actions

- **Writer side.** `ver[b]` is the block's data version and `tc[b]` its `timeChanged`. `WriteData` bumps the version. `Stamp` is the later store of `timeChanged`: the code writes the data first and sets the time after, which is a window the model keeps. `Tick` advances the clock. `Unmount` is `cowfile_close` clearing `uploadLoop`.
- **`SameSecondWrites`.** `timeChanged` is `time(NULL)`, so the code lets one block be stamped twice in one second. With `SameSecondWrites = FALSE` the model assumes a client that never writes a block again within the second of its last stamp (`lastStamp` records it). This is an assumption about the client, not code; `up_retry`, `up_drain` and `up_reorder` make it so that their results do not come from that coincidence, and `up_samesecond` drops it.
- **Upload state.** `srv[b]` is the version the server holds. `hs` is the curl multi handle list: each entry has a block, the `time` it compare-and-swaps against, the number of failures, and whether it has read the data. `activeUploads` is the variable of that name, refreshed only by `curl_multi_perform`.
- **`uploaderLoop`** is a program counter `upc`:
  - `PassStart` starts a pass.
  - `Scan` walks the blocks and uses `Due`, the age test.
  - `AddUpload` is `addUpload`.
  - `CallMessageHandler`, `Perform`, `Msgs`, `Check` and `Return` are `MessageHandler`. `Perform` lets every running transfer stay, advance or fail in one step, and `finishUpload` handles each completed message.
  - `Drain` is the `while (activeUploads > 0)` at DONE.
- **`finishUpload`** retries a failed transfer while `fails <= Retries`; otherwise it clears `status`. On success it stores the data on the server and compare-and-swaps `timeChanged` back to 0.
- **Merging.** `RequestMerge`, `startMerge` and `MergeLoop` are the merge retries. `Finished` is the end.

### Runs

| Run | Expect | Shows |
|---|---|---|
| `up_retry` | pass | Over two blocks, three writes, one transfer failure with its retry, and a final unmount, two properties hold. `CleanMeansUploaded`: a block with `timeChanged = 0` has its last data on the server, for a client that never writes a block twice within one second (`up_samesecond` shows it fails otherwise). `DrainTerminates`: after unmount the loop finishes. |
| `up_samesecond` | violation | `CleanMeansUploaded` fails with `SameSecondWrites = TRUE` and four writes. A block is written at second 1 and again, its stamp landing at second 2 after the due test; `addUpload` captures 2; the transfer reads the data; a third write of the block in second 2 stamps 2 again; the transfer succeeds and the compare-and-swap (`:486`) clears `timeChanged`, although the server holds the second write's data and not the third's. |
| `up_drain` | violation | `AllUploaded` at the end fails. The DONE drain reads `activeUploads` as it stood before the last `addUpload` (`:586`), so a transfer added last is never performed, yet the merge is requested. |
| `up_reorder` | violation | `CleanMeansUploaded` fails. A transfer left over from a pass finishes after a newer transfer of the same block. The newer one has already cleared `timeChanged`, so the server keeps old data for a block that counts as clean (`:486`). |

`ParallelBound` (no more transfers run than the pass allows) holds only without failures. `MCCowUploader_pass.cfg`, the same constants with `MaxFailures = 0`, checks it and passes; it is not a standing run, because `up_retry` fires every action of it. Two further violations have no standing run:
- `MaxFailures = 1` with `MaxBg = 1` breaks `ParallelBound`: a retry is added after `curl_multi_perform`, so the refreshed count misses it (hazard at `:477`).
- `MergeRetries = 1` breaks "the merge is requested at most once": `startMerge` retries after an accepted request (hazard at `:294`).

### Bounds

- Two blocks, with `MaxBg = 1` and `MaxFg = 2`, make the background limit bind while the final pass can run two transfers.
- `MaxTime = 3` with `Delay = 0` lets a block be due in a later second.
- `MaxWrites = 3` allows a write during a transfer of the same block. `up_samesecond` needs 4: one write of the other block keeps the uploader performing in the same second.
- `HandleBound = 4` caps the handle list. It is never reached in the passing runs; the check only keeps the state space finite.

### Fairness

- Weak fairness on the uploader thread's steps and on each `Stamp`: both are code that runs to completion.
- Strong fairness on `Perform` making progress. Curl keeps a transfer moving whenever it is polled, but a transfer may stay several times in a row.
- No fairness on writes, ticks or unmount: the user decides those.

### Mutants

| Mutant | Bug | Kills |
|---|---|---|
| `finishUploadClearAlways` | Clears `timeChanged` without the compare-and-swap. | `CleanMeansUploaded` |
| `finishUploadRetryForever` | Drops the retry bound. | `TypeOK` |
| `CheckNoIdleExit` | Drops the `active = 0` exit. | `DrainTerminates` |
| `MergeLoopUnbounded` | Drops the retry bound of the merge loop. | `TypeOK` |

## Crc32

Models `crc32()` of `src/shared/crc32.c` on both builds, little- and big-endian, with and without the PCLMUL path.

### Representation

A 32-bit word is a 4-tuple of bytes, least significant first, because TLC's integers are signed 32-bit. `XOR`, shifts and `Complement` act on these tuples through `Bitwise`.

### The tables

The eight tables `crc_table_0` to `crc_table_7` are computed, not copied:
- `crc_table_0` comes from the reflected polynomial `0xEDB88320`.
- `crc_table_1` to `crc_table_3` come from `NextTable`.
- `crc_table_4` to `crc_table_7` are their byte swaps, `net_order_32`.

`ASSUME`s compare entries 1, 2, 128 and 255 of every table with the literals in `crc32.c`; a typo in another literal entry would go unseen.

### Reference

`RefCrc` is the bitwise CRC-32. An `ASSUME` checks the standard check value `crc32("123456789") = 0xCBF43926`.

### State and actions

The variables are the locals of `crc32()`: `crc`, the buffer position, the remaining `len`, the word `c`, and a program counter.
- `Entry`: the complement and byte-order conversion.
- `HeadLoop`: the byte loop up to alignment (`Misaligned`).
- `Simd`: the PCLMUL path, a black box that folds `len - len % 16` bytes with the reference register.
- `WordLoop`: the unrolled loops of 32 and 4 bytes (`Words`, `DOLIT4`, `DOBIG4`).
- `TailLoop` and `Return`.

### The run

`crc_tables` checks both build flags over six inputs: empty, `0`, `255`, the check string, 41 bytes and 80 bytes. The start values are 0, all-ones and a CRC. The inputs reach every loop and the PCLMUL threshold of 64.

Properties:
- `RegisterInvariant`: at every step the register equals the reference CRC of the bytes consumed.
- `Crc32Correct`: the result equals `RefCrc`.
- Mutants: `BigByteWide` (missing `& 0xff`) kills `TypeOK`; `DOLIT4Swapped` kills `RegisterInvariant`; `ReturnNoComplement` kills `Crc32Correct`. `crc32pclmul` loads with `_mm_loadu_si128`, so the head loop's 16-byte alignment is not needed for correctness, and no property states it.

## Plan

Done so far: `KernelClient` (with its refinement of `BlockRequestService`), `AltServerSelection`, `CowStore`, `CowUploader` and `Crc32`. Next, in order of importance:

1. **`RpcAcl`** (`rpc.c`).
   - `addacl`/`getacl` rule construction and prefix matching, as operators.
   - These are checked against a CIDR reference over small addresses, including the negative prefix-length rule.
2. **`UplinkQueue`**, from the specification and `globals.h`.
   - Deduplication, at most one in-flight slot per byte, the queue-full error and the failover re-issue.
3. **`CowStore`.** Split `finishWriteRequest` from the last `cowfile_write` return, so that the reply races the padding callbacks. Also compose the `timeChanged` stamp with `CowUploader` in one module.
4. **`KernelClient`.**
   - Split `Heartbeat` around `add_timer` to check the `del_timer` race.
   - Refine `KernelClient`'s free switch choice by `AltServerSelection`.
   - A violation run for the image name not compared on switches (`net.c:901`), when a run slot is free.
   - A history of `cur_server.rtt` to state the stale value after a take-over.
5. **Server shutdown order** (`dnbd3_cleanup`), if time permits.

## Not modelled

- **IPC** (`ipc.c`), **HTTP parsing and JSON** (`rpc.c`), **CoW file creation and loading**, and the **statistics file and thread** of the FUSE client. These are I/O and formatting with no concurrency that bears on the properties.
- **The PCLMUL CRC internals.** Carry-less multiply on 128-bit registers is out of reach of TLC over meaningful inputs. `Crc32` treats the path as a black box that folds a multiple of 16 bytes, and checks the precondition under which it is entered.
- **`crc32()` with a NULL buffer** (it returns 0). The return is a single early exit.
