# TLA+ models of File-Share

File-Share (`src/`) is a C++ peer-to-peer file sharing node. This directory
holds TLA+ models of its concurrent parts, the TLC configurations that check
them, and `PROJECT.json`. That file lists the components, runs, mutants, the
source lines each definition models, the findings and the hazards.

## The system

| Part | Source | State | Operations and threads |
|---|---|---|---|
| Peer registry (`PeerManager`, `Peer`) | `src/src/PeerManager.cpp`, `src/src/Peer.cpp` | `peers` (id → `shared_ptr<Peer>`, under a `shared_mutex`), `bootstrap_nodes`, `running`; per peer `is_active` and `last_seen` | `start` spawns the heartbeat thread and a detached bootstrap thread. `stop` clears `running` and joins. The heartbeat loop runs `removeStalePeers` (older than 5 min), then `broadcastPeerDiscovery` (ping every active peer; success refreshes `last_seen`, failure clears `is_active`), then sleeps 30 s. Bootstrap waits 2 s, then for every endpoint calls `requestPeerList` and then `addPeer(deserialize(..))`. |
| Download engine (`Client`) | `src/src/Client.cpp` | `active_downloads`, and per download a `DownloadProgress` (`downloaded_size`, `total_size`, `completed`, `failed`) | `downloadFileFromPeer` connects a fresh `Client`. `downloadFile` registers progress, sends FILE_REQUEST and opens the destination. It then reads length-prefixed frames until FILE_COMPLETE, ERROR_MESSAGE or an exception. |
| CLI | `src/src/CLI.cpp` | the components it owns | `initialize` starts the server and then the registry, and only then adds the bootstrap endpoints. `get` detaches a download thread. `shutdown` stops the server and the registry. |
| Legacy `Server` | `src/src/Server.cpp` | connections, file manager | Reads unframed bytes and dispatches on `message[0]`. Replies `[type][payload]` with no length. |
| `HighPerformanceServer` | `src/src/HighPerformanceServer.cpp` | epoll fd, connection map | `start`/`stop`, and an accept loop with periodic cleanup. Its data handlers are declared but never defined. |
| Protocol codec | `src/src/Protocol.cpp`, `src/include/Protocol.h` | none (pure) | A 17-byte packed header (magic, version, type, payload size, CRC-32 of the payload), `createXxx`/`parseXxx` for the payloads. Only the tests use it. |
| `FileManager` | `src/src/FileManager.cpp` | `local_files` | `scanDirectory` (clear, then a recursive scan), and hashing. |
| `ThreadPool` | `src/src/ThreadPool.cpp`, `src/include/ThreadPool.h` | `tasks` (a `std::queue` under `queue_mutex`), `stop`, the worker threads, a condition variable | Workers wait on the condition variable until a task is queued or `stop` is set. `enqueue` refuses tasks once stopped, and otherwise pushes and calls `notify_one`. `shutdown` (also called by the destructor) sets `stop`, calls `notify_all` and joins the workers. Only the tests use it. |

The parts interact as follows. The CLI thread drives the registry. The
registry's two threads share the `peers` map. Remote peers answer or fail
independently of the node. Each `get` runs its download on a separate thread
that reads the same `Peer` objects. The main thread owns all of them:
`~CLI` destroys them after `shutdown` has joined the threads it knows of
(`Node.tla`).

## Modules

**`PeerManager.tla`** models `PeerManager` with its three threads and an
environment of remote peers.

- **Threads.** The main thread runs `Start`, `AddBootstrapNode`, `Stop` and
  `Joined` in the order `CLI::initialize` and `CLI::shutdown` call them.
  The heartbeat thread has `hbPc` over sweep, snapshot, probe, sleep and
  exited. The bootstrap thread has `btPc` over delay, node, add and done.
- **Time.** Time moves in ticks of 10 s, the socket timeout. The 30 s sleep
  is `Period = 3` ticks and the 5-minute threshold is `StaleAfter = 30`.
  `age[p]` counts ticks since `last_seen` and saturates at `StaleAfter + 1`.
  A failed connect takes either 0 ticks (refused) or 1 tick (timeout).
- **Peer objects.** Each stored `Peer` object is the pair `<<id, gen>>`.
  `addPeer` replaces the object, so a probe holding a snapshot of an old
  object changes nothing visible. This is how `shared_ptr` replacement
  behaves.
- **Environment.** `PeerGoesDown` and `PeerComesUp` stand for reachability.
- **History variables.** `steady[p]` and `contacted` record what the
  properties need.

`MC_PeerManager.tla` has two peers and two bootstrap endpoints. `b1` lists
both peers as active. `b2` lists `p1` as inactive, so a later record replaces
an earlier one.

**`Protocol.tla`** holds the codec as operators over byte sequences. A
`uint32_t` is kept as its four bytes, least significant first (`Word`),
because its values exceed TLC's integers, and XOR is applied per byte with
`Bitwise`. `crc32_table` is computed by eight reflected shift-and-xor rounds
per index; an `ASSUME` compares four entries with the source's literals.
`CrcLoop` is the loop of `calculateCRC32`. `createMessage` lays out the
packed header as it is `memcpy`'d on a little-endian host; `parseMessage`
has the source's checks in order. Payload integers are big-endian
(`htonl`). Decoded values of 2^30 or more are kept as `Huge`: the parsers
only compare them with buffer sizes, which they exceed.

**`Framing.tla`** puts the codec on one connection: `Send(m)` builds the
payload with the `createXxx` of `m`'s type and frames it; the network may
`Corrupt` one byte (all bits, or the lowest) or `Truncate` the last byte;
`Receive` runs `parseMessage` and the parser of the type in the header.
It also defines `CrcReference`, CRC-32 from its definition (polynomial
division, bit by bit, of the bit-reflected message), checked against the
standard value for `"123456789"`.

`MC_Framing.tla` sends 26 messages: every type, with empty and non-empty
strings and lists, a zero and a non-zero offset, and a chunk whose payload
carries trailing bytes.

**`Node.tla`** composes the whole process: the main thread (`main`,
`CLI`), the `HighPerformanceServer` event thread, the two `PeerManager`s
(`"cli"`, owned by the CLI, and `"hps"`, owned by the server) each with its
heartbeat and detached bootstrap thread, and clients. `main` is the main
thread's position: `StartServer(step)` is `HighPerformanceServer::start`
ending at each of its four failure points or succeeding; `StartManager` and
`AddBootstrapNode` finish `CLI::initialize`; `Quit` ends `CLI::run`;
`Interrupt` is `signalHandler`, which can run at any point before the
destructor, calls `shutdown` and `exit(0)`; `StopServer`,
`JoinEventThread`, `CloseServer`, `StopManager` and `JoinHeartbeat` are the
steps of `CLI::shutdown` that wait or release; `DestroyCli` is `~CLI`
destroying its members. `Interrupt` is not enabled during `~CLI` or after main's `try`
block, although `g_cli` still points at the object there; a signal in that
window would call `shutdown` on a destroyed `CLI`. No property here is about
that window. `fds` holds the open descriptors (the listen
socket, the epoll fd, and accepted clients), `conns` the connection map.
`EventTop` is the loop test of `eventLoop`; `EventBatch` is one pass: an
accept burst (`Accept`, where an `epoll_ctl` failure closes the fd), a
hang-up, or a timeout followed by the periodic cleanup. `closeConnection`
and `cleanupStaleConnections` are never defined, so `CloseConnections`
follows the spec. `bt` is a bootstrap thread's position: `"delay"` (2 s),
`"nodes"` (contacting endpoints), `"done"`. `alive` says whether a manager
object still exists.

`MC_Node.tla` has two clients and two bootstrap endpoints, as
`CLI::initialize` adds.

**`ThreadPool.tla`** models `ThreadPool` with its workers, one caller per
task calling `enqueue`, and an owner calling `shutdown`.

- **Workers.** `wpc[w]` is the position in the worker's `for(;;)`.
  `WorkerCheck` locks the mutex and tests `stop || !tasks.empty()`: it
  returns, pops the front task, or keeps the lock to wait. `WorkerWait` is
  `condition.wait` releasing the mutex and blocking in one step.
  `WorkerRun` runs the task outside the lock.
- **The mutex.** Every other critical section is a single step that needs
  the mutex free (`LockFree`). The mutex is held across steps only between
  a false predicate test and the wait.
- **Callers and owner.** `Enqueue` is the locked part of `enqueue`, and
  `NotifyOne` the `notify_one` after it. A notify with no waiter is lost.
  `SpuriousWakeup` is a wakeup without a notify. `ShutdownStop`,
  `NotifyAll` and `JoinWorkers` are the three parts of `shutdown`.
- **`runs[t]`.** It counts how often task `t`'s body has run.

**`TaskQueue.tla`** is what the pool promises its callers, with no
threads, lock or order:
- a task is refused once the pool is closed, or otherwise accepted;
- an accepted task runs exactly once, and eventually.

`ThreadPool` instances it as `Pool`, mapping `accepted` to the tasks whose
`enqueue` pushed them and `closed` to `stop`. `PoolRefined == Pool!Spec`
is checked as a property.

`MC_ThreadPool.tla` has two workers and three tasks.

**`Download.tla`** models `Client::downloadFileFromPeer` and
`Client::downloadFile` for a set of concurrent `get` threads.

- **The remote peer is arbitrary.** Each receive is any outcome the framing
  allows: a chunk, complete, error, a frame of another type, an empty
  frame, an oversize length, or a broken socket.
- **The destination file** is modelled by `onDisk` and the stream failbit
  `streamBad`.

`MC_Download.tla` has two downloads, 1- and 2-byte chunks and at most 3 bytes
each, with symmetry over the downloads.

**`Exchange.tla`** models one TCP connection between a `Client` and the
legacy `Server`, byte by byte.

- **Client side.** `Send` covers `Client::sendMessage` for requestPeerList,
  requestFileList, downloadFile and sendPing. `Receive` is
  `Client::receiveMessage` plus what each operation does with the message
  (`Consume`). `Timeout` is the 10 s `SO_RCVTIMEO`. `Close` is `disconnect`.
- **Network.** `Arrive(k)` delivers the next bytes as one segment and raises
  an edge-triggered EPOLLIN. `FinArrive` delivers the FIN after the data.
- **Server side.** `HandleClient` is `handleClientConnection`.
  `Server::receiveMessage` drains in `BUFFER_SIZE` reads: it stops at a
  short read, or at EAGAIN, or at 0 (the FIN), which throws and closes.
  `processMessage` then dispatches on `message[0]` (`Reply`), and
  `Server::sendMessage` appends an unframed `[type][payload]`.
- **Timing.** A handler runs to completion before the client reads its
  reply. `Timeout` fires only once the server has handled every byte; the
  server answers far faster than 10 s.

**`FileIndex.tla`** models `FileManager::refreshFileList`, that is
`scanDirectory`, one step per call: `BeginScan` takes the lock and clears;
`Visit(f)` is the iterator plus `is_regular_file` and `isValidFile`;
`ReadSize` is `file_size` and `last_write_time`; `Hash` is
`calculateFileHash` and the `emplace_back`; `Abort` is the ways an exception
ends the walk; `EndScan` releases the lock. `Write(f)` and `Delete(f)` stand
for `share`'s `copy_file` and any other writer. A file's content is a version
number, so an index entry records the version its size and its hash came
from.

`MC_Exchange.tla` uses a 4-byte buffer, a 4-byte filename and a 5-byte file.
A FILE_REQUEST's length is therefore 5, which is the value of FILE_REQUEST
itself. The file spans two chunks. Every split of the client's bytes is
explored.

## Runs

| Run | Checks | Expect | Shows |
|---|---|---|---|
| `pm_safety` | `TypeOK`, `LivePeerRetained` (action property), `DeadPeerEventuallyEvicted` | pass (about 676k states) | The stale sweep never removes a peer that was registered active and has stayed reachable since; and a peer that stays down leaves the registry, or the manager stops. The sweep, the probes, sleep time, bootstrap replacing objects and shutdown interleave freely. |
| `codec_framing` | `RoundTrip`, `DamageDetected`, `ChecksumIsCrc32` | pass (about 2.9k states) | Every message type round-trips through `createXxx`, `createMessage`, `parseMessage` and `parseXxx`; a truncated frame, or one with any byte changed, is rejected, except a changed type tag and a changed checksum of an empty payload; and the table-driven checksum is CRC-32 by its definition. |
| `pm_restore` | `InactivePeerRestored` | violation | A peer bootstrapped as inactive stays inactive while reachable. Only active peers are probed. |
| `ex_release` | `ConnectionReleased` | violation | The last bytes and the FIN can arrive in one edge. The server stops at the short read, never sees the FIN, and leaks the descriptor. Any client that sends one request and closes at once is such a client. The node itself runs `HighPerformanceServer`, so this concerns programs that use the legacy `Server`. |
| `fi_safety` | `TypeOK` | pass (about 508k states) | However files are written and deleted during scans, no `FileInfo` records the size of a file that was missing when `file_size` ran. |
| `fi_atomic` | `RefreshAtomic` | violation | A deletion during a refresh leaves a cleared, partly rebuilt list, not the previous one. |
| `dl_safety` | `TypeOK`, `NeverBothTerminal` | pass | No download ends both completed and failed. |
| `node_safety` | `FdsOwned`, `ShutdownCompletes` | pass (about 45k states) | Every descriptor the server opens is the listen socket, the epoll fd or a mapped connection; none is open once a start failed or shutdown finished. Every shutdown that starts, by `quit`, EOF or a signal at any point, ends the process. |
| `node_destroy` | `BootstrapBeforeDestroy` | violation | A bootstrap contact still in progress when `quit` is typed outlives `~CLI`, which destroys the `PeerManager` the detached thread still uses. |
| `tp_safety` | `TypeOK`, `NoTaskStranded`, `ShutdownReturns`, `PoolRefined` | pass (about 11k states) | Enqueues race a shutdown, notifies are lost, and one wakeup is spurious. Even so: when `shutdown` returns, every task `enqueue` accepted has run; a `shutdown` that has set `stop` always returns; and the pool refines `TaskQueue`, so no task is accepted after `stop` and each accepted task runs exactly once and eventually. |
| `dl_intact` | `CompletedFileIntact` | violation | A write error is ignored, and the download is reported complete. |

Each property of a passing run has a mutant in `PROJECT.json`. A mutant is a
"Faulty variant" operator in the module, and TLC must find the property
violated when that operator replaces the mapped definition:

- Success without `updateLastSeen` breaks `LivePeerRetained`.
- Failure refreshing instead of deactivating breaks
  `DeadPeerEventuallyEvicted`.
- FILE_COMPLETE using `break` instead of `return` breaks `NeverBothTerminal`.
- `parseMessage` without the CRC comparison breaks `DamageDetected`.
- `serializeUint32` without `htonl` breaks `RoundTrip`.
- `calculateCRC32` without the final inversion breaks `ChecksumIsCrc32`.
- Using `file_size`'s error value breaks `TypeOK` of `FileIndex`.
- A failed `epoll_ctl` in `start` that leaves the epoll fd open breaks
  `FdsOwned`.
- `epoll_wait` without its 100 ms timeout breaks `ShutdownCompletes`.
- A worker that copies the front task without popping it breaks `TypeOK`
  of `ThreadPool` and `PoolRefined`, because the task runs twice.
- `enqueue` without its `stop` test breaks `NoTaskStranded`: a task is
  pushed after the last worker has returned.
- Storing `stop` without the mutex breaks `ShutdownReturns`. A worker that
  has just found the predicate false misses `notify_all`, and `join` never
  returns (the lost wakeup).

## Bounds

- **`PeerManager`.** The real time ratios are kept: 3 ticks of sleep against
  30 ticks before eviction. A successful probe takes no model time, and a
  failed connect at most one tick, so with two peers a live peer's age stays
  near 4 and never approaches 30: the sweep does not race the refresh here.
  `LivePeerRetained` checks that every successful probe refreshes the peer
  the registry holds, whatever object bootstrap put there meanwhile; a round
  long enough to reach the threshold needs about 30 silent peers, beyond
  this bound. Two peers and two endpoints are enough for a record to replace an
  earlier one, and for one peer to be up while the other is down.
- **`Download`.** A 3-byte bound allows a multi-chunk download with a write
  failure between chunks. Two downloads show that their threads do not
  interfere.

- **`Framing`.** One byte of damage per frame, at every position, in two
  ways, is enough to reach each header field and each payload field of every
  message type. Strings of length 0 and 2 and lists of length 0, 1 and 2
  exercise every loop of the parsers. Frames stay under 50 bytes so the CRC
  recursions stay shallow.
- **`Node`.** Two clients are enough for an accept burst with one
  `epoll_ctl` failure and one success, and a hang-up of one while the other
  is open. Two bootstrap endpoints, as `initialize` adds, let a thread be
  between contacts. Every point at which the signal can arrive is explored.
- **`ThreadPool`.** There are two workers and three tasks:
  - both workers can be busy while a task waits in the queue;
  - a `notify_one` can find no waiter;
  - enqueues can land on either side of `stop` while a worker is still
    draining the queue.

  One spurious wakeup is allowed. Their number has to be bounded, because
  an unending run of them could keep an unfair mutex busy for ever.
- **`FileIndex`.** There are three files: two plain ones and a `.tmp`
  one. Each is written at most twice, and there
  are two refreshes. That is enough for a rewrite or a deletion at every
  step of a scan, and for a second scan to follow a failed one.

The `Download`, `Exchange` and `FileIndex` runs set `CHECK_DEADLOCK FALSE`, because every download thread
returns, the connection is over, the last refresh is done, and the
node then simply idles. The `PeerManager` runs check for
deadlock; the remote-peer environment never stops. `Framing` checks it too:
`Reset` always lets the connection carry another message. `Node` checks it
and ends in `Terminated`: after `exit` or `return` nothing runs. `ThreadPool`
checks it too. It ends in `Terminated` once the pool has been shut down and
every caller has returned, so a lost wakeup shows up as a deadlock.

## Fairness

- **`PeerManager`.** Weak fairness is assumed on the heartbeat steps, on
  `Tick` and on the bootstrap steps. These are code that runs on its own
  thread, and `sleep_for` returns. There is no fairness on the CLI (the user
  may never type `quit`) or on the environment.
- **`Exchange`.** Weak fairness is assumed on the client, on TCP delivery,
  and on the server's accept thread. That thread calls `epoll_wait` with a
  1 s timeout in a loop.
- **`Node`.** Weak fairness is assumed on the main thread's shutdown
  steps, the event thread, and each manager's heartbeat and bootstrap
  threads: each blocks only in `epoll_wait` (100 ms), `sleep_for`, `join`
  or a `recv` with a 10 s timeout. There is none on `Quit`, the signal or
  the clients. `HeartbeatWake` requires the bootstrap thread past its
  2 s delay, because the first heartbeat sleep is 30 s.
- **`ThreadPool`.** Weak fairness is assumed on:
  - each worker's steps: a runnable thread is scheduled, and the mutex is
    held only briefly, by a worker on its way into `wait`;
  - `notify_one` after a push;
  - `notify_all` and `join` once `shutdown` has begun.

  There is no fairness on calling `enqueue` or `shutdown`, or on spurious
  wakeups.
- **`Download`.** Weak fairness is assumed on each download thread. Every
  blocking `recv` returns within the 10 s `SO_RCVTIMEO`.

## Divergences read off the code, not model-checked

A unit test reaches most of these without any interleaving, so none of them
has a run.

- **Bootstrap endpoints are added after `start`.** `CLI::initialize` calls
  `peer_manager->start()` before `addBootstrapNode` (`CLI.cpp:31`). The
  detached thread reads `bootstrap_nodes`, an unsynchronised vector, after
  its 2 s delay. If the main thread stalls for that long, the thread finds
  the list empty and contacts no one. Spec §4.3 says the endpoints are
  appended before `start`. `PeerManager` reaches this outcome, but the
  stall it needs is not a schedule a test would meet, and no run is kept.
- **Downloads do not run on the worker pool.** Spec §5 says a bounded pool
  runs the download tasks. `handleGetCommand` instead starts a detached
  `std::thread` for each download (`CLI.cpp:251`), and nothing uses
  `ThreadPool`.
- **A pool without workers.** By default `ThreadPool` takes
  `hardware_concurrency()` workers, which may be 0. Such a pool accepts
  tasks and never runs them, and `PoolRefined` fails at once with
  `Workers = {}`.

- **The legacy `Server` and the `Client` cannot talk.** `Server` reads
  unframed bytes and takes `message[0]` as the type (`Server.cpp:148`),
  which is the first byte of the client's 4-byte length. Its replies have
  no length, so the client reads the type byte as a length above 10 MiB.
  `Exchange` reaches no successful request; any client–server test
  shows it too.
- **`updatePeerFileList` is not atomic.** It holds the peers lock only in
  shared mode and removes, then adds, files one `Peer` call at a time
  (`PeerManager.cpp:127`), so two calls for one peer leave a mixture of
  both lists; spec §4.3 says the list is replaced under the exclusive lock.
  The function has no callers.
- **The cleanup timer is function-static.** `last_cleanup`
  (`HighPerformanceServer.cpp:146`) is shared by every server object. The
  program builds one server (`CLI.cpp:10`) and never restarts it, so this
  is harmless today.

- **Empty frame.** On an empty frame (length 0), `Client::downloadFile`
  breaks out of its loop and returns `false` with neither `completed` nor
  `failed` set (`Client.cpp:226`). Spec §3 requires exactly one terminal
  transition.
- **`get` downloads are invisible.** `downloadFileFromPeer` registers its
  progress in a temporary `Client` (`Client.cpp:286`). The CLI's
  `downloads` and `status` commands therefore never show a `get` download.
- **Hidden directories are shared.** `isValidFile` checks only the file's
  own name (`FileManager.cpp:78`), so files under hidden directories are
  indexed. Spec 4.2 says otherwise.
- **Size and hash of different contents.** `scanDirectory` reads
  `file_size` (`FileManager.cpp:55`) and hashes the file later (line 64)
  without holding it, so a file rewritten in between is listed with the
  size of one content and the hash of another. `FileIndex` reads them at
  separate steps and TLC reaches this state, but no run is kept for it.
- **Empty payloads are not checksummed.** `parseMessage` compares the CRC
  only when `payload_size > 0` (`Protocol.cpp:110`), so a frame with an
  empty payload and any checksum field is accepted. `DamageDetected`
  excludes exactly this case.
- **Header size.** The header is packed to 17 bytes, not the 20 the spec
  gives.
- **Sizes above 4 GiB.** `payload.size()` and file sizes and offsets are
  truncated to `uint32_t` on the wire. TLC cannot reach such values.
- **Code that cannot build.** `HighPerformanceServer` declares
  `handleClientData`, `handleClientWrite`, `closeConnection` and
  `cleanupStaleConnections` but never defines them.
  `CLI::handleConnectCommand` is also undefined. `CLI::initialize` calls
  `HighPerformanceServer::setSharedDirectory`, which does not exist. These
  are not behaviours a model can check. `Protocol::parseErrorMessage` is
  declared but never defined, yet `test_protocol.cpp` calls it.

## Not modelled

1. **`Exchange`, several connections at once.** Neither are sends by the
   server that fail after the client closed. The legacy `Server` has no
   caller in the node, so its one-connection model already shows its
   findings.
2. **`FileIndex` with the CLI's and the server's `FileManager`s.** They
   are separate instances. The server's index is never filled:
   `HighPerformanceServer::setSharedDirectory` does not exist. A second
   instance would add nothing to check.
3. **`HighPerformanceServer` connections.** `handleClientData`,
   `handleClientWrite`, `closeConnection` and `cleanupStaleConnections` have
   no definition, so the per-connection protocol has no code to model.
4. **Read-only operations.** These change no state, so no action stands for
   them:
   - the CLI's `peers`, `files`, `status`, `downloads` and `help`
     commands, which format snapshots;
   - `PeerManager`'s queries;
   - `FileManager`'s lookups;
   - `ThreadPool::queueSize`.

   `updatePeerFileList` and `removePeer` have no callers.
5. **Sizes of 4 GiB or more, and probe rounds longer than 5 minutes.**
   - Sizes are cut to `uint32_t` at `Protocol.cpp:75`. TLC cannot reach
     them.
   - A round is longer than 5 minutes only when about 28 silent active
     peers are probed in one round (`PeerManager.cpp:177`). The model would
     need that many peers; with fewer, the timing would be changed.

`Logger` is output formatting and stays out of the models. `main`'s
argument parsing only chooses the port and directory.
