------------------------------- MODULE Node -------------------------------
(***************************************************************************)
(* The life of a node process (src/src/main.cpp, src/src/CLI.cpp): the     *)
(* main thread builds a CLI, whose initialize() starts the                 *)
(* HighPerformanceServer (src/src/HighPerformanceServer.cpp) and then the  *)
(* CLI's own PeerManager; run() reads commands until `quit` or EOF; then   *)
(* shutdown() stops the server and the manager, and ~CLI destroys them.    *)
(* SIGINT/SIGTERM run shutdown() and exit(0) on the main thread instead.   *)
(*                                                                         *)
(* The server owns a second PeerManager, which it starts and stops.  Each  *)
(* PeerManager has a heartbeat thread (joined by stop) and a detached      *)
(* bootstrap thread (never joined).  The registry itself is modelled in    *)
(* PeerManager; here a heartbeat round and a bootstrap contact are single  *)
(* steps.  The server's event thread runs eventLoop; clients connect and   *)
(* hang up.  File descriptors are model values: "listen", "epoll" and one  *)
(* per client.                                                             *)
(***************************************************************************)
EXTENDS FiniteSets

CONSTANTS
  Clients,     \* client connections that may arrive (model values)
  BootNodes    \* the endpoints CLI::initialize adds (model values)

\* The CLI's PeerManager and the one HighPerformanceServer owns.
Managers == {"cli", "hps"}

VARIABLES
  main,        \* the main thread's program counter
  sig,         \* the signal handler has run
  srvRunning,  \* HighPerformanceServer::running
  ev,          \* the event thread: "none", "top" (at the while test), "batch", "exited"
  fds,         \* open file descriptors of the server
  conns,       \* the keys of HighPerformanceServer::connections
  pending,     \* connections waiting in the listen backlog
  hup,         \* connections whose client has hung up (EPOLLHUP pending)
  arrived,     \* history: clients that have connected
  pmRunning,   \* PeerManager::running of each manager
  hb,          \* heartbeat thread: "none", "round", "sleep", "exited"
  bt,          \* bootstrap thread: "none", "delay", "nodes", "done"
  btTodo,      \* endpoints the bootstrap loop has still to contact
  bootNodes,   \* PeerManager::bootstrap_nodes
  alive        \* the manager object has not been destroyed

vars == <<main, sig, srvRunning, ev, fds, conns, pending, hup, arrived,
          pmRunning, hb, bt, btTodo, bootNodes, alive>>

MainPc == {"init", "pmStart", "addBoot", "run", "stopSrv", "joinEv", "joinHbHps",
           "stopPm", "joinHbCli", "dtor", "return", "gone"}

TypeOK ==
  /\ main \in MainPc /\ sig \in BOOLEAN /\ srvRunning \in BOOLEAN
  /\ ev \in {"none", "top", "batch", "exited"}
  /\ fds \subseteq {"listen", "epoll"} \cup Clients
  /\ conns \subseteq Clients /\ pending \subseteq Clients
  /\ hup \subseteq conns /\ arrived \subseteq Clients
  /\ pmRunning \in [Managers -> BOOLEAN]
  /\ hb \in [Managers -> {"none", "round", "sleep", "exited"}]
  /\ bt \in [Managers -> {"none", "delay", "nodes", "done"}]
  /\ btTodo \in [Managers -> SUBSET BootNodes]
  /\ bootNodes \in [Managers -> SUBSET BootNodes]
  /\ alive \in [Managers -> BOOLEAN]

Init ==
  /\ main = "init" /\ sig = FALSE /\ srvRunning = FALSE /\ ev = "none"
  /\ fds = {} /\ conns = {} /\ pending = {} /\ hup = {} /\ arrived = {}
  /\ pmRunning = [m \in Managers |-> FALSE]
  /\ hb = [m \in Managers |-> "none"]
  /\ bt = [m \in Managers |-> "none"]
  /\ btTodo = [m \in Managers |-> {}]
  /\ bootNodes = [m \in Managers |-> {}]
  /\ alive = [m \in Managers |-> TRUE]

\* The process is still there: threads only run before it exits.
Up == main # "gone"

\* PeerManager::start on m: running := true, spawn both threads.
PmStart(m) ==
  /\ pmRunning' = [pmRunning EXCEPT ![m] = TRUE]
  /\ hb' = [hb EXCEPT ![m] = "round"]
  /\ bt' = [bt EXCEPT ![m] = "delay"]

-----------------------------------------------------------------------------
(* Main thread                                                             *)

\* HighPerformanceServer::start.  socket, bind, listen, epoll_create1 and
\* epoll_ctl may each fail; a failure returns false after closing what
\* start opened so far.
Acquired(step) ==
  CASE step \in {"bind", "listen", "epoll_create"} -> {"listen"}
    [] step = "epoll_ctl" -> {"listen", "epoll"}
    [] OTHER -> {}

\* Faulty variant: the epoll_ctl failure path forgets close(epoll_fd).
ClosedOnFailureKeepEpoll(step) ==
  CASE step \in {"bind", "listen", "epoll_create", "epoll_ctl"} -> {"listen"}
    [] OTHER -> {}

ClosedOnFailure(step) ==
  CASE step \in {"bind", "listen", "epoll_create"} -> {"listen"}
    [] step = "epoll_ctl" -> {"listen", "epoll"}
    [] OTHER -> {}

\* CLI::initialize: server->start().  On success the event thread and the
\* server's PeerManager start; on failure initialize returns false and
\* main returns 1, destroying the CLI.
StartServer(step) ==
  /\ main = "init"
  /\ \/ /\ step = "ok"
        /\ fds' = fds \cup {"listen", "epoll"}
        /\ srvRunning' = TRUE /\ ev' = "top"
        /\ PmStart("hps")
        /\ main' = "pmStart"
     \/ /\ step # "ok"
        /\ fds' = fds \cup (Acquired(step) \ ClosedOnFailure(step))
        /\ main' = "dtor"
        /\ UNCHANGED <<srvRunning, ev, pmRunning, hb, bt>>
  /\ UNCHANGED <<sig, conns, pending, hup, arrived, btTodo, bootNodes, alive>>

\* CLI::initialize: peer_manager->start(), then the bootstrap endpoints.
StartManager ==
  /\ main = "pmStart"
  /\ PmStart("cli")
  /\ main' = "addBoot"
  /\ UNCHANGED <<sig, srvRunning, ev, fds, conns, pending, hup, arrived, btTodo, bootNodes, alive>>

AddBootstrapNode(n) ==
  /\ main = "addBoot" /\ n \notin bootNodes["cli"]
  /\ bootNodes' = [bootNodes EXCEPT !["cli"] = @ \cup {n}]
  /\ main' = IF bootNodes'["cli"] = BootNodes THEN "run" ELSE "addBoot"
  /\ UNCHANGED <<sig, srvRunning, ev, fds, conns, pending, hup, arrived, pmRunning, hb, bt, btTodo, alive>>

\* CLI::run ends on `exit`/`quit` (running = false) or on EOF; shutdown()
\* follows (called by ~CLI).
Quit ==
  /\ main = "run"
  /\ main' = "stopSrv"
  /\ UNCHANGED <<sig, srvRunning, ev, fds, conns, pending, hup, arrived, pmRunning, hb, bt, btTodo, bootNodes, alive>>

\* signalHandler interrupts the main thread wherever it is, calls
\* g_cli->shutdown() and exit(0); the interrupted code never resumes.
Interrupt ==
  /\ ~sig /\ main \notin {"dtor", "return", "gone"}
  /\ sig' = TRUE /\ main' = "stopSrv"
  /\ UNCHANGED <<srvRunning, ev, fds, conns, pending, hup, arrived, pmRunning, hb, bt, btTodo, bootNodes, alive>>

\* shutdown(): server->stop().  If running is already false, stop returns.
StopServer ==
  /\ main = "stopSrv"
  /\ srvRunning' = FALSE
  /\ main' = IF srvRunning THEN "joinEv" ELSE "stopPm"
  /\ UNCHANGED <<sig, ev, fds, conns, pending, hup, arrived, pmRunning, hb, bt, btTodo, bootNodes, alive>>

\* event_thread.join() returns; then peer_manager->stop() on the server's
\* manager (running := false, join the heartbeat).
JoinEventThread ==
  /\ main = "joinEv" /\ ev = "exited"
  /\ pmRunning' = [pmRunning EXCEPT !["hps"] = FALSE]
  /\ main' = "joinHbHps"
  /\ UNCHANGED <<sig, srvRunning, ev, fds, conns, pending, hup, arrived, hb, bt, btTodo, bootNodes, alive>>

\* heartbeat_thread.join() returns; stop closes every connection, clears
\* the map, closes the epoll fd and the listen socket.  The backlog goes
\* with the listen socket.
CloseServer ==
  /\ main = "joinHbHps" /\ hb["hps"] \in {"none", "exited"}
  /\ fds' = fds \ ({"listen", "epoll"} \cup conns)
  /\ conns' = {} /\ hup' = {} /\ pending' = {}
  /\ main' = "stopPm"
  /\ UNCHANGED <<sig, srvRunning, ev, arrived, pmRunning, hb, bt, btTodo, bootNodes, alive>>

\* shutdown(): peer_manager->stop() on the CLI's manager.
StopManager ==
  /\ main = "stopPm"
  /\ pmRunning' = [pmRunning EXCEPT !["cli"] = FALSE]
  /\ main' = CASE pmRunning["cli"] -> "joinHbCli"
               [] sig -> "gone"
               [] OTHER -> "dtor"
  /\ UNCHANGED <<sig, srvRunning, ev, fds, conns, pending, hup, arrived, hb, bt, btTodo, bootNodes, alive>>

\* The heartbeat is joined; the signal handler then calls exit(0), which
\* ends the process without destroying the CLI (it lives on main's stack).
JoinHeartbeat ==
  /\ main = "joinHbCli" /\ hb["cli"] = "exited"
  /\ main' = IF sig THEN "gone" ELSE "dtor"
  /\ UNCHANGED <<sig, srvRunning, ev, fds, conns, pending, hup, arrived, pmRunning, hb, bt, btTodo, bootNodes, alive>>

\* ~CLI: shutdown() again (both stops return at once), then the members
\* are destroyed in reverse order: peer_manager, then server, whose
\* destructor destroys its own peer_manager.
DestroyCli ==
  /\ main = "dtor"
  /\ alive' = [m \in Managers |-> FALSE]
  /\ main' = "return"
  /\ UNCHANGED <<sig, srvRunning, ev, fds, conns, pending, hup, arrived, pmRunning, hb, bt, btTodo, bootNodes>>

\* main returns and the process exits, ending every thread.
ProcessExit ==
  /\ main = "return"
  /\ main' = "gone"
  /\ UNCHANGED <<sig, srvRunning, ev, fds, conns, pending, hup, arrived, pmRunning, hb, bt, btTodo, bootNodes, alive>>

-----------------------------------------------------------------------------
(* The server's event thread (eventLoop)                                   *)

\* while (running.load()): the loop test.
EventTop ==
  /\ Up /\ ev = "top"
  /\ ev' = IF srvRunning THEN "batch" ELSE "exited"
  /\ UNCHANGED <<main, sig, srvRunning, fds, conns, pending, hup, arrived, pmRunning, hb, bt, btTodo, bootNodes, alive>>

\* handleNewConnection: accept until EAGAIN or another error (which breaks
\* the loop); each accepted fd is added to epoll, and on failure closed;
\* otherwise a Connection is stored under it.  bad: the accepted fds whose
\* epoll_ctl failed.
Accept(acc, bad) ==
  /\ pending' = pending \ acc
  /\ conns' = conns \cup (acc \ bad)
  /\ fds' = fds \cup (acc \ bad)
  /\ UNCHANGED hup

\* closeConnection and cleanupStaleConnections are declared but never
\* defined; spec section 4.5: a connection that errs, hangs up, or is idle
\* at the 60 s sweep is closed and forgotten.
CloseConnections(s) ==
  /\ fds' = fds \ s /\ conns' = conns \ s /\ hup' = hup \ s
  /\ UNCHANGED pending

\* Faulty variant: epoll_wait without a timeout blocks until an event.
EventBatchNoTimeout ==
  /\ Up /\ ev = "batch"
  /\ \/ \E acc \in SUBSET pending, bad \in SUBSET Clients :
          acc # {} /\ bad \subseteq acc /\ Accept(acc, bad)
     \/ \E c \in hup : CloseConnections({c})
  /\ ev' = "top"
  /\ UNCHANGED <<main, sig, srvRunning, arrived, pmRunning, hb, bt, btTodo, bootNodes, alive>>

\* One pass of the loop body: epoll_wait (100 ms timeout) returns the
\* listen socket's EPOLLIN, a client's EPOLLHUP, or nothing; then the
\* periodic cleanup may close stale connections.
EventBatch ==
  /\ Up /\ ev = "batch"
  /\ \/ \E acc \in SUBSET pending, bad \in SUBSET Clients :
          acc # {} /\ bad \subseteq acc /\ Accept(acc, bad)
     \/ \E c \in hup : CloseConnections({c})
     \/ \E s \in SUBSET conns : CloseConnections(s)
  /\ ev' = "top"
  /\ UNCHANGED <<main, sig, srvRunning, arrived, pmRunning, hb, bt, btTodo, bootNodes, alive>>

-----------------------------------------------------------------------------
(* The threads of each PeerManager                                         *)

\* heartbeatLoop: removeStalePeers and broadcastPeerDiscovery, then the
\* 30 s sleep; running is read again after the sleep.
HeartbeatRound(m) ==
  /\ Up /\ hb[m] = "round"
  /\ hb' = [hb EXCEPT ![m] = "sleep"]
  /\ UNCHANGED <<main, sig, srvRunning, ev, fds, conns, pending, hup, arrived, pmRunning, bt, btTodo, bootNodes, alive>>

\* The first 30 s sleep cannot end before the bootstrap thread's 2 s delay.
HeartbeatWake(m) ==
  /\ Up /\ hb[m] = "sleep" /\ bt[m] # "delay"
  /\ hb' = [hb EXCEPT ![m] = IF pmRunning[m] THEN "round" ELSE "exited"]
  /\ UNCHANGED <<main, sig, srvRunning, ev, fds, conns, pending, hup, arrived, pmRunning, bt, btTodo, bootNodes, alive>>

\* The detached thread wakes after 2 s and ranges over bootstrap_nodes;
\* an empty list ends the thread at once.
BootstrapWake(m) ==
  /\ Up /\ bt[m] = "delay"
  /\ bt' = [bt EXCEPT ![m] = IF bootNodes[m] = {} THEN "done" ELSE "nodes"]
  /\ btTodo' = [btTodo EXCEPT ![m] = bootNodes[m]]
  /\ UNCHANGED <<main, sig, srvRunning, ev, fds, conns, pending, hup, arrived, pmRunning, hb, bootNodes, alive>>

\* One endpoint: connect, requestPeerList, addPeer for every record.  This
\* is the only step of the thread that takes long (each recv waits up to
\* 10 s, and a slow node can keep it going); after the last endpoint the
\* thread ends.
BootstrapContact(m, n) ==
  /\ Up /\ bt[m] = "nodes" /\ n \in btTodo[m]
  /\ btTodo' = [btTodo EXCEPT ![m] = @ \ {n}]
  /\ bt' = [bt EXCEPT ![m] = IF btTodo'[m] = {} THEN "done" ELSE "nodes"]
  /\ UNCHANGED <<main, sig, srvRunning, ev, fds, conns, pending, hup, arrived, pmRunning, hb, bootNodes, alive>>

-----------------------------------------------------------------------------
(* Clients                                                                 *)

\* A client connects while the listen socket is open.
Connect(c) ==
  /\ Up /\ "listen" \in fds /\ c \notin arrived
  /\ pending' = pending \cup {c} /\ arrived' = arrived \cup {c}
  /\ UNCHANGED <<main, sig, srvRunning, ev, fds, conns, hup, pmRunning, hb, bt, btTodo, bootNodes, alive>>

Hangup(c) ==
  /\ Up /\ c \in conns \ hup
  /\ hup' = hup \cup {c}
  /\ UNCHANGED <<main, sig, srvRunning, ev, fds, conns, pending, arrived, pmRunning, hb, bt, btTodo, bootNodes, alive>>

\* After the process has exited nothing happens any more.
Terminated == main = "gone" /\ UNCHANGED vars

-----------------------------------------------------------------------------

MainThread ==
  \/ \E s \in {"socket", "bind", "listen", "epoll_create", "epoll_ctl", "ok"} : StartServer(s)
  \/ StartManager \/ \E n \in BootNodes : AddBootstrapNode(n)
  \/ StopServer \/ JoinEventThread \/ CloseServer \/ StopManager \/ JoinHeartbeat
  \/ DestroyCli \/ ProcessExit

EventThread == EventTop \/ EventBatch

Heartbeat(m) == HeartbeatRound(m) \/ HeartbeatWake(m)

Bootstrap(m) == BootstrapWake(m) \/ \E n \in BootNodes : BootstrapContact(m, n)

Next ==
  \/ MainThread \/ Quit \/ Interrupt \/ EventThread
  \/ \E m \in Managers : Heartbeat(m) \/ Bootstrap(m)
  \/ \E c \in Clients : Connect(c) \/ Hangup(c)
  \/ Terminated

\* Every thread of the program is fair once it has code to run: the main
\* thread's initialize and shutdown steps, the event loop (epoll_wait
\* returns within 100 ms), the heartbeats (sleep_for returns) and the
\* bootstrap threads.  The user (Quit), signals and clients are not.
Fairness ==
  /\ WF_vars(MainThread)
  /\ WF_vars(EventThread)
  /\ \A m \in Managers : WF_vars(Heartbeat(m)) /\ WF_vars(Bootstrap(m))

Spec == Init /\ [][Next]_vars /\ Fairness

-----------------------------------------------------------------------------
(* Properties                                                              *)

\* HighPerformanceServer::start's failure paths and handleNewConnection's
\* epoll_ctl failure path close what they opened, and stop closes the
\* rest: every open descriptor is the listen socket, the epoll fd or a
\* connection in the map; none is open when start failed; and none is
\* left once stop has returned on the normal shutdown path.
FdsOwned ==
  /\ fds \subseteq {"listen", "epoll"} \cup conns
  /\ ev = "none" => fds = {}
  /\ ~sig /\ main \in {"stopPm", "joinHbCli", "dtor", "return"} => fds = {}

\* Spec section 4.5 (stop joins the loop) and the CLI's `quit`: once
\* shutdown has begun the process exits, however the event loop, the
\* heartbeats and the clients are placed; stop's joins never wait forever.
ShutdownCompletes == (main = "stopSrv") ~> (main = "gone")

\* The detached bootstrap thread of a PeerManager has finished before the
\* manager is destroyed; otherwise it reads bootstrap_nodes or calls
\* addPeer on freed memory.
BootstrapBeforeDestroy ==
  \A m \in Managers : ~alive[m] /\ Up => bt[m] \in {"none", "done"}

====
