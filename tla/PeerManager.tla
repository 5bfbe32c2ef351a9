---------------------------- MODULE PeerManager ----------------------------
(***************************************************************************)
(* The peer registry of a node (src/src/PeerManager.cpp, src/src/Peer.cpp) *)
(* together with the three threads that touch it:                         *)
(*   - the heartbeat thread (heartbeatLoop: removeStalePeers, then         *)
(*     broadcastPeerDiscovery, then a 30 s sleep);                         *)
(*   - the detached bootstrap thread started by start() (2 s delay, then   *)
(*     connectToBootstrapNodes);                                           *)
(*   - the main thread running CLI::initialize and CLI::shutdown, which    *)
(*     calls start() and then addBootstrapNode for every endpoint.         *)
(* Remote peers are an environment that is reachable or not at any time.  *)
(*                                                                         *)
(* Time is counted in ticks of 10 s (the client's connect timeout).  A     *)
(* Peer's last_seen is kept as its age in ticks, saturated at StaleAfter+1 *)
(* because the code only ever asks whether now - last_seen > 5 minutes.   *)
(* Time passes while the heartbeat thread sleeps and while one of its      *)
(* probes waits for a connect timeout; every other step takes no time.    *)
(*                                                                         *)
(* addPeer replaces the shared_ptr stored under an id, so a probe that     *)
(* holds a pointer taken before the replacement updates an object no      *)
(* longer in the map.  Each Peer object is therefore named <<id, gen>>,    *)
(* and a probe only has a visible effect when its gen is still current.   *)
(***************************************************************************)
EXTENDS Naturals, FiniteSets

CONSTANTS
  Peers,       \* peer ids a bootstrap node may advertise (model values)
  BootNodes,   \* bootstrap endpoints the CLI configures (model values)
  BootReply,   \* [BootNodes -> SUBSET PeerRecord]: the peer list each returns
  Period,      \* heartbeat sleep, in ticks (30 s = 3 ticks)
  StaleAfter   \* stale threshold, in ticks (5 min = 30 ticks)

\* A serialized Peer record as parsed by Peer::deserialize: id and active flag.
PeerRecord == [id : Peers, active : BOOLEAN]

ASSUME BootReply \in [BootNodes -> SUBSET PeerRecord]
ASSUME Period \in Nat \ {0} /\ StaleAfter \in Nat \ {0}

AgeCap == StaleAfter + 1

VARIABLES
  running,     \* PeerManager::running
  mainPc,      \* main thread: CLI::initialize, run, shutdown
  bootNodes,   \* PeerManager::bootstrap_nodes (as a set of endpoints)
  registered,  \* the keys of PeerManager::peers
  gen,         \* gen[p]: which Peer object is stored under p
  active,      \* active[p]: is_active of the object stored under p
  age,         \* age[p]: ticks since last_seen of the object stored under p
  hbPc,        \* heartbeat thread program counter
  hbTodo,      \* active-peer snapshot of broadcastPeerDiscovery still to probe
  sleepLeft,   \* ticks left in the heartbeat's sleep_for(30 s)
  btPc,        \* bootstrap thread program counter
  btNodes,     \* endpoints of the range-for not yet visited
  btRecs,      \* peer records of the current endpoint not yet added
  up,          \* environment: up[p] iff peer p accepts connections
  steady       \* history: p was added active and has been up ever since

vars == <<running, mainPc, bootNodes, registered, gen, active, age, hbPc,
          hbTodo, sleepLeft, btPc, btNodes, btRecs, up, steady>>

Object == Peers \X Nat

TypeOK ==
  /\ running \in BOOLEAN
  /\ mainPc \in {"init", "addBoot", "serving", "joining", "stopped"}
  /\ bootNodes \subseteq BootNodes
  /\ registered \subseteq Peers
  /\ gen \in [Peers -> Nat]
  /\ active \in [Peers -> BOOLEAN]
  /\ age \in [Peers -> 0..AgeCap]
  /\ hbPc \in {"idle", "sweep", "snapshot", "probe", "sleep", "exited"}
  /\ hbTodo \subseteq Object
  /\ sleepLeft \in 0..Period
  /\ btPc \in {"idle", "delay", "node", "add", "done"}
  /\ btNodes \subseteq BootNodes
  /\ btRecs \subseteq PeerRecord
  /\ up \in [Peers -> BOOLEAN]
  /\ steady \in [Peers -> BOOLEAN]

Init ==
  /\ running = FALSE
  /\ mainPc = "init"
  /\ bootNodes = {}
  /\ registered = {}
  /\ gen = [p \in Peers |-> 0]
  /\ active = [p \in Peers |-> FALSE]
  /\ age = [p \in Peers |-> 0]
  /\ hbPc = "idle"
  /\ hbTodo = {}
  /\ sleepLeft = 0
  /\ btPc = "idle"
  /\ btNodes = {}
  /\ btRecs = {}
  /\ up \in [Peers -> BOOLEAN]
  /\ steady = [p \in Peers |-> FALSE]

\* The object o is the one currently stored in the map.
Current(o) == o[1] \in registered /\ gen[o[1]] = o[2]

\* d ticks of wall-clock time pass: every last_seen grows older.
Older(d) == age' = [p \in Peers |-> IF age[p] + d > AgeCap THEN AgeCap ELSE age[p] + d]

-----------------------------------------------------------------------------
(* Main thread                                                             *)

\* CLI::initialize calls peer_manager->start(): running := true, spawn the
\* heartbeat thread and the detached bootstrap thread.
Start ==
  /\ mainPc = "init"
  /\ ~running
  /\ running' = TRUE
  /\ hbPc' = "sweep"
  /\ btPc' = "delay"
  /\ mainPc' = "addBoot"
  /\ UNCHANGED <<bootNodes, registered, gen, active, age, hbTodo, sleepLeft,
                 btNodes, btRecs, up, steady>>

\* CLI::initialize then appends its bootstrap endpoints (addBootstrapNode).
AddBootstrapNode(n) ==
  /\ mainPc = "addBoot"
  /\ n \in BootNodes \ bootNodes
  /\ bootNodes' = bootNodes \cup {n}
  /\ mainPc' = IF bootNodes' = BootNodes THEN "serving" ELSE "addBoot"
  /\ UNCHANGED <<running, registered, gen, active, age, hbPc, hbTodo,
                 sleepLeft, btPc, btNodes, btRecs, up, steady>>

\* CLI::shutdown calls peer_manager->stop(): clear running, then join.
Stop ==
  /\ mainPc = "serving"
  /\ running' = FALSE
  /\ mainPc' = "joining"
  /\ UNCHANGED <<bootNodes, registered, gen, active, age, hbPc, hbTodo,
                 sleepLeft, btPc, btNodes, btRecs, up, steady>>

Joined ==
  /\ mainPc = "joining"
  /\ hbPc = "exited"
  /\ mainPc' = "stopped"
  /\ UNCHANGED <<running, bootNodes, registered, gen, active, age, hbPc,
                 hbTodo, sleepLeft, btPc, btNodes, btRecs, up, steady>>

-----------------------------------------------------------------------------
(* Heartbeat thread                                                        *)

\* removeStalePeers: under the exclusive lock, erase every peer whose
\* last_seen is more than StaleAfter old.
RemoveStalePeers ==
  /\ hbPc = "sweep"
  /\ registered' = {p \in registered : age[p] <= StaleAfter}
  /\ hbPc' = "snapshot"
  /\ UNCHANGED <<running, mainPc, bootNodes, gen, active, age, hbTodo,
                 sleepLeft, btPc, btNodes, btRecs, up, steady>>

\* broadcastPeerDiscovery starts with getActivePeers(): a snapshot of the
\* shared_ptrs of the active peers, taken under the shared lock.
GetActivePeers ==
  /\ hbPc = "snapshot"
  /\ hbTodo' = {<<p, gen[p]>> : p \in {q \in registered : active[q]}}
  /\ hbPc' = "probe"
  /\ UNCHANGED <<running, mainPc, bootNodes, registered, gen, active, age,
                 sleepLeft, btPc, btNodes, btRecs, up, steady>>

\* One iteration of the probe loop, outside any registry lock: connect to
\* the peer and send PING.  On success updateLastSeen(), on failure
\* setActive(false); either acts on the snapshotted object, which is only
\* visible if it is still the one in the map.  A failed connect may wait
\* for the 10 s timeout (one tick) or be refused at once.
\* Faulty variant: the success branch forgets updateLastSeen().
ProbeOkNoRefresh(o) ==
  /\ up[o[1]]
  /\ UNCHANGED <<age, active>>

ProbeOk(o) ==
  /\ up[o[1]]
  /\ age' = IF Current(o) THEN [age EXCEPT ![o[1]] = 0] ELSE age
  /\ UNCHANGED active

\* Faulty variant: the failure branch calls updateLastSeen() instead of
\* setActive(false).
ProbeFailRefresh(o) ==
  /\ ~up[o[1]]
  /\ age' = IF Current(o) THEN [age EXCEPT ![o[1]] = 0] ELSE age
  /\ UNCHANGED active

ProbeFail(o) ==
  /\ ~up[o[1]]
  /\ active' = IF Current(o) THEN [active EXCEPT ![o[1]] = FALSE] ELSE active
  /\ \E d \in {0, 1} : Older(d)

ProbePeer(o) ==
  /\ hbPc = "probe"
  /\ o \in hbTodo
  /\ hbTodo' = hbTodo \ {o}
  /\ ProbeOk(o) \/ ProbeFail(o)
  /\ UNCHANGED <<running, mainPc, bootNodes, registered, gen, hbPc,
                 sleepLeft, btPc, btNodes, btRecs, up, steady>>

ProbesDone ==
  /\ hbPc = "probe"
  /\ hbTodo = {}
  /\ hbPc' = "sleep"
  /\ sleepLeft' = Period
  /\ UNCHANGED <<running, mainPc, bootNodes, registered, gen, active, age,
                 hbTodo, btPc, btNodes, btRecs, up, steady>>

\* Faulty variant: the sleep is not bounded by its duration.
TickUnbounded ==
  /\ hbPc = "sleep"
  /\ sleepLeft' = sleepLeft - 1
  /\ Older(1)
  /\ UNCHANGED <<running, mainPc, bootNodes, registered, gen, active, hbPc,
                 hbTodo, btPc, btNodes, btRecs, up, steady>>

\* One tick of the 30 s sleep passes.
Tick ==
  /\ hbPc = "sleep"
  /\ sleepLeft > 0
  /\ sleepLeft' = sleepLeft - 1
  /\ Older(1)
  /\ UNCHANGED <<running, mainPc, bootNodes, registered, gen, active, hbPc,
                 hbTodo, btPc, btNodes, btRecs, up, steady>>

\* The sleep ends and the loop re-reads running.
Wake ==
  /\ hbPc = "sleep"
  /\ sleepLeft = 0
  /\ hbPc' = IF running THEN "sweep" ELSE "exited"
  /\ UNCHANGED <<running, mainPc, bootNodes, registered, gen, active, age,
                 hbTodo, sleepLeft, btPc, btNodes, btRecs, up, steady>>

-----------------------------------------------------------------------------
(* Bootstrap thread (detached, never joined)                               *)

\* After its 2 s delay, connectToBootstrapNodes ranges over bootstrap_nodes
\* as it is at that moment.
BeginBootstrap ==
  /\ btPc = "delay"
  /\ btNodes' = bootNodes
  /\ btPc' = "node"
  /\ UNCHANGED <<running, mainPc, bootNodes, registered, gen, active, age,
                 hbPc, hbTodo, sleepLeft, btRecs, up, steady>>

\* Connect and requestPeerList(); a failed connect or a bad reply is logged
\* and the loop moves on to the next endpoint.
FetchPeerList(n) ==
  /\ btPc = "node"
  /\ n \in btNodes
  /\ btNodes' = btNodes \ {n}
  /\ \/ btRecs' = BootReply[n] /\ btPc' = "add"
     \/ UNCHANGED <<btRecs, btPc>>
  /\ UNCHANGED <<running, mainPc, bootNodes, registered, gen, active, age,
                 hbPc, hbTodo, sleepLeft, up, steady>>

EndBootstrap ==
  /\ btPc = "node"
  /\ btNodes = {}
  /\ btPc' = "done"
  /\ UNCHANGED <<running, mainPc, bootNodes, registered, gen, active, age,
                 hbPc, hbTodo, sleepLeft, btNodes, btRecs, up, steady>>

\* Peer::deserialize builds a fresh Peer (last_seen = now, is_active from
\* the record) and addPeer stores it under its id, replacing any object
\* already there.  A record that fails to parse is skipped.
AddPeer(r) ==
  /\ btPc = "add"
  /\ r \in btRecs
  /\ btRecs' = btRecs \ {r}
  /\ \/ /\ registered' = registered \cup {r.id}
        /\ gen' = [gen EXCEPT ![r.id] = @ + 1]
        /\ active' = [active EXCEPT ![r.id] = r.active]
        /\ age' = [age EXCEPT ![r.id] = 0]
        /\ steady' = [steady EXCEPT ![r.id] = r.active /\ up[r.id]]
     \/ UNCHANGED <<registered, gen, active, age, steady>>
  /\ UNCHANGED <<running, mainPc, bootNodes, hbPc, hbTodo, sleepLeft, btPc,
                 btNodes, up>>

PeerListDone ==
  /\ btPc = "add"
  /\ btRecs = {}
  /\ btPc' = "node"
  /\ UNCHANGED <<running, mainPc, bootNodes, registered, gen, active, age,
                 hbPc, hbTodo, sleepLeft, btNodes, btRecs, up, steady>>

-----------------------------------------------------------------------------
(* Environment: remote peers go down and come back                         *)

PeerGoesDown(p) ==
  /\ up[p]
  /\ up' = [up EXCEPT ![p] = FALSE]
  /\ steady' = [steady EXCEPT ![p] = FALSE]
  /\ UNCHANGED <<running, mainPc, bootNodes, registered, gen, active, age,
                 hbPc, hbTodo, sleepLeft, btPc, btNodes, btRecs>>

PeerComesUp(p) ==
  /\ ~up[p]
  /\ up' = [up EXCEPT ![p] = TRUE]
  /\ UNCHANGED <<running, mainPc, bootNodes, registered, gen, active, age,
                 hbPc, hbTodo, sleepLeft, btPc, btNodes, btRecs, steady>>

-----------------------------------------------------------------------------

Heartbeat ==
  \/ RemoveStalePeers \/ GetActivePeers \/ \E o \in hbTodo : ProbePeer(o)
  \/ ProbesDone \/ Wake

Bootstrap ==
  \/ BeginBootstrap \/ \E n \in BootNodes : FetchPeerList(n) \/ EndBootstrap
  \/ \E r \in btRecs : AddPeer(r) \/ PeerListDone

Main == Start \/ \E n \in BootNodes : AddBootstrapNode(n) \/ Stop \/ Joined

Environment == \E p \in Peers : PeerGoesDown(p) \/ PeerComesUp(p)

Next == Main \/ Heartbeat \/ Tick \/ Bootstrap \/ Environment

\* The heartbeat and bootstrap threads are dedicated threads that are never
\* blocked except by their own sleeps, and time passes while one sleeps.
\* The main thread and the remote peers get no fairness: the user may never
\* type exit, and a peer may flap forever.
Fairness ==
  /\ WF_vars(Heartbeat)
  /\ WF_vars(Tick)
  /\ WF_vars(Bootstrap)

Spec == Init /\ [][Next]_vars /\ Fairness

-----------------------------------------------------------------------------
(* Properties                                                              *)

Registered(p) == p \in registered

\* A peer that was added active while reachable and has stayed reachable
\* ever since is never erased by removeStalePeers: the heartbeat probes
\* every active peer often enough (Period plus one round of connect
\* timeouts) that its last_seen never gets 5 minutes old.
LivePeerRetained ==
  [][\A p \in Peers : Registered(p) /\ steady[p] => Registered(p)']_vars

\* A peer that becomes unreachable for good is eventually erased from the
\* registry (or the manager is stopped): its probe fails, it is marked
\* inactive, its last_seen ages, and the stale sweep removes it.
DeadPeerEventuallyEvicted ==
  \A p \in Peers : <>[](~up[p]) => <>[](~Registered(p) \/ ~running)

\* Spec section 4.7: a peer marked inactive by a failed probe that is
\* reachable again is restored by the next successful probe.  Stated as: a
\* registered peer that stays reachable (and the manager running) is
\* eventually registered and active.
InactivePeerRestored ==
  \A p \in Peers :
    [](Registered(p) /\ [](up[p] /\ running) => <>(Registered(p) /\ active[p]))

=============================================================================
