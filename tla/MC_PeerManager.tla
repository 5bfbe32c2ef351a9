--------------------------- MODULE MC_PeerManager ---------------------------
(* Model-checking instance of PeerManager: two remote peers, the two       *)
(* bootstrap endpoints CLI::initialize configures, the code's timing in    *)
(* 10 s ticks (30 s heartbeat, 5 min staleness).                           *)
EXTENDS PeerManager

CONSTANTS p1, p2, b1, b2

\* b1 advertises both peers as active; b2 advertises p1 as inactive, so the
\* bootstrap thread may replace p1's object while a probe holds the old one.
MCBootReply ==
  [n \in {b1, b2} |->
     IF n = b1 THEN {[id |-> p1, active |-> TRUE], [id |-> p2, active |-> TRUE]}
               ELSE {[id |-> p1, active |-> FALSE]}]
=============================================================================
