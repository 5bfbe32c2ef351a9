------------------------------ MODULE TaskQueue ------------------------------
(***************************************************************************)
(* What a worker pool promises its callers (spec section 5: "a bounded     *)
(* worker pool runs outbound download tasks"): a task handed to the pool   *)
(* is either refused, once the pool is closed, or accepted; an accepted    *)
(* task runs exactly once and eventually; nothing is accepted after the    *)
(* pool is closed.  There are no threads, no lock and no queue order.      *)
(***************************************************************************)
EXTENDS Naturals

CONSTANT Tasks

VARIABLES
  accepted,  \* tasks the pool took on
  runs,      \* runs[t]: how many times task t has run
  closed     \* the pool refuses new tasks

vars == <<accepted, runs, closed>>

Init ==
  /\ accepted = {}
  /\ runs = [t \in Tasks |-> 0]
  /\ closed = FALSE

Submit(t) ==
  /\ ~closed /\ t \notin accepted
  /\ accepted' = accepted \cup {t}
  /\ UNCHANGED <<runs, closed>>

Execute(t) ==
  /\ t \in accepted /\ runs[t] = 0
  /\ runs' = [runs EXCEPT ![t] = 1]
  /\ UNCHANGED <<accepted, closed>>

Close ==
  /\ ~closed
  /\ closed' = TRUE
  /\ UNCHANGED <<accepted, runs>>

Next == Close \/ \E t \in Tasks : Submit(t) \/ Execute(t)

\* Every accepted task is eventually run.
Spec == Init /\ [][Next]_vars /\ \A t \in Tasks : WF_vars(Execute(t))

=============================================================================
