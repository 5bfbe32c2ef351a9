---------------------------- MODULE MC_ThreadPool ----------------------------
(* Two workers and three tasks: enough for both workers to be busy while a *)
(* third task waits in the queue, for a notify_one with no waiter, and for *)
(* an enqueue to race the shutdown on either side of stop.  One spurious   *)
(* wakeup.                                                                 *)
EXTENDS ThreadPool

CONSTANTS w1, w2, t1, t2, t3

MCWorkers == {w1, w2}
MCTasks == {t1, t2, t3}
=============================================================================
