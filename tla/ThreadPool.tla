----------------------------- MODULE ThreadPool -----------------------------
(***************************************************************************)
(* ThreadPool (src/src/ThreadPool.cpp, src/include/ThreadPool.h): worker   *)
(* threads take tasks from a std::queue guarded by queue_mutex and sleep   *)
(* on a condition variable; enqueue pushes under the mutex unless stop is  *)
(* set, then notify_one; shutdown sets stop under the mutex, notify_all,   *)
(* and joins every worker.                                                  *)
(*                                                                         *)
(* The mutex is held across more than one step only by a worker that has   *)
(* found the wait predicate false and has not yet entered cv.wait (which   *)
(* releases it atomically); every other critical section is one step that *)
(* needs the mutex free.  A notify wakes waiting threads only: a notify    *)
(* with no waiter is lost.  A woken worker re-acquires the mutex and tests *)
(* the predicate again, as the predicate form of wait does.  enqueue and   *)
(* shutdown may be called from any threads; each task is enqueued by a     *)
(* caller of its own.                                                      *)
(***************************************************************************)
EXTENDS Naturals, Sequences

CONSTANTS
  Workers,      \* the threads the constructor spawns
  Tasks,        \* tasks handed to enqueue, one caller each
  MaxSpurious,  \* bound on spurious wakeups of condition.wait
  NoTask        \* a worker holds no task

ASSUME NoTask \notin Tasks /\ MaxSpurious \in Nat

VARIABLES
  wpc,       \* wpc[w]: where worker w is in its for(;;) loop
  wtask,     \* wtask[w]: the task worker w moved out of the queue
  queue,     \* tasks
  stop,      \* stop
  cpc,       \* cpc[t]: where the enqueue of task t is
  runs,      \* runs[t]: how often task t's body has run
  mpc,       \* where the owner's shutdown call is
  spurious   \* spurious wakeups so far

vars == <<wpc, wtask, queue, stop, cpc, runs, mpc, spurious>>

TypeOK ==
  /\ wpc \in [Workers -> {"top", "blocking", "waiting", "run", "exited"}]
  /\ wtask \in [Workers -> Tasks \cup {NoTask}]
  /\ queue \in Seq(Tasks) /\ stop \in BOOLEAN
  /\ cpc \in [Tasks -> {"idle", "notify", "done", "rejected"}]
  /\ runs \in [Tasks -> 0..1]
  /\ mpc \in {"running", "notify", "join", "done"}
  /\ spurious \in 0..MaxSpurious

\* The constructor: stop(false), then one thread per worker entering for(;;).
Init ==
  /\ wpc = [w \in Workers |-> "top"] /\ wtask = [w \in Workers |-> NoTask]
  /\ queue = <<>> /\ stop = FALSE
  /\ cpc = [t \in Tasks |-> "idle"] /\ runs = [t \in Tasks |-> 0]
  /\ mpc = "running" /\ spurious = 0

\* queue_mutex is free unless a worker holds it between the predicate test
\* and cv.wait.
LockFree == \A w \in Workers : wpc[w] # "blocking"

Waiting == {w \in Workers : wpc[w] = "waiting"}

-----------------------------------------------------------------------------
(* Workers                                                                 *)

\* Faulty variant: the task is copied from the front but never popped.
WorkerCheckNoPop(w) ==
  /\ wpc[w] = "top" /\ LockFree
  /\ \/ /\ ~stop /\ queue = <<>>
        /\ wpc' = [wpc EXCEPT ![w] = "blocking"] /\ UNCHANGED <<wtask, queue>>
     \/ /\ stop /\ queue = <<>>
        /\ wpc' = [wpc EXCEPT ![w] = "exited"] /\ UNCHANGED <<wtask, queue>>
     \/ /\ queue # <<>>
        /\ wtask' = [wtask EXCEPT ![w] = Head(queue)]
        /\ wpc' = [wpc EXCEPT ![w] = "run"] /\ UNCHANGED queue
  /\ UNCHANGED <<stop, cpc, runs, mpc, spurious>>

\* Lock queue_mutex and test stop || !tasks.empty().  False: keep the lock
\* and go on to wait.  True: return if stop and the queue is empty, else
\* move the front task out, pop it and unlock.
WorkerCheck(w) ==
  /\ wpc[w] = "top" /\ LockFree
  /\ \/ /\ ~stop /\ queue = <<>>
        /\ wpc' = [wpc EXCEPT ![w] = "blocking"] /\ UNCHANGED <<wtask, queue>>
     \/ /\ stop /\ queue = <<>>
        /\ wpc' = [wpc EXCEPT ![w] = "exited"] /\ UNCHANGED <<wtask, queue>>
     \/ /\ queue # <<>>
        /\ wtask' = [wtask EXCEPT ![w] = Head(queue)] /\ queue' = Tail(queue)
        /\ wpc' = [wpc EXCEPT ![w] = "run"]
  /\ UNCHANGED <<stop, cpc, runs, mpc, spurious>>

\* condition.wait releases the mutex and blocks, in one atomic step.
WorkerWait(w) ==
  /\ wpc[w] = "blocking"
  /\ wpc' = [wpc EXCEPT ![w] = "waiting"]
  /\ UNCHANGED <<wtask, queue, stop, cpc, runs, mpc, spurious>>

\* task() outside the lock; the packaged_task keeps any exception for the
\* future, so neither catch block is reached.  Back to the top of for(;;).
WorkerRun(w) ==
  /\ wpc[w] = "run"
  /\ runs' = [runs EXCEPT ![wtask[w]] = @ + 1]
  /\ wpc' = [wpc EXCEPT ![w] = "top"] /\ wtask' = [wtask EXCEPT ![w] = NoTask]
  /\ UNCHANGED <<queue, stop, cpc, mpc, spurious>>

\* condition.wait may return without a notify.
SpuriousWakeup(w) ==
  /\ wpc[w] = "waiting" /\ spurious < MaxSpurious
  /\ wpc' = [wpc EXCEPT ![w] = "top"] /\ spurious' = spurious + 1
  /\ UNCHANGED <<wtask, queue, stop, cpc, runs, mpc>>

-----------------------------------------------------------------------------
(* enqueue                                                                 *)

\* Faulty variant: the stop test is missing.
EnqueueNoStopCheck(t) ==
  /\ cpc[t] = "idle" /\ LockFree
  /\ queue' = Append(queue, t) /\ cpc' = [cpc EXCEPT ![t] = "notify"]
  /\ UNCHANGED <<wpc, wtask, stop, runs, mpc, spurious>>

\* Under the mutex: throw if stop, else push the wrapped task.
Enqueue(t) ==
  /\ cpc[t] = "idle" /\ LockFree
  /\ \/ /\ stop
        /\ cpc' = [cpc EXCEPT ![t] = "rejected"] /\ UNCHANGED queue
     \/ /\ ~stop
        /\ queue' = Append(queue, t) /\ cpc' = [cpc EXCEPT ![t] = "notify"]
  /\ UNCHANGED <<wpc, wtask, stop, runs, mpc, spurious>>

\* After unlocking, notify_one: one waiting worker, if any, wakes.
NotifyOne(t) ==
  /\ cpc[t] = "notify"
  /\ cpc' = [cpc EXCEPT ![t] = "done"]
  /\ \/ \E w \in Waiting : wpc' = [wpc EXCEPT ![w] = "top"]
     \/ Waiting = {} /\ UNCHANGED wpc
  /\ UNCHANGED <<wtask, queue, stop, runs, mpc, spurious>>

-----------------------------------------------------------------------------
(* shutdown, called by the owner or by ~ThreadPool                         *)

\* Faulty variant: stop is stored without taking the mutex.
ShutdownStopUnlocked ==
  /\ mpc = "running"
  /\ stop' = TRUE /\ mpc' = "notify"
  /\ UNCHANGED <<wpc, wtask, queue, cpc, runs, spurious>>

\* Lock the mutex, stop := true, unlock.
ShutdownStop ==
  /\ mpc = "running" /\ LockFree
  /\ stop' = TRUE /\ mpc' = "notify"
  /\ UNCHANGED <<wpc, wtask, queue, cpc, runs, spurious>>

\* notify_all: every waiting worker wakes.
NotifyAll ==
  /\ mpc = "notify"
  /\ wpc' = [w \in Workers |-> IF wpc[w] = "waiting" THEN "top" ELSE wpc[w]]
  /\ mpc' = "join"
  /\ UNCHANGED <<wtask, queue, stop, cpc, runs, spurious>>

\* join every worker, then workers.clear().
JoinWorkers ==
  /\ mpc = "join" /\ \A w \in Workers : wpc[w] = "exited"
  /\ mpc' = "done"
  /\ UNCHANGED <<wpc, wtask, queue, stop, cpc, runs, spurious>>

\* The pool is gone and every caller has returned.
Terminated ==
  /\ mpc = "done" /\ \A t \in Tasks : cpc[t] \in {"done", "rejected"}
  /\ UNCHANGED vars

-----------------------------------------------------------------------------

Worker(w) == WorkerCheck(w) \/ WorkerWait(w) \/ WorkerRun(w)

Next ==
  \/ \E w \in Workers : Worker(w) \/ SpuriousWakeup(w)
  \/ \E t \in Tasks : Enqueue(t) \/ NotifyOne(t)
  \/ ShutdownStop \/ NotifyAll \/ JoinWorkers
  \/ Terminated

\* Every worker thread is scheduled, and enqueue and shutdown, once called,
\* run to the end.  Nothing forces a caller to enqueue or the owner to shut
\* the pool down.
Fairness ==
  /\ \A w \in Workers : WF_vars(Worker(w))
  /\ \A t \in Tasks : WF_vars(NotifyOne(t))
  /\ WF_vars(NotifyAll) /\ WF_vars(JoinWorkers)

Spec == Init /\ [][Next]_vars /\ Fairness

-----------------------------------------------------------------------------
(* Properties                                                              *)

\* Once shutdown has joined the workers, every task enqueue accepted has
\* run.  enqueue tests stop under the mutex under which shutdown sets it,
\* and a worker returns only when stop is set and the queue is empty; a
\* push after the last worker returned would be a task whose future never
\* becomes ready.
NoTaskStranded ==
  mpc = "done" => \A t \in Tasks : cpc[t] \in {"notify", "done"} => runs[t] = 1

\* A shutdown that has set stop returns.  Because stop is set under the
\* mutex, a worker that found it false is already waiting when notify_all
\* comes, so no worker sleeps through it and every join returns.
ShutdownReturns == (mpc = "notify") ~> (mpc = "done")

Pool == INSTANCE TaskQueue
          WITH accepted <- {t \in Tasks : cpc[t] \in {"notify", "done"}},
               closed <- stop

\* The pool implements TaskQueue: enqueue accepts only before stop, each
\* accepted task is taken from the queue and run exactly once, and every
\* accepted task eventually runs, whether or not shutdown is called.
PoolRefined == Pool!Spec

=============================================================================
