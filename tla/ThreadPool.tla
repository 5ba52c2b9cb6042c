----------------------------- MODULE ThreadPool -----------------------------
(***************************************************************************)
(* The thread pool (threadpool/): pool_core with fifo_scheduler,           *)
(* static_size and wait_for_all_tasks, which is what the type pool names.  *)
(* A step is one stretch of a thread between taking m_monitor and giving   *)
(* it up, by unlocking or by waiting on one of the two conditions.  A      *)
(* worker waits on m_task_or_terminate_workers_event, everybody else on    *)
(* m_worker_idle_or_terminated_event.                                      *)
(***************************************************************************)
EXTENDS Integers, Sequences, FiniteSets

CONSTANTS Worker,     \* threads that can be created
          Task, NoTask,
          Throwing,   \* tasks that end with an exception (thread_interrupted:
                      \* boost::thread ends the process at any other)
          Caller,     \* threads that wait for the pool or shut it down
          Size,       \* bound: arguments of resize
          Threshold,  \* bound: arguments of wait
          MaxResize   \* bound: calls of resize, the constructor's included

ASSUME PoolAssumption ==
  /\ IsFiniteSet(Worker)
  /\ NoTask \notin Task
  /\ Throwing \subseteq Task
  /\ Size \subseteq Nat
  /\ Threshold \subseteq Nat
  /\ MaxResize \in Nat

VARIABLES
  queue,        \* m_scheduler
  workerCount,  \* m_worker_count
  target,       \* m_target_worker_count
  active,       \* m_active_worker_count
  terminating,  \* m_terminate_all_workers
  terminated,   \* m_terminated_workers
  at,           \* where each worker is in run() and execute_task()
  job,          \* the task a worker has fetched
  callerAt,     \* where each caller is in wait() or shutdown()
  threshold,    \* task_threshold of a caller's wait
  blocked,      \* callers waiting for the idle event
  past,         \* history: tasks run or cleared
  resizes       \* history: calls of resize

counters   == <<workerCount, target, active>>
callerVars == <<callerAt, threshold>>
poolVars   == <<queue, counters, terminating, terminated, at, job, callerVars,
                blocked, past, resizes>>

\* "none": not created yet.  "loop": on its way into execute_task.  "idle":
\* in wait(); "woken": notified, m_monitor not yet taken again.  "leaving",
\* "dying": about to call worker_destructed, worker_died_unexpectedly.
WorkerPlace == {"none", "loop", "idle", "woken", "run", "leaving", "dying",
                "gone"}
\* "flush" and "join" are the two halves of shutdown().
CallerPlace == {"out", "wait", "timed_wait", "flush", "flushed", "join",
                "closed"}

In(places) == {w \in Worker : at[w] \in places}
Pending    == {queue[i] : i \in DOMAIN queue}
Fetched    == {job[w] : w \in In({"run"})}

\* The last handle of the pool is gone: no more calls from outside.
Closing == \E c \in Caller :
             callerAt[c] \in {"flush", "flushed", "join", "closed"}

PoolInit ==
  /\ queue = <<>>
  /\ workerCount = 0 /\ target = 0 /\ active = 0
  /\ terminating = FALSE
  /\ terminated = {}
  /\ at = [w \in Worker |-> "none"]
  /\ job = [w \in Worker |-> NoTask]
  /\ callerAt = [c \in Caller |-> "out"]
  /\ threshold = [c \in Caller |-> 0]
  /\ blocked = {}
  /\ past = {}
  /\ resizes = 0

-----------------------------------------------------------------------------
(* Calls from outside *)

\* Mutant: somebody is woken only if the queue was empty.
NotifyOne_IfEmpty ==
  \/ /\ In({"idle"}) # {} /\ queue = <<>>
     /\ \E w \in In({"idle"}) : at' = [at EXCEPT ![w] = "woken"]
  \/ /\ In({"idle"}) = {} \/ queue # <<>>
     /\ UNCHANGED at

\* notify_one on the task event
NotifyOne ==
  \/ \E w \in In({"idle"}) : at' = [at EXCEPT ![w] = "woken"]
  \/ /\ In({"idle"}) = {}
     /\ UNCHANGED at

\* notify_all on the task event
Woken == [w \in Worker |-> IF at[w] = "idle" THEN "woken" ELSE at[w]]

\* A task may schedule another one even while the pool is shut down.
Schedule(t) ==
  /\ ~Closing \/ Fetched # {}
  /\ t \notin Pending \cup Fetched \cup past
  /\ queue' = Append(queue, t)
  /\ NotifyOne
  /\ UNCHANGED <<counters, terminating, terminated, job, callerVars, blocked,
                 past, resizes>>

Clear ==
  /\ ~Closing
  /\ queue # <<>>
  /\ queue' = <<>>
  /\ past' = past \cup Pending
  /\ UNCHANGED <<counters, terminating, terminated, at, job, callerVars,
                 blocked, resizes>>

\* Mutant: a new worker is not counted as active.
ResizeTo_NotActive(n, places, count, running) ==
  /\ target' = n
  /\ \/ /\ count <= n
        /\ \E new \in SUBSET {w \in Worker : places[w] = "none"} :
             /\ Cardinality(new) <= n - count
             /\ at' = [w \in Worker |-> IF w \in new THEN "loop" ELSE places[w]]
             /\ workerCount' = count + Cardinality(new)
             /\ active' = running
     \/ /\ count > n
        /\ at' = [w \in Worker |-> IF places[w] = "idle" THEN "woken"
                                                         ELSE places[w]]
        /\ workerCount' = count
        /\ active' = running

\* resize(n) creates the missing workers, fewer if the system has no more
\* threads to give, or wakes all to let the superfluous ones leave.  places
\* and count are at and workerCount as the caller leaves them.
ResizeTo(n, places, count, running) ==
  /\ target' = n
  /\ \/ /\ count <= n
        /\ \E new \in SUBSET {w \in Worker : places[w] = "none"} :
             /\ Cardinality(new) <= n - count
             /\ at' = [w \in Worker |-> IF w \in new THEN "loop" ELSE places[w]]
             /\ workerCount' = count + Cardinality(new)
             /\ active' = running + Cardinality(new)
     \/ /\ count > n
        /\ at' = [w \in Worker |-> IF places[w] = "idle" THEN "woken"
                                                         ELSE places[w]]
        /\ workerCount' = count
        /\ active' = running

Resize(n) ==
  /\ ~Closing
  /\ ~terminating
  /\ resizes < MaxResize
  /\ resizes' = resizes + 1
  /\ ResizeTo(n, at, workerCount, active)
  /\ UNCHANGED <<queue, terminating, terminated, job, callerVars, blocked,
                 past>>

-----------------------------------------------------------------------------
(* Workers: run() and execute_task() *)

\* Mutant: the task is not removed from the queue.
Fetch_NotPopped(w) ==
  /\ queue # <<>>
  /\ job' = [job EXCEPT ![w] = Head(queue)]
  /\ at' = [at EXCEPT ![w] = "run"]
  /\ UNCHANGED <<queue, blocked>>

\* Fetch the oldest task; m_monitor is given up before it runs.
Fetch(w) ==
  /\ queue # <<>>
  /\ queue' = Tail(queue)
  /\ job' = [job EXCEPT ![w] = Head(queue)]
  /\ at' = [at EXCEPT ![w] = "run"]
  /\ UNCHANGED blocked

\* Mutant: a worker that finds nothing to do notifies nobody.
GoIdle_Silent(w) ==
  /\ queue = <<>>
  /\ at' = [at EXCEPT ![w] = "idle"]
  /\ UNCHANGED <<queue, job, blocked>>

\* Nothing to do: notify_all on the idle event, and wait.
GoIdle(w) ==
  /\ queue = <<>>
  /\ at' = [at EXCEPT ![w] = "idle"]
  /\ blocked' = {}
  /\ UNCHANGED <<queue, job>>

Leave(w) ==
  /\ workerCount > target
  /\ at' = [at EXCEPT ![w] = "leaving"]
  /\ UNCHANGED <<queue, job, blocked>>

Enter(w) ==
  /\ at[w] = "loop"
  /\ \/ Leave(w) /\ UNCHANGED active
     \/ workerCount <= target /\ Fetch(w) /\ UNCHANGED active
     \/ workerCount <= target /\ GoIdle(w) /\ active' = active - 1
  /\ UNCHANGED <<workerCount, target, terminating, terminated, callerVars,
                 past, resizes>>

\* Mutant: a woken worker that finds a task is not counted as active.
Resume_NotCounted(w) ==
  /\ at[w] = "woken"
  /\ \/ Fetch(w) /\ UNCHANGED active
     \/ queue = <<>> /\ Leave(w) /\ active' = active + 1
     \/ workerCount <= target /\ GoIdle(w) /\ UNCHANGED active
  /\ UNCHANGED <<workerCount, target, terminating, terminated, callerVars,
                 past, resizes>>

\* After the wait inside execute_task: a task comes first, even if there are
\* too many workers.
Resume(w) ==
  /\ at[w] = "woken"
  /\ \/ Fetch(w) /\ active' = active + 1
     \/ queue = <<>> /\ Leave(w) /\ active' = active + 1
     \/ workerCount <= target /\ GoIdle(w) /\ UNCHANGED active
  /\ UNCHANGED <<workerCount, target, terminating, terminated, callerVars,
                 past, resizes>>

SpuriousWakeup(w) ==
  /\ at[w] = "idle"
  /\ at' = [at EXCEPT ![w] = "woken"]
  /\ UNCHANGED <<queue, counters, terminating, terminated, job, callerVars,
                 blocked, past, resizes>>

\* The task returns or throws.
EndTask(w) ==
  /\ at[w] = "run"
  /\ past' = past \cup {job[w]}
  /\ job' = [job EXCEPT ![w] = NoTask]
  /\ at' = [at EXCEPT ![w] = IF job[w] \in Throwing THEN "dying" ELSE "loop"]
  /\ UNCHANGED <<queue, counters, terminating, terminated, callerVars, blocked,
                 resizes>>

\* Mutant: nobody is notified of the end of a worker.
WorkerDestructed_Silent(w) ==
  /\ at[w] = "leaving"
  /\ at' = [at EXCEPT ![w] = "gone"]
  /\ workerCount' = workerCount - 1
  /\ active' = active - 1
  /\ terminated' = IF terminating THEN terminated \cup {w} ELSE terminated
  /\ UNCHANGED <<queue, target, terminating, job, callerVars, blocked, past,
                 resizes>>

\* worker_destructed
WorkerDestructed(w) ==
  /\ at[w] = "leaving"
  /\ at' = [at EXCEPT ![w] = "gone"]
  /\ workerCount' = workerCount - 1
  /\ active' = active - 1
  /\ blocked' = {}
  /\ terminated' = IF terminating THEN terminated \cup {w} ELSE terminated
  /\ UNCHANGED <<queue, target, terminating, job, callerVars, past, resizes>>

\* worker_died_unexpectedly: static_size resizes to one more worker than are
\* left, and so resets the target.
WorkerDiedUnexpectedly(w) ==
  /\ at[w] = "dying"
  /\ blocked' = {}
  /\ terminated' = IF terminating THEN terminated \cup {w} ELSE terminated
  /\ IF terminating
       THEN /\ at' = [at EXCEPT ![w] = "gone"]
            /\ workerCount' = workerCount - 1
            /\ active' = active - 1
            /\ UNCHANGED target
       ELSE ResizeTo(workerCount, [at EXCEPT ![w] = "gone"], workerCount - 1,
                     active - 1)
  /\ UNCHANGED <<queue, terminating, job, callerVars, past, resizes>>

-----------------------------------------------------------------------------
(* Callers: wait() and shutdown() *)

Settled(c) == active + Len(queue) <= threshold[c]

CallWait(c, th, kind) ==
  /\ ~Closing
  /\ callerAt[c] = "out"
  /\ callerAt' = [callerAt EXCEPT ![c] = kind]
  /\ threshold' = [threshold EXCEPT ![c] = th]
  /\ UNCHANGED <<queue, counters, terminating, terminated, at, job, blocked,
                 past, resizes>>

\* The handle of the pool is given up: pool.wait(), then
\* terminate_all_workers(true).
Shutdown(c) ==
  /\ \A d \in Caller : callerAt[d] = "out"
  /\ callerAt' = [callerAt EXCEPT ![c] = "flush"]
  /\ threshold' = [threshold EXCEPT ![c] = 0]
  /\ UNCHANGED <<queue, counters, terminating, terminated, at, job, blocked,
                 past, resizes>>

\* The while loop of wait()
Check(c) ==
  /\ callerAt[c] \in {"wait", "timed_wait", "flush"}
  /\ c \notin blocked
  /\ \/ /\ Settled(c)
        /\ callerAt' = [callerAt EXCEPT ![c] =
                          IF @ = "flush" THEN "flushed" ELSE "out"]
        /\ UNCHANGED blocked
     \/ /\ ~Settled(c)
        /\ blocked' = blocked \cup {c}
        /\ UNCHANGED callerAt
  /\ UNCHANGED <<queue, counters, terminating, terminated, at, job, threshold,
                 past, resizes>>

\* timed_wait returns false
WaitTimeout(c) ==
  /\ callerAt[c] = "timed_wait"
  /\ c \in blocked
  /\ callerAt' = [callerAt EXCEPT ![c] = "out"]
  /\ blocked' = blocked \ {c}
  /\ UNCHANGED <<queue, counters, terminating, terminated, at, job, threshold,
                 past, resizes>>

\* Wait until nobody is active, then join the workers in m_terminated_workers,
\* which have nothing left to do but return.
JoinLoop(c) ==
  \/ /\ active > 0
     /\ callerAt' = [callerAt EXCEPT ![c] = "join"]
     /\ blocked' = blocked \cup {c}
     /\ UNCHANGED terminated
  \/ /\ active = 0
     /\ callerAt' = [callerAt EXCEPT ![c] = "closed"]
     /\ terminated' = {}
     /\ UNCHANGED blocked

TerminateAllWorkers(c) ==
  /\ callerAt[c] = "flushed"
  /\ terminating' = TRUE
  /\ target' = 0
  /\ at' = Woken
  /\ JoinLoop(c)
  /\ UNCHANGED <<queue, workerCount, active, job, threshold, past, resizes>>

Rejoin(c) ==
  /\ callerAt[c] = "join"
  /\ c \notin blocked
  /\ JoinLoop(c)
  /\ UNCHANGED <<queue, counters, terminating, at, job, threshold, past,
                 resizes>>

-----------------------------------------------------------------------------
WorkerStep(w) == \/ Enter(w) \/ Resume(w) \/ EndTask(w)
                 \/ WorkerDestructed(w) \/ WorkerDiedUnexpectedly(w)
CallerStep(c) == Check(c) \/ TerminateAllWorkers(c) \/ Rejoin(c)

PoolNext ==
  \/ \E t \in Task : Schedule(t)
  \/ Clear
  \/ \E n \in Size : Resize(n)
  \/ \E w \in Worker : WorkerStep(w) \/ SpuriousWakeup(w)
  \/ \E c \in Caller :
       \/ \E th \in Threshold, kind \in {"wait", "timed_wait"} :
            CallWait(c, th, kind)
       \/ WaitTimeout(c) \/ Shutdown(c) \/ CallerStep(c)

PoolSpec == PoolInit /\ [][PoolNext]_poolVars

\* Threads that can run do, and tasks end.
PoolFairSpec ==
  /\ PoolSpec
  /\ \A w \in Worker : WF_poolVars(WorkerStep(w))
  /\ \A c \in Caller : WF_poolVars(CallerStep(c))

-----------------------------------------------------------------------------
(* Properties *)

\* The two counters, changed at five places in two orders, always tell how
\* many threads there are and how many of them do not wait: wait() and
\* terminate_all_workers() rely on them (pool_core.hpp:248, 308, 426-429).
CountersMatch ==
  /\ workerCount = Cardinality(Worker \ In({"none", "gone"}))
  /\ active = Cardinality(In({"loop", "run", "leaving", "dying"}))

\* No wake-up is lost: as long as a worker sleeps un-notified, every pending
\* task has a worker of its own on its way to it, although the task event is
\* also used for shrinking and a worker that runs a task may die of it
\* (pool_core.hpp:188, 304, 361, 428).
NoLostWakeup ==
  In({"idle"}) # {} => Len(queue) <= Cardinality(In({"loop", "woken"}))

\* wait(0) returns, and the two halves of shutdown() end, only when nothing is
\* pending and nothing runs: the pool that is closed is quiet, although tasks
\* may schedule tasks to the last (pool_core.hpp:248-251, 308-311,
\* shutdown_policies.hpp:38-42).
QuietAfterWait ==
  [][\A c \in Caller :
       /\ \/ callerAt[c] \in {"wait", "flush"} /\ threshold[c] = 0
          \/ callerAt'[c] = "closed"
       /\ callerAt'[c] # callerAt[c]
       => queue = <<>> /\ Fetched = {}]_poolVars

\* Shutting down comes to an end, also of the workers that it does not join
\* because they slept when nobody was active, unless the pool has no worker left
\* for the tasks that are pending (pool_core.hpp:248-251, 304, 308-319).
ShutdownReturns == \A c \in Caller :
  (callerAt[c] = "flush") ~> \/ callerAt[c] = "closed" /\ Worker = In({"none", "gone"})
                             \/ workerCount = 0 /\ queue # <<>>

\* Every wait returns, whatever its threshold, as long as there are workers:
\* neither clear nor the end of a task notifies it, but who comes to the end of
\* the queue does (pool_core.hpp:255-258, 390-392, 427).
WaitReturns == \A c \in Caller :
  (callerAt[c] = "wait") ~> callerAt[c] # "wait" \/ workerCount = 0

\* The pool implements the executor: whatever threads come, go or die, a task
\* is begun once, in order (pool_core.hpp:178, "will be executed once only").
Exec == INSTANCE Executor WITH Threads <- Cardinality(Worker),
                               pending <- queue, running <- Fetched
ImplementsExecutor == Exec!ExecSpec
=============================================================================
