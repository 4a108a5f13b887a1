-------------------------- MODULE ElasticExecutor --------------------------
(***************************************************************************)
(* ElasticExecutor.cpp, the default executor of every task: a concurrent   *)
(* queue, worker threads that poll it, and a manager thread that adds a    *)
(* worker when all are occupied and removes one when they are idle.        *)
(*                                                                         *)
(* A task may block its worker until other tasks have ended, as one does   *)
(* that calls get_result() or write_sync().  Clocks are abstracted to what *)
(* the manager's decisions depend on: the occupied rate of a worker is 0   *)
(* or 100 percent, which between two samples can only rise while it        *)
(* stays in one task, and only fall while it stays in none; it is 100 when *)
(* three samples, which stand for occupied_rate_sample_period, have found  *)
(* it in the same task.  With up to three workers, averages of these two   *)
(* fall below 40, between 40 and 95, and above 95, as rates in between do. *)
(* The static executor lives as long as the program; its destruction is    *)
(* not modelled.                                                           *)
(***************************************************************************)
EXTENDS Integers, Sequences, SequencesExt, FiniteSets

CONSTANTS
  Tasks,    \* the functions handed to execute()
  Needs,    \* the tasks whose end each of them waits for
  Before,   \* the tasks handed over before each of them
  Workers,  \* worker threads; there are never more at a time
  NoTask    \* the job of a worker that has none

ASSUME ElasticAssumption ==
  /\ Needs \in [Tasks -> SUBSET Tasks]
  /\ Before \in [Tasks -> SUBSET Tasks]
  /\ NoTask \notin Tasks

VARIABLES
  taskQueue,  \* taskQueue
  workers,    \* the list of workers, in order
  pc,         \* where each worker is in run()
  job,        \* the task it has popped
  stopping,   \* its running flag, negated
  pause_lock, \* who holds its pause_lock
  samples,    \* samples that have found it in its present task, at most 2
  idle,       \* it has run no task since the last sample
  rate,       \* get_occupied_rate() of the last sample, in percent
  manager,    \* where the manager is in run()
  victim,     \* the position of the worker it tries to remove, or 0
  ended,      \* the tasks that have returned
  accepted    \* history: the tasks handed to execute()

worker_vars == <<pc, job, stopping, pause_lock, samples, idle, rate>>
manager_vars == <<workers, manager, victim>>
vars == <<taskQueue, worker_vars, manager_vars, ended, accepted>>

PcStates == {"none",     \* no such thread
             "test",     \* at while (running)
             "try_lock", \* at pause_lock.try_lock()
             "try_pop",  \* at taskQueue.try_pop()
             "running",  \* in task.task()
             "else",     \* in the else branch
             "exited"}   \* out of run()
ManagerStates == {"sampling", "pausing", "stopping", "joining"}

Queued == Range(taskQueue)
Running == {job[w] : w \in Workers} \ {NoTask}
-----------------------------------------------------------------------------
Init ==
  /\ taskQueue = <<>>
  /\ workers = <<>>
  /\ pc = [w \in Workers |-> "none"]
  /\ job = [w \in Workers |-> NoTask]
  /\ stopping = [w \in Workers |-> FALSE]
  /\ pause_lock = [w \in Workers |-> "free"]
  /\ samples = [w \in Workers |-> 0]
  /\ idle = [w \in Workers |-> TRUE]
  /\ rate = [w \in Workers |-> 0]
  /\ manager = "sampling"
  /\ victim = 0
  /\ ended = {}
  /\ accepted = {}

(* execute(t). *)
Execute(t) ==
  /\ t \notin accepted
  /\ Before[t] \subseteq accepted
  /\ taskQueue' = Append(taskQueue, t)
  /\ accepted' = accepted \cup {t}
  /\ UNCHANGED <<worker_vars, manager_vars, ended>>

TestRunning(w) ==
  /\ pc[w] = "test"
  /\ pc' = [pc EXCEPT ![w] = IF stopping[w] THEN "exited" ELSE "try_lock"]
  /\ UNCHANGED <<taskQueue, job, stopping, pause_lock, samples, idle, rate,
                 manager_vars, ended, accepted>>

(* Fault: a worker that does not get the lock pops a task all the same.    *)
FaultLockUnchecked(w) ==
  /\ pc[w] = "try_lock"
  /\ pc' = [pc EXCEPT ![w] = "try_pop"]
  /\ pause_lock' = [pause_lock EXCEPT
                      ![w] = IF @ = "free" THEN "worker" ELSE @]
  /\ UNCHANGED <<taskQueue, job, stopping, samples, idle, rate, manager_vars,
                 ended, accepted>>

TryLock(w) ==
  /\ pc[w] = "try_lock"
  /\ \/ /\ pause_lock[w] = "free"
        /\ pause_lock' = [pause_lock EXCEPT ![w] = "worker"]
        /\ pc' = [pc EXCEPT ![w] = "try_pop"]
     \/ /\ pause_lock[w] # "free"
        /\ pc' = [pc EXCEPT ![w] = "else"]
        /\ UNCHANGED pause_lock
  /\ UNCHANGED <<taskQueue, job, stopping, samples, idle, rate, manager_vars,
                 ended, accepted>>

(* Fault: front and pop are two calls, and another worker comes between. *)
FaultPopTwice(w) ==
  /\ pc[w] = "try_pop"
  /\ taskQueue # <<>>
  /\ job' = [job EXCEPT ![w] = Head(taskQueue)]
  /\ pc' = [pc EXCEPT ![w] = "running"]
  /\ samples' = [samples EXCEPT ![w] = 0]
  /\ idle' = [idle EXCEPT ![w] = FALSE]
  /\ UNCHANGED <<taskQueue, stopping, pause_lock, rate, manager_vars, ended,
                 accepted>>

(* Fault: the result of try_pop() is not looked at. *)
FaultPopUnchecked(w) ==
  /\ pc[w] = "try_pop"
  /\ pc' = [pc EXCEPT ![w] = "running"]
  /\ IF taskQueue = <<>>
     THEN UNCHANGED <<job, taskQueue>>
     ELSE /\ job' = [job EXCEPT ![w] = Head(taskQueue)]
          /\ taskQueue' = Tail(taskQueue)
  /\ samples' = [samples EXCEPT ![w] = 0]
  /\ idle' = [idle EXCEPT ![w] = FALSE]
  /\ UNCHANGED <<stopping, pause_lock, rate, manager_vars, ended, accepted>>

TryPop(w) ==
  /\ pc[w] = "try_pop"
  /\ \/ /\ taskQueue # <<>>
        /\ job' = [job EXCEPT ![w] = Head(taskQueue)]
        /\ taskQueue' = Tail(taskQueue)
        /\ pc' = [pc EXCEPT ![w] = "running"]
        /\ samples' = [samples EXCEPT ![w] = 0]
        /\ idle' = [idle EXCEPT ![w] = FALSE]
     \/ /\ taskQueue = <<>>
        /\ pc' = [pc EXCEPT ![w] = "else"]
        /\ UNCHANGED <<taskQueue, job, samples, idle>>
  /\ UNCHANGED <<stopping, pause_lock, rate, manager_vars, ended, accepted>>

(* The task returns, when what it waits for has ended; pause_lock.unlock() *)
TaskEnds(w) ==
  /\ pc[w] = "running"
  /\ Needs[job[w]] \subseteq ended
  /\ ended' = ended \cup {job[w]}
  /\ job' = [job EXCEPT ![w] = NoTask]
  /\ pause_lock' = [pause_lock EXCEPT ![w] = "free"]
  /\ pc' = [pc EXCEPT ![w] = "test"]
  /\ UNCHANGED <<taskQueue, stopping, samples, idle, rate, manager_vars,
                 accepted>>

(* The else branch unlocks pause_lock also when try_lock() has failed: the *)
(* mutex the manager has locked becomes free.                              *)
Else(w) ==
  /\ pc[w] = "else"
  /\ pause_lock' = [pause_lock EXCEPT ![w] = "free"]
  /\ pc' = [pc EXCEPT ![w] = "test"]
  /\ UNCHANGED <<taskQueue, job, stopping, samples, idle, rate, manager_vars,
                 ended, accepted>>
-----------------------------------------------------------------------------
(* The rates that get_occupied_rate() of w may return.                     *)
Rates(w) ==
  {r \in {0, 100} :
    CASE pc[w] = "running" /\ samples[w] = 1 -> r >= rate[w]
      [] pc[w] = "running" /\ samples[w] = 2 -> r = 100
      [] pc[w] # "running" /\ idle[w] -> r <= rate[w]
      [] OTHER -> TRUE}

(* The manager asks every worker for its rate, and decides in the same step:
   what workers do between these two only makes the decision stale, as the
   steps of TryPause already do. *)
Sample ==
  /\ manager = "sampling"
  /\ rate' \in {r \in [Workers -> {0, 100}] :
                  \A w \in Workers : r[w] \in Rates(w)}
  /\ samples' = [w \in Workers |->
                    IF pc[w] # "running" THEN 0
                    ELSE IF samples[w] < 2 THEN samples[w] + 1 ELSE 2]
  /\ idle' = [w \in Workers |-> pc[w] # "running"]
  /\ UNCHANGED <<taskQueue, job, ended, accepted>>

(* average_rate is at least percent; it is 0 when there is no worker.      *)
AverageAtLeast(percent) ==
  /\ workers # <<>>
  /\ SumFunctionOnSet(rate', Range(workers)) >= percent * Len(workers)

(* A worker starts and is added to the list; which name it gets is no      *)
(* matter.                                                                 *)
StartWorker ==
  LET w == CHOOSE w \in Workers : pc[w] = "none"
  IN
    /\ \E v \in Workers : pc[v] = "none"
    /\ workers' = Append(workers, w)
    /\ pc' = [pc EXCEPT ![w] = "test"]
    /\ stopping' = [stopping EXCEPT ![w] = FALSE]
    /\ pause_lock' = [pause_lock EXCEPT ![w] = "free"]

(* Fault: only an executor without workers gets one. *)
FaultNeverExpand ==
  /\ Sample
  /\ workers = <<>> /\ taskQueue # <<>>
  /\ StartWorker
  /\ UNCHANGED <<manager, victim>>

(* expand_threshold: all workers are occupied, or there is none. *)
Expand ==
  /\ Sample
  /\ AverageAtLeast(95) \/ workers = <<>>
  /\ taskQueue # <<>>
  /\ StartWorker
  /\ UNCHANGED <<manager, victim>>

(* expire_threshold: the manager looks for a worker to pause. *)
Shrink ==
  /\ Sample
  /\ ~AverageAtLeast(40) /\ Len(workers) > 1
  /\ manager' = "pausing"
  /\ victim' = 1
  /\ UNCHANGED <<workers, pc, stopping, pause_lock>>

(* A round in which the rates, or the empty queue, ask for no change. *)
Keep ==
  /\ Sample
  /\ ~(AverageAtLeast(95) \/ workers = <<>>) \/ taskQueue = <<>>
  /\ AverageAtLeast(40) \/ Len(workers) <= 1
  /\ UNCHANGED <<pc, stopping, pause_lock, manager_vars>>

(* try_pause() of the workers in order, up to the first that succeeds. *)
TryPause ==
  /\ manager = "pausing"
  /\ \/ /\ pause_lock[workers[victim]] = "free"
        /\ pause_lock' = [pause_lock EXCEPT ![workers[victim]] = "manager"]
        /\ manager' = "stopping"
        /\ UNCHANGED victim
     \/ /\ pause_lock[workers[victim]] # "free"
        /\ IF victim = Len(workers)
           THEN manager' = "sampling" /\ victim' = 0
           ELSE /\ victim' = victim + 1
                /\ UNCHANGED manager
        /\ UNCHANGED pause_lock
  /\ UNCHANGED <<taskQueue, workers, pc, job, stopping, samples, idle, rate,
                 ended, accepted>>

(* Fault: the destructor of the worker joins without stop(). *)
FaultNoStop ==
  /\ manager = "stopping"
  /\ manager' = "joining"
  /\ UNCHANGED <<taskQueue, workers, victim, pc, job, stopping, pause_lock,
                 samples, idle, rate, ended, accepted>>

(* erase(): the destructor of the worker calls stop() ... *)
Stop ==
  /\ manager = "stopping"
  /\ stopping' = [stopping EXCEPT ![workers[victim]] = TRUE]
  /\ manager' = "joining"
  /\ UNCHANGED <<taskQueue, workers, victim, pc, job, pause_lock, samples,
                 idle, rate, ended, accepted>>

(* ... and join(). *)
Join ==
  /\ manager = "joining"
  /\ pc[workers[victim]] = "exited"
  /\ pc' = [pc EXCEPT ![workers[victim]] = "none"]
  /\ rate' = [rate EXCEPT ![workers[victim]] = 0]
  /\ idle' = [idle EXCEPT ![workers[victim]] = TRUE]
  /\ workers' = RemoveAt(workers, victim)
  /\ manager' = "sampling"
  /\ victim' = 0
  /\ UNCHANGED <<taskQueue, job, stopping, pause_lock, samples, ended,
                 accepted>>

Work(w) == TestRunning(w) \/ TryLock(w) \/ TryPop(w) \/ TaskEnds(w) \/ Else(w)
Manage == Expand \/ Shrink \/ Keep \/ TryPause \/ Stop \/ Join

Next ==
  \/ \E t \in Tasks : Execute(t)
  \/ \E w \in Workers : Work(w)
  \/ Manage

(* Workers and the manager go on after their sleeps. *)
Fairness ==
  /\ \A w \in Workers : WF_vars(Work(w))
  /\ WF_vars(Manage)

Spec == Init /\ [][Next]_vars
FairSpec == Spec /\ Fairness
-----------------------------------------------------------------------------
(* The type invariant: a worker in a task has one, and the list holds the  *)
(* threads there are.                                                      *)
TypeOK ==
  /\ taskQueue \in Seq(Tasks)
  /\ pc \in [Workers -> PcStates]
  /\ job \in [Workers -> Tasks \cup {NoTask}]
  /\ \A w \in Workers : pc[w] = "running" <=> job[w] # NoTask
  /\ stopping \in [Workers -> BOOLEAN]
  /\ pause_lock \in [Workers -> {"free", "worker", "manager"}]
  /\ samples \in [Workers -> 0 .. 2]
  /\ idle \in [Workers -> BOOLEAN]
  /\ rate \in [Workers -> {0, 100}]
  /\ workers \in Seq(Workers) /\ IsInjective(workers)
  /\ Range(workers) = {w \in Workers : pc[w] # "none"}
  /\ manager \in ManagerStates
  /\ victim \in 0 .. Len(workers)
  /\ ended \subseteq Tasks
  /\ accepted \subseteq Tasks

(* However workers come and go, an accepted task is in the queue, in one   *)
(* worker's hands or ended, and in one of these places only.               *)
RunOnce ==
  /\ accepted = Queued \cup Running \cup ended
  /\ IsInjective(taskQueue)
  /\ Queued \cap Running = {} /\ (Queued \cup Running) \cap ended = {}
  /\ \A v, w \in Workers : job[v] = job[w] /\ v # w => job[v] = NoTask

(* Although a worker unlocks the mutex that the manager has locked, one in *)
(* a task holds its pause_lock until the task returns: what try_pause()    *)
(* pauses was idle when it did.                                            *)
PauseSparesTasks ==
  \A w \in Workers : pc[w] = "running" => pause_lock[w] = "worker"

PausedRuns == manager = "joining" /\ pc[workers[victim]] = "running"

(* The manager comes back from the destructor of the worker it removes,    *)
(* unless that worker has taken a task although it was paused: then it     *)
(* comes back when the task returns, which may be never.                   *)
ManagerReturns == manager = "joining" ~> manager = "sampling" \/ PausedRuns

(* Whatever the tasks in the workers wait for, the queue gets empty, so    *)
(* that each of finitely many tasks starts; with the same exception.       *)
QueuedStarts == taskQueue # <<>> ~> (taskQueue = <<>> \/ PausedRuns)
=============================================================================
