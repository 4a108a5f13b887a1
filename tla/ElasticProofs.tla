--------------------------- MODULE ElasticProofs ---------------------------
(***************************************************************************)
(* Proofs about ElasticExecutor, for any tasks, any number of workers and  *)
(* whatever the tasks wait for.                                            *)
(***************************************************************************)
EXTENDS ElasticExecutor, ListLemmas, TLAPS

(* From try_lock() to the end of the task nobody else gets the lock.       *)
LockHeld ==
  \A w \in Workers : pc[w] \in {"try_pop", "running"} => pause_lock[w] = "worker"

(* The worker that is being removed is on the list.                        *)
VictimListed == manager # "sampling" => victim \in DOMAIN workers

Inductive ==
  /\ TypeOK
  /\ VictimListed
  /\ LockHeld
  /\ RunOnce
-----------------------------------------------------------------------------
(* The initial states satisfy the invariant.                               *)
LEMMA InitInductive == ASSUME Init PROVE Inductive
<1> USE DEF Init
<1>1. /\ IsInjective(<<>>) /\ Range(<<>>) = {} /\ Len(<<>>) = 0
      /\ \A S : <<>> \in Seq(S)
  BY DEF Range, IsInjective
<1>2. TypeOK
  <2>1. /\ taskQueue \in Seq(Tasks) /\ workers \in Seq(Workers)
        /\ IsInjective(workers) /\ Range(workers) = {} /\ Len(workers) = 0
    BY <1>1
  <2>2. /\ pc \in [Workers -> PcStates] /\ \A w \in Workers : pc[w] = "none"
        /\ job \in [Workers -> Tasks \cup {NoTask}]
        /\ \A w \in Workers : job[w] = NoTask
    BY DEF PcStates
  <2>3. /\ stopping \in [Workers -> BOOLEAN] /\ idle \in [Workers -> BOOLEAN]
        /\ pause_lock \in [Workers -> {"free", "worker", "manager"}]
        /\ samples \in [Workers -> 0 .. 2] /\ rate \in [Workers -> {0, 100}]
    OBVIOUS
  <2> QED
    BY <2>1, <2>2, <2>3 DEF TypeOK, ManagerStates
<1>3. RunOnce
  BY <1>1 DEF RunOnce, Queued, Running
<1> QED
  BY <1>2, <1>3 DEF Inductive, VictimListed, LockHeld

(* execute() *)
LEMMA ExecuteKeeps ==
  ASSUME Inductive, NEW t \in Tasks, Execute(t)
  PROVE  Inductive'
<1> USE DEF Execute, worker_vars, manager_vars
<1>1. TypeOK /\ RunOnce
  BY DEF Inductive
<1>2. t \notin Range(taskQueue) /\ t \notin Running /\ t \notin ended
  BY <1>1 DEF RunOnce, Queued
<1>3. /\ taskQueue' \in Seq(Tasks) /\ IsInjective(taskQueue')
      /\ Range(taskQueue') = Range(taskQueue) \cup {t}
  BY <1>1, <1>2, AppendOne DEF TypeOK, RunOnce
<1>4. TypeOK'
  BY <1>1, <1>3 DEF TypeOK
<1>5. RunOnce'
  BY <1>1, <1>2, <1>3 DEF RunOnce, Queued, Running
<1> QED
  BY <1>4, <1>5 DEF Inductive, VictimListed, LockHeld

(* The steps of a worker between its tasks move it alone, and do not take  *)
(* a lock from one that has it.                                            *)
LEMMA BetweenTasksKeeps ==
  ASSUME Inductive, NEW w \in Workers, TestRunning(w) \/ TryLock(w) \/ Else(w)
  PROVE  Inductive'
<1> USE DEF TestRunning, TryLock, Else, manager_vars
<1>1. /\ TypeOK /\ RunOnce /\ LockHeld /\ VictimListed
      /\ UNCHANGED <<taskQueue, job, ended, accepted, workers, manager, victim>>
  BY DEF Inductive
<1>2. /\ pc \in [Workers -> PcStates] /\ pc' \in [Workers -> PcStates]
      /\ pause_lock' \in [Workers -> {"free", "worker", "manager"}]
      /\ \A v \in Workers : v # w => /\ pc'[v] = pc[v]
                                     /\ pause_lock'[v] = pause_lock[v]
      /\ pc[w] \notin {"none", "running"} /\ pc'[w] \notin {"none", "running"}
      /\ pc'[w] = "try_pop" => pause_lock'[w] = "worker"
  <2>1. /\ pc \in [Workers -> PcStates]
        /\ pause_lock \in [Workers -> {"free", "worker", "manager"}]
    BY <1>1 DEF TypeOK
  <2>2. CASE TestRunning(w)
    BY <2>1, <2>2 DEF PcStates
  <2>3. CASE TryLock(w)
    BY <2>1, <2>3 DEF PcStates
  <2>4. CASE Else(w)
    BY <2>1, <2>4 DEF PcStates
  <2> QED
    BY <2>2, <2>3, <2>4
<1>3. TypeOK'
  <2>1. \A v \in Workers : /\ pc'[v] = "none" <=> pc[v] = "none"
                           /\ pc'[v] = "running" <=> pc[v] = "running"
    BY <1>2
  <2> QED
    BY <1>1, <1>2, <2>1 DEF TypeOK
<1>4. LockHeld'
  BY <1>1, <1>2 DEF LockHeld
<1> QED
  BY <1>1, <1>3, <1>4 DEF Inductive, VictimListed, RunOnce, Queued, Running

(* A task goes from the queue to one worker.                               *)
LEMMA TryPopKeeps ==
  ASSUME Inductive, NEW w \in Workers, TryPop(w)
  PROVE  Inductive'
<1> USE DEF TryPop, manager_vars
<1>1. /\ TypeOK /\ RunOnce /\ LockHeld /\ VictimListed
      /\ UNCHANGED <<ended, accepted, workers, manager, victim, pause_lock>>
  BY DEF Inductive
<1>2. /\ pc \in [Workers -> PcStates] /\ pc' \in [Workers -> PcStates]
      /\ job \in [Workers -> Tasks \cup {NoTask}] /\ NoTask \notin Tasks
      /\ \A v \in Workers : v # w => pc'[v] = pc[v]
      /\ pc[w] = "try_pop" /\ job[w] = NoTask /\ pause_lock[w] = "worker"
  <2>1. /\ pc \in [Workers -> PcStates] /\ pc[w] = "try_pop"
        /\ job \in [Workers -> Tasks \cup {NoTask}] /\ NoTask \notin Tasks
        /\ pc[w] = "running" <=> job[w] # NoTask
    BY <1>1, ElasticAssumption DEF TypeOK
  <2>2. pc' \in {[pc EXCEPT ![w] = "running"], [pc EXCEPT ![w] = "else"]}
    OBVIOUS
  <2>3. /\ pc' \in [Workers -> PcStates]
        /\ \A v \in Workers : v # w => pc'[v] = pc[v]
    BY <2>1, <2>2 DEF PcStates
  <2> QED
    BY <1>1, <2>1, <2>3 DEF LockHeld
<1>3. LockHeld'
  BY <1>1, <1>2 DEF LockHeld
<1>4. CASE taskQueue # <<>>
  <2> DEFINE t == Head(taskQueue)
  <2>8. /\ job' = [job EXCEPT ![w] = t] /\ taskQueue' = Tail(taskQueue)
        /\ samples' = [samples EXCEPT ![w] = 0]
        /\ idle' = [idle EXCEPT ![w] = FALSE]
        /\ pc' = [pc EXCEPT ![w] = "running"]
    BY <1>4
  <2>9. taskQueue \in Seq(Tasks) /\ IsInjective(taskQueue)
    BY <1>1 DEF TypeOK, RunOnce
  <2>1. /\ t \in Range(taskQueue) /\ t \in Tasks
        /\ taskQueue' \in Seq(Tasks) /\ IsInjective(taskQueue')
        /\ Range(taskQueue') = Range(taskQueue) \ {t}
    BY <1>4, <2>8, <2>9, TailOne
  <2>2. /\ job' \in [Workers -> Tasks \cup {NoTask}] /\ job'[w] = t
        /\ \A v \in Workers : v # w => job'[v] = job[v]
        /\ pc'[w] = "running"
    BY <1>2, <2>1, <2>8
  <2>3. /\ samples' \in [Workers -> 0 .. 2] /\ idle' \in [Workers -> BOOLEAN]
    BY <1>1, <2>8 DEF TypeOK
  <2> HIDE DEF t
  <2>4. t \notin Running /\ t \notin ended
    BY <1>1, <2>1 DEF RunOnce, Queued
  <2>5. Running' = Running \cup {t}
    BY <1>2, <2>1, <2>2 DEF Running
  <2>6. TypeOK'
    <3>1. \A v \in Workers : /\ pc'[v] = "none" <=> pc[v] = "none"
                             /\ pc'[v] = "running" <=> job'[v] # NoTask
      BY <1>1, <1>2, <2>1, <2>2 DEF TypeOK
    <3> QED
      BY <1>1, <1>2, <2>1, <2>2, <2>3, <3>1 DEF TypeOK
  <2>7. RunOnce'
    <3>1. \A u, v \in Workers : job'[u] = job'[v] /\ u # v => job'[u] = NoTask
      <4>1. \A v \in Workers : job[v] # t
        BY <2>1, <2>4, <1>2 DEF Running
      <4> QED
        BY <1>1, <2>2, <4>1 DEF RunOnce
    <3> QED
      BY <1>1, <2>1, <2>4, <2>5, <3>1 DEF RunOnce, Queued
  <2> QED
    BY <1>1, <1>3, <2>6, <2>7 DEF Inductive, VictimListed
<1>5. CASE taskQueue = <<>>
  <2>1. /\ UNCHANGED <<taskQueue, job, samples, idle>> /\ pc'[w] = "else"
    BY <1>1, <1>2, <1>5
  <2>2. \A v \in Workers : /\ pc'[v] = "none" <=> pc[v] = "none"
                           /\ pc'[v] = "running" <=> job[v] # NoTask
    BY <1>1, <1>2, <2>1 DEF TypeOK
  <2>3. TypeOK'
    BY <1>1, <1>2, <2>1, <2>2 DEF TypeOK
  <2> QED
    BY <1>1, <1>3, <2>1, <2>3
    DEF Inductive, VictimListed, RunOnce, Queued, Running
<1> QED
  BY <1>4, <1>5

(* A task goes from its worker to the ended ones.                          *)
LEMMA TaskEndsKeeps ==
  ASSUME Inductive, NEW w \in Workers, TaskEnds(w)
  PROVE  Inductive'
<1> USE DEF TaskEnds, manager_vars
<1>1. /\ TypeOK /\ RunOnce /\ LockHeld /\ VictimListed
      /\ UNCHANGED <<taskQueue, accepted, workers, manager, victim>>
  BY DEF Inductive
<1>2. /\ pc \in [Workers -> PcStates] /\ pc' \in [Workers -> PcStates]
      /\ job \in [Workers -> Tasks \cup {NoTask}] /\ NoTask \notin Tasks
      /\ job' \in [Workers -> Tasks \cup {NoTask}]
      /\ pause_lock' \in [Workers -> {"free", "worker", "manager"}]
      /\ \A v \in Workers : v # w => /\ pc'[v] = pc[v] /\ job'[v] = job[v]
                                     /\ pause_lock'[v] = pause_lock[v]
      /\ pc[w] = "running" /\ pc'[w] = "test"
      /\ job[w] \in Tasks /\ job'[w] = NoTask
  BY <1>1, ElasticAssumption DEF TypeOK, PcStates
<1>3. TypeOK'
  <2>1. \A v \in Workers : /\ pc'[v] = "none" <=> pc[v] = "none"
                           /\ pc'[v] = "running" <=> job'[v] # NoTask
    BY <1>1, <1>2 DEF TypeOK
  <2> QED
    BY <1>1, <1>2, <2>1 DEF TypeOK
<1>4. LockHeld'
  BY <1>1, <1>2 DEF LockHeld
<1>5. RunOnce'
  <2>1. Running' = Running \ {job[w]} /\ job[w] \in Running
    BY <1>1, <1>2 DEF Running, RunOnce
  <2> QED
    BY <1>1, <1>2, <2>1 DEF RunOnce, Queued
<1> QED
  BY <1>1, <1>3, <1>4, <1>5 DEF Inductive, VictimListed
-----------------------------------------------------------------------------
(* What the manager notes down about the workers.                          *)
LEMMA SampleTypes ==
  ASSUME TypeOK, Sample
  PROVE  /\ samples' \in [Workers -> 0 .. 2] /\ idle' \in [Workers -> BOOLEAN]
         /\ rate' \in [Workers -> {0, 100}]
         /\ manager = "sampling"
         /\ UNCHANGED <<taskQueue, job, ended, accepted>>
<1>1. samples \in [Workers -> 0 .. 2]
  BY DEF TypeOK
<1>2. samples' \in [Workers -> 0 .. 2]
  BY <1>1 DEF Sample
<1> QED
  BY <1>2 DEF Sample

(* A new worker gets a name that no thread has.                            *)
LEMMA ExpandKeeps == ASSUME Inductive, Expand PROVE Inductive'
<1>1. TypeOK /\ RunOnce /\ LockHeld /\ StartWorker /\ Sample
      /\ UNCHANGED <<manager, victim>>
  BY DEF Inductive, Expand
<1>2. PICK w \in Workers :
        /\ pc[w] = "none"
        /\ workers' = Append(workers, w)
        /\ pc' = [pc EXCEPT ![w] = "test"]
        /\ stopping' = [stopping EXCEPT ![w] = FALSE]
        /\ pause_lock' = [pause_lock EXCEPT ![w] = "free"]
  BY <1>1 DEF StartWorker
<1>3. /\ samples' \in [Workers -> 0 .. 2] /\ idle' \in [Workers -> BOOLEAN]
      /\ rate' \in [Workers -> {0, 100}] /\ manager = "sampling"
      /\ UNCHANGED <<taskQueue, job, ended, accepted>>
  BY <1>1, SampleTypes
<1>4. /\ pc' \in [Workers -> PcStates] /\ pc'[w] = "test"
      /\ stopping' \in [Workers -> BOOLEAN]
      /\ pause_lock' \in [Workers -> {"free", "worker", "manager"}]
      /\ \A v \in Workers : v # w => /\ pc'[v] = pc[v]
                                     /\ pause_lock'[v] = pause_lock[v]
  BY <1>1, <1>2 DEF TypeOK, PcStates
<1>5. /\ workers' \in Seq(Workers) /\ IsInjective(workers')
      /\ Range(workers') = Range(workers) \cup {w}
      /\ Len(workers') = Len(workers) + 1 /\ Len(workers) \in Nat
  <2>1. /\ workers \in Seq(Workers) /\ IsInjective(workers)
        /\ w \notin Range(workers)
    BY <1>1, <1>2 DEF TypeOK
  <2>2. Len(Append(workers, w)) = Len(workers) + 1 /\ Len(workers) \in Nat
    BY <2>1
  <2> QED
    BY <1>2, <2>1, <2>2, AppendOne
<1>6. TypeOK'
  <2>1. Range(workers') = {v \in Workers : pc'[v] # "none"}
    BY <1>1, <1>4, <1>5 DEF TypeOK
  <2>2. \A v \in Workers : pc'[v] = "running" <=> job[v] # NoTask
    BY <1>1, <1>2, <1>4 DEF TypeOK
  <2>3. victim' \in 0 .. Len(workers')
    BY <1>1, <1>5 DEF TypeOK
  <2> QED
    BY <1>1, <1>3, <1>4, <1>5, <2>1, <2>2, <2>3 DEF TypeOK
<1>7. LockHeld'
  BY <1>1, <1>4 DEF LockHeld
<1> QED
  BY <1>1, <1>3, <1>6, <1>7
  DEF Inductive, VictimListed, RunOnce, Queued, Running

(* The manager looks, and starts nothing.                                  *)
LEMMA LookKeeps == ASSUME Inductive, Shrink \/ Keep PROVE Inductive'
<1>1. TypeOK /\ RunOnce /\ LockHeld /\ Sample
      /\ UNCHANGED <<workers, pc, stopping, pause_lock>>
  BY DEF Inductive, Shrink, Keep, manager_vars
<1>2. /\ samples' \in [Workers -> 0 .. 2] /\ idle' \in [Workers -> BOOLEAN]
      /\ rate' \in [Workers -> {0, 100}] /\ manager = "sampling"
      /\ UNCHANGED <<taskQueue, job, ended, accepted>>
  BY <1>1, SampleTypes
<1>3. workers \in Seq(Workers) /\ Len(workers) \in Nat
      /\ DOMAIN workers = 1 .. Len(workers)
  BY <1>1 DEF TypeOK
<1>4. /\ manager' \in ManagerStates /\ victim' \in 0 .. Len(workers)
      /\ manager' # "sampling" => victim' \in DOMAIN workers
  BY <1>1, <1>2, <1>3 DEF Shrink, Keep, manager_vars, TypeOK, ManagerStates
<1>5. TypeOK'
  BY <1>1, <1>2, <1>4 DEF TypeOK
<1> QED
  BY <1>1, <1>2, <1>4, <1>5
  DEF Inductive, VictimListed, LockHeld, RunOnce, Queued, Running

(* try_pause() takes a lock that nobody has; stop() takes none.            *)
LEMMA PauseKeeps == ASSUME Inductive, TryPause \/ Stop PROVE Inductive'
<1>1. /\ TypeOK /\ RunOnce /\ LockHeld /\ VictimListed
      /\ UNCHANGED <<taskQueue, workers, pc, job, samples, idle, rate, ended,
                     accepted>>
  BY DEF Inductive, TryPause, Stop
<1>2. /\ workers \in Seq(Workers) /\ Len(workers) \in Nat
      /\ DOMAIN workers = 1 .. Len(workers)
  BY <1>1 DEF TypeOK
<1>3. victim \in 1 .. Len(workers) /\ workers[victim] \in Workers
  BY <1>1, <1>2 DEF VictimListed, TryPause, Stop
<1>4. /\ manager' \in ManagerStates /\ victim' \in 0 .. Len(workers)
      /\ manager' # "sampling" => victim' \in DOMAIN workers
  <2>1. CASE TryPause /\ manager' = "sampling"
    BY <1>2, <2>1 DEF TryPause, ManagerStates
  <2>2. CASE TryPause /\ manager' # "sampling"
    <3>1. manager' \in ManagerStates
      BY <2>2 DEF TryPause, ManagerStates
    <3>2. victim' = victim \/ (victim' = victim + 1 /\ victim # Len(workers))
      BY <2>2 DEF TryPause
    <3>3. victim' \in 1 .. Len(workers)
      <4>1. ASSUME NEW n \in Nat, NEW i \in 1 .. n, NEW j,
                   j = i \/ (j = i + 1 /\ i # n)
            PROVE  j \in 1 .. n
        BY <4>1
      <4> QED
        BY <1>2, <1>3, <3>2, <4>1
    <3> QED
      BY <1>2, <3>1, <3>3
  <2>3. CASE Stop
    BY <1>2, <1>3, <2>3 DEF Stop, ManagerStates
  <2> QED
    BY <2>1, <2>2, <2>3
<1>5. /\ stopping' \in [Workers -> BOOLEAN]
      /\ pause_lock' \in [Workers -> {"free", "worker", "manager"}]
      /\ \A w \in Workers : pause_lock[w] = "worker" => pause_lock'[w] = "worker"
  <2> DEFINE w == workers[victim]
  <2>1. w \in Workers
    BY <1>3
  <2>2. /\ stopping \in [Workers -> BOOLEAN]
        /\ pause_lock \in [Workers -> {"free", "worker", "manager"}]
    BY <1>1 DEF TypeOK
  <2>3. \/ /\ pause_lock[w] = "free" /\ UNCHANGED stopping
           /\ pause_lock' = [pause_lock EXCEPT ![w] = "manager"]
        \/ UNCHANGED <<pause_lock, stopping>>
        \/ /\ UNCHANGED pause_lock
           /\ stopping' = [stopping EXCEPT ![w] = TRUE]
    BY DEF TryPause, Stop
  <2> HIDE DEF w
  <2> QED
    BY <2>1, <2>2, <2>3
<1>6. TypeOK'
  BY <1>1, <1>4, <1>5 DEF TypeOK
<1> QED
  BY <1>1, <1>4, <1>5, <1>6
  DEF Inductive, VictimListed, LockHeld, RunOnce, Queued, Running

(* The worker that is removed has left run().                              *)
LEMMA JoinKeeps == ASSUME Inductive, Join PROVE Inductive'
<1> USE DEF Join
<1>1. /\ TypeOK /\ RunOnce /\ LockHeld /\ VictimListed
      /\ UNCHANGED <<taskQueue, job, stopping, pause_lock, samples, ended,
                     accepted>>
  BY DEF Inductive
<1>2. /\ workers \in Seq(Workers) /\ IsInjective(workers)
      /\ victim \in DOMAIN workers /\ workers[victim] \in Workers
      /\ Range(workers) = {w \in Workers : pc[w] # "none"}
  BY <1>1 DEF TypeOK, VictimListed
<1> DEFINE w == workers[victim]
<1>3. /\ pc' = [pc EXCEPT ![w] = "none"] /\ pc[w] = "exited"
      /\ rate' = [rate EXCEPT ![w] = 0] /\ idle' = [idle EXCEPT ![w] = TRUE]
      /\ w \in Workers
  BY <1>2
<1>4. /\ workers' \in Seq(Workers) /\ IsInjective(workers')
      /\ Range(workers') = Range(workers) \ {w}
  BY <1>2, RemoveOne
<1> HIDE DEF w
<1>5. /\ pc' \in [Workers -> PcStates] /\ pc'[w] = "none"
      /\ \A v \in Workers : v # w => pc'[v] = pc[v]
      /\ rate' \in [Workers -> {0, 100}] /\ idle' \in [Workers -> BOOLEAN]
  BY <1>1, <1>3 DEF TypeOK, PcStates
<1>6. TypeOK'
  <2>1. Range(workers') = {v \in Workers : pc'[v] # "none"}
    BY <1>2, <1>4, <1>5
  <2>2. \A v \in Workers : pc'[v] = "running" <=> job[v] # NoTask
    BY <1>1, <1>3, <1>5 DEF TypeOK
  <2>3. victim' \in 0 .. Len(workers') /\ manager' \in ManagerStates
    BY <1>4 DEF ManagerStates
  <2> QED
    BY <1>1, <1>4, <1>5, <2>1, <2>2, <2>3 DEF TypeOK
<1>7. LockHeld'
  BY <1>1, <1>3, <1>5 DEF LockHeld
<1> QED
  BY <1>1, <1>6, <1>7 DEF Inductive, VictimListed, RunOnce, Queued, Running

(* Every step keeps the invariant.                                         *)
LEMMA StepInductive == ASSUME Inductive, [Next]_vars PROVE Inductive'
<1>1. CASE \E t \in Tasks : Execute(t)
  BY <1>1, ExecuteKeeps
<1>2. CASE \E w \in Workers : Work(w)
  BY <1>2, BetweenTasksKeeps, TryPopKeeps, TaskEndsKeeps DEF Work
<1>3. CASE Manage
  BY <1>3, ExpandKeeps, LookKeeps, PauseKeeps, JoinKeeps DEF Manage
<1>4. CASE UNCHANGED vars
  BY <1>4
  DEF vars, worker_vars, manager_vars, Inductive, TypeOK, VictimListed,
      LockHeld, RunOnce, Queued, Running
<1> QED
  BY <1>1, <1>2, <1>3, <1>4 DEF Next

LEMMA AlwaysInductive == Spec => []Inductive
<1>1. Init => Inductive
  BY InitInductive
<1>2. Inductive /\ [Next]_vars => Inductive'
  BY StepInductive
<1> QED
  BY <1>1, <1>2, PTL DEF Spec
-----------------------------------------------------------------------------
(* The variables have their types, and the list names the threads there    *)
(* are, each once.                                                         *)
THEOREM TypeCorrect == Spec => []TypeOK
<1>1. Inductive => TypeOK
  BY DEF Inductive
<1> QED
  BY <1>1, AlwaysInductive, PTL

(* Every task given to execute() is queued, run or ended, in one place.    *)
THEOREM TasksRunOnce == Spec => []RunOnce
<1>1. Inductive => RunOnce
  BY DEF Inductive
<1> QED
  BY <1>1, AlwaysInductive, PTL

(* The manager does not pause a worker that is in a task.                  *)
THEOREM PauseNeverInterrupts == Spec => []PauseSparesTasks
<1>1. Inductive => PauseSparesTasks
  BY DEF Inductive, LockHeld, PauseSparesTasks
<1> QED
  BY <1>1, AlwaysInductive, PTL
-----------------------------------------------------------------------------
(* The manager joins no worker that it has not told to stop, and none but  *)
(* that one stops, or has left run().                                      *)
OnlyVictimLeaves ==
  /\ manager = "joining" => stopping[workers[victim]]
  /\ \A w \in Range(workers) :
       stopping[w] \/ pc[w] = "exited" =>
         manager = "joining" /\ w = workers[victim]

(* The threads on the list, which the manager counts and asks for their    *)
(* rates, are at work: none of them but the one that is being removed has  *)
(* ended or will end, and that one will.                                   *)
THEOREM ListedWorkersWork == Spec => []OnlyVictimLeaves
<1>1. Init => OnlyVictimLeaves
  <2>1. Range(<<>>) = {}
    BY DEF Range
  <2> QED
    BY <2>1 DEF Init, OnlyVictimLeaves
<1>2. Inductive /\ OnlyVictimLeaves /\ [Next]_vars => OnlyVictimLeaves'
  <2> SUFFICES ASSUME Inductive, OnlyVictimLeaves, [Next]_vars
               PROVE  OnlyVictimLeaves'
    OBVIOUS
  <2> USE DEF OnlyVictimLeaves
  <2>1. /\ pc \in [Workers -> PcStates] /\ stopping \in [Workers -> BOOLEAN]
        /\ workers \in Seq(Workers) /\ IsInjective(workers)
        /\ Range(workers) = {w \in Workers : pc[w] # "none"}
        /\ manager # "sampling" =>
             victim \in DOMAIN workers /\ workers[victim] \in Range(workers)
    BY DEF Inductive, TypeOK, VictimListed, Range
  <2>2. CASE \E t \in Tasks : Execute(t)
    BY <2>2 DEF Execute, worker_vars, manager_vars
  <2>3. ASSUME NEW w \in Workers, Work(w)
        PROVE  OnlyVictimLeaves'
    <3>1. /\ UNCHANGED <<stopping, workers, manager, victim>>
          /\ \A v \in Workers : v # w => pc'[v] = pc[v]
          /\ pc'[w] = "exited" => stopping[w]
          /\ pc[w] \notin {"none", "exited"}
      BY <2>1, <2>3
      DEF Work, TestRunning, TryLock, TryPop, TaskEnds, Else, manager_vars
    <3> QED
      BY <2>1, <3>1
  <2>4. CASE Expand
    <3>1. PICK w \in Workers :
            /\ pc[w] = "none"
            /\ workers' = Append(workers, w)
            /\ pc' = [pc EXCEPT ![w] = "test"]
            /\ stopping' = [stopping EXCEPT ![w] = FALSE]
      BY <2>4 DEF Expand, StartWorker
    <3>2. w \notin Range(workers) /\ manager' = "sampling" /\ manager = "sampling"
      BY <2>1, <2>4, <3>1 DEF Expand, Sample
    <3>3. Range(workers') = Range(workers) \cup {w}
      BY <2>1, <3>1, <3>2, AppendOne
    <3> QED
      BY <2>1, <3>1, <3>2, <3>3
  <2>5. CASE Shrink \/ Keep
    BY <2>5 DEF Shrink, Keep, Sample, manager_vars
  <2>6. CASE TryPause
    BY <2>6 DEF TryPause
  <2>7. CASE Stop
    BY <2>1, <2>7 DEF Stop
  <2>8. CASE Join
    <3>1. /\ workers' = RemoveAt(workers, victim) /\ UNCHANGED stopping
          /\ pc' = [pc EXCEPT ![workers[victim]] = "none"]
          /\ manager = "joining" /\ manager' = "sampling"
      BY <2>8 DEF Join
    <3>2. Range(workers') = Range(workers) \ {workers[victim]}
      BY <2>1, <3>1, RemoveOne
    <3> QED
      BY <2>1, <3>1, <3>2
  <2>9. CASE UNCHANGED vars
    BY <2>9 DEF vars, worker_vars, manager_vars
  <2> QED
    BY <2>2, <2>3, <2>4, <2>5, <2>6, <2>7, <2>8, <2>9 DEF Next, Manage
<1> QED
  BY <1>1, <1>2, AlwaysInductive, PTL DEF Spec
=============================================================================
