--------------------------- MODULE LooperExecutor ---------------------------
(***************************************************************************)
(* LooperExecutor of Executor.h: one worker thread that runs the functions *)
(* of a queue, any number of threads that call execute(), and one owner    *)
(* that may call shutdown(true) and then destroys the executor.            *)
(*                                                                         *)
(* A critical section of queue_lock is one step, but for the one in        *)
(* execute(): it reads is_active, which shutdown() writes and the loop's   *)
(* condition reads without the lock, so its read and its push are two.     *)
(* The functions are told apart by name and are submitted once; a function *)
(* that throws ends the program and is not modelled.                       *)
(***************************************************************************)
EXTENDS Naturals, Sequences, Functions

CONSTANT Funcs   \* the functions handed to execute()

VARIABLES
  is_active,   \* is_active
  queue,       \* executable_queue
  worker,      \* where work_thread is in run_loop()
  caller,      \* where the execute() of each function is
  owner,       \* where the owner is in shutdown() and the destructor
  accepted,    \* history: the functions pushed, in order
  executed,    \* history: the functions run_loop() has called, in order
  discarded,   \* history: the functions shutdown(false) has cleared
  due          \* history: the functions pushed when is_active became false

vars == <<is_active, queue, worker, caller, owner, accepted, executed,
          discarded, due>>
history == <<accepted, executed, discarded, due>>

WorkerStates == {"active",    \* at is_active.load() in the loop's condition
                 "empty",     \* at executable_queue.empty() in the condition
                 "lock",      \* at the top of the loop's body
                 "waiting",   \* in queue_condition.wait()
                 "woken",     \* notified, has to take queue_lock again
                 "running",   \* in func()
                 "exited"}    \* out of the loop
CallerStates == {"new", "pushing", "notifying", "returned", "refused"}
OwnerStates == {"alive", "notifying", "shutdown", "clearing",
                "notifying_last", "joining", "gone"}

(* Only execute() holds queue_lock from one step to the next. *)
LockFree == \A f \in Funcs : caller[f] # "pushing"
-----------------------------------------------------------------------------
Init ==
  /\ is_active = TRUE
  /\ queue = <<>>
  /\ worker = "active"
  /\ caller = [f \in Funcs |-> "new"]
  /\ owner = "alive"
  /\ accepted = <<>>
  /\ executed = <<>>
  /\ discarded = {}
  /\ due = {}

(* execute(f), to the test of is_active under the lock.  Nobody calls a    *)
(* member of an executor whose destructor has returned.                    *)
Enter(f) ==
  /\ caller[f] = "new"
  /\ owner # "gone"
  /\ LockFree
  /\ caller' = [caller EXCEPT ![f] =
                  IF is_active THEN "pushing" ELSE "refused"]
  /\ UNCHANGED <<is_active, queue, worker, owner, history>>

Push(f) ==
  /\ caller[f] = "pushing"
  /\ queue' = Append(queue, f)
  /\ accepted' = Append(accepted, f)
  /\ caller' = [caller EXCEPT ![f] = "notifying"]
  /\ UNCHANGED <<is_active, worker, owner, executed, discarded, due>>

Woken == IF worker = "waiting" THEN "woken" ELSE worker

(* Fault: nobody is notified. *)
FaultNotifyNobody(f) ==
  /\ caller[f] = "notifying"
  /\ caller' = [caller EXCEPT ![f] = "returned"]
  /\ UNCHANGED <<is_active, queue, worker, owner, history>>

NotifyOne(f) ==
  /\ caller[f] = "notifying"
  /\ caller' = [caller EXCEPT ![f] = "returned"]
  /\ worker' = Woken
  /\ UNCHANGED <<is_active, queue, owner, history>>

(* Fault: the loop tests the queue only. *)
FaultKeepsLooping ==
  /\ worker = "active"
  /\ worker' = "lock"
  /\ UNCHANGED <<is_active, queue, caller, owner, history>>

(* Fault: the loop tests is_active only. *)
FaultLeavesQueue ==
  /\ worker = "active"
  /\ worker' = IF is_active THEN "lock" ELSE "exited"
  /\ UNCHANGED <<is_active, queue, caller, owner, history>>

(* while (is_active || ...) *)
TestActive ==
  /\ worker = "active"
  /\ worker' = IF is_active THEN "lock" ELSE "empty"
  /\ UNCHANGED <<is_active, queue, caller, owner, history>>

(* ... || !executable_queue.empty()).  No lock is held: a read that races  *)
(* with the swap in shutdown(false) may see a queue that is not empty.     *)
TestEmpty ==
  /\ worker = "empty"
  /\ \/ /\ queue = <<>>
        /\ worker' = "exited"
     \/ /\ queue # <<>> \/ owner = "clearing"
        /\ worker' = "lock"
  /\ UNCHANGED <<is_active, queue, caller, owner, history>>

(* Fault: the newest function is taken. *)
FaultPopBack ==
  /\ executed' = Append(executed, queue[Len(queue)])
  /\ queue' = SubSeq(queue, 1, Len(queue) - 1)
  /\ worker' = "running"
  /\ UNCHANGED <<is_active, caller, owner, accepted, discarded, due>>

(* front(), pop(), unlock() and the call. *)
Pop ==
  /\ executed' = Append(executed, Head(queue))
  /\ queue' = Tail(queue)
  /\ worker' = "running"
  /\ UNCHANGED <<is_active, caller, owner, accepted, discarded, due>>

LockAndTake ==
  /\ worker = "lock"
  /\ LockFree
  /\ \/ /\ queue = <<>>
        /\ worker' = "waiting"
        /\ UNCHANGED <<is_active, queue, caller, owner, history>>
     \/ /\ queue # <<>>
        /\ Pop

(* Fault: the queue is not tested again: front() of an empty queue is      *)
(* whatever its memory holds.                                              *)
FaultTakeUnchecked ==
  /\ worker = "woken"
  /\ LockFree
  /\ executed' =
       Append(executed, IF queue = <<>> THEN "garbage" ELSE Head(queue))
  /\ queue' = IF queue = <<>> THEN queue ELSE Tail(queue)
  /\ worker' = "running"
  /\ UNCHANGED <<is_active, caller, owner, accepted, discarded, due>>

(* Back from wait(): the queue is tested again, is_active by the loop.     *)
WakeAndTake ==
  /\ worker = "woken"
  /\ LockFree
  /\ \/ /\ queue = <<>>
        /\ worker' = "active"
        /\ UNCHANGED <<is_active, queue, caller, owner, history>>
     \/ /\ queue # <<>>
        /\ Pop

SpuriousWakeup ==
  /\ worker = "waiting"
  /\ worker' = "woken"
  /\ UNCHANGED <<is_active, queue, caller, owner, history>>

FuncReturns ==
  /\ worker = "running"
  /\ worker' = "active"
  /\ UNCHANGED <<is_active, queue, caller, owner, history>>

Store ==
  /\ is_active' = FALSE
  /\ due' = IF is_active THEN Range(accepted) ELSE due

(* shutdown(true), to its store. *)
Shutdown ==
  /\ owner = "alive"
  /\ Store
  /\ owner' = "notifying"
  /\ UNCHANGED <<queue, worker, caller, accepted, executed, discarded>>

(* The destructor calls shutdown(false) ... *)
Destroy ==
  /\ owner \in {"alive", "shutdown"}
  /\ Store
  /\ owner' = "clearing"
  /\ UNCHANGED <<queue, worker, caller, accepted, executed, discarded>>

(* ... which clears the queue ... *)
Clear ==
  /\ owner = "clearing"
  /\ LockFree
  /\ queue' = <<>>
  /\ discarded' = discarded \cup Range(queue)
  /\ owner' = "notifying_last"
  /\ UNCHANGED <<is_active, worker, caller, accepted, executed, due>>

NotifyAll ==
  /\ owner \in {"notifying", "notifying_last"}
  /\ worker' = Woken
  /\ owner' = IF owner = "notifying" THEN "shutdown" ELSE "joining"
  /\ UNCHANGED <<is_active, queue, caller, history>>

(* ... and joins the worker.  The owner has seen to it that no call of     *)
(* execute() is still under way when the members are destroyed.            *)
Join ==
  /\ owner = "joining"
  /\ worker = "exited"
  /\ \A f \in Funcs : caller[f] \notin {"pushing", "notifying"}
  /\ owner' = "gone"
  /\ UNCHANGED <<is_active, queue, worker, caller, history>>

Finished == owner = "gone" /\ UNCHANGED vars

Work == TestActive \/ TestEmpty \/ LockAndTake \/ WakeAndTake \/ FuncReturns

Next ==
  \/ \E f \in Funcs : Enter(f) \/ Push(f) \/ NotifyOne(f)
  \/ Work
  \/ SpuriousWakeup
  \/ Shutdown \/ Destroy \/ Clear \/ NotifyAll \/ Join
  \/ Finished

(* Threads go on and functions return; queue_lock is held for a few        *)
(* instructions and handed on.  Nobody has to call execute() or shutdown() *)
(* and no spurious wakeup has to come.                                     *)
Fairness ==
  /\ \A f \in Funcs : WF_vars(Push(f)) /\ WF_vars(NotifyOne(f))
  /\ WF_vars(Work)
  /\ WF_vars(Clear)
  /\ WF_vars(NotifyAll)
  /\ WF_vars(Join)

Spec == Init /\ [][Next]_vars
FairSpec == Spec /\ Fairness
-----------------------------------------------------------------------------
(* The type invariant: among other things, run_loop() calls nothing but    *)
(* functions that were submitted.                                          *)
TypeOK ==
  /\ is_active \in BOOLEAN
  /\ queue \in Seq(Funcs)
  /\ worker \in WorkerStates
  /\ caller \in [Funcs -> CallerStates]
  /\ owner \in OwnerStates
  /\ accepted \in Seq(Funcs)
  /\ executed \in Seq(Funcs)
  /\ discarded \subseteq Funcs
  /\ due \subseteq Funcs

(* What has been called and what is left to be called.                     *)
Calls == executed \o queue

(* Whatever the interleaving of execute(), the loop and shutdown(): the    *)
(* functions accepted and not cleared are run, or left to be run, each of  *)
(* them once and in the order in which they were accepted.                 *)
ExecutedInOrder ==
  /\ IsInjective(Calls)
  /\ Range(Calls) = Range(accepted) \ discarded
  /\ \A i, j \in DOMAIN Calls :
       i < j => \E k, l \in DOMAIN accepted :
                  k < l /\ accepted[k] = Calls[i] /\ accepted[l] = Calls[j]

(* shutdown(true) waits for completion: a worker that has left its loop    *)
(* has run every function that was in the queue when is_active became      *)
(* false, unless a shutdown(false) cleared it.  Functions whose execute()  *)
(* straddles the store may be stranded.                                    *)
GracefulDrain ==
  worker = "exited" => due \subseteq Range(executed) \cup discarded

(* A function in the queue of a worker still in its loop is run or, by     *)
(* shutdown(false), cleared.                                               *)
QueuedIsRun ==
  \A f \in Funcs :
    (f \in Range(queue) /\ worker # "exited")
      ~> f \in Range(executed) \cup discarded

(* The destructor returns when it finds the worker busy, at the loop's     *)
(* condition, or asleep when it calls notify_all().  (A worker between the *)
(* condition and wait() can miss the only notification and then sleeps for *)
(* ever, the destructor with it.)                                          *)
JoinReturns ==
  (\/ owner = "joining" /\ worker \in {"running", "active", "empty"}
   \/ owner = "notifying_last" /\ worker = "waiting")
    ~> owner = "gone"
=============================================================================
