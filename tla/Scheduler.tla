----------------------------- MODULE Scheduler -----------------------------
(***************************************************************************)
(* Scheduler of Scheduler.h, the timer behind co_await of a duration       *)
(* (SleepAwaiter.h): one worker thread, a priority queue of executables    *)
(* ordered by due time, any number of threads that call execute(), and one *)
(* owner that may call shutdown(true) and then destroys the scheduler.     *)
(*                                                                         *)
(* Time is a counter of milliseconds that ticks between any two steps; the *)
(* system clock and the steady clock are the same.  A critical section of  *)
(* queue_lock is one step, but for the one in execute(), during which      *)
(* is_active may change and time pass.                                     *)
(***************************************************************************)
EXTENDS Integers, Sequences, SequencesExt

CONSTANTS
  Funcs,    \* the functions handed to execute(), each of them once
  Delays,   \* the ways of choosing the delay each is handed with
  MaxTime,  \* the bound on the clock, and on the due times
  None      \* no executable

ASSUME SchedulerAssumption ==
  /\ Delays \subseteq [Funcs -> Int]
  /\ MaxTime \in Nat

Executables == [func : Funcs, time : Nat]

VARIABLES
  delay,      \* the delay of each function, a parameter of execute()
  now,        \* system_clock::now()
  is_active,  \* is_active
  queue,      \* executable_queue, a set
  top,        \* executable_queue.top(): ties are broken by the heap's shape
  worker,     \* where work_thread is in run_loop()
  executable, \* the local copy of the top that run_loop() works with
  caller,     \* where the execute() of each function is
  owner,      \* where the owner is in shutdown() and the destructor
  started,    \* history: the executables called, in order
  accepted,   \* history: the executables pushed
  cleared     \* history: shutdown(false) has cleared the queue

vars == <<delay, now, is_active, queue, top, worker, executable, caller, owner,
          started, accepted, cleared>>

WorkerStates == {"active",    \* at is_active.load() in the loop's condition
                 "empty",     \* at executable_queue.empty() in the condition
                 "lock",      \* at the top of the loop's body
                 "waiting",   \* in wait()
                 "woken",     \* back from wait(), has to take queue_lock
                 "sleeping",  \* in wait_for(delay)
                 "roused",    \* back from wait_for(), has to take queue_lock
                 "running",   \* in executable()
                 "crashed",   \* has popped from an empty priority queue
                 "exited"}    \* out of the loop
CallerStates == {"new", "pushing", "pushing_notify", "notifying", "returned",
                 "refused"}
OwnerStates == {"alive", "notifying", "shutdown", "clearing",
                "notifying_last", "joining", "gone"}

(* A crash ends the program: nothing moves any more. *)
Crashed == worker = "crashed"

(* Only execute() holds queue_lock from one step to the next. *)
LockFree == \A f \in Funcs : caller[f] \notin {"pushing", "pushing_notify"}

(* Fault: the comparison of the priority queue is the other way round. *)
FaultLast(set) == {e \in set : \A d \in set : e.time >= d.time}

(* The executables the priority queue may have on top. *)
First(set) == {e \in set : \A d \in set : e.time <= d.time}

Tops(set) == IF set = {} THEN {None} ELSE First(set)
-----------------------------------------------------------------------------
(* The first thing that execute() does: a negative delay is none.          *)
Clamped(d) == [f \in Funcs |-> IF d[f] < 0 THEN 0 ELSE d[f]]

Init ==
  /\ delay \in {Clamped(d) : d \in Delays}
  /\ now = 0
  /\ is_active = TRUE
  /\ queue = {}
  /\ top = None
  /\ worker = "active"
  /\ executable = None
  /\ caller = [f \in Funcs |-> "new"]
  /\ owner = "alive"
  /\ started = <<>>
  /\ accepted = {}
  /\ cleared = FALSE

(* Time passes, also for a thread inside execute(); the bound leaves room  *)
(* for what is about to be pushed.                                         *)
Tick ==
  /\ ~Crashed
  /\ now < MaxTime
  /\ \A f \in Funcs : caller[f] \in {"pushing", "pushing_notify"} =>
                       now + 1 + delay[f] <= MaxTime
  /\ now' = now + 1
  /\ UNCHANGED <<delay, is_active, queue, top, worker, executable, caller,
                 owner, started, accepted, cleared>>

(* Fault: an empty queue needs no notification. *)
FaultNeedNotify(f) == queue # {} /\ top.time > now + delay[f]

(* The worker has to hear of an executable that is due before all others. *)
NeedNotify(f) == queue = {} \/ top.time > now + delay[f]

(* execute(f, delay), under the lock: is_active, need_notify ...  Due      *)
(* times past MaxTime are not explored.                                    *)
Enter(f) ==
  /\ ~Crashed
  /\ caller[f] = "new"
  /\ now + delay[f] <= MaxTime
  /\ owner # "gone"
  /\ LockFree
  /\ caller' = [caller EXCEPT ![f] =
                  IF ~is_active THEN "refused"
                  ELSE IF NeedNotify(f) THEN "pushing_notify" ELSE "pushing"]
  /\ UNCHANGED <<delay, now, is_active, queue, top, worker, executable, owner,
                 started, accepted, cleared>>

(* ... and the push of an executable that is due in delay[f] from now.     *)
(* push_heap moves it to the top only past a later one.                    *)
Push(f) ==
  LET new == [func |-> f, time |-> now + delay[f]]
  IN /\ ~Crashed
     /\ caller[f] \in {"pushing", "pushing_notify"}
     /\ queue' = queue \cup {new}
     /\ accepted' = accepted \cup {new}
     /\ top' = IF queue = {} THEN new
               ELSE IF top.time > new.time THEN new ELSE top
     /\ caller' = [caller EXCEPT ![f] =
                     IF @ = "pushing" THEN "returned" ELSE "notifying"]
     /\ UNCHANGED <<delay, now, is_active, worker, executable, owner,
                    started, cleared>>

(* What a notification does to the worker. *)
Woken == CASE worker = "waiting" -> "woken"
           [] worker = "sleeping" -> "roused"
           [] OTHER -> worker

NotifyOne(f) ==
  /\ ~Crashed
  /\ caller[f] = "notifying"
  /\ caller' = [caller EXCEPT ![f] = "returned"]
  /\ worker' = Woken
  /\ UNCHANGED <<delay, now, is_active, queue, top, executable, owner, started,
                 accepted, cleared>>

calling == <<delay, now, is_active, caller, owner, accepted, cleared>>

TestActive ==
  /\ worker = "active"
  /\ worker' = IF is_active THEN "lock" ELSE "empty"
  /\ UNCHANGED <<queue, top, executable, started, calling>>

(* The test of the queue without the lock: while shutdown(false) swaps the *)
(* queue it may see one that is not empty.                                 *)
TestEmpty ==
  /\ worker = "empty"
  /\ \/ /\ queue = {}
        /\ worker' = "exited"
     \/ /\ queue # {} \/ owner = "clearing"
        /\ worker' = "lock"
  /\ UNCHANGED <<queue, top, executable, started, calling>>

(* Fault: the executable is run but left in the queue. *)
FaultNoPop(e) ==
  /\ started' = Append(started, e)
  /\ worker' = "running"
  /\ UNCHANGED <<queue, top>>

(* pop(), which removes whatever is on top by now, and executable(), the   *)
(* copy e.  pop() of a queue that shutdown(false) has swapped for a new    *)
(* one destroys the element before its null pointer.                       *)
PopAndRun(e) ==
  \/ /\ queue = {}
     /\ worker' = "crashed"
     /\ UNCHANGED <<queue, top, started>>
  \/ /\ queue # {}
     /\ queue' = queue \ {top}
     /\ top' \in Tops(queue \ {top})
     /\ started' = Append(started, e)
     /\ worker' = "running"

(* The rest of the loop's body for a queue that is not empty. *)
TakeTop ==
  /\ queue # {}
  /\ executable' = top
  /\ \/ /\ top.time > now
        /\ worker' = "sleeping"
        /\ UNCHANGED <<queue, top, started>>
     \/ /\ top.time <= now
        /\ PopAndRun(top)
  /\ UNCHANGED calling

LockAndTake ==
  /\ worker = "lock"
  /\ LockFree
  /\ \/ TakeTop
     \/ /\ queue = {}
        /\ worker' = "waiting"
        /\ UNCHANGED <<queue, top, executable, started, calling>>

(* Fault: the queue is not tested again after wait(). *)
FaultTopUnchecked ==
  /\ worker = "woken"
  /\ LockFree
  /\ executable' = top
  /\ started' = Append(started, top)
  /\ worker' = "running"
  /\ queue' = queue \ {top}
  /\ top' \in Tops(queue \ {top})
  /\ UNCHANGED calling

WakeAndTake ==
  /\ worker = "woken"
  /\ LockFree
  /\ \/ TakeTop
     \/ /\ queue = {}
        /\ worker' = "active"
        /\ UNCHANGED <<queue, top, executable, started, calling>>

(* The time is up for wait_for(), or it returns for no reason. *)
Timeout ==
  /\ worker = "sleeping"
  /\ now >= executable.time
  /\ worker' = "roused"
  /\ UNCHANGED <<queue, top, executable, started, calling>>

SpuriousWakeup ==
  /\ worker \in {"waiting", "sleeping"}
  /\ worker' = Woken
  /\ UNCHANGED <<queue, top, executable, started, calling>>

(* Fault: whatever wakes the worker, the executable is run. *)
FaultStatusIgnored ==
  /\ worker = "roused"
  /\ LockFree
  /\ PopAndRun(executable)
  /\ UNCHANGED <<executable, calling>>

(* wait_for() returns with the lock; its status is timeout when the time   *)
(* is up by then, whatever has woken it.                                   *)
AfterSleep ==
  /\ worker = "roused"
  /\ LockFree
  /\ \/ /\ now < executable.time
        /\ worker' = "active"
        /\ UNCHANGED <<queue, top, started>>
     \/ /\ now >= executable.time
        /\ PopAndRun(executable)
  /\ UNCHANGED <<executable, calling>>

FuncReturns ==
  /\ worker = "running"
  /\ worker' = "active"
  /\ UNCHANGED <<queue, top, executable, started, calling>>

shutting == <<delay, now, executable, caller, started, accepted>>

(* shutdown(true), to its store. *)
Shutdown ==
  /\ ~Crashed
  /\ owner = "alive"
  /\ is_active' = FALSE
  /\ owner' = "notifying"
  /\ UNCHANGED <<queue, top, worker, cleared, shutting>>

(* The destructor: shutdown(false), which clears the queue, and join(). *)
Destroy ==
  /\ ~Crashed
  /\ owner \in {"alive", "shutdown"}
  /\ is_active' = FALSE
  /\ owner' = "clearing"
  /\ UNCHANGED <<queue, top, worker, cleared, shutting>>

Clear ==
  /\ ~Crashed
  /\ owner = "clearing"
  /\ LockFree
  /\ queue' = {}
  /\ top' = None
  /\ cleared' = TRUE
  /\ owner' = "notifying_last"
  /\ UNCHANGED <<is_active, worker, shutting>>

NotifyAll ==
  /\ ~Crashed
  /\ owner \in {"notifying", "notifying_last"}
  /\ worker' = Woken
  /\ owner' = IF owner = "notifying" THEN "shutdown" ELSE "joining"
  /\ UNCHANGED <<is_active, queue, top, cleared, shutting>>

(* The owner has seen to it that no call of execute() is under way. *)
Join ==
  /\ owner = "joining"
  /\ worker = "exited"
  /\ \A f \in Funcs :
       caller[f] \notin {"pushing", "pushing_notify", "notifying"}
  /\ owner' = "gone"
  /\ UNCHANGED <<is_active, queue, top, worker, cleared, shutting>>

Finished ==
  /\ owner = "gone" \/ Crashed
  /\ UNCHANGED vars

Work == TestActive \/ TestEmpty \/ LockAndTake \/ WakeAndTake \/ Timeout
          \/ AfterSleep \/ FuncReturns

Next ==
  \/ Tick
  \/ \E f \in Funcs : Enter(f) \/ Push(f) \/ NotifyOne(f)
  \/ Work
  \/ SpuriousWakeup
  \/ Shutdown \/ Destroy \/ Clear \/ NotifyAll \/ Join
  \/ Finished

(* Time passes, threads go on and functions return. *)
Fairness ==
  /\ WF_vars(Tick)
  /\ \A f \in Funcs : WF_vars(Push(f)) /\ WF_vars(NotifyOne(f))
  /\ WF_vars(Work)
  /\ WF_vars(Clear)
  /\ WF_vars(NotifyAll)
  /\ WF_vars(Join)

Spec == Init /\ [][Next]_vars
FairSpec == Spec /\ Fairness
-----------------------------------------------------------------------------
(* The type invariant: what run_loop() calls was pushed by execute().      *)
TypeOK ==
  /\ delay \in [Funcs -> Nat]
  /\ now \in 0 .. MaxTime
  /\ is_active \in BOOLEAN
  /\ queue \subseteq Executables
  /\ top \in Tops(queue)
  /\ worker \in WorkerStates
  /\ executable \in Executables \cup {None}
  /\ caller \in [Funcs -> CallerStates]
  /\ owner \in OwnerStates
  /\ started \in Seq(Executables)
  /\ accepted \subseteq Executables
  /\ cleared \in BOOLEAN

(* However the worker is woken, nothing runs before it is due. *)
NeverEarly ==
  [][started' # started => Last(started').time <= now]_vars

(* The comment in run_loop(): a new executable that is due before the one  *)
(* the worker waits for should be executed before it, and so before every  *)
(* one in the queue that is due later.                                     *)
EarliestFirst ==
  [][started' # started => \A e \in queue : Last(started').time <= e.time]_vars

(* A program that sleeps for the same time everywhere. *)
SameDelay == \A f, g \in Funcs : delay[f] = delay[g]

(* In such a program the executables are run in the order of due times.    *)
SameInOrder ==
  [][SameDelay /\ started' # started =>
       \A e \in queue : Last(started').time <= e.time]_vars

(* In such a program, until shutdown(false) clears the queue, an accepted  *)
(* executable is in the queue or has been run, never both, never neither,  *)
(* never twice.                                                            *)
ExactlyOnce ==
  SameDelay /\ ~cleared =>
    /\ queue \cup Range(started) = accepted
    /\ queue \cap Range(started) = {}
    /\ IsInjective(started)

(* A worker that waits without a time limit has been told, or will be, of  *)
(* everything that was pushed; one that waits for an executable, of every  *)
(* one that is due earlier.                                                *)
NoLostNotify ==
  \/ worker = "waiting" /\ queue # {}
  \/ worker = "sleeping" /\ \E e \in queue : e.time < executable.time
  => \E f \in Funcs : caller[f] = "notifying"

(* In such a program what is in the queue of a worker in its loop is run,  *)
(* unless the queue is cleared: no call of sleep waits for ever.           *)
QueuedIsRun ==
  \A f \in Funcs :
    (SameDelay /\ worker # "exited" /\ \E e \in queue : e.func = f)
      ~> \/ \E i \in DOMAIN started : started[i].func = f
         \/ owner \in {"clearing", "notifying_last", "joining", "gone"}
=============================================================================
