-------------------------- MODULE SchedulerProofs --------------------------
(***************************************************************************)
(* Proofs about Scheduler, for any functions, delays and bound on the      *)
(* clock.                                                                  *)
(***************************************************************************)
EXTENDS Scheduler, TLAPS

Asleep == worker \in {"sleeping", "roused"}

(* What the worker sleeps for is an executable.                            *)
SleepsForOne == Asleep => executable \in Executables

(* A function is in one executable at most: its caller has pushed it.      *)
PushedByCaller ==
  \A e \in accepted : caller[e.func] \in {"notifying", "returned"}

(* With equal delays, what is pushed next is due after what is there, ...  *)
DueBeforeNext ==
  SameDelay => \A e \in queue, f \in Funcs : e.time <= now + delay[f]

(* ... so that the worker sleeps for the top of the queue.                 *)
SleepsForTop ==
  SameDelay /\ ~cleared /\ Asleep => queue # {} /\ executable = top

(* Once shutdown(false) has cleared the queue it stays empty.              *)
StaysCleared ==
  /\ owner \in {"clearing", "notifying_last"} => ~is_active
  /\ cleared => ~is_active /\ queue = {} /\ LockFree

Inductive ==
  /\ TypeOK
  /\ SleepsForOne
  /\ PushedByCaller
  /\ DueBeforeNext
  /\ SleepsForTop
  /\ StaysCleared
  /\ ExactlyOnce
-----------------------------------------------------------------------------
(* The top of a queue that is not empty is in it, and nothing is due       *)
(* before it.                                                              *)
LEMMA TopIsFirst ==
  ASSUME TypeOK, queue # {}
  PROVE  /\ top \in queue /\ top \in Executables
         /\ \A e \in queue : top.time <= e.time
  BY DEF TypeOK, Tops, First

(* The initial states satisfy the invariant.                               *)
LEMMA InitInductive == ASSUME Init PROVE Inductive
<1> USE DEF Init
<1>1. TypeOK
  <2>1. now \in 0 .. MaxTime /\ top \in Tops(queue)
    BY SchedulerAssumption DEF Tops
  <2>2. /\ worker \in WorkerStates /\ owner \in OwnerStates
        /\ caller \in [Funcs -> CallerStates]
    BY DEF WorkerStates, CallerStates, OwnerStates
  <2>3. is_active \in BOOLEAN /\ cleared \in BOOLEAN
    OBVIOUS
  <2>4. started \in Seq(Executables)
    OBVIOUS
  <2>5. /\ queue \subseteq Executables /\ accepted \subseteq Executables
        /\ executable \in Executables \cup {None}
    OBVIOUS
  <2>6. delay \in [Funcs -> Nat]
    BY SchedulerAssumption DEF Clamped
  <2> QED
    BY <2>1, <2>2, <2>3, <2>4, <2>5, <2>6 DEF TypeOK
<1>2. Range(started) = {} /\ IsInjective(started)
  BY DEF Range, IsInjective
<1>3. ExactlyOnce
  BY <1>2 DEF ExactlyOnce
<1> QED
  BY <1>1, <1>3
  DEF Inductive, SleepsForOne, PushedByCaller, DueBeforeNext, SleepsForTop,
      StaysCleared, Asleep

(* A push keeps the top of the queue first.                                *)
LEMMA PushKeepsTop ==
  ASSUME TypeOK, NEW f \in Funcs, Push(f)
  PROVE  top' \in Tops(queue')
<1> DEFINE new == [func |-> f, time |-> now + delay[f]]
<1>1. new \in Executables /\ new.time \in Nat
  BY SchedulerAssumption DEF TypeOK, Executables
<1>2. queue' = queue \cup {new}
  BY DEF Push
<1>3. CASE queue = {}
  BY <1>1, <1>2, <1>3 DEF Push, Tops, First
<1>4. CASE queue # {}
  <2>1. /\ top \in queue /\ top \in Executables
        /\ \A e \in queue : top.time <= e.time
    BY <1>4, TopIsFirst
  <2>2. top' = IF top.time > new.time THEN new ELSE top
    BY <1>4 DEF Push
  <2>3. top.time \in Nat /\ \A e \in queue : e.time \in Nat
    BY <2>1 DEF TypeOK, Executables
  <2>4. top' \in queue' /\ \A e \in queue' : top'.time <= e.time
    BY <1>1, <1>2, <2>1, <2>2, <2>3
  <2> QED
    BY <1>2, <2>4 DEF Tops, First
<1> QED
  BY <1>3, <1>4

(* What pop() and the call of e do, whichever executable e is.             *)
LEMMA PopKeepsTypes ==
  ASSUME TypeOK, NEW e \in Executables, PopAndRun(e)
  PROVE  /\ queue' \subseteq Executables
         /\ top' \in Tops(queue')
         /\ started' \in Seq(Executables)
         /\ worker' \in {"crashed", "running"}
         /\ started' # started => queue # {} /\ started' = Append(started, e)
<1>1. CASE queue = {} /\ UNCHANGED <<queue, top, started>>
        /\ worker' = "crashed"
  BY <1>1 DEF TypeOK
<1>2. CASE /\ queue # {}
           /\ queue' = queue \ {top}
           /\ top' \in Tops(queue \ {top})
           /\ started' = Append(started, e)
           /\ worker' = "running"
  BY <1>2 DEF TypeOK
<1> QED
  BY <1>1, <1>2 DEF PopAndRun

(* The first due of the queue, run and taken out, is run exactly once.     *)
LEMMA PopKeepsExactlyOnce ==
  ASSUME TypeOK, ExactlyOnce, SameDelay, ~cleared, PopAndRun(top),
         UNCHANGED <<delay, accepted, cleared>>
  PROVE  ExactlyOnce'
<1>1. CASE UNCHANGED <<queue, started>>
  BY <1>1 DEF ExactlyOnce, SameDelay
<1>2. CASE queue # {} /\ queue' = queue \ {top}
           /\ started' = Append(started, top)
  <2>1. top \in queue /\ top \in Executables
    BY <1>2, TopIsFirst
  <2>2. started \in Seq(Executables)
    BY DEF TypeOK
  <2>3. /\ Len(started') = Len(started) + 1
        /\ DOMAIN started' = 1 .. Len(started) + 1
        /\ \A i \in 1 .. Len(started) : started'[i] = started[i]
        /\ started'[Len(started) + 1] = top
        /\ DOMAIN started = 1 .. Len(started) /\ Len(started) \in Nat
    BY <1>2, <2>1, <2>2
  <2>4. Range(started') = Range(started) \cup {top}
    BY <2>3 DEF Range
  <2>5. /\ queue \cup Range(started) = accepted
        /\ queue \cap Range(started) = {}
        /\ IsInjective(started)
    BY DEF ExactlyOnce
  <2>6. \A i \in 1 .. Len(started) : started[i] # top
    BY <2>1, <2>3, <2>5 DEF Range
  <2>7. IsInjective(started')
    BY <2>3, <2>5, <2>6 DEF IsInjective
  <2> QED
    BY <1>2, <2>1, <2>4, <2>5, <2>7 DEF ExactlyOnce
<1> QED
  BY <1>1, <1>2 DEF PopAndRun

-----------------------------------------------------------------------------
(* The callers of execute(), and the clock, keep the invariant.            *)
LEMMA CallersKeepInductive ==
  ASSUME Inductive,
         Tick \/ \E f \in Funcs : Enter(f) \/ Push(f) \/ NotifyOne(f)
  PROVE  Inductive'
<1> USE SchedulerAssumption DEF Inductive
<1>1. CASE Tick
  <2> USE <1>1 DEF Tick
  <2>1. TypeOK'
    BY DEF TypeOK
  <2>2. DueBeforeNext'
    BY DEF DueBeforeNext, SameDelay, TypeOK, Executables
  <2> QED
    BY <2>1, <2>2
    DEF SleepsForOne, PushedByCaller, SleepsForTop, StaysCleared, ExactlyOnce,
        Asleep, SameDelay, LockFree
<1>2. ASSUME NEW f \in Funcs, Enter(f)
      PROVE  Inductive'
  <2> USE <1>2 DEF Enter
  <2>1. TypeOK'
    BY DEF TypeOK, CallerStates
  <2>2. PushedByCaller'
    BY DEF PushedByCaller, TypeOK, Executables
  <2>3. StaysCleared'
    BY DEF StaysCleared, LockFree, TypeOK
  <2> QED
    BY <2>1, <2>2, <2>3
    DEF SleepsForOne, DueBeforeNext, SleepsForTop, ExactlyOnce, Asleep,
        SameDelay
<1>3. ASSUME NEW f \in Funcs, Push(f)
      PROVE  Inductive'
  <2> DEFINE new == [func |-> f, time |-> now + delay[f]]
  <2> USE <1>3
  <2>1. new \in Executables /\ new.func = f /\ new.time = now + delay[f]
    BY DEF TypeOK, Executables
  <2>2. queue' = queue \cup {new} /\ accepted' = accepted \cup {new}
    BY DEF Push
  <2>3. TypeOK'
    BY <2>1, <2>2, PushKeepsTop DEF Push, TypeOK, CallerStates
  <2>4. PushedByCaller'
    BY <2>1, <2>2 DEF Push, PushedByCaller, TypeOK, Executables
  <2>5. DueBeforeNext'
    BY <2>1, <2>2 DEF Push, DueBeforeNext, SameDelay, TypeOK, Executables
  <2>6. SleepsForTop'
    <3> SUFFICES ASSUME SameDelay, ~cleared, Asleep
                 PROVE  queue' # {} /\ executable' = top'
      BY DEF SleepsForTop, Push, SameDelay, Asleep
    <3>1. queue # {} /\ executable = top
      BY DEF SleepsForTop
    <3>2. top \in queue /\ top \in Executables
      BY <3>1, TopIsFirst
    <3>3. top.time <= new.time
      BY <2>1, <3>2 DEF DueBeforeNext
    <3>4. ~(top.time > new.time)
      BY <2>1, <3>2, <3>3 DEF Executables
    <3> QED
      BY <2>2, <3>1, <3>4 DEF Push
  <2>7. StaysCleared'
    BY DEF StaysCleared, Push, LockFree, TypeOK
  <2>8. ExactlyOnce'
    <3>1. new \notin accepted
      BY <2>1 DEF PushedByCaller, Push
    <3> QED
      BY <2>2, <3>1 DEF Push, ExactlyOnce, SameDelay
  <2> QED
    BY <2>3, <2>4, <2>5, <2>6, <2>7, <2>8 DEF SleepsForOne, Asleep, Push
<1>4. ASSUME NEW f \in Funcs, NotifyOne(f)
      PROVE  Inductive'
  <2> USE <1>4 DEF NotifyOne
  <2>1. TypeOK'
    BY DEF TypeOK, CallerStates, Woken, WorkerStates
  <2>2. PushedByCaller'
    BY DEF PushedByCaller, TypeOK, Executables
  <2>3. StaysCleared'
    BY DEF StaysCleared, LockFree, TypeOK
  <2>4. Asleep' => Asleep
    BY DEF Asleep, Woken
  <2> QED
    BY <2>1, <2>2, <2>3, <2>4
    DEF SleepsForOne, DueBeforeNext, SleepsForTop, ExactlyOnce, SameDelay
<1> QED
  BY <1>1, <1>2, <1>3, <1>4

(* The owner keeps it.                                                     *)
LEMMA OwnerKeepsInductive ==
  ASSUME Inductive, Shutdown \/ Destroy \/ Clear \/ NotifyAll \/ Join
  PROVE  Inductive'
<1> USE DEF Inductive, shutting
<1>1. TypeOK'
  BY DEF Shutdown, Destroy, Clear, NotifyAll, Join, TypeOK, OwnerStates, Woken,
         WorkerStates, Tops
<1>2. Asleep' => Asleep
  BY DEF Shutdown, Destroy, Clear, NotifyAll, Join, Asleep, Woken
<1>3. SleepsForOne'
  BY <1>2 DEF Shutdown, Destroy, Clear, NotifyAll, Join, SleepsForOne
<1>4. PushedByCaller' /\ DueBeforeNext'
  BY DEF Shutdown, Destroy, Clear, NotifyAll, Join, PushedByCaller,
         DueBeforeNext, SameDelay
<1>5. SleepsForTop'
  BY <1>2 DEF Shutdown, Destroy, Clear, NotifyAll, Join, SleepsForTop,
              SameDelay, TypeOK
<1>6. StaysCleared'
  BY DEF Shutdown, Destroy, Clear, NotifyAll, Join, StaysCleared, LockFree,
         TypeOK
<1>7. ExactlyOnce'
  BY DEF Shutdown, Destroy, Clear, NotifyAll, Join, ExactlyOnce, SameDelay
<1> QED
  BY <1>1, <1>3, <1>4, <1>5, <1>6, <1>7

(* A call of pop() and of an executable, the top one when delays are       *)
(* equal, keeps it.                                                        *)
LEMMA PopKeepsInductive ==
  ASSUME Inductive, NEW e \in Executables, PopAndRun(e),
         SameDelay /\ ~cleared => queue # {} /\ e = top,
         executable' \in Executables \cup {None}, UNCHANGED calling
  PROVE  Inductive'
<1> USE DEF Inductive, calling
<1>1. TypeOK'
  BY PopKeepsTypes DEF TypeOK, WorkerStates
<1>2. ~Asleep'
  BY PopKeepsTypes DEF Asleep
<1>3. queue' \subseteq queue
  BY DEF PopAndRun
<1>4. ExactlyOnce'
  <2>1. CASE SameDelay /\ ~cleared
    BY <2>1, PopKeepsExactlyOnce
  <2>2. CASE ~(SameDelay /\ ~cleared)
    BY <2>2 DEF ExactlyOnce, SameDelay
  <2> QED
    BY <2>1, <2>2
<1>5. DueBeforeNext'
  BY <1>3 DEF DueBeforeNext, SameDelay
<1>6. StaysCleared'
  BY <1>3 DEF StaysCleared, LockFree
<1> QED
  BY <1>1, <1>2, <1>4, <1>5, <1>6
  DEF SleepsForOne, PushedByCaller, SleepsForTop

(* The worker keeps it.                                                    *)
LEMMA WorkerKeepsInductive ==
  ASSUME Inductive, Work \/ SpuriousWakeup
  PROVE  Inductive'
<1> USE DEF Inductive
<1>1. ASSUME worker' \in WorkerStates, Asleep' => Asleep,
             UNCHANGED <<queue, top, executable, started, calling>>
      PROVE  Inductive'
  BY <1>1
  DEF TypeOK, SleepsForOne, PushedByCaller, DueBeforeNext, SleepsForTop,
      StaysCleared, ExactlyOnce, SameDelay, LockFree, calling
<1>2. CASE TestActive \/ TestEmpty \/ Timeout \/ FuncReturns \/ SpuriousWakeup
  BY <1>1, <1>2
  DEF TestActive, TestEmpty, Timeout, FuncReturns, SpuriousWakeup, Woken,
      Asleep, WorkerStates
<1>3. ASSUME TakeTop
      PROVE  Inductive'
  <2>1. top \in Executables /\ queue # {}
    BY <1>3, TopIsFirst DEF TakeTop
  <2>2. CASE PopAndRun(top)
    BY <1>3, <2>1, <2>2, PopKeepsInductive DEF TakeTop
  <2>3. CASE worker' = "sleeping" /\ UNCHANGED <<queue, top, started>>
    BY <1>3, <2>1, <2>3
    DEF TakeTop, TypeOK, WorkerStates, SleepsForOne, PushedByCaller,
        DueBeforeNext, SleepsForTop, StaysCleared, ExactlyOnce, SameDelay,
        LockFree, calling
  <2> QED
    BY <1>3, <2>2, <2>3 DEF TakeTop
<1>4. CASE LockAndTake
  BY <1>1, <1>3, <1>4 DEF LockAndTake, Asleep, WorkerStates
<1>5. CASE WakeAndTake
  BY <1>1, <1>3, <1>5 DEF WakeAndTake, Asleep, WorkerStates
<1>6. CASE AfterSleep
  <2>1. executable \in Executables
    BY <1>6 DEF AfterSleep, SleepsForOne, Asleep
  <2>2. SameDelay /\ ~cleared => queue # {} /\ executable = top
    BY <1>6 DEF AfterSleep, SleepsForTop, Asleep
  <2>3. CASE PopAndRun(executable)
    BY <1>6, <2>1, <2>2, <2>3, PopKeepsInductive DEF AfterSleep
  <2>4. CASE worker' = "active" /\ UNCHANGED <<queue, top, started>>
    BY <1>1, <1>6, <2>4 DEF AfterSleep, Asleep, WorkerStates
  <2> QED
    BY <1>6, <2>3, <2>4 DEF AfterSleep
<1> QED
  BY <1>2, <1>4, <1>5, <1>6 DEF Work

(* The invariant is inductive.                                             *)
LEMMA NextInductive == ASSUME Inductive, [Next]_vars PROVE Inductive'
<1>1. CASE UNCHANGED vars
  BY <1>1
  DEF vars, Inductive, TypeOK, SleepsForOne, PushedByCaller, DueBeforeNext,
      SleepsForTop, StaysCleared, ExactlyOnce, Asleep, SameDelay, LockFree
<1> QED
  BY <1>1, CallersKeepInductive, OwnerKeepsInductive, WorkerKeepsInductive
  DEF Next, Finished

LEMMA SpecInductive == Spec => []Inductive
  BY InitInductive, NextInductive, PTL DEF Spec
-----------------------------------------------------------------------------
(* A step that runs an executable runs one that is due, and of equal       *)
(* delays the first.                                                       *)
LEMMA RunsDue ==
  ASSUME Inductive, [Next]_vars, started' # started
  PROVE  /\ Last(started').time <= now
         /\ SameDelay => \A e \in queue : Last(started').time <= e.time
<1> USE DEF Inductive
<1>1. PICK e \in Executables :
        /\ PopAndRun(e) /\ e.time <= now
        /\ SameDelay /\ ~cleared => e = top
  <2>1. CASE TakeTop
    BY <2>1, TopIsFirst DEF TakeTop
  <2>2. CASE AfterSleep
    <3>1. executable \in Executables
      BY <2>2 DEF AfterSleep, SleepsForOne, Asleep
    <3>2. executable.time <= now
      BY <2>2, <3>1 DEF AfterSleep, TypeOK, Executables
    <3> QED
      BY <2>2, <3>1, <3>2 DEF AfterSleep, SleepsForTop, Asleep
  <2> QED
    BY <2>1, <2>2
    DEF Next, Tick, Enter, Push, NotifyOne, Work, TestActive, TestEmpty,
        LockAndTake, WakeAndTake, Timeout, FuncReturns, SpuriousWakeup,
        Shutdown, Destroy, Clear, NotifyAll, Join, Finished, vars, shutting
<1>2. queue # {} /\ started' = Append(started, e)
  BY <1>1, PopKeepsTypes
<1>3. Last(started') = e
  BY <1>2 DEF Last, TypeOK
<1>4. \A d \in queue : top.time <= d.time
  BY <1>2, TopIsFirst
<1>5. ~cleared
  BY <1>2 DEF StaysCleared
<1> QED
  BY <1>1, <1>3, <1>4, <1>5

(* The types are correct whatever the functions and their delays.          *)
THEOREM TypeCorrect == Spec => []TypeOK
  BY SpecInductive, PTL DEF Inductive

(* Whatever the delays, and however the worker is woken, nothing that is   *)
(* given to the scheduler runs before it is due.                           *)
THEOREM NothingEarly == Spec => NeverEarly
<1>1. ASSUME Inductive, [Next]_vars
      PROVE  [started' # started => Last(started').time <= now]_vars
  BY <1>1, RunsDue
<1> QED
  BY <1>1, SpecInductive, PTL DEF Spec, NeverEarly

(* A program that sleeps for the same time everywhere sees its functions   *)
(* run in the order of their due times ...                                 *)
THEOREM EqualDelaysInOrder == Spec => SameInOrder
<1>1. ASSUME Inductive, [Next]_vars
      PROVE  [SameDelay /\ started' # started =>
                \A e \in queue : Last(started').time <= e.time]_vars
  BY <1>1, RunsDue
<1> QED
  BY <1>1, SpecInductive, PTL DEF Spec, SameInOrder

(* ... and each of them exactly once, until the queue is cleared.          *)
THEOREM EqualDelaysExactlyOnce == Spec => []ExactlyOnce
  BY SpecInductive, PTL DEF Inductive
-----------------------------------------------------------------------------
(* Between the computation of need_notify and the push, the lock keeps the *)
(* queue as it was.                                                        *)
OnePushes ==
  \A f, g \in Funcs :
    /\ caller[f] \in {"pushing", "pushing_notify"}
    /\ caller[g] \in {"pushing", "pushing_notify"}
    => f = g

PushesBehindTop ==
  \A f \in Funcs :
    caller[f] = "pushing" => queue # {} /\ top.time <= now + delay[f]

Watchful == OnePushes /\ PushesBehindTop /\ NoLostNotify

(* A step that wakes or pops, and starts no wait, leaves nothing unheard.  *)
LEMMA AwakeKeepsWatchful ==
  ASSUME Watchful, UNCHANGED <<delay, now, caller>>,
         worker' \notin {"waiting", "sleeping"},
         LockFree \/ UNCHANGED <<queue, top>>
  PROVE  Watchful'
  BY DEF Watchful, OnePushes, PushesBehindTop, NoLostNotify, LockFree

(* The worker waits for the top of the queue, or without limit when there  *)
(* is none.                                                                *)
LEMMA TakeKeepsWatchful ==
  ASSUME TypeOK, Watchful, LockFree, TakeTop
  PROVE  Watchful'
<1>1. CASE worker' = "sleeping" /\ executable' = top /\ UNCHANGED queue
  <2>1. \A e \in queue' : ~(e.time < executable'.time)
    BY <1>1, TopIsFirst DEF TakeTop, TypeOK, Executables
  <2> QED
    BY <1>1, <2>1
    DEF TakeTop, calling, Watchful, OnePushes, PushesBehindTop, NoLostNotify,
        LockFree
<1>2. CASE PopAndRun(top)
  BY <1>2, AwakeKeepsWatchful DEF TakeTop, PopAndRun, calling
<1> QED
  BY <1>1, <1>2 DEF TakeTop

LEMMA WorkerKeepsWatchful ==
  ASSUME TypeOK, Watchful, Work \/ SpuriousWakeup
  PROVE  Watchful'
<1>1. CASE TestActive \/ TestEmpty \/ Timeout \/ FuncReturns \/ SpuriousWakeup
  BY <1>1, AwakeKeepsWatchful
  DEF TestActive, TestEmpty, Timeout, FuncReturns, SpuriousWakeup, Woken, calling
<1>2. CASE AfterSleep
  BY <1>2, AwakeKeepsWatchful DEF AfterSleep, PopAndRun, calling
<1>3. CASE LockAndTake
  <2>1. CASE /\ queue = {} /\ worker' = "waiting"
             /\ UNCHANGED <<queue, top, executable, started, calling>>
    BY <2>1
    DEF calling, Watchful, OnePushes, PushesBehindTop, NoLostNotify
  <2> QED
    BY <1>3, <2>1, TakeKeepsWatchful DEF LockAndTake
<1>4. CASE WakeAndTake
  <2>1. CASE /\ worker' = "active"
             /\ UNCHANGED <<queue, top, executable, started, calling>>
    BY <2>1, AwakeKeepsWatchful DEF calling
  <2> QED
    BY <1>4, <2>1, TakeKeepsWatchful DEF WakeAndTake
<1> QED
  BY <1>1, <1>2, <1>3, <1>4 DEF Work

(* The queue and the worker's wait are changed by the holder of the lock;  *)
(* a push before the top is followed by a notification.                    *)
LEMMA NextWatchful ==
  ASSUME TypeOK, SleepsForOne, Watchful, [Next]_vars
  PROVE  Watchful'
<1>1. CASE Tick
  <2>1. PushesBehindTop'
    <3> SUFFICES ASSUME NEW f \in Funcs, caller[f] = "pushing"
                 PROVE  queue # {} /\ top.time <= now + 1 + delay[f]
      BY <1>1 DEF Tick, PushesBehindTop
    <3>1. queue # {} /\ top.time <= now + delay[f]
      BY DEF Watchful, PushesBehindTop
    <3>2. top.time \in Nat /\ now \in Nat /\ delay[f] \in Nat
      BY <3>1, TopIsFirst, SchedulerAssumption DEF TypeOK, Executables
    <3> QED
      BY <3>1, <3>2
  <2> QED
    BY <1>1, <2>1 DEF Tick, Watchful, OnePushes, NoLostNotify
<1>2. ASSUME NEW f \in Funcs, Enter(f)
      PROVE  Watchful'
  <2>1. \A g \in Funcs : g # f => caller'[g] = caller[g]
    BY <1>2 DEF Enter, TypeOK
  <2>2. OnePushes'
    BY <1>2, <2>1 DEF Enter, OnePushes, LockFree
  <2>3. PushesBehindTop'
    <3>1. \A g \in Funcs : g # f => caller'[g] # "pushing"
      BY <1>2, <2>1 DEF Enter, LockFree
    <3>2. caller'[f] = "pushing" => queue # {} /\ ~(top.time > now + delay[f])
      BY <1>2 DEF Enter, TypeOK, NeedNotify
    <3>3. queue # {} => top.time \in Nat /\ now + delay[f] \in Nat
      BY TopIsFirst, SchedulerAssumption DEF TypeOK, Executables
    <3>4. caller'[f] = "pushing" => queue # {} /\ top.time <= now + delay[f]
      BY <3>2, <3>3
    <3> QED
      BY <1>2, <3>1, <3>4 DEF Enter, PushesBehindTop
  <2>4. NoLostNotify'
    BY <1>2, <2>1 DEF Enter, Watchful, NoLostNotify
  <2> QED
    BY <2>2, <2>3, <2>4 DEF Watchful
<1>3. ASSUME NEW f \in Funcs, Push(f)
      PROVE  Watchful'
  <2> DEFINE new == [func |-> f, time |-> now + delay[f]]
  <2>1. /\ \A g \in Funcs : g # f => caller'[g] = caller[g]
        /\ caller'[f] = IF caller[f] = "pushing" THEN "returned" ELSE "notifying"
        /\ queue' = queue \cup {new} /\ new.time = now + delay[f]
        /\ UNCHANGED <<worker, executable>>
    BY <1>3 DEF Push, TypeOK
  <2>2. \A g \in Funcs : caller'[g] \notin {"pushing", "pushing_notify"}
    BY <1>3, <2>1 DEF Push, Watchful, OnePushes
  <2>3. ASSUME caller[f] = "pushing",
               \/ worker' = "waiting" /\ queue' # {}
               \/ worker' = "sleeping"
                    /\ \E e \in queue' : e.time < executable'.time
        PROVE  \E g \in Funcs : caller'[g] = "notifying"
    <3>1. queue # {} /\ top.time <= now + delay[f]
      BY <2>3 DEF Watchful, PushesBehindTop
    <3>2. worker = "sleeping" /\ new.time < executable.time
            => top \in queue /\ top.time < executable.time
      <4>1. top \in queue /\ top.time \in Nat /\ now + delay[f] \in Nat
        BY <3>1, TopIsFirst, SchedulerAssumption DEF TypeOK, Executables
      <4> SUFFICES ASSUME worker = "sleeping", new.time < executable.time
                   PROVE  top.time < executable.time
        BY <4>1
      <4>2. executable.time \in Nat
        BY <2>1 DEF SleepsForOne, Asleep, Executables
      <4> QED
        BY <2>1, <3>1, <4>1, <4>2
    <3>3. PICK g \in Funcs : caller[g] = "notifying"
      BY <2>1, <2>3, <3>1, <3>2 DEF Watchful, NoLostNotify
    <3> QED
      BY <2>1, <2>3, <3>3
  <2>4. NoLostNotify'
    BY <1>3, <2>1, <2>3 DEF Push, NoLostNotify
  <2> QED
    BY <2>2, <2>4 DEF Watchful, OnePushes, PushesBehindTop
<1>4. ASSUME NEW f \in Funcs, NotifyOne(f)
      PROVE  Watchful'
  <2>1. \A g \in Funcs : caller'[g] = IF g = f THEN "returned" ELSE caller[g]
    BY <1>4 DEF NotifyOne, TypeOK
  <2>2. worker' \notin {"waiting", "sleeping"}
    BY <1>4 DEF NotifyOne, Woken
  <2> QED
    BY <1>4, <2>1, <2>2
    DEF NotifyOne, Watchful, OnePushes, PushesBehindTop, NoLostNotify
<1>5. CASE Work \/ SpuriousWakeup
  BY <1>5, WorkerKeepsWatchful
<1>6. CASE Shutdown \/ Destroy \/ Join
  BY <1>6
  DEF Shutdown, Destroy, Join, shutting, Watchful, OnePushes, PushesBehindTop,
      NoLostNotify
<1>7. CASE Clear
  BY <1>7
  DEF Clear, shutting, Watchful, OnePushes, PushesBehindTop, NoLostNotify,
      LockFree
<1>8. CASE NotifyAll
  BY <1>8, AwakeKeepsWatchful DEF NotifyAll, Woken, shutting
<1>9. CASE Finished \/ UNCHANGED vars
  BY <1>9
  DEF Finished, vars, Watchful, OnePushes, PushesBehindTop, NoLostNotify
<1> QED
  BY <1>1, <1>2, <1>3, <1>4, <1>5, <1>6, <1>7, <1>8, <1>9 DEF Next

(* A worker that waits has been told, or will be, of everything it should  *)
(* know, although need_notify is computed before the push and the          *)
(* notification comes after the unlock, and time passes in between.        *)
THEOREM NothingUnheard == Spec => []NoLostNotify
<1>1. Init => Watchful
  BY DEF Init, Watchful, OnePushes, PushesBehindTop, NoLostNotify
<1>2. Inductive /\ Watchful /\ [Next]_vars => Watchful'
  BY NextWatchful DEF Inductive
<1> QED
  BY <1>1, <1>2, SpecInductive, PTL DEF Spec, Watchful
=============================================================================
