---------------------------- MODULE TaskPromise ----------------------------
(***************************************************************************)
(* One coroutine task: TaskPromise.h, with the calls of Task.h and         *)
(* Result.h that use it.  The coroutine runs on its executor and completes *)
(* with a value or with an exception; other threads register callbacks     *)
(* (then, catching, finally) and call get_result(); the owner of the Task  *)
(* destroys it in the end.                                                 *)
(*                                                                         *)
(* A critical section of completion_lock is one step, but for the one that *)
(* completes the task: it calls the callbacks, which are the program's     *)
(* code, one step each.  Spurious wakeups of get_result() are modelled.    *)
(* A callback that runs while the lock is held does not itself use the     *)
(* task: it would wait for itself.                                         *)
(***************************************************************************)
EXTENDS Naturals, Sequences, Functions

CONSTANTS
  Callbacks,  \* the functions handed to on_completed(), each of them once
  Throwing,   \* those of them that may throw when called
  Waiters,    \* the threads that call get_result() once
  Owner,      \* the thread that destroys the Task
  None        \* an empty optional

Getters == Waiters \cup {Owner}
Outcomes == {"value", "error"}

ASSUME TaskPromiseAssumption ==
  /\ Throwing \subseteq Callbacks
  /\ Owner \notin Waiters
  /\ None \notin Outcomes

VARIABLES
  result,     \* result
  callbacks,  \* completion_callbacks
  todo,       \* what is left of it for notify_callbacks() to call
  body,       \* where the coroutine is
  reg,        \* where the on_completed() of each callback is; the copy of the
              \* result with which it is about to call it
  getter,     \* where each get_result() is, then what it has returned
  task,       \* the Task object and, with it, the program
  called,     \* history: the outcomes each callback has been called with
  spurious,   \* history: the getters woken for no reason
  thrown      \* history: a callback has thrown into notify_callbacks()

vars == <<result, callbacks, todo, body, reg, getter, task, called, spurious,
          thrown>>

BodyStates == {"dispatched",   \* the first resume() is on the executor
               "running",      \* in the coroutine's own code
               "returning",    \* in return_value()'s notify_callbacks()
               "unwinding",    \* a callback has thrown out of return_value()
               "failing",      \* in unhandled_exception()'s notify_callbacks()
               "leaving",      \* past it, not suspended yet
               "final"}        \* at final_suspend()
RegStates == {"new", "registered", "returned"} \cup Outcomes
GetterStates == {"idle", "waiting", "woken", "garbage"} \cup Outcomes
TaskStates == {"alive", "destroyed", "terminated"}

(* Fault: the callbacks are called without the lock. *)
FaultLockFree == TRUE

(* Only the coroutine, while it calls the callbacks, holds completion_lock *)
(* from one step to the next.                                              *)
LockFree == body \notin {"returning", "failing"}

Alive == task = "alive"
-----------------------------------------------------------------------------
Init ==
  /\ result = None
  /\ callbacks = <<>>
  /\ todo = <<>>
  /\ body = "dispatched"
  /\ reg = [c \in Callbacks |-> "new"]
  /\ getter = [g \in Getters |-> "idle"]
  /\ task = "alive"
  /\ called = [c \in Callbacks |-> <<>>]
  /\ spurious = {}
  /\ thrown = FALSE

(* The executor calls handle.resume(). *)
Start ==
  /\ Alive
  /\ body = "dispatched"
  /\ body' = "running"
  /\ UNCHANGED <<result, callbacks, todo, reg, getter, task, called, spurious,
                 thrown>>

(* Fault: only the callbacks are notified. *)
FaultSettle(outcome) ==
  /\ result' = outcome
  /\ todo' = callbacks
  /\ UNCHANGED <<callbacks, reg, getter, task, called, spurious>>

(* The lock, the result, notify_all() and the start of notify_callbacks(). *)
Settle(outcome) ==
  /\ result' = outcome
  /\ todo' = callbacks
  /\ getter' = [g \in Getters |->
                  IF getter[g] = "waiting" THEN "woken" ELSE getter[g]]
  /\ UNCHANGED <<callbacks, reg, task, called, spurious>>

(* co_return: return_value() or return_void(). *)
Return ==
  /\ Alive
  /\ body = "running"
  /\ Settle("value")
  /\ body' = "returning"
  /\ UNCHANGED thrown

(* unhandled_exception(), for an exception of the coroutine's code or of a *)
(* callback that return_value() has called.                                *)
Fail ==
  /\ Alive
  /\ body \in {"running", "unwinding"}
  /\ Settle("error")
  /\ body' = "failing"
  /\ UNCHANGED thrown

(* Fault: the iterator is not advanced. *)
FaultCallSame ==
  /\ Alive
  /\ todo # <<>>
  /\ Len(called[Head(todo)]) < 2
  /\ called' = [called EXCEPT ![Head(todo)] = Append(@, result)]
  /\ UNCHANGED <<result, callbacks, todo, body, reg, getter, task, spurious,
                 thrown>>

(* notify_callbacks() calls the next callback, which returns ... *)
CallNext ==
  /\ Alive
  /\ todo # <<>>
  /\ called' = [called EXCEPT ![Head(todo)] = Append(@, result)]
  /\ todo' = Tail(todo)
  /\ UNCHANGED <<result, callbacks, body, reg, getter, task, spurious, thrown>>

(* ... or throws.  The lock is given back and the list is not cleared: an  *)
(* exception out of return_value() ends in unhandled_exception(), one out  *)
(* of that leaves resume() and ends the executor's thread.                 *)
CallNextThrows ==
  /\ Alive
  /\ todo # <<>>
  /\ Head(todo) \in Throwing
  /\ called' = [called EXCEPT ![Head(todo)] = Append(@, result)]
  /\ todo' = <<>>
  /\ thrown' = TRUE
  /\ body' = IF body = "returning" THEN "unwinding" ELSE "leaving"
  /\ task' = IF body = "returning" THEN "alive" ELSE "terminated"
  /\ UNCHANGED <<result, callbacks, reg, getter, spurious>>

(* The list is cleared and the lock given back. *)
NotifyDone ==
  /\ Alive
  /\ body \in {"returning", "failing"}
  /\ todo = <<>>
  /\ callbacks' = <<>>
  /\ body' = "leaving"
  /\ UNCHANGED <<result, todo, reg, getter, task, called, spurious, thrown>>

FinalSuspend ==
  /\ Alive
  /\ body = "leaving"
  /\ body' = "final"
  /\ UNCHANGED <<result, callbacks, todo, reg, getter, task, called, spurious,
                 thrown>>

(* Nobody but its owner is inside a call on the Task object. *)
Unused ==
  /\ \A w \in Waiters : getter[w] \notin {"waiting", "woken"}
  /\ \A c \in Callbacks : reg[c] \notin Outcomes

Usable == Alive /\ getter[Owner] = "idle"

(* Fault: the test of the result is the wrong way round. *)
FaultInverted(c) ==
  /\ Usable
  /\ reg[c] = "new"
  /\ LockFree
  /\ \/ /\ result # None
        /\ callbacks' = Append(callbacks, c)
        /\ reg' = [reg EXCEPT ![c] = "registered"]
     \/ /\ result = None
        /\ reg' = [reg EXCEPT ![c] = result]
        /\ UNCHANGED callbacks
  /\ UNCHANGED <<result, todo, body, getter, task, called, spurious, thrown>>

(* Fault: the callback is put on the list whether or not there is a result. *)
FaultAlwaysQueue(c) ==
  /\ Usable
  /\ reg[c] = "new"
  /\ LockFree
  /\ callbacks' = Append(callbacks, c)
  /\ reg' = [reg EXCEPT ![c] = "registered"]
  /\ UNCHANGED <<result, todo, body, getter, task, called, spurious, thrown>>

(* on_completed(c), under the lock. *)
OnCompleted(c) ==
  /\ Usable
  /\ reg[c] = "new"
  /\ LockFree
  /\ \/ /\ result = None
        /\ callbacks' = Append(callbacks, c)
        /\ reg' = [reg EXCEPT ![c] = "registered"]
     \/ /\ result # None
        /\ reg' = [reg EXCEPT ![c] = result]
        /\ UNCHANGED callbacks
  /\ UNCHANGED <<result, todo, body, getter, task, called, spurious, thrown>>

(* Fault: the Result's value is used without a look at its exception. *)
FaultDefaultValue(c) ==
  /\ reg[c] \in Outcomes
  /\ called' = [called EXCEPT ![c] = Append(@, "value")]
  /\ reg' = [reg EXCEPT ![c] = "returned"]
  /\ UNCHANGED <<result, callbacks, todo, body, getter, task, spurious,
                 thrown>>

(* on_completed(c) calls c itself, without the lock, with its copy of the  *)
(* result.  If c throws, the caller of then(), catching() or finally() gets *)
(* the exception.                                                          *)
CallDirectly(c) ==
  /\ Alive
  /\ reg[c] \in Outcomes
  /\ called' = [called EXCEPT ![c] = Append(@, reg[c])]
  /\ reg' = [reg EXCEPT ![c] = "returned"]
  /\ UNCHANGED <<result, callbacks, todo, body, getter, task, spurious,
                 thrown>>

(* get_result(), under the lock, to its end or to wait(). *)
GetResult(g) ==
  /\ getter[g] = "idle"
  /\ LockFree
  /\ getter' = [getter EXCEPT ![g] =
                 IF result = None THEN "waiting" ELSE result]
  /\ UNCHANGED <<result, callbacks, todo, body, reg, task, called, spurious,
                 thrown>>

WaiterGetsResult(w) == Usable /\ GetResult(w)

(* ~Task() calls get_result() first. *)
OwnerGetsResult == Alive /\ Unused /\ GetResult(Owner)

SpuriousWakeup(g) ==
  /\ Alive
  /\ getter[g] = "waiting"
  /\ getter' = [getter EXCEPT ![g] = "woken"]
  /\ spurious' = spurious \cup {g}
  /\ UNCHANGED <<result, callbacks, todo, body, reg, task, called, thrown>>

(* Back from wait(): the result is not tested again, and an empty optional *)
(* holds garbage.                                                          *)
Woken(g) ==
  /\ Alive
  /\ getter[g] = "woken"
  /\ LockFree
  /\ getter' = [getter EXCEPT ![g] =
                 IF result = None THEN "garbage" ELSE result]
  /\ UNCHANGED <<result, callbacks, todo, body, reg, task, called, spurious,
                 thrown>>

(* ~Task() destroys the frame; an exception out of get_result() ends the   *)
(* program, because destructors are noexcept.                              *)
Destroy ==
  /\ Alive
  /\ \/ /\ getter[Owner] \in {"value", "garbage"}
        /\ task' = "destroyed"
     \/ /\ getter[Owner] \in {"error", "garbage"}
        /\ task' = "terminated"
  /\ UNCHANGED <<result, callbacks, todo, body, reg, getter, called, spurious,
                 thrown>>

(* The frame is gone, or the program is. *)
Finished == ~Alive /\ UNCHANGED vars

Next ==
  \/ Start \/ Return \/ Fail
  \/ CallNext \/ CallNextThrows \/ NotifyDone \/ FinalSuspend
  \/ \E c \in Callbacks : OnCompleted(c) \/ CallDirectly(c)
  \/ \E w \in Waiters : WaiterGetsResult(w)
  \/ OwnerGetsResult
  \/ \E g \in Getters : SpuriousWakeup(g) \/ Woken(g)
  \/ Destroy
  \/ Finished

Run == Start \/ Return \/ Fail \/ CallNext \/ CallNextThrows \/ NotifyDone
         \/ FinalSuspend

(* The executor runs the coroutine, which ends, and callbacks return.  A   *)
(* thread inside a call goes on.  Nobody has to register or to ask.        *)
Fairness ==
  /\ WF_vars(Run)
  /\ \A c \in Callbacks : WF_vars(CallDirectly(c))
  /\ \A g \in Getters : WF_vars(Woken(g))

Spec == Init /\ [][Next]_vars
FairSpec == Spec /\ Fairness
-----------------------------------------------------------------------------
(* The type invariant. *)
TypeOK ==
  /\ result \in Outcomes \cup {None}
  /\ callbacks \in Seq(Callbacks)
  /\ todo \in Seq(Callbacks)
  /\ body \in BodyStates
  /\ reg \in [Callbacks -> RegStates]
  /\ getter \in [Getters -> GetterStates]
  /\ task \in TaskStates
  /\ called \in [Callbacks -> Seq(Outcomes)]
  /\ spurious \subseteq Getters
  /\ thrown \in BOOLEAN

(* However on_completed() races with the completion of the task, a         *)
(* callback is called once at most, unless a callback throws.              *)
CalledOnce == ~thrown => \A c \in Callbacks : Len(called[c]) <= 1

(* Everybody is told the same outcome of the task, by whichever of the     *)
(* three ways: a callback on the list, a callback called at once,          *)
(* get_result().                                                           *)
SameOutcome ==
  ~thrown =>
    /\ \A c \in Callbacks : Range(called[c]) \subseteq {result}
    /\ \A g \in Getters \ spurious :
         getter[g] \in Outcomes => getter[g] = result

(* When ~Task() destroys the frame, with the list of callbacks in it, the  *)
(* task has completed and every registered callback has been called: the   *)
(* lock is held until the last one has returned.                           *)
DestroyedLast ==
  task = "destroyed" /\ Owner \notin spurious /\ ~thrown =>
    /\ result # None
    /\ \A c \in Callbacks : reg[c] = "registered" => called[c] # <<>>

(* What get_result() is documented to do: block for the result or throw.   *)
GetResultBlocks == \A g \in Getters : getter[g] # "garbage"

(* A registered callback is called, unless a callback throws or the frame  *)
(* is destroyed first: the owner must then have been woken for no reason.  *)
RegisteredIsCalled ==
  \A c \in Callbacks :
    reg[c] = "registered" ~> called[c] # <<>> \/ ~Alive \/ thrown

(* A thread that waits in get_result() comes back. *)
GetResultReturns ==
  \A g \in Getters :
    getter[g] = "waiting" ~> getter[g] \in Outcomes \cup {"garbage"} \/ ~Alive
=============================================================================
