---------------------------- MODULE LooperProofs ----------------------------
(***************************************************************************)
(* Proofs about LooperExecutor, for any number of functions.               *)
(***************************************************************************)
EXTENDS LooperExecutor, ListLemmas

(* Nothing that was accepted gets lost: it has been called, is queued, or  *)
(* has been cleared.                                                       *)
AcceptedIsSomewhere ==
  Range(accepted) \subseteq Range(executed) \cup Range(queue) \cup discarded

DueIsAccepted == due \subseteq Range(accepted)

(* The worker looks at the queue's end only after is_active became false.  *)
LeavesInactive == worker \in {"empty", "exited"} => ~is_active

Inductive ==
  /\ TypeOK
  /\ AcceptedIsSomewhere
  /\ DueIsAccepted
  /\ LeavesInactive
  /\ GracefulDrain

(* What Append and the removal of the head do to the elements.             *)
LEMMA AppendRange ==
  ASSUME NEW S, NEW s \in Seq(S), NEW e \in S
  PROVE  Range(Append(s, e)) = Range(s) \cup {e}
<1>1. /\ DOMAIN Append(s, e) = 1 .. Len(s) + 1
      /\ \A i \in 1 .. Len(s) : Append(s, e)[i] = s[i]
      /\ Append(s, e)[Len(s) + 1] = e
      /\ DOMAIN s = 1 .. Len(s) /\ Len(s) \in Nat
  OBVIOUS
<1> QED
  BY <1>1 DEF Range

LEMMA HeadTailRange ==
  ASSUME NEW S, NEW s \in Seq(S), s # <<>>
  PROVE  /\ Head(s) \in S /\ Tail(s) \in Seq(S)
         /\ Range(s) = Range(Tail(s)) \cup {Head(s)}
<1>1. /\ Head(s) \in S /\ Tail(s) \in Seq(S)
      /\ Len(Tail(s)) = Len(s) - 1 /\ Len(s) \in Nat \ {0}
      /\ \A i \in 1 .. Len(Tail(s)) : Tail(s)[i] = s[i + 1]
  BY HeadTailProperties, EmptySeq
<1>2. /\ DOMAIN s = 1 .. Len(s) /\ DOMAIN Tail(s) = 1 .. Len(s) - 1
      /\ Head(s) = s[1]
  BY <1>1
<1>3. ASSUME NEW i \in 1 .. Len(s)
      PROVE  s[i] \in Range(Tail(s)) \cup {Head(s)}
  <2>1. CASE i = 1
    BY <1>2, <2>1
  <2>2. CASE i # 1
    <3>1. i - 1 \in DOMAIN Tail(s) /\ Tail(s)[i - 1] = s[i]
      BY <1>1, <1>2, <2>2
    <3> QED
      BY <3>1 DEF Range
  <2> QED
    BY <2>1, <2>2
<1>4. Range(s) \subseteq Range(Tail(s)) \cup {Head(s)}
  BY <1>2, <1>3 DEF Range
<1>5. Range(Tail(s)) \cup {Head(s)} \subseteq Range(s)
  BY <1>1, <1>2 DEF Range
<1> QED
  BY <1>1, <1>4, <1>5
-----------------------------------------------------------------------------
(* The initial states satisfy the invariant.                               *)
LEMMA InitInductive == ASSUME Init PROVE Inductive
<1> USE DEF Init
<1>1. /\ is_active \in BOOLEAN
      /\ queue \in Seq(Funcs) /\ accepted \in Seq(Funcs)
      /\ executed \in Seq(Funcs)
  OBVIOUS
<1>2. /\ worker \in WorkerStates /\ owner \in OwnerStates
      /\ caller \in [Funcs -> CallerStates]
  BY DEF WorkerStates, OwnerStates, CallerStates
<1>3. Range(accepted) = {}
  BY DEF Range
<1> QED
  BY <1>1, <1>2, <1>3
  DEF Inductive, TypeOK, AcceptedIsSomewhere, DueIsAccepted, LeavesInactive,
      GracefulDrain

(* A step that leaves the queue and the histories alone, and exits with an *)
(* empty queue only, keeps it.                                             *)
LEMMA OtherStepsKeepInductive ==
  ASSUME Inductive, UNCHANGED <<queue, history>>,
         is_active' \in BOOLEAN, worker' \in WorkerStates,
         caller' \in [Funcs -> CallerStates], owner' \in OwnerStates,
         LeavesInactive',
         worker' = "exited" => worker = "exited" \/ queue = <<>>
  PROVE  Inductive'
<1>1. queue = <<>> => Range(queue) = {}
  BY DEF Range
<1> QED
  BY <1>1
  DEF Inductive, TypeOK, AcceptedIsSomewhere, DueIsAccepted, GracefulDrain,
      history

(* So does the call of the first function in the queue.                    *)
LEMMA PopKeepsInductive ==
  ASSUME Inductive, queue # <<>>, Pop
  PROVE  Inductive'
<1> USE DEF Inductive, Pop
<1>1. /\ Head(queue) \in Funcs /\ Tail(queue) \in Seq(Funcs)
      /\ Range(queue) = Range(Tail(queue)) \cup {Head(queue)}
  BY HeadTailRange DEF TypeOK
<1>2. Range(executed') = Range(executed) \cup {Head(queue)}
  BY <1>1, AppendRange DEF TypeOK
<1>3. TypeOK'
  BY <1>1 DEF TypeOK, WorkerStates
<1>4. AcceptedIsSomewhere' /\ DueIsAccepted' /\ GracefulDrain'
        /\ LeavesInactive'
  BY <1>1, <1>2
  DEF AcceptedIsSomewhere, DueIsAccepted, LeavesInactive, GracefulDrain
<1> QED
  BY <1>3, <1>4

(* The invariant is inductive: TestEmpty, the only way out of the loop,    *)
(* finds everything that was due called or cleared.                        *)
LEMMA NextInductive == ASSUME Inductive, [Next]_vars PROVE Inductive'
<1> USE DEF Inductive
<1>1. ASSUME NEW f \in Funcs, Enter(f) \/ NotifyOne(f)
      PROVE  Inductive'
  BY <1>1, OtherStepsKeepInductive
  DEF Enter, NotifyOne, TypeOK, CallerStates, WorkerStates, Woken,
      LeavesInactive
<1>2. ASSUME NEW f \in Funcs, Push(f)
      PROVE  Inductive'
  <2>1. /\ Range(queue') = Range(queue) \cup {f}
        /\ Range(accepted') = Range(accepted) \cup {f}
    BY <1>2, AppendRange DEF Push, TypeOK
  <2>2. TypeOK'
    BY <1>2 DEF Push, TypeOK, CallerStates
  <2> QED
    BY <1>2, <2>1, <2>2
    DEF Push, AcceptedIsSomewhere, DueIsAccepted, LeavesInactive,
        GracefulDrain
<1>3. CASE Work
  <2>1. CASE TestActive \/ TestEmpty \/ FuncReturns
    BY <2>1, OtherStepsKeepInductive
    DEF TestActive, TestEmpty, FuncReturns, TypeOK, WorkerStates,
        LeavesInactive
  <2>2. CASE LockAndTake
    BY <2>2, OtherStepsKeepInductive, PopKeepsInductive
    DEF LockAndTake, TypeOK, WorkerStates, LeavesInactive
  <2>3. CASE WakeAndTake
    BY <2>3, OtherStepsKeepInductive, PopKeepsInductive
    DEF WakeAndTake, TypeOK, WorkerStates, LeavesInactive
  <2> QED
    BY <1>3, <2>1, <2>2, <2>3 DEF Work
<1>4. CASE SpuriousWakeup \/ NotifyAll \/ Join
  BY <1>4, OtherStepsKeepInductive
  DEF SpuriousWakeup, NotifyAll, Join, TypeOK, WorkerStates, OwnerStates,
      Woken, LeavesInactive
<1>5. CASE Shutdown \/ Destroy
  <2>1. due' \subseteq Range(accepted) /\ is_active' \in BOOLEAN
    BY <1>5 DEF Shutdown, Destroy, Store, DueIsAccepted
  <2>2. Range(accepted) \subseteq Funcs
    BY DEF TypeOK, Range
  <2>3. worker = "exited" => due' \subseteq Range(executed) \cup discarded
    BY <1>5
    DEF Shutdown, Destroy, Store, LeavesInactive, GracefulDrain, TypeOK
  <2> QED
    BY <1>5, <2>1, <2>2, <2>3
    DEF Shutdown, Destroy, Store, TypeOK, OwnerStates, AcceptedIsSomewhere,
        DueIsAccepted, LeavesInactive, GracefulDrain
<1>6. CASE Clear
  <2>1. Range(queue) \subseteq Funcs /\ Range(queue') = {}
    BY <1>6 DEF Clear, TypeOK, Range
  <2>2. TypeOK'
    BY <1>6, <2>1 DEF Clear, TypeOK, OwnerStates
  <2> QED
    BY <1>6, <2>1, <2>2
    DEF Clear, AcceptedIsSomewhere, DueIsAccepted, LeavesInactive,
        GracefulDrain
<1>7. CASE UNCHANGED vars
  BY <1>7
  DEF vars, history, TypeOK, AcceptedIsSomewhere, DueIsAccepted,
      LeavesInactive, GracefulDrain
<1> QED
  BY <1>1, <1>2, <1>3, <1>4, <1>5, <1>6, <1>7 DEF Next, Finished

LEMMA SpecInductive == Spec => []Inductive
  BY InitInductive, NextInductive, PTL DEF Spec
-----------------------------------------------------------------------------
(* run_loop() calls nothing but what was submitted, whatever wakes it.     *)
THEOREM TypeCorrect == Spec => []TypeOK
  BY SpecInductive, PTL DEF Inductive

(* A graceful shutdown is complete, however many functions are in the      *)
(* queue: the worker leaves its loop with all of them called or cleared.   *)
THEOREM DrainIsComplete == Spec => []GracefulDrain
  BY SpecInductive, PTL DEF Inductive
-----------------------------------------------------------------------------
(* Each function is accepted once, and before it can be cleared.           *)
AcceptedOnce ==
  /\ IsInjective(accepted)
  /\ \A f \in Range(accepted) : caller[f] \in {"notifying", "returned"}
  /\ discarded \subseteq Range(accepted)

Ordered == AcceptedOnce /\ ExecutedInOrder

(* What is said of the functions called, and to be called, depends on the  *)
(* whole of them only.                                                     *)
LEMMA OrderOfCalls ==
  ASSUME NEW calls, calls = executed' \o queue', IsInjective(calls),
         Range(calls) = Range(accepted') \ discarded',
         \A i, j \in DOMAIN calls :
           i < j => \E k, l \in DOMAIN accepted' :
                      /\ k < l
                      /\ accepted'[k] = calls[i] /\ accepted'[l] = calls[j]
  PROVE  ExecutedInOrder'
<1>1. calls = Calls'
  BY DEF Calls
<1> QED
  BY <1>1 DEF ExecutedInOrder, IsInjective, Range

(* Of two sequences put together, which has no duplicates, the first is    *)
(* what is left without the elements of the second.                        *)
LEMMA ConcatSplits ==
  ASSUME NEW S, NEW s \in Seq(S), NEW t \in Seq(S)
  PROVE  /\ Range(s \o t) = Range(s) \cup Range(t)
         /\ IsInjective(s \o t) => /\ IsInjective(s)
                                   /\ Range(s) = Range(s \o t) \ Range(t)
         /\ \A i \in DOMAIN s : i \in DOMAIN (s \o t) /\ (s \o t)[i] = s[i]
<1>1. /\ DOMAIN s = 1 .. Len(s) /\ DOMAIN t = 1 .. Len(t)
      /\ Len(s) \in Nat /\ Len(t) \in Nat
      /\ DOMAIN (s \o t) = 1 .. Len(s) + Len(t)
      /\ \A i \in 1 .. Len(s) : (s \o t)[i] = s[i]
      /\ \A i \in 1 .. Len(t) : (s \o t)[Len(s) + i] = t[i]
  OBVIOUS
<1>3. Range(s \o t) = Range(s) \cup Range(t)
  BY RangeConcatenation
<1>4. ASSUME IsInjective(s \o t)
      PROVE  IsInjective(s) /\ Range(s) \cap Range(t) = {}
  <2>1. \A i, j \in DOMAIN (s \o t) : (s \o t)[i] = (s \o t)[j] => i = j
    BY <1>4 DEF IsInjective
  <2>2. IsInjective(s)
    BY <1>1, <2>1 DEF IsInjective
  <2>3. ASSUME NEW i \in DOMAIN s, NEW j \in DOMAIN t
        PROVE  s[i] # t[j]
    <3>1. /\ i \in DOMAIN (s \o t) /\ Len(s) + j \in DOMAIN (s \o t)
          /\ i # Len(s) + j
          /\ (s \o t)[i] = s[i] /\ (s \o t)[Len(s) + j] = t[j]
      BY <1>1
    <3> QED
      BY <2>1, <3>1
  <2> QED
    BY <2>2, <2>3 DEF Range
<1> QED
  BY <1>1, <1>3, <1>4

(* A step that leaves the queue and the histories alone keeps the order.   *)
LEMMA OtherStepsKeepOrdered ==
  ASSUME Ordered, UNCHANGED <<queue, accepted, executed, discarded>>,
         \A f \in Funcs : caller[f] \in {"notifying", "returned"} =>
                            caller'[f] \in {"notifying", "returned"},
         TypeOK
  PROVE  Ordered'
<1>1. Range(accepted) \subseteq Funcs
  BY DEF TypeOK, Range
<1>2. AcceptedOnce'
  BY <1>1 DEF Ordered, AcceptedOnce, IsInjective, Range
<1>3. ExecutedInOrder'
  BY OrderOfCalls DEF Ordered, ExecutedInOrder, Calls
<1> QED
  BY <1>2, <1>3 DEF Ordered

(* The head of the queue becomes the last function called.                 *)
LEMMA PopKeepsOrdered ==
  ASSUME TypeOK, Ordered, queue # <<>>, Pop
  PROVE  Ordered'
<1>1. executed' \o queue' = executed \o queue
  BY DEF Pop, TypeOK
<1>2. UNCHANGED <<accepted, discarded, caller>>
  BY DEF Pop
<1>3. AcceptedOnce'
  BY <1>2 DEF Ordered, AcceptedOnce, IsInjective, Range
<1>4. ExecutedInOrder'
  BY <1>1, <1>2, OrderOfCalls DEF Ordered, ExecutedInOrder, Calls
<1> QED
  BY <1>3, <1>4 DEF Ordered

(* A function that is accepted is the last one to be called.               *)
LEMMA PushKeepsOrdered ==
  ASSUME TypeOK, Ordered, NEW f \in Funcs, Push(f)
  PROVE  Ordered'
<1> DEFINE calls == executed \o queue
<1>1. /\ f \notin Range(accepted) /\ f \notin discarded
      /\ f \notin Range(calls)
  BY DEF Push, Ordered, AcceptedOnce, ExecutedInOrder, Calls
<1>2. /\ executed' \o queue' = Append(calls, f) /\ calls \in Seq(Funcs)
      /\ accepted' = Append(accepted, f) /\ UNCHANGED discarded
      /\ caller' = [caller EXCEPT ![f] = "notifying"]
  BY DEF Push, TypeOK
<1> HIDE DEF calls
<1>3. /\ IsInjective(accepted') /\ Range(accepted') = Range(accepted) \cup {f}
      /\ IsInjective(Append(calls, f))
      /\ Range(Append(calls, f)) = Range(calls) \cup {f}
  <2>1. accepted \in Seq(Funcs) /\ IsInjective(accepted) /\ IsInjective(calls)
    BY DEF TypeOK, Ordered, AcceptedOnce, ExecutedInOrder, Calls, calls
  <2>2. IsInjective(accepted') /\ Range(accepted') = Range(accepted) \cup {f}
    BY <1>1, <1>2, <2>1, AppendOne
  <2>3. /\ IsInjective(Append(calls, f))
        /\ Range(Append(calls, f)) = Range(calls) \cup {f}
    BY <1>1, <1>2, <2>1, AppendOne
  <2> QED
    BY <2>2, <2>3
<1>4. AcceptedOnce'
  <2>1. /\ \A g \in Range(accepted) : caller[g] \in {"notifying", "returned"}
        /\ discarded \subseteq Range(accepted)
        /\ caller \in [Funcs -> CallerStates]
    BY DEF TypeOK, Ordered, AcceptedOnce
  <2>2. Range(accepted) \subseteq Funcs
    BY DEF TypeOK, Range
  <2>3. \A g \in Range(accepted') : caller'[g] \in {"notifying", "returned"}
    BY <1>2, <1>3, <2>1, <2>2
  <2> QED
    BY <1>2, <1>3, <2>1, <2>3 DEF AcceptedOnce, IsInjective, Range
<1>5. Range(Append(calls, f)) = Range(accepted') \ discarded'
  BY <1>1, <1>2, <1>3 DEF Ordered, ExecutedInOrder, Calls, calls
<1>6. ASSUME NEW i \in DOMAIN Append(calls, f),
             NEW j \in DOMAIN Append(calls, f), i < j
      PROVE  \E k, l \in DOMAIN accepted' :
               /\ k < l
               /\ accepted'[k] = Append(calls, f)[i]
               /\ accepted'[l] = Append(calls, f)[j]
  <2>1. /\ \A k \in DOMAIN accepted : k \in DOMAIN accepted'
                                      /\ accepted'[k] = accepted[k]
        /\ \A k \in DOMAIN accepted : k < Len(accepted) + 1
        /\ Len(accepted) + 1 \in DOMAIN accepted'
        /\ accepted'[Len(accepted) + 1] = f
    BY <1>2 DEF TypeOK
  <2>2. i \in DOMAIN calls /\ Append(calls, f)[i] = calls[i]
    BY <1>2, <1>6
  <2>3. CASE j \in DOMAIN calls
    <3>1. Append(calls, f)[j] = calls[j]
      BY <1>2, <2>3
    <3>2. PICK k \in DOMAIN accepted, l \in DOMAIN accepted :
            k < l /\ accepted[k] = calls[i] /\ accepted[l] = calls[j]
      BY <1>6, <2>2, <2>3 DEF Ordered, ExecutedInOrder, Calls, calls
    <3> QED
      BY <2>1, <2>2, <3>1, <3>2
  <2>4. CASE j \notin DOMAIN calls
    <3>1. Append(calls, f)[j] = f
      BY <1>2, <2>4
    <3>2. calls[i] \in Range(accepted)
      BY <2>2 DEF Ordered, ExecutedInOrder, Calls, calls, Range
    <3>3. PICK k \in DOMAIN accepted : accepted[k] = calls[i]
      BY <3>2 DEF Range
    <3> QED
      BY <2>1, <2>2, <3>1, <3>3
  <2> QED
    BY <2>3, <2>4
<1>7. ExecutedInOrder'
  <2> DEFINE later == executed' \o queue'
  <2>1. /\ later = Append(calls, f)
        /\ IsInjective(later) /\ Range(later) = Range(accepted') \ discarded'
    BY <1>2, <1>3, <1>5
  <2>2. \A i, j \in DOMAIN later :
          i < j => \E k, l \in DOMAIN accepted' :
                     /\ k < l
                     /\ accepted'[k] = later[i] /\ accepted'[l] = later[j]
    BY <1>6, <2>1
  <2> QED
    BY <2>1, <2>2, OrderOfCalls
<1> QED
  BY <1>4, <1>7 DEF Ordered

(* What is cleared is the end of what was to be called.                    *)
LEMMA ClearKeepsOrdered ==
  ASSUME TypeOK, Ordered, Clear
  PROVE  Ordered'
<1> DEFINE calls == executed \o queue
<1>1. /\ executed' \o queue' = executed /\ UNCHANGED <<accepted, caller>>
      /\ discarded' = discarded \cup Range(queue)
  BY DEF Clear, TypeOK
<1>2. /\ IsInjective(executed) /\ Range(executed) = Range(calls) \ Range(queue)
      /\ Range(queue) \subseteq Range(calls)
      /\ \A i \in DOMAIN executed : i \in DOMAIN calls /\ calls[i] = executed[i]
  BY ConcatSplits DEF TypeOK, Ordered, ExecutedInOrder, Calls
<1>3. /\ Range(calls) = Range(accepted) \ discarded
      /\ \A i, j \in DOMAIN calls :
           i < j => \E k, l \in DOMAIN accepted :
                      k < l /\ accepted[k] = calls[i] /\ accepted[l] = calls[j]
  BY DEF Ordered, ExecutedInOrder, Calls
<1> HIDE DEF calls
<1>4. Range(executed) = Range(accepted) \ discarded'
  BY <1>1, <1>2, <1>3
<1>5. \A i, j \in DOMAIN executed :
        i < j => \E k, l \in DOMAIN accepted :
                   /\ k < l
                   /\ accepted[k] = executed[i] /\ accepted[l] = executed[j]
  BY <1>2, <1>3
<1>6. ExecutedInOrder'
  BY <1>1, <1>2, <1>4, <1>5, OrderOfCalls
<1> QED
  BY <1>1, <1>2, <1>3, <1>6 DEF Ordered, AcceptedOnce

LEMMA NextOrdered == ASSUME TypeOK, Ordered, [Next]_vars PROVE Ordered'
<1>1. ASSUME NEW f \in Funcs, Enter(f) \/ NotifyOne(f)
      PROVE  Ordered'
  BY <1>1, OtherStepsKeepOrdered DEF Enter, NotifyOne, history, TypeOK
<1>2. ASSUME NEW f \in Funcs, Push(f)
      PROVE  Ordered'
  BY <1>2, PushKeepsOrdered
<1>3. CASE LockAndTake \/ WakeAndTake
  BY <1>3, PopKeepsOrdered, OtherStepsKeepOrdered
  DEF LockAndTake, WakeAndTake, history
<1>4. CASE TestActive \/ TestEmpty \/ FuncReturns \/ SpuriousWakeup
             \/ NotifyAll \/ Join \/ Shutdown \/ Destroy \/ UNCHANGED vars
  BY <1>4, OtherStepsKeepOrdered
  DEF TestActive, TestEmpty, FuncReturns, SpuriousWakeup, NotifyAll, Join,
      Shutdown, Destroy, vars, history
<1>5. CASE Clear
  BY <1>5, ClearKeepsOrdered
<1> QED
  BY <1>1, <1>2, <1>3, <1>4, <1>5 DEF Next, Work, Finished

(* With any number of functions, those that are not cleared are called in  *)
(* the order in which they were accepted, each of them once.               *)
THEOREM CalledInOrder == Spec => []ExecutedInOrder
<1>1. Init => Ordered
  BY DEF Init, Ordered, AcceptedOnce, ExecutedInOrder, Calls, IsInjective, Range
<1>2. TypeOK /\ Ordered /\ [Next]_vars => Ordered'
  BY NextOrdered
<1> QED
  BY <1>1, <1>2, TypeCorrect, PTL DEF Spec, Ordered
-----------------------------------------------------------------------------
(* A worker that waits although there is something in the queue will be    *)
(* told: a caller that has pushed has not notified yet.                    *)
NoneUnheard ==
  worker = "waiting" /\ queue # <<>> =>
    \E f \in Funcs : caller[f] = "notifying"

(* Between the worker's look at the queue and its wait() no push comes,    *)
(* and no push is left without its notification, although the one comes    *)
(* after the unlock of the other: the wakeup is never lost.                *)
THEOREM PushesAreHeard == Spec => []NoneUnheard
<1>1. Init => NoneUnheard
  BY DEF Init, NoneUnheard
<1>2. TypeOK /\ NoneUnheard /\ [Next]_vars => NoneUnheard'
  <2> SUFFICES ASSUME TypeOK, NoneUnheard, [Next]_vars
               PROVE  NoneUnheard'
    OBVIOUS
  <2>1. ASSUME NEW f \in Funcs, Enter(f)
        PROVE  NoneUnheard'
    BY <2>1 DEF Enter, NoneUnheard, TypeOK
  <2>2. ASSUME NEW f \in Funcs, Push(f)
        PROVE  NoneUnheard'
    BY <2>2 DEF Push, NoneUnheard, TypeOK
  <2>3. ASSUME NEW f \in Funcs, NotifyOne(f)
        PROVE  NoneUnheard'
    BY <2>3 DEF NotifyOne, Woken, NoneUnheard
  <2>4. CASE Work
    BY <2>4
    DEF Work, TestActive, TestEmpty, LockAndTake, WakeAndTake, Pop, FuncReturns,
        NoneUnheard, history
  <2>5. CASE \/ SpuriousWakeup \/ Shutdown \/ Destroy \/ Clear \/ NotifyAll
             \/ Join \/ UNCHANGED vars
    BY <2>5
    DEF SpuriousWakeup, Shutdown, Destroy, Clear, NotifyAll, Woken, Join, vars,
        NoneUnheard
  <2> QED
    BY <2>1, <2>2, <2>3, <2>4, <2>5 DEF Next, Finished
<1> QED
  BY <1>1, <1>2, TypeCorrect, PTL DEF Spec
-----------------------------------------------------------------------------
(* The worker will leave its loop: shutdown(false) has cleared the queue,  *)
(* and the worker is not between the loop's condition and wait() with      *)
(* nothing to take, nor asleep after the last notification.                *)
Leaves ==
  /\ owner \in {"notifying_last", "joining", "gone"}
  /\ \/ worker \notin {"lock", "waiting"}
     \/ worker = "lock" /\ queue # <<>>
     \/ worker = "waiting" /\ owner = "notifying_last"

Inactive == owner # "alive" => ~is_active

LEMMA StaysInactive == Spec => []Inactive
<1>1. Init => Inactive
  BY DEF Init, Inactive
<1>2. Inactive /\ [Next]_vars => Inactive'
  BY DEF Inactive, Next, Enter, Push, NotifyOne, Work, TestActive, TestEmpty,
         LockAndTake, WakeAndTake, Pop, FuncReturns, SpuriousWakeup, Shutdown,
         Destroy, Store, Clear, NotifyAll, Join, Finished, vars
<1> QED
  BY <1>1, <1>2, PTL DEF Spec

(* The destructor waits for a worker that sleeps for ever in one case      *)
(* only: the worker has tested is_active before shutdown(false) stored it  *)
(* and comes to wait() after notify_all().  A worker that is anywhere else *)
(* never gets there, whatever execute() still puts into the queue.         *)
THEOREM LeavesForGood == Spec => [][Leaves => Leaves']_vars
<1>1. TypeOK /\ Inactive /\ [Next]_vars => [Leaves => Leaves']_vars
  <2> SUFFICES ASSUME TypeOK, Inactive, Next, Leaves
               PROVE  Leaves'
    OBVIOUS
  <2> ~is_active
    BY DEF Inactive, Leaves
  <2>1. ASSUME NEW f \in Funcs, Enter(f) \/ Push(f) \/ NotifyOne(f)
        PROVE  Leaves'
    <3>1. CASE Enter(f)
      BY <3>1 DEF Enter, Leaves
    <3>2. CASE Push(f)
      <4>1. Len(queue') = Len(queue) + 1 /\ Len(queue) \in Nat
        BY <3>2 DEF Push, TypeOK
      <4>2. queue' # <<>>
        BY <4>1
      <4> QED
        BY <3>2, <4>2 DEF Push, Leaves
    <3>3. CASE NotifyOne(f)
      BY <3>3 DEF NotifyOne, Woken, Leaves
    <3> QED
      BY <2>1, <3>1, <3>2, <3>3
  <2>2. CASE Work
    BY <2>2
    DEF Work, TestActive, TestEmpty, LockAndTake, WakeAndTake, Pop, FuncReturns,
        Leaves
  <2>3. CASE SpuriousWakeup \/ NotifyAll \/ Join
    BY <2>3 DEF SpuriousWakeup, NotifyAll, Woken, Join, Leaves
  <2>4. CASE Shutdown \/ Destroy \/ Clear
    BY <2>4 DEF Shutdown, Destroy, Clear, Leaves
  <2>5. CASE Finished
    BY <2>5 DEF Finished, vars, Leaves
  <2> QED
    BY <2>1, <2>2, <2>3, <2>4, <2>5 DEF Next
<1> QED
  BY <1>1, TypeCorrect, StaysInactive, PTL DEF Spec
=============================================================================
