---------------------------- MODULE TaskProofs -----------------------------
(***************************************************************************)
(* Proofs about TaskPromise, for any callbacks and waiters.                *)
(***************************************************************************)
EXTENDS TaskPromise, TLAPS

(* The coroutine has not completed. *)
Early == body \in {"dispatched", "running"}

Distinct(s) == \A i, j \in DOMAIN s : s[i] = s[j] => i = j

(* Each callback on the list is registered and is there once; those that   *)
(* are left to be called have not been called yet.                         *)
ListsHold ==
  /\ Distinct(callbacks)
  /\ \A i \in DOMAIN callbacks : reg[callbacks[i]] = "registered"
  /\ Distinct(todo)
  /\ \A i \in DOMAIN todo :
       reg[todo[i]] = "registered" /\ called[todo[i]] = <<>>

(* Before the completion there is no result, and nothing has been called.  *)
BeforeCompletion ==
  Early =>
    /\ result = None
    /\ todo = <<>>
    /\ \A c \in Callbacks :
         /\ called[c] = <<>>
         /\ reg[c] \in {"new", "registered"}
         /\ reg[c] = "registered" =>
              \E i \in DOMAIN callbacks : callbacks[i] = c

(* After it, what is registered has been called or is left to be called,   *)
(* and nothing is left once the lock has been given back.                  *)
AfterCompletion ==
  ~Early =>
    /\ body # "unwinding"
    /\ result \in Outcomes
    /\ body \in {"leaving", "final"} => todo = <<>>
    /\ \A c \in Callbacks :
         reg[c] = "registered" =>
           called[c] # <<>> \/ \E i \in DOMAIN todo : todo[i] = c

(* A callback has been called with the result, once, or not at all.  The   *)
(* copy with which on_completed() is about to call it is the result.       *)
CalledWithResult ==
  \A c \in Callbacks :
    /\ called[c] \in {<<>>, <<result>>}
    /\ reg[c] \in {"new"} \cup Outcomes => called[c] = <<>>
    /\ reg[c] \in Outcomes => reg[c] = result

(* Who was not woken for no reason has the result, and has it from a time  *)
(* at which the completion has given the lock back.                        *)
GettersAreTold ==
  \A g \in Getters \ spurious :
    /\ getter[g] \in Outcomes =>
         getter[g] = result /\ body \in {"leaving", "final"}
    /\ getter[g] = "woken" => ~Early
    /\ getter[g] # "garbage"

Faultless ==
  /\ ListsHold
  /\ BeforeCompletion
  /\ AfterCompletion
  /\ CalledWithResult
  /\ GettersAreTold
  /\ DestroyedLast

(* Whatever callbacks throw, none is called without a result.              *)
HasResult == result = None => todo = <<>>

Inductive == TypeOK /\ HasResult /\ (~thrown => Faultless)
-----------------------------------------------------------------------------
(* The initial states satisfy the invariant.                               *)
LEMMA InitInductive == ASSUME Init PROVE Inductive
<1> USE DEF Init
<1>1. TypeOK
  <2>1. \A S : <<>> \in Seq(S)
    OBVIOUS
  <2>2. /\ callbacks \in Seq(Callbacks) /\ todo \in Seq(Callbacks)
        /\ called \in [Callbacks -> Seq(Outcomes)]
    BY <2>1
  <2>3. reg \in [Callbacks -> RegStates] /\ getter \in [Getters -> GetterStates]
    BY DEF RegStates, GetterStates
  <2> QED
    BY <2>2, <2>3 DEF TypeOK, BodyStates, TaskStates
<1>2. ListsHold
  BY DEF ListsHold, Distinct
<1>3. BeforeCompletion /\ AfterCompletion
  BY DEF BeforeCompletion, AfterCompletion, Early
<1>4. CalledWithResult /\ GettersAreTold /\ DestroyedLast
  BY DEF CalledWithResult, GettersAreTold, DestroyedLast, Outcomes
<1> QED
  BY <1>1, <1>2, <1>3, <1>4 DEF Inductive, Faultless, HasResult

(* The list of what is left to be called, after one call.                  *)
LEMMA HeadAndTail ==
  ASSUME NEW S, NEW s \in Seq(S), s # <<>>
  PROVE  /\ Head(s) \in S /\ Head(s) = s[1] /\ 1 \in DOMAIN s
         /\ Tail(s) \in Seq(S)
         /\ \A i \in DOMAIN Tail(s) :
              i + 1 \in DOMAIN s /\ Tail(s)[i] = s[i + 1] /\ i + 1 # 1
         /\ \A j \in DOMAIN s \ {1} :
              j - 1 \in DOMAIN Tail(s) /\ Tail(s)[j - 1] = s[j]
OBVIOUS

(* Every step keeps the types, and a result once there is one.             *)
LEMMA TypesKept ==
  ASSUME TypeOK, HasResult, [Next]_vars PROVE TypeOK' /\ HasResult'
<1> USE TaskPromiseAssumption DEF TypeOK, HasResult
<1>1. CASE Start \/ NotifyDone \/ FinalSuspend
  BY <1>1 DEF Start, NotifyDone, FinalSuspend, BodyStates
<1>2. CASE Return \/ Fail
  <2>1. PICK outcome \in Outcomes : Settle(outcome)
    BY <1>2 DEF Return, Fail, Outcomes
  <2>2. getter' \in [Getters -> GetterStates]
    BY <2>1 DEF Settle, GetterStates
  <2> QED
    BY <1>2, <2>1, <2>2 DEF Settle, Return, Fail, BodyStates
<1>3. CASE CallNext \/ CallNextThrows
  <2>1. /\ todo # <<>>
        /\ called' = [called EXCEPT ![Head(todo)] = Append(@, result)]
        /\ todo' \in {Tail(todo), <<>>}
    BY <1>3 DEF CallNext, CallNextThrows
  <2>2. Head(todo) \in Callbacks /\ todo' \in Seq(Callbacks)
    <3>1. <<>> \in Seq(Callbacks)
      OBVIOUS
    <3>2. todo \in Seq(Callbacks) /\ todo # <<>>
      BY <2>1
    <3>3. Head(todo) \in Callbacks /\ Tail(todo) \in Seq(Callbacks)
      BY <3>2, HeadAndTail
    <3> QED
      BY <2>1, <3>1, <3>3
  <2>3. result \in Outcomes /\ result' = result
    BY <1>3, <2>1 DEF CallNext, CallNextThrows
  <2>4. Append(called[Head(todo)], result) \in Seq(Outcomes)
    BY <2>2, <2>3
  <2>5. called' \in [Callbacks -> Seq(Outcomes)]
    BY <2>1, <2>2, <2>4
  <2> QED
    BY <1>3, <2>2, <2>3, <2>5
    DEF CallNext, CallNextThrows, BodyStates, TaskStates
<1>4. CASE \E c \in Callbacks : OnCompleted(c)
  <2>1. PICK c \in Callbacks : OnCompleted(c)
    BY <1>4
  <2>2. Append(callbacks, c) \in Seq(Callbacks)
    OBVIOUS
  <2>3. result # None => result \in Outcomes
    OBVIOUS
  <2>4. reg' \in [Callbacks -> RegStates]
    BY <2>1, <2>3 DEF OnCompleted, RegStates
  <2> QED
    BY <2>1, <2>2, <2>4 DEF OnCompleted
<1>8. CASE \E c \in Callbacks : CallDirectly(c)
  <2>1. PICK c \in Callbacks : CallDirectly(c)
    BY <1>8
  <2>2. reg[c] \in Outcomes /\ Append(called[c], reg[c]) \in Seq(Outcomes)
    BY <2>1 DEF CallDirectly
  <2>3. called' \in [Callbacks -> Seq(Outcomes)]
    BY <2>1, <2>2 DEF CallDirectly
  <2> QED
    BY <2>1, <2>3 DEF CallDirectly, RegStates
<1>5. CASE \E g \in Getters : GetResult(g) \/ SpuriousWakeup(g) \/ Woken(g)
  BY <1>5 DEF GetResult, SpuriousWakeup, Woken, GetterStates
<1>6. CASE Destroy
  BY <1>6 DEF Destroy, TaskStates
<1>7. CASE UNCHANGED vars
  BY <1>7 DEF vars
<1> QED
  BY <1>1, <1>2, <1>3, <1>4, <1>5, <1>6, <1>7, <1>8
  DEF Next, WaiterGetsResult, OwnerGetsResult, Getters, Finished

(* The completion finds no result, and nothing called.                     *)
LEMMA SettleKeeps ==
  ASSUME Inductive, Return \/ Fail, ~thrown'
  PROVE  Faultless'
<1>1. TypeOK /\ Faultless /\ Early /\ Alive /\ thrown' = thrown
  BY DEF Inductive, Faultless, AfterCompletion, Early, Return, Fail
<1>2. PICK outcome \in Outcomes : Settle(outcome)
  BY DEF Return, Fail, Outcomes
<1>3. body' \in {"returning", "failing"} /\ ~Early'
  BY DEF Return, Fail, Early
<1> USE <1>1, <1>2, <1>3 DEF Settle
<1>4. /\ result' = outcome /\ todo' = callbacks
      /\ UNCHANGED <<callbacks, reg, task, called, spurious>>
  OBVIOUS
<1>5. \A c \in Callbacks : called[c] = <<>>
  BY DEF Faultless, BeforeCompletion
<1>6. ListsHold'
  <2>1. \A i \in DOMAIN callbacks : callbacks[i] \in Callbacks
    BY DEF TypeOK
  <2> QED
    BY <1>4, <1>5, <2>1 DEF Faultless, ListsHold, Distinct
<1>7. AfterCompletion' /\ BeforeCompletion'
  BY <1>4 DEF Faultless, BeforeCompletion, AfterCompletion
<1>8. CalledWithResult'
  <2>1. \A c \in Callbacks : reg[c] \notin Outcomes
    BY DEF Faultless, BeforeCompletion, Outcomes
  <2> QED
    BY <1>4, <1>5, <2>1 DEF CalledWithResult
<1>9. GettersAreTold'
  <2>1. \A g \in Getters \ spurious :
          getter[g] \notin Outcomes \cup {"garbage"}
    BY DEF Faultless, GettersAreTold, Early
  <2>2. \A g \in Getters \ spurious :
          getter'[g] \notin Outcomes \cup {"garbage"}
    BY <2>1 DEF Outcomes
  <2> QED
    BY <1>4, <2>2 DEF GettersAreTold
<1>10. DestroyedLast'
  BY <1>4 DEF DestroyedLast, Alive
<1> QED
  BY <1>6, <1>7, <1>8, <1>9, <1>10 DEF Faultless

(* The callback that is called next has not been called before, and is     *)
(* not left a second time.                                                 *)
LEMMA CallNextKeeps ==
  ASSUME Inductive, CallNext, ~thrown'
  PROVE  Faultless'
<1> USE DEF CallNext
<1>1. TypeOK /\ Faultless /\ Alive
  BY DEF Inductive
<1>2. ~Early
  BY <1>1 DEF Faultless, BeforeCompletion
<1>3. ~Early' /\ UNCHANGED <<result, callbacks, body, reg, getter, task, spurious>>
  BY <1>2 DEF Early
<1> DEFINE c == todo[1]
<1>4. todo \in Seq(Callbacks) /\ todo # <<>>
  BY <1>1 DEF TypeOK
<1>5. /\ c \in Callbacks /\ Head(todo) = c /\ 1 \in DOMAIN todo
      /\ \A i \in DOMAIN todo' :
           i + 1 \in DOMAIN todo /\ todo'[i] = todo[i + 1] /\ i + 1 # 1
      /\ \A j \in DOMAIN todo \ {1} :
           j - 1 \in DOMAIN todo' /\ todo'[j - 1] = todo[j]
  BY <1>4, HeadAndTail
<1>6. reg[c] = "registered" /\ called[c] = <<>>
  BY <1>1, <1>5 DEF Faultless, ListsHold
<1>7. /\ called'[c] = <<result>> /\ called'[c] # <<>>
      /\ \A d \in Callbacks : d # c => called'[d] = called[d]
  <2>1. called' = [called EXCEPT ![c] = Append(called[c], result)]
    BY <1>5
  <2>2. Append(<<>>, result) = <<result>> /\ <<result>> # <<>>
    OBVIOUS
  <2>3. called \in [Callbacks -> Seq(Outcomes)]
    BY <1>1 DEF TypeOK
  <2> QED
    BY <1>5, <1>6, <2>1, <2>2, <2>3
<1>8. \A i \in DOMAIN todo' : todo'[i] \in Callbacks /\ todo'[i] # c
  BY <1>1, <1>4, <1>5 DEF Faultless, ListsHold, Distinct
<1>9. ListsHold'
  <2>1. Distinct(todo')
    <3>1. DOMAIN todo' \subseteq Nat
      BY <1>4
    <3> QED
      BY <1>1, <1>5, <3>1 DEF Faultless, ListsHold, Distinct
  <2>2. \A i \in DOMAIN todo' : reg[todo'[i]] = "registered"
                                  /\ called'[todo'[i]] = <<>>
    BY <1>1, <1>5, <1>7, <1>8 DEF Faultless, ListsHold
  <2> QED
    BY <1>1, <1>3, <2>1, <2>2 DEF Faultless, ListsHold
<1>10. BeforeCompletion' /\ AfterCompletion'
  <2>1. /\ body # "unwinding" /\ result \in Outcomes
        /\ body \notin {"leaving", "final"}
    BY <1>1, <1>2, <1>4 DEF Faultless, AfterCompletion
  <2>2. ASSUME NEW d \in Callbacks, reg[d] = "registered"
        PROVE  called'[d] # <<>> \/ \E i \in DOMAIN todo' : todo'[i] = d
    <3>1. CASE d = c
      BY <1>7, <3>1
    <3>4. called[d] # <<>> \/ \E i \in DOMAIN todo : todo[i] = d
      BY <1>1, <1>2, <2>2 DEF Faultless, AfterCompletion
    <3>2. CASE d # c /\ called[d] # <<>>
      BY <1>7, <3>2
    <3>3. CASE d # c /\ \E i \in DOMAIN todo : todo[i] = d
      BY <1>5, <3>3
    <3> QED
      BY <3>1, <3>2, <3>3, <3>4
  <2> QED
    BY <1>3, <2>1, <2>2 DEF BeforeCompletion, AfterCompletion
<1>11. CalledWithResult'
  <2>1. "registered" \notin {"new"} \cup Outcomes
    BY DEF Outcomes
  <2> QED
    BY <1>1, <1>3, <1>6, <1>7, <2>1 DEF Faultless, CalledWithResult
<1>12. GettersAreTold' /\ DestroyedLast'
  BY <1>1, <1>2, <1>3 DEF Faultless, GettersAreTold, DestroyedLast, Alive
<1> QED
  BY <1>9, <1>10, <1>11, <1>12 DEF Faultless

(* The coroutine goes on where it calls nothing.                           *)
LEMMA BodyKeeps ==
  ASSUME Inductive, Start \/ NotifyDone \/ FinalSuspend, ~thrown'
  PROVE  Faultless'
<1>1. TypeOK /\ Faultless /\ Alive
      /\ UNCHANGED <<result, todo, reg, getter, task, called, spurious>>
  BY DEF Inductive, Start, NotifyDone, FinalSuspend
<1>2. /\ callbacks' \in {callbacks, <<>>}
      /\ Early' <=> Early
      /\ Early => callbacks' = callbacks
      /\ body' # "unwinding"
      /\ body' \in {"leaving", "final"} => todo = <<>>
      /\ body \in {"leaving", "final"} => body' \in {"leaving", "final"}
  BY <1>1 DEF Start, NotifyDone, FinalSuspend, Early, Faultless, AfterCompletion
<1>3. ListsHold'
  BY <1>1, <1>2 DEF Faultless, ListsHold, Distinct
<1>4. BeforeCompletion' /\ AfterCompletion'
  BY <1>1, <1>2 DEF Faultless, BeforeCompletion, AfterCompletion
<1>5. CalledWithResult' /\ GettersAreTold' /\ DestroyedLast'
  BY <1>1, <1>2
  DEF Faultless, CalledWithResult, GettersAreTold, DestroyedLast, Alive
<1> QED
  BY <1>3, <1>4, <1>5 DEF Faultless

(* on_completed() puts a callback on the list before the completion and    *)
(* calls it after it.                                                      *)
LEMMA OnCompletedKeeps ==
  ASSUME Inductive, NEW c \in Callbacks, OnCompleted(c), ~thrown'
  PROVE  Faultless'
<1> USE DEF OnCompleted
<1>1. /\ TypeOK /\ Faultless /\ Alive /\ reg[c] = "new" /\ called[c] = <<>>
      /\ UNCHANGED <<result, todo, body, getter, task, called, spurious>>
  BY DEF Inductive, Usable, Faultless, CalledWithResult
<1>2. /\ callbacks \in Seq(Callbacks) /\ todo \in Seq(Callbacks)
      /\ reg \in [Callbacks -> RegStates] /\ None \notin Outcomes
  BY <1>1, TaskPromiseAssumption DEF TypeOK
<1>3. \A i \in DOMAIN callbacks : callbacks[i] \in Callbacks /\ callbacks[i] # c
  BY <1>1, <1>2 DEF Faultless, ListsHold
<1>4. \A i \in DOMAIN todo : todo[i] \in Callbacks /\ todo[i] # c
  BY <1>1, <1>2 DEF Faultless, ListsHold
<1>5. \A d \in Callbacks : d # c => reg'[d] = reg[d]
  BY <1>2
<1>6. CASE result = None
  <2>1. /\ callbacks' = Append(callbacks, c) /\ reg'[c] = "registered" /\ Early
    BY <1>1, <1>2, <1>6 DEF Faultless, AfterCompletion
  <2>2. /\ \A i \in DOMAIN callbacks :
             i \in DOMAIN callbacks' /\ callbacks'[i] = callbacks[i]
        /\ \E i \in DOMAIN callbacks' : callbacks'[i] = c
        /\ \A i \in DOMAIN callbacks' :
             callbacks'[i] # c => i \in DOMAIN callbacks
        /\ \A i \in DOMAIN callbacks' :
             callbacks'[i] = c => i = Len(callbacks) + 1
    BY <1>2, <1>3, <2>1
  <2>3. ListsHold'
    BY <1>1, <1>2, <1>3, <1>4, <1>5, <2>1, <2>2 DEF Faultless, ListsHold, Distinct
  <2>4. BeforeCompletion' /\ AfterCompletion'
    BY <1>1, <1>5, <2>1, <2>2
    DEF Faultless, BeforeCompletion, AfterCompletion, Early
  <2>5. CalledWithResult'
    <3>1. "registered" \notin Outcomes
      BY DEF Outcomes
    <3> QED
      BY <1>1, <1>5, <2>1, <3>1 DEF Faultless, CalledWithResult
  <2>6. GettersAreTold' /\ DestroyedLast'
    BY <1>1, <1>5, <2>1
    DEF Faultless, GettersAreTold, DestroyedLast, Alive, Early
  <2> QED
    BY <2>3, <2>4, <2>5, <2>6 DEF Faultless
<1>7. CASE result # None
  <2>1. /\ callbacks' = callbacks /\ reg'[c] = result /\ ~Early
        /\ result \in Outcomes /\ reg'[c] # "registered"
    BY <1>1, <1>2, <1>7 DEF Faultless, BeforeCompletion, TypeOK, Outcomes
  <2>2. ListsHold'
    BY <1>1, <1>2, <1>3, <1>4, <1>5, <2>1 DEF Faultless, ListsHold, Distinct
  <2>3. BeforeCompletion' /\ AfterCompletion'
    BY <1>1, <1>5, <2>1
    DEF Faultless, BeforeCompletion, AfterCompletion, Early
  <2>4. CalledWithResult' /\ GettersAreTold' /\ DestroyedLast'
    BY <1>1, <1>5, <2>1
    DEF Faultless, CalledWithResult, GettersAreTold, DestroyedLast, Alive, Early
  <2> QED
    BY <2>2, <2>3, <2>4 DEF Faultless
<1> QED
  BY <1>6, <1>7

(* A callback that on_completed() calls itself is on no list.              *)
LEMMA CallDirectlyKeeps ==
  ASSUME Inductive, NEW c \in Callbacks, CallDirectly(c), ~thrown'
  PROVE  Faultless'
<1> USE DEF CallDirectly
<1>1. /\ TypeOK /\ Faultless /\ Alive /\ reg[c] = result /\ called[c] = <<>>
      /\ result \in Outcomes /\ reg[c] \notin {"new", "registered"}
      /\ UNCHANGED <<result, callbacks, todo, body, getter, task, spurious>>
  BY DEF Inductive, Faultless, CalledWithResult, Outcomes
<1>2. /\ callbacks \in Seq(Callbacks) /\ todo \in Seq(Callbacks)
      /\ reg \in [Callbacks -> RegStates]
      /\ called \in [Callbacks -> Seq(Outcomes)]
  BY <1>1 DEF TypeOK
<1>3. Append(<<>>, result) = <<result>>
  OBVIOUS
<1>4. /\ called'[c] = <<result>> /\ reg'[c] = "returned"
      /\ \A d \in Callbacks : d # c => /\ called'[d] = called[d]
                                       /\ reg'[d] = reg[d]
  BY <1>1, <1>2, <1>3
<1>5. /\ \A i \in DOMAIN callbacks : callbacks[i] \in Callbacks \ {c}
      /\ \A i \in DOMAIN todo : todo[i] \in Callbacks \ {c}
  BY <1>1, <1>2 DEF Faultless, ListsHold
<1>6. ~Early
  BY <1>1 DEF Faultless, BeforeCompletion
<1>7. ListsHold'
  BY <1>1, <1>4, <1>5 DEF Faultless, ListsHold, Distinct
<1>8. BeforeCompletion' /\ AfterCompletion'
  BY <1>1, <1>4, <1>6
  DEF Faultless, BeforeCompletion, AfterCompletion, Early
<1>9. CalledWithResult'
  <2>1. "returned" \notin {"new"} \cup Outcomes
    BY DEF Outcomes
  <2> QED
    BY <1>1, <1>4, <2>1 DEF Faultless, CalledWithResult
<1>10. GettersAreTold' /\ DestroyedLast'
  BY <1>1, <1>6 DEF Faultless, GettersAreTold, DestroyedLast, Alive, Early
<1> QED
  BY <1>7, <1>8, <1>9, <1>10 DEF Faultless

(* While nobody holds the lock, the completion is over or has not begun.   *)
LEMMA GettersKeep ==
  ASSUME Inductive, ~thrown', NEW g \in Getters,
         WaiterGetsResult(g) \/ OwnerGetsResult \/ SpuriousWakeup(g) \/ Woken(g)
  PROVE  Faultless'
<1>1. /\ TypeOK /\ Faultless /\ Alive
      /\ UNCHANGED <<result, callbacks, todo, body, reg, task, called>>
      /\ spurious \subseteq spurious'
  BY DEF Inductive, WaiterGetsResult, OwnerGetsResult, SpuriousWakeup, Woken,
         GetResult, Usable
<1>2. /\ ListsHold' /\ BeforeCompletion' /\ AfterCompletion'
      /\ CalledWithResult' /\ DestroyedLast'
  BY <1>1 DEF Faultless, ListsHold, Distinct, BeforeCompletion, AfterCompletion,
              CalledWithResult, DestroyedLast, Alive, Early
<1>3. LockFree => Early \/ body \in {"leaving", "final"}
  BY <1>1 DEF TypeOK, BodyStates, LockFree, Early, Faultless, AfterCompletion
<1>4. /\ Early => result = None
      /\ ~Early => result \in Outcomes
      /\ None \notin Outcomes
  BY <1>1, TaskPromiseAssumption
  DEF Faultless, BeforeCompletion, AfterCompletion
<1>5. getter \in [Getters -> GetterStates]
  BY <1>1 DEF TypeOK
<1>6. /\ \A h \in Getters \ spurious :
           /\ getter[h] \in Outcomes =>
                getter[h] = result /\ body \in {"leaving", "final"}
           /\ getter[h] = "woken" => ~Early
           /\ getter[h] # "garbage"
  BY <1>1 DEF Faultless, GettersAreTold
<1>7. GettersAreTold'
  <2>1. CASE \E h \in Getters : GetResult(h)
    BY <1>1, <1>3, <1>4, <1>5, <1>6, <2>1
    DEF GetResult, GettersAreTold, Early, Outcomes
  <2>2. CASE SpuriousWakeup(g)
    BY <1>1, <1>5, <1>6, <2>2
    DEF SpuriousWakeup, GettersAreTold, Early, Outcomes
  <2>3. CASE Woken(g)
    BY <1>1, <1>3, <1>4, <1>5, <1>6, <2>3
    DEF Woken, GettersAreTold, Early, Outcomes
  <2> QED
    BY <2>1, <2>2, <2>3 DEF WaiterGetsResult, OwnerGetsResult, Getters
<1> QED
  BY <1>2, <1>7 DEF Faultless

(* ~Task() has waited for the completion, and thereby for the callbacks.   *)
LEMMA DestroyKeeps ==
  ASSUME Inductive, Destroy, ~thrown'
  PROVE  Faultless'
<1> USE DEF Destroy
<1>1. TypeOK /\ Faultless
      /\ UNCHANGED <<result, callbacks, todo, body, reg, getter, called, spurious>>
  BY DEF Inductive
<1>2. /\ ListsHold' /\ BeforeCompletion' /\ AfterCompletion'
      /\ CalledWithResult' /\ GettersAreTold'
  BY <1>1 DEF Faultless, ListsHold, Distinct, BeforeCompletion, AfterCompletion,
              CalledWithResult, GettersAreTold, Early
<1>3. ASSUME Owner \notin spurious
      PROVE  body \in {"leaving", "final"}
  BY <1>1, <1>3 DEF Faultless, GettersAreTold, Getters, Outcomes
<1>4. DestroyedLast'
  <2>1. ASSUME Owner \notin spurious
        PROVE  /\ result \in Outcomes /\ todo = <<>>
               /\ \A c \in Callbacks : reg[c] = "registered" => called[c] # <<>>
    BY <1>1, <1>3, <2>1 DEF Faultless, AfterCompletion, Early
  <2> QED
    BY <1>1, <2>1, TaskPromiseAssumption DEF DestroyedLast
<1> QED
  BY <1>2, <1>4 DEF Faultless

(* Every step keeps the invariant.                                         *)
LEMMA StepInductive == ASSUME Inductive, [Next]_vars PROVE Inductive'
<1>1. TypeOK' /\ HasResult'
  BY TypesKept DEF Inductive
<1>2. ASSUME ~thrown' PROVE Faultless'
  <2>1. CASE Return \/ Fail
    BY <1>2, <2>1, SettleKeeps
  <2>2. CASE CallNext
    BY <1>2, <2>2, CallNextKeeps
  <2>3. CASE CallNextThrows
    BY <1>2, <2>3 DEF CallNextThrows
  <2>4. CASE Start \/ NotifyDone \/ FinalSuspend
    BY <1>2, <2>4, BodyKeeps
  <2>5. CASE \E c \in Callbacks : OnCompleted(c) \/ CallDirectly(c)
    BY <1>2, <2>5, OnCompletedKeeps, CallDirectlyKeeps
  <2>6. CASE \/ \E w \in Waiters : WaiterGetsResult(w)
             \/ OwnerGetsResult
             \/ \E g \in Getters : SpuriousWakeup(g) \/ Woken(g)
    BY <1>2, <2>6, GettersKeep DEF Getters
  <2>7. CASE Destroy
    BY <1>2, <2>7, DestroyKeeps
  <2>8. CASE UNCHANGED vars
    BY <1>2, <2>8
    DEF vars, Inductive, Faultless, ListsHold, Distinct, BeforeCompletion,
        AfterCompletion, CalledWithResult, GettersAreTold, DestroyedLast, Early
  <2> QED
    BY <2>1, <2>2, <2>3, <2>4, <2>5, <2>6, <2>7, <2>8 DEF Next, Finished
<1> QED
  BY <1>1, <1>2 DEF Inductive

LEMMA AlwaysInductive == Spec => []Inductive
<1>1. Init => Inductive
  BY InitInductive
<1>2. Inductive /\ [Next]_vars => Inductive'
  BY StepInductive
<1> QED
  BY <1>1, <1>2, PTL DEF Spec
-----------------------------------------------------------------------------
(* The variables have their types.                                         *)
THEOREM TypeCorrect == Spec => []TypeOK
<1>1. Inductive => TypeOK
  BY DEF Inductive
<1> QED
  BY <1>1, AlwaysInductive, PTL

(* No callback is called twice, however on_completed() and the completion  *)
(* interleave.                                                             *)
THEOREM CallbacksCalledOnce == Spec => []CalledOnce
<1>1. Inductive => CalledOnce
  <2>1. \A r : Len(<<r>>) <= 1 /\ Len(<<>>) <= 1
    OBVIOUS
  <2> QED
    BY <2>1 DEF Inductive, Faultless, CalledWithResult, CalledOnce
<1> QED
  BY <1>1, AlwaysInductive, PTL

(* Callbacks and get_result() agree about the outcome.                     *)
THEOREM OneOutcome == Spec => []SameOutcome
<1>1. Inductive => SameOutcome
  <2>1. \A r : Range(<<r>>) \subseteq {r} /\ Range(<<>>) = {}
    BY DEF Range
  <2> QED
    BY <2>1
    DEF Inductive, Faultless, CalledWithResult, GettersAreTold, SameOutcome
<1> QED
  BY <1>1, AlwaysInductive, PTL

(* The frame outlives the calls of the registered callbacks.               *)
THEOREM FrameDestroyedLast == Spec => []DestroyedLast
<1>1. Inductive => DestroyedLast
  BY DEF Inductive, Faultless, DestroyedLast
<1> QED
  BY <1>1, AlwaysInductive, PTL
-----------------------------------------------------------------------------
(* Nobody waits for a result that is there, and a callback that was put on *)
(* the list before the result has been called when the lock is free again. *)
NobodyMissed ==
  /\ result # None => \A g \in Getters : getter[g] # "waiting"
  /\ ~thrown /\ result # None /\ LockFree =>
       \A c \in Callbacks : reg[c] = "registered" => called[c] # <<>>

(* get_result() and on_completed() test the result and join the waiters in *)
(* one critical section, and the completion wakes and calls all of them in *)
(* one: no thread goes to sleep, and no callback onto the list, too late.  *)
THEOREM CompletionMissesNobody == Spec => []NobodyMissed
<1> DEFINE Awake == result # None => \A g \in Getters : getter[g] # "waiting"
<1>1. Init => Awake
  BY DEF Init
<1>2. TypeOK /\ Awake /\ [Next]_vars => Awake'
  <2> SUFFICES ASSUME TypeOK, Awake, [Next]_vars PROVE Awake'
    OBVIOUS
  <2>1. CASE Return \/ Fail
    BY <2>1 DEF Return, Fail, Settle
  <2>2. ASSUME NEW g \in Getters, GetResult(g) \/ SpuriousWakeup(g) \/ Woken(g)
        PROVE  Awake'
    BY <2>2 DEF TypeOK, Outcomes, GetResult, SpuriousWakeup, Woken
  <2>3. CASE UNCHANGED <<result, getter>>
    BY <2>3
  <2> QED
    BY <2>1, <2>2, <2>3
    DEF Next, Start, CallNext, CallNextThrows, NotifyDone, FinalSuspend,
        OnCompleted, CallDirectly, WaiterGetsResult, OwnerGetsResult, Getters,
        Destroy, Finished, vars
<1>3. Inductive /\ Awake => NobodyMissed
  <2> SUFFICES ASSUME Inductive, ~thrown, result # None, LockFree,
                      NEW c \in Callbacks, reg[c] = "registered"
               PROVE  called[c] # <<>>
    BY DEF NobodyMissed
  <2>1. ~Early /\ body \in {"leaving", "final"}
    BY DEF Inductive, Faultless, BeforeCompletion, AfterCompletion, LockFree,
           TypeOK, BodyStates, Early
  <2>2. todo = <<>>
    BY <2>1 DEF Inductive, Faultless, AfterCompletion
  <2> QED
    BY <2>1, <2>2 DEF Inductive, Faultless, AfterCompletion
<1> QED
  BY <1>1, <1>2, <1>3, TypeCorrect, AlwaysInductive, PTL DEF Spec
=============================================================================
