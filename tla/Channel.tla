------------------------------ MODULE Channel ------------------------------
(***************************************************************************)
(* The coroutine channel: Channel.h, ChannelAwaiter.h and the Awaiter base *)
(* of CommonAwaiter.h.                                                     *)
(*                                                                         *)
(* Every co_await of the channel is one awaiter object, in Readers or in   *)
(* Writers, and is used once.  A value is named by the writer that sends   *)
(* it.  What a lock_guard or unique_lock on channel_lock protects is one   *)
(* step: the only state another thread touches without the lock is         *)
(* _is_active, which goes from true to false once, and a change of it      *)
(* inside a critical section has the effect of a change right after it.    *)
(* The calls of resume() that follow the unlock are steps of their own.    *)
(* Awaiters resume on an executor that queues the closure (the default     *)
(* SharedElasticExecutor, NewThreadExecutor, SharedLooperExecutor).        *)
(***************************************************************************)
EXTENDS Integers, Sequences, Functions

CONSTANTS
  Readers,      \* the ReaderAwaiter objects
  Writers,      \* the WriterAwaiter objects, and the values they carry
  Closers,      \* the threads that call close(), the destructor's among them
  Capacities,   \* the constructor's arguments, any int
  SizeModulus,  \* 2^(width of std::size_t)
  NoValue       \* an empty optional

Awaiters == Readers \cup Writers

ASSUME ChannelAssumption ==
  /\ Readers \cap Writers = {}
  /\ NoValue \notin Writers
  /\ Capacities \subseteq Int
  /\ SizeModulus \in Nat \ {0}

VARIABLES
  buffer_capacity, \* buffer_capacity
  is_active,       \* _is_active
  buffer,          \* buffer
  writer_list,     \* writer_list
  reader_list,     \* reader_list
  value,           \* the value a reader's resume(value) carries, then _result
  state,           \* where each awaiter is between write()/read() and its end
  pending,         \* the resume() calls left to the thread inside try_push_*
  closer           \* where each caller of close() is

shared == <<buffer_capacity, is_active, buffer, writer_list, reader_list>>
vars == <<buffer_capacity, is_active, buffer, writer_list, reader_list,
          value, state, pending, closer>>

States == {"new",         \* no awaiter yet
           "created",     \* write() or read() has returned it
           "suspended",   \* on writer_list or reader_list
           "matched",     \* off the list, resume() not called yet
           "dispatched",  \* its closure is on the executor
           "unwinding",   \* ChannelClosedException has left co_await
           "returned",    \* co_await has returned
           "threw"}       \* co_await, write() or read() has thrown
-----------------------------------------------------------------------------
Init ==
  /\ buffer_capacity \in Capacities
  /\ is_active = TRUE
  /\ buffer = <<>>
  /\ writer_list = <<>>
  /\ reader_list = <<>>
  /\ value = [r \in Readers |-> NoValue]
  /\ state = [a \in Awaiters |-> "new"]
  /\ pending = [a \in Awaiters |-> <<>>]
  /\ closer = [c \in Closers |-> "idle"]

(* The int buffer_capacity is converted to the type of buffer.size(): a    *)
(* negative capacity is a huge one.                                        *)
Limit == buffer_capacity % SizeModulus

HasRoom == Len(buffer) < Limit

(* write(value), read() and the two operators: check_closed(), then build  *)
(* the awaiter.                                                            *)
Create(a) ==
  /\ state[a] = "new"
  /\ state' = [state EXCEPT ![a] = IF is_active THEN "created" ELSE "threw"]
  /\ UNCHANGED <<shared, value, pending, closer>>

(* The thread inside a's try_push_* leaves the critical section with the   *)
(* awaiters of `order` to resume, in that order.                           *)
Handoff(a, order) ==
  /\ pending' = [pending EXCEPT ![a] = order]
  /\ state' = [b \in Awaiters |->
                 IF b \in Range(order) THEN "matched" ELSE state[b]]

(* check_closed() throws inside await_suspend: co_await rethrows it. *)
Reject(a) ==
  /\ ~is_active
  /\ state' = [state EXCEPT ![a] = "unwinding"]
  /\ UNCHANGED <<shared, value, pending, closer>>

(* Fault: the room a reader makes is not given to a waiting writer. *)
FaultNoRefill(r) ==
  /\ is_active
  /\ buffer # <<>>
  /\ writer_list # <<>>
  /\ value' = [value EXCEPT ![r] = Head(buffer)]
  /\ buffer' = Tail(buffer)
  /\ Handoff(r, <<r>>)
  /\ UNCHANGED <<buffer_capacity, is_active, writer_list, reader_list, closer>>

(* Fault: the waiting writer is resumed but its value is not buffered. *)
FaultRefillDropsValue(r) ==
  /\ is_active
  /\ buffer # <<>>
  /\ writer_list # <<>>
  /\ value' = [value EXCEPT ![r] = Head(buffer)]
  /\ buffer' = Tail(buffer)
  /\ writer_list' = Tail(writer_list)
  /\ Handoff(r, <<Head(writer_list), r>>)
  /\ UNCHANGED <<buffer_capacity, is_active, reader_list, closer>>

(* Fault: the writer's value is pushed after it has been moved away. *)
FaultRefillMovedValue(r) ==
  /\ is_active
  /\ buffer # <<>>
  /\ writer_list # <<>>
  /\ value' = [value EXCEPT ![r] = Head(buffer)]
  /\ buffer' = Append(Tail(buffer), NoValue)
  /\ writer_list' = Tail(writer_list)
  /\ Handoff(r, <<Head(writer_list), r>>)
  /\ UNCHANGED <<buffer_capacity, is_active, reader_list, closer>>

(* Fault: the waiting writers are looked at before the buffer. *)
FaultWriterFirst(r) ==
  /\ is_active
  /\ buffer # <<>>
  /\ writer_list # <<>>
  /\ value' = [value EXCEPT ![r] = Head(writer_list)]
  /\ writer_list' = Tail(writer_list)
  /\ Handoff(r, <<r, Head(writer_list)>>)
  /\ UNCHANGED <<buffer_capacity, is_active, buffer, reader_list, closer>>

(* The oldest buffered value goes to r; the room it leaves goes to the     *)
(* writer that waits longest, which is resumed first.                      *)
TakeAndRefill(r) ==
  /\ is_active
  /\ buffer # <<>>
  /\ writer_list # <<>>
  /\ value' = [value EXCEPT ![r] = Head(buffer)]
  /\ buffer' = Append(Tail(buffer), Head(writer_list))
  /\ writer_list' = Tail(writer_list)
  /\ Handoff(r, <<Head(writer_list), r>>)
  /\ UNCHANGED <<buffer_capacity, is_active, reader_list, closer>>

(* Fault: front() without pop(). *)
FaultBufferNotPopped(r) ==
  /\ is_active
  /\ buffer # <<>>
  /\ writer_list = <<>>
  /\ value' = [value EXCEPT ![r] = Head(buffer)]
  /\ Handoff(r, <<r>>)
  /\ UNCHANGED <<buffer_capacity, is_active, buffer, writer_list, reader_list,
                 closer>>

TakeBuffered(r) ==
  /\ is_active
  /\ buffer # <<>>
  /\ writer_list = <<>>
  /\ value' = [value EXCEPT ![r] = Head(buffer)]
  /\ buffer' = Tail(buffer)
  /\ Handoff(r, <<r>>)
  /\ UNCHANGED <<buffer_capacity, is_active, writer_list, reader_list, closer>>

(* Fault: the writer is read from the list but not popped. *)
FaultNoPop(r) ==
  /\ is_active
  /\ buffer = <<>>
  /\ writer_list # <<>>
  /\ value' = [value EXCEPT ![r] = Head(writer_list)]
  /\ Handoff(r, <<r, Head(writer_list)>>)
  /\ UNCHANGED <<buffer_capacity, is_active, buffer, writer_list, reader_list,
                 closer>>

TakeFromWriter(r) ==
  /\ is_active
  /\ buffer = <<>>
  /\ writer_list # <<>>
  /\ value' = [value EXCEPT ![r] = Head(writer_list)]
  /\ writer_list' = Tail(writer_list)
  /\ Handoff(r, <<r, Head(writer_list)>>)
  /\ UNCHANGED <<buffer_capacity, is_active, buffer, reader_list, closer>>

(* Fault: no check_closed() under the lock. *)
FaultSuspendUnchecked(r) ==
  /\ buffer = <<>>
  /\ writer_list = <<>>
  /\ reader_list' = Append(reader_list, r)
  /\ state' = [state EXCEPT ![r] = "suspended"]
  /\ UNCHANGED <<buffer_capacity, is_active, buffer, writer_list, value,
                 pending, closer>>

SuspendReader(r) ==
  /\ is_active
  /\ buffer = <<>>
  /\ writer_list = <<>>
  /\ reader_list' = Append(reader_list, r)
  /\ state' = [state EXCEPT ![r] = "suspended"]
  /\ UNCHANGED <<buffer_capacity, is_active, buffer, writer_list, value,
                 pending, closer>>

TryPushReader(r) ==
  /\ state[r] = "created"
  /\ \/ Reject(r)
     \/ TakeAndRefill(r)
     \/ TakeBuffered(r)
     \/ TakeFromWriter(r)
     \/ SuspendReader(r)

GiveToReader(w) ==
  /\ is_active
  /\ reader_list # <<>>
  /\ value' = [value EXCEPT ![Head(reader_list)] = w]
  /\ reader_list' = Tail(reader_list)
  /\ Handoff(w, <<Head(reader_list), w>>)
  /\ UNCHANGED <<buffer_capacity, is_active, buffer, writer_list, closer>>

GiveToBuffer(w) ==
  /\ is_active
  /\ reader_list = <<>>
  /\ HasRoom
  /\ buffer' = Append(buffer, w)
  /\ Handoff(w, <<w>>)
  /\ UNCHANGED <<buffer_capacity, is_active, writer_list, reader_list, value,
                 closer>>

SuspendWriter(w) ==
  /\ is_active
  /\ reader_list = <<>>
  /\ ~HasRoom
  /\ writer_list' = Append(writer_list, w)
  /\ state' = [state EXCEPT ![w] = "suspended"]
  /\ UNCHANGED <<buffer_capacity, is_active, buffer, reader_list, value,
                 pending, closer>>

TryPushWriter(w) ==
  /\ state[w] = "created"
  /\ \/ Reject(w)
     \/ GiveToReader(w)
     \/ GiveToBuffer(w)
     \/ SuspendWriter(w)

(* The next resume(): dispatch() puts the closure on the executor. *)
Resume(a) ==
  /\ pending[a] # <<>>
  /\ pending' = [pending EXCEPT ![a] = Tail(@)]
  /\ state' = [state EXCEPT ![Head(pending[a])] = "dispatched"]
  /\ UNCHANGED <<shared, value, closer>>

(* Fault: await_resume does not check that the channel is open. *)
FaultRunUnchecked(a) ==
  /\ state[a] = "dispatched"
  /\ state' = [state EXCEPT ![a] = "returned"]
  /\ UNCHANGED <<shared, value, pending, closer>>

(* The executor runs the closure: the coroutine enters await_resume, whose *)
(* before_resume checks again that the channel is open.                    *)
Run(a) ==
  /\ state[a] = "dispatched"
  /\ state' = [state EXCEPT ![a] = IF is_active THEN "returned"
                                                ELSE "unwinding"]
  /\ UNCHANGED <<shared, value, pending, closer>>

(* std::list::remove(): a list without a is left as it is. *)
Without(list, a) ==
  IF a \in Range(list) THEN SelectSeq(list, LAMBDA b : b # a) ELSE list

(* The awaiter of a co_await that threw still points to the channel: its   *)
(* destructor removes it from its list.                                    *)
Unwind(a) ==
  /\ state[a] = "unwinding"
  /\ state' = [state EXCEPT ![a] = "threw"]
  /\ writer_list' = Without(writer_list, a)
  /\ reader_list' = Without(reader_list, a)
  /\ UNCHANGED <<buffer_capacity, is_active, buffer, value, pending, closer>>

(* close(): the compare_exchange lets one caller through to clean_up(). *)
Close(c) ==
  /\ closer[c] = "idle"
  /\ is_active' = FALSE
  /\ closer' = [closer EXCEPT ![c] = IF is_active THEN "cleaning" ELSE "done"]
  /\ UNCHANGED <<buffer_capacity, buffer, writer_list, reader_list, value,
                 state, pending>>

(* Fault: clean_up() drops the readers without resuming them. *)
FaultReadersNotResumed(c) ==
  /\ closer[c] = "cleaning"
  /\ closer' = [closer EXCEPT ![c] = "done"]
  /\ state' = [a \in Awaiters |->
                 IF a \in Range(writer_list) THEN "dispatched" ELSE state[a]]
  /\ writer_list' = <<>>
  /\ reader_list' = <<>>
  /\ buffer' = <<>>
  /\ UNCHANGED <<buffer_capacity, is_active, value, pending>>

(* clean_up(): everything that waits is resumed, the lists and the buffer  *)
(* are emptied.                                                            *)
CleanUp(c) ==
  /\ closer[c] = "cleaning"
  /\ closer' = [closer EXCEPT ![c] = "done"]
  /\ state' = [a \in Awaiters |->
                 IF a \in Range(writer_list) \cup Range(reader_list)
                 THEN "dispatched" ELSE state[a]]
  /\ writer_list' = <<>>
  /\ reader_list' = <<>>
  /\ buffer' = <<>>
  /\ UNCHANGED <<buffer_capacity, is_active, value, pending>>

(* Every operation has ended and the channel is closed. *)
Finished ==
  /\ \A a \in Awaiters : state[a] \in {"returned", "threw"}
  /\ \A c \in Closers : closer[c] = "done"
  /\ \A a \in Awaiters : pending[a] = <<>>
  /\ UNCHANGED vars

Next ==
  \/ \E a \in Awaiters : Create(a) \/ Resume(a) \/ Run(a) \/ Unwind(a)
  \/ \E r \in Readers : TryPushReader(r)
  \/ \E w \in Writers : TryPushWriter(w)
  \/ \E c \in Closers : Close(c) \/ CleanUp(c)
  \/ Finished

(* Threads that have started an operation go on with it, and the executor  *)
(* runs what it is given.  Nobody has to call write(), read() or close().  *)
Fairness ==
  /\ \A r \in Readers : WF_vars(TryPushReader(r))
  /\ \A w \in Writers : WF_vars(TryPushWriter(w))
  /\ \A a \in Awaiters : WF_vars(Resume(a)) /\ WF_vars(Run(a))
                         /\ WF_vars(Unwind(a))
  /\ \A c \in Closers : WF_vars(CleanUp(c))

Spec == Init /\ [][Next]_vars
FairSpec == Spec /\ Fairness
-----------------------------------------------------------------------------
(* The type invariant. *)
TypeOK ==
  /\ buffer_capacity \in Capacities
  /\ is_active \in BOOLEAN
  /\ buffer \in Seq(Writers)
  /\ writer_list \in Seq(Writers)
  /\ reader_list \in Seq(Readers)
  /\ value \in [Readers -> Writers \cup {NoValue}]
  /\ state \in [Awaiters -> States]
  /\ pending \in [Awaiters -> Seq(Awaiters)]
  /\ closer \in [Closers -> {"idle", "cleaning", "done"}]

(* try_push_reader and try_push_writer only look at one list each before   *)
(* they act.  That is enough because a reader waits only when nothing is   *)
(* in flight, and a writer waits only when the buffer is exactly full; on  *)
(* a channel of negative capacity it never is.                             *)
WaitersMatchBuffer ==
  /\ reader_list # <<>> => buffer = <<>> /\ writer_list = <<>>
  /\ writer_list # <<>> => Len(buffer) = Limit
  /\ Len(buffer) <= Limit

(* A coroutine_handle must not be resumed twice.  Whoever holds a pointer  *)
(* to an awaiter and will call resume() on it - a list, or a thread inside *)
(* try_push_* - is alone in holding it, and the coroutine is suspended.    *)
NoDoubleResume ==
  /\ IsInjective(reader_list)
  /\ IsInjective(writer_list)
  /\ \A i \in DOMAIN reader_list : state[reader_list[i]] = "suspended"
  /\ \A i \in DOMAIN writer_list : state[writer_list[i]] = "suspended"
  /\ \A t \in Awaiters : \A i \in DOMAIN pending[t] :
       state[pending[t][i]] = "matched"
  /\ \A t, u \in Awaiters :
       \A i \in DOMAIN pending[t], j \in DOMAIN pending[u] :
         pending[t][i] = pending[u][j] => t = u /\ i = j

(* Nobody waits for a resume() that no one is left to make: a suspended    *)
(* awaiter is on its list, and one taken off it is in the hands of a       *)
(* thread that still has to resume it.                                     *)
NoneForgotten ==
  \A a \in Awaiters :
    /\ state[a] = "suspended" =>
         a \in Range(reader_list) \cup Range(writer_list)
    /\ state[a] = "matched" => \E t \in Awaiters : a \in Range(pending[t])

(* While the channel is open no accepted value is lost: a writer that got  *)
(* past its suspension has its value in the buffer or at a reader.         *)
NoLossWhileOpen ==
  is_active =>
    \A w \in Writers :
      state[w] \in {"matched", "dispatched", "returned"} =>
        w \in Range(buffer) \cup Range(value)

(* Open or closed, a value is in one place only: waiting with its writer,  *)
(* buffered once, or at one reader.                                        *)
NoDuplicate ==
  /\ IsInjective(buffer)
  /\ Range(buffer) \cap Range(writer_list) = {}
  /\ Range(value) \cap (Range(buffer) \cup Range(writer_list)) = {}
  /\ \A r, s \in Readers : value[r] = value[s] /\ r # s => value[r] = NoValue

(* resume_unsafe() resumes a reader whose _result is empty, and            *)
(* await_resume would read it: the check in before_resume never lets that  *)
(* happen, because only clean_up() resumes a reader without a value.       *)
NoEmptyResult ==
  \A r \in Readers :
    /\ state[r] = "returned" => value[r] # NoValue
    /\ state[r] = "dispatched" /\ value[r] = NoValue => ~is_active

(* A try_push_* that races with close() cannot leave anything behind: once *)
(* clean_up() is over the channel holds no awaiter and no value, for good. *)
ClosedIsEmpty ==
  ~is_active /\ (\A c \in Closers : closer[c] # "cleaning") =>
    buffer = <<>> /\ writer_list = <<>> /\ reader_list = <<>>

(* A coroutine that waits on the channel when it is closed is woken and    *)
(* gets ChannelClosedException.                                            *)
CloseWakesWaiters ==
  \A a \in Awaiters :
    (state[a] = "suspended" /\ ~is_active) ~> state[a] = "threw"

(* The values in flight, oldest first: the buffer, then the values of the  *)
(* waiting writers.                                                        *)
Fifo == INSTANCE FifoChannel WITH
          open <- is_active, queue <- buffer \o writer_list, got <- value

(* The channel implements the FIFO channel. *)
ImplementsFifo == Fifo!Spec
=============================================================================
