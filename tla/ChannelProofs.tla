--------------------------- MODULE ChannelProofs ---------------------------
(***************************************************************************)
(* Proofs about Channel, for any number of awaiters and closers and any    *)
(* capacity: first that each coroutine is resumed by one thread; from this *)
(* that Channel implements FifoChannel, and what does not fit into the     *)
(* abstract channel, that nothing is left after close().                   *)
(***************************************************************************)
EXTENDS Channel, ListLemmas

(* An awaiter whose co_await has thrown is on no list, so remove_writer()  *)
(* and remove_reader() find nothing to remove.                             *)
LEMMA RemoveFindsNothing ==
  ASSUME TypeOK, NoDoubleResume, NEW a \in Awaiters, state[a] = "unwinding"
  PROVE  /\ Without(writer_list, a) = writer_list
         /\ Without(reader_list, a) = reader_list
  BY DEF TypeOK, NoDoubleResume, Without, Range

(* A hand-over of awaiters keeps the types of what it changes.             *)
LEMMA HandoffTypes ==
  ASSUME TypeOK, NEW a \in Awaiters, NEW order \in Seq(Awaiters),
         Handoff(a, order)
  PROVE  /\ state' \in [Awaiters -> States]
         /\ pending' \in [Awaiters -> Seq(Awaiters)]
  BY DEF Handoff, TypeOK, States

(* Every step keeps the types: heads and tails are taken of nonempty       *)
(* sequences only.                                                         *)
LEMMA NextTypeOK ==
  ASSUME TypeOK, NoDoubleResume, [Next]_vars
  PROVE  TypeOK'
<1> USE ChannelAssumption DEF TypeOK, Awaiters, States, shared
<1>1. CASE \E a \in Awaiters : Create(a)
  BY <1>1 DEF Create
<1>2. CASE \E a \in Awaiters : Resume(a)
  <2> PICK a \in Awaiters : Resume(a)
    BY <1>2
  <2>1. Head(pending[a]) \in Awaiters /\ Tail(pending[a]) \in Seq(Awaiters)
    BY HeadTailProperties DEF Resume
  <2> QED
    BY <2>1 DEF Resume
<1>3. CASE \E a \in Awaiters : Run(a)
  BY <1>3 DEF Run
<1>4. CASE \E a \in Awaiters : Unwind(a)
  <2>1. PICK a \in Awaiters : Unwind(a)
    BY <1>4
  <2>2. UNCHANGED <<writer_list, reader_list>>
    BY <2>1, RemoveFindsNothing DEF Unwind
  <2> QED
    BY <2>1, <2>2 DEF Unwind
<1>5. ASSUME NEW r \in Readers, TryPushReader(r)
      PROVE  TypeOK'
  <2>1. CASE Reject(r)
    BY <2>1 DEF Reject
  <2>2. CASE TakeAndRefill(r)
    <3>1. /\ Head(buffer) \in Writers /\ Tail(buffer) \in Seq(Writers)
          /\ Head(writer_list) \in Writers /\ Tail(writer_list) \in Seq(Writers)
      BY <2>2, HeadTailProperties DEF TakeAndRefill
    <3>2. <<Head(writer_list), r>> \in Seq(Awaiters)
      BY <3>1
    <3>3. /\ state' \in [Awaiters -> States]
          /\ pending' \in [Awaiters -> Seq(Awaiters)]
      BY <2>2, <3>2, HandoffTypes DEF TakeAndRefill
    <3>4. /\ value' \in [Readers -> Writers \cup {NoValue}]
          /\ buffer' \in Seq(Writers) /\ writer_list' \in Seq(Writers)
      BY <2>2, <3>1 DEF TakeAndRefill
    <3>5. UNCHANGED <<buffer_capacity, is_active, reader_list, closer>>
      BY <2>2 DEF TakeAndRefill
    <3> QED
      BY <3>3, <3>4, <3>5
  <2>3. CASE TakeBuffered(r)
    <3>1. Head(buffer) \in Writers /\ Tail(buffer) \in Seq(Writers)
      BY <2>3, HeadTailProperties DEF TakeBuffered
    <3>2. /\ state' \in [Awaiters -> States]
          /\ pending' \in [Awaiters -> Seq(Awaiters)]
      <4>1. <<r>> \in Seq(Awaiters)
        OBVIOUS
      <4> QED
        BY <2>3, <4>1, HandoffTypes DEF TakeBuffered
    <3>4. /\ value' \in [Readers -> Writers \cup {NoValue}]
          /\ buffer' \in Seq(Writers)
      BY <2>3, <3>1 DEF TakeBuffered
    <3>5. UNCHANGED <<buffer_capacity, is_active, writer_list, reader_list, closer>>
      BY <2>3 DEF TakeBuffered
    <3> QED
      BY <3>2, <3>4, <3>5
  <2>4. CASE TakeFromWriter(r)
    <3>1. Head(writer_list) \in Writers /\ Tail(writer_list) \in Seq(Writers)
      BY <2>4, HeadTailProperties DEF TakeFromWriter
    <3>2. <<r, Head(writer_list)>> \in Seq(Awaiters)
      BY <3>1
    <3>3. /\ state' \in [Awaiters -> States]
          /\ pending' \in [Awaiters -> Seq(Awaiters)]
      BY <2>4, <3>2, HandoffTypes DEF TakeFromWriter
    <3>4. /\ value' \in [Readers -> Writers \cup {NoValue}]
          /\ writer_list' \in Seq(Writers)
      BY <2>4, <3>1 DEF TakeFromWriter
    <3>5. UNCHANGED <<buffer_capacity, is_active, buffer, reader_list, closer>>
      BY <2>4 DEF TakeFromWriter
    <3> QED
      BY <3>3, <3>4, <3>5
  <2>5. CASE SuspendReader(r)
    BY <2>5 DEF SuspendReader
  <2> QED
    BY <1>5, <2>1, <2>2, <2>3, <2>4, <2>5 DEF TryPushReader
<1>6. ASSUME NEW w \in Writers, TryPushWriter(w)
      PROVE  TypeOK'
  <2>1. CASE Reject(w)
    BY <2>1 DEF Reject
  <2>2. CASE GiveToReader(w)
    <3>1. Head(reader_list) \in Readers /\ Tail(reader_list) \in Seq(Readers)
      BY <2>2, HeadTailProperties DEF GiveToReader
    <3>2. <<Head(reader_list), w>> \in Seq(Awaiters)
      BY <3>1
    <3>3. /\ state' \in [Awaiters -> States]
          /\ pending' \in [Awaiters -> Seq(Awaiters)]
      BY <2>2, <3>2, HandoffTypes DEF GiveToReader
    <3>4. /\ value' \in [Readers -> Writers \cup {NoValue}]
          /\ reader_list' \in Seq(Readers)
      BY <2>2, <3>1 DEF GiveToReader
    <3>5. UNCHANGED <<buffer_capacity, is_active, buffer, writer_list, closer>>
      BY <2>2 DEF GiveToReader
    <3> QED
      BY <3>3, <3>4, <3>5
  <2>3. CASE GiveToBuffer(w)
    <3>1. /\ state' \in [Awaiters -> States]
          /\ pending' \in [Awaiters -> Seq(Awaiters)]
      <4>1. <<w>> \in Seq(Awaiters)
        OBVIOUS
      <4> QED
        BY <2>3, <4>1, HandoffTypes DEF GiveToBuffer
    <3> QED
      BY <2>3, <3>1 DEF GiveToBuffer
  <2>4. CASE SuspendWriter(w)
    BY <2>4 DEF SuspendWriter
  <2> QED
    BY <1>6, <2>1, <2>2, <2>3, <2>4 DEF TryPushWriter
<1>7. CASE \E c \in Closers : Close(c)
  BY <1>7 DEF Close
<1>8. CASE \E c \in Closers : CleanUp(c)
  BY <1>8 DEF CleanUp
<1>9. CASE Finished \/ UNCHANGED vars
  BY <1>9 DEF Finished, vars
<1> QED
  BY <1>1, <1>2, <1>3, <1>4, <1>5, <1>6, <1>7, <1>8, <1>9 DEF Next

LEMMA NextWaitersMatchBuffer ==
  ASSUME TypeOK, NoDoubleResume, WaitersMatchBuffer, [Next]_vars
  PROVE  WaitersMatchBuffer'
<1> USE ChannelAssumption DEF TypeOK, WaitersMatchBuffer, shared
<1> DEFINE Same ==
  UNCHANGED <<buffer_capacity, buffer, writer_list, reader_list>>
<1>0. Limit \in Nat
  BY DEF Limit
<1>1. ASSUME NEW a \in Awaiters, Create(a) \/ Resume(a) \/ Run(a)
      PROVE  Same
  BY <1>1 DEF Create, Resume, Run
<1>2. ASSUME NEW a \in Awaiters, Unwind(a)
      PROVE  Same
  BY <1>2, RemoveFindsNothing DEF Unwind
<1>3. ASSUME Same
      PROVE  WaitersMatchBuffer'
  BY <1>3 DEF Limit
<1>4. ASSUME NEW r \in Readers, TryPushReader(r)
      PROVE  WaitersMatchBuffer'
  <2>1. CASE Reject(r)
    BY <2>1, <1>3 DEF Reject
  <2>2. CASE TakeAndRefill(r)
    BY <2>2, <1>0, HeadTailProperties DEF TakeAndRefill, Limit
  <2>3. CASE TakeBuffered(r)
    BY <2>3, <1>0, HeadTailProperties DEF TakeBuffered, Limit
  <2>4. CASE TakeFromWriter(r)
    BY <2>4, <1>0, HeadTailProperties DEF TakeFromWriter, Limit
  <2>5. CASE SuspendReader(r)
    BY <2>5, <1>0 DEF SuspendReader, Limit
  <2> QED
    BY <1>4, <2>1, <2>2, <2>3, <2>4, <2>5 DEF TryPushReader
<1>5. ASSUME NEW w \in Writers, TryPushWriter(w)
      PROVE  WaitersMatchBuffer'
  <2>1. CASE Reject(w)
    BY <2>1, <1>3 DEF Reject
  <2>2. CASE GiveToReader(w)
    BY <2>2, <1>0, HeadTailProperties DEF GiveToReader, Limit
  <2>3. CASE GiveToBuffer(w)
    BY <2>3, <1>0 DEF GiveToBuffer, HasRoom, Limit
  <2>4. CASE SuspendWriter(w)
    BY <2>4, <1>0 DEF SuspendWriter, HasRoom, Limit
  <2> QED
    BY <1>5, <2>1, <2>2, <2>3, <2>4 DEF TryPushWriter
<1>6. ASSUME NEW c \in Closers, Close(c)
      PROVE  Same
  BY <1>6 DEF Close
<1>7. ASSUME NEW c \in Closers, CleanUp(c)
      PROVE  WaitersMatchBuffer'
  BY <1>7, <1>0 DEF CleanUp, Limit
<1>8. CASE Finished \/ UNCHANGED vars
  BY <1>8, <1>3 DEF Finished, vars
<1> QED
  BY <1>1, <1>2, <1>3, <1>4, <1>5, <1>6, <1>7, <1>8 DEF Next

(* The first two parts of NoDoubleResume, about the lists, and the last    *)
(* two, about the resume() calls still to be made.                         *)
ListsHoldSuspended ==
  /\ IsInjective(reader_list)
  /\ IsInjective(writer_list)
  /\ \A i \in DOMAIN reader_list : state[reader_list[i]] = "suspended"
  /\ \A i \in DOMAIN writer_list : state[writer_list[i]] = "suspended"

PendingHoldMatched ==
  /\ \A t \in Awaiters : \A i \in DOMAIN pending[t] :
       state[pending[t][i]] = "matched"
  /\ \A t, u \in Awaiters :
       \A i \in DOMAIN pending[t], j \in DOMAIN pending[u] :
         pending[t][i] = pending[u][j] => t = u /\ i = j

LEMMA NoDoubleResumeParts ==
  /\ NoDoubleResume <=> ListsHoldSuspended /\ PendingHoldMatched
  /\ NoDoubleResume' <=> ListsHoldSuspended' /\ PendingHoldMatched'
  BY DEF NoDoubleResume, ListsHoldSuspended, PendingHoldMatched

(* pop_front of a list without repetitions leaves such a list, without the *)
(* element taken off.                                                      *)
LEMMA PopFront ==
  ASSUME NEW S, NEW s \in Seq(S), s # <<>>, IsInjective(s)
  PROVE  /\ Head(s) = s[1] /\ 1 \in DOMAIN s
         /\ Tail(s) \in Seq(S)
         /\ IsInjective(Tail(s))
         /\ \A i \in DOMAIN Tail(s) :
              /\ Tail(s)[i] # Head(s)
              /\ \E j \in DOMAIN s : Tail(s)[i] = s[j]
<1>1. /\ Head(s) = s[1] /\ 1 \in DOMAIN s
      /\ Tail(s) \in Seq(S) /\ Len(Tail(s)) = Len(s) - 1
      /\ DOMAIN Tail(s) = 1 .. Len(s) - 1 /\ DOMAIN s = 1 .. Len(s) /\ Len(s) \in Nat
      /\ \A i \in 1 .. Len(s) - 1 : Tail(s)[i] = s[i+1]
  BY HeadTailProperties, LenProperties
<1>2. \A i \in DOMAIN Tail(s) : i \in Int /\ i + 1 \in DOMAIN s /\ i + 1 # 1
  BY <1>1
<1> QED
  BY <1>1, <1>2 DEF IsInjective

(* The awaiters a thread takes out of a critical section were nobody       *)
(* else's to resume.                                                       *)
LEMMA HandoffKeepsPending ==
  ASSUME TypeOK, PendingHoldMatched,
         NEW a \in Awaiters, NEW order \in Seq(Awaiters), IsInjective(order),
         \A i \in DOMAIN order : state[order[i]] # "matched",
         Handoff(a, order)
  PROVE  /\ PendingHoldMatched'
         /\ \A b \in Awaiters : b \notin Range(order) => state'[b] = state[b]
<1>1. /\ pending' = [pending EXCEPT ![a] = order]
      /\ pending \in [Awaiters -> Seq(Awaiters)]
      /\ \A b \in Awaiters :
           state'[b] = IF b \in Range(order) THEN "matched" ELSE state[b]
  BY DEF Handoff, TypeOK
<1>2. \A t \in Awaiters : pending'[t] = IF t = a THEN order ELSE pending[t]
  BY <1>1
<1>3. \A i \in DOMAIN order : order[i] \in Awaiters /\ order[i] \in Range(order)
  BY DEF Range
<1>4. \A t \in Awaiters : \A i \in DOMAIN pending[t] : pending[t][i] \in Awaiters
  BY <1>1
<1>5. \A t \in Awaiters : \A i \in DOMAIN pending'[t] :
        state'[pending'[t][i]] = "matched"
  <2> SUFFICES ASSUME NEW t \in Awaiters, NEW i \in DOMAIN pending'[t]
               PROVE  state'[pending'[t][i]] = "matched"
    OBVIOUS
  <2>1. CASE t = a
    BY <1>1, <1>2, <1>3, <2>1
  <2>2. CASE t # a
    <3>1. /\ pending'[t] = pending[t]
          /\ pending[t][i] \in Awaiters
          /\ state[pending[t][i]] = "matched"
      BY <1>2, <1>4, <2>2 DEF PendingHoldMatched
    <3> QED
      BY <1>1, <3>1
  <2> QED
    BY <2>1, <2>2
<1>6. \A t, u \in Awaiters :
        \A i \in DOMAIN pending'[t], j \in DOMAIN pending'[u] :
          pending'[t][i] = pending'[u][j] => t = u /\ i = j
  <2> SUFFICES ASSUME NEW t \in Awaiters, NEW u \in Awaiters,
                      NEW i \in DOMAIN pending'[t], NEW j \in DOMAIN pending'[u],
                      pending'[t][i] = pending'[u][j]
               PROVE  t = u /\ i = j
    OBVIOUS
  <2>1. CASE t = a /\ u = a
    BY <1>2, <2>1 DEF IsInjective
  <2>2. CASE t = a /\ u # a
    BY <1>2, <2>2 DEF PendingHoldMatched
  <2>3. CASE t # a /\ u = a
    BY <1>2, <2>3 DEF PendingHoldMatched
  <2>4. CASE t # a /\ u # a
    BY <1>2, <2>4 DEF PendingHoldMatched
  <2> QED
    BY <2>1, <2>2, <2>3, <2>4
<1> QED
  BY <1>1, <1>5, <1>6 DEF PendingHoldMatched

LEMMA ResumeKeepsPending ==
  ASSUME TypeOK, PendingHoldMatched, NEW a \in Awaiters, Resume(a)
  PROVE  /\ PendingHoldMatched'
         /\ \A b \in Awaiters : state[b] # "matched" => state'[b] = state[b]
<1> DEFINE b == Head(pending[a])
<1>1. /\ pending[a] \in Seq(Awaiters) /\ pending[a] # <<>>
      /\ IsInjective(pending[a])
      /\ state' = [state EXCEPT ![b] = "dispatched"]
  BY DEF Resume, TypeOK, PendingHoldMatched, IsInjective
<1>2. /\ b = pending[a][1] /\ 1 \in DOMAIN pending[a] /\ b \in Awaiters
      /\ IsInjective(Tail(pending[a]))
      /\ \A i \in DOMAIN Tail(pending[a]) :
           /\ Tail(pending[a])[i] # b
           /\ \E j \in DOMAIN pending[a] : Tail(pending[a])[i] = pending[a][j]
  BY <1>1, PopFront
<1>3. state[b] = "matched"
  BY <1>2 DEF PendingHoldMatched
<1>4. \A t \in Awaiters :
        pending'[t] = IF t = a THEN Tail(pending[a]) ELSE pending[t]
  BY DEF Resume, TypeOK
<1>5. \A t \in Awaiters : \A i \in DOMAIN pending'[t] :
        /\ pending'[t][i] # b
        /\ \E j \in DOMAIN pending[t] : pending'[t][i] = pending[t][j]
  <2> SUFFICES ASSUME NEW t \in Awaiters, NEW i \in DOMAIN pending'[t]
               PROVE  /\ pending'[t][i] # b
                      /\ \E j \in DOMAIN pending[t] : pending'[t][i] = pending[t][j]
    OBVIOUS
  <2>1. CASE t = a
    <3>1. pending'[t] = Tail(pending[a])
      BY <1>4, <2>1
    <3>2. i \in DOMAIN Tail(pending[a])
      BY <3>1
    <3> QED
      BY <1>2, <2>1, <3>1, <3>2
  <2>2. CASE t # a
    <3>1. pending'[t] = pending[t]
      BY <1>4, <2>2
    <3>2. pending[t][i] # pending[a][1]
      BY <1>2, <2>2, <3>1 DEF PendingHoldMatched
    <3> QED
      BY <1>2, <3>1, <3>2
  <2> QED
    BY <2>1, <2>2
<1>6. \A t \in Awaiters : \A i \in DOMAIN pending[t] : pending[t][i] \in Awaiters
  BY DEF TypeOK
<1>7. \A t \in Awaiters : \A i \in DOMAIN pending'[t] :
        state'[pending'[t][i]] = "matched"
  BY <1>1, <1>5, <1>6 DEF TypeOK, PendingHoldMatched
<1>8. \A t, u \in Awaiters :
        \A i \in DOMAIN pending'[t], j \in DOMAIN pending'[u] :
          pending'[t][i] = pending'[u][j] => t = u /\ i = j
  <2> SUFFICES ASSUME NEW t \in Awaiters, NEW u \in Awaiters,
                      NEW i \in DOMAIN pending'[t], NEW j \in DOMAIN pending'[u],
                      pending'[t][i] = pending'[u][j]
               PROVE  t = u /\ i = j
    OBVIOUS
  <2>1. t = u
    BY <1>5 DEF PendingHoldMatched
  <2>2. IsInjective(pending'[t])
    <3>1. CASE t = a
      BY <1>2, <1>4, <3>1
    <3>2. CASE t # a
      <4>1. pending'[t] = pending[t]
        BY <1>4, <3>2
      <4> QED
        BY <4>1 DEF PendingHoldMatched, IsInjective
    <3> QED
      BY <3>1, <3>2
  <2>3. i = j
    BY <2>1, <2>2 DEF IsInjective
  <2> QED
    BY <2>1, <2>3
<1> QED
  BY <1>1, <1>2, <1>3, <1>7, <1>8 DEF PendingHoldMatched, TypeOK

(* One or two awaiters to resume. *)
LEMMA ShortOrders ==
  ASSUME NEW a \in Awaiters, NEW b \in Awaiters, a # b
  PROVE  /\ <<a>> \in Seq(Awaiters) /\ IsInjective(<<a>>)
         /\ Range(<<a>>) = {a}
         /\ <<a, b>> \in Seq(Awaiters) /\ IsInjective(<<a, b>>)
         /\ Range(<<a, b>>) = {a, b}
         /\ \A i \in DOMAIN <<a, b>> : <<a, b>>[i] \in {a, b}
  BY DEF IsInjective, Range

LEMMA NextNoDoubleResume ==
  ASSUME TypeOK, NoDoubleResume, [Next]_vars
  PROVE  NoDoubleResume'
<1>0. /\ ListsHoldSuspended /\ PendingHoldMatched
      /\ reader_list \in Seq(Awaiters) /\ writer_list \in Seq(Awaiters)
      /\ \A i \in DOMAIN reader_list : reader_list[i] \in Readers
      /\ \A i \in DOMAIN writer_list : writer_list[i] \in Writers
      /\ \A t \in Awaiters : \A i \in DOMAIN pending[t] : pending[t][i] \in Awaiters
      /\ state \in [Awaiters -> States]
  BY NoDoubleResumeParts, SeqMonotonic DEF TypeOK, Awaiters
<1> DEFINE Kept(a) == state[a] \in {"suspended", "matched"} => state'[a] = state[a]
(* Steps that leave lists, pending resumptions and waiting awaiters alone. *)
<1>1. ASSUME UNCHANGED <<reader_list, writer_list, pending>>,
             \A a \in Awaiters : Kept(a)
      PROVE  NoDoubleResume'
  BY <1>0, <1>1 DEF NoDoubleResume, Awaiters
<1>2. ASSUME NEW a \in Awaiters, Create(a) \/ Run(a)
      PROVE  NoDoubleResume'
  BY <1>0, <1>1, <1>2 DEF Create, Run, shared
<1>3. ASSUME NEW a \in Awaiters, Unwind(a)
      PROVE  NoDoubleResume'
  BY <1>0, <1>1, <1>3, RemoveFindsNothing DEF Unwind
<1>4. ASSUME NEW a \in Awaiters, Resume(a)
      PROVE  NoDoubleResume'
  <2>1. UNCHANGED <<reader_list, writer_list>>
    BY <1>4 DEF Resume, shared
  <2> QED
    BY <1>0, <1>4, <2>1, ResumeKeepsPending, NoDoubleResumeParts
      DEF ListsHoldSuspended, Awaiters
<1>5. ASSUME NEW a \in Awaiters, Reject(a), state[a] = "created"
      PROVE  NoDoubleResume'
  BY <1>0, <1>1, <1>5 DEF Reject, shared
<1>6. ASSUME NEW r \in Readers, TryPushReader(r)
      PROVE  NoDoubleResume'
  <2>0. r \in Awaiters /\ state[r] = "created"
    BY <1>6 DEF TryPushReader, Awaiters
  <2> DEFINE w == Head(writer_list)
  <2>6. ASSUME writer_list # <<>>
        PROVE  /\ w \in Awaiters /\ w # r /\ state[w] = "suspended"
               /\ w \notin Readers
               /\ IsInjective(Tail(writer_list))
               /\ \A i \in DOMAIN Tail(writer_list) :
                    /\ Tail(writer_list)[i] # w
                    /\ Tail(writer_list)[i] \in Writers
                    /\ state[Tail(writer_list)[i]] = "suspended"
    BY <1>0, <2>6, <2>0, PopFront, ChannelAssumption DEF ListsHoldSuspended, Awaiters
  <2>1. CASE Reject(r)
    BY <2>0, <2>1, <1>5
  <2>2. CASE TakeAndRefill(r)
    <3>0. writer_list # <<>> /\ Handoff(r, <<w, r>>)
      BY <2>2 DEF TakeAndRefill
    <3>5. /\ <<w, r>> \in Seq(Awaiters) /\ IsInjective(<<w, r>>)
          /\ \A i \in DOMAIN <<w, r>> : <<w, r>>[i] \in {w, r}
          /\ Range(<<w, r>>) = {w, r}
      BY <2>0, <2>6, <3>0, ShortOrders
    <3>6. \A i \in DOMAIN <<w, r>> : state[<<w, r>>[i]] # "matched"
      BY <2>0, <2>6, <3>0, <3>5
    <3>1. /\ PendingHoldMatched'
          /\ \A b \in Awaiters : b \notin {w, r} => state'[b] = state[b]
      BY <1>0, <2>0, <3>0, <3>5, <3>6, HandoffKeepsPending
    <3>2. ListsHoldSuspended'
      BY <1>0, <2>0, <2>6, <2>2, <3>1 DEF TakeAndRefill, ListsHoldSuspended, Awaiters
    <3> QED
      BY <3>1, <3>2, NoDoubleResumeParts
  <2>3. CASE TakeBuffered(r)
    BY <2>0, <2>3, <1>0
      DEF TypeOK, NoDoubleResume, IsInjective, Awaiters, TakeBuffered, Handoff, Range
  <2>4. CASE TakeFromWriter(r)
    <3>0. writer_list # <<>> /\ Handoff(r, <<r, w>>)
      BY <2>4 DEF TakeFromWriter
    <3>5. /\ <<r, w>> \in Seq(Awaiters) /\ IsInjective(<<r, w>>)
          /\ \A i \in DOMAIN <<r, w>> : <<r, w>>[i] \in {r, w}
          /\ Range(<<r, w>>) = {r, w}
      BY <2>0, <2>6, <3>0, ShortOrders
    <3>6. \A i \in DOMAIN <<r, w>> : state[<<r, w>>[i]] # "matched"
      BY <2>0, <2>6, <3>0, <3>5
    <3>1. /\ PendingHoldMatched'
          /\ \A b \in Awaiters : b \notin {w, r} => state'[b] = state[b]
      BY <1>0, <2>0, <3>0, <3>5, <3>6, HandoffKeepsPending
    <3>2. ListsHoldSuspended'
      BY <1>0, <2>0, <2>6, <2>4, <3>1 DEF TakeFromWriter, ListsHoldSuspended, Awaiters
    <3> QED
      BY <3>1, <3>2, NoDoubleResumeParts
  <2>5. CASE SuspendReader(r)
    BY <2>0, <2>5, <1>0
      DEF TypeOK, NoDoubleResume, IsInjective, Awaiters, SuspendReader
  <2> QED
    BY <1>6, <2>1, <2>2, <2>3, <2>4, <2>5 DEF TryPushReader
<1>7. ASSUME NEW w \in Writers, TryPushWriter(w)
      PROVE  NoDoubleResume'
  <2>0. w \in Awaiters /\ state[w] = "created"
    BY <1>7 DEF TryPushWriter, Awaiters
  <2> DEFINE r == Head(reader_list)
  <2>1. CASE Reject(w)
    BY <2>0, <2>1, <1>5
  <2>2. CASE GiveToReader(w)
    <3>0. /\ r \in Awaiters /\ r # w /\ state[r] = "suspended"
          /\ r \notin Writers
          /\ IsInjective(Tail(reader_list))
          /\ \A i \in DOMAIN Tail(reader_list) :
               /\ Tail(reader_list)[i] # r
               /\ Tail(reader_list)[i] \in Readers
               /\ state[Tail(reader_list)[i]] = "suspended"
      BY <1>0, <2>2, <2>0, PopFront, ChannelAssumption
        DEF GiveToReader, ListsHoldSuspended, Awaiters
    <3>4. Handoff(w, <<r, w>>)
      BY <2>2 DEF GiveToReader
    <3>5. /\ <<r, w>> \in Seq(Awaiters) /\ IsInjective(<<r, w>>)
          /\ \A i \in DOMAIN <<r, w>> : <<r, w>>[i] \in {r, w}
          /\ Range(<<r, w>>) = {r, w}
      BY <2>0, <3>0, ShortOrders
    <3>6. \A i \in DOMAIN <<r, w>> : state[<<r, w>>[i]] # "matched"
      BY <2>0, <3>0, <3>5
    <3>1. /\ PendingHoldMatched'
          /\ \A b \in Awaiters : b \notin {w, r} => state'[b] = state[b]
      BY <1>0, <2>0, <3>4, <3>5, <3>6, HandoffKeepsPending
    <3>2. ListsHoldSuspended'
      BY <1>0, <2>0, <2>2, <3>0, <3>1 DEF GiveToReader, ListsHoldSuspended, Awaiters
    <3> QED
      BY <3>1, <3>2, NoDoubleResumeParts
  <2>3. CASE GiveToBuffer(w)
    BY <2>0, <2>3, <1>0
      DEF TypeOK, NoDoubleResume, IsInjective, Awaiters, GiveToBuffer, Handoff, Range
  <2>4. CASE SuspendWriter(w)
    BY <2>0, <2>4, <1>0
      DEF TypeOK, NoDoubleResume, IsInjective, Awaiters, SuspendWriter
  <2> QED
    BY <1>7, <2>1, <2>2, <2>3, <2>4 DEF TryPushWriter
<1>8. ASSUME NEW c \in Closers, Close(c)
      PROVE  NoDoubleResume'
  BY <1>1, <1>8 DEF Close
<1>9. ASSUME NEW c \in Closers, CleanUp(c)
      PROVE  NoDoubleResume'
  <2>1. PendingHoldMatched'
    BY <1>0, <1>9 DEF CleanUp, PendingHoldMatched, ListsHoldSuspended, Range
  <2>2. ListsHoldSuspended'
    BY <1>9 DEF CleanUp, ListsHoldSuspended, IsInjective
  <2> QED
    BY <2>1, <2>2, NoDoubleResumeParts
<1>10. CASE Finished \/ UNCHANGED vars
  BY <1>1, <1>10 DEF Finished, vars
<1> QED
  BY <1>2, <1>3, <1>4, <1>6, <1>7, <1>8, <1>9, <1>10 DEF Next
-----------------------------------------------------------------------------
(* The three invariants are inductive together: the discipline of the      *)
(* lists needs to know that no stale pointer is ever removed from them.    *)
Inductive == TypeOK /\ NoDoubleResume /\ WaitersMatchBuffer

THEOREM InductiveInvariant == Spec => []Inductive
<1>1. Init => Inductive
  BY ChannelAssumption
    DEF Init, Inductive, TypeOK, NoDoubleResume, WaitersMatchBuffer, States,
        IsInjective, Limit, Awaiters
<1>2. Inductive /\ [Next]_vars => Inductive'
  BY NextTypeOK, NextNoDoubleResume, NextWaitersMatchBuffer DEF Inductive
<1> QED
  BY <1>1, <1>2, PTL DEF Spec

(* Every variable keeps its type: front() and pop_front() are never called *)
(* on an empty list or buffer.                                             *)
THEOREM TypeCorrect == Spec => []TypeOK
  BY InductiveInvariant, PTL DEF Inductive

(* No coroutine_handle of the channel is ever resumed twice, however the   *)
(* calls of write(), read() and close() interleave.                        *)
THEOREM ResumedAtMostOnce == Spec => []NoDoubleResume
  BY InductiveInvariant, PTL DEF Inductive

(* The lists of waiting awaiters agree with the buffer, for any capacity.  *)
THEOREM WaitersDiscipline == Spec => []WaitersMatchBuffer
  BY InductiveInvariant, PTL DEF Inductive
-----------------------------------------------------------------------------
(* A reader that has not been handed a value has none.                     *)
WaitingIsEmpty ==
  \A r \in Readers :
    state[r] \in {"new", "created", "suspended"} => value[r] = NoValue

(* One that has been taken off the list by a writer has its value.         *)
MatchedHasValue == \A r \in Readers : state[r] = "matched" => value[r] # NoValue

(* A value gets into the channel in await_suspend() only.                  *)
NotYetSent ==
  \A w \in Writers :
    state[w] \in {"new", "created"} =>
      w \notin Range(buffer) \cup Range(writer_list) \cup Range(value)

(* A thread that has not entered its critical section owes no resume().    *)
IdleOwesNothing ==
  \A a \in Awaiters : state[a] \in {"new", "created"} => pending[a] = <<>>

(* clean_up() runs on a closed channel.                                    *)
CleaningIsClosed == \A c \in Closers : closer[c] = "cleaning" => ~is_active

(* Where the values and the awaiters are.                                  *)
Tracked ==
  /\ WaitingIsEmpty
  /\ MatchedHasValue
  /\ NotYetSent
  /\ IdleOwesNothing
  /\ NoneForgotten
  /\ NoLossWhileOpen
  /\ NoDuplicate
  /\ NoEmptyResult

Invariant ==
  /\ Inductive
  /\ Tracked
  /\ CleaningIsClosed
  /\ ClosedIsEmpty
-----------------------------------------------------------------------------
(* The front of a queue made of two lists.                                 *)
LEMMA FrontOfTwo ==
  ASSUME NEW S, NEW s \in Seq(S), NEW t \in Seq(S), s # <<>>
  PROVE  /\ Head(s \o t) = Head(s) /\ s \o t # <<>>
         /\ Tail(s \o t) = Tail(s) \o t
  OBVIOUS

LEMMA ShiftOne ==
  ASSUME NEW S, NEW s \in Seq(S), NEW t \in Seq(S), t # <<>>
  PROVE  Append(s, Head(t)) \o Tail(t) = s \o t
  OBVIOUS

LEMMA AppendToTwo ==
  ASSUME NEW S, NEW s \in Seq(S), NEW t \in Seq(S), NEW e \in S
  PROVE  s \o Append(t, e) = Append(s \o t, e)
  OBVIOUS

LEMMA EmptyAndOther ==
  ASSUME NEW S, NEW s \in Seq(S)
  PROVE  <<>> \o s = s /\ s \o <<>> = s
  OBVIOUS
-----------------------------------------------------------------------------
(* A reader's critical section takes the oldest value in flight, from      *)
(* wherever it is, or leaves the abstract channel alone.                   *)
LEMMA ReaderImplements ==
  ASSUME Invariant, NEW r \in Readers, TryPushReader(r)
  PROVE  Fifo!Receive(r) \/ UNCHANGED Fifo!vars
<1>1. /\ buffer \in Seq(Writers) /\ writer_list \in Seq(Writers)
      /\ state[r] = "created" /\ value[r] = NoValue
  BY DEF Invariant, Inductive, TypeOK, Tracked, WaitingIsEmpty, TryPushReader
<1>2. CASE TakeAndRefill(r)
  <2>1. /\ Head(buffer) \in Writers /\ Tail(buffer) \in Seq(Writers)
    BY <1>1, <1>2, HeadTailProperties DEF TakeAndRefill
  <2>2. buffer' \o writer_list' = Tail(buffer) \o writer_list
    BY <1>1, <1>2, <2>1, ShiftOne DEF TakeAndRefill
  <2>3. Fifo!Receive(r)
    BY <1>1, <1>2, <2>2, FrontOfTwo DEF TakeAndRefill, Fifo!Receive
  <2> QED
    BY <2>3
<1>3. CASE TakeBuffered(r)
  BY <1>1, <1>3, FrontOfTwo DEF TakeBuffered, Fifo!Receive
<1>4. CASE TakeFromWriter(r)
  <2>1. Tail(writer_list) \in Seq(Writers)
    BY <1>1, <1>4, HeadTailProperties DEF TakeFromWriter
  <2>2. /\ buffer \o writer_list = writer_list
        /\ buffer' \o writer_list' = Tail(writer_list)
    BY <1>1, <1>4, <2>1, EmptyAndOther DEF TakeFromWriter
  <2> QED
    BY <1>1, <1>4, <2>2 DEF TakeFromWriter, Fifo!Receive
<1>5. CASE Reject(r)
  BY <1>5 DEF Reject, shared, Fifo!vars
<1>6. CASE SuspendReader(r)
  BY <1>6 DEF SuspendReader, Fifo!vars
<1> QED
  BY <1>2, <1>3, <1>4, <1>5, <1>6 DEF TryPushReader

(* A writer's critical section hands the value over or puts it last.       *)
LEMMA WriterImplements ==
  ASSUME Invariant, NEW w \in Writers, TryPushWriter(w)
  PROVE  \/ Fifo!Send(w)
         \/ \E r \in Readers : Fifo!Transfer(w, r)
         \/ UNCHANGED Fifo!vars
<1>1. /\ buffer \in Seq(Writers) /\ writer_list \in Seq(Writers)
      /\ reader_list \in Seq(Readers)
      /\ Len(buffer) \in Nat
  BY DEF Invariant, Inductive, TypeOK
<1>2. CASE GiveToReader(w)
  <2> DEFINE r == Head(reader_list)
  <2>1. r \in Readers /\ value[r] = NoValue
    <3>1. r = reader_list[1] /\ 1 \in DOMAIN reader_list /\ r \in Readers
      BY <1>1, <1>2, HeadTailProperties DEF GiveToReader
    <3>2. state[r] = "suspended"
      BY <3>1 DEF Invariant, Inductive, NoDoubleResume
    <3> QED
      BY <3>1, <3>2 DEF Invariant, Tracked, WaitingIsEmpty
  <2>2. buffer = <<>> /\ writer_list = <<>> /\ buffer \o writer_list = <<>>
    BY <1>1, <1>2, EmptyAndOther
    DEF GiveToReader, Invariant, Inductive, WaitersMatchBuffer
  <2>3. Fifo!Transfer(w, r)
    BY <1>2, <2>1, <2>2 DEF GiveToReader, Fifo!Transfer
  <2> QED
    BY <2>1, <2>3
<1>3. CASE GiveToBuffer(w)
  <2>1. writer_list = <<>>
    BY <1>1, <1>3 DEF GiveToBuffer, HasRoom, Invariant, Inductive,
                      WaitersMatchBuffer
  <2>2. /\ buffer \o writer_list = buffer
        /\ buffer' \o writer_list' = Append(buffer, w)
    BY <1>1, <1>3, <2>1, EmptyAndOther DEF GiveToBuffer
  <2>3. Fifo!Send(w)
    BY <1>3, <2>2 DEF GiveToBuffer, Fifo!Send
  <2> QED
    BY <2>3
<1>4. CASE SuspendWriter(w)
  <2>1. buffer' \o writer_list' = Append(buffer \o writer_list, w)
    BY <1>1, <1>4, AppendToTwo DEF SuspendWriter
  <2>2. Fifo!Send(w)
    BY <1>4, <2>1 DEF SuspendWriter, Fifo!Send
  <2> QED
    BY <2>2
<1>5. CASE Reject(w)
  BY <1>5 DEF Reject, shared, Fifo!vars
<1> QED
  BY <1>2, <1>3, <1>4, <1>5 DEF TryPushWriter

(* close() closes it, and clean_up() throws away what is in flight.        *)
LEMMA CloserImplements ==
  ASSUME Invariant, NEW c \in Closers, Close(c) \/ CleanUp(c)
  PROVE  Fifo!Close \/ Fifo!Discard \/ UNCHANGED Fifo!vars
<1>1. CASE Close(c)
  BY <1>1 DEF Close, Fifo!Close, Fifo!vars, Invariant, Inductive, TypeOK
<1>2. CASE CleanUp(c)
  <2>1. ~is_active /\ buffer' \o writer_list' = <<>>
    BY <1>2, EmptyAndOther DEF CleanUp, Invariant, CleaningIsClosed
  <2> QED
    BY <1>2, <2>1 DEF CleanUp, Fifo!Discard
<1> QED
  BY <1>1, <1>2

(* Every step is a step of the FIFO channel or none.                       *)
LEMMA StepImplements ==
  ASSUME Invariant, [Next]_vars
  PROVE  [Fifo!Next]_(Fifo!vars)
<1>1. CASE \E a \in Awaiters : Create(a) \/ Resume(a) \/ Run(a)
  BY <1>1 DEF Create, Resume, Run, shared, Fifo!vars
<1>2. CASE \E a \in Awaiters : Unwind(a)
  BY <1>2, RemoveFindsNothing DEF Unwind, Invariant, Inductive, Fifo!vars
<1>3. CASE \E r \in Readers : TryPushReader(r)
  BY <1>3, ReaderImplements DEF Fifo!Next
<1>4. CASE \E w \in Writers : TryPushWriter(w)
  BY <1>4, WriterImplements DEF Fifo!Next
<1>5. CASE \E c \in Closers : Close(c) \/ CleanUp(c)
  BY <1>5, CloserImplements DEF Fifo!Next
<1>6. CASE Finished \/ UNCHANGED vars
  BY <1>6 DEF Finished, vars, Fifo!vars
<1> QED
  BY <1>1, <1>2, <1>3, <1>4, <1>5, <1>6 DEF Next
-----------------------------------------------------------------------------
(* What the three hand-overs to a reader have in common: it gets one of    *)
(* the values in flight, and the writers M whose value is buffered or      *)
(* taken from the list leave it.                                           *)
Taken(r, h, M) ==
  /\ h \in Range(buffer) \cup Range(writer_list)
  /\ M \subseteq Range(writer_list)
  /\ value' = [value EXCEPT ![r] = h]
  /\ Range(buffer') \cup Range(writer_list')
       = (Range(buffer) \cup Range(writer_list)) \ {h}
  /\ Range(writer_list') = Range(writer_list) \ M
  /\ Range(buffer') \cap Range(writer_list') = {}
  /\ IsInjective(buffer')
  /\ \A b \in Awaiters :
       state'[b] = IF b \in M \cup {r} THEN "matched" ELSE state[b]
  /\ \A b \in Awaiters : b # r => pending'[b] = pending[b]
  /\ Range(pending'[r]) = M \cup {r}
  /\ UNCHANGED <<is_active, reader_list, closer>>

LEMMA TakeIsTaken ==
  ASSUME Invariant, NEW r \in Readers,
         TakeAndRefill(r) \/ TakeBuffered(r) \/ TakeFromWriter(r)
  PROVE  \E h, M : Taken(r, h, M)
<1>1. /\ buffer \in Seq(Writers) /\ IsInjective(buffer)
      /\ writer_list \in Seq(Writers) /\ IsInjective(writer_list)
      /\ Range(buffer) \cap Range(writer_list) = {}
      /\ pending \in [Awaiters -> Seq(Awaiters)]
      /\ r \in Awaiters /\ Writers \subseteq Awaiters
  BY DEF Invariant, Inductive, TypeOK, NoDoubleResume, Tracked, NoDuplicate,
         Awaiters
<1>2. \A x \in Writers : x # r
  BY ChannelAssumption
<1>3. Range(<<>>) = {} /\ IsInjective(<<>>)
  BY DEF Range, IsInjective
<1>4. ASSUME NEW order, Handoff(r, order)
      PROVE  /\ \A b \in Awaiters :
                  state'[b] = IF b \in Range(order) THEN "matched" ELSE state[b]
             /\ \A b \in Awaiters : b # r => pending'[b] = pending[b]
             /\ pending'[r] = order
  BY <1>1, <1>4 DEF Handoff
<1>5. CASE TakeAndRefill(r)
  <2> DEFINE h == Head(buffer)
             x == Head(writer_list)
  <2>1. /\ h \in Range(buffer) /\ Tail(buffer) \in Seq(Writers)
        /\ IsInjective(Tail(buffer)) /\ Range(Tail(buffer)) = Range(buffer) \ {h}
    BY <1>1, <1>5, TailOne DEF TakeAndRefill
  <2>2. /\ x \in Range(writer_list) /\ x \in Writers
        /\ Range(Tail(writer_list)) = Range(writer_list) \ {x}
    BY <1>1, <1>5, TailOne DEF TakeAndRefill
  <2>3. /\ IsInjective(Append(Tail(buffer), x))
        /\ Range(Append(Tail(buffer), x)) = (Range(buffer) \ {h}) \cup {x}
    <3>1. x \in Writers \ Range(Tail(buffer))
      BY <1>1, <2>1, <2>2
    <3> DEFINE t == Tail(buffer)
    <3>2. t \in Seq(Writers) /\ IsInjective(t) /\ Range(t) = Range(buffer) \ {h}
      BY <2>1
    <3>3. x \in Writers \ Range(t)
      BY <3>1
    <3> HIDE DEF x, t
    <3>4. IsInjective(Append(t, x)) /\ Range(Append(t, x)) = Range(t) \cup {x}
      BY <3>2, <3>3, AppendOne
    <3> QED
      BY <3>2, <3>4 DEF t
  <2>4. Range(<<x, r>>) = {x, r}
    BY <1>1, <1>2, <2>2, ShortOrders
  <2>5. /\ value' = [value EXCEPT ![r] = h]
        /\ buffer' = Append(Tail(buffer), x) /\ writer_list' = Tail(writer_list)
        /\ Handoff(r, <<x, r>>)
        /\ UNCHANGED <<is_active, reader_list, closer>>
    BY <1>5 DEF TakeAndRefill
  <2> HIDE DEF h, x
  <2>6. Taken(r, h, {x})
    BY <1>1, <1>4, <2>1, <2>2, <2>3, <2>4, <2>5 DEF Taken
  <2> QED
    BY <2>6
<1>6. CASE TakeBuffered(r)
  <2> DEFINE h == Head(buffer)
  <2>1. /\ h \in Range(buffer)
        /\ IsInjective(Tail(buffer)) /\ Range(Tail(buffer)) = Range(buffer) \ {h}
    BY <1>1, <1>6, TailOne DEF TakeBuffered
  <2>2. Range(<<r>>) = {r}
    BY DEF Range
  <2>3. /\ value' = [value EXCEPT ![r] = h]
        /\ buffer' = Tail(buffer) /\ writer_list' = writer_list
        /\ Handoff(r, <<r>>)
        /\ UNCHANGED <<is_active, reader_list, closer>>
    BY <1>6 DEF TakeBuffered
  <2> HIDE DEF h
  <2>4. Taken(r, h, {})
    BY <1>1, <1>4, <2>1, <2>2, <2>3 DEF Taken
  <2> QED
    BY <2>4
<1>7. CASE TakeFromWriter(r)
  <2> DEFINE x == Head(writer_list)
  <2>1. /\ x \in Range(writer_list) /\ x \in Writers
        /\ Range(Tail(writer_list)) = Range(writer_list) \ {x}
    BY <1>1, <1>7, TailOne DEF TakeFromWriter
  <2>2. Range(<<r, x>>) = {x, r}
    <3>1. x \in Awaiters /\ x # r
      BY <1>1, <1>2, <2>1
    <3> HIDE DEF x
    <3>2. Range(<<r, x>>) = {r, x}
      BY <1>1, <3>1, ShortOrders
    <3> QED
      BY <3>2
  <2>3. /\ value' = [value EXCEPT ![r] = x]
        /\ buffer = <<>> /\ buffer' = buffer /\ writer_list' = Tail(writer_list)
        /\ Handoff(r, <<r, x>>)
        /\ UNCHANGED <<is_active, reader_list, closer>>
    BY <1>7 DEF TakeFromWriter
  <2> HIDE DEF x
  <2>4. Taken(r, x, {x})
    BY <1>1, <1>3, <1>4, <2>1, <2>2, <2>3 DEF Taken
  <2> QED
    BY <2>4
<1> QED
  BY <1>5, <1>6, <1>7

(* Awaiters are readers or writers, and a value is a writer.               *)
LEMMA Kinds ==
  ASSUME TypeOK
  PROVE  /\ value \in [Readers -> Writers \cup {NoValue}]
         /\ Range(buffer) \subseteq Writers /\ Range(writer_list) \subseteq Writers
         /\ Range(reader_list) \subseteq Readers
         /\ \A a \in Awaiters : Range(pending[a]) \subseteq Awaiters
         /\ NoValue \notin Writers /\ Readers \cap Writers = {}
         /\ Awaiters = Readers \cup Writers
  BY ChannelAssumption DEF TypeOK, Range, Awaiters

LEMMA TakeKeepsTracked ==
  ASSUME Invariant, NEW r \in Readers, state[r] = "created",
         NEW h, NEW M, Taken(r, h, M)
  PROVE  Tracked'
<1> DEFINE B == Range(buffer)
           W == Range(writer_list)
<1>1. Tracked /\ TypeOK
  BY DEF Invariant, Inductive
<1>2. /\ value \in [Readers -> Writers \cup {NoValue}] /\ r \in Awaiters
      /\ B \subseteq Writers /\ W \subseteq Writers /\ M \subseteq W
      /\ NoValue \notin Writers /\ Readers \cap Writers = {}
      /\ Awaiters = Readers \cup Writers
      /\ h \in B \cup W /\ h # NoValue
  BY <1>1, Kinds DEF Taken
<1>3. /\ value[r] = NoValue /\ pending[r] = <<>>
  BY <1>1, <1>2 DEF Tracked, WaitingIsEmpty, IdleOwesNothing
<1>4. /\ value'[r] = h
      /\ \A s \in Readers : s # r => value'[s] = value[s]
      /\ value' \in [Readers -> Writers \cup {NoValue}]
  BY <1>2 DEF Taken
<1>5. /\ \A a \in Awaiters : a \notin M \cup {r} => state'[a] = state[a]
      /\ \A a \in M \cup {r} : state'[a] = "matched"
      /\ \A s \in Readers : s # r => state'[s] = state[s]
  BY <1>2 DEF Taken
<1>6. WaitingIsEmpty' /\ MatchedHasValue'
  BY <1>1, <1>2, <1>4, <1>5 DEF Tracked, WaitingIsEmpty, MatchedHasValue
<1>7. NotYetSent'
  <2>1. \A w \in Range(value') : w = h \/ w \in Range(value)
    BY <1>4, <1>2 DEF Range
  <2> QED
    BY <1>1, <1>2, <1>5, <2>1 DEF Tracked, NotYetSent, Taken
<1>8. IdleOwesNothing'
  BY <1>1, <1>5 DEF Tracked, IdleOwesNothing, Taken
<1>9. NoneForgotten'
  <2>1. ASSUME NEW a \in Awaiters, state'[a] = "suspended"
        PROVE  a \in Range(reader_list') \cup Range(writer_list')
    BY <1>1, <1>2, <1>5, <2>1 DEF Tracked, NoneForgotten, Taken
  <2>2. ASSUME NEW a \in Awaiters, state'[a] = "matched"
        PROVE  \E t \in Awaiters : a \in Range(pending'[t])
    <3>1. CASE a \in M \cup {r}
      BY <1>2, <3>1 DEF Taken
    <3>2. CASE a \notin M \cup {r}
      <4>1. PICK t \in Awaiters : a \in Range(pending[t])
        BY <1>1, <1>5, <2>2, <3>2 DEF Tracked, NoneForgotten
      <4>2. t # r
        BY <1>3, <4>1 DEF Range
      <4> QED
        BY <4>1, <4>2 DEF Taken
    <3> QED
      BY <3>1, <3>2
  <2> QED
    BY <2>1, <2>2 DEF NoneForgotten
<1>10. NoDuplicate'
  <2>1. Range(value') \subseteq {h} \cup Range(value)
    BY <1>2, <1>4 DEF Range
  <2>2. Range(value') \cap (Range(buffer') \cup Range(writer_list')) = {}
    BY <1>1, <2>1 DEF Tracked, NoDuplicate, Taken
  <2>3. h \notin Range(value)
    BY <1>1, <1>2 DEF Tracked, NoDuplicate
  <2>4. \A s \in Readers : value[s] # h
    BY <1>2, <2>3 DEF Range
  <2>5. \A s, t \in Readers : value'[s] = value'[t] /\ s # t => value'[s] = NoValue
    BY <1>1, <1>4, <2>4 DEF Tracked, NoDuplicate
  <2> QED
    BY <2>2, <2>5 DEF NoDuplicate, Taken
<1>11. NoLossWhileOpen'
  <2> SUFFICES ASSUME is_active', NEW w \in Writers,
                      state'[w] \in {"matched", "dispatched", "returned"}
               PROVE  w \in Range(buffer') \cup Range(value')
    BY DEF NoLossWhileOpen
  <2>1. h \in Range(value')
    BY <1>2, <1>4 DEF Range
  <2>2. CASE w = h
    BY <2>1, <2>2
  <2>3. CASE w \in M /\ w # h
    BY <2>3 DEF Taken
  <2>4. CASE w \notin M /\ w # h
    <3>1. w \in B \cup Range(value)
      BY <1>1, <1>2, <1>5, <2>4 DEF Tracked, NoLossWhileOpen, Taken
    <3>2. CASE w \in B
      BY <1>1, <2>4, <3>2 DEF Tracked, NoDuplicate, Taken
    <3>3. CASE w \in Range(value)
      <4>1. PICK s \in Readers : value[s] = w
        BY <1>2, <3>3 DEF Range
      <4> QED
        BY <1>2, <1>3, <1>4, <4>1 DEF Range
    <3> QED
      BY <3>1, <3>2, <3>3
  <2> QED
    BY <2>2, <2>3, <2>4
<1>12. NoEmptyResult'
  BY <1>1, <1>2, <1>4, <1>5 DEF Tracked, NoEmptyResult, Taken
<1> QED
  BY <1>6, <1>7, <1>8, <1>9, <1>10, <1>11, <1>12 DEF Tracked

(* A reader that finds nothing goes on the list with nothing.              *)
LEMMA SuspendReaderKeepsTracked ==
  ASSUME Invariant, NEW r \in Readers, state[r] = "created", SuspendReader(r)
  PROVE  Tracked'
<1>1. /\ Tracked /\ reader_list \in Seq(Readers) /\ IsInjective(reader_list)
      /\ r \in Awaiters /\ r \notin Writers /\ Readers \subseteq Awaiters
      /\ Writers \subseteq Awaiters /\ state \in [Awaiters -> States]
  BY ChannelAssumption
  DEF Invariant, Inductive, TypeOK, NoDoubleResume, Awaiters
<1>2. Range(reader_list') = Range(reader_list) \cup {r}
  <2>1. r \in Readers \ Range(reader_list)
    BY DEF Invariant, Inductive, NoDoubleResume, Range
  <2> QED
    BY <1>1, <2>1, AppendOne DEF SuspendReader
<1>3. /\ state'[r] = "suspended"
      /\ \A a \in Awaiters : a # r => state'[a] = state[a]
      /\ UNCHANGED <<is_active, buffer, writer_list, value, pending>>
  BY <1>1 DEF SuspendReader
<1>4. /\ WaitingIsEmpty' /\ MatchedHasValue' /\ NotYetSent'
      /\ IdleOwesNothing'
  BY <1>1, <1>3
  DEF Tracked, WaitingIsEmpty, MatchedHasValue, NotYetSent, IdleOwesNothing
<1>5. NoneForgotten'
  BY <1>1, <1>2, <1>3 DEF Tracked, NoneForgotten
<1>6. NoLossWhileOpen' /\ NoDuplicate' /\ NoEmptyResult'
  BY <1>1, <1>3 DEF Tracked, NoLossWhileOpen, NoDuplicate, NoEmptyResult
<1> QED
  BY <1>4, <1>5, <1>6 DEF Tracked

(* A writer's value goes to the reader that waits longest ...              *)
LEMMA GiveToReaderKeepsTracked ==
  ASSUME Invariant, NEW w \in Writers, state[w] = "created", GiveToReader(w)
  PROVE  Tracked'
<1> DEFINE r == Head(reader_list)
<1>1. Tracked /\ TypeOK
  BY DEF Invariant, Inductive
<1>2. /\ r \in Range(reader_list) /\ r \in Readers
      /\ Range(Tail(reader_list)) = Range(reader_list) \ {r}
  BY TailOne DEF GiveToReader, Invariant, Inductive, TypeOK, NoDoubleResume
<1>3. /\ value' = [value EXCEPT ![r] = w]
      /\ reader_list' = Tail(reader_list)
      /\ Handoff(w, <<r, w>>)
      /\ UNCHANGED <<is_active, buffer, writer_list>>
  BY DEF GiveToReader
<1>4. state[r] = "suspended"
  BY <1>2 DEF Invariant, Inductive, NoDoubleResume, Range
<1>5. buffer = <<>> /\ writer_list = <<>> /\ Range(<<>>) = {}
  BY DEF GiveToReader, Invariant, Inductive, WaitersMatchBuffer, Range
<1> HIDE DEF r
<1>6. /\ value \in [Readers -> Writers \cup {NoValue}]
      /\ NoValue \notin Writers /\ Readers \cap Writers = {}
      /\ Awaiters = Readers \cup Writers
      /\ pending \in [Awaiters -> Seq(Awaiters)]
  BY <1>1, Kinds DEF TypeOK
<1>7. Range(<<r, w>>) = {r, w}
  BY <1>2, <1>6, ShortOrders
<1>8. /\ \A a \in Awaiters :
           state'[a] = IF a \in {r, w} THEN "matched" ELSE state[a]
      /\ \A a \in Awaiters : a # w => pending'[a] = pending[a]
      /\ Range(pending'[w]) = {r, w}
  BY <1>3, <1>6, <1>7 DEF Handoff
<1>9. value[r] = NoValue /\ pending[w] = <<>> /\ w \notin Range(value)
  BY <1>1, <1>2, <1>4, <1>6
  DEF Tracked, WaitingIsEmpty, IdleOwesNothing, NotYetSent
<1>10. /\ value'[r] = w /\ w \in Range(value')
       /\ \A s \in Readers : s # r => value'[s] = value[s]
       /\ \A x \in Range(value') : x = w \/ x \in Range(value)
       /\ \A x \in Range(value) : x # NoValue => x \in Range(value')
  BY <1>2, <1>3, <1>6, <1>9 DEF Range
<1>11. /\ WaitingIsEmpty' /\ MatchedHasValue' /\ NotYetSent'
       /\ IdleOwesNothing'
  <2>1. WaitingIsEmpty' /\ MatchedHasValue'
    <3>1. \A s \in Readers :
            s # r => s # w /\ state'[s] = state[s] /\ value'[s] = value[s]
      BY <1>6, <1>8, <1>10
    <3>2. state'[r] = "matched" /\ value'[r] # NoValue
      BY <1>2, <1>6, <1>8, <1>10
    <3> QED
      BY <1>1, <3>1, <3>2 DEF Tracked, WaitingIsEmpty, MatchedHasValue
  <2>2. NotYetSent'
    <3>1. ASSUME NEW x \in Writers, state'[x] \in {"new", "created"}
          PROVE  /\ x \notin Range(buffer) \cup Range(writer_list)
                 /\ x \notin Range(value')
      <4>1. x \in Awaiters /\ x # w /\ state[x] \in {"new", "created"}
        BY <1>6, <1>8, <3>1
      <4> QED
        BY <1>1, <1>10, <4>1 DEF Tracked, NotYetSent
    <3> QED
      BY <1>3, <3>1 DEF NotYetSent
  <2>3. IdleOwesNothing'
    <3>1. ASSUME NEW x \in Awaiters, state'[x] \in {"new", "created"}
          PROVE  pending'[x] = <<>>
      <4>1. x # w /\ state[x] \in {"new", "created"}
        BY <1>8, <3>1
      <4> QED
        BY <1>1, <1>8, <4>1 DEF Tracked, IdleOwesNothing
    <3> QED
      BY <3>1 DEF IdleOwesNothing
  <2> QED
    BY <2>1, <2>2, <2>3
<1>12. NoneForgotten'
  <2>1. ASSUME NEW a \in Awaiters, state'[a] = "suspended"
        PROVE  a \in Range(reader_list') \cup Range(writer_list')
    BY <1>1, <1>2, <1>3, <1>8, <2>1 DEF Tracked, NoneForgotten
  <2>2. ASSUME NEW a \in Awaiters, state'[a] = "matched"
        PROVE  \E t \in Awaiters : a \in Range(pending'[t])
    <3>1. CASE a \in {r, w}
      BY <1>6, <1>8, <3>1
    <3>2. CASE a \notin {r, w}
      <4>1. PICK t \in Awaiters : a \in Range(pending[t])
        BY <1>1, <1>8, <2>2, <3>2 DEF Tracked, NoneForgotten
      <4>2. t # w
        BY <1>5, <1>9, <4>1
      <4> QED
        BY <1>8, <4>1, <4>2
    <3> QED
      BY <3>1, <3>2
  <2> QED
    BY <2>1, <2>2 DEF NoneForgotten
<1>13. NoDuplicate'
  <2>1. ASSUME NEW s \in Readers, NEW t \in Readers, s # t,
               value'[s] = value'[t]
        PROVE  value'[s] = NoValue
    <3>1. ASSUME NEW u \in Readers
          PROVE  value[u] # w
      BY <1>6, <1>9 DEF Range
    <3>2. s # r /\ t # r
      BY <1>10, <2>1, <3>1
    <3> QED
      BY <1>1, <1>10, <2>1, <3>2 DEF Tracked, NoDuplicate
  <2> QED
    BY <1>1, <1>3, <1>5, <2>1 DEF Tracked, NoDuplicate
<1>14. NoLossWhileOpen'
  <2>1. ASSUME is_active', NEW x \in Writers,
               state'[x] \in {"matched", "dispatched", "returned"}
        PROVE  x \in Range(buffer') \cup Range(value')
    <3>1. CASE x = w
      BY <1>10, <3>1
    <3>2. CASE x # w
      <4>1. state[x] = state'[x] /\ UNCHANGED <<is_active, buffer>>
        BY <1>2, <1>3, <1>6, <1>8, <3>2
      <4>2. x \in Range(buffer) \cup Range(value) /\ x # NoValue
        BY <1>1, <1>6, <2>1, <4>1 DEF Tracked, NoLossWhileOpen
      <4> QED
        BY <1>10, <4>1, <4>2
    <3> QED
      BY <3>1, <3>2
  <2> QED
    BY <2>1 DEF NoLossWhileOpen
<1>15. NoEmptyResult'
  BY <1>1, <1>2, <1>3, <1>6, <1>8, <1>9, <1>10 DEF Tracked, NoEmptyResult
<1> QED
  BY <1>11, <1>12, <1>13, <1>14, <1>15 DEF Tracked

(* ... or into the buffer, behind the values that are there ...            *)
LEMMA GiveToBufferKeepsTracked ==
  ASSUME Invariant, NEW w \in Writers, state[w] = "created", GiveToBuffer(w)
  PROVE  Tracked'
<1>1. Tracked /\ TypeOK
  BY DEF Invariant, Inductive
<1>2. /\ w \notin Range(buffer) /\ w \notin Range(writer_list)
      /\ w \notin Range(value) /\ pending[w] = <<>> /\ w \in Awaiters
  BY <1>1 DEF Tracked, NotYetSent, IdleOwesNothing, Awaiters
<1>3. /\ IsInjective(buffer') /\ Range(buffer') = Range(buffer) \cup {w}
  BY <1>1, <1>2, AppendOne DEF GiveToBuffer, TypeOK, Tracked, NoDuplicate
<1>4. UNCHANGED <<is_active, writer_list, reader_list, value>>
  BY DEF GiveToBuffer
<1>5. /\ pending \in [Awaiters -> Seq(Awaiters)] /\ Range(<<w>>) = {w}
      /\ NoValue \notin Writers /\ Readers \cap Writers = {}
      /\ Awaiters = Readers \cup Writers
      /\ Range(<<>>) = {}
  BY <1>1, Kinds DEF TypeOK, Range
<1>6. /\ \A a \in Awaiters :
           state'[a] = IF a = w THEN "matched" ELSE state[a]
      /\ \A a \in Awaiters : a # w => pending'[a] = pending[a]
      /\ Range(pending'[w]) = {w}
  BY <1>5 DEF GiveToBuffer, Handoff
<1>7. /\ WaitingIsEmpty' /\ MatchedHasValue' /\ NotYetSent'
      /\ IdleOwesNothing'
  BY <1>1, <1>3, <1>4, <1>5, <1>6
  DEF Tracked, WaitingIsEmpty, MatchedHasValue, NotYetSent, IdleOwesNothing
<1>8. NoneForgotten'
  <2>1. ASSUME NEW a \in Awaiters, state'[a] = "suspended"
        PROVE  a \in Range(reader_list') \cup Range(writer_list')
    BY <1>1, <1>4, <1>6, <2>1 DEF Tracked, NoneForgotten
  <2>2. ASSUME NEW a \in Awaiters, state'[a] = "matched"
        PROVE  \E t \in Awaiters : a \in Range(pending'[t])
    BY <1>1, <1>2, <1>5, <1>6, <2>2 DEF Tracked, NoneForgotten
  <2> QED
    BY <2>1, <2>2 DEF NoneForgotten
<1>9. NoLossWhileOpen' /\ NoDuplicate' /\ NoEmptyResult'
  BY <1>1, <1>2, <1>3, <1>4, <1>5, <1>6
  DEF Tracked, NoLossWhileOpen, NoDuplicate, NoEmptyResult
<1> QED
  BY <1>7, <1>8, <1>9 DEF Tracked

(* ... or waits with its writer.                                           *)
LEMMA SuspendWriterKeepsTracked ==
  ASSUME Invariant, NEW w \in Writers, state[w] = "created", SuspendWriter(w)
  PROVE  Tracked'
<1>1. Tracked /\ TypeOK
  BY DEF Invariant, Inductive
<1>2. /\ w \notin Range(buffer) /\ w \notin Range(writer_list)
      /\ w \notin Range(value) /\ w \in Awaiters
  BY <1>1 DEF Tracked, NotYetSent, Awaiters
<1>3. Range(writer_list') = Range(writer_list) \cup {w}
  BY <1>1, <1>2, AppendOne
  DEF SuspendWriter, TypeOK, Invariant, Inductive, NoDoubleResume
<1>4. /\ UNCHANGED <<is_active, buffer, reader_list, value, pending>>
      /\ \A a \in Awaiters :
           state'[a] = IF a = w THEN "suspended" ELSE state[a]
  BY <1>1 DEF SuspendWriter, TypeOK
<1>5. /\ NoValue \notin Writers /\ Readers \cap Writers = {}
      /\ Awaiters = Readers \cup Writers
  BY <1>1, Kinds
<1>6. /\ WaitingIsEmpty' /\ MatchedHasValue' /\ NotYetSent'
      /\ IdleOwesNothing'
  BY <1>1, <1>3, <1>4, <1>5
  DEF Tracked, WaitingIsEmpty, MatchedHasValue, NotYetSent, IdleOwesNothing
<1>7. NoneForgotten'
  BY <1>1, <1>3, <1>4 DEF Tracked, NoneForgotten
<1>8. NoLossWhileOpen' /\ NoDuplicate' /\ NoEmptyResult'
  BY <1>1, <1>2, <1>3, <1>4, <1>5
  DEF Tracked, NoLossWhileOpen, NoDuplicate, NoEmptyResult
<1> QED
  BY <1>6, <1>7, <1>8 DEF Tracked

(* The next awaiter a thread resumes was its to resume, and nobody else's. *)
LEMMA ResumeKeepsTracked ==
  ASSUME Invariant, NEW a \in Awaiters, Resume(a)
  PROVE  Tracked'
<1> DEFINE b == Head(pending[a])
<1>1. Tracked /\ TypeOK /\ PendingHoldMatched
  BY NoDoubleResumeParts DEF Invariant, Inductive
<1>2. pending[a] \in Seq(Awaiters) /\ IsInjective(pending[a]) /\ pending[a] # <<>>
  BY <1>1 DEF TypeOK, PendingHoldMatched, IsInjective, Resume
<1>3. /\ b \in Range(pending[a]) /\ b \in Awaiters
      /\ Range(Tail(pending[a])) = Range(pending[a]) \ {b}
  BY <1>2, TailOne
<1>4. state[b] = "matched"
  BY <1>1, <1>3 DEF PendingHoldMatched, Range
<1>5. /\ \A c \in Awaiters :
           state'[c] = IF c = b THEN "dispatched" ELSE state[c]
      /\ \A t \in Awaiters :
           pending'[t] = IF t = a THEN Tail(pending[a]) ELSE pending[t]
      /\ UNCHANGED <<is_active, buffer, writer_list, reader_list, value>>
  BY <1>1 DEF Resume, shared, TypeOK
<1> HIDE DEF b
<1>6. /\ NoValue \notin Writers /\ Readers \cap Writers = {}
      /\ Awaiters = Readers \cup Writers
  BY <1>1, Kinds
<1>7. WaitingIsEmpty' /\ MatchedHasValue' /\ NotYetSent'
  BY <1>1, <1>4, <1>5, <1>6
  DEF Tracked, WaitingIsEmpty, MatchedHasValue, NotYetSent
<1>8. IdleOwesNothing'
  <2>1. state[a] \notin {"new", "created"}
    BY <1>1, <1>2 DEF Tracked, IdleOwesNothing
  <2> QED
    BY <1>1, <1>4, <1>5, <2>1 DEF Tracked, IdleOwesNothing
<1>9. NoneForgotten'
  BY <1>1, <1>3, <1>5 DEF Tracked, NoneForgotten
<1>10. NoLossWhileOpen' /\ NoDuplicate'
  BY <1>1, <1>4, <1>5, <1>6 DEF Tracked, NoLossWhileOpen, NoDuplicate
<1>11. NoEmptyResult'
  BY <1>1, <1>4, <1>5, <1>6 DEF Tracked, NoEmptyResult, MatchedHasValue
<1> QED
  BY <1>7, <1>8, <1>9, <1>10, <1>11 DEF Tracked

(* Steps that move no value and no awaiter that waits.                     *)
LEMMA QuietKeepsTracked ==
  ASSUME Invariant,
         UNCHANGED <<is_active, buffer, writer_list, reader_list, value, pending>>,
         NEW a \in Awaiters,
         \/ Create(a) \/ Run(a) \/ Unwind(a)
         \/ state[a] = "created" /\ Reject(a)
  PROVE  Tracked'
<1>1. Tracked /\ TypeOK
  BY DEF Invariant, Inductive
<1>2. /\ NoValue \notin Writers /\ Readers \cap Writers = {}
      /\ Awaiters = Readers \cup Writers
  BY <1>1, Kinds
<1>3. \A b \in Awaiters : b # a => state'[b] = state[b]
  BY <1>1 DEF Create, Run, Unwind, Reject, TypeOK
<1>4. \/ state[a] = "new" /\ state'[a] \in {"created", "threw"}
      \/ state[a] = "dispatched" /\ state'[a] = IF is_active THEN "returned"
                                                ELSE "unwinding"
      \/ state[a] = "unwinding" /\ state'[a] = "threw"
      \/ state[a] = "created" /\ state'[a] = "unwinding"
  BY <1>1 DEF Create, Run, Unwind, Reject, TypeOK
<1>5. WaitingIsEmpty' /\ MatchedHasValue' /\ NotYetSent' /\ IdleOwesNothing'
  BY <1>1, <1>2, <1>3, <1>4
  DEF Tracked, WaitingIsEmpty, MatchedHasValue, NotYetSent, IdleOwesNothing
<1>6. NoneForgotten'
  BY <1>1, <1>3, <1>4 DEF Tracked, NoneForgotten
<1>7. NoLossWhileOpen' /\ NoDuplicate'
  BY <1>1, <1>2, <1>3, <1>4 DEF Tracked, NoLossWhileOpen, NoDuplicate
<1>8. NoEmptyResult'
  BY <1>1, <1>2, <1>3, <1>4 DEF Tracked, NoEmptyResult
<1> QED
  BY <1>5, <1>6, <1>7, <1>8 DEF Tracked

(* close() only shuts the door.                                            *)
LEMMA CloseKeepsTracked ==
  ASSUME Invariant, NEW c \in Closers, Close(c)
  PROVE  Tracked'
  BY DEF Invariant, Close, Tracked, WaitingIsEmpty, MatchedHasValue, NotYetSent,
         IdleOwesNothing, NoneForgotten, NoLossWhileOpen, NoDuplicate,
         NoEmptyResult

(* clean_up() dispatches those who wait, on a channel that is closed.      *)
LEMMA CleanUpKeepsTracked ==
  ASSUME Invariant, NEW c \in Closers, CleanUp(c)
  PROVE  Tracked'
<1>1. Tracked /\ TypeOK /\ ~is_active
  BY DEF Invariant, Inductive, CleaningIsClosed, CleanUp
<1>2. /\ NoValue \notin Writers /\ Readers \cap Writers = {}
      /\ Awaiters = Readers \cup Writers
  BY <1>1, Kinds
<1>3. \A a \in Awaiters : state[a] = "suspended" => state'[a] = "dispatched"
  BY <1>1 DEF CleanUp, Tracked, NoneForgotten
<1>4. \A a \in Awaiters : state[a] # "suspended" => state'[a] = state[a]
  BY DEF CleanUp, Invariant, Inductive, NoDoubleResume, Range
<1>5. /\ buffer' = <<>> /\ writer_list' = <<>> /\ Range(<<>>) = {}
      /\ IsInjective(<<>>)
      /\ UNCHANGED <<is_active, value, pending>>
  BY DEF CleanUp, Range, IsInjective
<1>6. WaitingIsEmpty' /\ MatchedHasValue' /\ NotYetSent' /\ IdleOwesNothing'
  BY <1>1, <1>2, <1>3, <1>4, <1>5
  DEF Tracked, WaitingIsEmpty, MatchedHasValue, NotYetSent, IdleOwesNothing
<1>7. NoneForgotten'
  BY <1>1, <1>3, <1>4, <1>5 DEF Tracked, NoneForgotten, TypeOK
<1>8. NoLossWhileOpen' /\ NoDuplicate' /\ NoEmptyResult'
  BY <1>1, <1>2, <1>3, <1>4, <1>5
  DEF Tracked, NoLossWhileOpen, NoDuplicate, NoEmptyResult
<1> QED
  BY <1>6, <1>7, <1>8 DEF Tracked

(* No step loses track of a value or of an awaiter.                        *)
LEMMA NextTracked ==
  ASSUME Invariant, [Next]_vars
  PROVE  Tracked'
<1>1. ASSUME NEW a \in Awaiters, Create(a) \/ Run(a)
      PROVE  Tracked'
  <2>1. UNCHANGED <<is_active, buffer, writer_list, reader_list, value, pending>>
    BY <1>1 DEF Create, Run, shared
  <2> QED
    BY <1>1, <2>1, QuietKeepsTracked
<1>2. ASSUME NEW a \in Awaiters, Unwind(a)
      PROVE  Tracked'
  <2>1. UNCHANGED <<is_active, buffer, writer_list, reader_list, value, pending>>
    BY <1>2, RemoveFindsNothing DEF Unwind, Invariant, Inductive
  <2> QED
    BY <1>2, <2>1, QuietKeepsTracked
<1>3. ASSUME NEW a \in Awaiters, Resume(a)
      PROVE  Tracked'
  BY <1>3, ResumeKeepsTracked
<1>4. ASSUME NEW a \in Awaiters, state[a] = "created", Reject(a)
      PROVE  Tracked'
  <2>1. UNCHANGED <<is_active, buffer, writer_list, reader_list, value, pending>>
    BY <1>4 DEF Reject, shared
  <2> QED
    BY <1>4, <2>1, QuietKeepsTracked
<1>5. ASSUME NEW r \in Readers, TryPushReader(r)
      PROVE  Tracked'
  BY <1>4, <1>5, TakeIsTaken, TakeKeepsTracked, SuspendReaderKeepsTracked
  DEF TryPushReader, Awaiters
<1>6. ASSUME NEW w \in Writers, TryPushWriter(w)
      PROVE  Tracked'
  BY <1>4, <1>6, GiveToReaderKeepsTracked, GiveToBufferKeepsTracked,
     SuspendWriterKeepsTracked
  DEF TryPushWriter, Awaiters
<1>7. ASSUME NEW c \in Closers, Close(c) \/ CleanUp(c)
      PROVE  Tracked'
  BY <1>7, CloseKeepsTracked, CleanUpKeepsTracked
<1>8. CASE Finished \/ UNCHANGED vars
  BY <1>8
  DEF Finished, vars, Invariant, Tracked, WaitingIsEmpty, MatchedHasValue,
      NotYetSent, IdleOwesNothing, NoneForgotten, NoLossWhileOpen, NoDuplicate,
      NoEmptyResult
<1> QED
  BY <1>1, <1>2, <1>3, <1>5, <1>6, <1>7, <1>8 DEF Next

(* Nothing is put on a closed channel, and only the close() that finds it  *)
(* open cleans up.                                                         *)
LEMMA NextClosed ==
  ASSUME Invariant, [Next]_vars
  PROVE  CleaningIsClosed' /\ ClosedIsEmpty'
<1> USE DEF CleaningIsClosed, ClosedIsEmpty
<1>1. CleaningIsClosed /\ ClosedIsEmpty /\ closer \in [Closers -> {"idle", "cleaning", "done"}]
  BY DEF Invariant, Inductive, TypeOK
<1>2. ASSUME UNCHANGED <<is_active, closer>>,
             is_active \/ UNCHANGED <<buffer, writer_list, reader_list>>
      PROVE  CleaningIsClosed' /\ ClosedIsEmpty'
  BY <1>1, <1>2
<1>3. CASE \E a \in Awaiters : Create(a) \/ Resume(a) \/ Run(a)
  BY <1>2, <1>3 DEF Create, Resume, Run, shared
<1>4. CASE \E a \in Awaiters : Unwind(a)
  BY <1>2, <1>4, RemoveFindsNothing DEF Unwind, Invariant, Inductive
<1>5. CASE \E r \in Readers : TryPushReader(r)
  BY <1>2, <1>5
  DEF TryPushReader, Reject, TakeAndRefill, TakeBuffered, TakeFromWriter,
      SuspendReader, shared
<1>6. CASE \E w \in Writers : TryPushWriter(w)
  BY <1>2, <1>6
  DEF TryPushWriter, Reject, GiveToReader, GiveToBuffer, SuspendWriter, shared
<1>7. ASSUME NEW c \in Closers, Close(c)
      PROVE  CleaningIsClosed' /\ ClosedIsEmpty'
  BY <1>1, <1>7 DEF Close
<1>8. ASSUME NEW c \in Closers, CleanUp(c)
      PROVE  CleaningIsClosed' /\ ClosedIsEmpty'
  BY <1>1, <1>8 DEF CleanUp
<1>9. CASE Finished \/ UNCHANGED vars
  BY <1>2, <1>9 DEF Finished, vars
<1> QED
  BY <1>3, <1>4, <1>5, <1>6, <1>7, <1>8, <1>9 DEF Next
-----------------------------------------------------------------------------
LEMMA InitInvariant ==
  ASSUME Init
  PROVE  Invariant
<1>1. Inductive
  BY ChannelAssumption
  DEF Init, Inductive, TypeOK, NoDoubleResume, WaitersMatchBuffer, States,
      IsInjective, Limit, Awaiters
<1>2. Range(<<>>) = {} /\ IsInjective(<<>>)
  BY DEF Range, IsInjective
<1>3. NoValue \notin Writers /\ Awaiters = Readers \cup Writers
  BY <1>1, Kinds DEF Inductive
<1>4. \A x \in Range(value) : x = NoValue
  BY DEF Init, Range
<1>5. Tracked
  BY <1>2, <1>3, <1>4
  DEF Init, Tracked, WaitingIsEmpty, MatchedHasValue, NotYetSent,
      IdleOwesNothing, NoneForgotten, NoLossWhileOpen, NoDuplicate, NoEmptyResult
<1>6. CleaningIsClosed /\ ClosedIsEmpty
  BY DEF Init, CleaningIsClosed, ClosedIsEmpty
<1> QED
  BY <1>1, <1>5, <1>6 DEF Invariant

LEMMA NextInvariant ==
  ASSUME Invariant, [Next]_vars
  PROVE  Invariant'
<1>1. Inductive'
  BY NextTypeOK, NextNoDoubleResume, NextWaitersMatchBuffer
  DEF Invariant, Inductive
<1> QED
  BY <1>1, NextTracked, NextClosed DEF Invariant

LEMMA AlwaysInvariant == Spec => []Invariant
  BY InitInvariant, NextInvariant, PTL DEF Spec

(* For any number of writers, readers and closers and any capacity the     *)
(* channel is a FIFO channel: a reader is given the oldest value that is   *)
(* in the buffer or waits with its writer, a value is handed over          *)
(* directly only when none is in flight, and after close() the channel     *)
(* accepts and gives nothing.                                              *)
THEOREM ImplementsFifoChannel == Spec => ImplementsFifo
<1>1. Init => Fifo!Init
  BY EmptyAndOther DEF Init, Fifo!Init
<1>2. Invariant /\ [Next]_vars => [Fifo!Next]_(Fifo!vars)
  BY StepImplements
<1> QED
  BY <1>1, <1>2, AlwaysInvariant, PTL DEF Spec, ImplementsFifo, Fifo!Spec

(* A suspended coroutine is on a list or in the hands of a thread that     *)
(* will resume it.                                                         *)
THEOREM NobodyForgotten == Spec => []NoneForgotten
  BY AlwaysInvariant, PTL DEF Invariant, Tracked

(* While the channel is open, the value of a write() that went through is  *)
(* in the buffer or at a reader.                                           *)
THEOREM NothingLost == Spec => []NoLossWhileOpen
  BY AlwaysInvariant, PTL DEF Invariant, Tracked

(* A value is in one place, whatever refills, hand-overs and close() do.   *)
THEOREM NothingTwice == Spec => []NoDuplicate
  BY AlwaysInvariant, PTL DEF Invariant, Tracked

(* await_resume() never reads a _result that no writer has filled.         *)
THEOREM NoReaderEmpty == Spec => []NoEmptyResult
  BY AlwaysInvariant, PTL DEF Invariant, Tracked

(* After clean_up() nobody and nothing is left in the channel, for good.   *)
THEOREM NothingLeftBehind == Spec => []ClosedIsEmpty
  BY AlwaysInvariant, PTL DEF Invariant
-----------------------------------------------------------------------------
(* A coroutine waits for a reason: a suspended reader finds nothing that   *)
(* is in flight, a suspended writer a full buffer and no reader.           *)
WaitsForReason ==
  /\ \A r \in Readers : state[r] = "suspended" =>
       buffer = <<>> /\ \A w \in Writers : state[w] # "suspended"
  /\ \A w \in Writers : state[w] = "suspended" => Len(buffer) = Limit

(* Who is suspended on one side of the channel cannot be served by what is *)
(* on the other side, whatever other coroutines do to the buffer and the   *)
(* lists: a match is never missed, for any capacity.                       *)
THEOREM NoMatchMissed == Spec => []WaitsForReason
<1>1. TypeOK /\ WaitersMatchBuffer /\ NoneForgotten => WaitsForReason
  <2> SUFFICES ASSUME TypeOK, WaitersMatchBuffer, NoneForgotten
               PROVE  WaitsForReason
    OBVIOUS
  <2>1. /\ Range(reader_list) \subseteq Readers
        /\ Range(writer_list) \subseteq Writers
        /\ Range(<<>>) = {}
    BY DEF TypeOK, Range
  <2>2. ASSUME NEW r \in Readers, state[r] = "suspended"
        PROVE  reader_list # <<>>
    BY <2>1, <2>2, ChannelAssumption DEF NoneForgotten, Awaiters
  <2>3. ASSUME NEW w \in Writers, state[w] = "suspended"
        PROVE  writer_list # <<>>
    BY <2>1, <2>3, ChannelAssumption DEF NoneForgotten, Awaiters
  <2> QED
    BY <2>2, <2>3 DEF WaitersMatchBuffer, WaitsForReason
<1> QED
  BY <1>1, TypeCorrect, WaitersDiscipline, NobodyForgotten, PTL

(* Nobody waits on a channel that is closed and clean.                     *)
NobodyWaitsClosed ==
  ~is_active /\ (\A c \in Closers : closer[c] # "cleaning") =>
    \A a \in Awaiters : state[a] # "suspended"

(* An operation that passed check_closed() before the close() is never     *)
(* suspended after clean_up(), when nobody would wake it.                  *)
THEOREM CloseLeavesNoWaiter == Spec => []NobodyWaitsClosed
<1>1. NoneForgotten /\ ClosedIsEmpty => NobodyWaitsClosed
  <2>1. Range(<<>>) = {}
    BY DEF Range
  <2> QED
    BY <2>1 DEF NoneForgotten, ClosedIsEmpty, NobodyWaitsClosed
<1> QED
  BY <1>1, NobodyForgotten, NothingLeftBehind, PTL
=============================================================================
