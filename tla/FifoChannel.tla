---------------------------- MODULE FifoChannel ----------------------------
(***************************************************************************)
(* What a Channel<ValueType> promises, without locks, lists or executors:  *)
(* while it is open, values are handed to readers in the order in which    *)
(* they were accepted, each of them once; closing it stops all hand-overs  *)
(* and discards what is in flight.  A value is named by its writer.        *)
(***************************************************************************)
EXTENDS Sequences

CONSTANTS Readers, Writers, NoValue

VARIABLES
  open,     \* the channel has not been closed
  queue,    \* the values accepted and not yet handed over, oldest first
  got       \* the value handed to each reader, NoValue before that

vars == <<open, queue, got>>

Init ==
  /\ open = TRUE
  /\ queue = <<>>
  /\ got = [r \in Readers |-> NoValue]

(* The channel accepts the value of w. *)
Send(w) ==
  /\ open
  /\ queue' = Append(queue, w)
  /\ UNCHANGED <<open, got>>

(* The oldest accepted value goes to r. *)
Receive(r) ==
  /\ open
  /\ queue # <<>>
  /\ got[r] = NoValue
  /\ got' = [got EXCEPT ![r] = Head(queue)]
  /\ queue' = Tail(queue)
  /\ UNCHANGED open

(* Nothing is in flight and the value of w goes straight to r. *)
Transfer(w, r) ==
  /\ open
  /\ queue = <<>>
  /\ got[r] = NoValue
  /\ got' = [got EXCEPT ![r] = w]
  /\ UNCHANGED <<open, queue>>

Close ==
  /\ open
  /\ open' = FALSE
  /\ UNCHANGED <<queue, got>>

(* Whatever was in flight when the channel closed is thrown away. *)
Discard ==
  /\ ~open
  /\ queue' = <<>>
  /\ UNCHANGED <<open, got>>

Next ==
  \/ \E w \in Writers : Send(w)
  \/ \E r \in Readers : Receive(r)
  \/ \E w \in Writers, r \in Readers : Transfer(w, r)
  \/ Close
  \/ Discard

Spec == Init /\ [][Next]_vars
=============================================================================
