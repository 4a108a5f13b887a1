--------------------------- MODULE MessageStream ---------------------------
(***************************************************************************)
(* The framing of NetworkManager.cpp on one connection: the writev() calls *)
(* of sendMessage() and sendRankReportMessage() at one end, the read()     *)
(* calls of the event loop, readNormalMessage(), readRankReportMessage()   *)
(* and readVerify() at the other, with the Bytes that take the content.    *)
(*                                                                         *)
(* A connection is a sequence of bytes.  The four bytes of size are digits *)
(* below SizeBase, least significant first: 256 in the code, less in an    *)
(* instance whose messages are to need two of them.  What connects the     *)
(* ends is external: a byte stream that holds at most Window bytes and     *)
(* hands them over in any pieces.                                          *)
(***************************************************************************)
EXTENDS Integers, Sequences, SequencesExt, FiniteSets

CONSTANTS
  Senders,      \* sendMessage() tasks on this connection, one message each
  Contents,     \* the bytes of each one's message
  SizeBase,     \* how far one byte of size counts
  Window,       \* how many bytes fit into the connection
  ReceiveBuff   \* receive_buff_size

Byte == 0 .. 255
HeadSize == 8                               \* sizeof(MessageHead)
FixVerifyCode == <<206, 250, 173, 222>>     \* CE FA AD DE: 0xDEADFACE

ASSUME MessageStreamAssumption ==
  /\ \A s \in Senders : Contents[s] \in Seq(Byte)
  /\ SizeBase \in 2 .. 256
  /\ Window \in Nat /\ Window >= HeadSize + Len(FixVerifyCode)
  /\ ReceiveBuff \in Nat \ {0}

VARIABLES
  conn,      \* "none", "open" or "ended"
  stream,    \* the bytes between writev() and read()
  out,       \* what writev() still has to write, of each message
  sender,    \* where each sendMessage() is
  receiver,  \* where the event loop is with this connection
  type,      \* message_head.type
  remain,    \* remain_size
  data,      \* data, as far as it has been set
  delivered, \* the messages that getMessage() has returned
  order,     \* history: the senders, in the order of their first bytes
  torn,      \* history: bytes have been written into another one's message
  guessed,   \* history: a verify code was accepted that was not read in full
  cut        \* history: a head was read that stops inside its size

sending == <<out, sender, order, torn>>
receiving == <<receiver, type, remain, data, delivered, guessed, cut>>
vars == <<conn, stream, sending, receiving>>

SenderStates == {"new", "writing",
                 "returned",    \* writev() has written everything
                 "incomplete",  \* "send to ... not complete": SendError
                 "failed"}      \* ret < 0: cleared, and tried on a new socket
Handing == {"handing",         \* in write_sync(), until getMessage()
            "handing_last"}    \* the same, with the socket already closed
ReceiverStates == {"head",      \* in epoll_wait() or at read(message_head)
                   "content",   \* at read() in readNormalMessage()
                   "verify",    \* at read() in readVerify()
                   "aborted",   \* an assertion has ended the program
                   "closed"}    \* closeSocket() called
                  \cup Handing

(* MessageHead: the type is in the low bits of the second byte, the size   *)
(* in the last four, of which size_t keeps the low ones.                   *)
TypeOf(control) == control % 8
SizeOf(a, b, c, d) == a + SizeBase * (b + SizeBase * (c + SizeBase * d))
SizeBytes(n) ==
  LET low == n \div SizeBase
      high == low \div SizeBase
  IN <<n % SizeBase, low % SizeBase, high % SizeBase,
       (high \div SizeBase) % SizeBase>>
SizeLimit == SizeBase * (SizeBase * (SizeBase * SizeBase))

(* Fault: the vector has no third part.                                    *)
FaultNoVerify(s) ==
  (<<0, 0, 0, 0>> \o SizeBytes(Len(Contents[s]))) \o Contents[s]

(* The iovec of sendMessage(), and that of sendRankReportMessage(), which  *)
(* has the port in reserved and the rank in size (port 257, rank 1).       *)
Encode(s) ==
  ((<<0, 0, 0, 0>> \o SizeBytes(Len(Contents[s]))) \o Contents[s])
    \o FixVerifyCode
RankReport == (<<0, 1, 1, 1>> \o <<1, 0, 0, 0>>) \o FixVerifyCode

Least(a, b) == IF a <= b THEN a ELSE b
Written(s) == IF sender[s] = "new" THEN 0 ELSE Len(Encode(s)) - Len(out[s])
InTheMiddle(s) == Written(s) > 0 /\ out[s] # <<>>
-----------------------------------------------------------------------------
Init ==
  /\ conn = "none"
  /\ stream = <<>>
  /\ out = [s \in Senders |-> <<>>]
  /\ sender = [s \in Senders |-> "new"]
  /\ receiver = "head"
  /\ type = 0
  /\ remain = 0
  /\ data = <<>>
  /\ delivered = <<>>
  /\ order = <<>>
  /\ torn = FALSE
  /\ guessed = FALSE
  /\ cut = FALSE

(* connect() and the rank report, which comes before every message; when   *)
(* the report is not written completely the connection is closed.          *)
Connect ==
  /\ conn = "none"
  /\ \/ /\ stream' = RankReport
        /\ conn' = "open"
     \/ /\ stream' \in Prefixes(RankReport) \ {RankReport}
        /\ conn' = "ended"
  /\ UNCHANGED <<sending, receiving>>

Begin(s) ==
  /\ conn = "open"
  /\ sender[s] = "new"
  /\ sender' = [sender EXCEPT ![s] = "writing"]
  /\ out' = [out EXCEPT ![s] = Encode(s)]
  /\ UNCHANGED <<conn, stream, order, torn, receiving>>

(* writev() on a blocking socket copies as much as fits and waits for room *)
(* for the rest.  Nothing keeps other tasks from their writev() on the     *)
(* same socket while it waits.                                             *)
Write(s) ==
  LET n == Least(Len(out[s]), Window - Len(stream))
  IN
    /\ conn = "open" /\ receiver \notin {"closed", "aborted"}
    /\ sender[s] = "writing"
    /\ n > 0
    /\ stream' = stream \o SubSeq(out[s], 1, n)
    /\ out' = [out EXCEPT ![s] = SubSeq(@, n + 1, Len(@))]
    /\ sender' = [sender EXCEPT ![s] =
                    IF n = Len(out[s]) THEN "returned" ELSE @]
    /\ order' = IF Written(s) = 0 THEN Append(order, s) ELSE order
    /\ torn' = (torn \/ \E t \in Senders \ {s} : InTheMiddle(t))
    /\ UNCHANGED <<conn, receiving>>

(* A signal, or the end of the connection, while writev() waits.  With a   *)
(* part written sendMessage() throws, and the socket stays in use.         *)
Interrupted(s) ==
  /\ sender[s] = "writing"
  /\ sender' = [sender EXCEPT ![s] =
                  IF Written(s) > 0 THEN "incomplete" ELSE "failed"]
  /\ UNCHANGED <<conn, stream, out, order, torn, receiving>>

(* The connection ends; from then on read() may fail, and what has not     *)
(* been read by then is lost.                                              *)
ConnectionEnds ==
  /\ conn = "open" /\ receiver # "aborted"
  /\ conn' = "ended"
  /\ UNCHANGED <<stream, sending, receiving>>
-----------------------------------------------------------------------------
(* What a read() of up to max bytes takes.                                 *)
Reads(max) == 1 .. Least(max, Len(stream))
Consume(n) == stream' = SubSeq(stream, n + 1, Len(stream))

(* The assertion of Bytes(size).                                           *)
HasBytes(size) == size > 0

(* Bytes::set() at the end of what has been set.  It throws past the end   *)
(* of the buffer, which the sizes of the reads rule out (TypeOK).          *)
Set(part) == data' = data \o part

(* The switch over the type.                                               *)
Dispatch(t, size) ==
  /\ type' = t
  /\ receiver' = CASE t = 0 -> (IF HasBytes(size) THEN "content" ELSE "aborted")
                   [] t = 1 -> "verify"
                   [] OTHER -> "head"
  /\ remain' = IF t = 0 THEN size ELSE 0
  /\ data' = <<>>

(* One read() for the head, whose return value is compared with 0 only:    *)
(* what has not arrived stays zero.                                        *)
ReadHead ==
  /\ receiver = "head"
  /\ \E n \in Reads(HeadSize) :
       LET head == [i \in 1 .. HeadSize |-> IF i <= n THEN stream[i] ELSE 0]
       IN /\ Dispatch(TypeOf(head[2]), SizeOf(head[5], head[6], head[7], head[8]))
          /\ Consume(n)
          /\ cut' = (cut \/ n \in 5 .. HeadSize - 1)
  /\ UNCHANGED <<conn, delivered, guessed, sending>>

(* Fault: every read() is for a full buffer.                               *)
FaultReadContent ==
  /\ receiver = "content"
  /\ \E n \in Reads(ReceiveBuff) :
       /\ data' = data \o SubSeq(stream, 1, n)
       /\ remain' = remain - n
       /\ Consume(n)
  /\ receiver' = IF remain' = 0 THEN "verify" ELSE "content"
  /\ UNCHANGED <<conn, type, delivered, guessed, cut, sending>>

(* A read() for a part of the content, which is set in data.               *)
ReadContent ==
  /\ receiver = "content"
  /\ \E n \in Reads(Least(ReceiveBuff, remain)) :
       /\ Set(SubSeq(stream, 1, n))
       /\ remain' = remain - n
       /\ Consume(n)
  /\ receiver' = IF remain' = 0 THEN "verify" ELSE "content"
  /\ UNCHANGED <<conn, type, delivered, guessed, cut, sending>>

(* A message goes to processMessage(), whose write_sync() waits for        *)
(* getMessage() (the channel has no room); a rank report to the map.       *)
Accept == receiver' = IF type = 0 THEN "handing" ELSE "head"

(* Fault: the assertion is compiled out.                                   *)
FaultNoAssertion ==
  /\ receiver = "verify"
  /\ \E n \in Reads(Len(FixVerifyCode)) : Consume(n)
  /\ Accept
  /\ UNCHANGED <<conn, type, remain, data, delivered, guessed, cut, sending>>

(* One read() for the verify code, and the assertion.  What has not        *)
(* arrived of verify_code is not initialised: it may happen to be right.   *)
ReadVerify ==
  /\ receiver = "verify"
  /\ \E n \in Reads(Len(FixVerifyCode)) :
       /\ Consume(n)
       /\ \/ /\ IsPrefix(SubSeq(stream, 1, n), FixVerifyCode)
             /\ Accept
             /\ guessed' = (guessed \/ n < Len(FixVerifyCode))
          \/ /\ SubSeq(stream, 1, n) # FixVerifyCode
             /\ receiver' = "aborted"
             /\ UNCHANGED guessed
  /\ UNCHANGED <<conn, type, remain, data, delivered, cut, sending>>

(* Somebody calls getMessage(), or has been waiting in it: the loop goes   *)
(* on with what has arrived since.                                         *)
GetMessage ==
  /\ receiver \in Handing
  /\ delivered' = Append(delivered, data)
  /\ data' = <<>>
  /\ receiver' = IF receiver = "handing" THEN "head" ELSE "closed"
  /\ UNCHANGED <<conn, stream, type, remain, guessed, cut, sending>>

(* read() returns 0 or less: closeSocket().  readVerify() goes on with a   *)
(* code that was never read.                                               *)
ReadEnd ==
  /\ conn = "ended"
  /\ stream' = <<>>
  /\ \/ /\ receiver \in {"head", "content"}
        /\ receiver' = "closed"
        /\ UNCHANGED guessed
     \/ /\ receiver = "verify"
        /\ receiver' = IF type = 0 THEN "handing_last" ELSE "closed"
        /\ guessed' = TRUE
     \/ /\ receiver = "verify"
        /\ receiver' = "aborted"
        /\ UNCHANGED guessed
  /\ UNCHANGED <<conn, type, remain, data, delivered, cut, sending>>

Receive == ReadHead \/ ReadContent \/ ReadVerify \/ ReadEnd

(* Nothing is left to send or to read, or the receiver waits for bytes of  *)
(* a message that was torn.                                                *)
Finished ==
  /\ \A s \in Senders : sender[s] \notin {"writing"}
  /\ UNCHANGED vars

Next ==
  \/ Connect
  \/ ConnectionEnds
  \/ \E s \in Senders : Begin(s) \/ Write(s) \/ Interrupted(s)
  \/ Receive
  \/ GetMessage
  \/ Finished

(* The event loop reads what has arrived, and writev() uses the room there *)
(* is; nobody has to send or to call getMessage(), and no connection has   *)
(* to end.                                                                 *)
Fairness ==
  /\ WF_vars(Receive)
  /\ \A s \in Senders : WF_vars(Write(s))

Spec == Init /\ [][Next]_vars
FairSpec == Spec /\ Fairness
-----------------------------------------------------------------------------
(* The type invariant.  What remains never passes below 0: no Bytes::set() *)
(* goes past the end of the buffer.                                        *)
TypeOK ==
  /\ conn \in {"none", "open", "ended"}
  /\ stream \in Seq(Byte) /\ Len(stream) <= Window
  /\ out \in [Senders -> Seq(Byte)]
  /\ sender \in [Senders -> SenderStates]
  /\ receiver \in ReceiverStates
  /\ type \in 0 .. 7
  /\ remain \in Nat
  /\ data \in Seq(Byte)
  /\ delivered \in Seq(Seq(Byte))
  /\ order \in Seq(Senders)
  /\ torn \in BOOLEAN /\ guessed \in BOOLEAN /\ cut \in BOOLEAN
  /\ receiver = "content" => remain > 0

(* The sizes of the messages sent fit into what was read of them: into the *)
(* four bytes of size, and into one byte after a head was cut inside them. *)
SizesFit ==
  \A i \in DOMAIN order :
    Len(Contents[order[i]]) < IF cut THEN SizeBase ELSE SizeLimit

(* Whatever the pieces in which the stream arrives, and wherever it ends:  *)
(* what getMessage() returns are the messages that were sent, whole and in *)
(* the order of sending.  A head of up to four bytes is found out by one   *)
(* of the two assertions, one of five to seven as long as every message is *)
(* shorter than 256 bytes.  A longer one is excepted: its head cut inside  *)
(* its size gives a size that is too small, and when the content has the   *)
(* verify code at the place where it is then expected, a part of the       *)
(* message is delivered.  Excepted are also sizes that do not fit into 32  *)
(* bits, streams into which two messages were written at the same time, or *)
(* one after an incomplete one, and those of which a verify code was not   *)
(* read in full and guessed right.                                         *)
MessagesIntact ==
  ~torn /\ ~guessed /\ SizesFit =>
    IsPrefix(delivered, [i \in DOMAIN order |-> Contents[order[i]]])

(* As long as somebody calls getMessage() whenever a message waits to be   *)
(* handed over, a message written completely is not skipped: it is         *)
(* delivered, unless the connection ends or an assertion of the receiver   *)
(* fails.  Without these calls the event loop reads nothing more.          *)
SentIsDelivered ==
  []<>(receiver \notin Handing) =>
    \A s \in Senders :
      sender[s] = "returned" ~>
        \/ \E i \in DOMAIN delivered : delivered[i] = Contents[s]
        \/ receiver \in {"closed", "aborted"}
        \/ torn \/ guessed \/ ~SizesFit
=============================================================================
