---------------------------- MODULE StreamProofs ----------------------------
(***************************************************************************)
(* Proofs about MessageStream, for any number of messages of any contents, *)
(* a connection that holds any number of bytes from twelve on, and a       *)
(* receive buffer of any size.                                             *)
(***************************************************************************)
EXTENDS MessageStream, SequenceTheorems, TLAPS

(* Short sequences, and the two parts of any sequence.                     *)
LEMMA FourOf ==
  ASSUME NEW S, NEW a \in S, NEW b \in S, NEW c \in S, NEW d \in S
  PROVE  /\ <<a, b, c, d>> \in Seq(S) /\ Len(<<a, b, c, d>>) = 4
         /\ <<a, b, c, d>>[1] = a /\ <<a, b, c, d>>[2] = b
         /\ <<a, b, c, d>>[3] = c /\ <<a, b, c, d>>[4] = d
OBVIOUS

LEMMA Parts ==
  ASSUME NEW S, NEW s \in Seq(S), NEW n \in 0 .. Len(s)
  PROVE  /\ SubSeq(s, 1, n) \in Seq(S) /\ Len(SubSeq(s, 1, n)) = n
         /\ \A i \in 1 .. n : SubSeq(s, 1, n)[i] = s[i]
         /\ SubSeq(s, n + 1, Len(s)) \in Seq(S)
         /\ Len(SubSeq(s, n + 1, Len(s))) = Len(s) - n
         /\ \A i \in 1 .. Len(s) - n : SubSeq(s, n + 1, Len(s))[i] = s[n + i]
<1>1. /\ Len(s) \in Nat /\ n \in Int /\ n + 1 \in Int
      /\ \A i \in 1 .. Len(s) : s[i] \in S
  BY LenProperties, ElementOfSeq
<1>2. /\ SubSeq(s, 1, n) \in Seq(S) /\ Len(SubSeq(s, 1, n)) = n
      /\ \A i \in 1 .. n : SubSeq(s, 1, n)[i] = s[i]
  <2>1. \A i \in 1 .. n : s[i] \in S
    BY <1>1
  <2>2. /\ SubSeq(s, 1, n) \in Seq(S)
        /\ Len(SubSeq(s, 1, n)) = IF 1 <= n THEN n - 1 + 1 ELSE 0
        /\ \A i \in 1 .. n - 1 + 1 : SubSeq(s, 1, n)[i] = s[1 + i - 1]
    BY <1>1, <2>1, SubSeqProperties
  <2> QED
    BY <1>1, <2>2
<1>3. /\ SubSeq(s, n + 1, Len(s)) \in Seq(S)
      /\ Len(SubSeq(s, n + 1, Len(s))) = Len(s) - n
      /\ \A i \in 1 .. Len(s) - n : SubSeq(s, n + 1, Len(s))[i] = s[n + i]
  <2> DEFINE m == n + 1
             z == Len(s)
  <2>1. m \in Int /\ z \in Int /\ \A i \in m .. z : s[i] \in S
    BY <1>1
  <2> HIDE DEF m, z
  <2>2. /\ SubSeq(s, m, z) \in Seq(S)
        /\ Len(SubSeq(s, m, z)) = IF m <= z THEN z - m + 1 ELSE 0
        /\ \A i \in 1 .. z - m + 1 : SubSeq(s, m, z)[i] = s[m + i - 1]
    BY <2>1, SubSeqProperties
  <2> QED
    BY <1>1, <2>2 DEF m, z
<1> QED
  BY <1>2, <1>3

(* The four bytes of size hold what is below SizeLimit, and the first of   *)
(* them alone what is below SizeBase.                                      *)
LEMMA Quotients ==
  ASSUME NEW a \in Nat, NEW b \in Nat \ {0}
  PROVE  /\ a \div b \in Nat /\ a % b \in 0 .. b - 1
         /\ a = b * (a \div b) + (a % b)
<1>1. a \div b \in Nat
  OBVIOUS
<1>2. a % b \in 0 .. b - 1
  OBVIOUS
<1>3. a = b * (a \div b) + (a % b)
  OBVIOUS
<1> QED
  BY <1>1, <1>2, <1>3

LEMMA QuotientBelow ==
  ASSUME NEW a \in Nat, NEW b \in Nat \ {0}, NEW m \in Nat, a < b * m
  PROVE  a \div b < m
<1>1. PICK q, r : q = a \div b /\ r = a % b
  OBVIOUS
<1>2. q \in Nat /\ r \in Nat /\ a = b * q + r
  BY <1>1, Quotients
<1> SUFFICES ASSUME m <= q PROVE FALSE
  BY <1>1, <1>2
<1>3. PICK d \in Nat : q = m + d
  BY <1>2
<1>4. b * q = b * m + b * d /\ b * m \in Nat /\ b * d \in Nat
  BY <1>3
<1> QED
  BY <1>2, <1>4

LEMMA SizeTyped ==
  ASSUME NEW n \in Nat
  PROVE  /\ SizeBytes(n) \in Seq(Byte) /\ Len(SizeBytes(n)) = 4
         /\ n < SizeBase => /\ SizeBytes(n)[1] = n /\ SizeBytes(n)[2] = 0
                            /\ SizeBytes(n)[3] = 0 /\ SizeBytes(n)[4] = 0
         /\ n < SizeLimit =>
              SizeOf(SizeBytes(n)[1], SizeBytes(n)[2],
                     SizeBytes(n)[3], SizeBytes(n)[4]) = n
<1> DEFINE low == n \div SizeBase
           high == low \div SizeBase
           top == high \div SizeBase
           a == n % SizeBase
           b == low % SizeBase
           c == high % SizeBase
           d == top % SizeBase
<1>1. SizeBase \in Nat \ {0} /\ SizeBase \in 2 .. 256
  BY MessageStreamAssumption
<1>2. SizeBytes(n) = <<a, b, c, d>>
  BY DEF SizeBytes
<1>3. low \in Nat /\ a \in 0 .. SizeBase - 1 /\ n = SizeBase * low + a
  BY <1>1, Quotients
<1> HIDE DEF low, a
<1>4. high \in Nat /\ b \in 0 .. SizeBase - 1 /\ low = SizeBase * high + b
  BY <1>1, <1>3, Quotients
<1> HIDE DEF high, b
<1>5. top \in Nat /\ c \in 0 .. SizeBase - 1 /\ high = SizeBase * top + c
  BY <1>1, <1>4, Quotients
<1> HIDE DEF top, c
<1>6. d \in 0 .. SizeBase - 1
  BY <1>1, <1>5, Quotients
<1>7. top < SizeBase => d = top
  BY <1>1, <1>5
<1> HIDE DEF d
<1>8. a \in Byte /\ b \in Byte /\ c \in Byte /\ d \in Byte
  BY <1>1, <1>3, <1>4, <1>5, <1>6 DEF Byte
<1>9. /\ SizeBytes(n) \in Seq(Byte) /\ Len(SizeBytes(n)) = 4
      /\ SizeBytes(n)[1] = a /\ SizeBytes(n)[2] = b
      /\ SizeBytes(n)[3] = c /\ SizeBytes(n)[4] = d
  BY <1>2, <1>8, FourOf
<1>10. ASSUME n < SizeBase
       PROVE  a = n /\ b = 0 /\ c = 0 /\ d = 0
  <2>1. low = 0
    BY <1>1, <1>10, QuotientBelow DEF low
  <2>2. high = 0 /\ b = 0
    BY <1>1, <2>1 DEF high, b
  <2>3. top = 0 /\ c = 0
    BY <1>1, <2>2 DEF top, c
  <2>4. d = 0
    BY <1>1, <1>7, <2>3
  <2> QED
    BY <1>1, <1>3, <2>1, <2>2, <2>3, <2>4
<1>11. ASSUME n < SizeLimit
       PROVE  SizeOf(a, b, c, d) = n
  <2>1. PICK two, three :
          /\ two = SizeBase * SizeBase /\ three = SizeBase * two
          /\ two \in Nat /\ three \in Nat
    BY <1>1
  <2>2. n < SizeBase * three
    BY <1>11, <2>1 DEF SizeLimit
  <2>3. low < SizeBase * two
    BY <1>1, <2>1, <2>2, QuotientBelow DEF low
  <2>4. high < SizeBase * SizeBase
    BY <1>1, <1>3, <2>1, <2>3, QuotientBelow DEF high
  <2>5. top < SizeBase
    BY <1>1, <1>4, <2>4, QuotientBelow DEF top
  <2>6. high = c + SizeBase * d
    BY <1>1, <1>5, <1>7, <2>5
  <2>7. low = b + SizeBase * high /\ n = a + SizeBase * low
    BY <1>1, <1>3, <1>4
  <2> QED
    BY <2>6, <2>7 DEF SizeOf
<1> QED
  BY <1>9, <1>10, <1>11

LEMMA SizeBounds ==
  SizeBase \in Nat /\ SizeLimit \in Nat /\ SizeBase <= SizeLimit
<1>1. SizeBase \in Nat /\ SizeBase >= 1
  BY MessageStreamAssumption
<1>2. /\ \A n \in Nat : n >= 1 => SizeBase * n \in Nat /\ SizeBase <= SizeBase * n
                                  /\ SizeBase * n >= 1
  BY <1>1
<1>3. SizeBase * SizeBase \in Nat /\ SizeBase * SizeBase >= 1
  BY <1>1, <1>2
<1>4. /\ SizeBase * (SizeBase * SizeBase) \in Nat
      /\ SizeBase * (SizeBase * SizeBase) >= 1
  BY <1>2, <1>3
<1> QED
  BY <1>1, <1>2, <1>4 DEF SizeLimit

LEMMA VerifyCode ==
  /\ FixVerifyCode \in Seq(Byte) /\ Len(FixVerifyCode) = 4
  /\ FixVerifyCode[1] = 206 /\ FixVerifyCode[2] = 250
  /\ FixVerifyCode[3] = 173 /\ FixVerifyCode[4] = 222
<1>1. 206 \in Byte /\ 250 \in Byte /\ 173 \in Byte /\ 222 \in Byte
  BY DEF Byte
<1> QED
  BY <1>1, FourOf DEF FixVerifyCode

(* What an encoded message consists of ...                                 *)
LEMMA EncodedMessage ==
  ASSUME NEW s \in Senders
  PROVE  LET size == SizeBytes(Len(Contents[s]))
         IN /\ Contents[s] \in Seq(Byte) /\ Len(Contents[s]) \in Nat
            /\ Encode(s) \in Seq(Byte) /\ Len(Encode(s)) = Len(Contents[s]) + 12
            /\ \A i \in 1 .. 4 : Encode(s)[i] = 0
            /\ \A i \in 1 .. 4 : Encode(s)[4 + i] = size[i]
            /\ \A i \in 1 .. Len(Contents[s]) : Encode(s)[8 + i] = Contents[s][i]
            /\ Encode(s)[Len(Contents[s]) + 9] = 206
<1> DEFINE c == Contents[s]
           size == SizeBytes(Len(c))
           zeros == <<0, 0, 0, 0>>
           head == zeros \o size
           front == head \o c
           all == front \o FixVerifyCode
<1>1. c \in Seq(Byte) /\ Len(c) \in Nat
  BY MessageStreamAssumption, LenProperties
<1>2. size \in Seq(Byte) /\ Len(size) = 4
  BY <1>1, SizeTyped
<1>3. zeros \in Seq(Byte) /\ Len(zeros) = 4 /\ \A i \in 1 .. 4 : zeros[i] = 0
  <2>1. 0 \in Byte
    BY DEF Byte
  <2> QED
    BY <2>1, FourOf
<1>4. Encode(s) = all
  BY DEF Encode
<1> HIDE DEF c, size, zeros, all
<1> HIDE DEF front
<1>5. /\ head \in Seq(Byte) /\ Len(head) = 8
      /\ \A i \in 1 .. 4 : head[i] = 0
      /\ \A i \in 1 .. 4 : head[4 + i] = size[i]
  <2>1. /\ head \in Seq(Byte) /\ Len(head) = Len(zeros) + Len(size)
        /\ \A i \in 1 .. Len(zeros) + Len(size) :
             head[i] = IF i <= Len(zeros) THEN zeros[i] ELSE size[i - Len(zeros)]
    BY <1>2, <1>3, ConcatProperties
  <2> HIDE DEF head
  <2> QED
    BY <1>2, <1>3, <2>1
<1> HIDE DEF head
<1> USE DEF front
<1>6. /\ front \in Seq(Byte) /\ Len(front) = 8 + Len(c)
      /\ \A i \in 1 .. 8 : front[i] = head[i]
      /\ \A i \in 1 .. Len(c) : front[8 + i] = c[i]
  <2>1. /\ front \in Seq(Byte) /\ Len(front) = Len(head) + Len(c)
        /\ \A i \in 1 .. Len(head) + Len(c) :
             front[i] = IF i <= Len(head) THEN head[i] ELSE c[i - Len(head)]
    <3>1. head \in Seq(Byte) /\ c \in Seq(Byte)
      BY <1>1, <1>5
    <3> QED
      BY <3>1, ConcatProperties
  <2> HIDE DEF front
  <2>2. front \in Seq(Byte) /\ Len(front) = 8 + Len(c)
    BY <1>5, <2>1
  <2>3. \A i \in 1 .. 8 : front[i] = head[i]
    BY <1>1, <1>5, <2>1
  <2>4. ASSUME NEW i \in 1 .. Len(c)
        PROVE  front[8 + i] = c[i]
    <3>1. PICK j : j = 8 + i
      OBVIOUS
    <3>2. j \in 1 .. 8 + Len(c) /\ ~(j <= 8) /\ j - 8 = i
      BY <1>1, <3>1
    <3>3. front[j] = c[j - 8]
      BY <1>5, <2>1, <3>2
    <3> QED
      BY <3>1, <3>2, <3>3
  <2> QED
    BY <2>2, <2>3, <2>4
<1> HIDE DEF front
<1> USE DEF all
<1>7. /\ all \in Seq(Byte) /\ Len(all) = Len(front) + 4
      /\ \A i \in 1 .. Len(front) : all[i] = front[i]
      /\ \A i \in 1 .. 4 : all[Len(front) + i] = FixVerifyCode[i]
  <2>1. /\ all \in Seq(Byte) /\ Len(all) = Len(front) + Len(FixVerifyCode)
        /\ \A i \in 1 .. Len(front) + Len(FixVerifyCode) :
             all[i] = IF i <= Len(front) THEN front[i]
                      ELSE FixVerifyCode[i - Len(front)]
    <3>1. front \in Seq(Byte) /\ FixVerifyCode \in Seq(Byte)
      BY <1>6, VerifyCode
    <3> QED
      BY <3>1, ConcatProperties
  <2> HIDE DEF all
  <2>2. Len(FixVerifyCode) = 4 /\ Len(front) \in Nat
    BY <1>1, <1>6, VerifyCode
  <2>3. all \in Seq(Byte) /\ Len(all) = Len(front) + 4
    BY <2>1, <2>2
  <2>4. \A i \in 1 .. Len(front) : all[i] = front[i]
    BY <2>1, <2>2
  <2>5. ASSUME NEW i \in 1 .. 4
        PROVE  all[Len(front) + i] = FixVerifyCode[i]
    <3>1. PICK j : j = Len(front) + i
      OBVIOUS
    <3>2. /\ j \in 1 .. Len(front) + 4 /\ ~(j <= Len(front))
          /\ j - Len(front) = i
      BY <2>2, <3>1
    <3>3. all[j] = FixVerifyCode[j - Len(front)]
      BY <2>1, <2>2, <3>2
    <3> QED
      BY <3>1, <3>2, <3>3
  <2> QED
    BY <2>3, <2>4, <2>5
<1> HIDE DEF all
<1>8. Len(all) = Len(c) + 12
  BY <1>1, <1>6, <1>7
<1>9. \A i \in 1 .. 4 : all[i] = 0 /\ all[4 + i] = size[i]
  <2> SUFFICES ASSUME NEW i \in 1 .. 4
               PROVE  all[i] = 0 /\ all[4 + i] = size[i]
    OBVIOUS
  <2>1. PICK j : j = 4 + i
    OBVIOUS
  <2>2. i \in 1 .. 8 /\ j \in 1 .. 8 /\ i \in 1 .. Len(front) /\ j \in 1 .. Len(front)
    BY <1>1, <1>6, <2>1
  <2>3. all[i] = head[i] /\ all[j] = head[j]
    BY <1>6, <1>7, <2>2
  <2> QED
    BY <1>5, <2>1, <2>3
<1>10. \A i \in 1 .. Len(c) : all[8 + i] = c[i]
  <2> SUFFICES ASSUME NEW i \in 1 .. Len(c)
               PROVE  all[8 + i] = c[i]
    OBVIOUS
  <2>1. PICK j : j = 8 + i
    OBVIOUS
  <2>2. j \in 1 .. Len(front)
    BY <1>1, <1>6, <2>1
  <2> QED
    BY <1>6, <1>7, <2>1, <2>2
<1>11. all[Len(c) + 9] = 206
  <2>1. Len(front) + 1 = Len(c) + 9 /\ 1 \in 1 .. 4
    BY <1>1, <1>6
  <2>2. all[Len(front) + 1] = 206
    BY <1>7, <2>1, VerifyCode
  <2> QED
    BY <2>1, <2>2
<1> QED
  BY <1>1, <1>4, <1>7, <1>8, <1>9, <1>10, <1>11 DEF c, size

(* ... and a rank report.                                                  *)
LEMMA EncodedReport ==
  /\ RankReport \in Seq(Byte) /\ Len(RankReport) = 12
  /\ RankReport[2] = 1
  /\ \A i \in 1 .. 8 : RankReport[i] \in {0, 1}
<1> DEFINE a == <<0, 1, 1, 1>>
           b == <<1, 0, 0, 0>>
           head == a \o b
           all == head \o FixVerifyCode
<1>1. 0 \in Byte /\ 1 \in Byte
  BY DEF Byte
<1>2. /\ a \in Seq(Byte) /\ Len(a) = 4 /\ b \in Seq(Byte) /\ Len(b) = 4
      /\ a[2] = 1
      /\ \A i \in 1 .. 4 : a[i] \in {0, 1} /\ b[i] \in {0, 1}
  BY <1>1, FourOf
<1>3. RankReport = all
  BY DEF RankReport
<1> HIDE DEF a, b, all
<1>4. /\ head \in Seq(Byte) /\ Len(head) = 8
      /\ \A i \in 1 .. 4 : head[i] = a[i] /\ head[4 + i] = b[i]
  <2>1. /\ head \in Seq(Byte) /\ Len(head) = Len(a) + Len(b)
        /\ \A i \in 1 .. Len(a) + Len(b) :
             head[i] = IF i <= Len(a) THEN a[i] ELSE b[i - Len(a)]
    BY <1>2, ConcatProperties
  <2> HIDE DEF head
  <2> QED
    BY <1>2, <2>1
<1> HIDE DEF head
<1>5. \A i \in 1 .. 8 : head[i] \in {0, 1}
  <2> SUFFICES ASSUME NEW i \in 1 .. 8 PROVE head[i] \in {0, 1}
    OBVIOUS
  <2>1. CASE i \in 1 .. 4
    BY <1>2, <1>4, <2>1
  <2>2. CASE i \notin 1 .. 4
    <3>1. i - 4 \in 1 .. 4 /\ 4 + (i - 4) = i
      BY <2>2
    <3> QED
      BY <1>2, <1>4, <3>1
  <2> QED
    BY <2>1, <2>2
<1> USE DEF all
<1>6. /\ all \in Seq(Byte) /\ Len(all) = 12
      /\ \A i \in 1 .. 8 : all[i] = head[i]
  <2>1. /\ all \in Seq(Byte) /\ Len(all) = Len(head) + Len(FixVerifyCode)
        /\ \A i \in 1 .. Len(head) + Len(FixVerifyCode) :
             all[i] = IF i <= Len(head) THEN head[i]
                      ELSE FixVerifyCode[i - Len(head)]
    <3>1. head \in Seq(Byte) /\ FixVerifyCode \in Seq(Byte)
      BY <1>4, VerifyCode
    <3> QED
      BY <3>1, ConcatProperties
  <2> HIDE DEF all
  <2> QED
    BY <1>4, <2>1, VerifyCode
<1> HIDE DEF all
<1> QED
  BY <1>2, <1>3, <1>4, <1>5, <1>6

LEMMA HeadsTyped ==
  ASSUME NEW t \in Byte, NEW a \in Byte, NEW b \in Byte, NEW c \in Byte, NEW d \in Byte
  PROVE  TypeOf(t) \in 0 .. 7 /\ SizeOf(a, b, c, d) \in Nat
<1>1. SizeBase \in Nat /\ a \in Nat /\ b \in Nat /\ c \in Nat /\ d \in Nat
  BY MessageStreamAssumption DEF Byte
<1>2. \A m, n \in Nat : m + SizeBase * n \in Nat
  BY <1>1
<1>3. SizeOf(a, b, c, d) \in Nat
  BY <1>1, <1>2 DEF SizeOf
<1> QED
  BY <1>3 DEF Byte, TypeOf

LEMMA PrefixTyped ==
  ASSUME NEW s \in Seq(Byte), NEW p \in Prefixes(s)
  PROVE  /\ p \in Seq(Byte) /\ Len(p) <= Len(s)
         /\ \A i \in 1 .. Len(p) : p[i] = s[i]
<1>1. Len(s) \in Nat
  BY LenProperties
<1>2. PICK l \in 0 .. Len(s) : p = SubSeq(s, 1, l)
  BY DEF Prefixes
<1> QED
  BY <1>1, <1>2, Parts

(* The whole is one of them.                                               *)
LEMMA WholePrefix ==
  ASSUME NEW s \in Seq(Byte)
  PROVE  s \in Prefixes(s)
<1>1. Len(s) \in 0 .. Len(s) /\ SubSeq(s, 1, Len(s)) = s
  BY LenProperties, SubSeqFull
<1> QED
  BY <1>1 DEF Prefixes

LEMMA ReadTyped ==
  ASSUME TypeOK, NEW n \in 1 .. Len(stream)
  PROVE  /\ SubSeq(stream, 1, n) \in Seq(Byte)
         /\ SubSeq(stream, n + 1, Len(stream)) \in Seq(Byte)
         /\ Len(SubSeq(stream, n + 1, Len(stream))) <= Window
<1>1. stream \in Seq(Byte) /\ Len(stream) \in Nat /\ Len(stream) <= Window
  BY LenProperties DEF TypeOK, Byte
<1>2. n \in 0 .. Len(stream) /\ n \in Nat /\ Window \in Nat
  BY <1>1, MessageStreamAssumption
<1> QED
  BY <1>1, <1>2, Parts

(* The type invariant holds with any messages.                             *)
THEOREM TypeCorrect == Spec => []TypeOK
<1>1. Init => TypeOK
  <2> SUFFICES ASSUME Init PROVE TypeOK
    OBVIOUS
  <2>1. Window \in Nat
    BY MessageStreamAssumption
  <2>2. \A S : <<>> \in Seq(S) /\ Len(<<>>) = 0
    BY EmptySeq
  <2>3. [s \in Senders |-> <<>>] \in [Senders -> Seq(Byte)]
    BY <2>2
  <2>4. Len(stream) <= Window /\ stream \in Seq(Byte)
    BY <2>1, <2>2 DEF Init
  <2>5. sender \in [Senders -> SenderStates] /\ receiver \in ReceiverStates
    BY DEF Init, SenderStates, ReceiverStates
  <2>6. /\ data \in Seq(Byte) /\ order \in Seq(Senders)
        /\ delivered \in Seq(Seq(Byte))
    BY <2>2 DEF Init
  <2>7. type \in 0 .. 7 /\ remain \in Nat /\ out \in [Senders -> Seq(Byte)]
    BY <2>3 DEF Init
  <2> QED
    BY <2>4, <2>5, <2>6, <2>7 DEF Init, TypeOK
<1>2. TypeOK /\ [Next]_vars => TypeOK'
  <2> SUFFICES ASSUME TypeOK, [Next]_vars
               PROVE  TypeOK'
    OBVIOUS
  <2>1. CASE Connect
    <3>1. stream' \in Prefixes(RankReport) /\ conn' \in {"open", "ended"}
      <4>1. CASE stream' = RankReport
        BY <2>1, <4>1, EncodedReport, WholePrefix DEF Connect
      <4> QED
        BY <2>1, <4>1 DEF Connect
    <3>2. stream' \in Seq(Byte) /\ Len(stream') <= 12
      BY <3>1, EncodedReport, PrefixTyped
    <3>3. 12 <= Window
      BY MessageStreamAssumption, VerifyCode DEF HeadSize
    <3>4. Len(stream') <= Window
      BY <3>2, <3>3, MessageStreamAssumption, LenProperties
    <3> QED
      BY <2>1, <3>1, <3>2, <3>4
      DEF Connect, TypeOK, sending, receiving, Byte
  <2>2. CASE ConnectionEnds
    BY <2>2 DEF ConnectionEnds, TypeOK, sending, receiving
  <2>3. ASSUME NEW s \in Senders, Begin(s)
        PROVE  TypeOK'
    BY <2>3, EncodedMessage
    DEF Begin, TypeOK, receiving, Byte, SenderStates
  <2>4. ASSUME NEW s \in Senders, Write(s)
        PROVE  TypeOK'
    <3> DEFINE n == Least(Len(out[s]), Window - Len(stream))
               part == SubSeq(out[s], 1, n)
    <3>1. /\ out[s] \in Seq(Byte) /\ stream \in Seq(Byte)
          /\ n \in 1 .. Len(out[s]) /\ n <= Window - Len(stream)
      BY <2>4, MessageStreamAssumption DEF Write, TypeOK, Byte, Least
    <3>2. /\ stream' = stream \o part
          /\ out' = [out EXCEPT ![s] = SubSeq(out[s], n + 1, Len(out[s]))]
      BY <2>4 DEF Write, TypeOK
    <3>3. order' \in Seq(Senders) /\ torn' \in BOOLEAN
      BY <2>4 DEF Write, TypeOK
    <3>4. sender' \in [Senders -> SenderStates]
      BY <2>4 DEF Write, TypeOK, SenderStates
    <3>5. UNCHANGED <<conn, receiving>>
      BY <2>4 DEF Write
    <3> HIDE DEF n
    <3>6. part \in Seq(Byte) /\ Len(part) = n
      BY <3>1
    <3>7. SubSeq(out[s], n + 1, Len(out[s])) \in Seq(Byte)
      BY <3>1
    <3> HIDE DEF part
    <3>8. stream' \in Seq(Byte) /\ Len(stream') <= Window
      BY <3>1, <3>2, <3>6, MessageStreamAssumption
    <3>9. out' \in [Senders -> Seq(Byte)]
      BY <3>2, <3>7 DEF TypeOK, Byte
    <3> QED
      BY <3>3, <3>4, <3>5, <3>8, <3>9 DEF TypeOK, receiving, Byte
  <2>5. ASSUME NEW s \in Senders, Interrupted(s)
        PROVE  TypeOK'
    BY <2>5 DEF Interrupted, TypeOK, receiving, SenderStates
  <2>6. CASE ReadHead
    <3>1. PICK n \in Reads(HeadSize) :
            LET head == [i \in 1 .. HeadSize |-> IF i <= n THEN stream[i] ELSE 0]
            IN /\ Dispatch(TypeOf(head[2]),
                           SizeOf(head[5], head[6], head[7], head[8]))
               /\ Consume(n)
               /\ cut' = (cut \/ n \in 5 .. HeadSize - 1)
      BY <2>6 DEF ReadHead
    <3> DEFINE head == [i \in 1 .. HeadSize |-> IF i <= n THEN stream[i] ELSE 0]
               t == TypeOf(head[2])
               size == SizeOf(head[5], head[6], head[7], head[8])
    <3>2. n \in 1 .. Len(stream) /\ n <= HeadSize
      BY <3>1 DEF Reads, Least, TypeOK, HeadSize
    <3>3. \A i \in 1 .. 8 : head[i] \in Byte
      <4>1. 0 \in Byte
        BY DEF Byte
      <4>2. \A i \in 1 .. Len(stream) : stream[i] \in Byte
        BY ElementOfSeq DEF TypeOK
      <4>3. Len(stream) \in Nat
        BY LenProperties DEF TypeOK
      <4> QED
        BY <3>2, <4>1, <4>2, <4>3 DEF HeadSize
    <3>4. /\ Dispatch(t, size)
          /\ stream' = SubSeq(stream, n + 1, Len(stream))
          /\ cut' \in BOOLEAN
      BY <3>1 DEF Consume, TypeOK
    <3>5. t \in 0 .. 7 /\ size \in Nat
      <4> HIDE DEF head
      <4>1. /\ head[2] \in Byte /\ head[5] \in Byte /\ head[6] \in Byte
            /\ head[7] \in Byte /\ head[8] \in Byte
        BY <3>3
      <4> QED
        BY <4>1, HeadsTyped
    <3> HIDE DEF head, t, size
    <3>6. stream' \in Seq(Byte) /\ Len(stream') <= Window
      BY <3>2, <3>4, ReadTyped
    <3>7. /\ receiver' \in ReceiverStates /\ type' \in 0 .. 7
          /\ remain' \in Nat /\ data' \in Seq(Byte)
          /\ receiver' = "content" => remain' > 0
      <4>1. <<>> \in Seq(Byte)
        BY EmptySeq
      <4>2. remain' \in Nat /\ data' \in Seq(Byte) /\ type' = t
        BY <3>4, <3>5, <4>1 DEF Dispatch
      <4>3. CASE t = 0
        BY <3>4, <3>5, <4>2, <4>3 DEF Dispatch, HasBytes, ReceiverStates
      <4>4. CASE t = 1
        BY <3>4, <4>2, <3>5, <4>4 DEF Dispatch, ReceiverStates
      <4>5. CASE t \notin {0, 1}
        BY <3>4, <4>2, <3>5, <4>5 DEF Dispatch, ReceiverStates
      <4> QED
        BY <3>5, <4>2, <4>3, <4>4, <4>5
    <3> QED
      BY <2>6, <3>4, <3>6, <3>7 DEF ReadHead, TypeOK, sending
  <2>7. CASE ReadContent
    <3>1. PICK n \in Reads(Least(ReceiveBuff, remain)) :
            /\ Set(SubSeq(stream, 1, n))
            /\ remain' = remain - n
            /\ Consume(n)
      BY <2>7 DEF ReadContent
    <3>2. n \in 1 .. Len(stream) /\ n <= remain
      BY <3>1, MessageStreamAssumption DEF Reads, Least, TypeOK
    <3>3. stream' \in Seq(Byte) /\ Len(stream') <= Window
      BY <3>1, <3>2, ReadTyped DEF Consume
    <3>4. SubSeq(stream, 1, n) \in Seq(Byte)
      BY <3>2, ReadTyped
    <3>5. data' \in Seq(Byte)
      BY <3>1, <3>4, ConcatProperties DEF Set, TypeOK, Byte
    <3>6. /\ remain' \in Nat /\ receiver' \in ReceiverStates
          /\ receiver' = "content" => remain' > 0
      BY <2>7, <3>1, <3>2 DEF ReadContent, TypeOK, ReceiverStates
    <3> QED
      BY <2>7, <3>3, <3>5, <3>6 DEF ReadContent, TypeOK, sending, Byte
  <2>8. CASE ReadVerify
    <3>1. PICK n \in Reads(Len(FixVerifyCode)) : Consume(n)
      BY <2>8 DEF ReadVerify
    <3>2. n \in 1 .. Len(stream)
      BY <3>1, VerifyCode DEF Reads, Least, TypeOK
    <3>3. stream' \in Seq(Byte) /\ Len(stream') <= Window
      BY <3>1, <3>2, ReadTyped DEF Consume
    <3>4. guessed' \in BOOLEAN /\ receiver' \in {"head", "handing", "aborted"}
      BY <2>8 DEF ReadVerify, Accept, TypeOK
    <3> QED
      BY <2>8, <3>3, <3>4
      DEF ReadVerify, TypeOK, ReceiverStates, Handing, sending
  <2>9. CASE ReadEnd
    <3>1. /\ guessed' \in BOOLEAN
          /\ receiver' \in {"closed", "aborted", "handing_last"}
      BY <2>9 DEF ReadEnd, TypeOK
    <3>2. <<>> \in Seq(Byte) /\ Len(<<>>) <= Window
      BY EmptySeq, MessageStreamAssumption
    <3> QED
      BY <2>9, <3>1, <3>2 DEF ReadEnd, TypeOK, ReceiverStates, Handing, sending
  <2>11. CASE GetMessage
    <3>1. delivered \in Seq(Seq(Byte)) /\ data \in Seq(Byte) /\ <<>> \in Seq(Byte)
      BY EmptySeq DEF TypeOK
    <3>2. delivered' \in Seq(Seq(Byte))
      BY <2>11, <3>1, AppendProperties DEF GetMessage
    <3>3. receiver' \in {"head", "closed"} /\ data' = <<>>
      BY <2>11 DEF GetMessage
    <3> QED
      BY <2>11, <3>1, <3>2, <3>3 DEF GetMessage, TypeOK, ReceiverStates, sending
  <2>10. CASE UNCHANGED vars
    BY <2>10 DEF TypeOK, vars, sending, receiving
  <2> QED
    BY <2>1, <2>2, <2>3, <2>4, <2>5, <2>6, <2>7, <2>8, <2>9, <2>10, <2>11
    DEF Next, Receive, Finished
<1> QED
  BY <1>1, <1>2, PTL DEF Spec
-----------------------------------------------------------------------------
(* Every message in the list has been begun, and only the last of them is  *)
(* in the middle, unless two have been written into one another ...        *)
OnlyLastOpen ==
  /\ \A s \in Senders : (\E i \in DOMAIN order : order[i] = s) => Written(s) > 0
  /\ ~torn => \A s \in Senders :
                InTheMiddle(s) => order # <<>> /\ s = order[Len(order)]

(* ... what is still to be written of a message is the end of it ...       *)
OutIsRest ==
  \A s \in Senders : sender[s] # "new" =>
    /\ Len(out[s]) <= Len(Encode(s))
    /\ \A i \in 1 .. Len(out[s]) : out[s][i] = Encode(s)[Written(s) + i]

(* ... before connect() there is nothing, and the socket is closed while a *)
(* message is handed over only when its verify code was guessed.           *)
NothingYet ==
  /\ conn = "none" =>
       stream = <<>> /\ order = <<>> /\ receiver = "head" /\ delivered = <<>>
  /\ receiver = "handing_last" => guessed

Begun == OnlyLastOpen /\ OutIsRest /\ NothingYet

LEMMA BegunInit == Init => Begun
<1> SUFFICES ASSUME Init PROVE Begun
  OBVIOUS
<1>1. order = <<>> /\ \A s \in Senders : Written(s) = 0 /\ sender[s] = "new"
  BY DEF Init, Written
<1>2. DOMAIN <<>> = {}
  OBVIOUS
<1> QED
  BY <1>1, <1>2
  DEF Init, Begun, OnlyLastOpen, OutIsRest, NothingYet, InTheMiddle

LEMMA OthersKeepBegun ==
  ASSUME Begun, UNCHANGED sending, NothingYet'
  PROVE  Begun'
BY DEF Begun, OnlyLastOpen, OutIsRest, InTheMiddle, Written, sending

(* What a writev() does to its own message, and to the list.               *)
LEMMA WriteGoesOn ==
  ASSUME TypeOK, Begun, NEW s \in Senders, Write(s)
  PROVE  \E n \in 1 .. Len(out[s]) :
           /\ stream' = stream \o SubSeq(out[s], 1, n)
           /\ out' = [out EXCEPT ![s] = SubSeq(out[s], n + 1, Len(out[s]))]
           /\ sender'[s] # "new" /\ sender[s] # "new"
           /\ \A t \in Senders \ {s} : sender'[t] = sender[t]
           /\ Written(s) \in Nat
           /\ Len(out'[s]) = Len(out[s]) - n
           /\ Written(s)' = Written(s) + n
           /\ \A t \in Senders \ {s} : Written(t)' = Written(t)
<1> DEFINE n == Least(Len(out[s]), Window - Len(stream))
<1>1. /\ out[s] \in Seq(Byte) /\ Len(out[s]) \in Nat /\ Len(stream) \in Nat
      /\ Window \in Nat /\ Len(stream) <= Window
  BY MessageStreamAssumption, LenProperties DEF TypeOK, Byte
<1>2. n \in 1 .. Len(out[s])
  BY <1>1 DEF Write, Least
<1>3. /\ stream' = stream \o SubSeq(out[s], 1, n)
      /\ out' = [out EXCEPT ![s] = SubSeq(out[s], n + 1, Len(out[s]))]
  BY DEF Write, TypeOK
<1>4. /\ sender[s] = "writing" /\ sender'[s] # "new"
      /\ \A t \in Senders \ {s} : sender'[t] = sender[t]
  BY DEF Write, TypeOK
<1> HIDE DEF n
<1>5. /\ out'[s] = SubSeq(out[s], n + 1, Len(out[s]))
      /\ \A t \in Senders \ {s} : out'[t] = out[t]
  BY <1>3 DEF TypeOK
<1>6. Len(out'[s]) = Len(out[s]) - n
  <2>1. n \in 0 .. Len(out[s])
    BY <1>1, <1>2
  <2> QED
    BY <1>1, <1>5, <2>1, Parts
<1>7. Len(Encode(s)) \in Nat /\ Len(out[s]) <= Len(Encode(s))
  BY <1>4, EncodedMessage, LenProperties DEF Begun, OutIsRest
<1>8. Written(s) = Len(Encode(s)) - Len(out[s])
  BY <1>4 DEF Written
<1>9. Written(s)' = Len(Encode(s)) - Len(out'[s])
  BY <1>4 DEF Written
<1>10. Written(s)' = Written(s) + n /\ Written(s) \in Nat
  BY <1>1, <1>2, <1>6, <1>7, <1>8, <1>9
<1>11. \A t \in Senders \ {s} : Written(t)' = Written(t)
  BY <1>4, <1>5 DEF Written
<1> QED
  BY <1>2, <1>3, <1>4, <1>6, <1>10, <1>11

LEMMA WriteKeepsBegun ==
  ASSUME TypeOK, Begun, NEW s \in Senders, Write(s)
  PROVE  Begun'
<1>1. PICK n \in 1 .. Len(out[s]) :
        /\ out' = [out EXCEPT ![s] = SubSeq(out[s], n + 1, Len(out[s]))]
        /\ sender'[s] # "new" /\ sender[s] # "new"
        /\ \A t \in Senders \ {s} : sender'[t] = sender[t]
        /\ Written(s) \in Nat
        /\ Len(out'[s]) = Len(out[s]) - n
        /\ Written(s)' = Written(s) + n
        /\ \A t \in Senders \ {s} : Written(t)' = Written(t)
  BY WriteGoesOn
<1>2. /\ out[s] \in Seq(Byte) /\ Len(out[s]) \in Nat
      /\ n \in 0 .. Len(out[s]) /\ n \in Nat /\ n > 0
      /\ order \in Seq(Senders)
  BY <1>1, LenProperties DEF TypeOK, Byte
<1>3. /\ out'[s] = SubSeq(out[s], n + 1, Len(out[s]))
      /\ \A t \in Senders \ {s} : out'[t] = out[t]
  BY <1>1 DEF TypeOK
<1>4. NothingYet'
  BY DEF Write, Begun, NothingYet, receiving
<1>5. OutIsRest'
  <2> SUFFICES ASSUME NEW t \in Senders, sender'[t] # "new"
               PROVE  /\ Len(out'[t]) <= Len(Encode(t))
                      /\ \A i \in 1 .. Len(out'[t]) :
                           out'[t][i] = Encode(t)[Written(t)' + i]
    BY DEF OutIsRest
  <2>1. CASE t # s
    <3>1. /\ out'[t] = out[t] /\ sender[t] # "new" /\ Written(t)' = Written(t)
      BY <1>1, <1>3, <2>1
    <3>2. /\ Len(out[t]) <= Len(Encode(t))
          /\ \A i \in 1 .. Len(out[t]) : out[t][i] = Encode(t)[Written(t) + i]
      BY <3>1 DEF Begun, OutIsRest
    <3> QED
      BY <3>1, <3>2, Zenon
  <2>2. CASE t = s
    <3>1. /\ Len(out[s]) <= Len(Encode(s)) /\ Len(Encode(s)) \in Nat
          /\ \A i \in 1 .. Len(out[s]) : out[s][i] = Encode(s)[Written(s) + i]
      BY <1>1, EncodedMessage, LenProperties DEF Begun, OutIsRest
    <3>2. \A i \in 1 .. Len(out[s]) - n : out'[s][i] = out[s][n + i]
      <4>1. out[s] \in Seq(Byte) /\ n \in 0 .. Len(out[s])
        BY <1>2
      <4>2. \A i \in 1 .. Len(out[s]) - n :
              SubSeq(out[s], n + 1, Len(out[s]))[i] = out[s][n + i]
        BY <4>1, Parts
      <4> QED
        BY <1>3, <4>2
    <3>3. ASSUME NEW i \in 1 .. Len(out'[s])
          PROVE  out'[s][i] = Encode(s)[Written(s)' + i]
      <4>1. n + i \in 1 .. Len(out[s]) /\ out'[s][i] = out[s][n + i]
        BY <1>1, <1>2, <3>2
      <4>2. Written(s) + (n + i) = Written(s)' + i
        BY <1>1, <1>2
      <4> QED
        BY <3>1, <4>1, <4>2
    <3> QED
      BY <1>1, <1>2, <2>2, <3>1, <3>3
  <2> QED
    BY <2>1, <2>2
<1>6. ASSUME NEW t \in Senders, \E i \in DOMAIN order' : order'[i] = t
      PROVE  Written(t)' > 0
  <2>1. Written(s)' > 0
    BY <1>1, <1>2
  <2>2. t # s => \E i \in DOMAIN order : order[i] = t
    BY <1>2, <1>6 DEF Write
  <2> QED
    BY <1>1, <2>1, <2>2 DEF Begun, OnlyLastOpen
<1>7. ASSUME ~torn', NEW t \in Senders, InTheMiddle(t)'
      PROVE  order' # <<>> /\ t = order'[Len(order')]
  <2>1. ~torn /\ \A u \in Senders \ {s} : ~InTheMiddle(u)
    BY <1>7 DEF Write, TypeOK
  <2>2. t = s
    BY <1>1, <1>3, <1>7, <2>1 DEF InTheMiddle
  <2>3. CASE Written(s) = 0
    <3>1. order' = Append(order, s)
      BY <2>3 DEF Write
    <3> QED
      BY <1>2, <2>2, <3>1
  <2>4. CASE Written(s) # 0
    <3>1. order' = order /\ Written(s) > 0
      BY <1>1, <2>4 DEF Write
    <3>2. out[s] # <<>>
      BY <1>2
    <3> QED
      BY <2>1, <2>2, <3>1, <3>2 DEF Begun, OnlyLastOpen, InTheMiddle
  <2> QED
    BY <2>3, <2>4
<1>8. OnlyLastOpen'
  BY <1>6, <1>7 DEF OnlyLastOpen
<1> QED
  BY <1>4, <1>5, <1>8 DEF Begun

LEMMA BeginKeepsBegun ==
  ASSUME TypeOK, Begun, NEW s \in Senders, Begin(s)
  PROVE  Begun'
<1>1. /\ sender[s] = "new" /\ sender'[s] = "writing" /\ out'[s] = Encode(s)
      /\ \A t \in Senders \ {s} : sender'[t] = sender[t] /\ out'[t] = out[t]
      /\ UNCHANGED <<conn, stream, order, torn, receiver, delivered, guessed>>
  BY DEF Begin, TypeOK, receiving
<1>2. Len(Encode(s)) \in Nat
  BY EncodedMessage, LenProperties
<1>3. Written(s) = 0 /\ Written(s)' = 0
  BY <1>1, <1>2 DEF Written
<1>4. \A t \in Senders \ {s} : Written(t)' = Written(t)
  BY <1>1 DEF Written
<1>5. OutIsRest'
  BY <1>1, <1>2, <1>3, <1>4 DEF Begun, OutIsRest
<1>6. \A t \in Senders :
        (\E i \in DOMAIN order : order[i] = t) => t # s /\ Written(t) > 0
  BY <1>3 DEF Begun, OnlyLastOpen
<1>7. OnlyLastOpen'
  BY <1>1, <1>3, <1>4, <1>6 DEF Begun, OnlyLastOpen, InTheMiddle
<1> QED
  BY <1>1, <1>5, <1>7 DEF Begun, NothingYet

LEMMA NextBegun == ASSUME TypeOK, Begun, [Next]_vars PROVE Begun'
<1>1. CASE Connect \/ ConnectionEnds \/ UNCHANGED vars
  <2>1. NothingYet'
    BY <1>1 DEF Connect, ConnectionEnds, Begun, NothingYet, vars, sending, receiving
  <2> QED
    BY <1>1, <2>1, OthersKeepBegun DEF Connect, ConnectionEnds, vars
<1>2. ASSUME NEW s \in Senders, Interrupted(s)
      PROVE  Begun'
  <2>1. /\ UNCHANGED <<conn, stream, out, order, torn, receiver, delivered, guessed>>
        /\ \A t \in Senders : sender'[t] = "new" <=> sender[t] = "new"
    BY <1>2 DEF Interrupted, TypeOK, receiving
  <2>2. \A t \in Senders : Written(t)' = Written(t)
    BY <2>1 DEF Written
  <2> QED
    BY <2>1, <2>2
    DEF Begun, OnlyLastOpen, OutIsRest, NothingYet, InTheMiddle
<1>3. CASE Receive \/ GetMessage
  <2>1. Len(<<>>) = 0
    BY EmptySeq
  <2>2. ASSUME ReadHead
        PROVE  NothingYet'
    <3>1. /\ \E n \in Reads(HeadSize) : TRUE
          /\ \E t, size : Dispatch(t, size)
      BY <2>2 DEF ReadHead
    <3>2. conn # "none"
      <4> SUFFICES ASSUME conn = "none" PROVE FALSE
        OBVIOUS
      <4>1. Len(stream) = 0
        BY <2>1 DEF Begun, NothingYet
      <4> QED
        BY <3>1, <4>1 DEF Reads, Least, HeadSize
    <3>3. receiver' # "handing_last"
      BY <3>1 DEF Dispatch
    <3>4. conn' = conn
      BY <2>2 DEF ReadHead
    <3> QED
      BY <3>2, <3>3, <3>4 DEF NothingYet
  <2>3. ASSUME ReadContent \/ ReadVerify
        PROVE  NothingYet'
    <3>1. /\ conn' = conn /\ receiver # "head"
          /\ receiver' \in {"head", "content", "verify", "handing", "aborted"}
      BY <2>3 DEF ReadContent, ReadVerify, Accept
    <3> QED
      BY <3>1 DEF Begun, NothingYet
  <2>4. ASSUME ReadEnd \/ GetMessage
        PROVE  NothingYet'
    <3>1. /\ conn' = conn /\ (receiver # "head" \/ conn = "ended")
          /\ receiver' = "handing_last" => guessed'
      BY <2>4 DEF ReadEnd, GetMessage, Handing
    <3> QED
      BY <3>1 DEF Begun, NothingYet
  <2>5. NothingYet'
    BY <1>3, <2>2, <2>3, <2>4 DEF Receive
  <2> QED
    BY <1>3, <2>5, OthersKeepBegun
    DEF Receive, ReadHead, ReadContent, ReadVerify, ReadEnd, GetMessage
<1> QED
  BY <1>1, <1>2, <1>3, WriteKeepsBegun, BeginKeepsBegun DEF Next, Finished
-----------------------------------------------------------------------------
(* What was sent on the connection, from the rank report on.               *)
Item(list, k) == IF k = 0 THEN RankReport ELSE Encode(list[k])

Starts(list) == [0 .. Len(list) + 1 -> Int]

(* Each item starts where the one before it ends.  A start is counted from *)
(* the first byte that has not been read: start[k] is below 1 for one that *)
(* has been read, all of it or a part.  What is in the connection is where *)
(* it belongs.                                                             *)
Laid(start, list, bytes) ==
  /\ \A k \in 0 .. Len(list) : start[k + 1] = start[k] + Len(Item(list, k))
  /\ \A j, k \in 0 .. Len(list) + 1 : j <= k => start[j] <= start[k]
  /\ \A k \in 0 .. Len(list) : \A p \in 1 .. Len(bytes) :
       start[k] <= p /\ p < start[k + 1]
         => bytes[p] = Item(list, k)[p - start[k] + 1]

LEMMA ItemTyped ==
  ASSUME NEW list \in Seq(Senders), NEW k \in 0 .. Len(list)
  PROVE  /\ Item(list, k) \in Seq(Byte)
         /\ Len(Item(list, k)) \in Nat /\ Len(Item(list, k)) >= 12
<1>1. CASE k = 0
  <2>1. Item(list, k) = RankReport
    BY <1>1 DEF Item
  <2> QED
    BY <2>1, EncodedReport
<1>2. CASE k # 0
  <2>1. Len(list) \in Nat
    BY LenProperties
  <2>2. k \in 1 .. Len(list)
    BY <1>2, <2>1
  <2>3. list[k] \in Senders
    BY <2>2, ElementOfSeq
  <2>4. PICK s \in Senders : s = list[k]
    BY <2>3
  <2>5. /\ Encode(s) \in Seq(Byte) /\ Len(Contents[s]) \in Nat
        /\ Len(Encode(s)) = Len(Contents[s]) + 12
    BY EncodedMessage
  <2>6. Item(list, k) = Encode(s)
    BY <1>2, <2>4 DEF Item
  <2> QED
    BY <2>5, <2>6
<1> QED
  BY <1>1, <1>2

(* When bytes are read all items come nearer.                              *)
LEMMA LaidAfterRead ==
  ASSUME NEW list \in Seq(Senders), NEW bytes \in Seq(Byte),
         NEW start \in Starts(list), Laid(start, list, bytes),
         NEW n \in 0 .. Len(bytes)
  PROVE  \E next \in Starts(list) :
           /\ \A j \in 0 .. Len(list) + 1 : next[j] = start[j] - n
           /\ Laid(next, list, SubSeq(bytes, n + 1, Len(bytes)))
<1> DEFINE rest == SubSeq(bytes, n + 1, Len(bytes))
<1>1. Len(list) \in Nat /\ Len(bytes) \in Nat /\ n \in Nat
  BY LenProperties
<1>2. \A j \in 0 .. Len(list) + 1 : start[j] \in Int
  BY DEF Starts
<1>3. PICK next : next = [j \in 0 .. Len(list) + 1 |-> start[j] - n]
  OBVIOUS
<1>4. /\ next \in Starts(list)
      /\ \A j \in 0 .. Len(list) + 1 : next[j] = start[j] - n
  BY <1>1, <1>2, <1>3 DEF Starts
<1>5. /\ Len(rest) = Len(bytes) - n
      /\ \A p \in 1 .. Len(bytes) - n : rest[p] = bytes[n + p]
  BY Parts
<1> HIDE DEF rest
<1>6. \A k \in 0 .. Len(list) : next[k + 1] = next[k] + Len(Item(list, k))
  <2> SUFFICES ASSUME NEW k \in 0 .. Len(list)
               PROVE  next[k + 1] = next[k] + Len(Item(list, k))
    OBVIOUS
  <2>1. k \in 0 .. Len(list) + 1 /\ k + 1 \in 0 .. Len(list) + 1
    BY <1>1
  <2>2. PICK size : size = Len(Item(list, k))
    OBVIOUS
  <2>3. start[k + 1] = start[k] + size /\ size \in Nat
    BY <2>2, ItemTyped DEF Laid
  <2>4. /\ next[k] = start[k] - n /\ next[k + 1] = start[k + 1] - n
        /\ start[k] \in Int /\ start[k + 1] \in Int
    BY <1>2, <1>4, <2>1
  <2>5. next[k + 1] = next[k] + size
    BY <1>1, <2>3, <2>4
  <2> QED
    BY <2>2, <2>5
<1>7. ASSUME NEW j \in 0 .. Len(list) + 1, NEW k \in 0 .. Len(list) + 1, j <= k
      PROVE  next[j] <= next[k]
  <2>1. start[j] <= start[k]
    BY <1>7 DEF Laid
  <2>2. /\ next[j] = start[j] - n /\ next[k] = start[k] - n
        /\ start[j] \in Int /\ start[k] \in Int
    BY <1>2, <1>4
  <2> QED
    BY <1>1, <2>1, <2>2
<1>8. ASSUME NEW k \in 0 .. Len(list), NEW p \in 1 .. Len(rest),
             next[k] <= p, p < next[k + 1]
      PROVE  rest[p] = Item(list, k)[p - next[k] + 1]
  <2>1. k \in 0 .. Len(list) + 1 /\ k + 1 \in 0 .. Len(list) + 1
    BY <1>1
  <2>2. n + p \in 1 .. Len(bytes) /\ rest[p] = bytes[n + p]
    BY <1>1, <1>5
  <2>3. /\ next[k] = start[k] - n /\ next[k + 1] = start[k + 1] - n
        /\ start[k] \in Int /\ start[k + 1] \in Int
    BY <1>2, <1>4, <2>1
  <2>4. /\ start[k] <= n + p /\ n + p < start[k + 1]
        /\ n + p - start[k] + 1 = p - next[k] + 1
    <3>1. PICK a, b, c, d :
            /\ a = start[k] /\ b = start[k + 1]
            /\ c = next[k] /\ d = next[k + 1]
      OBVIOUS
    <3>2. /\ a \in Int /\ b \in Int /\ c = a - n /\ d = b - n
          /\ p \in Int /\ c <= p /\ p < d
      BY <1>8, <2>3, <3>1
    <3>3. a <= n + p /\ n + p < b /\ n + p - a + 1 = p - c + 1
      BY <1>1, <3>2
    <3> QED
      BY <3>1, <3>3
  <2>5. PICK q : q = n + p
    OBVIOUS
  <2>6. bytes[q] = Item(list, k)[q - start[k] + 1]
    <3>1. q \in 1 .. Len(bytes) /\ start[k] <= q /\ q < start[k + 1]
      BY <2>2, <2>4, <2>5
    <3> QED
      BY <3>1 DEF Laid
  <2> QED
    <3>1. q - start[k] + 1 = p - next[k] + 1
      BY <1>1, <1>5, <2>3, <2>4, <2>5
    <3> QED
      BY <2>2, <2>5, <2>6, <3>1
<1> QED
  BY <1>4, <1>6, <1>7, <1>8 DEF Laid, rest

(* When more of the last item is written, from its end on.                 *)
LEMMA LaidAfterMore ==
  ASSUME NEW list \in Seq(Senders), NEW bytes \in Seq(Byte),
         NEW start \in Starts(list), Laid(start, list, bytes),
         NEW rest \in Seq(Byte), Len(rest) <= Len(Item(list, Len(list))),
         \A i \in 1 .. Len(rest) :
           rest[i] = Item(list, Len(list))[Len(Item(list, Len(list))) - Len(rest) + i],
         Len(bytes) + 1 = start[Len(list) + 1] - Len(rest),
         NEW n \in 1 .. Len(rest)
  PROVE  Laid(start, list, bytes \o SubSeq(rest, 1, n))
<1> DEFINE last == Len(list)
           part == SubSeq(rest, 1, n)
           all == bytes \o part
<1>1. last \in Nat /\ Len(bytes) \in Nat /\ Len(rest) \in Nat /\ n \in 0 .. Len(rest)
  BY LenProperties
<1>2. \A j \in 0 .. last + 1 : start[j] \in Int
  BY DEF Starts
<1>3. /\ part \in Seq(Byte) /\ Len(part) = n
      /\ \A i \in 1 .. n : part[i] = rest[i]
  BY <1>1, Parts
<1> HIDE DEF part
<1>4. /\ Len(all) = Len(bytes) + Len(part)
      /\ \A p \in 1 .. Len(bytes) + Len(part) :
           all[p] = IF p <= Len(bytes) THEN bytes[p] ELSE part[p - Len(bytes)]
  BY <1>3, ConcatProperties
<1> HIDE DEF all
<1>5. ASSUME NEW k \in 0 .. last, NEW p \in 1 .. Len(all),
             start[k] <= p, p < start[k + 1]
      PROVE  all[p] = Item(list, k)[p - start[k] + 1]
  <2>1. k \in 0 .. last + 1 /\ k + 1 \in 0 .. last + 1 /\ last + 1 \in 0 .. last + 1
        /\ last \in 0 .. last
    BY <1>1
  <2>2. CASE p <= Len(bytes)
    <3>1. p \in 1 .. Len(bytes) /\ all[p] = bytes[p]
      BY <1>1, <1>3, <1>4, <2>2
    <3> QED
      BY <1>5, <3>1 DEF Laid
  <2>3. CASE p > Len(bytes)
    <3>1. /\ p - Len(bytes) \in 1 .. n /\ all[p] = part[p - Len(bytes)]
      BY <1>1, <1>3, <1>4, <2>3
    <3>2. all[p] = rest[p - Len(bytes)] /\ p - Len(bytes) \in 1 .. Len(rest)
      BY <1>1, <1>3, <3>1
    <3>3. /\ start[last + 1] = start[last] + Len(Item(list, last))
          /\ Len(Item(list, last)) \in Nat
      BY <2>1, ItemTyped DEF Laid
    <3>4. k = last
      <4>1. ~(k < last)
        <5> SUFFICES ASSUME k < last PROVE FALSE
          OBVIOUS
        <5>1. k + 1 <= last /\ last \in 0 .. last + 1
          BY <1>1
        <5>2. start[k + 1] <= start[last]
          BY <2>1, <5>1 DEF Laid
        <5>3. PICK a, b, c, size :
                /\ a = start[k + 1] /\ b = start[last] /\ c = start[last + 1]
                /\ size = Len(Item(list, last))
          OBVIOUS
        <5>4. a \in Int /\ b \in Int /\ c \in Int /\ size \in Nat
          BY <1>2, <2>1, <3>3, <5>1, <5>3
        <5>5. a <= b /\ c = b + size /\ p < a
          BY <1>5, <3>3, <5>2, <5>3
        <5>6. Len(bytes) + 1 = c - Len(rest) /\ Len(rest) <= size
          BY <5>3
        <5>7. p \in Int /\ p > Len(bytes)
          BY <2>3
        <5> HIDE DEF last
        <5> QED
          BY <1>1, <5>4, <5>5, <5>6, <5>7
      <4> QED
        BY <1>1, <4>1
    <3>5. p - start[k] + 1 = Len(Item(list, last)) - Len(rest) + (p - Len(bytes))
      <4>1. start[last] \in Int /\ start[last + 1] \in Int
        BY <1>2, <2>1
      <4>2. start[k] = Len(bytes) + 1 + Len(rest) - Len(Item(list, last))
        <5>1. Len(bytes) + 1 = start[last + 1] - Len(rest)
          OBVIOUS
        <5>2. PICK size : size = Len(Item(list, last))
          OBVIOUS
        <5>3. PICK a, b : a = start[last] /\ b = start[last + 1]
          OBVIOUS
        <5>4. a \in Int /\ b \in Int /\ size \in Nat /\ b = a + size
          BY <3>3, <4>1, <5>2, <5>3
        <5>5. Len(bytes) + 1 = b - Len(rest)
          BY <5>1, <5>3
        <5>6. a = Len(bytes) + 1 + Len(rest) - size
          BY <1>1, <5>4, <5>5
        <5> QED
          BY <3>4, <5>2, <5>3, <5>6
      <4>3. p \in Int
        OBVIOUS
      <4> HIDE DEF last
      <4> QED
        BY <1>1, <3>3, <4>2, <4>3
    <3> QED
      BY <3>2, <3>4, <3>5
  <2> QED
    BY <1>1, <2>2, <2>3
<1> QED
  BY <1>5 DEF Laid, all, part

(* When an item is begun, behind all others.                               *)
LEMMA LaidAfterBegin ==
  ASSUME NEW list \in Seq(Senders), NEW bytes \in Seq(Byte), NEW s \in Senders,
         NEW start \in Starts(list), Laid(start, list, bytes),
         Len(bytes) + 1 = start[Len(list) + 1]
  PROVE  \E next \in Starts(Append(list, s)) :
           /\ \A j \in 0 .. Len(list) + 1 : next[j] = start[j]
           /\ next[Len(list) + 2] = start[Len(list) + 1] + Len(Encode(s))
           /\ Laid(next, Append(list, s), bytes)
<1> DEFINE last == Len(list) + 1
           new == Append(list, s)
<1>1. Len(list) \in Nat /\ Len(bytes) \in Nat /\ last \in Nat
  BY LenProperties
<1>2. /\ new \in Seq(Senders) /\ Len(new) = last /\ new[last] = s
      /\ \A k \in 1 .. Len(list) : new[k] = list[k]
  BY AppendProperties
<1> HIDE DEF new
<1>3. /\ \A k \in 0 .. Len(list) : Item(new, k) = Item(list, k)
      /\ Item(new, last) = Encode(s)
  BY <1>1, <1>2 DEF Item
<1>4. \A j \in 0 .. last : start[j] \in Int
  BY DEF Starts
<1>5. Len(Encode(s)) \in Nat
  BY EncodedMessage, LenProperties
<1>6. PICK next : next = [j \in 0 .. last + 1 |->
                            IF j <= last THEN start[j] ELSE start[last] + Len(Encode(s))]
  OBVIOUS
<1>7. /\ \A j \in 0 .. last : next[j] = start[j]
      /\ next[last + 1] = start[last] + Len(Encode(s))
      /\ \A j \in 0 .. last + 1 : next[j] \in Int
  BY <1>1, <1>4, <1>5, <1>6
<1>8. next \in Starts(new)
  BY <1>2, <1>6, <1>7 DEF Starts
<1>9. \A k \in 0 .. last : next[k + 1] = next[k] + Len(Item(new, k))
  <2> SUFFICES ASSUME NEW k \in 0 .. last
               PROVE  next[k + 1] = next[k] + Len(Item(new, k))
    OBVIOUS
  <2>1. CASE k = last
    BY <1>1, <1>3, <1>7, <2>1
  <2>2. CASE k # last
    <3>1. k \in 0 .. Len(list) /\ k \in 0 .. last /\ k + 1 \in 0 .. last
      BY <1>1, <2>2
    <3> QED
      BY <1>3, <1>7, <3>1 DEF Laid
  <2> QED
    BY <2>1, <2>2
<1>10. ASSUME NEW j \in 0 .. last + 1, NEW k \in 0 .. last + 1, j <= k
       PROVE  next[j] <= next[k]
  <2>1. CASE k <= last
    <3>1. j \in 0 .. last /\ k \in 0 .. last
      BY <1>1, <1>10, <2>1
    <3> QED
      BY <1>7, <1>10, <3>1 DEF Laid
  <2>2. CASE k = last + 1 /\ j = last + 1
    BY <1>7, <2>2
  <2>3. CASE k = last + 1 /\ j <= last
    <3>1. j \in 0 .. last /\ last \in 0 .. last
      BY <1>1, <2>3
    <3>2. start[j] <= start[last]
      BY <2>3, <3>1 DEF Laid
    <3> QED
      BY <1>4, <1>5, <1>7, <2>3, <3>1, <3>2
  <2> QED
    BY <1>1, <1>10, <2>1, <2>2, <2>3
<1>11. ASSUME NEW k \in 0 .. last, NEW p \in 1 .. Len(bytes),
              next[k] <= p, p < next[k + 1]
       PROVE  bytes[p] = Item(new, k)[p - next[k] + 1]
  <2>1. k # last
    BY <1>1, <1>7, <1>11
  <2>2. k \in 0 .. Len(list) /\ k \in 0 .. last /\ k + 1 \in 0 .. last
    BY <1>1, <2>1
  <2> QED
    BY <1>3, <1>7, <1>11, <2>2 DEF Laid
<1>12. Laid(next, new, bytes)
  BY <1>2, <1>9, <1>10, <1>11 DEF Laid
<1>13. last + 1 = Len(list) + 2
  BY <1>1
<1> QED
  BY <1>7, <1>8, <1>12, <1>13 DEF new
-----------------------------------------------------------------------------
(* What is still to be written of the last message in the list.            *)
Unwritten == IF order = <<>> THEN 0 ELSE Len(out[order[Len(order)]])

(* The connection holds what was sent and has not been read, but for what  *)
(* was lost when it ended.                                                 *)
Placed(start) ==
  /\ Laid(start, order, stream)
  /\ Len(stream) + 1 <= start[Len(order) + 1] - Unwritten
  /\ conn = "open" => Len(stream) + 1 = start[Len(order) + 1] - Unwritten

(* Where the receiver is: before the head of item k ...                    *)
BeforeItem(start, k) ==
  /\ receiver = "head" /\ start[k] = 1
  /\ Len(delivered) = IF k = 0 THEN 0 ELSE k - 1

(* ... in the message k, of which it has read the head and what is in data *)
(* (lag = 0), or all that but the last lag bytes, zeros of its size: it    *)
(* has taken the others for the head ...                                   *)
InMessage(start, k, lag) ==
  /\ receiver \in {"content", "verify"} /\ type = 0
  /\ start[k] = 1 - HeadSize + lag - Len(data)
  /\ Len(delivered) = k - 1
  /\ Len(data) + (IF receiver = "content" THEN remain ELSE 0)
       = Len(Contents[order[k]])
  /\ lag = 0 => \A i \in 1 .. Len(data) : data[i] = Contents[order[k]][i]

(* ... behind the message k, which waits for getMessage() ...              *)
HasMessage(start, k) ==
  /\ receiver = "handing" /\ data = Contents[order[k]]
  /\ start[k + 1] = 1
  /\ Len(delivered) = k - 1

(* ... or in the rank report, after m bytes that it has taken for the head.*)
InReport(start, m) ==
  receiver = "verify" /\ type = 1 /\ delivered = <<>> /\ start[0] = 1 - m

Reading(start) ==
  \/ \E k \in 0 .. Len(order) + 1 : BeforeItem(start, k)
  \/ \E k \in 1 .. Len(order), lag \in 0 .. 3 : InMessage(start, k, lag)
  \/ \E k \in 1 .. Len(order) : HasMessage(start, k)
  \/ \E m \in 1 .. HeadSize : InReport(start, m)

Behaved == ~torn /\ ~guessed /\ SizesFit
InService ==
  conn # "none" /\ receiver \in {"head", "content", "verify", "handing"}

Framed ==
  Behaved /\ InService =>
    \E start \in Starts(order) : Placed(start) /\ Reading(start)

DeliveredSent ==
  Behaved =>
    /\ Len(delivered) <= Len(order)
    /\ \A i \in 1 .. Len(delivered) : delivered[i] = Contents[order[i]]

(* What is excepted stays excepted.                                        *)
LEMMA BehavedBefore ==
  ASSUME TypeOK, Behaved', torn => torn', guessed => guessed', cut => cut',
         order' = order \/ \E s \in Senders : order' = Append(order, s)
  PROVE  Behaved
<1>1. order \in Seq(Senders) /\ Len(order) \in Nat /\ DOMAIN order = 1 .. Len(order)
  BY LenProperties DEF TypeOK
<1>2. \A i \in DOMAIN order : i \in DOMAIN order' /\ order'[i] = order[i]
  <2>1. CASE order' = order
    BY <2>1
  <2>2. ASSUME NEW s \in Senders, order' = Append(order, s)
        PROVE  \A i \in DOMAIN order : i \in DOMAIN order' /\ order'[i] = order[i]
    <3>1. /\ Append(order, s) \in Seq(Senders)
          /\ Len(Append(order, s)) = Len(order) + 1
          /\ \A i \in 1 .. Len(order) : Append(order, s)[i] = order[i]
      BY <1>1, AppendProperties
    <3>2. PICK list : list = Append(order, s)
      OBVIOUS
    <3>3. /\ list \in Seq(Senders) /\ Len(list) = Len(order) + 1
          /\ \A i \in 1 .. Len(order) : list[i] = order[i]
      BY <3>1, <3>2, Zenon
    <3>4. order' = list
      BY <2>2, <3>2, Zenon
    <3>5. DOMAIN list = 1 .. Len(order) + 1
      BY <3>3, LenProperties
    <3> QED
      BY <1>1, <3>3, <3>5, <3>4
  <2> QED
    BY <2>1, <2>2
<1>3. SizesFit
  <2> SUFFICES ASSUME NEW i \in DOMAIN order
               PROVE  Len(Contents[order[i]]) < IF cut THEN SizeBase ELSE SizeLimit
    BY DEF SizesFit
  <2>1. order[i] \in Senders
    BY <1>1, ElementOfSeq
  <2>2. PICK l : l = Len(Contents[order[i]])
    OBVIOUS
  <2>3. l \in Nat
    BY <2>1, <2>2, EncodedMessage
  <2>4. l < IF cut' THEN SizeBase ELSE SizeLimit
    BY <1>2, <2>2 DEF Behaved, SizesFit
  <2>5. l < IF cut THEN SizeBase ELSE SizeLimit
    BY <2>3, <2>4, SizeBounds
  <2> QED
    BY <2>2, <2>5
<1> QED
  BY <1>3 DEF Behaved

LEMMA FramedNow ==
  ASSUME NEW start \in Starts(order'), Placed(start)', Reading(start)'
  PROVE  Framed'
BY DEF Framed

LEMMA DeliveredIntact ==
  ASSUME TypeOK, DeliveredSent
  PROVE  MessagesIntact
<1> SUFFICES ASSUME Behaved
             PROVE  IsPrefix(delivered, [i \in DOMAIN order |-> Contents[order[i]]])
  BY DEF MessagesIntact, Behaved
<1> DEFINE sent == [i \in DOMAIN order |-> Contents[order[i]]]
<1>1. /\ delivered \in Seq(Seq(Byte)) /\ order \in Seq(Senders)
      /\ Len(delivered) \in Nat /\ Len(order) \in Nat
      /\ DOMAIN order = 1 .. Len(order)
  BY LenProperties DEF TypeOK, Byte
<1>2. Len(delivered) <= Len(order)
  BY DEF DeliveredSent
<1>3. \A i \in 1 .. Len(order) : Contents[order[i]] \in Seq(Byte)
  BY <1>1, ElementOfSeq, EncodedMessage
<1>4. /\ sent \in Seq(Seq(Byte)) /\ Len(sent) = Len(order)
      /\ \A i \in 1 .. Len(order) : sent[i] = Contents[order[i]]
  BY <1>1, <1>3
<1> HIDE DEF sent
<1>5. Len(delivered) \in 0 .. Len(sent) /\ Len(delivered) \in 0 .. Len(delivered)
  BY <1>1, <1>2, <1>4
<1> DEFINE a == SubSeq(delivered, 1, Len(delivered))
           b == SubSeq(sent, 1, Len(delivered))
<1>6. /\ a \in Seq(Seq(Byte)) /\ Len(a) = Len(delivered)
      /\ \A i \in 1 .. Len(delivered) : a[i] = delivered[i]
  BY <1>1, <1>5, Parts
<1>7. /\ b \in Seq(Seq(Byte)) /\ Len(b) = Len(delivered)
      /\ \A i \in 1 .. Len(delivered) : b[i] = sent[i]
  BY <1>4, <1>5, Parts
<1> HIDE DEF a, b
<1>8. \A i \in 1 .. Len(delivered) : a[i] = b[i]
  <2> SUFFICES ASSUME NEW i \in 1 .. Len(delivered)
               PROVE  a[i] = b[i]
    OBVIOUS
  <2>1. i \in 1 .. Len(order)
    BY <1>1, <1>2
  <2>2. delivered[i] = Contents[order[i]]
    BY DEF DeliveredSent
  <2> QED
    BY <1>4, <1>6, <1>7, <2>1, <2>2
<1>9. a = b
  BY <1>6, <1>7, <1>8, SeqEqual
<1> QED
  BY <1>1, <1>2, <1>4, <1>9 DEF IsPrefix, a, b, sent

(* Steps at which nothing is written and nothing read.                     *)
LEMMA QuietKeepsFramed ==
  ASSUME Framed, Unwritten' = Unwritten, conn' = conn \/ conn = "open",
         UNCHANGED <<stream, order, torn, receiving>>,
         conn' = conn \/ conn' = "ended"
  PROVE  Framed'
BY DEF Framed, Behaved, SizesFit, InService, Placed, Reading, BeforeItem,
       InMessage, HasMessage, InReport, receiving

LEMMA UnwrittenTyped ==
  ASSUME TypeOK
  PROVE  Unwritten \in Nat
<1>1. CASE order = <<>>
  BY <1>1 DEF Unwritten
<1>2. CASE order # <<>>
  <2>1. order \in Seq(Senders) /\ Len(order) \in 1 .. Len(order)
    BY <1>2, EmptySeq, LenProperties DEF TypeOK
  <2>2. order[Len(order)] \in Senders
    BY <2>1, ElementOfSeq
  <2> QED
    BY <1>2, <2>2, LenProperties DEF Unwritten, TypeOK
<1> QED
  BY <1>1, <1>2

(* The rank report is the first item.                                      *)
LEMMA ConnectFrames ==
  ASSUME TypeOK, Begun, Connect
  PROVE  Framed'
<1>1. /\ order = <<>> /\ receiver = "head" /\ delivered = <<>>
      /\ UNCHANGED <<order, receiver, delivered>>
  BY DEF Connect, Begun, NothingYet, sending, receiving
<1>2. Len(<<>>) = 0 /\ <<>> \in Seq(Senders)
  BY EmptySeq
<1>3. /\ stream' \in Seq(Byte) /\ Len(stream') \in Nat /\ Len(stream') <= 12
      /\ \A i \in 1 .. Len(stream') : stream'[i] = RankReport[i]
      /\ conn' = "open" => Len(stream') = 12
  <2>1. CASE stream' = RankReport
    BY <2>1, EncodedReport
  <2>2. CASE stream' \in Prefixes(RankReport) /\ conn' = "ended"
    <3>1. stream' \in Seq(Byte)
      BY <2>2, EncodedReport, PrefixTyped
    <3>2. Len(stream') \in Nat
      BY <3>1, LenProperties
    <3>3. RankReport \in Seq(Byte)
      BY EncodedReport
    <3>4. /\ Len(stream') <= Len(RankReport)
          /\ \A i \in 1 .. Len(stream') : stream'[i] = RankReport[i]
      BY <2>2, <3>3, PrefixTyped
    <3>5. Len(RankReport) = 12
      BY EncodedReport
    <3> QED
      BY <2>2, <3>1, <3>2, <3>4, <3>5
  <2> QED
    BY <2>1, <2>2 DEF Connect
<1>4. PICK start : start = [j \in 0 .. 1 |-> IF j = 0 THEN 1 ELSE 13]
  OBVIOUS
<1>5. start[0] = 1 /\ start[1] = 13 /\ start \in [0 .. 1 -> Int]
  BY <1>4
<1>6. Laid(start, order', stream')
  <2>1. Item(order', 0) = RankReport /\ Len(RankReport) = 12 /\ Len(order') = 0
    BY <1>1, <1>2, EncodedReport DEF Item
  <2>2. \A k \in 0 .. Len(order') : k = 0
    BY <2>1
  <2>3. \A j \in 0 .. Len(order') + 1 : j = 0 \/ j = 1
    BY <2>1
  <2>4. \A j, k \in 0 .. Len(order') + 1 : j <= k => start[j] <= start[k]
    BY <1>5, <2>3
  <2>5. start[0 + 1] = start[0] + Len(Item(order', 0))
    <3>1. start[0 + 1] = 13 /\ start[0] = 1
      BY <1>5
    <3>2. 13 = 1 + Len(Item(order', 0))
      <4>1. 13 = 1 + 12
        OBVIOUS
      <4> QED
        BY <2>1, <4>1, Zenon
    <3> QED
      BY <3>1, <3>2, Zenon
  <2>6. ASSUME NEW p \in 1 .. Len(stream')
        PROVE  stream'[p] = Item(order', 0)[p - start[0] + 1]
    <3>1. p - start[0] + 1 = p
      BY <1>3, <1>5
    <3> QED
      BY <1>3, <2>1, <3>1
  <2> QED
    BY <2>2, <2>4, <2>5, <2>6 DEF Laid
<1>7. Placed(start)'
  <2>1. Unwritten' = 0 /\ Len(order') + 1 = 1
    BY <1>1, <1>2 DEF Unwritten
  <2>2. /\ Len(stream') + 1 <= start[Len(order') + 1] - Unwritten'
        /\ conn' = "open" => Len(stream') + 1 = start[Len(order') + 1] - Unwritten'
    <3>1. start[Len(order') + 1] = 13
      BY <1>5, <2>1
    <3>2. start[Len(order') + 1] - Unwritten' = 13
      BY <2>1, <3>1
    <3>3. /\ Len(stream') + 1 <= 13
          /\ conn' = "open" => Len(stream') + 1 = 13
      <4>1. PICK l : l = Len(stream')
        OBVIOUS
      <4>2. l \in Nat /\ l <= 12 /\ (conn' = "open" => l = 12)
        BY <1>3, <4>1, Zenon
      <4>3. l + 1 <= 13 /\ (conn' = "open" => l + 1 = 13)
        BY <4>2
      <4> QED
        BY <4>1, <4>3, Zenon
    <3> QED
      BY <3>2, <3>3, Zenon
  <2> QED
    BY <1>6, <2>2 DEF Placed
<1>8. Reading(start)'
  <2>1. BeforeItem(start, 0)'
    BY <1>1, <1>2, <1>5 DEF BeforeItem
  <2>2. 0 \in 0 .. Len(order') + 1
    BY <1>1, <1>2
  <2> QED
    BY <2>1, <2>2 DEF Reading
<1>9. start \in Starts(order')
  BY <1>1, <1>2, <1>5 DEF Starts
<1> QED
  BY <1>7, <1>8, <1>9, FramedNow

(* Bytes of the last item in the list are written behind what there is.    *)
LEMMA WritePlaces ==
  ASSUME TypeOK, Begun, NEW s \in Senders, Write(s),
         order' \in Seq(Senders), order' # <<>>, order'[Len(order')] = s,
         NEW start \in Starts(order'), Laid(start, order', stream),
         Len(stream) + 1 = start[Len(order') + 1] - Len(out[s])
  PROVE  Placed(start)'
<1> DEFINE list == order'
           rest == out[s]
<1>1. PICK n \in 1 .. Len(rest) :
        /\ stream' = stream \o SubSeq(rest, 1, n)
        /\ sender[s] # "new"
        /\ Len(out'[s]) = Len(rest) - n
  BY WriteGoesOn
<1>2. /\ rest \in Seq(Byte) /\ Len(rest) \in Nat
      /\ stream \in Seq(Byte) /\ Len(stream) \in Nat
      /\ list \in Seq(Senders) /\ Len(list) \in Nat /\ n \in Nat
  BY LenProperties DEF TypeOK, Byte
<1>3. Len(list) # 0 /\ Len(list) \in 1 .. Len(list)
  BY <1>2, EmptySeq
<1>4. Item(list, Len(list)) = Encode(s)
  BY <1>3 DEF Item
<1>5. /\ Len(rest) <= Len(Encode(s)) /\ Len(Encode(s)) \in Nat
      /\ \A i \in 1 .. Len(rest) : rest[i] = Encode(s)[Written(s) + i]
  <2>1. Len(Encode(s)) \in Nat
    BY EncodedMessage, LenProperties
  <2> QED
    BY <1>1, <2>1 DEF Begun, OutIsRest
<1>6. Written(s) = Len(Encode(s)) - Len(rest)
  BY <1>1 DEF Written
<1> HIDE DEF list, rest
<1>7. /\ Laid(start, list, stream) /\ start \in Starts(list)
      /\ Len(stream) + 1 = start[Len(list) + 1] - Len(rest)
  BY DEF list, rest
<1>8. /\ Len(rest) <= Len(Item(list, Len(list)))
      /\ \A i \in 1 .. Len(rest) :
           rest[i] = Item(list, Len(list))[Len(Item(list, Len(list))) - Len(rest) + i]
  BY <1>4, <1>5, <1>6
<1>9. Laid(start, list, stream')
  BY <1>1, <1>2, <1>7, <1>8, LaidAfterMore
<1>10. Len(stream') = Len(stream) + n
  <2>1. n \in 0 .. Len(rest)
    BY <1>2
  <2>2. SubSeq(rest, 1, n) \in Seq(Byte) /\ Len(SubSeq(rest, 1, n)) = n
    BY <1>2, <2>1, Parts
  <2> QED
    BY <1>1, <1>2, <2>2, ConcatProperties
<1>11. Unwritten' = Len(rest) - n
  BY <1>1 DEF Unwritten, rest
<1>12. PICK end, left : end = start[Len(list) + 1] /\ left = Unwritten'
  OBVIOUS
<1>13. /\ Len(stream') + 1 = end - left
       /\ Len(stream') + 1 <= end - left
  <2>1. Len(list) + 1 \in 0 .. Len(list) + 1
    BY <1>2
  <2>2. end \in Int
    BY <1>7, <1>12, <2>1 DEF Starts
  <2>3. PICK l, m, r : l = Len(stream) /\ m = Len(stream') /\ r = Len(rest)
    OBVIOUS
  <2>4. l \in Nat /\ r \in Nat /\ n \in Nat
    BY <1>2, <2>3, Zenon
  <2>5. l + 1 = end - r /\ left = r - n /\ m = l + n
    BY <1>7, <1>10, <1>11, <1>12, <2>3, Zenon
  <2>6. m + 1 = end - left /\ m + 1 <= end - left
    BY <2>2, <2>4, <2>5
  <2> QED
    BY <2>3, <2>6, Zenon
<1>14. /\ Len(stream') + 1 = start[Len(list) + 1] - Unwritten'
       /\ Len(stream') + 1 <= start[Len(list) + 1] - Unwritten'
  BY <1>12, <1>13
<1> QED
  BY <1>9, <1>14 DEF Placed, list

LEMMA WriteKeepsFramed ==
  ASSUME TypeOK, Begun, Framed, NEW s \in Senders, Write(s)
  PROVE  Framed'
<1> SUFFICES ASSUME Behaved', InService'
             PROVE  Framed'
  BY DEF Framed
<1>1. /\ conn = "open" /\ conn' = conn
      /\ UNCHANGED <<receiver, type, remain, data, delivered, guessed, cut>>
      /\ ~torn /\ \A t \in Senders \ {s} : ~InTheMiddle(t)
      /\ order' = IF Written(s) = 0 THEN Append(order, s) ELSE order
  BY DEF Write, receiving, Behaved, TypeOK
<1>2. Behaved /\ InService
  BY <1>1, BehavedBefore DEF InService
<1>3. PICK start \in Starts(order) : Placed(start) /\ Reading(start)
  BY <1>2 DEF Framed
<1>4. /\ Written(s) \in Nat /\ sender[s] # "new" /\ Len(out[s]) # 0
      /\ Len(out[s]) \in Nat
  <2>1. Len(out[s]) \in Nat
    BY LenProperties DEF TypeOK
  <2> QED
    BY <2>1, WriteGoesOn
<1>5. /\ order \in Seq(Senders) /\ Len(order) \in Nat /\ stream \in Seq(Byte)
      /\ Len(stream) \in Nat
  BY LenProperties DEF TypeOK, Byte
<1>6. /\ Laid(start, order, stream)
      /\ Len(stream) + 1 = start[Len(order) + 1] - Unwritten
      /\ start[Len(order) + 1] \in Int
  <2>1. Len(order) + 1 \in 0 .. Len(order) + 1
    BY <1>5
  <2>2. start[Len(order) + 1] \in Int
    BY <1>3, <2>1 DEF Starts
  <2> QED
    BY <1>1, <1>3, <2>2 DEF Placed
<1>7. CASE Written(s) = 0
  <2>1. order' = Append(order, s)
    BY <1>1, <1>7
  <2>2. Unwritten = 0
    <3>1. CASE order = <<>>
      BY <3>1 DEF Unwritten
    <3>2. CASE order # <<>>
      <4>1. Len(order) \in 1 .. Len(order)
        BY <1>5, <3>2, EmptySeq
      <4>2. PICK t \in Senders : t = order[Len(order)]
        BY <1>5, <4>1, ElementOfSeq
      <4>3. Written(t) > 0
        BY <1>5, <4>1, <4>2, LenProperties DEF Begun, OnlyLastOpen
      <4>4. t # s
        BY <1>7, <4>3
      <4>5. out[t] = <<>>
        BY <1>1, <4>3, <4>4 DEF InTheMiddle
      <4> QED
        BY <3>2, <4>2, <4>5, EmptySeq DEF Unwritten
    <3> QED
      BY <3>1, <3>2
  <2>3. Len(stream) + 1 = start[Len(order) + 1]
    BY <1>5, <1>6, <2>2
  <2>4. PICK next \in Starts(order') :
          /\ \A j \in 0 .. Len(order) + 1 : next[j] = start[j]
          /\ next[Len(order) + 2] = start[Len(order) + 1] + Len(Encode(s))
          /\ Laid(next, order', stream)
    BY <1>3, <1>5, <1>6, <2>1, <2>3, LaidAfterBegin
  <2>5. /\ order' \in Seq(Senders) /\ order' # <<>> /\ Len(order') = Len(order) + 1
        /\ order'[Len(order) + 1] = s
        /\ \A k \in 1 .. Len(order) : order'[k] = order[k]
    BY <1>5, <2>1, AppendProperties
  <2>6. Len(out[s]) = Len(Encode(s)) /\ Len(Encode(s)) \in Nat
    <3>1. Len(Encode(s)) \in Nat
      BY EncodedMessage, LenProperties
    <3>2. Len(Encode(s)) - Len(out[s]) = 0
      BY <1>4, <1>7 DEF Written
    <3> QED
      BY <1>4, <3>1, <3>2
  <2>7. Len(stream) + 1 = next[Len(order') + 1] - Len(out[s])
    <3>1. Len(order') + 1 = Len(order) + 2
      BY <1>5, <2>5
    <3> QED
      BY <1>5, <1>6, <2>3, <2>4, <2>6, <3>1
  <2>8. Placed(next)'
    BY <2>4, <2>5, <2>7, WritePlaces
  <2>9. Reading(next)'
    <3>1. ASSUME NEW k \in 0 .. Len(order) + 1, BeforeItem(start, k)
          PROVE  Reading(next)'
      <4>1. BeforeItem(next, k)' /\ k \in 0 .. Len(order') + 1
        BY <1>1, <1>5, <2>4, <2>5, <3>1 DEF BeforeItem
      <4> QED
        BY <4>1 DEF Reading
    <3>2. ASSUME NEW k \in 1 .. Len(order), NEW lag \in 0 .. 3,
                 InMessage(start, k, lag)
          PROVE  Reading(next)'
      <4>1. k \in 0 .. Len(order) + 1 /\ k \in 1 .. Len(order')
        BY <1>5, <2>5
      <4>2. InMessage(next, k, lag)'
        BY <1>1, <2>4, <2>5, <3>2, <4>1 DEF InMessage
      <4> QED
        BY <4>1, <4>2 DEF Reading
    <3>3. ASSUME NEW m \in 1 .. HeadSize, InReport(start, m)
          PROVE  Reading(next)'
      <4>1. 0 \in 0 .. Len(order) + 1
        BY <1>5
      <4>2. InReport(next, m)'
        BY <1>1, <2>4, <3>3, <4>1 DEF InReport
      <4> QED
        BY <4>2 DEF Reading
    <3>4. ASSUME NEW k \in 1 .. Len(order), HasMessage(start, k)
          PROVE  Reading(next)'
      <4>1. k + 1 \in 0 .. Len(order) + 1 /\ k \in 1 .. Len(order')
        BY <1>5, <2>5
      <4>2. HasMessage(next, k)'
        BY <1>1, <2>4, <2>5, <3>4, <4>1 DEF HasMessage
      <4> QED
        BY <4>1, <4>2 DEF Reading
    <3> QED
      BY <1>3, <3>1, <3>2, <3>3, <3>4 DEF Reading
  <2> QED
    BY <2>8, <2>9, FramedNow
<1>8. CASE Written(s) # 0
  <2>1. order' = order
    BY <1>1, <1>8
  <2>2. InTheMiddle(s)
    <3>1. out[s] # <<>>
      BY <1>4, EmptySeq
    <3> QED
      BY <1>4, <1>8, <3>1 DEF InTheMiddle
  <2>3. order # <<>> /\ order[Len(order)] = s
    BY <1>1, <2>2 DEF Begun, OnlyLastOpen
  <2>4. Unwritten = Len(out[s])
    BY <2>3 DEF Unwritten
  <2>5. Placed(start)'
    BY <1>3, <1>5, <1>6, <2>1, <2>3, <2>4, WritePlaces
  <2>6. Reading(start)'
    <3>1. \A k \in 0 .. Len(order) + 1 :
            BeforeItem(start, k) => BeforeItem(start, k)'
      BY <1>1, <2>1 DEF BeforeItem
    <3>2. \A k \in 1 .. Len(order), lag \in 0 .. 3 :
            InMessage(start, k, lag) => InMessage(start, k, lag)'
      BY <1>1, <2>1 DEF InMessage
    <3>3. \A k \in 1 .. Len(order) : HasMessage(start, k) => HasMessage(start, k)'
      BY <1>1, <2>1 DEF HasMessage
    <3>4. \A m \in 1 .. HeadSize : InReport(start, m) => InReport(start, m)'
      BY <1>1, <2>1 DEF InReport
    <3> QED
      BY <1>3, <2>1, <3>1, <3>2, <3>3, <3>4 DEF Reading
  <2> QED
    BY <1>3, <2>1, <2>5, <2>6, FramedNow
<1> QED
  BY <1>7, <1>8

(* After a read() what is left is still where it belongs.                  *)
LEMMA ReadPlaces ==
  ASSUME TypeOK, NEW start \in Starts(order), Placed(start),
         NEW n \in 1 .. Len(stream), Consume(n), UNCHANGED <<conn, sending>>
  PROVE  \E next \in Starts(order') :
           /\ \A j \in 0 .. Len(order) + 1 : next[j] = start[j] - n
           /\ Placed(next)'
<1>1. /\ order \in Seq(Senders) /\ Len(order) \in Nat /\ stream \in Seq(Byte)
      /\ Len(stream) \in Nat /\ n \in 0 .. Len(stream) /\ n \in Nat
  BY LenProperties DEF TypeOK, Byte
<1>2. /\ stream' = SubSeq(stream, n + 1, Len(stream))
      /\ UNCHANGED <<conn, out, order>>
  BY DEF Consume, sending
<1>3. PICK next \in Starts(order) :
        /\ \A j \in 0 .. Len(order) + 1 : next[j] = start[j] - n
        /\ Laid(next, order, stream')
  BY <1>1, <1>2, LaidAfterRead DEF Placed
<1>4. PICK l, m, end, a, b :
        /\ l = Len(stream) /\ m = Len(stream') /\ end = Unwritten
        /\ a = start[Len(order) + 1] /\ b = next[Len(order) + 1]
  OBVIOUS
<1>5. l \in Nat /\ end \in Nat /\ m = l - n /\ n \in Nat
  BY <1>1, <1>2, <1>4, Parts, UnwrittenTyped
<1>6. a \in Int /\ b = a - n
  <2>1. Len(order) + 1 \in 0 .. Len(order) + 1
    BY <1>1
  <2> QED
    BY <1>3, <1>4, <2>1 DEF Starts
<1>7. l + 1 <= a - end /\ (conn = "open" => l + 1 = a - end)
  BY <1>4, Zenon DEF Placed
<1>8. m + 1 <= b - end /\ (conn = "open" => m + 1 = b - end)
  BY <1>5, <1>6, <1>7
<1>9. Unwritten' = Unwritten
  BY <1>2 DEF Unwritten
<1>10. /\ Len(stream') + 1 <= next[Len(order) + 1] - Unwritten
       /\ conn = "open" => Len(stream') + 1 = next[Len(order) + 1] - Unwritten
  BY <1>4, <1>8, Zenon
<1>11. Placed(next)'
  BY <1>2, <1>3, <1>9, <1>10 DEF Placed
<1> QED
  BY <1>2, <1>3, <1>11

(* The bytes of the item that the receiver is in.                          *)
LEMMA ByteOfItem ==
  ASSUME TypeOK, NEW start \in Starts(order), Placed(start),
         NEW k \in 0 .. Len(order), NEW i \in 1 .. Len(Item(order, k)),
         NEW p \in 1 .. Len(stream), start[k] = p - i + 1
  PROVE  stream[p] = Item(order, k)[i]
<1>1. order \in Seq(Senders) /\ Len(order) \in Nat /\ Len(stream) \in Nat
  BY LenProperties DEF TypeOK
<1>2. Len(Item(order, k)) \in Nat
  BY <1>1, ItemTyped
<1>3. start[k + 1] = start[k] + Len(Item(order, k))
  BY DEF Placed, Laid
<1>4. start[k] <= p /\ p < start[k + 1] /\ p - start[k] + 1 = i
  <2>1. PICK a, b, l : a = start[k] /\ b = start[k + 1] /\ l = Len(Item(order, k))
    OBVIOUS
  <2>2. a = p - i + 1 /\ b = a + l /\ l \in Nat /\ i \in 1 .. l /\ p \in Nat
    BY <1>1, <1>2, <1>3, <2>1
  <2>3. a <= p /\ p < b /\ p - a + 1 = i
    BY <2>2
  <2> QED
    BY <2>1, <2>3
<1>5. stream[p] = Item(order, k)[p - start[k] + 1]
  BY <1>4 DEF Placed, Laid
<1> QED
  BY <1>4, <1>5

(* A head: what was not read of it shows in its size, or is zero when all  *)
(* sizes fit.                                                              *)
LEMMA ReadHeadKeepsFramed ==
  ASSUME TypeOK, Framed, ReadHead
  PROVE  Framed'
<1> SUFFICES ASSUME Behaved', InService'
             PROVE  Framed'
  BY DEF Framed
<1>1. /\ receiver = "head" /\ (cut => cut')
      /\ UNCHANGED <<conn, delivered, guessed, sending, torn, order>>
  BY DEF ReadHead, sending
<1>2. Behaved /\ InService
  BY <1>1, BehavedBefore DEF InService
<1>3. PICK start \in Starts(order) : Placed(start) /\ Reading(start)
  BY <1>2 DEF Framed
<1>4. PICK k \in 0 .. Len(order) + 1 : BeforeItem(start, k)
  BY <1>1, <1>3 DEF Reading, InMessage, HasMessage, InReport
<1>5. PICK n \in Reads(HeadSize) :
        LET head == [i \in 1 .. HeadSize |-> IF i <= n THEN stream[i] ELSE 0]
        IN /\ Dispatch(TypeOf(head[2]),
                       SizeOf(head[5], head[6], head[7], head[8]))
           /\ Consume(n)
           /\ cut' = (cut \/ n \in 5 .. HeadSize - 1)
  BY DEF ReadHead
<1> DEFINE head == [i \in 1 .. HeadSize |-> IF i <= n THEN stream[i] ELSE 0]
           size == SizeOf(head[5], head[6], head[7], head[8])
<1>6. /\ order \in Seq(Senders) /\ Len(order) \in Nat /\ stream \in Seq(Byte)
      /\ Len(stream) \in Nat /\ DOMAIN order = 1 .. Len(order)
  BY LenProperties DEF TypeOK
<1>7. n \in 1 .. Len(stream) /\ n \in 1 .. 8
  BY <1>5, <1>6 DEF Reads, Least, HeadSize
<1>8. /\ \A i \in 1 .. n : head[i] = stream[i]
      /\ \A i \in n + 1 .. 8 : head[i] = 0
  BY <1>7 DEF HeadSize
<1>9. Dispatch(TypeOf(head[2]), size) /\ Consume(n) /\ cut' = (cut \/ n \in 5 .. 7)
  BY <1>5 DEF HeadSize
<1> HIDE DEF head
<1>10. PICK next \in Starts(order') :
        /\ \A j \in 0 .. Len(order) + 1 : next[j] = start[j] - n
        /\ Placed(next)'
  BY <1>1, <1>3, <1>7, <1>9, ReadPlaces
<1>11. k \in 0 .. Len(order)
  <2> SUFFICES ASSUME k = Len(order) + 1 PROVE FALSE
    BY <1>6
  <2>1. Len(stream) + 1 <= 1 - Unwritten
    BY <1>3, <1>4 DEF Placed, BeforeItem
  <2> QED
    BY <1>6, <1>7, <2>1, UnwrittenTyped
<1>12. \A i \in 1 .. n : head[i] = Item(order, k)[i]
  <2> SUFFICES ASSUME NEW i \in 1 .. n PROVE stream[i] = Item(order, k)[i]
    BY <1>8
  <2>1. Len(Item(order, k)) \in Nat /\ Len(Item(order, k)) >= 12
    BY <1>6, <1>11, ItemTyped
  <2>2. i \in 1 .. Len(Item(order, k)) /\ i \in 1 .. Len(stream)
    BY <1>6, <1>7, <2>1
  <2>3. start[k] = i - i + 1
    BY <1>4 DEF BeforeItem
  <2> QED
    BY <1>3, <1>11, <2>2, <2>3, ByteOfItem
<1>13. CASE k = 0
  <2>1. CASE n = 1
    <3>1. head[2] = 0 /\ head[5] = 0 /\ head[6] = 0 /\ head[7] = 0 /\ head[8] = 0
      BY <1>8, <2>1
    <3>2. TypeOf(head[2]) = 0 /\ size = 0
      BY <3>1, SizeBounds DEF TypeOf, SizeOf
    <3>3. receiver' = "aborted"
      BY <1>9, <3>2 DEF Dispatch, HasBytes
    <3> QED
      BY <3>3 DEF InService
  <2>2. CASE n # 1
    <3>1. head[2] = 1
      <4>1. 2 \in 1 .. n
        BY <1>7, <2>2
      <4> QED
        BY <1>12, <1>13, <4>1, EncodedReport DEF Item
    <3>2. TypeOf(head[2]) = 1
      BY <3>1 DEF TypeOf
    <3>3. receiver' = "verify" /\ type' = 1
      BY <1>9, <3>2 DEF Dispatch
    <3>4. delivered' = <<>>
      BY <1>1, <1>4, <1>13, EmptySeq DEF BeforeItem, TypeOK
    <3>5. next[0] = 1 - n
      BY <1>4, <1>6, <1>10, <1>13 DEF BeforeItem
    <3>6. InReport(next, n)' /\ n \in 1 .. HeadSize
      BY <1>7, <3>3, <3>4, <3>5 DEF InReport, HeadSize
    <3>7. Reading(next)'
      BY <3>6 DEF Reading
    <3> QED
      BY <1>10, <3>7, FramedNow
  <2> QED
    BY <2>1, <2>2
<1>14. CASE k # 0
  <2>1. PICK s \in Senders : s = order[k]
    BY <1>6, <1>11, <1>14, ElementOfSeq
  <2>2. Item(order, k) = Encode(s)
    BY <1>14, <2>1 DEF Item
  <2> DEFINE l == Len(Contents[s])
  <2>3. /\ l \in Nat
        /\ \A i \in 1 .. 4 : Encode(s)[i] = 0
        /\ \A i \in 1 .. 4 : Encode(s)[4 + i] = SizeBytes(l)[i]
    BY EncodedMessage
  <2>4. /\ l < SizeLimit
        /\ n \in 5 .. 7 => l < SizeBase
    <3>1. k \in DOMAIN order' /\ order'[k] = s
      BY <1>1, <1>6, <1>11, <1>14, <2>1
    <3>2. l < IF cut' THEN SizeBase ELSE SizeLimit
      BY <3>1 DEF Behaved, SizesFit
    <3>3. PICK low, high : low = SizeBase /\ high = SizeLimit
      OBVIOUS
    <3>4. low \in Nat /\ high \in Nat /\ low <= high /\ l \in Nat
      BY <2>3, <3>3, SizeBounds
    <3>5. CASE cut'
      <4>1. l < low
        BY <3>2, <3>3, <3>5
      <4> QED
        BY <3>3, <3>4, <4>1
    <3>6. CASE ~cut'
      <4>1. l < high /\ n \notin 5 .. 7
        BY <1>9, <3>2, <3>3, <3>6
      <4> QED
        BY <3>3, <4>1
    <3> QED
      BY <3>5, <3>6
  <2> HIDE DEF l
  <2>5. head[2] = 0
    <3>1. CASE n = 1
      BY <1>8, <3>1
    <3>2. CASE n # 1
      BY <1>7, <1>12, <2>2, <2>3, <3>2
    <3> QED
      BY <3>1, <3>2
  <2>6. \A i \in 1 .. 4 :
          head[4 + i] = IF 4 + i <= n THEN SizeBytes(l)[i] ELSE 0
    <3> SUFFICES ASSUME NEW i \in 1 .. 4
                 PROVE  head[4 + i] = IF 4 + i <= n THEN SizeBytes(l)[i] ELSE 0
      OBVIOUS
    <3>1. PICK j : j = 4 + i
      OBVIOUS
    <3>2. CASE j <= n
      <4>1. j \in 1 .. n
        BY <3>1, <3>2
      <4>2. head[j] = Encode(s)[j]
        BY <1>12, <2>2, <4>1
      <4> QED
        BY <2>3, <3>1, <3>2, <4>2
    <3>3. CASE ~(j <= n)
      <4>1. j \in n + 1 .. 8
        BY <1>7, <3>1, <3>3
      <4> QED
        BY <1>8, <3>1, <3>3, <4>1
    <3> QED
      BY <3>2, <3>3
  <2>7. size = IF n <= 4 THEN 0 ELSE l
    <3>1. /\ head[5] = IF 5 <= n THEN SizeBytes(l)[1] ELSE 0
          /\ head[6] = IF 6 <= n THEN SizeBytes(l)[2] ELSE 0
          /\ head[7] = IF 7 <= n THEN SizeBytes(l)[3] ELSE 0
          /\ head[8] = IF 8 <= n THEN SizeBytes(l)[4] ELSE 0
      <4>1. 1 \in 1 .. 4 /\ 2 \in 1 .. 4 /\ 3 \in 1 .. 4 /\ 4 \in 1 .. 4
        OBVIOUS
      <4>2. /\ head[4 + 1] = IF 4 + 1 <= n THEN SizeBytes(l)[1] ELSE 0
            /\ head[4 + 2] = IF 4 + 2 <= n THEN SizeBytes(l)[2] ELSE 0
            /\ head[4 + 3] = IF 4 + 3 <= n THEN SizeBytes(l)[3] ELSE 0
            /\ head[4 + 4] = IF 4 + 4 <= n THEN SizeBytes(l)[4] ELSE 0
        BY <2>6, <4>1
      <4> QED
        BY <4>2
    <3>2. CASE n <= 4
      <4>1. head[5] = 0 /\ head[6] = 0 /\ head[7] = 0 /\ head[8] = 0
        BY <1>7, <3>1, <3>2
      <4> QED
        BY <3>2, <4>1, SizeBounds DEF SizeOf
    <3>3. CASE n \in 5 .. 7
      <4>1. /\ SizeBytes(l)[1] = l /\ SizeBytes(l)[2] = 0
            /\ SizeBytes(l)[3] = 0 /\ SizeBytes(l)[4] = 0
        BY <2>3, <2>4, <3>3, SizeTyped
      <4>2. head[5] = l /\ head[6] = 0 /\ head[7] = 0 /\ head[8] = 0
        BY <3>1, <3>3, <4>1
      <4>3. size = l
        BY <2>3, <4>2, SizeBounds DEF SizeOf
      <4> QED
        BY <3>3, <4>3
    <3>4. CASE n = 8
      <4>1. /\ head[5] = SizeBytes(l)[1] /\ head[6] = SizeBytes(l)[2]
            /\ head[7] = SizeBytes(l)[3] /\ head[8] = SizeBytes(l)[4]
        BY <3>1, <3>4
      <4>2. size = l
        BY <2>3, <2>4, <4>1, SizeTyped
      <4> QED
        BY <3>4, <4>2
    <3> QED
      BY <1>7, <3>2, <3>3, <3>4
  <2> HIDE DEF size
  <2>8. Dispatch(0, size)
    BY <1>9, <2>5 DEF TypeOf
  <2>9. receiver' # "aborted"
    BY DEF InService
  <2>10. n > 4 /\ size = l
    BY <1>7, <2>7, <2>8, <2>9 DEF Dispatch, HasBytes
  <2>11. /\ receiver' = "content" /\ type' = 0 /\ data' = <<>> /\ remain' = l
    BY <2>8, <2>9, <2>10 DEF Dispatch
  <2>12. Len(data') = 0
    BY <2>11, EmptySeq
  <2>13. 8 - n \in 0 .. 3 /\ next[k] = 1 - HeadSize + (8 - n) - Len(data')
    BY <1>4, <1>6, <1>7, <1>10, <1>11, <2>10, <2>12 DEF BeforeItem, HeadSize
  <2>14. InMessage(next, k, 8 - n)'
    BY <1>1, <1>4, <1>14, <2>1, <2>3, <2>11, <2>12, <2>13
    DEF InMessage, BeforeItem, l
  <2>15. Reading(next)'
    BY <1>1, <1>6, <1>11, <1>14, <2>13, <2>14 DEF Reading
  <2> QED
    BY <1>10, <2>15, FramedNow
<1> QED
  BY <1>13, <1>14

(* Content is set where it belongs; after a head read short it is up to    *)
(* three bytes behind, which nobody sees yet.                              *)
LEMMA ReadContentKeepsFramed ==
  ASSUME TypeOK, Framed, ReadContent
  PROVE  Framed'
<1> SUFFICES ASSUME Behaved', InService'
             PROVE  Framed'
  BY DEF Framed
<1>1. /\ receiver = "content"
      /\ UNCHANGED <<conn, type, delivered, guessed, cut, sending, torn, order>>
      /\ receiver' = IF remain' = 0 THEN "verify" ELSE "content"
  BY DEF ReadContent, sending
<1>2. Behaved /\ InService
  BY <1>1, BehavedBefore DEF InService
<1>3. PICK start \in Starts(order) : Placed(start) /\ Reading(start)
  BY <1>2 DEF Framed
<1>4. PICK k \in 1 .. Len(order), lag \in 0 .. 3 : InMessage(start, k, lag)
  BY <1>1, <1>3 DEF Reading, BeforeItem, HasMessage, InReport
<1>5. PICK n \in Reads(Least(ReceiveBuff, remain)) :
        /\ Set(SubSeq(stream, 1, n))
        /\ remain' = remain - n
        /\ Consume(n)
  BY DEF ReadContent
<1>6. /\ order \in Seq(Senders) /\ Len(order) \in Nat /\ stream \in Seq(Byte)
      /\ Len(stream) \in Nat /\ data \in Seq(Byte) /\ Len(data) \in Nat
      /\ remain \in Nat
  BY LenProperties DEF TypeOK, Byte
<1>7. n \in 1 .. Len(stream) /\ n <= remain /\ n \in Nat
  BY <1>5, <1>6, MessageStreamAssumption DEF Reads, Least
<1>8. PICK next \in Starts(order') :
        /\ \A j \in 0 .. Len(order) + 1 : next[j] = start[j] - n
        /\ Placed(next)'
  BY <1>1, <1>3, <1>5, <1>7, ReadPlaces
<1>9. PICK s \in Senders : s = order[k]
  BY <1>6, ElementOfSeq
<1>10. /\ Item(order, k) = Encode(s) /\ Len(Contents[s]) \in Nat
       /\ Len(Encode(s)) = Len(Contents[s]) + 12
       /\ \A i \in 1 .. Len(Contents[s]) : Encode(s)[8 + i] = Contents[s][i]
  <2>1. k # 0
    BY <1>6
  <2> QED
    BY <1>9, <2>1, EncodedMessage DEF Item
<1> DEFINE part == SubSeq(stream, 1, n)
<1>11. /\ part \in Seq(Byte) /\ Len(part) = n
       /\ \A i \in 1 .. n : part[i] = stream[i]
  <2>1. n \in 0 .. Len(stream)
    BY <1>6, <1>7
  <2> QED
    BY <1>6, <2>1, Parts
<1>12. data' = data \o part
  BY <1>5 DEF Set
<1> HIDE DEF part
<1>13. /\ Len(data') = Len(data) + Len(part)
       /\ \A i \in 1 .. Len(data) + Len(part) :
            data'[i] = IF i <= Len(data) THEN data[i] ELSE part[i - Len(data)]
  BY <1>6, <1>11, <1>12, ConcatProperties
<1>14. /\ start[k] = 1 - HeadSize + lag - Len(data) /\ type = 0
       /\ Len(delivered) = k - 1
       /\ Len(data) + remain = Len(Contents[s])
       /\ lag = 0 => \A i \in 1 .. Len(data) : data[i] = Contents[s][i]
  BY <1>1, <1>4, <1>9 DEF InMessage
<1>15. next[k] = 1 - HeadSize + lag - Len(data')
  <2>1. k \in 0 .. Len(order) + 1
    BY <1>6
  <2>2. next[k] = start[k] - n
    BY <1>8, <2>1
  <2> QED
    BY <1>6, <1>7, <1>11, <1>13, <1>14, <2>2 DEF HeadSize
<1>16. /\ receiver' \in {"content", "verify"}
       /\ Len(data') + (IF receiver' = "content" THEN remain' ELSE 0)
            = Len(Contents[s])
  <2>1. PICK d, e, r, l :
          /\ d = Len(data) /\ e = Len(data') /\ r = remain /\ l = Len(Contents[s])
    OBVIOUS
  <2>2. /\ d \in Nat /\ r \in Nat /\ l \in Nat /\ n \in Nat
        /\ e = d + n /\ d + r = l /\ remain' = r - n
    BY <1>5, <1>6, <1>7, <1>10, <1>11, <1>13, <1>14, <2>1
  <2>3. e + remain' = l /\ e \in Nat
    BY <2>2
  <2>4. CASE remain' = 0
    BY <1>1, <2>1, <2>3, <2>4
  <2>5. CASE remain' # 0
    BY <1>1, <2>1, <2>3, <2>5
  <2> QED
    BY <2>4, <2>5
<1>17. ASSUME lag = 0, NEW i \in 1 .. Len(data')
       PROVE  data'[i] = Contents[s][i]
  <2>1. CASE i <= Len(data)
    <3>1. i \in 1 .. Len(data) /\ data'[i] = data[i]
      BY <1>6, <1>11, <1>13, <2>1
    <3> QED
      BY <1>14, <1>17, <3>1
  <2>2. CASE i > Len(data)
    <3>1. PICK p : p = i - Len(data)
      OBVIOUS
    <3>2. /\ p \in 1 .. n /\ p \in 1 .. Len(stream) /\ data'[i] = part[p]
          /\ i \in 1 .. Len(Contents[s]) /\ 8 + i \in 1 .. Len(Encode(s))
          /\ k \in 0 .. Len(order)
      <4>1. i \in 1 .. Len(data) + n /\ p \in 1 .. n
        BY <1>6, <1>7, <1>11, <1>13, <2>2, <3>1
      <4>2. data'[i] = part[p]
        BY <1>11, <1>13, <2>2, <3>1, <4>1
      <4>3. Len(data) + n <= Len(Contents[s])
        BY <1>6, <1>7, <1>10, <1>14
      <4>4. i \in 1 .. Len(Contents[s]) /\ 8 + i \in 1 .. Len(Encode(s))
        BY <1>6, <1>7, <1>10, <4>1, <4>3
      <4> QED
        BY <1>6, <1>7, <4>1, <4>2, <4>4
    <3>3. data'[i] = stream[p]
      BY <1>11, <3>2
    <3>4. start[k] = p - (8 + i) + 1
      BY <1>6, <1>14, <1>17, <3>1, <3>2 DEF HeadSize
    <3>5. stream[p] = Encode(s)[8 + i]
      <4>1. PICK q : q = 8 + i
        OBVIOUS
      <4>2. q \in 1 .. Len(Item(order, k)) /\ start[k] = p - q + 1
        BY <1>10, <3>2, <3>4, <4>1
      <4>3. stream[p] = Item(order, k)[q]
        BY <1>3, <3>2, <4>2, ByteOfItem
      <4> QED
        BY <1>10, <4>1, <4>3
    <3> QED
      BY <1>10, <3>2, <3>3, <3>5
  <2> QED
    BY <1>6, <1>11, <1>13, <2>1, <2>2
<1>18. InMessage(next, k, lag)'
  BY <1>1, <1>9, <1>14, <1>15, <1>16, <1>17 DEF InMessage
<1>19. Reading(next)'
  BY <1>1, <1>18 DEF Reading
<1> QED
  BY <1>8, <1>19, FramedNow

(* A verify code that is accepted, and was read in full, ends the rank     *)
(* report or a message that is in data: after a head read short, its first *)
(* byte would be where another one of the code, or of the head, is.        *)
LEMMA AcceptKeepsFramed ==
  ASSUME TypeOK, Framed, ReadVerify, Behaved', InService'
  PROVE  Framed'
<1>1. /\ receiver = "verify" /\ receiver' \in {"head", "handing"}
      /\ UNCHANGED <<conn, type, remain, data, delivered, cut, sending, torn, order>>
      /\ guessed => guessed'
  BY DEF ReadVerify, Accept, InService, sending
<1>2. PICK n \in Reads(Len(FixVerifyCode)) :
        /\ Consume(n)
        /\ IsPrefix(SubSeq(stream, 1, n), FixVerifyCode)
        /\ Accept
        /\ guessed' = (guessed \/ n < Len(FixVerifyCode))
  BY <1>1 DEF ReadVerify
<1>3. Behaved /\ InService
  BY <1>1, BehavedBefore DEF InService
<1>4. PICK start \in Starts(order) : Placed(start) /\ Reading(start)
  BY <1>3 DEF Framed
<1>5. /\ order \in Seq(Senders) /\ Len(order) \in Nat /\ stream \in Seq(Byte)
      /\ Len(stream) \in Nat /\ data \in Seq(Byte) /\ Len(data) \in Nat
  BY LenProperties DEF TypeOK
<1>6. n = 4 /\ Len(stream) >= 4
  <2>1. n \in 1 .. Len(stream) /\ n \in 1 .. 4
    BY <1>2, <1>5, VerifyCode DEF Reads, Least
  <2>2. ~(n < 4)
    <3>1. ~guessed' /\ guessed' = (guessed \/ n < 4)
      BY <1>2, VerifyCode DEF Behaved
    <3> QED
      BY <3>1, Zenon
  <2> QED
    BY <1>5, <2>1, <2>2
<1>7. \A i \in 1 .. 4 : stream[i] = FixVerifyCode[i]
  <2> DEFINE a == SubSeq(stream, 1, 4)
  <2>1. a \in Seq(Byte) /\ Len(a) = 4 /\ \A i \in 1 .. 4 : a[i] = stream[i]
    <3>1. 4 \in 0 .. Len(stream)
      BY <1>5, <1>6
    <3> QED
      BY <1>5, <3>1, Parts
  <2>2. IsPrefix(a, FixVerifyCode)
    BY <1>2, <1>6
  <2> HIDE DEF a
  <2>3. SubSeq(a, 1, 4) = SubSeq(FixVerifyCode, 1, 4)
    BY <2>1, <2>2 DEF IsPrefix
  <2>4. \A i \in 1 .. 4 : SubSeq(a, 1, 4)[i] = a[i]
    <3>1. 4 \in 0 .. Len(a)
      BY <2>1
    <3> QED
      BY <2>1, <3>1, Parts
  <2>5. \A i \in 1 .. 4 : SubSeq(FixVerifyCode, 1, 4)[i] = FixVerifyCode[i]
    <3>1. FixVerifyCode \in Seq(Byte) /\ 4 \in 0 .. Len(FixVerifyCode)
      BY VerifyCode
    <3> QED
      BY <3>1, Parts
  <2> QED
    BY <2>1, <2>3, <2>4, <2>5
<1>8. PICK next \in Starts(order') :
        /\ \A j \in 0 .. Len(order) + 1 : next[j] = start[j] - 4
        /\ Placed(next)'
  <2>1. n \in 1 .. Len(stream)
    BY <1>5, <1>6
  <2> QED
    BY <1>1, <1>2, <1>4, <1>6, <2>1, ReadPlaces
<1>9. ASSUME NEW k \in 1 .. Len(order), NEW lag \in 0 .. 3, InMessage(start, k, lag)
      PROVE  Framed'
  <2>1. PICK s \in Senders : s = order[k]
    BY <1>5, ElementOfSeq
  <2>2. /\ Item(order, k) = Encode(s) /\ Contents[s] \in Seq(Byte)
        /\ Len(Contents[s]) \in Nat /\ Len(Encode(s)) = Len(Contents[s]) + 12
        /\ Encode(s)[Len(Contents[s]) + 9] = 206
    <3>1. k # 0
      BY <1>5
    <3> QED
      BY <2>1, <3>1, EncodedMessage DEF Item
  <2>3. /\ Len(data) = Len(Contents[s]) /\ type = 0
        /\ start[k] = 1 - HeadSize + lag - Len(data)
        /\ Len(delivered) = k - 1
        /\ lag = 0 => \A i \in 1 .. Len(data) : data[i] = Contents[s][i]
    BY <1>1, <1>5, <1>9, <2>1 DEF InMessage
  <2>4. lag = 0
    <3>1. PICK q, p : q = Len(Contents[s]) + 9 /\ p = lag + 1
      OBVIOUS
    <3>2. /\ q \in 1 .. Len(Item(order, k)) /\ k \in 0 .. Len(order)
          /\ p \in 1 .. Len(stream) /\ p \in 1 .. 4
          /\ start[k] = p - q + 1
      <4>1. PICK l, z : l = Len(Contents[s]) /\ z = Len(stream)
        OBVIOUS
      <4>2. l \in Nat /\ z \in Nat /\ z >= 4 /\ q = l + 9 /\ p = lag + 1
        BY <1>5, <1>6, <2>2, <3>1, <4>1
      <4>3. p \in 1 .. z /\ p \in 1 .. 4 /\ q \in 1 .. l + 12
        BY <4>2
      <4>4. start[k] = p - q + 1
        BY <2>3, <4>1, <4>2 DEF HeadSize
      <4>5. Len(Item(order, k)) = l + 12 /\ k \in 0 .. Len(order)
        BY <1>5, <2>2, <4>1
      <4> QED
        BY <4>1, <4>3, <4>4, <4>5
    <3>3. stream[p] = Encode(s)[q]
      <4>1. stream[p] = Item(order, k)[q]
        BY <1>4, <3>2, ByteOfItem
      <4> QED
        BY <2>2, <4>1
    <3>4. FixVerifyCode[p] = 206
      BY <1>7, <2>2, <3>1, <3>2, <3>3
    <3>5. p = 1
      BY <3>2, <3>4, VerifyCode
    <3> QED
      BY <3>1, <3>5
  <2>5. data = Contents[s]
    <3>1. PICK c : c = Contents[s]
      OBVIOUS
    <3>2. /\ c \in Seq(Byte) /\ Len(data) = Len(c)
          /\ \A i \in 1 .. Len(data) : data[i] = c[i]
      BY <2>2, <2>3, <2>4, <3>1
    <3>3. data = c
      BY <1>5, <3>2, SeqEqual
    <3> QED
      BY <3>1, <3>3
  <2>6. receiver' = "handing" /\ data' = Contents[order'[k]]
    BY <1>1, <1>2, <2>1, <2>3, <2>5 DEF Accept
  <2>7. next[k + 1] = 1
    <3>1. k + 1 \in 0 .. Len(order) + 1 /\ k \in 0 .. Len(order)
      BY <1>5
    <3>2. start[k + 1] = start[k] + Len(Encode(s))
      BY <1>4, <2>2, <3>1 DEF Placed, Laid
    <3>3. start[k + 1] = 5
      BY <1>5, <2>2, <2>3, <2>4, <3>2 DEF HeadSize
    <3> QED
      BY <1>8, <3>1, <3>3
  <2>8. HasMessage(next, k)' /\ k \in 1 .. Len(order')
    BY <1>1, <2>3, <2>6, <2>7 DEF HasMessage
  <2>9. Reading(next)'
    BY <2>8 DEF Reading
  <2> QED
    BY <1>8, <2>9, FramedNow
<1>10. ASSUME NEW m \in 1 .. HeadSize, InReport(start, m)
       PROVE  Framed'
  <2>1. type = 1 /\ delivered = <<>> /\ start[0] = 1 - m
    BY <1>10 DEF InReport
  <2>2. /\ Item(order, 0) = RankReport /\ Len(Item(order, 0)) = 12
        /\ 0 \in 0 .. Len(order) /\ m \in 1 .. 8
    BY <1>5, EncodedReport DEF Item, HeadSize
  <2>3. m = 8
    <3> SUFFICES ASSUME m # 8 PROVE FALSE
      OBVIOUS
    <3>1. PICK q : q = m + 1
      OBVIOUS
    <3>2. /\ q \in 1 .. 8 /\ q \in 1 .. Len(Item(order, 0))
          /\ 1 \in 1 .. Len(stream) /\ start[0] = 1 - q + 1
      <4>1. q \in 1 .. 8 /\ q \in 1 .. 12 /\ start[0] = 1 - q + 1
        BY <2>1, <2>2, <3>1
      <4>2. 1 \in 1 .. Len(stream)
        BY <1>5, <1>6
      <4> QED
        BY <2>2, <4>1, <4>2
    <3>3. stream[1] = RankReport[q]
      BY <1>4, <2>2, <3>2, ByteOfItem
    <3>4. RankReport[q] \in {0, 1}
      BY <3>2, EncodedReport
    <3> QED
      BY <1>7, <3>3, <3>4, VerifyCode
  <2>4. next[1] = 1
    <3>1. start[0 + 1] = start[0] + Len(Item(order, 0))
      BY <1>4, <2>2 DEF Placed, Laid
    <3>2. start[1] = 5
      <4>1. PICK a, b, l : a = start[0] /\ b = start[1] /\ l = Len(Item(order, 0))
        OBVIOUS
      <4>2. b = a + l /\ l = 12 /\ a = 1 - 8
        BY <2>1, <2>2, <2>3, <3>1, <4>1
      <4> QED
        BY <4>1, <4>2
    <3>3. 1 \in 0 .. Len(order) + 1
      BY <1>5
    <3> QED
      BY <1>8, <3>2, <3>3
  <2>5. receiver' = "head" /\ Len(delivered') = 0
    BY <1>1, <1>2, <2>1, EmptySeq DEF Accept
  <2>6. BeforeItem(next, 1)' /\ 1 \in 0 .. Len(order') + 1
    BY <1>1, <1>5, <2>4, <2>5 DEF BeforeItem
  <2>7. Reading(next)'
    BY <2>6 DEF Reading
  <2> QED
    BY <1>8, <2>7, FramedNow
<1> QED
  BY <1>1, <1>4, <1>9, <1>10 DEF Reading, BeforeItem, HasMessage

(* What getMessage() returns is the message that was in data.              *)
LEMMA GetMessageKeepsFramed ==
  ASSUME TypeOK, Begun, Framed, DeliveredSent, GetMessage
  PROVE  Framed' /\ DeliveredSent'
<1> SUFFICES ASSUME Behaved'
             PROVE  Framed' /\ DeliveredSent'
  BY DEF Framed, DeliveredSent
<1>1. /\ receiver \in Handing /\ delivered' = Append(delivered, data)
      /\ receiver' = IF receiver = "handing" THEN "head" ELSE "closed"
      /\ UNCHANGED <<conn, stream, guessed, cut, out, torn, order>>
  BY DEF GetMessage, sending
<1>2. Behaved
  BY <1>1, BehavedBefore
<1>3. receiver = "handing" /\ receiver' = "head"
  BY <1>1, <1>2 DEF Behaved, Begun, NothingYet, Handing
<1>4. InService
  BY <1>3 DEF InService, Begun, NothingYet
<1>5. PICK start \in Starts(order) : Placed(start) /\ Reading(start)
  BY <1>2, <1>4 DEF Framed
<1>6. PICK k \in 1 .. Len(order) : HasMessage(start, k)
  BY <1>3, <1>5 DEF Reading, BeforeItem, InMessage, InReport
<1>7. /\ order \in Seq(Senders) /\ Len(order) \in Nat
      /\ delivered \in Seq(Seq(Byte)) /\ Len(delivered) \in Nat
      /\ data \in Seq(Byte)
  BY LenProperties DEF TypeOK
<1>8. /\ Len(delivered) = k - 1 /\ data = Contents[order[k]] /\ start[k + 1] = 1
  BY <1>6 DEF HasMessage
<1>9. /\ Len(delivered') = k /\ delivered'[k] = Contents[order[k]]
      /\ \A i \in 1 .. k - 1 : delivered'[i] = delivered[i]
  BY <1>1, <1>7, <1>8, AppendProperties
<1>10. Framed'
  <2>1. Placed(start)'
    BY <1>1, <1>5 DEF Placed, Unwritten
  <2>2. PICK q : q = k + 1
    OBVIOUS
  <2>3. q \in 0 .. Len(order') + 1 /\ BeforeItem(start, q)'
    BY <1>1, <1>3, <1>7, <1>8, <1>9, <2>2 DEF BeforeItem
  <2>4. Reading(start)'
    BY <2>3 DEF Reading
  <2> QED
    BY <1>1, <1>5, <2>1, <2>4, FramedNow
<1>11. DeliveredSent'
  <2>1. Len(delivered') <= Len(order')
    BY <1>1, <1>7, <1>9
  <2>2. ASSUME NEW i \in 1 .. Len(delivered')
        PROVE  delivered'[i] = Contents[order'[i]]
    <3>1. CASE i = k
      BY <1>1, <1>9, <3>1
    <3>2. CASE i # k
      <4>1. i \in 1 .. k - 1 /\ i \in 1 .. Len(delivered)
        BY <1>7, <1>8, <1>9, <3>2
      <4>2. delivered[i] = Contents[order[i]]
        BY <1>2, <4>1 DEF DeliveredSent
      <4> QED
        BY <1>1, <1>9, <4>1, <4>2
    <3> QED
      BY <3>1, <3>2
  <2> QED
    BY <2>1, <2>2 DEF DeliveredSent
<1> QED
  BY <1>10, <1>11

(* At every other step nothing is delivered.                               *)
LEMMA DeliveredKept ==
  ASSUME TypeOK, DeliveredSent, UNCHANGED delivered, Behaved' => Behaved,
         order' = order \/ \E s \in Senders : order' = Append(order, s)
  PROVE  DeliveredSent'
<1> SUFFICES ASSUME Behaved' PROVE DeliveredSent'
  BY DEF DeliveredSent
<1>1. order \in Seq(Senders) /\ Len(order) \in Nat /\ Len(delivered) \in Nat
  BY LenProperties DEF TypeOK
<1>2. /\ Len(delivered) <= Len(order)
      /\ \A i \in 1 .. Len(delivered) : delivered[i] = Contents[order[i]]
  BY DEF DeliveredSent
<1>3. /\ Len(order') \in Nat /\ Len(order) <= Len(order')
      /\ \A i \in 1 .. Len(order) : order'[i] = order[i]
  <2>1. CASE order' = order
    BY <1>1, <2>1
  <2>2. ASSUME NEW s \in Senders, order' = Append(order, s)
        PROVE  /\ Len(order') = Len(order) + 1
               /\ \A i \in 1 .. Len(order) : order'[i] = order[i]
    BY <1>1, <2>2, AppendProperties
  <2> QED
    BY <1>1, <2>1, <2>2
<1>4. \A i \in 1 .. Len(delivered) : i \in 1 .. Len(order)
  BY <1>1, <1>2
<1>5. \A i \in 1 .. Len(delivered') : delivered'[i] = Contents[order'[i]]
  BY <1>2, <1>3, <1>4
<1>6. Len(delivered') <= Len(order')
  BY <1>1, <1>2, <1>3
<1> QED
  BY <1>5, <1>6 DEF DeliveredSent

LEMMA NextFramed ==
  ASSUME TypeOK, Begun, Framed, DeliveredSent, [Next]_vars
  PROVE  Framed' /\ DeliveredSent'
<1>1. CASE Connect
  <2>1. UNCHANGED <<delivered, order, torn, guessed, cut>>
    BY <1>1 DEF Connect, sending, receiving
  <2> QED
    BY <1>1, <2>1, ConnectFrames, BehavedBefore, DeliveredKept
<1>2. ASSUME NEW s \in Senders, Write(s)
      PROVE  Framed' /\ DeliveredSent'
  <2>1. /\ UNCHANGED <<delivered, guessed, cut>> /\ (torn => torn')
        /\ order' = order \/ order' = Append(order, s)
    BY <1>2 DEF Write, receiving
  <2> QED
    BY <1>2, <2>1, WriteKeepsFramed, BehavedBefore, DeliveredKept
<1>3. ASSUME UNCHANGED <<stream, order, torn, receiving>>,
             Unwritten' = Unwritten, conn' = conn \/ conn = "open",
             conn' = conn \/ conn' = "ended"
      PROVE  Framed' /\ DeliveredSent'
  <2>1. UNCHANGED <<delivered, order, torn, guessed, cut>>
    BY <1>3 DEF receiving
  <2> QED
    BY <1>3, <2>1, QuietKeepsFramed, BehavedBefore, DeliveredKept
<1>4. ASSUME NEW s \in Senders, Begin(s)
      PROVE  Framed' /\ DeliveredSent'
  <2>1. Unwritten' = Unwritten
    <3>1. CASE order = <<>>
      BY <1>4, <3>1 DEF Begin, Unwritten
    <3>2. CASE order # <<>>
      <4>1. order \in Seq(Senders) /\ Len(order) \in 1 .. Len(order)
        BY <3>2, EmptySeq, LenProperties DEF TypeOK
      <4>2. PICK t \in Senders : t = order[Len(order)]
        BY <4>1, ElementOfSeq
      <4>3. Written(t) > 0
        BY <4>1, <4>2, LenProperties DEF Begun, OnlyLastOpen
      <4>4. t # s
        BY <1>4, <4>3 DEF Begin, Written
      <4>5. out'[t] = out[t] /\ order' = order
        BY <1>4, <4>4 DEF Begin, TypeOK
      <4> QED
        BY <3>2, <4>2, <4>5 DEF Unwritten
    <3> QED
      BY <3>1, <3>2
  <2> QED
    BY <1>3, <1>4, <2>1 DEF Begin
<1>5. ASSUME \/ UNCHANGED vars \/ ConnectionEnds
             \/ \E s \in Senders : Interrupted(s)
      PROVE  Framed' /\ DeliveredSent'
  <2>1. /\ UNCHANGED <<stream, out, order, torn, receiving>>
        /\ \/ conn' = conn
           \/ conn = "open" /\ conn' = "ended"
    <3>1. CASE UNCHANGED vars
      BY <3>1 DEF vars, sending
    <3>2. CASE ConnectionEnds
      BY <3>2 DEF ConnectionEnds, sending
    <3>3. ASSUME NEW s \in Senders, Interrupted(s)
          PROVE  UNCHANGED <<conn, stream, out, order, torn, receiving>>
      BY <3>3 DEF Interrupted
    <3> QED
      BY <1>5, <3>1, <3>2, <3>3
  <2>2. Unwritten' = Unwritten
    BY <2>1 DEF Unwritten
  <2> QED
    BY <1>3, <2>1, <2>2
<1>6. CASE Receive
  <2>1. /\ UNCHANGED <<delivered, order, torn>> /\ (guessed => guessed')
        /\ cut => cut'
    <3>1. UNCHANGED sending /\ UNCHANGED delivered
      BY <1>6 DEF Receive, ReadHead, ReadContent, ReadVerify, ReadEnd
    <3>2. guessed => guessed'
      BY <1>6 DEF Receive, ReadHead, ReadContent, ReadVerify, ReadEnd
    <3>3. cut => cut'
      BY <1>6 DEF Receive, ReadHead, ReadContent, ReadVerify, ReadEnd
    <3> QED
      BY <3>1, <3>2, <3>3 DEF sending
  <2>2. DeliveredSent'
    BY <2>1, BehavedBefore, DeliveredKept
  <2>3. CASE Behaved' /\ InService'
    <3>1. CASE ReadEnd
      BY <2>3, <3>1 DEF ReadEnd, InService
    <3> QED
      BY <1>6, <2>2, <2>3, <3>1, ReadHeadKeepsFramed, ReadContentKeepsFramed,
         AcceptKeepsFramed DEF Receive
  <2> QED
    BY <2>2, <2>3 DEF Framed
<1> QED
  BY <1>1, <1>2, <1>4, <1>5, <1>6, GetMessageKeepsFramed DEF Next, Finished

LEMMA InitFramed == Init => Begun /\ Framed /\ DeliveredSent
<1> SUFFICES ASSUME Init PROVE Framed /\ DeliveredSent
  BY BegunInit
<1>1. Len(<<>>) = 0
  BY EmptySeq
<1> QED
  BY <1>1 DEF Init, Framed, InService, DeliveredSent

(* With any number of messages, of any contents and lengths, whatever the  *)
(* pieces in which the stream is written and read and wherever it ends:    *)
(* what getMessage() returns are the messages that were sent, whole and in *)
(* order.  Excepted are what MessagesIntact names: two written into one    *)
(* another, a verify code that was guessed, and sizes that do not fit into *)
(* four bytes or, once a head was cut inside its size, into one.           *)
THEOREM MessagesArriveIntact == Spec => []MessagesIntact
<1>1. Init => Begun /\ Framed /\ DeliveredSent
  BY InitFramed
<1>2. /\ TypeOK /\ (Begun /\ Framed /\ DeliveredSent) /\ [Next]_vars
      => (Begun /\ Framed /\ DeliveredSent)'
  BY NextBegun, NextFramed
<1>3. TypeOK /\ DeliveredSent => MessagesIntact
  BY DeliveredIntact
<1> QED
  BY <1>1, <1>2, <1>3, TypeCorrect, PTL DEF Spec
-----------------------------------------------------------------------------
(* Each message is in the list of those sent once, if anything of it has   *)
(* been written, and nothing is reported that has not been written.        *)
BegunOnce ==
  /\ IsInjective(order)
  /\ \A s \in Senders :
       Written(s) > 0 => \E i \in DOMAIN order : order[i] = s
  /\ \A s \in Senders :
       sender[s] \in {"returned", "incomplete"} => Written(s) > 0

(* A writev() that goes on after another one does not begin the message    *)
(* again: with MessagesIntact, none is delivered twice.                    *)
THEOREM SentOnce == Spec => []BegunOnce
<1>1. Init => BegunOnce
  BY DEF Init, BegunOnce, IsInjective, Written
<1>2. TypeOK /\ Begun /\ BegunOnce /\ [Next]_vars => BegunOnce'
  <2> SUFFICES ASSUME TypeOK, Begun, BegunOnce, [Next]_vars
               PROVE  BegunOnce'
    OBVIOUS
  <2>1. ASSUME NEW s \in Senders, Write(s)
        PROVE  BegunOnce'
    <3>1. /\ Written(s) \in Nat /\ Written(s)' > 0
          /\ \A t \in Senders \ {s} : Written(t)' = Written(t)
          /\ \A t \in Senders \ {s} : sender'[t] = sender[t]
      BY <2>1, WriteGoesOn
    <3>2. /\ order \in Seq(Senders) /\ Len(order) \in Nat
          /\ DOMAIN order = 1 .. Len(order)
      BY LenProperties DEF TypeOK
    <3>3. CASE Written(s) = 0
      <4>1. /\ DOMAIN order' = 1 .. Len(order) + 1
            /\ order'[Len(order) + 1] = s
            /\ \A i \in 1 .. Len(order) : order'[i] = order[i]
        BY <2>1, <3>2, <3>3, AppendProperties DEF Write
      <4>2. \A i \in 1 .. Len(order) : order[i] # s
        BY <3>2, <3>3 DEF Begun, OnlyLastOpen
      <4>3. IsInjective(order')
        BY <3>2, <4>1, <4>2 DEF BegunOnce, IsInjective
      <4> QED
        BY <3>1, <3>2, <4>1, <4>3 DEF BegunOnce
    <3>4. CASE Written(s) # 0
      <4>1. order' = order /\ Written(s) > 0
        BY <2>1, <3>1, <3>4 DEF Write
      <4> QED
        BY <3>1, <4>1 DEF BegunOnce
    <3> QED
      BY <3>3, <3>4
  <2>2. ASSUME NEW s \in Senders, Begin(s)
        PROVE  BegunOnce'
    <3>1. /\ sender[s] = "new" /\ sender'[s] = "writing"
          /\ out'[s] = Encode(s) /\ order' = order
          /\ \A t \in Senders \ {s} : sender'[t] = sender[t] /\ out'[t] = out[t]
      BY <2>2 DEF Begin, TypeOK
    <3>2. Len(Encode(s)) \in Nat
      BY EncodedMessage, LenProperties
    <3>3. Written(s)' = 0
      BY <3>1, <3>2 DEF Written
    <3>4. \A t \in Senders \ {s} : Written(t)' = Written(t)
      BY <3>1 DEF Written
    <3> QED
      BY <3>1, <3>3, <3>4 DEF BegunOnce
  <2>3. ASSUME NEW s \in Senders, Interrupted(s)
        PROVE  BegunOnce'
    <3>1. /\ sender[s] = "writing" /\ UNCHANGED <<out, order>>
          /\ sender'[s] = IF Written(s) > 0 THEN "incomplete" ELSE "failed"
          /\ \A t \in Senders \ {s} : sender'[t] = sender[t]
      BY <2>3 DEF Interrupted, TypeOK
    <3>2. \A t \in Senders : Written(t)' = Written(t)
      BY <3>1 DEF Written
    <3> QED
      BY <3>1, <3>2 DEF BegunOnce
  <2>4. CASE UNCHANGED sending
    BY <2>4 DEF sending, BegunOnce, Written
  <2> QED
    BY <2>1, <2>2, <2>3, <2>4
    DEF Next, Connect, ConnectionEnds, Receive, ReadHead, ReadContent,
        ReadVerify, ReadEnd, GetMessage, Finished, vars
<1>3. Init => Begun
  BY BegunInit
<1>4. TypeOK /\ Begun /\ [Next]_vars => Begun'
  BY NextBegun
<1> QED
  BY <1>1, <1>2, <1>3, <1>4, TypeCorrect, PTL DEF Spec

(* When nothing is left to be read, and the receiver waits for a head,     *)
(* every message of which anything has been written has been delivered;    *)
(* the exceptions are those of MessagesIntact.                             *)
NothingSkipped ==
  ~torn /\ ~guessed /\ SizesFit
    /\ conn = "open" /\ receiver = "head" /\ stream = <<>> =>
    \A s \in Senders :
      Written(s) > 0 => \E i \in DOMAIN delivered : delivered[i] = Contents[s]

LEMMA AllRead ==
  ASSUME TypeOK, Begun, Framed, Behaved,
         conn = "open", receiver = "head", stream = <<>>
  PROVE  Len(delivered) = Len(order)
<1>1. order \in Seq(Senders) /\ Len(order) \in Nat /\ Len(stream) = 0
  BY EmptySeq, LenProperties DEF TypeOK
<1>2. PICK start \in Starts(order) : Placed(start) /\ Reading(start)
  BY DEF Framed, InService
<1>3. PICK k \in 0 .. Len(order) + 1 : BeforeItem(start, k)
  BY <1>2 DEF Reading, InMessage, HasMessage, InReport
<1> DEFINE last == Len(order)
<1>4. PICK a, b, c, size, rest :
        /\ a = start[k] /\ b = start[last] /\ c = start[last + 1]
        /\ size = Len(Item(order, last)) /\ rest = Unwritten
  OBVIOUS
<1>5. /\ last \in 0 .. last /\ last \in 0 .. last + 1
      /\ last + 1 \in 0 .. last + 1
  BY <1>1
<1>6. /\ a \in Int /\ b \in Int /\ c \in Int /\ size \in Nat /\ rest \in Nat
      /\ size >= 12
  BY <1>1, <1>3, <1>4, <1>5, ItemTyped, UnwrittenTyped DEF Starts
<1>7. a = 1 /\ c = b + size /\ 1 = c - rest
  BY <1>1, <1>2, <1>3, <1>4, <1>5 DEF BeforeItem, Placed, Laid
<1>8. k <= last => a <= b
  BY <1>2, <1>3, <1>4, <1>5 DEF Placed, Laid
<1>9. rest < size
  <2>1. CASE last = 0
    BY <1>1, <1>4, <1>6, <2>1, EmptySeq DEF Unwritten
  <2>2. CASE last # 0
    <3>1. order # <<>> /\ last \in 1 .. last
      BY <1>1, <2>2, EmptySeq
    <3>2. PICK s \in Senders : s = order[last]
      BY <1>1, <3>1, ElementOfSeq
    <3>3. Written(s) > 0
      BY <1>1, <3>1, <3>2, LenProperties DEF Begun, OnlyLastOpen
    <3>4. rest = Len(out[s]) /\ size = Len(Encode(s))
      BY <1>4, <2>2, <3>1, <3>2 DEF Unwritten, Item
    <3>5. Written(s) = size - rest
      <4>1. sender[s] # "new"
        <5> SUFFICES ASSUME sender[s] = "new" PROVE FALSE
          OBVIOUS
        <5>1. Written(s) = 0
          BY DEF Written
        <5> QED
          BY <3>3, <5>1
      <4> QED
        BY <3>4, <4>1 DEF Written
    <3> QED
      BY <1>6, <3>3, <3>5
  <2> QED
    BY <2>1, <2>2
<1>10. k = last + 1
  BY <1>1, <1>3, <1>6, <1>7, <1>8, <1>9
<1> QED
  BY <1>1, <1>3, <1>10 DEF BeforeItem

(* However the pieces fall in which messages are written and read, when a  *)
(* receiver that is not kept in write_sync() comes to rest it is behind    *)
(* the last of them, and has skipped none.                                 *)
THEOREM NoMessageSkipped == Spec => []NothingSkipped
<1>1. Init => Begun /\ Framed /\ DeliveredSent
  BY InitFramed
<1>2. /\ TypeOK /\ (Begun /\ Framed /\ DeliveredSent) /\ [Next]_vars
      => (Begun /\ Framed /\ DeliveredSent)'
  BY NextBegun, NextFramed
<1>3. /\ TypeOK /\ Begun /\ Framed /\ DeliveredSent /\ BegunOnce
      => NothingSkipped
  <2> SUFFICES ASSUME TypeOK, Begun, Framed, DeliveredSent, BegunOnce, Behaved,
                      conn = "open", receiver = "head", stream = <<>>,
                      NEW s \in Senders, Written(s) > 0
               PROVE  \E i \in DOMAIN delivered : delivered[i] = Contents[s]
    BY DEF NothingSkipped, Behaved
  <2>1. /\ Len(delivered) = Len(order) /\ DOMAIN order = 1 .. Len(order)
        /\ DOMAIN delivered = 1 .. Len(delivered)
    BY AllRead, LenProperties DEF TypeOK
  <2>2. PICK i \in 1 .. Len(order) : order[i] = s
    BY <2>1 DEF BegunOnce
  <2> QED
    BY <2>1, <2>2 DEF DeliveredSent
<1> QED
  BY <1>1, <1>2, <1>3, TypeCorrect, SentOnce, PTL DEF Spec
=============================================================================
