--------------------------- MODULE NetworkProofs ---------------------------
(***************************************************************************)
(* Proofs about NetworkManager, for any peers, tasks and descriptors.      *)
(***************************************************************************)
EXTENDS NetworkManager, FiniteSetTheorems, WellFoundedInduction, TLAPS

(* A connection, accepted or waiting to be, is with one of the peers.      *)
ConnectionsHavePeers ==
  /\ \A fd \in Fds : file[fd].kind = "conn" => file[fd].peer \in Peers
  /\ \A i \in DOMAIN backlog :
       backlog[i].kind = "conn" /\ backlog[i].peer \in Peers

(* A task that has used up its retries does not try again.                 *)
RetriesLeft == \A s \in Senders : retry[s] = -1 => sender[s] = "threw"

KernelOK ==
  /\ file \in [Fds -> Files]
  /\ watched \subseteq {fd \in Fds : file[fd].kind \in {"listen", "conn"}}
  /\ backlog \in Seq(Files)
  /\ ConnectionsHavePeers

ManagerOK ==
  /\ sockfd \in Fds \cup {NoSock} /\ epoll_fd \in Fds \cup {NoSock}
  /\ running \in BOOLEAN
  /\ socks \in [Peers -> Fds \cup {NoSock, Absent}]
  /\ addr \in [Peers -> Peers \cup {Nobody}]
  /\ server \in ServerStates
  /\ events \subseteq Fds
  /\ owner \in OwnerStates

TasksOK ==
  /\ sender \in [Senders -> SenderStates]
  /\ sock \in [Senders -> Fds \cup {NoSock}]
  /\ retry \in [Senders -> Nat \cup {-1}]
  /\ sent \in [Senders -> Peers \cup {Nobody}]
  /\ stale \subseteq Peers \cup Senders
  /\ RetriesLeft

Typed == KernelOK /\ ManagerOK /\ TasksOK
-----------------------------------------------------------------------------
(* A set of descriptors that is not empty has a lowest one.                *)
LEMMA HasLeast ==
  ASSUME NEW T, T \subseteq Nat, T # {}
  PROVE  \E x \in T : \A y \in T : x <= y
<1>1. IsWellFoundedOn(OpToRel(<, Nat), Nat)
  BY NatLessThanWellFounded
<1>2. PICK x \in T : \A y \in T : ~(<<y, x>> \in OpToRel(<, Nat))
  BY <1>1, WFMin
<1>3. \A y \in T : ~(y < x)
  BY <1>2 DEF OpToRel
<1> QED
  BY <1>3

LEMMA FdsAreNat == Fds \subseteq Nat /\ NoSock \notin Fds /\ Absent \notin Fds
  BY NetworkAssumption DEF Fds, NoSock, Absent

LEMMA LowestIsFree ==
  ASSUME FreeFds # {}
  PROVE  Lowest \in Fds /\ file[Lowest].kind = "free"
<1>1. FreeFds \subseteq Nat
  BY FdsAreNat DEF FreeFds
<1>2. \E fd \in FreeFds : \A other \in FreeFds : fd <= other
  BY <1>1, HasLeast
<1>3. Lowest \in FreeFds
  BY <1>2 DEF Lowest
<1> QED
  BY <1>3 DEF FreeFds

LEMMA NextLowestIsFree ==
  ASSUME Cardinality(FreeFds) >= 2
  PROVE  /\ FreeFds # {} /\ NextLowest # Lowest
         /\ NextLowest \in Fds /\ file[NextLowest].kind = "free"
<1> DEFINE T == FreeFds \ {Lowest}
<1>1. FreeFds # {}
  BY FS_EmptySet
<1>2. IsFiniteSet(FreeFds)
  <2>1. IsFiniteSet(Fds)
    BY FS_Interval, NetworkAssumption DEF Fds
  <2> QED
    BY <2>1, FS_Subset DEF FreeFds
<1>3. T # {}
  <2>1. FreeFds \subseteq {Lowest} =>
          Cardinality(FreeFds) <= Cardinality({Lowest})
    BY FS_Singleton, FS_Subset
  <2>2. Cardinality(FreeFds) \in Nat /\ Cardinality({Lowest}) = 1
    BY <1>2, FS_CardinalityType, FS_Singleton
  <2>3. ~(FreeFds \subseteq {Lowest})
    BY <2>1, <2>2
  <2> QED
    BY <2>3
<1>4. T \subseteq Nat
  BY FdsAreNat DEF FreeFds
<1>5. \E fd \in T : \A other \in T : fd <= other
  BY <1>3, <1>4, HasLeast
<1>6. NextLowest \in T
  BY <1>5 DEF NextLowest
<1> QED
  BY <1>1, <1>6 DEF FreeFds

LEMMA connfdIsEvent ==
  ASSUME events \subseteq Fds, events # {}
  PROVE  connfd \in events
<1>1. \E fd \in events : \A other \in events : fd <= other
  BY FdsAreNat, HasLeast
<1> QED
  BY <1>1 DEF connfd

(* What descriptors may refer to.                                          *)
LEMMA FilesMade ==
  /\ NoFile \in Files /\ NoFile.kind = "free"
  /\ \A kind \in {"listen", "epoll", "idle"} :
       File(kind) \in Files /\ File(kind).kind = kind
  /\ \A p \in Peers, i \in Seq({"report", "message"}), part \in BOOLEAN :
       /\ Connection(p, i, part) \in Files
       /\ Connection(p, i, part).kind = "conn"
       /\ Connection(p, i, part).peer = p
<1>1. NoFile \in Files /\ NoFile.kind = "free"
  BY DEF NoFile, Files
<1>2. \A kind \in {"listen", "epoll", "idle"} :
        File(kind) \in Files /\ File(kind).kind = kind
  <2> SUFFICES ASSUME NEW kind \in {"listen", "epoll", "idle"}
               PROVE  File(kind) \in Files /\ File(kind).kind = kind
    OBVIOUS
  <2>1. \A f \in Files : /\ [f EXCEPT !.kind = kind] \in Files
                         /\ [f EXCEPT !.kind = kind].kind = kind
    BY DEF Files
  <2> QED
    BY <1>1, <2>1 DEF File
<1>3. \A p \in Peers, i \in Seq({"report", "message"}), part \in BOOLEAN :
        /\ Connection(p, i, part) \in Files
        /\ Connection(p, i, part).kind = "conn"
        /\ Connection(p, i, part).peer = p
  BY DEF Connection, Files
<1> QED
  BY <1>1, <1>2, <1>3

LEMMA FileKept ==
  ASSUME NEW f \in Files
  PROVE  /\ \A i \in Seq({"report", "message"}) :
              /\ [f EXCEPT !.input = i] \in Files
              /\ [f EXCEPT !.input = i].kind = f.kind
              /\ [f EXCEPT !.input = i].peer = f.peer
         /\ \A part \in BOOLEAN :
              /\ [f EXCEPT !.part = part] \in Files
              /\ [f EXCEPT !.part = part].kind = f.kind
              /\ [f EXCEPT !.part = part].peer = f.peer
         /\ [f EXCEPT !.ended = TRUE] \in Files
         /\ [f EXCEPT !.ended = TRUE].kind = f.kind
         /\ [f EXCEPT !.ended = TRUE].peer = f.peer
         /\ f.input \in Seq({"report", "message"})
         /\ f.peer \in Peers \cup {Nobody}
  BY DEF Files
-----------------------------------------------------------------------------
(* What a step of the kernel does to the descriptors in use.               *)
Same(fd) == file'[fd].kind = file[fd].kind /\ file'[fd].peer = file[fd].peer
UsedStay == \A fd \in Fds : file[fd].kind # "free" => Same(fd)

(* A step that leaves the descriptors alone may watch a connection.        *)
LEMMA WatchKeepsKernel ==
  ASSUME KernelOK, UNCHANGED <<file, backlog>>,
         NEW fd, fd \in Fds => file[fd].kind = "conn",
         \/ watched' \subseteq watched
         \/ fd \in Fds /\ watched' = watched \cup {fd}
  PROVE  KernelOK' /\ UsedStay
  BY DEF KernelOK, ConnectionsHavePeers, UsedStay, Same

(* A free descriptor is taken into use.                                    *)
LEMMA TakeKeepsKernel ==
  ASSUME KernelOK, NEW fd \in Fds, file[fd].kind = "free",
         NEW f \in Files, f.kind = "conn" => f.peer \in Peers,
         file' = [file EXCEPT ![fd] = f],
         \/ backlog' = backlog
         \/ backlog # <<>> /\ backlog' = Tail(backlog),
         \/ watched' = watched
         \/ f.kind = "conn" /\ watched' = watched \cup {fd}
  PROVE  KernelOK' /\ UsedStay
<1>1. /\ \A other \in Fds : other # fd => file'[other] = file[other]
      /\ file'[fd] = f /\ file' \in [Fds -> Files]
  BY DEF KernelOK
<1>2. UsedStay
  BY <1>1 DEF UsedStay, Same
<1>3. /\ backlog' \in Seq(Files)
      /\ \A i \in DOMAIN backlog' :
           backlog'[i].kind = "conn" /\ backlog'[i].peer \in Peers
  <2>1. CASE backlog' = backlog
    BY <2>1 DEF KernelOK, ConnectionsHavePeers
  <2>2. CASE backlog # <<>> /\ backlog' = Tail(backlog)
    <3>1. backlog \in Seq(Files) /\ Tail(backlog) \in Seq(Files)
      BY <2>2 DEF KernelOK
    <3>2. ASSUME NEW i \in DOMAIN Tail(backlog)
          PROVE  i + 1 \in DOMAIN backlog /\ Tail(backlog)[i] = backlog[i + 1]
      BY <2>2, <3>1
    <3> QED
      BY <2>2, <3>1, <3>2 DEF KernelOK, ConnectionsHavePeers
  <2> QED
    BY <2>1, <2>2
<1>4. watched' \subseteq
          {other \in Fds : file'[other].kind \in {"listen", "conn"}}
  BY <1>1 DEF KernelOK
<1>5. \A other \in Fds :
          file'[other].kind = "conn" => file'[other].peer \in Peers
  BY <1>1 DEF KernelOK, ConnectionsHavePeers
<1> QED
  BY <1>1, <1>2, <1>3, <1>4, <1>5 DEF KernelOK, ConnectionsHavePeers

(* A descriptor is closed, by whomever.                                    *)
LEMMA CloseKeepsKernel ==
  ASSUME KernelOK, NEW fd, NEW self, Close(fd, self)
  PROVE  /\ KernelOK' /\ watched' \subseteq watched
         /\ \A other \in Fds : other # fd => Same(other)
         /\ watched' = watched \ {fd}
<1>1. CASE fd \in Fds
  <2>1. /\ \A other \in Fds : other # fd => file'[other] = file[other]
        /\ file'[fd] = NoFile /\ file' \in [Fds -> Files]
        /\ watched' = watched \ {fd}
        /\ backlog' = backlog \/ backlog' = <<>>
    BY <1>1, FilesMade DEF KernelOK, Close
  <2>2. NoFile.kind # "conn"
    BY FilesMade
  <2>3. /\ backlog' \in Seq(Files)
        /\ \A i \in DOMAIN backlog' :
             backlog'[i].kind = "conn" /\ backlog'[i].peer \in Peers
    <3>1. CASE backlog' = backlog
      BY <3>1 DEF KernelOK, ConnectionsHavePeers
    <3>2. CASE backlog' = <<>>
      BY <3>2
    <3> QED
      BY <2>1, <3>1, <3>2
  <2>4. \A other \in Fds :
          file'[other].kind = "conn" => file'[other].peer \in Peers
    BY <2>1, <2>2 DEF KernelOK, ConnectionsHavePeers
  <2>5. watched' \subseteq
          {other \in Fds : file'[other].kind \in {"listen", "conn"}}
    BY <2>1 DEF KernelOK
  <2> QED
    BY <2>1, <2>3, <2>4, <2>5 DEF KernelOK, ConnectionsHavePeers, Same
<1>2. CASE fd \notin Fds
  BY <1>2 DEF KernelOK, ConnectionsHavePeers, Close, Same
<1> QED
  BY <1>1, <1>2

(* What a connection has to be read, and whether it has ended, changes.    *)
LEMMA InputKeepsKernel ==
  ASSUME KernelOK, NEW fd \in Fds, NEW f \in Files,
         f.kind = file[fd].kind, f.peer = file[fd].peer,
         file' = [file EXCEPT ![fd] = f], UNCHANGED <<watched, backlog>>
  PROVE  KernelOK' /\ UsedStay
<1>1. /\ \A other \in Fds : other # fd => file'[other] = file[other]
      /\ file'[fd] = f /\ file' \in [Fds -> Files]
  BY DEF KernelOK
<1>2. \A other \in Fds : Same(other)
  BY <1>1 DEF Same
<1> QED
  BY <1>1, <1>2 DEF KernelOK, ConnectionsHavePeers, UsedStay, Same
-----------------------------------------------------------------------------
(* The peers keep the kernel's types ...                                   *)
LEMMA PeersKeepKernel ==
  ASSUME Typed,
         \/ \E p \in Peers : PeerConnects(p) \/ RegisterTarget(p)
         \/ \E fd \in Fds : PeerSends(fd) \/ PeerCompletes(fd) \/ PeerEnds(fd)
  PROVE  KernelOK' /\ UsedStay
<1>1. ASSUME NEW p \in Peers, PeerConnects(p)
      PROVE  KernelOK' /\ UsedStay
  <2>0. <<"report">> \in Seq({"report", "message"})
    OBVIOUS
  <2>1. PICK part \in BOOLEAN :
          backlog' = Append(backlog, Connection(p, <<"report">>, part))
    BY <1>1 DEF PeerConnects
  <2> DEFINE c == Connection(p, <<"report">>, part)
  <2>2. c \in Files /\ c.kind = "conn" /\ c.peer = p
    BY <2>0, FilesMade
  <2>4. backlog' = Append(backlog, c) /\ UNCHANGED <<file, watched>>
    BY <1>1, <2>1 DEF PeerConnects
  <2> HIDE DEF c
  <2>3. /\ backlog' \in Seq(Files)
        /\ \A i \in DOMAIN backlog' :
             backlog'[i].kind = "conn" /\ backlog'[i].peer \in Peers
    BY <2>2, <2>4 DEF Typed, KernelOK, ConnectionsHavePeers
  <2> QED
    BY <2>3, <2>4 DEF Typed, KernelOK, ConnectionsHavePeers, UsedStay, Same
<1>2. ASSUME NEW p \in Peers, RegisterTarget(p)
      PROVE  KernelOK' /\ UsedStay
  BY <1>2 DEF RegisterTarget, Typed, KernelOK, ConnectionsHavePeers, UsedStay,
              Same
<1>3. ASSUME NEW fd \in Fds, PeerSends(fd)
      PROVE  KernelOK' /\ UsedStay
  <2>0. PICK part \in BOOLEAN :
          file' = [file EXCEPT ![fd].input = Append(@, "message"),
                               ![fd].part = part]
    BY <1>3 DEF PeerSends
  <2> DEFINE i == Append(file[fd].input, "message")
             g == [file[fd] EXCEPT !.input = i]
             f == [g EXCEPT !.part = part]
  <2>1. file[fd] \in Files
    BY DEF Typed, KernelOK
  <2>2. i \in Seq({"report", "message"})
    <3>1. file[fd].input \in Seq({"report", "message"})
      BY <2>1, FileKept
    <3> QED
      BY <3>1
  <2>3. g \in Files /\ g.kind = file[fd].kind /\ g.peer = file[fd].peer
    BY <2>1, <2>2, FileKept
  <2>4. f \in Files /\ f.kind = file[fd].kind /\ f.peer = file[fd].peer
    <3> HIDE DEF g
    <3>1. g \in Files
      BY <2>3
    <3>2. f \in Files /\ f.kind = g.kind /\ f.peer = g.peer
      BY <2>0, <3>1, FileKept
    <3> QED
      BY <2>3, <3>2
  <2>5. file' = [file EXCEPT ![fd] = f]
    <3> DEFINE h == [file EXCEPT ![fd] = g]
    <3>1. file \in [Fds -> Files]
      BY DEF Typed, KernelOK
    <3>2. file' = [h EXCEPT ![fd].part = part]
      BY <2>0
    <3>3. h[fd] = g
      BY <3>1
    <3>4. file' = [h EXCEPT ![fd] = f]
      BY <3>2, <3>3
    <3> HIDE DEF f, g
    <3> QED
      BY <3>1, <3>4
  <2>6. UNCHANGED <<watched, backlog>>
    BY <1>3 DEF PeerSends
  <2> HIDE DEF f
  <2> QED
    BY <2>4, <2>5, <2>6, InputKeepsKernel DEF Typed
<1>4. ASSUME NEW fd \in Fds, PeerEnds(fd)
      PROVE  KernelOK' /\ UsedStay
  <2> DEFINE f == [file[fd] EXCEPT !.ended = TRUE]
  <2>1. file[fd] \in Files
    BY DEF Typed, KernelOK
  <2>2. f \in Files /\ f.kind = file[fd].kind /\ f.peer = file[fd].peer
    BY <2>1, FileKept
  <2>3. file' = [file EXCEPT ![fd] = f] /\ UNCHANGED <<watched, backlog>>
    BY <1>4 DEF PeerEnds
  <2> HIDE DEF f
  <2> QED
    BY <2>2, <2>3, InputKeepsKernel DEF Typed
<1>5. ASSUME NEW fd \in Fds, PeerCompletes(fd)
      PROVE  KernelOK' /\ UsedStay
  <2> DEFINE f == [file[fd] EXCEPT !.part = FALSE]
  <2>1. file[fd] \in Files
    BY DEF Typed, KernelOK
  <2>2. f \in Files /\ f.kind = file[fd].kind /\ f.peer = file[fd].peer
    BY <2>1, FileKept
  <2>3. file' = [file EXCEPT ![fd] = f] /\ UNCHANGED <<watched, backlog>>
    BY <1>5 DEF PeerCompletes
  <2> HIDE DEF f
  <2> QED
    BY <2>2, <2>3, InputKeepsKernel DEF Typed
<1> QED
  BY <1>1, <1>2, <1>3, <1>4, <1>5

(* ... so does the start of the server ...                                 *)
LEMMA OpenKeepsKernel ==
  ASSUME Typed, Open
  PROVE  /\ KernelOK' /\ UsedStay
         /\ sockfd' \in Fds /\ epoll_fd' \in Fds
         /\ file'[sockfd'].kind = "listen" /\ file'[epoll_fd'].kind = "epoll"
         /\ file[sockfd'].kind = "free"
<1> DEFINE l == Lowest
           e == NextLowest
<1>1. /\ l \in Fds /\ file[l].kind = "free" /\ e \in Fds /\ e # l
      /\ file[e].kind = "free"
  BY LowestIsFree, NextLowestIsFree DEF Open
<1>2. /\ file' = [file EXCEPT ![l] = File("listen"), ![e] = File("epoll")]
      /\ sockfd' = l /\ epoll_fd' = e /\ watched' = {l} /\ backlog' = backlog
  BY DEF Open
<1> HIDE DEF l, e
<1>3. /\ File("listen") \in Files /\ File("listen").kind = "listen"
      /\ File("epoll") \in Files /\ File("epoll").kind = "epoll"
  BY FilesMade
<1>4. /\ file'[l] = File("listen") /\ file'[e] = File("epoll")
      /\ \A fd \in Fds \ {l, e} : file'[fd] = file[fd]
      /\ file' \in [Fds -> Files]
  BY <1>1, <1>2, <1>3 DEF Typed, KernelOK
<1>5. UsedStay
  BY <1>1, <1>4 DEF UsedStay, Same
<1>6. \A fd \in Fds : file'[fd].kind = "conn" => file'[fd].peer \in Peers
  BY <1>3, <1>4 DEF Typed, KernelOK, ConnectionsHavePeers
<1> QED
  BY <1>1, <1>2, <1>3, <1>4, <1>5, <1>6
  DEF Typed, KernelOK, ConnectionsHavePeers

LEMMA OpenFailsKeepsKernel ==
  ASSUME Typed, OpenFails
  PROVE  /\ KernelOK' /\ UsedStay
         /\ sockfd' \in Fds \cup {sockfd} /\ epoll_fd' \in Fds \cup {epoll_fd}
<1>1. UNCHANGED <<watched, backlog>>
  BY DEF OpenFails
<1>2. CASE UNCHANGED <<file, sockfd, epoll_fd>>
  BY <1>1, <1>2 DEF Typed, KernelOK, ConnectionsHavePeers, UsedStay, Same
<1>3. ASSUME FreeFds # {}, NEW kind \in {"idle", "listen"},
             file' = [file EXCEPT ![Lowest] = File(kind)],
             sockfd' = Lowest, UNCHANGED epoll_fd
      PROVE  /\ KernelOK' /\ UsedStay
             /\ sockfd' \in Fds \cup {sockfd}
             /\ epoll_fd' \in Fds \cup {epoll_fd}
  <2>1. File(kind) \in Files /\ File(kind).kind = kind
    BY FilesMade
  <2> QED
    BY <1>1, <1>3, <2>1, LowestIsFree, TakeKeepsKernel DEF Typed
<1>4. CASE /\ Cardinality(FreeFds) >= 2
           /\ file' = [file EXCEPT ![Lowest] = File("listen"),
                                   ![NextLowest] = File("epoll")]
           /\ sockfd' = Lowest /\ epoll_fd' = NextLowest
  <2> DEFINE l == Lowest
             e == NextLowest
  <2>1. /\ l \in Fds /\ file[l].kind = "free" /\ e \in Fds /\ e # l
        /\ file[e].kind = "free"
    BY <1>4, LowestIsFree, NextLowestIsFree
  <2>2. /\ file' = [file EXCEPT ![l] = File("listen"), ![e] = File("epoll")]
        /\ sockfd' = l /\ epoll_fd' = e
    BY <1>4
  <2> HIDE DEF l, e
  <2>3. /\ File("listen") \in Files /\ File("listen").kind = "listen"
        /\ File("epoll") \in Files /\ File("epoll").kind = "epoll"
    BY FilesMade
  <2>4. /\ file'[l] = File("listen") /\ file'[e] = File("epoll")
        /\ \A fd \in Fds \ {l, e} : file'[fd] = file[fd]
        /\ file' \in [Fds -> Files]
    BY <2>1, <2>2, <2>3 DEF Typed, KernelOK
  <2>5. UsedStay
    BY <2>1, <2>4 DEF UsedStay, Same
  <2>6. \A fd \in Fds : file'[fd].kind = "conn" => file'[fd].peer \in Peers
    BY <2>3, <2>4 DEF Typed, KernelOK, ConnectionsHavePeers
  <2>7. watched' \subseteq {fd \in Fds : file'[fd].kind \in {"listen", "conn"}}
    BY <1>1, <2>1, <2>4 DEF Typed, KernelOK
  <2> QED
    BY <1>1, <2>1, <2>2, <2>4, <2>5, <2>6, <2>7
    DEF Typed, KernelOK, ConnectionsHavePeers
<1> QED
  BY <1>2, <1>3, <1>4 DEF OpenFails

(* ... accept() ...                                                        *)
LEMMA AcceptKeepsKernel ==
  ASSUME Typed, Accept
  PROVE  /\ KernelOK' /\ UsedStay
         /\ watched' \subseteq watched \cup FreeFds
         /\ watched \subseteq watched'
<1>1. CASE UNCHANGED <<file, backlog, watched>>
  BY <1>1 DEF Typed, KernelOK, ConnectionsHavePeers, UsedStay, Same
<1>3. CASE UNCHANGED <<file, watched>> /\ backlog # <<>>
             /\ backlog' = Tail(backlog)
  <2>1. backlog \in Seq(Files) /\ Tail(backlog) \in Seq(Files)
    BY <1>3 DEF Typed, KernelOK
  <2>2. ASSUME NEW i \in DOMAIN Tail(backlog)
        PROVE  i + 1 \in DOMAIN backlog /\ Tail(backlog)[i] = backlog[i + 1]
    BY <1>3, <2>1
  <2> QED
    BY <1>3, <2>1, <2>2
    DEF Typed, KernelOK, ConnectionsHavePeers, UsedStay, Same
<1>2. CASE /\ backlog # <<>> /\ FreeFds # {}
           /\ file' = [file EXCEPT ![Lowest] = Head(backlog)]
           /\ backlog' = Tail(backlog)
           /\ Watch(Lowest)
  <2>1. /\ Head(backlog) \in Files /\ Head(backlog).kind = "conn"
        /\ Head(backlog).peer \in Peers
    BY <1>2 DEF Typed, KernelOK, ConnectionsHavePeers
  <2>2. Lowest \in Fds /\ file[Lowest].kind = "free" /\ Lowest \in FreeFds
    BY <1>2, LowestIsFree DEF FreeFds
  <2>3. watched' = watched \/ watched' = watched \cup {Lowest}
    BY <1>2 DEF Watch
  <2>4. KernelOK' /\ UsedStay
    BY <1>2, <2>1, <2>2, <2>3, TakeKeepsKernel DEF Typed
  <2> QED
    BY <2>2, <2>3, <2>4
<1> QED
  BY <1>1, <1>2, <1>3 DEF Accept

(* ... read() ...                                                          *)
LEMMA ReadKeepsKernel ==
  ASSUME Typed, ReadReport \/ ReadMessage
  PROVE  KernelOK' /\ UsedStay
<1> DEFINE i == Tail(file[connfd].input)
           f == [file[connfd] EXCEPT !.input = i]
<1>1. /\ connfd \in Fds /\ file[connfd].input # <<>>
      /\ file' = [file EXCEPT ![connfd] = f] /\ UNCHANGED <<watched, backlog>>
  BY DEF ReadReport, ReadMessage, Arrived, Is
<1>2. /\ file[connfd] \in Files
      /\ file[connfd].input \in Seq({"report", "message"})
  BY <1>1, FileKept DEF Typed, KernelOK
<1>3. i \in Seq({"report", "message"})
  BY <1>1, <1>2
<1>4. f \in Files /\ f.kind = file[connfd].kind /\ f.peer = file[connfd].peer
  BY <1>2, <1>3, FileKept
<1> HIDE DEF f
<1> QED
  BY <1>1, <1>4, InputKeepsKernel DEF Typed

(* ... and a socket that a task makes.                                     *)
LEMMA MakeKeepsKernel ==
  ASSUME Typed, NEW s \in Senders, MakeSocket(s)
  PROVE  /\ KernelOK' /\ UsedStay /\ Lowest \in Fds
         /\ file[Lowest].kind = "free"
         /\ file'[Lowest].kind = "conn" /\ file'[Lowest].peer = addr[To[s]]
<1> DEFINE c == Connection(addr[To[s]], <<>>, FALSE)
<1>1. Lowest \in Fds /\ file[Lowest].kind = "free" /\ file \in [Fds -> Files]
  BY LowestIsFree DEF MakeSocket, Typed, KernelOK
<1>2. addr[To[s]] \in Peers /\ <<>> \in Seq({"report", "message"})
  BY NetworkAssumption DEF MakeSocket, Typed, ManagerOK
<1>3. c \in Files /\ c.kind = "conn" /\ c.peer = addr[To[s]]
  BY <1>2, FilesMade
<1>4. file' = [file EXCEPT ![Lowest] = c] /\ UNCHANGED <<backlog, watched>>
  BY DEF MakeSocket
<1> HIDE DEF c
<1>5. file'[Lowest] = c
  BY <1>1, <1>4
<1> QED
  BY <1>1, <1>2, <1>3, <1>4, <1>5, TakeKeepsKernel DEF Typed

LEMMA ConnectFailsKeepsKernel ==
  ASSUME Typed, NEW s \in Senders, ConnectFails(s)
  PROVE  KernelOK' /\ UsedStay
<1>1. Lowest \in Fds /\ file[Lowest].kind = "free"
  BY LowestIsFree DEF ConnectFails
<1>2. /\ File("idle") \in Files /\ File("idle").kind = "idle"
      /\ file' = [file EXCEPT ![Lowest] = File("idle")]
      /\ UNCHANGED <<backlog, watched>>
  BY FilesMade DEF ConnectFails
<1> QED
  BY <1>1, <1>2, TakeKeepsKernel DEF Typed
-----------------------------------------------------------------------------
(* Who had the descriptor that is closed is noted.                         *)
LEMMA CloseMarks ==
  ASSUME stale \subseteq Peers \cup Senders, NEW fd, NEW self, Close(fd, self)
  PROVE  /\ stale' \subseteq Peers \cup Senders /\ stale \subseteq stale'
         /\ fd \in Fds =>
              /\ \A r \in Peers : socks[r] = fd => r \in stale'
              /\ \A s \in Senders \ self : sock[s] = fd => s \in stale'
  BY DEF Close

LEMMA ServeKeepsTyped ==
  ASSUME Typed, Serve \/ PollIsInterrupted \/ GetMessage
  PROVE  Typed'
<1>1. ASSUME NEW fd, Close(fd, {})
      PROVE  KernelOK' /\ stale' \subseteq Peers \cup Senders
  BY <1>1, CloseKeepsKernel, CloseMarks DEF Typed, TasksOK
<1>2. ASSUME UNCHANGED <<file, backlog>>, watched' \subseteq watched
      PROVE  KernelOK'
  BY <1>2, WatchKeepsKernel, FdsAreNat DEF Typed
<1>3. KernelOK'
  <2>1. CASE Open \/ OpenFails \/ Accept \/ ReadReport \/ ReadMessage
    BY <2>1, OpenKeepsKernel, OpenFailsKeepsKernel, AcceptKeepsKernel,
       ReadKeepsKernel
  <2>2. CASE Poll \/ PollIsInterrupted \/ Unwatch \/ GetMessage
    BY <1>2, <2>2 DEF Poll, PollIsInterrupted, Unwatch, GetMessage
  <2>3. CASE CloseSocket \/ EndSock
    BY <1>1, <2>3 DEF CloseSocket, EndSock
  <2>4. CASE TestRunning
    BY <1>1, <1>2, <2>4 DEF TestRunning
  <2> QED
    BY <2>1, <2>2, <2>3, <2>4 DEF Serve
<1>4. TasksOK'
  <2>1. stale' \subseteq Peers \cup Senders
    <3>1. CASE CloseSocket \/ EndSock \/ TestRunning
      BY <1>1, <3>1 DEF CloseSocket, EndSock, TestRunning, Typed, TasksOK
    <3>2. CASE ~(CloseSocket \/ EndSock \/ TestRunning)
      BY <3>2
      DEF Serve, Open, OpenFails, Poll, PollIsInterrupted, Accept, ReadReport,
          ReadMessage, GetMessage, Unwatch, Typed, TasksOK
    <3> QED
      BY <3>1, <3>2
  <2>2. UNCHANGED task
    BY DEF Serve, Open, OpenFails, Poll, PollIsInterrupted, Accept, ReadReport,
           ReadMessage, GetMessage, CloseSocket, Unwatch, TestRunning, EndSock,
           serving
  <2> QED
    BY <2>1, <2>2 DEF Typed, TasksOK, RetriesLeft, task
<1>5. ManagerOK'
  <2> USE DEF Typed, ManagerOK, ServerStates
  <2>1. CASE Open
    BY <2>1, OpenKeepsKernel DEF Open, serving
  <2>2. CASE OpenFails
    BY <2>2, OpenFailsKeepsKernel DEF OpenFails, serving
  <2>3. CASE Poll \/ PollIsInterrupted
    BY <2>3 DEF Poll, PollIsInterrupted, serving, KernelOK
  <2>4. CASE Accept
    BY <2>4 DEF Accept, serving
  <2>5. CASE ReadReport
    <3> DEFINE r == file[connfd].peer
    <3>1. connfd \in Fds /\ r \in Peers
      BY <2>5 DEF ReadReport, Arrived, Is, KernelOK, ConnectionsHavePeers
    <3>2. AtMyHost[r] \in Peers \cup {Nobody}
      BY <3>1, NetworkAssumption
    <3>3. \/ UNCHANGED <<socks, addr>>
          \/ /\ socks' = [socks EXCEPT ![r] = connfd]
             /\ addr' = [addr EXCEPT ![r] = AtMyHost[r]]
      BY <2>5 DEF ReadReport
    <3>4. /\ socks' \in [Peers -> Fds \cup {NoSock, Absent}]
          /\ addr' \in [Peers -> Peers \cup {Nobody}]
      BY <3>1, <3>2, <3>3
    <3> QED
      BY <2>5, <3>4 DEF ReadReport
  <2>6. CASE ReadMessage \/ GetMessage \/ CloseSocket \/ Unwatch \/ TestRunning
               \/ EndSock
    BY <2>6 DEF ReadMessage, GetMessage, CloseSocket, Unwatch, TestRunning,
                EndSock, serving
  <2> QED
    BY <2>1, <2>2, <2>3, <2>4, <2>5, <2>6 DEF Serve
<1> QED
  BY <1>3, <1>4, <1>5 DEF Typed

LEMMA OwnerKeepsTyped ==
  ASSUME Typed, Start \/ Stop \/ Destroy \/ Own
  PROVE  Typed'
<1>1. KernelOK' /\ stale' \subseteq Peers \cup Senders
  <2>1. CASE CloseSock \/ CloseEpoll
    BY <2>1, CloseKeepsKernel, CloseMarks
    DEF CloseSock, CloseEpoll, Typed, TasksOK
  <2>2. CASE UNCHANGED <<file, watched, backlog, stale>>
    BY <2>2, WatchKeepsKernel, FdsAreNat DEF Typed, TasksOK
  <2> QED
    BY <2>1, <2>2
    DEF Start, Stop, Destroy, Own, Started, ClearSock, ClearEpoll,
        Join, kernel
<1>2. TasksOK'
  <2>1. UNCHANGED task
    BY DEF Start, Stop, Destroy, Own, Started, CloseSock, ClearSock,
           CloseEpoll,
           ClearEpoll, Join, owning
  <2> QED
    BY <1>1, <2>1 DEF Typed, TasksOK, RetriesLeft, task
<1>3. ManagerOK'
  BY DEF Typed, ManagerOK, ServerStates, OwnerStates, StopStates, Start, Stop,
         Destroy, Own, Started, CloseSock, ClearSock, CloseEpoll, ClearEpoll,
         Join, owning, loop
<1> QED
  BY <1>1, <1>2, <1>3 DEF Typed

LEMMA TryAgainKeepsTyped ==
  ASSUME TasksOK, NEW s \in Senders, sender[s] # "threw", TryAgain(s),
         stale' \subseteq Peers \cup Senders
  PROVE  TasksOK'
<1>1. retry[s] \in Nat
  BY DEF TasksOK, RetriesLeft
<1> QED
  BY <1>1 DEF TasksOK, RetriesLeft, TryAgain, SenderStates

LEMMA SenderKeepsTyped ==
  ASSUME Typed, NEW s \in Senders, SendOn(s)
  PROVE  Typed'
<1>1. To[s] \in Peers
  BY NetworkAssumption
<1>2. KernelOK'
  <2>1. CASE MakeSocket(s) \/ ConnectFails(s)
    BY <2>1, MakeKeepsKernel, ConnectFailsKeepsKernel
  <2>2. CASE Enter(s)
    BY <2>2, WatchKeepsKernel, FdsAreNat DEF Enter, Watch, Is, Typed
  <2>3. CASE ReportFails(s)
    BY <2>3, CloseKeepsKernel DEF ReportFails, Typed
  <2>4. CASE UNCHANGED <<file, watched, backlog>>
    BY <2>4, WatchKeepsKernel, FdsAreNat DEF Typed
  <2> QED
    BY <2>1, <2>2, <2>3, <2>4
    DEF SendOn, GoOn, FindSocket, FindNothing, AwaitRunning, Report, Write,
        WriteFails, Clear
<1>3. ManagerOK'
  BY <1>1
  DEF SendOn, GoOn, FindSocket, MakeSocket, ConnectFails, FindNothing,
      AwaitRunning, Report, Enter, ReportFails, Write, WriteFails, Clear,
      sending, loop, Typed, ManagerOK, TasksOK
<1>4. TasksOK'
  <2> USE DEF Typed
  <2>1. CASE FindSocket(s)
    BY <1>1, <2>1
    DEF FindSocket, TasksOK, RetriesLeft, SenderStates, ManagerOK, NoSock,
        Absent
  <2>2. CASE MakeSocket(s)
    BY <2>2, MakeKeepsKernel DEF MakeSocket, TasksOK, RetriesLeft, SenderStates
  <2>3. CASE ConnectFails(s) \/ FindNothing(s)
    BY <2>3, TryAgainKeepsTyped DEF ConnectFails, FindNothing, TasksOK
  <2>4. CASE AwaitRunning(s) \/ Report(s) \/ WriteFails(s)
    BY <2>4
    DEF AwaitRunning, Report, WriteFails, TasksOK, RetriesLeft, SenderStates
  <2>5. CASE Enter(s)
    BY <1>1, <2>5 DEF Enter, TasksOK, RetriesLeft, SenderStates
  <2>6. CASE ReportFails(s)
    BY <2>6, TryAgainKeepsTyped, CloseMarks DEF ReportFails, TasksOK
  <2>7. CASE Write(s)
    <3>1. file[sock[s]].peer \in Peers
      BY <2>7 DEF Write, Is, KernelOK, ConnectionsHavePeers
    <3> QED
      BY <2>7, <3>1 DEF Write, TasksOK, RetriesLeft, SenderStates
  <2>8. CASE Clear(s)
    BY <2>8, TryAgainKeepsTyped DEF Clear, TasksOK
  <2> QED
    BY <2>1, <2>2, <2>3, <2>4, <2>5, <2>6, <2>7, <2>8
    DEF SendOn, GoOn
<1> QED
  BY <1>2, <1>3, <1>4 DEF Typed

LEMMA NextTyped ==
  ASSUME Typed, [Next]_vars
  PROVE  Typed'
<1>1. CASE \/ \E p \in Peers : PeerConnects(p) \/ RegisterTarget(p)
           \/ \E fd \in Fds :
                PeerSends(fd) \/ PeerCompletes(fd) \/ PeerEnds(fd)
  <2>1. KernelOK'
    BY <1>1, PeersKeepKernel
  <2>2. ManagerOK'
    <3>1. ASSUME NEW p \in Peers, RegisterTarget(p)
          PROVE  ManagerOK'
      BY <3>1 DEF RegisterTarget, loop, Typed, ManagerOK
    <3>2. CASE UNCHANGED <<sockfd, epoll_fd, running, socks, addr, loop,
                           owner>>
      BY <3>2 DEF loop, Typed, ManagerOK
    <3> QED
      BY <1>1, <3>1, <3>2
      DEF PeerConnects, PeerSends, PeerCompletes, PeerEnds
  <2>3. TasksOK'
    BY <1>1
    DEF PeerConnects, RegisterTarget, PeerSends, PeerCompletes, PeerEnds, task,
        Typed, TasksOK, RetriesLeft
  <2> QED
    BY <2>1, <2>2, <2>3 DEF Typed
<1>2. CASE UNCHANGED vars
  BY <1>2
  DEF vars, kernel, loop, task, Typed, KernelOK, ConnectionsHavePeers,
      ManagerOK,
      TasksOK, RetriesLeft
<1> QED
  BY <1>1, <1>2, ServeKeepsTyped, OwnerKeepsTyped, SenderKeepsTyped DEF Next

LEMMA InitTyped == Init => Typed
<1> SUFFICES ASSUME Init PROVE Typed
  OBVIOUS
<1>1. KernelOK
  BY FilesMade DEF Init, KernelOK, ConnectionsHavePeers
<1>2. ManagerOK
  BY DEF Init, ManagerOK, ServerStates, OwnerStates
<1>3. TasksOK
  BY NetworkAssumption DEF Init, TasksOK, RetriesLeft, SenderStates
<1> QED
  BY <1>1, <1>2, <1>3 DEF Typed

THEOREM AlwaysTyped == Spec => []Typed
<1>1. Init => Typed
  BY InitTyped
<1>2. Typed /\ [Next]_vars => Typed'
  BY NextTyped
<1> QED
  BY <1>1, <1>2, PTL DEF Spec

(* Every variable has its type: no task counts its retries below -1, and   *)
(* epoll watches what can become readable only, although descriptors are   *)
(* closed and reused under the loop and the tasks.                         *)
THEOREM TypeCorrect == Spec => []TypeOK
<1>1. Typed => TypeOK
  BY DEF Typed, KernelOK, ManagerOK, TasksOK, TypeOK
<1> QED
  BY <1>1, AlwaysTyped, PTL
-----------------------------------------------------------------------------
(* Where the entry of a rank may lead.                                     *)
Places(r) == {r} \cup (IF r \in Known THEN {} ELSE {AtMyHost[r]})

(* A descriptor leads there: if there is one, it is a connection to it.    *)
Leads(fd, r) ==
  fd \in Fds => file[fd].kind = "conn" /\ file[fd].peer \in Places(r)

(* So do the entries and the tasks' sockets that nobody closed behind them,*)
EntriesLead == \A r \in Peers \ stale : Leads(socks[r], r)
SocksLead == \A s \in Senders \ stale : Leads(sock[s], To[s])

(* the addresses, as no report makes the entry of a rank that was known,   *)
AddressesLead == \A r \in Peers : /\ addr[r] \in Places(r)
                                  /\ r \in Known => socks[r] # Absent

(* and a task that has written its message does nothing any more.          *)
SentAtEnd == \A s \in Senders :
               sent[s] # Nobody => sender[s] \in {"returned", "threw"}

Led == EntriesLead /\ SocksLead /\ AddressesLead /\ SentAtEnd
         /\ OnlyEntriesMislead

LEMMA OwnPlace == \A r \in Peers : r \in Places(r)
  BY DEF Places

(* Nothing that is in use changes, and no more is trusted than before.     *)
LEMMA UsedStaysLed ==
  ASSUME Typed, Led, UsedStay, UNCHANGED <<socks, addr, task, stale>>
  PROVE  Led'
<1>1. \A fd, r : Leads(fd, r) /\ fd \in Fds =>
                  file'[fd].kind = "conn" /\ file'[fd].peer \in Places(r)
  BY DEF Leads, UsedStay, Same
<1> QED
  BY <1>1
  DEF Led, EntriesLead, SocksLead, AddressesLead, SentAtEnd,
      OnlyEntriesMislead, task, Leads

(* A descriptor is closed: who had it is stale.                            *)
LEMMA CloseLed ==
  ASSUME Typed, Led, NEW fd, Close(fd, {}),
         UNCHANGED <<socks, addr, task>>
  PROVE  Led'
<1>1. \A other \in Fds : other # fd => Same(other)
  BY CloseKeepsKernel DEF Typed
<1>2. /\ stale \subseteq stale'
      /\ fd \in Fds => /\ \A r \in Peers : socks[r] = fd => r \in stale'
                       /\ \A s \in Senders : sock[s] = fd => s \in stale'
  BY CloseMarks DEF Typed, TasksOK
<1>3. EntriesLead'
  BY <1>1, <1>2 DEF Led, EntriesLead, Leads, Same
<1>4. SocksLead'
  BY <1>1, <1>2 DEF Led, SocksLead, Leads, Same, task
<1>5. AddressesLead' /\ SentAtEnd' /\ OnlyEntriesMislead'
  BY <1>2 DEF Led, AddressesLead, SentAtEnd, OnlyEntriesMislead, task
<1> QED
  BY <1>3, <1>4, <1>5 DEF Led

LEMMA PeersKeepLed ==
  ASSUME Typed, Led,
         \/ \E p \in Peers : PeerConnects(p) \/ RegisterTarget(p)
         \/ \E fd \in Fds : PeerSends(fd) \/ PeerCompletes(fd) \/ PeerEnds(fd)
  PROVE  Led'
<1>1. UsedStay
  BY PeersKeepKernel
<1>2. ASSUME NEW r \in Peers, RegisterTarget(r)
      PROVE  Led'
  <2>1. UNCHANGED <<file, task>> /\ stale' = stale \ {r} /\ r \notin Senders
    BY <1>2, NetworkAssumption DEF RegisterTarget
  <2>2. /\ socks' = [socks EXCEPT ![r] = NoSock]
        /\ socks \in [Peers -> Fds \cup {NoSock, Absent}]
    BY <1>2 DEF RegisterTarget, Typed, ManagerOK
  <2>3. EntriesLead'
    BY <2>1, <2>2, FdsAreNat DEF Led, EntriesLead, Leads
  <2>4. /\ addr' = [addr EXCEPT ![r] = r]
        /\ addr \in [Peers -> Peers \cup {Nobody}]
    BY <1>2 DEF RegisterTarget, Typed, ManagerOK
  <2>5. AddressesLead'
    BY <2>2, <2>4, OwnPlace DEF Led, AddressesLead, NoSock, Absent
  <2> QED
    BY <2>1, <2>3, <2>5
    DEF Led, SocksLead, SentAtEnd, OnlyEntriesMislead, task, Leads
<1>3. ASSUME NEW p \in Peers, PeerConnects(p)
      PROVE  Led'
  BY <1>1, <1>3, UsedStaysLed DEF PeerConnects
<1>4. ASSUME NEW fd \in Fds, PeerSends(fd) \/ PeerCompletes(fd) \/ PeerEnds(fd)
      PROVE  Led'
  BY <1>1, <1>4, UsedStaysLed DEF PeerSends, PeerCompletes, PeerEnds
<1> QED
  BY <1>2, <1>3, <1>4

LEMMA ServeKeepsLed ==
  ASSUME Typed, Led, Serve \/ PollIsInterrupted \/ GetMessage
  PROVE  Led'
<1>1. CASE Open \/ OpenFails \/ Accept \/ ReadMessage
  <2>1. UsedStay
    BY <1>1, OpenKeepsKernel, OpenFailsKeepsKernel, AcceptKeepsKernel,
       ReadKeepsKernel
  <2> QED
    BY <1>1, <2>1, UsedStaysLed
    DEF Open, OpenFails, Accept, ReadMessage, serving
<1>2. CASE Poll \/ PollIsInterrupted \/ Unwatch \/ GetMessage
  <2>1. UsedStay
    BY <1>2 DEF Poll, PollIsInterrupted, Unwatch, GetMessage, UsedStay, Same
  <2> QED
    BY <1>2, <2>1, UsedStaysLed
    DEF Poll, PollIsInterrupted, Unwatch, GetMessage, serving
<1>3. CASE CloseSocket \/ EndSock
  BY <1>3, CloseLed DEF CloseSocket, EndSock, serving
<1>4. CASE TestRunning
  <2>1. CASE UNCHANGED <<file, stale>>
    <3>1. UsedStay
      BY <2>1 DEF UsedStay, Same
    <3> QED
      BY <1>4, <2>1, <3>1, UsedStaysLed DEF TestRunning, serving
  <2>2. CASE Close(epoll_fd, {})
    BY <1>4, <2>2, CloseLed DEF TestRunning, serving
  <2> QED
    BY <1>4, <2>1, <2>2 DEF TestRunning
<1>5. CASE ReadReport
  <2> DEFINE r == file[connfd].peer
  <2>1. UsedStay
    BY <1>5, ReadKeepsKernel
  <2>2. CASE UNCHANGED <<socks, addr>>
    BY <1>5, <2>1, <2>2, UsedStaysLed DEF ReadReport
  <2>3. CASE /\ socks[r] = Absent
             /\ socks' = [socks EXCEPT ![r] = connfd]
             /\ addr' = [addr EXCEPT ![r] = AtMyHost[r]]
    <3>1. /\ file[connfd].kind = "conn" /\ connfd \in Fds
          /\ UNCHANGED <<task, stale>>
      BY <1>5 DEF ReadReport, Arrived, Is
    <3>0. r \in Peers
      BY <3>1 DEF Typed, KernelOK, ConnectionsHavePeers
    <3>2. \A other \in Peers : socks'[other] = IF other = r THEN connfd
                                               ELSE socks[other]
      BY <2>3 DEF Typed, ManagerOK
    <3>3. EntriesLead'
      BY <2>1, <3>1, <3>2, OwnPlace
      DEF Led, EntriesLead, Leads, UsedStay, Same
    <3>4. SocksLead'
      BY <2>1, <3>1 DEF Led, SocksLead, Leads, UsedStay, Same, task
    <3>5. AddressesLead'
      <4>1. r \notin Known
        BY <2>3, <3>0 DEF Led, AddressesLead
      <4>2. \A other \in Peers : addr'[other] = IF other = r THEN AtMyHost[r]
                                                ELSE addr[other]
        BY <2>3 DEF Typed, ManagerOK
      <4> QED
        BY <3>2, <4>1, <4>2, NetworkAssumption DEF Led, AddressesLead, Places
    <3> QED
      BY <3>1, <3>3, <3>4, <3>5 DEF Led, SentAtEnd, OnlyEntriesMislead, task
  <2> QED
    BY <1>5, <2>2, <2>3 DEF ReadReport
<1> QED
  BY <1>1, <1>2, <1>3, <1>4, <1>5 DEF Serve

LEMMA OwnerKeepsLed ==
  ASSUME Typed, Led, Start \/ Stop \/ Destroy \/ Own
  PROVE  Led'
<1>1. CASE CloseSock \/ CloseEpoll
  BY <1>1, CloseLed DEF CloseSock, CloseEpoll, owning
<1>2. CASE ~(CloseSock \/ CloseEpoll)
  <2>1. UNCHANGED <<file, socks, addr, task, stale>>
    BY <1>2
    DEF Start, Stop, Destroy, Own, Started, ClearSock, ClearEpoll, Join,
        kernel, owning
  <2>2. UsedStay
    BY <2>1 DEF UsedStay, Same
  <2> QED
    BY <2>1, <2>2, UsedStaysLed
<1> QED
  BY <1>1, <1>2

LEMMA SenderKeepsLed ==
  ASSUME Typed, Led, NEW s \in Senders, SendOn(s)
  PROVE  Led'
<1>1. /\ To[s] \in Peers /\ \A t \in Senders : t \notin Peers
      /\ Nobody \notin Peers
  BY NetworkAssumption
<1>2. /\ socks \in [Peers -> Fds \cup {NoSock, Absent}]
      /\ sock \in [Senders -> Fds \cup {NoSock}]
      /\ sent \in [Senders -> Peers \cup {Nobody}]
      /\ sender \in [Senders -> SenderStates]
      /\ addr' = addr
  BY DEF Typed, ManagerOK, TasksOK, SendOn, GoOn, FindSocket, MakeSocket,
         ConnectFails, FindNothing, AwaitRunning, Report, Enter, ReportFails,
         Write, WriteFails, Clear, sending
<1> USE DEF Led
(* Only a task that has not written yet can be forgotten as stale.         *)
<1>3. ASSUME sent' = sent, sender[s] \notin {"returned", "threw"},
             \A t \in Senders \ {s} :
               sender'[t] = sender[t] /\ (t \in stale => t \in stale')
      PROVE  SentAtEnd' /\ OnlyEntriesMislead'
  BY <1>3 DEF SentAtEnd, OnlyEntriesMislead
<1>4. ASSUME UsedStay,
             \A t \in Senders \ {s} :
               sock'[t] = sock[t] /\ (t \in stale => t \in stale'),
             s \notin stale' => Leads(sock[s], To[s])'
      PROVE  SocksLead'
  BY <1>4 DEF SocksLead, Leads, UsedStay, Same
<1>5. ASSUME UsedStay, UNCHANGED socks,
             \A r \in Peers : r \in stale => r \in stale'
      PROVE  EntriesLead'
  BY <1>5 DEF EntriesLead, Leads, UsedStay, Same
<1>6. ASSUME UNCHANGED file
      PROVE  UsedStay
  BY <1>6 DEF UsedStay, Same
<1>16. ASSUME UNCHANGED socks PROVE AddressesLead'
  BY <1>2, <1>16 DEF AddressesLead
<1>7. CASE FindSocket(s)
  <2>1. UsedStay
    BY <1>6, <1>7 DEF FindSocket
  <2>2. /\ sock' = [sock EXCEPT ![s] = socks[To[s]]]
        /\ sender' = [sender EXCEPT ![s] = "writing"]
        /\ stale' = IF To[s] \in stale THEN stale \cup {s} ELSE stale \ {s}
        /\ UNCHANGED <<file, socks, sent>> /\ sender[s] = "looking"
    BY <1>7 DEF FindSocket
  <2>3. s \notin stale' => Leads(sock[s], To[s])'
    BY <1>1, <1>2, <2>2 DEF EntriesLead, Leads
  <2> QED
    BY <1>1, <1>2, <1>3, <1>4, <1>5, <1>16, <2>1, <2>2, <2>3
<1>8. CASE MakeSocket(s)
  <2>1. /\ UsedStay /\ Lowest \in Fds
        /\ file'[Lowest].kind = "conn" /\ file'[Lowest].peer = addr[To[s]]
    BY <1>8, MakeKeepsKernel
  <2>2. /\ sock' = [sock EXCEPT ![s] = Lowest] /\ stale' = stale \ {s}
        /\ sender' = [sender EXCEPT ![s] = "waiting"]
        /\ UNCHANGED <<socks, sent>> /\ sender[s] = "looking"
    BY <1>8 DEF MakeSocket
  <2>3. Leads(sock[s], To[s])'
    BY <1>1, <1>2, <2>1, <2>2 DEF Leads, AddressesLead
  <2> QED
    BY <1>1, <1>2, <1>3, <1>4, <1>5, <1>16, <2>1, <2>2, <2>3
<1>9. CASE ConnectFails(s) \/ FindNothing(s)
  <2>1. UsedStay
    BY <1>6, <1>9, ConnectFailsKeepsKernel DEF FindNothing
  <2>2. /\ sock' = [sock EXCEPT ![s] = NoSock] /\ stale' = stale
        /\ \A t \in Senders \ {s} : sender'[t] = sender[t]
        /\ UNCHANGED <<socks, sent>> /\ sender[s] = "looking"
    BY <1>2, <1>9 DEF ConnectFails, FindNothing, TryAgain
  <2>3. Leads(sock[s], To[s])'
    BY <1>2, <2>2, FdsAreNat DEF Leads
  <2> QED
    BY <1>2, <1>3, <1>4, <1>5, <1>16, <2>1, <2>2, <2>3
<1>10. CASE AwaitRunning(s) \/ Report(s)
  <2>1. UsedStay
    BY <1>6, <1>10 DEF AwaitRunning, Report
  <2>2. /\ \A t \in Senders \ {s} : sender'[t] = sender[t]
        /\ sender[s] \in {"waiting", "reporting"}
        /\ UNCHANGED <<file, socks, sock, sent, stale>>
    BY <1>2, <1>10 DEF AwaitRunning, Report
  <2>3. s \notin stale' => Leads(sock[s], To[s])'
    BY <2>2 DEF SocksLead, Leads
  <2> QED
    BY <1>2, <1>3, <1>4, <1>5, <1>16, <2>1, <2>2, <2>3
<1>11. CASE Enter(s)
  <2>1. UsedStay
    BY <1>6, <1>11 DEF Enter
  <2>2. /\ socks' = [socks EXCEPT ![To[s]] = sock[s]]
        /\ stale' = IF s \in stale THEN stale \cup {To[s]} ELSE stale \ {To[s]}
        /\ sender' = [sender EXCEPT ![s] = "writing"]
        /\ UNCHANGED <<file, sock, sent>> /\ sender[s] = "entering"
    BY <1>11 DEF Enter
  <2>3. s \notin stale' => Leads(sock[s], To[s])'
    BY <1>1, <2>2 DEF SocksLead, Leads
  <2>4. EntriesLead'
    BY <1>1, <1>2, <2>2 DEF EntriesLead, SocksLead, Leads
  <2>5. AddressesLead'
    BY <1>1, <1>2, <2>2, FdsAreNat DEF AddressesLead, NoSock, Absent
  <2> QED
    BY <1>1, <1>2, <1>3, <1>4, <2>1, <2>2, <2>3, <2>4, <2>5
<1>12. CASE ReportFails(s)
  <2>1. /\ \A other \in Fds : other # sock[s] => Same(other)
        /\ stale \subseteq stale'
        /\ sock[s] \in Fds =>
             /\ \A r \in Peers : socks[r] = sock[s] => r \in stale'
             /\ \A t \in Senders \ {s} : sock[t] = sock[s] => t \in stale'
    BY <1>12, CloseKeepsKernel, CloseMarks DEF ReportFails, Typed, TasksOK
  <2>2. /\ sock' = [sock EXCEPT ![s] = NoSock]
        /\ \A t \in Senders \ {s} : sender'[t] = sender[t]
        /\ UNCHANGED <<socks, sent>> /\ sender[s] = "reporting"
    BY <1>2, <1>12 DEF ReportFails, TryAgain
  <2>3. EntriesLead'
    BY <2>1, <2>2 DEF EntriesLead, Leads, Same
  <2>4. SocksLead'
    <3> SUFFICES ASSUME NEW t \in Senders \ stale'
                 PROVE  Leads(sock[t], To[t])'
      BY DEF SocksLead
    <3>1. CASE t = s
      BY <1>2, <2>2, <3>1, FdsAreNat DEF Leads
    <3>2. CASE t # s
      <4>1. sock'[t] = sock[t] /\ Leads(sock[t], To[t])
        BY <1>2, <2>1, <2>2, <3>2 DEF SocksLead
      <4>2. sock[t] \in Fds => sock[t] # sock[s]
        BY <2>1, <3>2
      <4> QED
        BY <2>1, <4>1, <4>2 DEF Leads, Same
    <3> QED
      BY <3>1, <3>2
  <2> QED
    BY <1>3, <1>16, <2>1, <2>2, <2>3, <2>4
<1>13. CASE Write(s)
  <2>1. UsedStay
    BY <1>6, <1>13 DEF Write
  <2>2. /\ sent' = [sent EXCEPT ![s] = file[sock[s]].peer]
        /\ sock' = [sock EXCEPT ![s] = NoSock]
        /\ stale' = IF sent'[s] = To[s] THEN stale \ {s} ELSE stale
        /\ \E outcome \in {"returned", "threw"} :
             sender' = [sender EXCEPT ![s] = outcome]
        /\ UNCHANGED <<file, socks>>
        /\ sock[s] \in Fds
    BY <1>13 DEF Write, Is
  <2>3. Leads(sock[s], To[s])'
    BY <1>2, <2>2, FdsAreNat DEF Leads
  <2>4. SentAtEnd' /\ OnlyEntriesMislead'
    <3>1. \/ sent'[s] = To[s] \/ s \in stale'
          \/ sent'[s] = AtMyHost[To[s]] /\ To[s] \notin Known
      BY <1>2, <2>2 DEF SocksLead, Leads, Places
    <3>2. sender'[s] \in {"returned", "threw"}
      BY <1>2, <2>2
    <3>3. \A t \in Senders \ {s} :
            /\ sent'[t] = sent[t] /\ sender'[t] = sender[t]
            /\ t \in stale => t \in stale'
      BY <1>2, <2>2
    <3> QED
      BY <3>1, <3>2, <3>3 DEF SentAtEnd, OnlyEntriesMislead
  <2> QED
    BY <1>1, <1>2, <1>4, <1>5, <1>16, <2>1, <2>2, <2>3, <2>4
<1>14. CASE WriteFails(s)
  <2>1. UsedStay
    BY <1>6, <1>14 DEF WriteFails
  <2>2. /\ sender' = [sender EXCEPT ![s] = "clearing"]
        /\ sock' = [sock EXCEPT ![s] = NoSock]
        /\ stale' = stale \ {s}
        /\ UNCHANGED <<socks, sent>> /\ sender[s] = "writing"
    BY <1>14 DEF WriteFails
  <2>3. Leads(sock[s], To[s])'
    BY <1>2, <2>2, FdsAreNat DEF Leads
  <2> QED
    BY <1>1, <1>2, <1>3, <1>4, <1>5, <1>16, <2>1, <2>2, <2>3
<1>15. CASE Clear(s)
  <2>1. UsedStay
    BY <1>6, <1>15 DEF Clear
  <2>2. /\ socks' = [socks EXCEPT ![To[s]] =
                       IF @ = Absent THEN Absent ELSE NoSock]
        /\ stale' = stale \ {To[s]}
        /\ sock' = [sock EXCEPT ![s] = NoSock]
        /\ \A t \in Senders \ {s} : sender'[t] = sender[t]
        /\ UNCHANGED <<file, sent>> /\ sender[s] = "clearing"
    BY <1>2, <1>15 DEF Clear, TryAgain
  <2>3. Leads(sock[s], To[s])'
    BY <1>2, <2>2, FdsAreNat DEF Leads
  <2>4. EntriesLead'
    BY <1>1, <1>2, <2>2, FdsAreNat DEF EntriesLead, Leads
  <2>5. AddressesLead'
    BY <1>1, <1>2, <2>2 DEF AddressesLead, NoSock, Absent
  <2> QED
    BY <1>1, <1>2, <1>3, <1>4, <2>1, <2>2, <2>3, <2>4, <2>5
<1> QED
  BY <1>7, <1>8, <1>9, <1>10, <1>11, <1>12, <1>13, <1>14, <1>15
  DEF SendOn, GoOn

LEMMA AlwaysLed == Spec => []Led
<1>1. Init => Led
  BY NetworkAssumption, FdsAreNat, OwnPlace
  DEF Init, Led, EntriesLead, SocksLead, AddressesLead, SentAtEnd,
      OnlyEntriesMislead, Leads, NoSock, Absent
<1>2. Typed /\ Led /\ [Next]_vars => Led'
  <2> SUFFICES ASSUME Typed, Led, [Next]_vars PROVE Led'
    OBVIOUS
  <2>1. CASE UNCHANGED vars
    <3>1. UsedStay
      BY <2>1 DEF vars, kernel, UsedStay, Same
    <3> QED
      BY <2>1, <3>1, UsedStaysLed DEF vars
  <2> QED
    BY <2>1, PeersKeepLed, ServeKeepsLed, OwnerKeepsLed, SenderKeepsLed
    DEF Next
<1> QED
  BY <1>1, <1>2, AlwaysTyped, PTL DEF Spec

(* sendMessage() writes to a connection of another rank in two situations: *)
(* its sock, or the entry it came from, had been closed by somebody else;  *)
(* or a rank report made the entry of the rank, and the message went to    *)
(* who listens on this host at the reported port.  To a rank that was      *)
(* registered at the beginning it never goes astray in the second way: the *)
(* retries, the reuse of descriptors and the reports do not change where   *)
(* its entry leads.                                                        *)
THEOREM OnlyEntriesMisleadSends == Spec => []OnlyEntriesMislead
  BY AlwaysLed, PTL DEF Led
-----------------------------------------------------------------------------
(* An accessor keeps the others from an entry: the one who connects is     *)
(* alone with the entry of the rank, and it has no socket until then.      *)
EntriesHeld ==
  \A s \in Senders : Connecting(s) =>
    /\ socks[To[s]] = NoSock
    /\ \A t \in Senders \ {s} : To[t] = To[s] => ~Connecting(t)

LEMMA SenderKeepsHeld ==
  ASSUME Typed, EntriesHeld, NEW s \in Senders, SendOn(s)
  PROVE  EntriesHeld'
<1> To \in [Senders -> Peers]
  BY NetworkAssumption
<1> USE DEF Typed, ManagerOK, TasksOK, EntriesHeld, Connecting
<1>1. CASE FindSocket(s) \/ WriteFails(s) \/ Write(s)
  BY <1>1 DEF FindSocket, WriteFails, Write
<1>2. CASE MakeSocket(s)
  BY <1>2 DEF MakeSocket, AccessorFree
<1>3. CASE ConnectFails(s) \/ FindNothing(s)
  BY <1>3 DEF ConnectFails, FindNothing, TryAgain
<1>4. CASE AwaitRunning(s) \/ Report(s)
  BY <1>4 DEF AwaitRunning, Report
<1>5. CASE Enter(s)
  BY <1>5 DEF Enter
<1>6. CASE ReportFails(s)
  BY <1>6 DEF ReportFails, TryAgain
<1>7. CASE Clear(s)
  BY <1>7 DEF Clear, TryAgain, AccessorFree
<1> QED
  BY <1>1, <1>2, <1>3, <1>4, <1>5, <1>6, <1>7 DEF SendOn, GoOn

(* Two tasks never connect to the same rank at a time, and the socket a    *)
(* task is about to enter replaces no other: neither the insert() of the   *)
(* event loop, nor registerTarget(), nor the clearSendSocket() of another  *)
(* task changes the entry of a rank that is being connected to.            *)
THEOREM ConnectsOnce == Spec => []EntriesHeld
<1>1. Init => EntriesHeld
  BY DEF Init, EntriesHeld, Connecting
<1>2. Typed /\ EntriesHeld /\ [Next]_vars => EntriesHeld'
  <2> SUFFICES ASSUME Typed, EntriesHeld, [Next]_vars PROVE EntriesHeld'
    OBVIOUS
  <2>1. CASE UNCHANGED <<socks, sender>>
    BY <2>1 DEF EntriesHeld, Connecting
  <2>2. ASSUME NEW p \in Peers, RegisterTarget(p)
        PROVE  EntriesHeld'
    BY <2>2, NetworkAssumption
    DEF RegisterTarget, EntriesHeld, Connecting, Typed, ManagerOK, task
  <2>3. CASE ReadReport
    <3>1. /\ sender' = sender
          /\ \A r \in Peers : socks[r] # Absent => socks'[r] = socks[r]
      BY <2>3 DEF ReadReport, Typed, ManagerOK, task
    <3> QED
      BY <3>1, NetworkAssumption DEF EntriesHeld, Connecting, NoSock, Absent
  <2>4. CASE Serve \/ PollIsInterrupted \/ GetMessage
    BY <2>1, <2>3, <2>4
    DEF Serve, GetMessage, Open, OpenFails, Poll, PollIsInterrupted, Accept,
        ReadMessage, CloseSocket, Unwatch, TestRunning, EndSock, serving, task
  <2>5. CASE Start \/ Stop \/ Destroy \/ Own
    BY <2>1, <2>5
    DEF Start, Stop, Destroy, Own, Started, CloseSock, ClearSock, CloseEpoll,
        ClearEpoll, Join, owning, task
  <2>6. CASE \/ \E p \in Peers : PeerConnects(p)
             \/ \E fd \in Fds :
                  PeerSends(fd) \/ PeerCompletes(fd) \/ PeerEnds(fd)
             \/ UNCHANGED vars
    BY <2>1, <2>6
    DEF PeerConnects, PeerSends, PeerCompletes, PeerEnds, task, vars
  <2> QED
    BY <2>2, <2>4, <2>5, <2>6, SenderKeepsHeld DEF Next
<1> QED
  BY <1>1, <1>2, AlwaysTyped, PTL DEF Spec
-----------------------------------------------------------------------------
(* Until the owner stops the server, ...                                   *)
Serving == owner \in {"idle", "starting", "started"}

(* ... no event is left over when the loop polls, ...                      *)
EventsAreTaken ==
  /\ events # {} => server \in {"dispatching", "handing", "unwatching"}
  /\ owner = "idle" => server = "none"

(* ... its two descriptors are what it takes them for, ...                 *)
LoopHasFiles ==
  /\ server \in {"polling", "dispatching", "handing", "unwatching"} =>
       Is(sockfd, "listen") /\ Is(epoll_fd, "epoll")
  /\ server = "closing" => Is(sockfd, "listen")

(* ... the events left are those of descriptors it watches, ...            *)
EventsAreWatched ==
  \A fd \in events : fd \in watched \/ (server = "unwatching" /\ fd = connfd)

(* ... and so never the descriptor of a task that connects.                *)
ConnectsUnwatched ==
  \A s \in Senders : Connecting(s) =>
    /\ Is(sock[s], "conn") /\ file[sock[s]].peer = addr[To[s]]
    /\ sock[s] \notin watched
    /\ \A t \in Senders \ {s} : Connecting(t) => sock[s] # sock[t]

Served ==
  Serving => /\ EventsAreTaken /\ LoopHasFiles
             /\ EventsAreWatched /\ ConnectsUnwatched

(* The address in the entry of a rank stays while a task connects there.   *)
AddressesStay == \A s \in Senders : Connecting(s) => addr'[To[s]] = addr[To[s]]

(* Nothing that is in use changes.                                         *)
LEMMA UsedStaysServed ==
  ASSUME Served, UsedStay, AddressesStay,
         UNCHANGED <<watched, sockfd, epoll_fd, loop, owner, sender, sock>>
  PROVE  Served'
<1>1. SUFFICES ASSUME Serving PROVE Served'
  BY DEF Served, Serving
<1>2. EventsAreTaken' /\ EventsAreWatched'
  BY <1>1 DEF Served, EventsAreTaken, EventsAreWatched, loop, connfd
<1>3. LoopHasFiles'
  BY <1>1 DEF Served, LoopHasFiles, loop, Is, UsedStay, Same
<1>4. ConnectsUnwatched'
  BY <1>1
  DEF Served, ConnectsUnwatched, Connecting, Is, UsedStay, Same, AddressesStay
<1> QED
  BY <1>2, <1>3, <1>4 DEF Served

(* The tasks' descriptors stay, and are not watched.                       *)
LEMMA ConnectsStayUnwatched ==
  ASSUME ConnectsUnwatched, AddressesStay, UNCHANGED <<sender, sock>>,
         \A fd \in Fds : file[fd].kind = "conn" /\ fd \notin watched =>
                           Same(fd) /\ fd \notin watched'
  PROVE  ConnectsUnwatched'
  BY DEF ConnectsUnwatched, Connecting, Is, Same, AddressesStay

LEMMA PeersKeepServed ==
  ASSUME Typed, Served,
         \/ \E p \in Peers : PeerConnects(p) \/ RegisterTarget(p)
         \/ \E fd \in Fds : PeerSends(fd) \/ PeerCompletes(fd) \/ PeerEnds(fd)
  PROVE  Served'
<1>1. UsedStay
  BY PeersKeepKernel
<1>2. AddressesStay
  <2>1. ASSUME NEW r \in Peers, RegisterTarget(r)
        PROVE  AddressesStay
    <3>1. \A s \in Senders : Connecting(s) => To[s] # r
      BY <2>1 DEF RegisterTarget, AccessorFree
    <3>2. addr' = [addr EXCEPT ![r] = r] /\ DOMAIN addr = Peers
      BY <2>1 DEF RegisterTarget, Typed, ManagerOK
    <3> QED
      BY <3>1, <3>2, NetworkAssumption DEF AddressesStay
  <2>2. CASE UNCHANGED addr
    BY <2>2 DEF AddressesStay
  <2> QED
    BY <2>1, <2>2 DEF PeerConnects, PeerSends, PeerCompletes, PeerEnds
<1> QED
  BY <1>1, <1>2, UsedStaysServed
  DEF PeerConnects, RegisterTarget, PeerSends, PeerCompletes, PeerEnds, task

LEMMA ServeKeepsServed ==
  ASSUME Typed, Served, EntriesHeld, Serve \/ PollIsInterrupted \/ GetMessage
  PROVE  Served'
<1>0. UNCHANGED <<owner, sender, sock>>
  BY DEF Serve, Open, OpenFails, Poll, PollIsInterrupted, Accept, ReadReport,
         ReadMessage, GetMessage, CloseSocket, Unwatch, TestRunning, EndSock,
         serving, task
<1>1. SUFFICES ASSUME Serving
               PROVE  /\ EventsAreTaken' /\ LoopHasFiles'
                      /\ EventsAreWatched' /\ ConnectsUnwatched'
  BY <1>0 DEF Served, Serving
<1>14. AddressesStay
  <2>1. CASE ReadReport
    <3>1. \A r \in Peers : socks[r] # Absent => addr'[r] = addr[r]
      BY <2>1 DEF ReadReport, Typed, ManagerOK
    <3> QED
      BY <3>1, NetworkAssumption DEF EntriesHeld, AddressesStay, NoSock, Absent
  <2>2. CASE ~ReadReport
    <3>1. addr' = addr
      BY <2>2
      DEF Serve, Open, OpenFails, Poll, PollIsInterrupted, Accept, ReadMessage,
          GetMessage, CloseSocket, Unwatch, TestRunning, EndSock, serving
    <3> QED
      BY <3>1 DEF AddressesStay
  <2> QED
    BY <2>1, <2>2
<1>2. EventsAreTaken /\ LoopHasFiles /\ EventsAreWatched /\ ConnectsUnwatched
  BY <1>1 DEF Served
<1>3. events \subseteq Fds /\ (events # {} => connfd \in events)
  BY connfdIsEvent DEF Typed, ManagerOK
<1>4. \A fd \in watched : fd \in Fds /\ file[fd].kind \in {"listen", "conn"}
  BY DEF Typed, KernelOK
<1>5. CASE Open
  <2>1. /\ UsedStay /\ Is(sockfd, "listen")' /\ Is(epoll_fd, "epoll")'
        /\ file[sockfd'].kind = "free"
    BY <1>5, OpenKeepsKernel DEF Is
  <2>2. /\ watched' = {sockfd'} /\ events = {}
        /\ server' = "polling" /\ UNCHANGED events
    BY <1>2, <1>5 DEF Open, EventsAreTaken
  <2>3. ConnectsUnwatched'
    <3>1. \A fd \in Fds :
            file[fd].kind = "conn" => Same(fd) /\ fd \notin watched'
      BY <2>1, <2>2 DEF UsedStay
    <3> QED
      BY <1>0, <1>2, <3>1, <1>14, ConnectsStayUnwatched
  <2>4. EventsAreTaken' /\ LoopHasFiles' /\ EventsAreWatched'
    BY <1>0, <1>2, <1>5, <2>1, <2>2
    DEF EventsAreTaken, LoopHasFiles, EventsAreWatched, Open
  <2> QED
    BY <2>3, <2>4
<1>6. CASE OpenFails
  <2>1. UsedStay
    BY <1>6, OpenFailsKeepsKernel
  <2>2. /\ events = {} /\ UNCHANGED <<watched, events>>
        /\ server = "opening" /\ server' = "finished"
    BY <1>2, <1>6 DEF OpenFails, EventsAreTaken
  <2>3. ConnectsUnwatched'
    BY <1>0, <1>2, <2>1, <2>2, <1>14, ConnectsStayUnwatched DEF UsedStay
  <2> QED
    BY <1>0, <1>2, <2>2, <2>3
    DEF EventsAreTaken, LoopHasFiles, EventsAreWatched
<1>7. CASE Poll \/ PollIsInterrupted
  <2>1. /\ UNCHANGED <<file, watched, sockfd, epoll_fd>>
        /\ \/ events' \subseteq watched /\ server' = "dispatching"
           \/ events' = {} /\ server' = "finished"
        /\ server = "polling"
    BY <1>2, <1>7 DEF Poll, PollIsInterrupted, LoopHasFiles, EventsAreTaken
  <2>2. ConnectsUnwatched'
    BY <1>0, <1>2, <2>1, <1>14, ConnectsStayUnwatched DEF Same
  <2> QED
    BY <1>0, <1>2, <2>1, <2>2
    DEF EventsAreTaken, LoopHasFiles, EventsAreWatched, Is
<1>8. CASE Accept
  <2>1. /\ UsedStay /\ watched' \subseteq watched \cup FreeFds
        /\ watched \subseteq watched'
    BY <1>8, AcceptKeepsKernel
  <2>2. /\ events' \subseteq events /\ server = "dispatching"
        /\ UNCHANGED <<server, sockfd, epoll_fd>>
    BY <1>8 DEF Accept
  <2>3. ConnectsUnwatched'
    <3>1. \A fd \in Fds : file[fd].kind = "conn" /\ fd \notin watched =>
                            Same(fd) /\ fd \notin watched'
      BY <2>1 DEF UsedStay, FreeFds
    <3> QED
      BY <1>0, <1>2, <3>1, <1>14, ConnectsStayUnwatched
  <2>4. EventsAreTaken' /\ EventsAreWatched'
    BY <1>0, <1>2, <2>1, <2>2 DEF EventsAreTaken, EventsAreWatched
  <2>5. LoopHasFiles'
    BY <1>2, <2>1, <2>2 DEF LoopHasFiles, Is, UsedStay, Same
  <2> QED
    BY <2>3, <2>4, <2>5
<1>9. CASE ReadReport \/ ReadMessage \/ GetMessage
  <2>1. UsedStay
    <3>1. CASE GetMessage
      BY <3>1 DEF GetMessage, UsedStay, Same
    <3> QED
      BY <1>9, <3>1, ReadKeepsKernel
  <2>2. /\ events' \subseteq events /\ server \in {"dispatching", "handing"}
        /\ server' \in {"dispatching", "handing"}
        /\ UNCHANGED <<watched, sockfd, epoll_fd>>
    BY <1>9 DEF ReadReport, ReadMessage, GetMessage, AtConnection
  <2>3. ConnectsUnwatched'
    BY <1>0, <1>2, <2>1, <2>2, <1>14, ConnectsStayUnwatched DEF UsedStay
  <2>4. EventsAreTaken' /\ EventsAreWatched'
    BY <1>0, <1>2, <2>2 DEF EventsAreTaken, EventsAreWatched
  <2>5. LoopHasFiles'
    BY <1>2, <2>1, <2>2 DEF LoopHasFiles, Is, UsedStay, Same
  <2> QED
    BY <2>3, <2>4, <2>5
<1>10. CASE CloseSocket
  <2>1. /\ server = "dispatching" /\ events # {} /\ connfd # sockfd
        /\ server' = "unwatching" /\ UNCHANGED <<events, sockfd, epoll_fd>>
        /\ Close(connfd, {})
    BY <1>10 DEF CloseSocket, AtConnection
  <2>2. connfd \in watched
    BY <1>2, <1>3, <2>1 DEF EventsAreWatched
  <2>3. /\ \A other \in Fds : other # connfd => Same(other)
        /\ watched' = watched \ {connfd}
    BY <2>1, CloseKeepsKernel DEF Typed
  <2>4. ConnectsUnwatched'
    <3>1. \A fd \in Fds : file[fd].kind = "conn" /\ fd \notin watched =>
                            Same(fd) /\ fd \notin watched'
      BY <2>2, <2>3
    <3> QED
      BY <1>0, <1>2, <3>1, <1>14, ConnectsStayUnwatched
  <2>5. connfd' = connfd
    BY <2>1 DEF connfd
  <2>6. EventsAreTaken' /\ EventsAreWatched'
    <3>1. \A fd \in events : fd \in watched
      BY <1>2, <2>1 DEF EventsAreWatched
    <3> QED
      BY <1>0, <1>2, <2>1, <2>3, <2>5, <3>1
      DEF EventsAreTaken, EventsAreWatched
  <2>7. LoopHasFiles'
    <3>1. /\ Is(sockfd, "listen") /\ Is(epoll_fd, "epoll")
          /\ sockfd # connfd /\ epoll_fd # connfd
      BY <1>2, <1>4, <2>1, <2>2 DEF LoopHasFiles, Is
    <3> QED
      BY <2>1, <2>3, <3>1 DEF LoopHasFiles, Is, Same
  <2> QED
    BY <2>4, <2>6, <2>7
<1>11. CASE Unwatch
  <2>1. /\ server = "unwatching" /\ server' = "dispatching"
        /\ events' = events \ {connfd} /\ UNCHANGED <<file, sockfd, epoll_fd>>
        /\ watched' = watched \ {connfd}
    BY <1>2, <1>11 DEF Unwatch, LoopHasFiles
  <2>2. ConnectsUnwatched'
    BY <1>0, <1>2, <2>1, <1>14, ConnectsStayUnwatched DEF Same
  <2> QED
    BY <1>0, <1>2, <2>1, <2>2
    DEF EventsAreTaken, LoopHasFiles, EventsAreWatched, Is
<1>12. CASE TestRunning
  <2>1. /\ events = {} /\ server = "dispatching"
        /\ UNCHANGED <<events, sockfd, epoll_fd>>
    BY <1>12 DEF TestRunning
  <2>2. CASE server' = "polling" /\ UNCHANGED <<file, watched>>
    <3>1. ConnectsUnwatched'
      BY <1>0, <1>2, <2>2, <1>14, ConnectsStayUnwatched DEF Same
    <3> QED
      BY <1>0, <1>2, <2>1, <2>2, <3>1
      DEF EventsAreTaken, LoopHasFiles, EventsAreWatched, Is
  <2>3. CASE server' = "closing" /\ Close(epoll_fd, {})
    <3>1. /\ \A other \in Fds : other # epoll_fd => Same(other)
          /\ watched' \subseteq watched
      BY <2>3, CloseKeepsKernel DEF Typed
    <3>2. Is(sockfd, "listen") /\ Is(epoll_fd, "epoll")
      BY <1>2, <2>1 DEF LoopHasFiles
    <3>3. ConnectsUnwatched'
      <4>1. \A fd \in Fds : file[fd].kind = "conn" /\ fd \notin watched =>
                              Same(fd) /\ fd \notin watched'
        BY <3>1, <3>2 DEF Is
      <4> QED
        BY <1>0, <1>2, <4>1, <1>14, ConnectsStayUnwatched
    <3>4. LoopHasFiles'
      BY <2>1, <2>3, <3>1, <3>2 DEF LoopHasFiles, Is, Same
    <3> QED
      BY <1>0, <1>2, <2>1, <2>3, <3>3, <3>4
      DEF EventsAreTaken, EventsAreWatched
  <2> QED
    BY <1>12, <2>2, <2>3 DEF TestRunning
<1>13. CASE EndSock
  <2>1. /\ server = "closing" /\ server' = "finished"
        /\ Close(sockfd, {}) /\ UNCHANGED events
    BY <1>13 DEF EndSock
  <2>2. /\ \A other \in Fds : other # sockfd => Same(other)
        /\ watched' \subseteq watched
    BY <2>1, CloseKeepsKernel DEF Typed
  <2>3. Is(sockfd, "listen") /\ events = {}
    BY <1>2, <2>1 DEF LoopHasFiles, EventsAreTaken
  <2>4. ConnectsUnwatched'
    <3>1. \A fd \in Fds : file[fd].kind = "conn" /\ fd \notin watched =>
                            Same(fd) /\ fd \notin watched'
      BY <2>2, <2>3 DEF Is
    <3> QED
      BY <1>0, <1>2, <3>1, <1>14, ConnectsStayUnwatched
  <2> QED
    BY <1>0, <1>2, <2>1, <2>3, <2>4
    DEF EventsAreTaken, LoopHasFiles, EventsAreWatched
<1> QED
  BY <1>5, <1>6, <1>7, <1>8, <1>9, <1>10, <1>11, <1>12, <1>13 DEF Serve

LEMMA OwnerKeepsServed ==
  ASSUME Typed, Served, Start \/ Stop \/ Destroy \/ Own
  PROVE  Served'
<1>0. AddressesStay
  BY DEF Start, Stop, Destroy, Own, Started, CloseSock, ClearSock, CloseEpoll,
         ClearEpoll, Join, owning, AddressesStay
<1>1. CASE Start
  <2>1. /\ Serving /\ events = {} /\ server' = "opening" /\ owner' = "starting"
        /\ UNCHANGED <<file, watched, sockfd, epoll_fd, events, sender, sock>>
    BY <1>1 DEF Start, owning, task, Served, Serving, EventsAreTaken
  <2>2. ConnectsUnwatched'
    BY <1>0, <2>1, ConnectsStayUnwatched DEF Served, Same
  <2> QED
    BY <2>1, <2>2
    DEF Served, EventsAreTaken, LoopHasFiles, EventsAreWatched
<1>2. CASE Started
  <2>1. /\ Serving /\ owner' = "started" /\ UNCHANGED loop
        /\ UNCHANGED <<file, watched, sockfd, epoll_fd, sender, sock>>
    BY <1>2 DEF Started, owning, task, loop, Serving
  <2>2. ConnectsUnwatched'
    BY <1>0, <2>1, ConnectsStayUnwatched DEF Served, Same
  <2> QED
    BY <2>1, <2>2
    DEF Served, EventsAreTaken, LoopHasFiles, EventsAreWatched, Is, loop,
        connfd
<1>3. CASE ~(Start \/ Started)
  <2>1. ~Serving'
    BY <1>3
    DEF Stop, Destroy, Own, CloseSock, ClearSock, CloseEpoll, ClearEpoll,
        Join, Serving
  <2> QED
    BY <2>1 DEF Served
<1> QED
  BY <1>1, <1>2, <1>3

LEMMA SenderKeepsServed ==
  ASSUME Typed, Served, NEW s \in Senders, SendOn(s)
  PROVE  Served'
<1>0. /\ UNCHANGED <<sockfd, epoll_fd, events, server, owner, addr>>
      /\ \A t \in Senders \ {s} : sender'[t] = sender[t] /\ sock'[t] = sock[t]
  BY DEF SendOn, GoOn, FindSocket, MakeSocket, ConnectFails, FindNothing,
         AwaitRunning, Report, Enter, ReportFails, Write, WriteFails, Clear,
         TryAgain, sending, loop, Typed, TasksOK
<1>1. SUFFICES ASSUME Serving
               PROVE  LoopHasFiles' /\ EventsAreWatched' /\ ConnectsUnwatched'
  BY <1>0 DEF Served, Serving, EventsAreTaken
<1>2. EventsAreTaken /\ LoopHasFiles /\ EventsAreWatched /\ ConnectsUnwatched
  BY <1>1 DEF Served
<1>3. \A fd \in watched : fd \in Fds /\ file[fd].kind \in {"listen", "conn"}
  BY DEF Typed, KernelOK
<1>4. ASSUME UsedStay PROVE LoopHasFiles'
  BY <1>0, <1>2, <1>4 DEF LoopHasFiles, Is, UsedStay, Same
<1>5. ASSUME watched \subseteq watched' PROVE EventsAreWatched'
  BY <1>0, <1>2, <1>5 DEF EventsAreWatched, connfd
<1>6. CASE MakeSocket(s)
  <2>1. /\ UsedStay /\ Lowest \in Fds /\ file[Lowest].kind = "free"
        /\ file'[Lowest].kind = "conn" /\ file'[Lowest].peer = addr[To[s]]
    BY <1>6, MakeKeepsKernel
  <2>2. sock'[s] = Lowest /\ UNCHANGED watched
    BY <1>6 DEF MakeSocket, Typed, TasksOK
  <2>3. Lowest \notin watched
    BY <1>3, <2>1
  <2>4. \A t \in Senders \ {s} : Connecting(t)' =>
          /\ Connecting(t) /\ sock'[t] # Lowest /\ sock'[t] = sock[t]
          /\ sock'[t] \in Fds /\ file'[sock'[t]].kind = "conn"
          /\ file'[sock'[t]].peer = addr[To[t]] /\ sock'[t] \notin watched
    BY <1>0, <1>2, <2>1
    DEF ConnectsUnwatched, Connecting, Is, UsedStay, Same
  <2>5. ConnectsUnwatched'
    BY <1>0, <1>2, <2>1, <2>2, <2>3, <2>4 DEF ConnectsUnwatched, Is
  <2> QED
    BY <1>4, <1>5, <2>1, <2>2, <2>5
<1>7. CASE AwaitRunning(s) \/ Report(s)
  <2>1. /\ UNCHANGED <<file, watched, sock>>
        /\ \A t \in Senders : Connecting(t)' => Connecting(t)
    BY <1>0, <1>7 DEF AwaitRunning, Report, Connecting, Typed, TasksOK
  <2>2. ConnectsUnwatched'
    BY <1>0, <1>2, <2>1 DEF ConnectsUnwatched, Is
  <2>3. UsedStay
    BY <2>1 DEF UsedStay, Same
  <2> QED
    BY <1>4, <1>5, <2>1, <2>2, <2>3
<1>8. CASE Enter(s)
  <2>1. /\ UNCHANGED file /\ Connecting(s)
        /\ watched' = watched \/ watched' = watched \cup {sock[s]}
    BY <1>8 DEF Enter, Watch, Connecting
  <2>2. ~Connecting(s)'
    BY <1>8 DEF Enter, Connecting, Typed, TasksOK
  <2>3. ConnectsUnwatched'
    BY <1>0, <1>2, <2>1, <2>2 DEF ConnectsUnwatched, Connecting, Is
  <2>4. UsedStay
    BY <2>1 DEF UsedStay, Same
  <2> QED
    BY <1>4, <1>5, <2>1, <2>3, <2>4
<1>9. CASE ReportFails(s)
  <2>1. Connecting(s) /\ Is(sock[s], "conn") /\ sock[s] \notin watched
    BY <1>2, <1>9 DEF ReportFails, Connecting, ConnectsUnwatched
  <2>2. ~Connecting(s)'
    BY <1>9 DEF ReportFails, TryAgain, Connecting, Typed, TasksOK
  <2>3. /\ \A other \in Fds : other # sock[s] => Same(other)
        /\ watched' = watched
    BY <1>9, <2>1, CloseKeepsKernel DEF ReportFails, Typed
  <2>4. ConnectsUnwatched'
    BY <1>0, <1>2, <2>1, <2>2, <2>3
    DEF ConnectsUnwatched, Connecting, Is, Same
  <2>5. LoopHasFiles'
    BY <1>0, <1>2, <2>1, <2>3 DEF LoopHasFiles, Is, Same
  <2> QED
    BY <1>5, <2>3, <2>4, <2>5
<1>10. CASE \/ FindSocket(s) \/ ConnectFails(s) \/ FindNothing(s)
            \/ Write(s) \/ WriteFails(s) \/ Clear(s)
  <2>1. UsedStay /\ UNCHANGED watched
    <3>1. CASE ConnectFails(s)
      BY <3>1, ConnectFailsKeepsKernel DEF ConnectFails
    <3> QED
      BY <1>10, <3>1
      DEF FindSocket, FindNothing, Write, WriteFails, Clear, UsedStay, Same
  <2>2. ~Connecting(s)'
    BY <1>10
    DEF FindSocket, ConnectFails, FindNothing, Write, WriteFails, Clear,
        TryAgain,
        Connecting, Typed, TasksOK
  <2>3. ConnectsUnwatched'
    BY <1>0, <1>2, <2>1, <2>2
    DEF ConnectsUnwatched, Connecting, Is, UsedStay, Same
  <2> QED
    BY <1>4, <1>5, <2>1, <2>3
<1> QED
  BY <1>6, <1>7, <1>8, <1>9, <1>10 DEF SendOn, GoOn

LEMMA AlwaysServed == Spec => []Served
<1>1. Init => Served
  BY DEF Init, Served, Serving, EventsAreTaken, LoopHasFiles, EventsAreWatched,
         ConnectsUnwatched, Connecting
<1>2. Typed /\ Served /\ EntriesHeld /\ [Next]_vars => Served'
  <2> SUFFICES ASSUME Typed, Served, EntriesHeld, [Next]_vars PROVE Served'
    OBVIOUS
  <2>1. CASE UNCHANGED vars
    <3>1. UsedStay
      BY <2>1 DEF vars, kernel, UsedStay, Same
    <3>2. AddressesStay
      BY <2>1 DEF vars, AddressesStay
    <3> QED
      BY <2>1, <3>1, <3>2, UsedStaysServed DEF vars, kernel, task
  <2> QED
    BY <2>1, PeersKeepServed, ServeKeepsServed, OwnerKeepsServed,
       SenderKeepsServed DEF Next
<1> QED
  BY <1>1, <1>2, AlwaysTyped, ConnectsOnce, PTL DEF Spec

(* Although closeSocket() closes descriptors by number, without a lock and *)
(* without a look at the map, the event loop never closes the one that a   *)
(* task in getSendSocket() holds and has not put into epoll yet, and no    *)
(* two such tasks have the same one, until the owner stops the server.     *)
(* And it leads to the address in the entry, which neither a rank report   *)
(* nor registerTarget() changes behind the task.                           *)
THEOREM ConnectsAlone == Spec => []OwnSocket
<1>1. Typed /\ Served => OwnSocket
  BY DEF Served, Serving, ConnectsUnwatched, OwnSocket, Is
<1> QED
  BY <1>1, AlwaysTyped, AlwaysServed, PTL
-----------------------------------------------------------------------------
(* What is left of a call: the steps of the attempt it is in, and seven    *)
(* for each retry.                                                         *)
Stage(s) == CASE sender[s] = "looking" -> 6
              [] sender[s] = "waiting" -> 5
              [] sender[s] = "reporting" -> 4
              [] sender[s] = "entering" -> 3
              [] sender[s] = "writing" -> 2
              [] sender[s] = "clearing" -> 1
              [] OTHER -> 0
StepsLeft(s) == 7 * (retry[s] + 1) + Stage(s)

Advances ==
  \A s \in Senders :
    /\ StepsLeft(s) \in Nat
    /\ StepsLeft(s)' <= StepsLeft(s)
    /\ SendOn(s) => StepsLeft(s)' < StepsLeft(s)

LEMMA StepCounts ==
  ASSUME Typed, Typed', NEW s \in Senders, SendOn(s)
  PROVE  StepsLeft(s)' < StepsLeft(s)
<1> DEFINE Now == sender[s]
           Then == sender'[s]
<1>1. /\ retry[s] \in Int /\ retry'[s] \in Int
      /\ Now \in SenderStates /\ Then \in SenderStates
  BY DEF Typed, TasksOK
<1>2. CASE retry'[s] = retry[s]
  <2>0. ~TryAgain(s)
    BY <1>1, <1>2 DEF TryAgain, Typed, TasksOK
  <2>1. \/ Now = "looking" /\ Then \in {"waiting", "writing"}
        \/ Now = "waiting" /\ Then = "reporting"
        \/ Now = "reporting" /\ Then = "entering"
        \/ Now = "entering" /\ Then = "writing"
        \/ Now = "writing" /\ Then \in {"clearing", "returned", "threw"}
    BY <2>0
    DEF SendOn, GoOn, FindSocket, MakeSocket, ConnectFails, FindNothing,
        AwaitRunning, Report, Enter, ReportFails, Write, WriteFails, Clear,
        Typed, TasksOK
  <2> QED
    BY <1>1, <1>2, <2>1 DEF StepsLeft, Stage
<1>3. CASE retry'[s] # retry[s]
  <2>1. /\ retry'[s] = retry[s] - 1
        /\ \/ Now = "looking" /\ Then \in {"looking", "threw"}
           \/ /\ Now \in {"reporting", "clearing"}
              /\ Then \in {"looking", "threw"}
    BY <1>3
    DEF SendOn, GoOn, FindSocket, MakeSocket, ConnectFails, FindNothing,
        AwaitRunning, Report, Enter, ReportFails, Write, WriteFails, Clear,
        TryAgain, Typed, TasksOK
  <2> QED
    BY <1>1, <2>1 DEF StepsLeft, Stage
<1> QED
  BY <1>2, <1>3

LEMMA OtherTasksStay ==
  ASSUME Typed, NEW s \in Senders, SendOn(s), NEW t \in Senders \ {s}
  PROVE  sender'[t] = sender[t] /\ retry'[t] = retry[t]
BY DEF SendOn, GoOn, FindSocket, MakeSocket, ConnectFails, FindNothing,
       AwaitRunning, Report, Enter, ReportFails, Write, WriteFails, Clear,
       TryAgain, Typed, TasksOK

LEMMA OthersLeaveTasks ==
  ASSUME Typed, [Next]_vars, ~\E s \in Senders : SendOn(s)
  PROVE  sender' = sender /\ retry' = retry
<1>1. CASE \/ \E p \in Peers : PeerConnects(p) \/ RegisterTarget(p)
           \/ \E fd \in Fds :
                PeerSends(fd) \/ PeerCompletes(fd) \/ PeerEnds(fd)
           \/ UNCHANGED vars
  BY <1>1
  DEF PeerConnects, RegisterTarget, PeerSends, PeerCompletes, PeerEnds, task,
      vars
<1>2. CASE Serve \/ PollIsInterrupted \/ GetMessage
  BY <1>2
  DEF Serve, GetMessage, Open, OpenFails, Poll, PollIsInterrupted, Accept,
      ReadReport, ReadMessage, CloseSocket, Unwatch, TestRunning, EndSock,
      serving, task
<1>3. CASE Start \/ Stop \/ Destroy \/ Own
  BY <1>3
  DEF Start, Stop, Destroy, Own, Started, CloseSock, ClearSock, CloseEpoll,
      ClearEpoll, Join, owning, task
<1> QED
  BY <1>1, <1>2, <1>3 DEF Next

(* sendMessage() never goes round for ever: each of its steps leaves fewer *)
(* to do, a natural number that nobody else's step raises, although a      *)
(* failed attempt starts over from the beginning.                          *)
THEOREM RetriesRunOut == Spec => [][Advances]_vars
<1>1. Typed /\ Typed' /\ [Next]_vars => [Advances]_vars
  <2> SUFFICES ASSUME Typed, Typed', [Next]_vars, NEW s \in Senders
               PROVE  /\ StepsLeft(s) \in Nat
                      /\ StepsLeft(s)' <= StepsLeft(s)
                      /\ SendOn(s) => StepsLeft(s)' < StepsLeft(s)
    BY DEF Advances
  <2>1. retry[s] + 1 \in Nat /\ retry'[s] + 1 \in Nat
    BY DEF Typed, TasksOK
  <2>2. Stage(s) \in Nat /\ Stage(s)' \in Nat
    BY DEF Stage
  <2>3. StepsLeft(s) \in Nat /\ StepsLeft(s)' \in Nat
    BY <2>1, <2>2 DEF StepsLeft
  <2>4. CASE SendOn(s)
    BY <2>3, <2>4, StepCounts
  <2>5. CASE ~SendOn(s)
    <3>1. sender'[s] = sender[s] /\ retry'[s] = retry[s]
      BY <2>5, OtherTasksStay, OthersLeaveTasks
    <3>2. StepsLeft(s)' = StepsLeft(s)
      BY <3>1 DEF StepsLeft, Stage
    <3> QED
      BY <2>3, <2>5, <3>2
  <2> QED
    BY <2>4, <2>5
<1> QED
  BY <1>1, AlwaysTyped, PTL DEF Spec
-----------------------------------------------------------------------------
(* Once the owner stops the server running stays reset, and the loop has   *)
(* been through the beginning of run(), which would set it again; it       *)
(* closes a socket because of an event.                                    *)
Stopping == owner \in StopStates \cup {"stopped"}
StopHolds ==
  /\ Stopping => ~running
  /\ Stopping \/ owner = "started" \/ running =>
       server \notin {"none", "opening"}
  /\ owner = "idle" => server = "none"
  /\ server = "unwatching" => events # {}

LEMMA AlwaysStopped == Spec => []StopHolds
<1> USE DEF StopHolds, Stopping, StopStates
<1>1. Init => StopHolds
  BY DEF Init
<1>2. StopHolds /\ [Next]_vars => StopHolds'
  <2> SUFFICES ASSUME StopHolds, [Next]_vars PROVE StopHolds'
    OBVIOUS
  <2>1. CASE UNCHANGED <<running, server, owner, events>>
    BY <2>1
  <2>2. CASE Serve
    BY <2>2
    DEF Serve, Open, OpenFails, Poll, PollIsInterrupted, Accept, ReadReport,
        ReadMessage, CloseSocket, AtConnection, Unwatch, TestRunning, EndSock,
        serving
  <2>3. CASE PollIsInterrupted \/ GetMessage
    BY <2>3 DEF PollIsInterrupted, GetMessage, serving
  <2>4. CASE Start
    BY <2>4 DEF Start, owning
  <2>5. CASE Stop
    BY <2>5 DEF Stop, loop
  <2>6. CASE Destroy \/ Own
    BY <2>6
    DEF Destroy, Own, Started, CloseSock, ClearSock, CloseEpoll, ClearEpoll,
        Join, owning
  <2>7. ASSUME NEW s \in Senders, SendOn(s)
        PROVE  UNCHANGED <<running, server, owner, events>>
    BY <2>7
    DEF SendOn, GoOn, FindSocket, MakeSocket, ConnectFails, FindNothing,
        AwaitRunning, Report, Enter, ReportFails, Write, WriteFails, Clear,
        sending, loop
  <2>8. CASE \/ \E p \in Peers : PeerConnects(p) \/ RegisterTarget(p)
             \/ \E fd \in Fds :
                  PeerSends(fd) \/ PeerCompletes(fd) \/ PeerEnds(fd)
             \/ UNCHANGED vars
    BY <2>1, <2>8
    DEF PeerConnects, RegisterTarget, PeerSends, PeerCompletes, PeerEnds, loop,
        vars
  <2> QED
    BY <2>1, <2>2, <2>3, <2>4, <2>5, <2>6, <2>7, <2>8 DEF Next
<1> QED
  BY <1>1, <1>2, PTL DEF Spec

(* What is left of run() when running is reset: one return of epoll_wait() *)
(* at most, three steps for each of its events, and the two close().       *)
LoopLeft ==
  CASE server = "polling" -> 3 + 3 * Cardinality(Fds)
    [] server = "dispatching" -> 2 + 3 * Cardinality(events)
    [] server = "handing" -> 3 + 3 * Cardinality(events)
    [] server = "unwatching" -> 1 + 3 * Cardinality(events)
    [] server = "closing" -> 1
    [] OTHER -> 0

RunsOut ==
  Stopping =>
    /\ LoopLeft \in Nat
    /\ LoopLeft' <= LoopLeft
    /\ Serve \/ PollIsInterrupted \/ GetMessage => LoopLeft' < LoopLeft

LEMMA EventsCount ==
  ASSUME Typed, NEW E \in SUBSET Fds
  PROVE  /\ Cardinality(E) \in Nat /\ Cardinality(Fds) \in Nat
         /\ Cardinality(E) <= Cardinality(Fds)
         /\ \A fd \in E : Cardinality(E \ {fd}) = Cardinality(E) - 1
<1>1. IsFiniteSet(Fds)
  BY FS_Interval, NetworkAssumption DEF Fds
<1>2. IsFiniteSet(E) /\ Cardinality(E) <= Cardinality(Fds)
  BY <1>1, FS_Subset
<1>3. ASSUME NEW fd \in E
      PROVE  Cardinality(E \ {fd}) = Cardinality(E) - 1
  BY <1>2, FS_RemoveElement
<1> QED
  BY <1>1, <1>2, <1>3, FS_CardinalityType

LEMMA LoopCounts ==
  ASSUME Typed, Typed', StopHolds, ~running, server # "opening",
         Serve \/ PollIsInterrupted \/ GetMessage
  PROVE  LoopLeft' < LoopLeft
<1> DEFINE C == Cardinality(events)
           D == Cardinality(events')
           N == Cardinality(Fds)
<1>1. C \in Nat /\ D \in Nat /\ N \in Nat /\ D <= N
  <2>1. events \in SUBSET Fds /\ events' \in SUBSET Fds
    BY DEF Typed, ManagerOK
  <2> QED
    BY <2>1, EventsCount
<1>2. ASSUME events # {}
      PROVE  Cardinality(events \ {connfd}) = C - 1
  <2>1. events \in SUBSET Fds /\ connfd \in events
    BY <1>2, connfdIsEvent DEF Typed, ManagerOK
  <2> QED
    BY <2>1, EventsCount
<1>3. CASE Poll \/ PollIsInterrupted
  <2>1. server = "polling" /\ server' \in {"dispatching", "finished"}
    BY <1>3 DEF Poll, PollIsInterrupted
  <2>2. LoopLeft = 3 + 3 * N
    BY <2>1 DEF LoopLeft
  <2>3. LoopLeft' \in {2 + 3 * D, 0}
    BY <2>1 DEF LoopLeft
  <2> QED
    BY <1>1, <2>2, <2>3
<1>4. CASE Accept \/ ReadReport
  <2>1. server = "dispatching" /\ server' = server /\ D = C - 1
    BY <1>2, <1>4 DEF Accept, ReadReport, AtConnection
  <2> QED
    BY <1>1, <2>1 DEF LoopLeft
<1>5. CASE ReadMessage
  <2>1. server = "dispatching" /\ server' = "handing" /\ D = C - 1
    BY <1>2, <1>5 DEF ReadMessage, AtConnection
  <2> QED
    BY <1>1, <2>1 DEF LoopLeft
<1>6. CASE GetMessage
  <2>1. server = "handing" /\ server' = "dispatching" /\ events' = events
    BY <1>6 DEF GetMessage
  <2> QED
    BY <1>1, <2>1 DEF LoopLeft
<1>7. CASE CloseSocket
  <2>1. server = "dispatching" /\ server' = "unwatching" /\ events' = events
    BY <1>7 DEF CloseSocket, AtConnection
  <2> QED
    BY <1>1, <2>1 DEF LoopLeft
<1>8. CASE Unwatch
  <2>1. server = "unwatching" /\ server' = "dispatching"
    BY <1>8 DEF Unwatch
  <2>2. D = C - 1
    BY <1>2, <1>8 DEF Unwatch, StopHolds
  <2> QED
    BY <1>1, <2>1, <2>2 DEF LoopLeft
<1>9. CASE TestRunning \/ EndSock
  <2>1. \/ server = "dispatching" /\ server' = "closing"
        \/ server = "closing" /\ server' = "finished"
    BY <1>9 DEF TestRunning, EndSock
  <2> QED
    BY <1>1, <2>1 DEF LoopLeft
<1> QED
  BY <1>3, <1>4, <1>5, <1>6, <1>7, <1>8, <1>9 DEF Serve, Open, OpenFails

LEMMA OthersLeaveLoop ==
  ASSUME [Next]_vars, owner # "idle",
         ~(Serve \/ PollIsInterrupted \/ GetMessage)
  PROVE  server' = server /\ events' = events
BY DEF Next, PeerConnects, PeerSends, PeerCompletes, PeerEnds, RegisterTarget,
       Start, Stop, Destroy, Own, Started, CloseSock, ClearSock, CloseEpoll,
       ClearEpoll, Join, SendOn, GoOn, FindSocket, MakeSocket, ConnectFails,
       FindNothing, AwaitRunning, Report, Enter, ReportFails, Write,
       WriteFails, Clear, owning, sending, loop, vars

(* stopServer() tells the loop for good: running is not set again, though  *)
(* run() sets it on another thread, and the loop returns from epoll_wait() *)
(* once more at most and has a bounded number of steps left, whatever      *)
(* events it still has, whoever connects and whatever arrives.             *)
THEOREM LoopRunsOut == Spec => [][RunsOut]_vars
<1>1. Typed /\ Typed' /\ StopHolds /\ [Next]_vars => [RunsOut]_vars
  <2> SUFFICES ASSUME Typed, Typed', StopHolds, [Next]_vars, Stopping
               PROVE  /\ LoopLeft \in Nat
                      /\ LoopLeft' <= LoopLeft
                      /\ Serve \/ PollIsInterrupted \/ GetMessage =>
                           LoopLeft' < LoopLeft
    BY DEF RunsOut
  <2>1. LoopLeft \in Nat /\ LoopLeft' \in Nat
    <3>1. events \in SUBSET Fds /\ events' \in SUBSET Fds
      BY DEF Typed, ManagerOK
    <3>2. /\ Cardinality(events) \in Nat /\ Cardinality(events') \in Nat
          /\ Cardinality(Fds) \in Nat
      BY <3>1, EventsCount
    <3> QED
      BY <3>2 DEF LoopLeft
  <2>2. CASE Serve \/ PollIsInterrupted \/ GetMessage
    BY <2>1, <2>2, LoopCounts DEF StopHolds
  <2>3. CASE ~(Serve \/ PollIsInterrupted \/ GetMessage)
    <3>1. server' = server /\ events' = events
      BY <2>3, OthersLeaveLoop DEF Stopping, StopStates
    <3>2. LoopLeft' = LoopLeft
      BY <3>1 DEF LoopLeft
    <3> QED
      BY <2>1, <2>3, <3>2
  <2> QED
    BY <2>2, <2>3
<1> QED
  BY <1>1, AlwaysTyped, AlwaysStopped, PTL DEF Spec
=============================================================================
