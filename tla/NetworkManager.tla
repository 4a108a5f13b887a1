--------------------------- MODULE NetworkManager ---------------------------
(***************************************************************************)
(* NetworkManager.cpp: the event loop run(), the owner that starts and     *)
(* stops it, the tasks in sendMessage(), and the map from ranks to sockets *)
(* they share.  What travels on a connection is a sequence of items here,  *)
(* the last of which may have arrived in part; MessageStream describes     *)
(* their bytes.                                                            *)
(*                                                                         *)
(* The kernel is external: descriptors are small numbers and the lowest    *)
(* free one is used next, closing a descriptor takes it out of epoll, the  *)
(* listening socket has a backlog; a signal shows in epoll_wait() only,    *)
(* which is never restarted.  So are the peers, which connect, send and    *)
(* close as they like, or stop in the middle.  An accessor of socks is a   *)
(* lock on one entry; insert() without an accessor does not take it.       *)
(***************************************************************************)
EXTENDS Integers, Sequences, SequencesExt, FiniteSets

CONSTANTS
  Peers,     \* the ranks of the other nodes
  Senders,   \* the tasks in sendMessage()
  To,        \* the rank each of them sends to
  Retry,     \* its argument retry
  Known,     \* the ranks registered at the beginning
  AtMyHost,  \* who listens on this host at the port that each peer reports
  MaxFd,     \* the highest descriptor the process may have
  Connects,  \* how often each peer connects (bound)
  Messages,  \* how many messages peers send in all (bound)
  Registers, \* how many calls of registerTarget() follow (bound)
  Nobody     \* no peer

Fds == 3 .. MaxFd
NoSock == -1
Absent == -2

ASSUME NetworkAssumption ==
  /\ To \in [Senders -> Peers] /\ Retry \in [Senders -> Nat]
  /\ Known \subseteq Peers /\ Nobody \notin Peers
  /\ Peers \cap Senders = {}
  /\ AtMyHost \in [Peers -> Peers \cup {Nobody}]
  /\ Connects \in [Peers -> Nat]
  /\ MaxFd \in Nat /\ Messages \in Nat /\ Registers \in Nat

VARIABLES
  file,     \* what each descriptor refers to
  watched,  \* the descriptors in the epoll instance
  backlog,  \* the connections not yet accepted
  budget,   \* what is left of Connects, Messages and Registers
  sockfd, epoll_fd, running,
  socks,    \* the socket in the entry of each rank
  addr,     \* who listens at the address in it
  server,   \* where the event loop is in run()
  events,   \* the descriptors in events[] it is not done with
  owner,    \* where the owner is in startServer() and stopServer()
  sender,   \* where each sendMessage() is
  sock,     \* its local sock
  retry,    \* its retry
  sent,     \* history: the peer its message has been written to
  stale     \* history: the ranks and tasks whose descriptor others closed

kernel == <<file, watched, backlog, budget>>
loop == <<server, events>>
task == <<sender, sock, retry, sent>>
vars == <<kernel, sockfd, epoll_fd, running, socks, addr, loop, owner, task,
          stale>>

NoFile == [kind |-> "free", peer |-> Nobody, input |-> <<>>,
           part |-> FALSE, ended |-> FALSE]
File(kind) == [NoFile EXCEPT !.kind = kind]
Connection(p, input, part) ==
  [kind |-> "conn", peer |-> p, input |-> input, part |-> part, ended |-> FALSE]
Files == [kind : {"free", "listen", "epoll", "idle", "conn"},
          peer : Peers \cup {Nobody}, input : Seq({"report", "message"}),
          part : BOOLEAN,    \* the last of input has arrived in part
          ended : BOOLEAN]

FreeFds == {fd \in Fds : file[fd].kind = "free"}
Lowest == CHOOSE fd \in FreeFds : \A other \in FreeFds : fd <= other
Is(fd, kind) == fd \in Fds /\ file[fd].kind = kind

ServerStates == {"none", "opening", "polling", "dispatching",
                 "handing",     \* in write_sync() of the message channel
                 "unwatching",  \* in the middle of closeSocket()
                 "closing",     \* between the two close() at the end of run()
                 "finished"}
StopStates == {"close_sock", "clear_sock", "close_epoll", "clear_epoll",
               "joining"}
OwnerStates == {"idle", "starting", "started", "stopped"} \cup StopStates
SenderStates == {"looking",
                 "waiting",     \* in running.wait(false)
                 "reporting",   \* in sendRankReportMessage()
                 "entering",    \* about to put the socket into the entry
                 "writing",     \* in writev()
                 "clearing",
                 "returned", "threw"}

(* The tasks in the part of getSendSocket() that holds the accessor.       *)
Connecting(s) == sender[s] \in {"waiting", "reporting", "entering"}

AccessorFree(r) == \A s \in Senders : To[s] = r => ~Connecting(s)
-----------------------------------------------------------------------------
Init ==
  /\ file = [fd \in Fds |-> NoFile]
  /\ watched = {}
  /\ backlog = <<>>
  /\ budget = [connects |-> Connects, messages |-> Messages,
               registers |-> Registers]
  /\ sockfd = NoSock /\ epoll_fd = NoSock
  /\ running = FALSE
  /\ socks = [r \in Peers |-> IF r \in Known THEN NoSock ELSE Absent]
  /\ addr = [r \in Peers |-> r]
  /\ server = "none" /\ events = {}
  /\ owner = "idle"
  /\ sender = [s \in Senders |-> "looking"]
  /\ sock = [s \in Senders |-> NoSock]
  /\ retry = Retry
  /\ sent = [s \in Senders |-> Nobody]
  /\ stale = {}

(* close(fd), which does not check whose descriptor it is by now; self are  *)
(* the tasks that give it up themselves.                                   *)
Close(fd, self) ==
  IF fd \in Fds
  THEN /\ file' = [file EXCEPT ![fd] = NoFile]
       /\ watched' = watched \ {fd}
       /\ backlog' = IF Is(fd, "listen") THEN <<>> ELSE backlog
       /\ stale' = stale \cup {r \in Peers : socks[r] = fd}
                         \cup {s \in Senders \ self : sock[s] = fd}
  ELSE UNCHANGED <<file, watched, backlog, stale>>

(* epoll_ctl(ADD), which only logs that it fails, as it does with an       *)
(* epoll_fd that is closed.                                                *)
Watch(fd) ==
  \/ Is(epoll_fd, "epoll") /\ watched' = watched \cup {fd}
  \/ UNCHANGED watched
-----------------------------------------------------------------------------
(* Peers. *)
PeerConnects(p) ==
  /\ budget.connects[p] > 0
  /\ \E fd \in Fds : file[fd].kind = "listen"
  /\ \E part \in BOOLEAN :
       backlog' = Append(backlog, Connection(p, <<"report">>, part))
  /\ budget' = [budget EXCEPT !.connects[p] = @ - 1]
  /\ UNCHANGED <<file, watched, sockfd, epoll_fd, running, socks, addr, loop,
                 owner, task, stale>>

(* A message, or the beginning of one ... *)
PeerSends(fd) ==
  /\ budget.messages > 0
  /\ file[fd].kind = "conn" /\ ~file[fd].ended /\ ~file[fd].part
  /\ \E part \in BOOLEAN :
       file' = [file EXCEPT ![fd].input = Append(@, "message"),
                            ![fd].part = part]
  /\ budget' = [budget EXCEPT !.messages = @ - 1]
  /\ UNCHANGED <<watched, backlog, sockfd, epoll_fd, running, socks, addr, loop,
                 owner, task, stale>>

(* ... and the rest. *)
PeerCompletes(fd) ==
  /\ file[fd].kind = "conn" /\ ~file[fd].ended /\ file[fd].part
  /\ file' = [file EXCEPT ![fd].part = FALSE]
  /\ UNCHANGED <<watched, backlog, budget, sockfd, epoll_fd, running, socks,
                 addr, loop, owner, task, stale>>

(* Not within a rank report: MessageStream says what follows from that.    *)
PeerEnds(fd) ==
  /\ file[fd].kind = "conn" /\ ~file[fd].ended
  /\ file[fd].part => Last(file[fd].input) = "message"
  /\ file' = [file EXCEPT ![fd].ended = TRUE]
  /\ UNCHANGED <<watched, backlog, budget, sockfd, epoll_fd, running, socks,
                 addr, loop, owner, task, stale>>

(* registerTarget(): the address is new, whatever socket there was.        *)
RegisterTarget(r) ==
  /\ budget.registers > 0
  /\ AccessorFree(r)
  /\ socks' = [socks EXCEPT ![r] = NoSock]
  /\ addr' = [addr EXCEPT ![r] = r]
  /\ stale' = stale \ {r}
  /\ budget' = [budget EXCEPT !.registers = @ - 1]
  /\ UNCHANGED <<file, watched, backlog, sockfd, epoll_fd, running, loop,
                 owner, task>>
-----------------------------------------------------------------------------
(* The event loop. *)
serving == <<addr, budget, owner, task>>
NextLowest == CHOOSE fd \in FreeFds \ {Lowest} :
                \A other \in FreeFds \ {Lowest} : fd <= other

(* socket(), bind(), listen(), epoll_create(), epoll_ctl(), and running.   *)
Open ==
  /\ server = "opening"
  /\ Cardinality(FreeFds) >= 2
  /\ file' = [file EXCEPT ![Lowest] = File("listen"),
                          ![NextLowest] = File("epoll")]
  /\ watched' = {Lowest}
  /\ sockfd' = Lowest /\ epoll_fd' = NextLowest
  /\ running' = TRUE
  /\ server' = "polling"
  /\ UNCHANGED <<backlog, socks, events, stale, serving>>

(* socket(), bind(), epoll_create() or epoll_ctl() fails: run() ends, and  *)
(* what has been opened stays open.                                        *)
OpenFails ==
  /\ server = "opening"
  /\ \/ UNCHANGED <<file, sockfd, epoll_fd>>
     \/ /\ FreeFds # {}
        /\ \E kind \in {"idle", "listen"} :
             file' = [file EXCEPT ![Lowest] = File(kind)]
        /\ sockfd' = Lowest
        /\ UNCHANGED epoll_fd
     \/ /\ Cardinality(FreeFds) >= 2
        /\ file' = [file EXCEPT ![Lowest] = File("listen"),
                                ![NextLowest] = File("epoll")]
        /\ sockfd' = Lowest /\ epoll_fd' = NextLowest
  /\ server' = "finished"
  /\ UNCHANGED <<watched, backlog, running, socks, events, stale, serving>>

Readable(fd) ==
  \/ Is(fd, "listen") /\ backlog # <<>>
  \/ Is(fd, "conn") /\ (file[fd].input # <<>> \/ file[fd].ended)

(* epoll_wait() returns what is ready, or nothing when its time is over,   *)
(* which shows when running is reset only.  When epoll_fd is closed, it    *)
(* fails, and run() ends, or was called before and returns nothing.        *)
Poll ==
  /\ server = "polling"
  /\ \/ /\ Is(epoll_fd, "epoll")
        /\ events' = {fd \in watched : Readable(fd)}
        /\ events' # {} \/ ~running
        /\ server' = "dispatching"
     \/ /\ ~Is(epoll_fd, "epoll")
        /\ server' \in {"dispatching", "finished"}
        /\ UNCHANGED events
  /\ UNCHANGED <<file, watched, backlog, sockfd, epoll_fd, running, socks,
                 stale, serving>>

(* It fails when it meets a signal: run() ends, and running is not reset.  *)
PollIsInterrupted ==
  /\ server = "polling"
  /\ server' = "finished"
  /\ UNCHANGED <<file, watched, backlog, sockfd, epoll_fd, running, socks,
                 events, stale, serving>>

(* The events are taken in the order of their descriptors.                 *)
connfd == CHOOSE fd \in events : \A other \in events : fd <= other
AtConnection == server = "dispatching" /\ events # {} /\ connfd # sockfd

(* accept() and epoll_ctl(); when accept() fails, which may cost the       *)
(* connection, the loop is to end.                                         *)
Accept ==
  /\ server = "dispatching" /\ events # {}
  /\ connfd = sockfd
  /\ \/ /\ Is(sockfd, "listen") /\ backlog # <<>> /\ FreeFds # {}
        /\ file' = [file EXCEPT ![Lowest] = Head(backlog)]
        /\ backlog' = Tail(backlog)
        /\ Watch(Lowest)
        /\ UNCHANGED running
     \/ /\ running' = FALSE
        /\ \/ UNCHANGED backlog
           \/ Is(sockfd, "listen") /\ backlog # <<>> /\ backlog' = Tail(backlog)
        /\ UNCHANGED <<file, watched>>
  /\ events' = events \ {connfd}
  /\ UNCHANGED <<server, sockfd, epoll_fd, socks, stale, serving>>

(* An item has arrived.  When its beginning only has, the loop is in one   *)
(* of the read() calls for the rest of it.                                 *)
Arrived(fd, item) ==
  /\ Is(fd, "conn") /\ file[fd].input # <<>>
  /\ Head(file[fd].input) = item
  /\ file[fd].part => Len(file[fd].input) > 1

(* readRankReportMessage(): insert() leaves an entry there is as it is.  A *)
(* new one has the address of this host, by which the peer connected, and  *)
(* the port that the peer reports.                                         *)
ReadReport ==
  /\ AtConnection
  /\ Arrived(connfd, "report")
  /\ file' = [file EXCEPT ![connfd].input = Tail(@)]
  /\ LET r == file[connfd].peer
     IN IF socks[r] = Absent
        THEN /\ socks' = [socks EXCEPT ![r] = connfd]
             /\ addr' = [addr EXCEPT ![r] = AtMyHost[r]]
        ELSE UNCHANGED <<socks, addr>>
  /\ events' = events \ {connfd}
  /\ UNCHANGED <<watched, backlog, sockfd, epoll_fd, running, server, stale,
                 budget, owner, task>>

(* readNormalMessage(), up to the write_sync() of processMessage().        *)
ReadMessage ==
  /\ AtConnection
  /\ Arrived(connfd, "message")
  /\ file' = [file EXCEPT ![connfd].input = Tail(@)]
  /\ server' = "handing"
  /\ events' = events \ {connfd}
  /\ UNCHANGED <<watched, backlog, sockfd, epoll_fd, running, socks, stale,
                 serving>>

(* The channel holds nothing: write_sync() returns when getMessage() reads.*)
GetMessage ==
  /\ server = "handing"
  /\ server' = "dispatching"
  /\ UNCHANGED <<file, watched, backlog, sockfd, epoll_fd, running, socks,
                 events, stale, serving>>

(* read() returns 0 or -1, for a head or in the middle of a message:       *)
(* closeSocket() begins with close() ...                                   *)
CloseSocket ==
  /\ AtConnection
  /\ Is(connfd, "conn") => file[connfd].ended
  /\ \A item \in {"report", "message"} : ~Arrived(connfd, item)
  /\ Close(connfd, {})
  /\ server' = "unwatching"
  /\ UNCHANGED <<sockfd, epoll_fd, running, socks, events, serving>>

(* Fault: closeSocket() closes the descriptor a second time.               *)
FaultUnwatch ==
  /\ server = "unwatching"
  /\ Close(connfd, {})
  /\ server' = "dispatching"
  /\ events' = events \ {connfd}
  /\ UNCHANGED <<sockfd, epoll_fd, running, socks, serving>>

(* ... and then epoll_ctl(DEL) of a descriptor nobody or another has.      *)
Unwatch ==
  /\ server = "unwatching"
  /\ watched' = IF Is(epoll_fd, "epoll") THEN watched \ {connfd} ELSE watched
  /\ server' = "dispatching"
  /\ events' = events \ {connfd}
  /\ UNCHANGED <<file, backlog, sockfd, epoll_fd, running, socks, stale,
                 serving>>

(* The events are done: the loop goes on, or closes epoll_fd ...           *)
TestRunning ==
  /\ server = "dispatching" /\ events = {}
  /\ \/ /\ running
        /\ server' = "polling"
        /\ UNCHANGED <<file, watched, backlog, stale>>
     \/ /\ ~running
        /\ Close(epoll_fd, {})
        /\ server' = "closing"
  /\ UNCHANGED <<sockfd, epoll_fd, running, socks, events, serving>>

(* ... and sockfd, whether stopServer() has closed them or not.            *)
EndSock ==
  /\ server = "closing"
  /\ Close(sockfd, {})
  /\ server' = "finished"
  /\ UNCHANGED <<sockfd, epoll_fd, running, socks, events, serving>>

Serve == Open \/ OpenFails \/ Poll \/ Accept \/ ReadReport \/ ReadMessage
           \/ CloseSocket \/ Unwatch \/ TestRunning \/ EndSock
-----------------------------------------------------------------------------
(* The owner. *)
owning == <<addr, budget, running, socks, events, task>>

(* startServer(): run() begins, on another thread, ... *)
Start ==
  /\ owner = "idle"
  /\ owner' = "starting"
  /\ server' = "opening"
  /\ UNCHANGED <<file, watched, backlog, sockfd, epoll_fd, stale, owning>>

(* ... and running.wait(false) returns. *)
Started ==
  /\ owner = "starting"
  /\ running
  /\ owner' = "started"
  /\ UNCHANGED <<file, watched, backlog, sockfd, epoll_fd, server, stale,
                 owning>>

(* Fault: stopServer() waits for run() before it tells it to end.          *)
FaultStop ==
  /\ owner = "started"
  /\ owner' = "joining"
  /\ UNCHANGED <<file, watched, backlog, sockfd, epoll_fd, server, stale,
                 owning>>

(* stopServer(), also from the destructor.                                 *)
Stop ==
  /\ owner = "started"
  /\ running' = FALSE
  /\ owner' = IF sockfd > 0 THEN "close_sock"
              ELSE IF epoll_fd > 0 THEN "close_epoll" ELSE "joining"
  /\ UNCHANGED <<kernel, sockfd, epoll_fd, socks, addr, loop, task, stale>>

(* The destructor of a manager whose loop has ended by itself only waits.  *)
Destroy ==
  /\ owner = "started"
  /\ ~running
  /\ owner' = "joining"
  /\ UNCHANGED <<file, watched, backlog, sockfd, epoll_fd, server, stale,
                 owning>>

CloseSock ==
  /\ owner = "close_sock"
  /\ Close(sockfd, {})
  /\ owner' = "clear_sock"
  /\ UNCHANGED <<sockfd, epoll_fd, server, owning>>

ClearSock ==
  /\ owner = "clear_sock"
  /\ sockfd' = NoSock
  /\ owner' = IF epoll_fd > 0 THEN "close_epoll" ELSE "joining"
  /\ UNCHANGED <<file, watched, backlog, epoll_fd, server, stale, owning>>

CloseEpoll ==
  /\ owner = "close_epoll"
  /\ Close(epoll_fd, {})
  /\ owner' = "clear_epoll"
  /\ UNCHANGED <<sockfd, epoll_fd, server, owning>>

ClearEpoll ==
  /\ owner = "clear_epoll"
  /\ epoll_fd' = NoSock
  /\ owner' = "joining"
  /\ UNCHANGED <<file, watched, backlog, sockfd, server, stale, owning>>

(* networkTask.get_result().                                               *)
Join ==
  /\ owner = "joining"
  /\ server = "finished"
  /\ owner' = "stopped"
  /\ UNCHANGED <<file, watched, backlog, sockfd, epoll_fd, server, stale,
                 owning>>

Own == Started \/ CloseSock \/ ClearSock \/ CloseEpoll \/ ClearEpoll \/ Join
-----------------------------------------------------------------------------
(* sendMessage() and what it calls. *)
sending == <<addr, budget, sockfd, epoll_fd, running, loop, owner>>

(* Fault: the last retry is not recognised as the last.                    *)
FaultTryAgain(s) ==
  /\ retry' = [retry EXCEPT ![s] = @ - 1]
  /\ sock' = [sock EXCEPT ![s] = NoSock]
  /\ sender' = [sender EXCEPT ![s] = IF retry[s] < 0 THEN "threw"
                                                     ELSE "looking"]
  /\ UNCHANGED sent

(* Fault: a failed attempt is not counted.                                 *)
FaultNotCounted(s) ==
  /\ sock' = [sock EXCEPT ![s] = NoSock]
  /\ sender' = [sender EXCEPT ![s] = "looking"]
  /\ UNCHANGED <<retry, sent>>

(* retry--, and SendError when there is none left.                         *)
TryAgain(s) ==
  /\ retry' = [retry EXCEPT ![s] = @ - 1]
  /\ sock' = [sock EXCEPT ![s] = NoSock]
  /\ sender' = [sender EXCEPT ![s] = IF retry[s] = 0 THEN "threw"
                                                     ELSE "looking"]
  /\ UNCHANGED sent

(* getSendSocket(): the entry has a socket, ... *)
FindSocket(s) ==
  /\ sender[s] = "looking"
  /\ AccessorFree(To[s])
  /\ socks[To[s]] > 0
  /\ sock' = [sock EXCEPT ![s] = socks[To[s]]]
  /\ sender' = [sender EXCEPT ![s] = "writing"]
  /\ stale' = IF To[s] \in stale THEN stale \cup {s} ELSE stale \ {s}
  /\ UNCHANGED <<file, watched, backlog, socks, retry, sent, sending>>

(* ... or has none: a socket is made and connected to the address in the   *)
(* entry, the accessor kept ...                                            *)
MakeSocket(s) ==
  /\ sender[s] = "looking"
  /\ AccessorFree(To[s])
  /\ socks[To[s]] = NoSock /\ FreeFds # {}
  /\ addr[To[s]] # Nobody
  /\ file' = [file EXCEPT ![Lowest] = Connection(addr[To[s]], <<>>, FALSE)]
  /\ sock' = [sock EXCEPT ![s] = Lowest]
  /\ stale' = stale \ {s}
  /\ sender' = [sender EXCEPT ![s] = "waiting"]
  /\ UNCHANGED <<watched, backlog, socks, retry, sent, sending>>

(* ... or it does not connect, and is left open ...                        *)
ConnectFails(s) ==
  /\ sender[s] = "looking"
  /\ AccessorFree(To[s])
  /\ socks[To[s]] = NoSock /\ FreeFds # {}
  /\ file' = [file EXCEPT ![Lowest] = File("idle")]
  /\ TryAgain(s)
  /\ UNCHANGED <<watched, backlog, socks, stale, sending>>

(* ... or there is no entry, or no descriptor left.                        *)
FindNothing(s) ==
  /\ sender[s] = "looking"
  /\ AccessorFree(To[s])
  /\ socks[To[s]] = Absent \/ (socks[To[s]] = NoSock /\ FreeFds = {})
  /\ TryAgain(s)
  /\ UNCHANGED <<file, watched, backlog, socks, stale, sending>>

(* running.wait(false), with the accessor held.                            *)
AwaitRunning(s) ==
  /\ sender[s] = "waiting"
  /\ running
  /\ sender' = [sender EXCEPT ![s] = "reporting"]
  /\ UNCHANGED <<file, watched, backlog, socks, sock, retry, sent, stale,
                 sending>>

(* sendRankReportMessage() ... *)
Report(s) ==
  /\ sender[s] = "reporting"
  /\ Is(sock[s], "conn")
  /\ sender' = [sender EXCEPT ![s] = "entering"]
  /\ UNCHANGED <<file, watched, backlog, socks, sock, retry, sent, stale,
                 sending>>

(* ... then the entry, and epoll.                                          *)
Enter(s) ==
  /\ sender[s] = "entering"
  /\ socks' = [socks EXCEPT ![To[s]] = sock[s]]
  /\ stale' = IF s \in stale THEN stale \cup {To[s]} ELSE stale \ {To[s]}
  /\ IF Is(sock[s], "conn") THEN Watch(sock[s]) ELSE UNCHANGED watched
  /\ sender' = [sender EXCEPT ![s] = "writing"]
  /\ UNCHANGED <<file, backlog, sock, retry, sent, sending>>

Broken(s) == ~Is(sock[s], "conn") \/ file[sock[s]].ended

(* Fault: the entry is made before the report is sent, and stays.          *)
FaultReportFails(s) ==
  /\ sender[s] = "reporting"
  /\ Broken(s)
  /\ Close(sock[s], {s})
  /\ socks' = [socks EXCEPT ![To[s]] = sock[s]]
  /\ TryAgain(s)
  /\ UNCHANGED <<sending>>

(* The report is not written: close(sock).                                 *)
ReportFails(s) ==
  /\ sender[s] = "reporting"
  /\ Broken(s)
  /\ Close(sock[s], {s})
  /\ TryAgain(s)
  /\ UNCHANGED <<socks, sending>>

(* writev(), which waits until the peer has made room for the message:     *)
(* complete, or in part, which is thrown as an error; a peer that has      *)
(* closed the connection may take the message and lose it.                 *)
Write(s) ==
  /\ sender[s] = "writing"
  /\ Is(sock[s], "conn")
  /\ sent' = [sent EXCEPT ![s] = file[sock[s]].peer]
  /\ sock' = [sock EXCEPT ![s] = NoSock]
  /\ stale' = IF sent'[s] = To[s] THEN stale \ {s} ELSE stale
  /\ \E outcome \in {"returned", "threw"} :
       sender' = [sender EXCEPT ![s] = outcome]
  /\ UNCHANGED <<file, watched, backlog, socks, retry, sending>>

WriteFails(s) ==
  /\ sender[s] = "writing"
  /\ Broken(s)
  /\ sender' = [sender EXCEPT ![s] = "clearing"]
  /\ sock' = [sock EXCEPT ![s] = NoSock]
  /\ stale' = stale \ {s}
  /\ UNCHANGED <<file, watched, backlog, socks, retry, sent, sending>>

(* clearSendSocket(), whichever socket the entry has by now.               *)
Clear(s) ==
  /\ sender[s] = "clearing"
  /\ AccessorFree(To[s])
  /\ socks' = [socks EXCEPT ![To[s]] = IF @ = Absent THEN Absent ELSE NoSock]
  /\ stale' = stale \ {To[s]}
  /\ TryAgain(s)
  /\ UNCHANGED <<file, watched, backlog, sending>>

(* All but a writev() that waits for the peer.                             *)
GoOn(s) ==
  \/ FindSocket(s) \/ MakeSocket(s) \/ ConnectFails(s) \/ FindNothing(s)
  \/ AwaitRunning(s) \/ Report(s) \/ ReportFails(s) \/ Enter(s)
  \/ WriteFails(s) \/ Clear(s)
SendOn(s) == GoOn(s) \/ Write(s)
-----------------------------------------------------------------------------
Next ==
  \/ \E p \in Peers : PeerConnects(p) \/ RegisterTarget(p)
  \/ \E fd \in Fds : PeerSends(fd) \/ PeerCompletes(fd) \/ PeerEnds(fd)
  \/ Serve \/ PollIsInterrupted \/ GetMessage
  \/ Start \/ Stop \/ Destroy \/ Own
  \/ \E s \in Senders : SendOn(s)

(* The loop, the owner inside its calls and the tasks go on.  No peer has  *)
(* to read or to send, not even the rest of what it has begun, and no      *)
(* getMessage(), no signal and no call of the owner has to come.           *)
Fairness ==
  /\ WF_vars(Serve)
  /\ WF_vars(Own)
  /\ \A s \in Senders : WF_vars(GoOn(s))

Spec == Init /\ [][Next]_vars
FairSpec == Spec /\ Fairness
-----------------------------------------------------------------------------
(* The type invariant; epoll watches what can become readable only.        *)
TypeOK ==
  /\ file \in [Fds -> Files]
  /\ watched \subseteq {fd \in Fds : file[fd].kind \in {"listen", "conn"}}
  /\ backlog \in Seq(Files)
  /\ sockfd \in Fds \cup {NoSock} /\ epoll_fd \in Fds \cup {NoSock}
  /\ running \in BOOLEAN
  /\ socks \in [Peers -> Fds \cup {NoSock, Absent}]
  /\ addr \in [Peers -> Peers \cup {Nobody}]
  /\ server \in ServerStates
  /\ events \subseteq Fds
  /\ owner \in OwnerStates
  /\ sender \in [Senders -> SenderStates]
  /\ sock \in [Senders -> Fds \cup {NoSock}]
  /\ retry \in [Senders -> Nat \cup {-1}]
  /\ sent \in [Senders -> Peers \cup {Nobody}]
  /\ stale \subseteq Peers \cup Senders

(* The documentation: sendMessage() sends the message to the rank.         *)
SentToRank == \A s \in Senders : sent[s] \in {Nobody, To[s]}

(* A message for one rank is written to another one in two situations.     *)
(* The descriptor was closed by somebody else while the entry of the rank, *)
(* or the task, still had it.  Or the entry was not made by                *)
(* registerTarget() but by a rank report, whose connection is lost since:  *)
(* then the next one goes to who listens on this host at the port that was *)
(* reported.                                                               *)
OnlyEntriesMislead ==
  \A s \in Senders :
    \/ sent[s] \in {Nobody, To[s]}
    \/ s \in stale
    \/ sent[s] = AtMyHost[To[s]] /\ To[s] \notin Known

(* While nobody stops the server, a task that connects is alone with its   *)
(* descriptor, until it is in the entry: it is not closed, not reused and  *)
(* not another's, although the loop closes descriptors by number, and it   *)
(* still leads to the address that is in the entry.                        *)
OwnSocket ==
  owner \in {"idle", "starting", "started"} =>
    \A s \in Senders :
      /\ Connecting(s) => /\ file[sock[s]].kind = "conn"
                          /\ file[sock[s]].peer = addr[To[s]]
      /\ \A t \in Senders \ {s} : Connecting(s) /\ Connecting(t) =>
                                     sock[s] # sock[t]

(* The task is in a writev(), whose peer does not read and does not close  *)
(* the connection.                                                         *)
Stuck(s) == sender[s] = "writing" /\ ~Broken(s)

(* While the server runs, sendMessage() returns or throws, whatever the    *)
(* other tasks and the loop do, also when it was called before and has     *)
(* waited for the start.  It waits for ever only in writev(), for a peer.  *)
SendEnds ==
  \A s \in Senders :
    \/ sender[s] \notin {"returned", "threw"} ~>
         sender[s] \in {"returned", "threw"} \/ ~running
    \/ <>[]Stuck(s)

(* The loop waits for somebody who calls getMessage(); or in a read(): for *)
(* the rest of what a peer has begun to send, or for data on a descriptor  *)
(* that is another connection's by now.                                    *)
Blocked ==
  \/ server = "handing"
  \/ /\ AtConnection /\ Is(connfd, "conn") /\ ~file[connfd].ended
     /\ \A item \in {"report", "message"} : ~Arrived(connfd, item)

InCall == owner = "starting" \/ owner \in StopStates

(* startServer() returns unless run() fails, or resets running before it   *)
(* looks and is then blocked for good; stopServer() returns unless the     *)
(* loop is blocked for good.                                               *)
OwnerReturns ==
  \/ InCall ~> ~InCall \/ (owner = "starting" /\ server = "finished")
  \/ <>[]Blocked
=============================================================================
