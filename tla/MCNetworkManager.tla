------------------------- MODULE MCNetworkManager -------------------------
(***************************************************************************)
(* The instances of NetworkManager for TLC: two peers, one of which may    *)
(* connect, and two tasks.                                                 *)
(***************************************************************************)
EXTENDS NetworkManager

CONSTANTS p1, p2, s1, s2

MCPeers == {p1, p2}
MCSenders == {s1, s2}
MCConnects == [p \in MCPeers |-> IF p = p2 THEN 1 ELSE 0]

(* What p2 reports is a port that p1 has on this host.                     *)
MCAtMyHost == [p \in MCPeers |-> IF p = p2 THEN p1 ELSE Nobody]

ToFirst == [s \in MCSenders |-> p1]
ToEach == [s \in MCSenders |-> IF s = s1 THEN p1 ELSE p2]

RetryNone == [s \in MCSenders |-> 0]
RetryOnce == [s \in MCSenders |-> 1]
=============================================================================
