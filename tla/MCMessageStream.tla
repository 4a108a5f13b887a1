-------------------------- MODULE MCMessageStream --------------------------
(***************************************************************************)
(* The instance of MessageStream for TLC: one message longer than what the *)
(* connection holds and than one byte of size counts, with the verify code *)
(* where a reader of its first byte of size only expects it, and one short *)
(* enough for both.                                                        *)
(***************************************************************************)
EXTENDS MessageStream

CONSTANTS long, short

MCSenders == {long, short}
MCContents ==
  [s \in MCSenders |-> IF s = long THEN FixVerifyCode \o <<0, 1>> ELSE <<21>>]
=============================================================================
