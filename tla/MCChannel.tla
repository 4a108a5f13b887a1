----------------------------- MODULE MCChannel -----------------------------
(***************************************************************************)
(* Instances of Channel for TLC: a few awaiters and one or two callers of  *)
(* close().  std::size_t has 16 bits here, which is enough to tell the     *)
(* converted capacity -1 from every capacity the awaiters can fill.        *)
(***************************************************************************)
EXTENDS Channel, TLC

MCSizeModulus == 65536
MCCapacities == {-1, 0, 1}

(* Awaiters of one kind and the callers of close() are interchangeable. *)
Symmetry ==
  Permutations(Readers) \cup Permutations(Writers) \cup Permutations(Closers)
=============================================================================
