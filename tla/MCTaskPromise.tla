--------------------------- MODULE MCTaskPromise ---------------------------
(***************************************************************************)
(* The instances of TaskPromise for TLC: Task.cfg, with a callback that    *)
(* may throw, and TaskBlocks.cfg.                                          *)
(***************************************************************************)
EXTENDS TaskPromise
=============================================================================
