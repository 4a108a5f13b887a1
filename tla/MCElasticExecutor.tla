------------------------- MODULE MCElasticExecutor -------------------------
(***************************************************************************)
(* The instance of ElasticExecutor for TLC.  t2 and t3 wait for t4, which  *)
(* comes last; t1 waits for nothing, so that the executor can grow and     *)
(* shrink before the others come.                                          *)
(***************************************************************************)
EXTENDS ElasticExecutor

CONSTANTS t1, t2, t3, t4

MCTasks == {t1, t2, t3, t4}
MCNeeds == [t \in MCTasks |-> IF t \in {t2, t3} THEN {t4} ELSE {}]
MCBefore ==
  [t \in MCTasks |->
     CASE t = t1 -> {} [] t = t2 -> {t1} [] t = t3 -> {t2} [] t = t4 -> {t3}]
=============================================================================
