------------------------ MODULE MCExecutionCursor ------------------------
(* Model-checking instance of ExecutionCursor: two message contents, a log *)
(* of up to three messages and one reorg.                                 *)
EXTENDS ExecutionCursor

CONSTANTS m1, m2

MCMsgs == {m1, m2}

=============================================================================
