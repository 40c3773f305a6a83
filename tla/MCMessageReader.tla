------------------------- MODULE MCMessageReader -------------------------
(* Model-checking instance of MessageReader: two message contents, a log  *)
(* of up to four sequence numbers built from up to three delayed messages. *)
EXTENDS MessageReader

CONSTANTS m1, m2

MCMsgs == {m1, m2}

=============================================================================
