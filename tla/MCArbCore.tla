----------------------------- MODULE MCArbCore -----------------------------
(* Model-checking instance of ArbCore: two message contents, two log       *)
(* values, one message that ends a block and one that does not.            *)
EXTENDS ArbCore, TLC

CONSTANTS m1, m2, a, b

MCMsgs == {m1, m2}
MCLogVals == {a, b}
(* m1 ends a block (sideload, so a checkpoint) and logs a and sends once;  *)
(* m2 logs b and does not end a block.                              *)
MCLogsOf == m1 :> <<a>> @@ m2 :> <<b>>
MCSendsOf == m1 :> 1 @@ m2 :> 0
MCSideloadAfter == m1 :> TRUE @@ m2 :> FALSE

(* Bound: the consumer's view grows each time the cursor redelivers logs  *)
(* it already handed out, so the passing safety runs stop exploring once   *)
(* it holds more entries than the log can.                                 *)
ViewBound == Len(view) <= MaxLogIndex

(* Refinement of the abstract output streams: the log column up to       *)
(* logInserted is the log stream, sendInserted the length of the send      *)
(* stream, and every saved checkpoint is a mark at the counts it recorded. *)
Streams == INSTANCE OutputStreams WITH
    logs  <- [i \in 1 .. logInserted |-> logsDb[i - 1]],
    sends <- sendInserted,
    marks <- {[logs |-> k.logCount, sends |-> k.sendCount] : k \in checkpoints}

(* ArbCore's log and send streams only grow, or go back together to a     *)
(* checkpoint still saved, across reorgs, the split reorg transactions and *)
(* crash restarts (spec 2 item 5, 4.5).                                    *)
StreamsRefined == Streams!Spec

=============================================================================
