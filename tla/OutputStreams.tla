--------------------------- MODULE OutputStreams ---------------------------
(***************************************************************************)
(* What ArbCore promises of its two output streams (spec 2, item 5, and   *)
(* 4.5): logs and sends are append-only sequences indexed by dense         *)
(* counters; the only other change is a rewind of both together to a       *)
(* checkpoint still kept.                                                 *)
(*                                                                         *)
(* A mark is the pair of counts a checkpoint recorded.  Marks are added    *)
(* only at the end of what has been emitted, and may be forgotten (the     *)
(* checkpoint deleted) at any time; a rewind goes back to a kept mark      *)
(* and forgets the marks above it in the same step.                       *)
(***************************************************************************)
EXTENDS Naturals, Sequences

CONSTANTS LogVals

VARIABLES logs, sends, marks

vars == <<logs, sends, marks>>

Mark == [logs: Nat, sends: Nat]

Init ==
    /\ logs = <<>>
    /\ sends = 0
    /\ marks = {[logs |-> 0, sends |-> 0]}

(* An assertion's logs and sends are appended: the new streams extend the *)
(* old.  A checkpoint at the new end may be recorded, replacing others.    *)
Emit ==
    /\ logs' \in Seq(LogVals)
    /\ Len(logs') >= Len(logs) /\ SubSeq(logs', 1, Len(logs)) = logs
    /\ sends' \in Nat /\ sends' >= sends
    /\ marks' \subseteq marks \cup {[logs |-> Len(logs'), sends |-> sends']}

(* Checkpoints are deleted; the streams stay.                              *)
Forget ==
    /\ marks' \subseteq marks
    /\ UNCHANGED <<logs, sends>>

(* Both streams go back to a kept mark; the marks above it go.            *)
Rewind ==
    \E k \in marks :
        /\ marks' \subseteq {j \in marks : j.logs <= k.logs /\ j.sends <= k.sends}
        /\ k \in marks'
        /\ k.logs <= Len(logs)
        /\ logs' = SubSeq(logs, 1, k.logs)
        /\ sends' = k.sends

Next == Emit \/ Forget \/ Rewind

Spec == Init /\ [][Next]_vars

(* No mark is past the end of either stream.                               *)
MarksBehind == \A k \in marks : k.logs <= Len(logs) /\ k.sends <= sends

=============================================================================
