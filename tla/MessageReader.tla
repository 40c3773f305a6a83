--------------------------- MODULE MessageReader ---------------------------
(***************************************************************************)
(* The message log of ArbCore and its readers: getMessagesImpl,            *)
(* getNextSequencerBatchItem, isValid, getInboxAcc and getInboxAccPair    *)
(* (arbcore.cpp, inside                                                    *)
(* packages/arb-avm-cpp/cmachine/executioncursor_test.go).  getMessages,   *)
(* which pads its result, is left out.                                     *)
(*                                                                         *)
(* The log is two columns: sequencer batch items keyed by their last       *)
(* sequence number, and delayed messages keyed by delayed index.  An item  *)
(* either carries one sequencer message or advances total_delayed_count,   *)
(* covering one sequence number per delayed message.  The log grows by     *)
(* appending items (addMessages) as delayed messages arrive; every state   *)
(* is checked for what the readers return on every small input.           *)
(*                                                                         *)
(* An accumulator is abstracted to the message contents it hashes: the     *)
(* messages of the log up to the end of its item.                          *)
(***************************************************************************)
EXTENDS Integers, Sequences, SequencesExt

CONSTANTS
    Msgs,        \* message contents
    MaxSeq,      \* bound: sequence numbers in the log
    MaxDelayed,  \* bound: delayed messages that arrive
    Counts,      \* counts a reader may ask for
    BadAcc,      \* model value: an accumulator of another history
    None         \* model value: no start accumulator

VARIABLES
    items,    \* sequencer batch items, in key order
    delayed   \* delayed messages, by delayed index (1-based here)

vars == <<items, delayed>>

NoMsg == None

-----------------------------------------------------------------------------
(* Derived views of the log                                                *)

TotalSeq == IF items = <<>> THEN 0 ELSE Last(items).last + 1
TotalDelayed == IF items = <<>> THEN 0 ELSE Last(items).total

(* The messages the log stands for, one per sequence number, each paired   *)
(* with its item's accumulator (spec 4.3): the reference for the readers.  *)
Flat ==
    LET Entries(k) ==
          LET it   == items[k]
              prev == IF k = 1 THEN 0 ELSE items[k - 1].total
          IN IF it.seq THEN <<[msg |-> it.msg, acc |-> it.acc]>>
             ELSE [j \in 1 .. it.total - prev |->
                     [msg |-> delayed[prev + j], acc |-> it.acc]]
    IN FoldLeft(LAMBDA s, k : s \o Entries(k), <<>>, [k \in 1 .. Len(items) |-> k])

Accs == {it.acc : it \in ToSet(items)} \cup {BadAcc}

Result(st, d) == [status |-> st, data |-> d]

-----------------------------------------------------------------------------
(* getNextSequencerBatchItem(n): the first item whose last sequence number *)
(* is at or after n, or NotFound.                                          *)
GetNextSequencerBatchItem(n) ==
    LET after == SelectSeq(items, LAMBDA it : it.last >= n)
    IN IF after = <<>> THEN Result("NotFound", None)
       ELSE Result("OK", Head(after))

(* Mutant: the validity check reads the item of message count, not the   *)
(* item of the last message read.                                         *)
IsValidOffByOne(count, acc) ==
    \/ count = 0
    \/ LET r == GetNextSequencerBatchItem(count)
       IN r.status = "OK" /\ r.data.acc = acc

(* isValid(count, acc): the item holding message count - 1 has acc.        *)
IsValid(count, acc) ==
    \/ count = 0
    \/ LET r == GetNextSequencerBatchItem(count - 1)
       IN r.status = "OK" /\ r.data.acc = acc

(* Mutant: the item after the one holding the message is read.            *)
GetInboxAccOffByOne(index) ==
    LET r == GetNextSequencerBatchItem(index + 1)
    IN IF r.status # "OK" THEN Result(r.status, None) ELSE Result("OK", r.data.acc)

(* getInboxAcc(index): the accumulator of the item holding message index.  *)
GetInboxAcc(index) ==
    LET r == GetNextSequencerBatchItem(index)
    IN IF r.status # "OK" THEN Result(r.status, None) ELSE Result("OK", r.data.acc)

(* getInboxAccPair(index1, index2): both accumulators from one snapshot;  *)
(* the first read that fails gives the status.                             *)
GetInboxAccPair(index1, index2) ==
    LET r1 == GetNextSequencerBatchItem(index1)
        r2 == GetNextSequencerBatchItem(index2)
    IN CASE r1.status # "OK" -> Result(r1.status, None)
         [] r2.status # "OK" -> Result(r2.status, None)
         [] OTHER -> Result("OK", <<r1.data.acc, r2.data.acc>>)

-----------------------------------------------------------------------------
(* getMessagesImpl(index, count, start_acc).  Seek to the item holding     *)
(* index - 1 (index 0: the first item) and walk forward.  The first item   *)
(* is a consistency check against start_acc; from it, if index falls in    *)
(* the middle of its delayed range, reading starts at the right delayed    *)
(* message.  A sequencer item emits its message; a delayed item emits its  *)
(* delayed messages while fewer than count have been emitted.  The walk    *)
(* stops once count messages are out or the items end; an unfinished       *)
(* check is NotFound.  Inconsistent items are a thrown runtime_error.      *)
RECURSIVE Walk(_, _, _, _, _, _, _)
RECURSIVE Emit(_, _, _, _, _, _, _)

(* One item after the consistency check; prev is prev_delayed_count.       *)
Emit(it, rest, msgs, prev, index, count, startAcc) ==
    IF it.seq
    THEN IF prev # it.total THEN Result("Throw", msgs)
         ELSE LET m2 == Append(msgs, [msg |-> it.msg, acc |-> it.acc])
              IN IF Len(m2) >= count THEN Result("OK", m2)
                 ELSE Walk(rest, m2, FALSE, prev, index, count, startAcc)
    ELSE LET want  == IF count > Len(msgs) THEN count - Len(msgs) ELSE 0
             avail == Len(delayed) - prev
             n     == Min({it.total - prev, avail, want})
             m2    == msgs \o [j \in 1 .. n |->
                                 [msg |-> delayed[prev + j], acc |-> it.acc]]
         IN IF Len(m2) < count /\ prev + n # it.total THEN Result("Throw", m2)
            ELSE IF Len(m2) >= count THEN Result("OK", m2)
            ELSE Walk(rest, m2, FALSE, prev + n, index, count, startAcc)

Walk(its, msgs, check, prev, index, count, startAcc) ==
    IF its = <<>>
    THEN IF check THEN Result("NotFound", <<>>) ELSE Result("OK", msgs)
    ELSE LET it == Head(its) IN
         IF ~check THEN Emit(it, Tail(its), msgs, prev, index, count, startAcc)
         ELSE IF startAcc # None /\ it.acc # startAcc THEN Result("NotFound", <<>>)
         ELSE IF count = 0 THEN Result("OK", msgs)
         ELSE IF it.last >= index
              THEN Emit(it, Tail(its), msgs, it.total - (it.last + 1 - index),
                        index, count, startAcc)
         ELSE Walk(Tail(its), msgs, FALSE, it.total, index, count, startAcc)

(* Mutant: the seek does not step back to the item of message index - 1.  *)
GetMessagesImplNoBackstep(index, count, startAcc) ==
    Walk(SelectSeq(items, LAMBDA it : it.last >= index), <<>>, index > 0, 0,
         index, count, startAcc)

GetMessagesImpl(index, count, startAcc) ==
    LET start == IF index > 0 THEN index - 1 ELSE 0
    IN Walk(SelectSeq(items, LAMBDA it : it.last >= start), <<>>, index > 0, 0,
            index, count, startAcc)

-----------------------------------------------------------------------------
Init == items = <<>> /\ delayed = <<>>

(* A delayed message arrives in the delayed inbox.                         *)
DelayedArrive(m) ==
    /\ Len(delayed) < MaxDelayed
    /\ delayed' = Append(delayed, m)
    /\ UNCHANGED items

(* addMessages appends an item carrying one sequencer message.            *)
AddSequencerItem(m) ==
    /\ TotalSeq < MaxSeq
    /\ items' = Append(items,
                  [last |-> TotalSeq, total |-> TotalDelayed, seq |-> TRUE,
                   msg |-> m, acc |-> [k \in 1 .. Len(Flat) |-> Flat[k].msg] \o <<m>>])
    /\ UNCHANGED delayed

(* addMessages appends an item that takes in k more delayed messages.     *)
AddDelayedItem(k) ==
    /\ TotalSeq + k <= MaxSeq
    /\ TotalDelayed + k <= Len(delayed)
    /\ items' = Append(items,
                  [last |-> TotalSeq + k - 1, total |-> TotalDelayed + k,
                   seq |-> FALSE, msg |-> NoMsg,
                   acc |-> [k2 \in 1 .. Len(Flat) |-> Flat[k2].msg]
                           \o SubSeq(delayed, TotalDelayed + 1, TotalDelayed + k)])
    /\ UNCHANGED delayed

Next ==
    \/ \E m \in Msgs : DelayedArrive(m)
    \/ \E m \in Msgs : AddSequencerItem(m)
    \/ \E k \in 1 .. MaxSeq : AddDelayedItem(k)

Spec == Init /\ [][Next]_vars

-----------------------------------------------------------------------------
(* Properties                                                              *)

(* The reference read of spec 4.3: after a consistency check of the        *)
(* message before index against start_acc, the messages from index on,     *)
(* stopping at count or the end of the log.                               *)
RefGetMessages(index, count, startAcc) ==
    IF index > 0 /\ (index > Len(Flat) \/
                     (startAcc # None /\ Flat[index].acc # startAcc))
    THEN Result("NotFound", <<>>)
    ELSE Result("OK", SubSeq(Flat, index + 1,
                             IF index + count > Len(Flat) THEN Len(Flat)
                             ELSE index + count))

Indexes == 0 .. MaxSeq + 1

(* getMessagesImpl, walking batch items and the delayed column from any    *)
(* position, including the middle of a delayed item, returns exactly the   *)
(* messages of the log from index on, with their items' accumulators, and  *)
(* NotFound exactly when the start accumulator does not match.             *)
ReadMatchesLog ==
    \A i \in Indexes, c \in Counts, a \in Accs \cup {None} :
        GetMessagesImpl(i, c, a) = RefGetMessages(i, c, a)

(* The core thread's validity check and its next read agree: for a count  *)
(* within the log, isValid(count, acc) holds exactly when readNextMessages *)
(* from (count, acc) is not refused as NotFound.                           *)
IsValidAgreesWithRead ==
    \A c \in 0 .. TotalSeq, a \in Accs :
        IsValid(c, a) <=> GetMessagesImpl(c, 1, a).status # "NotFound"

(* getInboxAcc of every message in the log is the accumulator addMessages *)
(* recorded for it, through items that cover several delayed messages, and *)
(* a message past the log is NotFound (spec 8); getInboxAccPair gives the  *)
(* two accumulators in order, and NotFound if either message is past it.  *)
InboxAccMatchesLog ==
    /\ \A i \in Indexes :
          GetInboxAcc(i) = IF i < Len(Flat) THEN Result("OK", Flat[i + 1].acc)
                           ELSE Result("NotFound", None)
    /\ \A i, j \in Indexes :
          GetInboxAccPair(i, j)
              = IF i < Len(Flat) /\ j < Len(Flat)
                THEN Result("OK", <<Flat[i + 1].acc, Flat[j + 1].acc>>)
                ELSE Result("NotFound", None)

(* A zero-count read returns no messages (spec 4.3: emission stops at the  *)
(* requested count).                                                      *)
ReadZeroCountEmpty ==
    \A i \in Indexes, a \in Accs \cup {None} :
        GetMessagesImpl(i, 0, a).data = <<>>

=============================================================================
