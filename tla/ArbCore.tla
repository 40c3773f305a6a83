------------------------------- MODULE ArbCore -------------------------------
(***************************************************************************)
(* The ArbCore execution engine of arb-avm-cpp (data_storage/arbcore.cpp, *)
(* carried in this repository inside                                       *)
(* packages/arb-avm-cpp/cmachine/executioncursor_test.go from line 84).    *)
(*                                                                         *)
(* Actors:                                                                 *)
(*   - the feeder, calling deliverMessages / messagesStatus;               *)
(*   - the core thread, ArbCore::operator(), one action per stage of its   *)
(*     loop (validity check, inbox intake, machine status dispatch,        *)
(*     logs-cursor service);                                               *)
(*   - the machine thread (MachineThread, not in this repository) that     *)
(*     runs the VM over the messages the core thread hands it;             *)
(*   - the logs-cursor consumer, calling logsCursorRequest / GetLogs /     *)
(*     ConfirmReceived / ClearError;                                       *)
(*   - a crash of the process followed by initialize().                    *)
(*                                                                         *)
(* Data is abstracted: the accumulator of an inbox position is the prefix  *)
(* of the message log itself (a collision-free hash), a log value is a     *)
(* model value, one message costs one unit of gas and a sideload block     *)
(* number is the number of messages read when the VM stops at it.          *)
(***************************************************************************)
EXTENDS Integers, Sequences, FiniteSets, SequencesExt

CONSTANTS
    Msgs,              \* contents an inbox message can have
    LogVals,           \* values a log entry can reference
    LogsOf,            \* [Msgs -> Seq(LogVals)]: logs the VM emits for a message
    SendsOf,           \* [Msgs -> Nat]: number of sends the VM emits for a message
    SideloadAfter,     \* [Msgs -> BOOLEAN]: the VM stops at a block boundary after it
    SideloadCacheSize, \* sideload_cache_size
    MaxMessageBatch,   \* max_message_batch_size of the core thread
    RequestCounts,     \* counts a consumer may pass to logsCursorRequest
    MaxMsgs,           \* bound: length of the inbox message log
    MaxReorgs,         \* bound: reorganising deliveries by the feeder
    MaxCrashes,        \* bound: process crashes
    None               \* model value: an absent optional

ASSUME LogsOf \in [Msgs -> Seq(LogVals)] /\ SendsOf \in [Msgs -> Nat]
ASSUME SideloadAfter \in [Msgs -> BOOLEAN]
ASSUME {SideloadCacheSize, MaxMessageBatch, MaxMsgs, MaxReorgs, MaxCrashes} \subseteq Nat

(* Largest log index the bounded model can reach.                          *)
MaxLogIndex == MaxMsgs * (LET lens == {Len(LogsOf[m]) : m \in Msgs}
                          IN CHOOSE n \in lens : \A k \in lens : n >= k)
LogIndex == 0 .. MaxLogIndex - 1
NoLog == None

(* Largest send index the bounded model can reach.  A send's bytes are     *)
(* abstracted to the message history the VM had read when it emitted it.   *)
MaxSendIndex == MaxMsgs * (CHOOSE n \in {SendsOf[m] : m \in Msgs} :
                               \A m \in Msgs : n >= SendsOf[m])
SendIndex == 0 .. MaxSendIndex - 1
NoSend == None

VARIABLES
    (* persisted in the database *)
    msgs,          \* the inbox message log (sequencer batch items)
    checkpoints,   \* checkpoint column: set of MachineStateKeys records
    logsDb,        \* log column: index -> hash of the logged value
    logInserted,   \* state key log_inserted
    sendInserted,  \* state key send_inserted
    sendsDb,       \* send column: index -> send
    refcount,      \* value store reference counts of log values
    sideloads,     \* sideload column: block numbers
    curTotal,      \* logs cursor 0 current_total_count
    (* in memory of the process *)
    machine,       \* the core thread's MachineThread
    machineIdle,   \* machine_idle
    lastOutput,    \* last_machine_output.fully_processed_inbox.count
    sideloadCache, \* sideload_cache: block numbers
    mbox,          \* message_data_status with message_data
    corePc,        \* the stage of the core thread's loop
    reorg,         \* the reorg the core thread is in: its target and caller
    cursor,        \* logs_cursors[0] in memory
    (* the consumer of logs cursor 0 *)
    cpc,           \* where the consumer is in its request cycle
    view,          \* the logs the consumer believes are current, in order
    (* bounds *)
    reorgs, crashes

dbVars == <<msgs, checkpoints, logsDb, logInserted, sendInserted, sendsDb,
            refcount, sideloads, curTotal>>
coreVars == <<machine, machineIdle, lastOutput, sideloadCache, mbox, cursor>>
vars == <<dbVars, coreVars, corePc, reorg, cpc, view, reorgs, crashes>>

-----------------------------------------------------------------------------
(* Helpers translated from arbcore.cpp                                     *)

(* isValid: an inbox state is valid iff the message log still has its      *)
(* accumulator at position count - 1.                                      *)
IsValid(count, acc) ==
    count = 0 \/ (count <= Len(msgs) /\ SubSeq(msgs, 1, count) = acc)

(* getLogsNoLock: the values of logs [index, index + count), clamped to    *)
(* log_inserted_count.                                                     *)
GetLogsNoLock(index, count) ==
    LET n == IF index >= logInserted THEN 0
             ELSE IF index + count > logInserted THEN logInserted - index
             ELSE count
    IN [i \in 1 .. n |-> logsDb[index + i - 1]]

ReadNextMessages(count, acc, batch) ==
    [ok      |-> IsValid(count, acc),
     padding |-> batch,
     data    |-> SubSeq(msgs, count + 1,
                        IF count + batch > Len(msgs) THEN Len(msgs)
                        ELSE count + batch)]

(* The checkpoint the live machine's state is saved as.                    *)
StateKeys(mc) ==
    [count |-> mc.count, acc |-> mc.acc, logCount |-> mc.logCount,
     sendCount |-> mc.sendCount, lastSideload |-> mc.lastSideload]

(* getMachineUsingStateKeys: a fresh machine loaded from a checkpoint.     *)
(* Mutant: the send count is loaded from the log count's field.           *)
MachineFromSwapped(c) ==
    [status |-> "NONE", count |-> c.count, acc |-> c.acc,
     logCount |-> c.logCount, sendCount |-> c.logCount,
     lastSideload |-> c.lastSideload, staged |-> <<>>,
     aLogs |-> <<>>, aSends |-> <<>>, aSide |-> None]

MachineFrom(c) ==
    [status |-> "NONE", count |-> c.count, acc |-> c.acc,
     logCount |-> c.logCount, sendCount |-> c.sendCount,
     lastSideload |-> c.lastSideload, staged |-> <<>>,
     aLogs |-> <<>>, aSends |-> <<>>, aSide |-> None]

FreshCursor ==
    [status |-> "EMPTY", numReq |-> 0, pending |-> 0, data |-> <<>>,
     deleted |-> <<>>]

Occurrences(v, s) == Cardinality({i \in DOMAIN s : s[i] = v})

(* The sideload_cache eviction after saving the machine for `block`.       *)
EvictSideloads(cache, block) ==
    {b \in cache : ~((block > SideloadCacheSize /\ b < block - SideloadCacheSize)
                     \/ b > block)}

(* saveLogs: each log value is saved (one more reference) and its hash    *)
(* written at the next index; log_inserted advances past them.            *)
SaveLogs(a) ==
    /\ logsDb' = [i \in LogIndex |->
                    IF i >= logInserted /\ i < logInserted + Len(a)
                    THEN a[i - logInserted + 1] ELSE logsDb[i]]
    /\ refcount' = [v \in LogVals |-> refcount[v] + Occurrences(v, a)]
    /\ logInserted' = logInserted + Len(a)

(* saveSends: each send is put at the next index and send_inserted         *)
(* advances past them.                                                     *)
SaveSends(a) ==
    /\ sendsDb' = [i \in SendIndex |->
                    IF i >= sendInserted /\ i < sendInserted + Len(a)
                    THEN a[i - sendInserted + 1] ELSE sendsDb[i]]
    /\ sendInserted' = sendInserted + Len(a)

(* Mutant: the read stops where the column runs out of entries, not at    *)
(* send_inserted.                                                          *)
GetSendsToColumnEnd(index, count) ==
    LET n == Max({k \in 0 .. count :
                    \A i \in 0 .. k - 1 : index + i \in SendIndex
                                         /\ sendsDb[index + i] # NoSend})
    IN CASE count = 0 -> [status |-> "OK", data |-> <<>>]
         [] n = 0 -> [status |-> "NotFound", data |-> <<>>]
         [] OTHER -> [status |-> "OK", data |-> [i \in 1 .. n |-> sendsDb[index + i - 1]]]

(* getSends(index, count): a zero count is OK and empty; an index at or    *)
(* past send_inserted is NotFound; otherwise the sends from index on,      *)
(* clipped to send_inserted (sends past it are stale, never erased).       *)
GetSends(index, count) ==
    CASE count = 0 -> [status |-> "OK", data |-> <<>>]
      [] index >= sendInserted -> [status |-> "NotFound", data |-> <<>>]
      [] OTHER ->
           LET n == IF index + count > sendInserted THEN sendInserted - index
                    ELSE count
           IN [status |-> "OK", data |-> [i \in 1 .. n |-> sendsDb[index + i - 1]]]

(* saveSideloadPosition: record the block number of a sideload.            *)
SaveSideloadPosition(b) == sideloads \cup {b}

(* deleteSideloadsStartingAt: drop cached machines and persisted sideloads *)
(* at or above the block number.                                           *)
DeleteSideloadsStartingAt(next) ==
    /\ sideloadCache' = {b \in sideloadCache : b < next}
    /\ sideloads' = {b \in sideloads : b < next}

(* saveCheckpoint: an inbox state no longer in the log is not saved (the   *)
(* assert is compiled out and OK is returned); otherwise the machine's     *)
(* state keys are put under its gas, i.e. its message count.               *)
SaveCheckpoint(mc) ==
    IF IsValid(mc.count, mc.acc)
    THEN {k \in checkpoints : k.count # mc.count} \cup {StateKeys(mc)}
    ELSE checkpoints

-----------------------------------------------------------------------------
(* Mutants: the persisted count is not clamped to the reorg point; the    *)
(* held data is not truncated.                                             *)
CursorReorgNoClamp(c, cur, lc) ==
    LET p1   == IF cur > c.pending THEN cur ELSE c.pending
        drop == lc < p1
        del  == IF drop THEN c.deleted \o Reverse(GetLogsNoLock(lc, p1 - lc))
                ELSE c.deleted
        data == IF c.data = <<>> \/ cur >= lc THEN <<>>
                ELSE IF cur + Len(c.data) > lc THEN SubSeq(c.data, 1, lc - cur)
                ELSE c.data
        st   == IF c.status = "READY" /\ data = <<>> /\ del = <<>>
                THEN "REQUESTED" ELSE c.status
    IN [cursor |-> [c EXCEPT !.pending = IF drop THEN lc ELSE p1,
                             !.deleted = del, !.data = data, !.status = st],
        total  |-> cur]

CursorReorgKeepData(c, cur, lc) ==
    LET p1   == IF cur > c.pending THEN cur ELSE c.pending
        drop == lc < p1
        del  == IF drop THEN c.deleted \o Reverse(GetLogsNoLock(lc, p1 - lc))
                ELSE c.deleted
        st   == IF c.status = "READY" /\ c.data = <<>> /\ del = <<>>
                THEN "REQUESTED" ELSE c.status
    IN [cursor |-> [c EXCEPT !.pending = IF drop THEN lc ELSE p1,
                             !.deleted = del, !.status = st],
        total  |-> IF drop /\ cur > lc THEN lc ELSE cur]

(* handleLogsCursorReorg(0, lc): the new in-memory cursor and persisted    *)
(* current total count, computed before any log entry is deleted.         *)
CursorReorg(c, cur, lc) ==
    LET p1   == IF cur > c.pending THEN cur ELSE c.pending
        drop == lc < p1
        del  == IF drop THEN c.deleted \o Reverse(GetLogsNoLock(lc, p1 - lc))
                ELSE c.deleted
        data == IF c.data = <<>> \/ cur >= lc THEN <<>>
                ELSE IF cur + Len(c.data) > lc THEN SubSeq(c.data, 1, lc - cur)
                ELSE c.data
        st   == IF c.status = "READY" /\ data = <<>> /\ del = <<>>
                THEN "REQUESTED" ELSE c.status
    IN [cursor |-> [c EXCEPT !.pending = IF drop THEN lc ELSE p1,
                             !.deleted = del, !.data = data, !.status = st],
        total  |-> IF drop /\ cur > lc THEN lc ELSE cur]

(* deleteLogsStartingAt(lc): every log entry at or after lc releases its   *)
(* reference to its value; the entries themselves stay in the column.      *)
DeleteLogsStartingAt(lc) ==
    [v \in LogVals |->
        LET k == Cardinality({i \in LogIndex : i >= lc /\ logsDb[i] = v})
        IN IF refcount[v] > k THEN refcount[v] - k ELSE 0]

(* Mutant: a checkpoint one message past the reorg point counts as        *)
(* eligible.                                                               *)
ReorgPastTarget(m, useLatest) ==
    {k \in checkpoints : /\ k.count = 0 \/ useLatest \/ m >= k.count - 2
                         /\ IsValid(k.count, k.acc)}

(* The checkpoints reorgToMessageOrBefore(m, useLatest) may stop at: at or *)
(* before message m (or any, with useLatest) and still valid.  An eligible *)
(* checkpoint that is not valid trips an assert compiled out in release.   *)
ReorgEligible(m, useLatest) ==
    {k \in checkpoints : /\ k.count = 0 \/ useLatest \/ m >= k.count - 1
                         /\ IsValid(k.count, k.acc)}

(* The newest eligible checkpoint, where the backwards walk stops.         *)
ReorgTarget(m, useLatest) ==
    LET e == ReorgEligible(m, useLatest)
    IN CHOOSE k \in e : \A j \in e : k.count >= j.count

(* Mutant: checkpoints above the target are deleted only if invalid.      *)
ReorgKeepsValid(t) ==
    checkpoints' = {k \in checkpoints : k.count <= t.count \/ IsValid(k.count, k.acc)}

(* First transaction: every checkpoint above the target is deleted on the  *)
(* way down and the deletions are committed.                               *)
ReorgDeleteCheckpoints(t) ==
    checkpoints' = {k \in checkpoints : k.count <= t.count}

(* Second: handleLogsCursorReorg for each logs cursor, in its own          *)
(* transaction, only if the target has fewer logs than log_inserted.       *)
ReorgLogsCursors(t, c) ==
    IF t.logCount < logInserted
    THEN LET cr == CursorReorg(c, curTotal, t.logCount)
         IN cursor' = cr.cursor /\ curTotal' = cr.total
    ELSE cursor' = c /\ curTotal' = curTotal

(* Mutant: the rollback resets the log count but not the send count.     *)
ReorgRollBackKeepSends(t) ==
    /\ DeleteSideloadsStartingAt(IF t.lastSideload = None THEN 0
                                 ELSE t.lastSideload + 1)
    /\ refcount' = DeleteLogsStartingAt(t.logCount)
    /\ logInserted' = t.logCount
    /\ sendInserted' = sendInserted
    /\ UNCHANGED sendsDb
    /\ machine' = MachineFrom(t)
    /\ lastOutput' = t.count

(* Third: sideloads after the target's block and the log references from   *)
(* its log count on are deleted, the inserted counts are set to its own    *)
(* (the sends themselves stay), and the machine is reloaded from it and    *)
(* its output published.                                                   *)
ReorgRollBack(t) ==
    /\ DeleteSideloadsStartingAt(IF t.lastSideload = None THEN 0
                                 ELSE t.lastSideload + 1)
    /\ refcount' = DeleteLogsStartingAt(t.logCount)
    /\ logInserted' = t.logCount
    /\ sendInserted' = t.sendCount
    /\ UNCHANGED sendsDb
    /\ machine' = MachineFrom(t)
    /\ lastOutput' = t.count

(* reorgToMessageOrBefore(m, useLatest) run to its end with in-memory      *)
(* cursor c, as initialize() runs it.  It changes checkpoints, cursor,     *)
(* curTotal, sideloads, sideloadCache, refcount, logInserted,              *)
(* sendInserted, machine and lastOutput.                                   *)
ReorgToMessageOrBefore(m, useLatest, c) ==
    /\ ReorgEligible(m, useLatest) # {}
    /\ LET t == ReorgTarget(m, useLatest)
       IN ReorgDeleteCheckpoints(t) /\ ReorgLogsCursors(t, c) /\ ReorgRollBack(t)

-----------------------------------------------------------------------------
Genesis == [count |-> 0, acc |-> <<>>, logCount |-> 0, sendCount |-> 0,
            lastSideload |-> None]

(* The state initialize() leaves on a fresh database.                      *)
Init ==
    /\ msgs = <<>>
    /\ checkpoints = {Genesis}
    /\ logsDb = [i \in LogIndex |-> NoLog]
    /\ logInserted = 0
    /\ sendInserted = 0
    /\ sendsDb = [i \in SendIndex |-> NoSend]
    /\ refcount = [v \in LogVals |-> 0]
    /\ sideloads = {}
    /\ curTotal = 0
    /\ machine = MachineFrom(Genesis)
    /\ machineIdle = FALSE
    /\ lastOutput = 0
    /\ sideloadCache = {}
    /\ mbox = [status |-> "EMPTY", reorgCount |-> None, batch |-> <<>>]
    /\ corePc = "valid"
    /\ reorg = None
    /\ cursor = FreshCursor
    /\ cpc = "idle"
    /\ view = <<>>
    /\ reorgs = 0
    /\ crashes = 0

-----------------------------------------------------------------------------
(* Feeder                                                                  *)

(* deliverMessages: only when the slot is empty; either one message at the *)
(* tip, or one message replacing everything from position k on.            *)
DeliverMessages(m, k) ==
    /\ mbox.status = "EMPTY"
    /\ \/ k = None /\ Len(msgs) < MaxMsgs
       \/ k \in 1 .. Len(msgs) /\ k < MaxMsgs /\ reorgs < MaxReorgs
    /\ mbox' = [status |-> "READY", reorgCount |-> k, batch |-> <<m>>]
    /\ reorgs' = IF k = None THEN reorgs ELSE reorgs + 1
    /\ UNCHANGED <<reorg, dbVars, machine, machineIdle, lastOutput, sideloadCache,
                   corePc, cursor, cpc, view, crashes>>

(* messagesStatus: reading a status other than ERROR or READY empties the  *)
(* slot.                                                                   *)
MessagesStatus ==
    /\ mbox.status \notin {"EMPTY", "ERROR", "READY"}
    /\ mbox' = [mbox EXCEPT !.status = "EMPTY"]
    /\ UNCHANGED <<reorg, dbVars, machine, machineIdle, lastOutput, sideloadCache,
                   corePc, cursor, cpc, view, reorgs, crashes>>

-----------------------------------------------------------------------------
(* Core thread                                                             *)

(* Start of a loop iteration: if the machine's inbox state is no longer in *)
(* the message log, reorgToMessageOrBefore(0, true) rolls back to the      *)
(* latest valid checkpoint; its first transaction runs here.               *)
CoreCheckValid ==
    /\ corePc = "valid"
    /\ IF IsValid(machine.count, machine.acc)
          THEN /\ corePc' = "intake"
               /\ UNCHANGED <<checkpoints, reorg>>
          ELSE /\ ReorgEligible(0, TRUE) # {}
               /\ ReorgDeleteCheckpoints(ReorgTarget(0, TRUE))
               /\ reorg' = [target |-> ReorgTarget(0, TRUE), intake |-> FALSE]
               /\ corePc' = "reorgCursors"
    /\ UNCHANGED <<msgs, logsDb, logInserted, sendInserted, sendsDb, refcount, sideloads,
                   curTotal, coreVars, cpc, view, reorgs, crashes>>

(* addMessages' write of the batch (addMessages is not in this repository; *)
(* spec 4.5): over the log from the reorg position, or at the tip; the     *)
(* loop then clears machine_idle and reports SUCCESS.                      *)
WriteBatch ==
    /\ msgs' = IF mbox.reorgCount = None THEN msgs \o mbox.batch
               ELSE SubSeq(msgs, 1, mbox.reorgCount) \o mbox.batch
    /\ machineIdle' = FALSE
    /\ mbox' = [mbox EXCEPT !.status = "SUCCESS"]

(* Mutant: the slot is taken only while the machine is idle.             *)
CoreIntakeWhenIdle ==
    /\ corePc = "intake"
    /\ CASE mbox.status # "READY" \/ ~machineIdle ->
              /\ corePc' = "status"
              /\ UNCHANGED <<msgs, checkpoints, machineIdle, mbox, reorg>>
         [] mbox.reorgCount = None ->
              /\ WriteBatch
              /\ corePc' = "status"
              /\ UNCHANGED <<checkpoints, reorg>>
         [] OTHER ->
              /\ ReorgDeleteCheckpoints(ReorgTarget(mbox.reorgCount - 1, FALSE))
              /\ reorg' = [target |-> ReorgTarget(mbox.reorgCount - 1, FALSE),
                           intake |-> TRUE]
              /\ corePc' = "reorgCursors"
              /\ UNCHANGED <<msgs, machineIdle, mbox>>
    /\ UNCHANGED <<logsDb, logInserted, sendInserted, sendsDb, refcount, sideloads, curTotal,
                   machine, lastOutput, sideloadCache, cursor, cpc, view, reorgs,
                   crashes>>

(* Inbox intake through addMessages: a batch at the tip is written in one  *)
(* transaction; a reorganising batch first runs reorgToMessageOrBefore to  *)
(* the message before its first position, whose first transaction runs    *)
(* here.                                                                   *)
CoreIntake ==
    /\ corePc = "intake"
    /\ CASE mbox.status # "READY" ->
              /\ corePc' = "status"
              /\ UNCHANGED <<msgs, checkpoints, machineIdle, mbox, reorg>>
         [] mbox.reorgCount = None ->
              /\ WriteBatch
              /\ corePc' = "status"
              /\ UNCHANGED <<checkpoints, reorg>>
         [] OTHER ->
              /\ ReorgDeleteCheckpoints(ReorgTarget(mbox.reorgCount - 1, FALSE))
              /\ reorg' = [target |-> ReorgTarget(mbox.reorgCount - 1, FALSE),
                           intake |-> TRUE]
              /\ corePc' = "reorgCursors"
              /\ UNCHANGED <<msgs, machineIdle, mbox>>
    /\ UNCHANGED <<logsDb, logInserted, sendInserted, sendsDb, refcount, sideloads, curTotal,
                   machine, lastOutput, sideloadCache, cursor, cpc, view, reorgs,
                   crashes>>

(* The reorg's second transaction: the logs cursors.                      *)
CoreReorgCursors ==
    /\ corePc = "reorgCursors"
    /\ ReorgLogsCursors(reorg.target, cursor)
    /\ corePc' = "reorgLogs"
    /\ UNCHANGED <<msgs, checkpoints, logsDb, logInserted, sendInserted, sendsDb, refcount,
                   sideloads, machine, machineIdle, lastOutput, sideloadCache,
                   mbox, reorg, cpc, view, reorgs, crashes>>

(* The reorg's third transaction; then the loop goes on to intake, or      *)
(* addMessages goes on to write its batch.                                 *)
CoreReorgRollBack ==
    /\ corePc = "reorgLogs"
    /\ ReorgRollBack(reorg.target)
    /\ corePc' = IF reorg.intake THEN "append" ELSE "intake"
    /\ reorg' = None
    /\ UNCHANGED <<msgs, checkpoints, logsDb, curTotal, machineIdle, mbox, cursor,
                   cpc, view, reorgs, crashes>>

(* addMessages writes the reorganising batch after the reorg.              *)
CoreAppend ==
    /\ corePc = "append"
    /\ WriteBatch
    /\ corePc' = "status"
    /\ UNCHANGED <<checkpoints, logsDb, logInserted, sendInserted, sendsDb, refcount,
                   sideloads, curTotal, machine, lastOutput, sideloadCache,
                   cursor, reorg, cpc, view, reorgs, crashes>>

(* Machine status dispatch.  SUCCESS: publish the output, save logs and    *)
(* sends, and at a sideload boundary save the sideload, cache the machine, *)
(* save a checkpoint and let the machine continue; all in one transaction. *)
(* ABORTED: clear it.  NONE (also right after a finished assertion): read  *)
(* the next messages and run the machine, or mark the machine idle.        *)
(* A finished assertion: nextAssertion() and last_machine_output are taken *)
(* under the last-output mutex before anything is saved, so readers see    *)
(* the new output while the assertion is still uncommitted.               *)
CoreMachinePublish ==
    /\ corePc = "status"
    /\ machine.status = "SUCCESS"
    /\ lastOutput' = machine.count
    /\ corePc' = "save"
    /\ UNCHANGED <<reorg, dbVars, machine, machineIdle, sideloadCache, mbox,
                   cursor, cpc, view, reorgs, crashes>>

CoreMachineStatus ==
    /\ \/ corePc = "status" /\ machine.status # "SUCCESS"
       \/ corePc = "save"
    /\ corePc' = "cursors"
    /\ machine.status # "ERROR"
    /\ LET succ  == machine.status = "SUCCESS"
           a     == machine.aLogs
           side  == succ /\ machine.aSide # None
           mc1   == IF ~succ THEN machine
                    ELSE [machine EXCEPT !.aLogs = <<>>, !.aSends = <<>>,
                            !.aSide = None,
                            !.status = IF side THEN "RUNNING" ELSE "NONE"]
           mc2   == IF mc1.status = "ABORTED" THEN [mc1 EXCEPT !.status = "NONE"]
                    ELSE mc1
           rd    == ReadNextMessages(mc2.count, mc2.acc, MaxMessageBatch)
           start == mc2.status = "NONE" /\ rd.ok
                    /\ (rd.padding > 0 \/ rd.data # <<>>)
       IN /\ mc2.status = "NONE" => rd.ok
          /\ machine' = IF start THEN [mc2 EXCEPT !.status = "RUNNING",
                                                  !.staged = rd.data]
                        ELSE mc2
          /\ machineIdle' = IF mc2.status = "NONE" /\ ~start THEN TRUE
                            ELSE machineIdle
          /\ IF succ
                THEN /\ SaveLogs(a)
                     /\ SaveSends(machine.aSends)
                     /\ sideloads' = IF side THEN SaveSideloadPosition(machine.aSide)
                                     ELSE sideloads
                     /\ sideloadCache' =
                           IF side THEN EvictSideloads(sideloadCache \cup {machine.aSide},
                                                       machine.aSide)
                           ELSE sideloadCache
                     /\ checkpoints' = IF side THEN SaveCheckpoint(machine)
                                       ELSE checkpoints
                ELSE UNCHANGED <<logsDb, refcount, logInserted,
                                 sendInserted, sendsDb, sideloads, sideloadCache,
                                 checkpoints>>
    /\ UNCHANGED <<reorg, msgs, curTotal, lastOutput, mbox, cursor, cpc, view, reorgs, crashes>>

(* Mutant: a request for more logs than are saved waits for them instead  *)
(* of being cut down to what there is.                                      *)
HandleLogsCursorRequestedWaitFull ==
    LET cur == curTotal
        c0  == [cursor EXCEPT !.data = <<>>]
    IN cursor' = CASE cur > logInserted                 -> [c0 EXCEPT !.status = "ERROR"]
                   [] cur + cursor.numReq > logInserted -> c0
                   [] OTHER -> [c0 EXCEPT !.status = "READY",
                                          !.data = GetLogsNoLock(cur, cursor.numReq)]

(* handleLogsCursorRequested(0), under the cursor's mutex.                 *)
HandleLogsCursorRequested ==
    LET cur == curTotal
        n   == IF cur + cursor.numReq > logInserted THEN logInserted - cur
               ELSE cursor.numReq
        c0  == [cursor EXCEPT !.data = <<>>]
    IN cursor' = CASE cur = logInserted -> c0
                   [] cur > logInserted -> [c0 EXCEPT !.status = "ERROR"]
                   [] n = 0             -> [c0 EXCEPT !.status = "READY", !.numReq = 0]
                   [] OTHER             -> [c0 EXCEPT !.status = "READY", !.numReq = n,
                                                 !.data = GetLogsNoLock(cur, n)]

(* Service every logs cursor in state REQUESTED, then start over.          *)
CoreLogsCursors ==
    /\ corePc = "cursors"
    /\ corePc' = "valid"
    /\ IF cursor.status = "REQUESTED" THEN HandleLogsCursorRequested
       ELSE UNCHANGED cursor
    /\ UNCHANGED <<reorg, dbVars, machine, machineIdle, lastOutput, sideloadCache,
                   mbox, cpc, view, reorgs, crashes>>

-----------------------------------------------------------------------------
(* Machine thread (MachineThread is not in this repository): it consumes   *)
(* its staged messages one at a time, accumulating the assertion, and      *)
(* stops with SUCCESS at a sideload boundary or when it runs out of them.  *)
MachineRun ==
    /\ machine.status = "RUNNING"
    /\ IF machine.staged = <<>>
          THEN machine' = [machine EXCEPT !.status = "SUCCESS"]
          ELSE LET m == Head(machine.staged)
                   n == machine.count + 1
                   stop == SideloadAfter[m] \/ Tail(machine.staged) = <<>>
               IN machine' = [machine EXCEPT
                     !.count = n, !.acc = Append(@, m),
                     !.logCount = @ + Len(LogsOf[m]),
                     !.sendCount = @ + SendsOf[m],
                     !.lastSideload = IF SideloadAfter[m] THEN n ELSE @,
                     !.staged = Tail(@), !.aLogs = @ \o LogsOf[m],
                     !.aSends = @ \o [j \in 1 .. SendsOf[m] |-> Append(machine.acc, m)],
                     !.aSide = IF SideloadAfter[m] THEN n ELSE @,
                     !.status = IF stop THEN "SUCCESS" ELSE "RUNNING"]
    /\ UNCHANGED <<reorg, dbVars, machineIdle, lastOutput, sideloadCache, mbox,
                   corePc, cursor, cpc, view, reorgs, crashes>>

-----------------------------------------------------------------------------
(* Logs cursor consumer                                                    *)

(* logsCursorRequest: legal only while the cursor is EMPTY.                *)
LogsCursorRequest(n) ==
    /\ cpc = "idle"
    /\ cursor.status = "EMPTY"
    /\ cursor' = [cursor EXCEPT !.numReq = n, !.status = "REQUESTED"]
    /\ cpc' = "waiting"
    /\ UNCHANGED <<reorg, dbVars, machine, machineIdle, lastOutput, sideloadCache,
                   mbox, corePc, view, reorgs, crashes>>

(* logsCursorGetLogs on a READY cursor: hand out data and deleted_data,    *)
(* and set pending_total_count to current + |data|.  The consumer drops    *)
(* the deleted logs from the end of its view, then appends the new ones.   *)
LogsCursorGetLogs ==
    /\ cpc \in {"waiting", "got"}
    /\ cursor.status = "READY"
    /\ cursor' = [cursor EXCEPT !.pending = curTotal + Len(cursor.data),
                                !.data = <<>>, !.deleted = <<>>]
    /\ LET keep == Len(view) - Len(cursor.deleted)
       IN view' = SubSeq(view, 1, IF keep > 0 THEN keep ELSE 0) \o cursor.data
    /\ cpc' = "got"
    /\ UNCHANGED <<reorg, dbVars, machine, machineIdle, lastOutput, sideloadCache,
                   mbox, corePc, reorgs, crashes>>

(* logsCursorConfirmReceived: outside READY it puts the cursor in ERROR;   *)
(* with data or deleted_data left it refuses; otherwise it persists        *)
(* pending_total_count and empties the cursor.                             *)
LogsCursorConfirmReceived ==
    /\ cpc = "got"
    /\ CASE cursor.status # "READY" ->
              /\ cursor' = [cursor EXCEPT !.status = "ERROR"]
              /\ UNCHANGED <<curTotal, cpc>>
         [] cursor.data # <<>> \/ cursor.deleted # <<>> ->
              UNCHANGED <<cursor, curTotal, cpc>>
         [] OTHER ->
              /\ curTotal' = cursor.pending
              /\ cursor' = [cursor EXCEPT !.status = "EMPTY"]
              /\ cpc' = "idle"
    /\ UNCHANGED <<reorg, msgs, checkpoints, logsDb, logInserted, sendInserted,
                   sendsDb, refcount, sideloads, machine, machineIdle, lastOutput,
                   sideloadCache, mbox, corePc, view, reorgs, crashes>>

(* logsCursorClearError: from ERROR back to EMPTY, dropping queued data.   *)
LogsCursorClearError ==
    /\ cursor.status = "ERROR"
    /\ cursor' = [cursor EXCEPT !.status = "EMPTY", !.data = <<>>, !.deleted = <<>>]
    /\ cpc' = "idle"
    /\ UNCHANGED <<reorg, dbVars, machine, machineIdle, lastOutput, sideloadCache,
                   mbox, corePc, view, reorgs, crashes>>

-----------------------------------------------------------------------------
(* Crash and restart: memory is lost, the database stays, and initialize() *)
(* reorgs to the latest valid checkpoint.  The consumer keeps the logs it  *)
(* had confirmed.                                                          *)
CrashRestart ==
    /\ crashes < MaxCrashes
    /\ crashes' = crashes + 1
    /\ ReorgToMessageOrBefore(0, TRUE, FreshCursor)
    /\ machineIdle' = FALSE
    /\ mbox' = [status |-> "EMPTY", reorgCount |-> None, batch |-> <<>>]
    /\ corePc' = "valid"
    /\ reorg' = None
    /\ cpc' = "idle"
    /\ view' = SubSeq(view, 1, IF curTotal < Len(view) THEN curTotal ELSE Len(view))
    /\ UNCHANGED <<msgs, logsDb, reorgs>>

-----------------------------------------------------------------------------
CoreStep ==
    \/ CoreCheckValid \/ CoreIntake \/ CoreReorgCursors \/ CoreReorgRollBack
    \/ CoreAppend \/ CoreMachinePublish \/ CoreMachineStatus \/ CoreLogsCursors

Next ==
    \/ \E m \in Msgs, k \in (1 .. MaxMsgs) \cup {None} : DeliverMessages(m, k)
    \/ MessagesStatus
    \/ CoreCheckValid
    \/ CoreIntake
    \/ CoreReorgCursors
    \/ CoreReorgRollBack
    \/ CoreAppend
    \/ CoreMachinePublish
    \/ CoreMachineStatus
    \/ CoreLogsCursors
    \/ MachineRun
    \/ \E n \in RequestCounts : LogsCursorRequest(n)
    \/ LogsCursorGetLogs
    \/ LogsCursorConfirmReceived
    \/ LogsCursorClearError
    \/ CrashRestart

(* The core thread loops until aborted and the machine thread runs once    *)
(* started; neither waits on the feeder or the consumer.                   *)
Fairness == WF_vars(CoreStep) /\ WF_vars(MachineRun)

Spec == Init /\ [][Next]_vars /\ Fairness

-----------------------------------------------------------------------------
(* Properties                                                              *)

(* Every persisted checkpoint still agrees with the message log: the feeder *)
(* rewrites the log's tail through addMessages, and reorgToMessageOrBefore *)
(* must have deleted every checkpoint that read a rewritten message.       *)
CheckpointsValid == \A c \in checkpoints : IsValid(c.count, c.acc)

(* No checkpoint claims more logs or sends than the database holds: a      *)
(* reorg or restart rolls log_inserted and send_inserted back only as far  *)
(* as the checkpoint it keeps.                                             *)
CheckpointOutputsPersisted ==
    \A c \in checkpoints : c.logCount <= logInserted /\ c.sendCount <= sendInserted

(* The live machine's output counters are the database counters plus what *)
(* its pending assertion has not saved yet: saveLogs/saveSends, reorgs and *)
(* restarts keep machine and database in step.                            *)
MachineOutputsAccounted ==
    /\ machine.logCount = logInserted + Len(machine.aLogs)
    /\ machine.sendCount = sendInserted + Len(machine.aSends)

(* Reference: the sends the VM emits reading messages 1 .. k of the log,   *)
(* each abstracted to the history it had read.                             *)
SendsOfLog(k) ==
    FoldLeft(LAMBDA s, n : s \o [j \in 1 .. SendsOf[msgs[n]] |-> SubSeq(msgs, 1, n)],
             <<>>, [n \in 1 .. k |-> n])

(* Bound: the reads checked in every state.                                *)
SendReads == (0 .. MaxSendIndex) \X {0, 1, 2}

(* machineMessagesRead() (last_machine_output) is published before the    *)
(* assertion that produced it is committed (F:757-761 before F:821), and    *)
(* sends are never erased on a reorg or restart, only truncated by          *)
(* send_inserted (spec 4.5 and 5).  So the column is never ahead of the     *)
(* published output, and every getSends read returns the sends the VM      *)
(* emitted for the published messages, cut at send_inserted: never a       *)
(* stale send of a replaced history that is still in the column.           *)
SendsReadMatchesLog ==
    LET ref == SendsOfLog(lastOutput) IN
    /\ sendInserted <= Len(ref)
    /\ \A r \in SendReads :
          GetSends(r[1], r[2]).data
              = SubSeq(ref, r[1] + 1, IF r[1] + r[2] > sendInserted THEN sendInserted
                                      ELSE r[1] + r[2])

(* The persisted position of logs cursor 0 never passes log_inserted:      *)
(* handleLogsCursorReorg clamps it before a reorg deletes logs.            *)
CursorBehind == curTotal <= logInserted

(* The data a logs cursor holds for its consumer is exactly the live log   *)
(* from the cursor's persisted position on, across reorgs that truncate it.*)
CursorDataIsLog ==
    \A i \in 1 .. Len(cursor.data) :
        /\ curTotal + i - 1 < logInserted
        /\ cursor.data[i] = logsDb[curTotal + i - 1]

(* Every log below log_inserted references a value the value store still   *)
(* holds (spec: "For every persisted log index i < log_inserted_count, the *)
(* referenced ValueStore hash has refcount >= 1").                         *)
LogRefcountSound ==
    \A i \in 0 .. logInserted - 1 : refcount[logsDb[i]] >= 1

(* What the consumer holds, less the logs it has yet to be told were       *)
(* deleted, is a prefix of the live log (spec: a consumer never sees index *)
(* i again unless it first appears in deleted_data).                       *)
ConsumerViewIsLogPrefix ==
    \A i \in 1 .. Len(view) - Len(cursor.deleted) :
        i <= logInserted /\ view[i] = logsDb[i - 1]

(* A crash between the reorg's transactions is completed by the restart   *)
(* (spec 4.1: the invariants hold across crashes): initialize reorgs to    *)
(* the checkpoint the interrupted reorg had chosen, since its first        *)
(* transaction deleted everything above it, so log_inserted, send_inserted *)
(* and the machine end where the whole reorg would have left them.         *)
CrashMidReorgResumes ==
    [][CrashRestart /\ reorg # None =>
         /\ logInserted' = reorg.target.logCount
         /\ sendInserted' = reorg.target.sendCount
         /\ machine' = MachineFrom(reorg.target)]_vars

(* Every batch the feeder puts in the slot is eventually answered.         *)
MailboxAnswered == mbox.status = "READY" ~> mbox.status # "READY"

(* A logs cursor request with logs saved beyond the cursor's confirmed     *)
(* position is eventually served (READY or ERROR), unless a reorg takes     *)
(* those logs away first: the core thread services REQUESTED cursors on     *)
(* every loop, cuts a request to the logs there are (F:1661), and a reorg   *)
(* that leaves a READY cursor nothing to deliver puts it back to REQUESTED  *)
(* (F:1778) for the next loop.                                             *)
CursorRequestServed ==
    (cursor.status = "REQUESTED" /\ curTotal < logInserted)
        ~> (cursor.status # "REQUESTED" \/ curTotal >= logInserted)

(* Once caught up the core thread eventually reports the machine idle     *)
(* (spec 4.4: IDLE with no next messages sets machine_idle).              *)
ExecutorEventuallyIdle == <>[](machine.count = Len(msgs) => machineIdle)

=============================================================================
