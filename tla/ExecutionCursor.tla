--------------------------- MODULE ExecutionCursor ---------------------------
(***************************************************************************)
(* ArbCore's execution cursors and sideload lookup (getExecutionCursor,    *)
(* advanceExecutionCursor, advanceExecutionCursorImpl,                     *)
(* getClosestExecutionMachine, getCheckpointUsingGas, getSideloadPosition  *)
(* and getMachineForSideload in arbcore.cpp, carried inside                *)
(* packages/arb-avm-cpp/cmachine/executioncursor_test.go).                 *)
(*                                                                         *)
(* A caller thread builds a cursor at a checkpoint and advances it while   *)
(* the core thread appends messages, saves sideloads and reorgs.  Every    *)
(* iteration of the cursor's loop reads a fresh snapshot, so each loop     *)
(* stage is its own step and the core may act between them.               *)
(*                                                                         *)
(* One message costs one unit of gas, so a checkpoint's gas is its message *)
(* count and the next instruction costs NextGasCost; an accumulator is the *)
(* prefix of the message log it hashes; a block ends at a sideload, and    *)
(* its number is the message count there.                                 *)
(***************************************************************************)
EXTENDS Integers, Sequences, FiniteSetsExt

CONSTANTS
    Msgs,         \* message contents
    MaxMsgs,      \* bound: length of the message log
    MaxReorgs,    \* bound: reorgs by the core thread
    Gases,        \* gas targets a caller may ask for
    MaxGases,     \* max_gas values a caller may advance by
    LoadCost,     \* checkpoint_load_gas_cost, in the same gas unit
    RetryLimit,   \* the 16 reorg attempts of advanceExecutionCursorImpl
    SideloadCacheSize, \* sideload_cache_size
    Blocks,       \* block numbers a caller may look up
    None          \* model value: no cursor

NextGasCost == 1

VARIABLES
    msgs,         \* the message log
    checkpoints,  \* checkpoint column: [count, acc] records
    sideloads,    \* sideload column: block numbers (gas = block here)
    cache,        \* sideload_cache: [block, m] with m the machine's keys
    reorgs,
    cursor,       \* the caller's ExecutionCursor: the state keys it is at
    target,       \* total_gas_used the current call runs to
    goOver,       \* go_over_gas of the current call
    attempts,     \* reorg_attempts
    pc,           \* where the caller is in the call
    res,          \* status the last call returned
    reorged,      \* the core reorged since the current call began
    call,         \* which entry point the current call came through
    block,        \* block number of a sideload lookup
    want,         \* its block-end position at the call, None if no block
    saving        \* block whose sideload is cached but not yet committed

vars == <<msgs, checkpoints, sideloads, cache, reorgs, cursor, target, goOver,
          attempts, pc, res, reorged, call, block, want, saving>>
coreVars == <<msgs, checkpoints, sideloads, cache, reorgs, saving>>
lookupVars == <<call, block, want>>
callVars == <<cursor, target, goOver, attempts, pc, res, call, block, want>>

Genesis == [count |-> 0, acc |-> <<>>]

(* isValid of an inbox state against the message log.                      *)
IsValid(c) == c.count <= Len(msgs) /\ SubSeq(msgs, 1, c.count) = c.acc

-----------------------------------------------------------------------------
(* Mutant: the checkpoint after the gas is returned (after_gas set).       *)
GetCheckpointAfterGas(gas) ==
    LET above == {c \in checkpoints : c.count > gas}
    IN IF above = {} THEN None
       ELSE CHOOSE c \in above : \A d \in above : c.count <= d.count

(* getCheckpointUsingGas(gas, false) = getClosestExecutionMachine(gas):    *)
(* SeekForPrev in the checkpoint column, NotFound if nothing is at or      *)
(* below the gas.                                                         *)
GetCheckpointUsingGas(gas) ==
    LET below == {c \in checkpoints : c.count <= gas}
    IN IF below = {} THEN None
       ELSE CHOOSE c \in below : \A d \in below : c.count >= d.count

(* getClosestExecutionMachine(gas, is_for_sideload): the checkpoint at or  *)
(* below the gas, under core_reorg_mutex; is_for_sideload is not used.     *)
GetClosestExecutionMachine(gas) == GetCheckpointUsingGas(gas)

Init ==
    /\ msgs = <<>>
    /\ checkpoints = {Genesis}
    /\ reorgs = 0
    /\ cursor = None
    /\ target = 0
    /\ goOver = FALSE
    /\ attempts = 0
    /\ pc = "idle"
    /\ res = "OK"
    /\ reorged = FALSE
    /\ sideloads = {}
    /\ cache = {}
    /\ call = "cursor"
    /\ block = 0
    /\ want = None
    /\ saving = None

-----------------------------------------------------------------------------
(* The core thread, as the cursor sees it through snapshots               *)

CoreAppend(m) ==
    /\ saving = None
    /\ Len(msgs) < MaxMsgs
    /\ msgs' = Append(msgs, m)
    /\ UNCHANGED <<checkpoints, sideloads, cache, reorgs, saving, reorged, callVars>>

(* The machine at count n and its position in the log.                   *)
BlockEnd(n) == [count |-> n, acc |-> SubSeq(msgs, 1, n)]

(* Block numbers are uint256_t: a difference that would go below zero     *)
(* wraps.  The width is reduced; only the wrap below zero matters here.    *)
BlockMod == 2^16

(* Mutant: the block > sideload_cache_size guard is dropped.               *)
EvictSideloadsUnguarded(c, b, size) ==
    {e \in c : ~(e.block < (b - size) % BlockMod \/ e.block > b)}

(* The sideload_cache eviction loop after saving the machine for block b:  *)
(* entries more than size blocks old, or in the future, are erased; the    *)
(* guard b > size keeps b - size from wrapping.                            *)
EvictSideloadsWithin(c, b, size) ==
    {e \in c : ~((b > size /\ e.block < (b - size) % BlockMod)
                \/ e.block > b)}

(* Mutant: nothing is evicted.                                             *)
EvictSideloadsNone(c, b) == c

(* The eviction with the configured sideload_cache_size.                   *)
EvictSideloads(c, b) == EvictSideloadsWithin(c, b, SideloadCacheSize)

(* The core's machine stops at the sideload ending block n.  Inside the    *)
(* assertion's transaction saveAssertion writes the sideload position      *)
(* (F:765, F:376-378), then the machine is cached and the cache evicted   *)
(* under sideload_cache_mutex, released at once (F:776-796): the cache is *)
(* visible to lookups while the position is not.                         *)
CoreCacheSideload(n) ==
    /\ saving = None
    /\ n <= Len(msgs)
    /\ \A c \in checkpoints : c.count < n
    /\ cache' = EvictSideloads({e \in cache : e.block # n}
                               \cup {[block |-> n, m |-> BlockEnd(n)]}, n)
    /\ saving' = n
    /\ UNCHANGED <<msgs, checkpoints, sideloads, reorgs, reorged, callVars>>

(* saveCheckpoint (F:799) and tx.commit (F:821): the sideload position and *)
(* the checkpoint become visible together (every checkpoint after genesis  *)
(* is at a sideload).                                                      *)
CoreCommitSideload ==
    /\ saving # None
    /\ sideloads' = sideloads \cup {saving}
    /\ checkpoints' = checkpoints \cup {BlockEnd(saving)}
    /\ saving' = None
    /\ UNCHANGED <<msgs, cache, reorgs, reorged, callVars>>

(* Mutant: the DB is cleared but cached machines are kept.                 *)
DeleteSideloadsKeepCache(next) ==
    /\ cache' = cache
    /\ sideloads' = {b \in sideloads : b < next}

(* deleteSideloadsStartingAt: erase cached machines from the block on,     *)
(* then the persisted sideloads.                                          *)
DeleteSideloadsStartingAt(next) ==
    /\ cache' = {e \in cache : e.block < next}
    /\ sideloads' = {b \in sideloads : b < next}

(* A reorg keeping k messages: the newest checkpoint at or below k is the  *)
(* target; the checkpoints above it and the sideloads after its block are  *)
(* deleted, then the log is rewritten from k + 1 with m.                   *)
CoreReorg(k, m) ==
    /\ saving = None
    /\ reorgs < MaxReorgs
    /\ k < Len(msgs)
    /\ msgs[k + 1] # m
    /\ checkpoints' = {c \in checkpoints : c.count <= k}
    /\ DeleteSideloadsStartingAt(k + 1)
    /\ msgs' = Append(SubSeq(msgs, 1, k), m)
    /\ reorgs' = reorgs + 1
    /\ reorged' = TRUE
    /\ UNCHANGED <<saving, callVars>>

-----------------------------------------------------------------------------
(* The caller thread                                                       *)

Finish(st) ==
    /\ res' = st
    /\ pc' = "idle"

(* getExecutionCursor(gas): a cursor at the closest checkpoint, then       *)
(* advanceExecutionCursorImpl(cursor, gas, false).                         *)
GetExecutionCursor(gas) ==
    /\ pc = "idle"
    /\ LET c == GetClosestExecutionMachine(gas) IN
       IF c = None
       THEN /\ res' = "NotFound"
            /\ UNCHANGED <<cursor, target, goOver, attempts, pc>>
       ELSE /\ cursor' = c
            /\ target' = gas
            /\ goOver' = FALSE
            /\ attempts' = 0
            /\ pc' = "attempt"
            /\ UNCHANGED res
    /\ reorged' = FALSE
    /\ call' = "cursor"
    /\ UNCHANGED <<coreVars, block, want>>

(* Mutant: the cursor's machine is kept without checking its inbox state.  *)
AdvanceExecutionCursorNoCheck(maxGas, over) ==
    /\ pc = "idle"
    /\ cursor # None
    /\ LET t == cursor.count + maxGas
           c == GetClosestExecutionMachine(t)
       IN IF c = None
          THEN /\ res' = "NotFound"
               /\ UNCHANGED <<cursor, target, goOver, attempts, pc>>
          ELSE /\ cursor' = IF cursor.count + LoadCost > c.count
                            THEN cursor ELSE c
               /\ target' = t
               /\ goOver' = over
               /\ attempts' = 0
               /\ pc' = "attempt"
               /\ UNCHANGED res
    /\ reorged' = FALSE
    /\ call' = "cursor"
    /\ UNCHANGED <<coreVars, block, want>>

(* advanceExecutionCursor(cursor, max_gas, go_over_gas): keep the cursor's *)
(* machine if it is less than checkpoint_load_gas_cost behind the closest  *)
(* checkpoint and still valid, else restart from that checkpoint.         *)
AdvanceExecutionCursor(maxGas, over) ==
    /\ pc = "idle"
    /\ cursor # None
    /\ LET t == cursor.count + maxGas
           c == GetClosestExecutionMachine(t)
       IN IF c = None
          THEN /\ res' = "NotFound"
               /\ UNCHANGED <<cursor, target, goOver, attempts, pc>>
          ELSE /\ cursor' = IF cursor.count + LoadCost > c.count /\ IsValid(cursor)
                            THEN cursor ELSE c
               /\ target' = t
               /\ goOver' = over
               /\ attempts' = 0
               /\ pc' = "attempt"
               /\ UNCHANGED res
    /\ reorged' = FALSE
    /\ call' = "cursor"
    /\ UNCHANGED <<coreVars, block, want>>

(* getSideloadPosition(block): SeekForPrev in the sideload column.  With   *)
(* no sideload at or below the block the iterator is not valid but its     *)
(* status is OK, and value() of the invalid iterator is read: the position *)
(* is whatever those bytes hold.                                          *)
GetSideloadPosition(b) ==
    LET below == {x \in sideloads : x <= b}
    IN IF below = {} THEN 0 .. MaxMsgs ELSE {Max(below)}

(* The blocks the core has stopped at: those whose sideload position is   *)
(* committed, and the one a save has cached but not yet committed.         *)
Stopped == sideloads \cup (IF saving = None THEN {} ELSE {saving})

(* getMachineForSideload(block): a copy of the cached machine of the       *)
(* newest block at or below it; otherwise a cursor from the closest        *)
(* checkpoint to the block's sideload position, advanced to it without     *)
(* going over, whose machine is taken when the advance returns.           *)
GetMachineForSideload(b) ==
    /\ pc = "idle"
    /\ LET hits == {e \in cache : e.block <= b} IN
       IF hits # {}
       THEN /\ cursor' = (CHOOSE e \in hits : \A f \in hits : e.block >= f.block).m
            /\ res' = "OK"
            /\ UNCHANGED <<target, goOver, attempts, pc>>
       ELSE \E pos \in GetSideloadPosition(b) :
              LET c == GetClosestExecutionMachine(pos) IN
              IF c = None
              THEN /\ res' = "NotFound"
                   /\ UNCHANGED <<cursor, target, goOver, attempts, pc>>
              ELSE /\ cursor' = c
                   /\ target' = pos
                   /\ goOver' = FALSE
                   /\ attempts' = 0
                   /\ pc' = "attempt"
                   /\ UNCHANGED res
    /\ call' = "sideload"
    /\ block' = b
    /\ want' = LET reached == {x \in Stopped : x <= b}
               IN IF reached = {} THEN None ELSE Max(reached)
    /\ reorged' = FALSE
    /\ UNCHANGED coreVars

(* Mutant: reorg_attempts is never incremented.                            *)
ImplAttemptNoCount ==
    /\ pc = "attempt"
    /\ IF attempts > 0 /\ attempts >= RetryLimit
          THEN Finish("Busy") /\ UNCHANGED attempts
          ELSE pc' = "step" /\ UNCHANGED <<attempts, res>>
    /\ UNCHANGED <<coreVars, cursor, target, goOver, reorged, lookupVars>>

(* Head of the outer loop: after RetryLimit attempts give up with Busy.    *)
ImplAttempt ==
    /\ pc = "attempt"
    /\ IF attempts > 0 /\ attempts >= RetryLimit
          THEN Finish("Busy") /\ UNCHANGED attempts
          ELSE attempts' = attempts + 1 /\ pc' = "step" /\ UNCHANGED res
    /\ UNCHANGED <<coreVars, cursor, target, goOver, reorged, lookupVars>>

(* One iteration of the inner loop in a fresh snapshot: stop at the        *)
(* target; otherwise readNextMessages from the cursor's inbox state, and   *)
(* a status that is not NotFound is taken for a reorg.  A NotFound status  *)
(* is returned to the caller.  (The branch that runs the machine needs a   *)
(* status both NotFound and OK, and is never taken.)                       *)
ImplStep ==
    /\ pc = "step"
    /\ LET g == cursor.count IN
       IF \/ g = target
          \/ goOver /\ g > target
          \/ ~goOver /\ g + NextGasCost > target
       THEN Finish("OK")
       ELSE IF IsValid(cursor)
       THEN pc' = "reload" /\ UNCHANGED res
       ELSE Finish("NotFound")
    /\ UNCHANGED <<coreVars, cursor, target, goOver, attempts, reorged, lookupVars>>

(* After a reorg: restart from the closest checkpoint to the target.      *)
ImplReload ==
    /\ pc = "reload"
    /\ LET c == GetClosestExecutionMachine(target) IN
       IF c = None
       THEN Finish("NotFound") /\ UNCHANGED cursor
       ELSE cursor' = c /\ pc' = "attempt" /\ UNCHANGED res
    /\ UNCHANGED <<coreVars, target, goOver, attempts, reorged, lookupVars>>

CallStep == ImplAttempt \/ ImplStep \/ ImplReload

Next ==
    \/ \E m \in Msgs : CoreAppend(m)
    \/ \E n \in 1 .. MaxMsgs : CoreCacheSideload(n)
    \/ CoreCommitSideload
    \/ \E k \in 0 .. MaxMsgs, m \in Msgs : CoreReorg(k, m)
    \/ \E g \in Gases : GetExecutionCursor(g)
    \/ \E g \in MaxGases, over \in BOOLEAN : AdvanceExecutionCursor(g, over)
    \/ \E b \in Blocks : GetMachineForSideload(b)
    \/ CallStep

(* A call in progress runs on the caller's thread until it returns; the    *)
(* core thread is not obliged to do anything.                             *)
Spec == Init /\ [][Next]_vars /\ WF_vars(CallStep)

-----------------------------------------------------------------------------
(* Properties                                                              *)

(* A cursor never runs past the gas it was asked for: every checkpoint it  *)
(* is rebuilt from, and every machine it keeps, is at or below the target, *)
(* whatever the core thread does between the loop's snapshots.             *)
CursorNeverPastTarget == pc # "idle" => cursor.count <= target

(* A cursor a call returned OK, with no reorg since that call began, is    *)
(* consistent with the message log: a machine kept across calls is        *)
(* checked against the log, and every checkpoint it restarts from is one.  *)
ReturnedCursorConsistent ==
    (pc = "idle" /\ res = "OK" /\ cursor # None /\ ~reorged) => IsValid(cursor)

(* A machine getMachineForSideload returns, from the cache or by running  *)
(* a cursor, is the machine at the end of the newest block at or below the *)
(* one asked for that the core has stopped at, unless a reorg intervened:  *)
(* cached machines and sideload positions, kept by separate code, agree,   *)
(* also while a save is between its cache insert and eviction (F:780-796, *)
(* core_mutex released) and its commit (F:821), when the cache is ahead of *)
(* the DB's sideload positions.                                            *)
SideloadMachineAtBlockEnd ==
    (pc = "idle" /\ call = "sideload" /\ res = "OK" /\ ~reorged /\ want # None)
        => cursor = BlockEnd(want)

(* No cached machine is more than sideload_cache_size blocks older than   *)
(* the newest one (spec 8), across saves and the reorgs that cut it back.  *)
CacheWithinWindow ==
    \A e, f \in cache : e.block >= f.block - SideloadCacheSize

(* A machine getMachineForSideload returns OK is never from after the     *)
(* block asked for, unless a reorg intervened: a view call at a block does *)
(* not see later blocks (spec 4.8: the position is seek_le(block)).        *)
SideloadMachineNotAfterBlock ==
    (pc = "idle" /\ call = "sideload" /\ res = "OK" /\ ~reorged)
        => cursor.count <= block

(* Bound: the blocks the eviction law is checked over, past the code's    *)
(* window of 20 (spec 8, scenario 5: 25 more sideloads).                   *)
LawBlocks == 0 .. 25

(* sideload_cache_size, as the code sets it (F:131).                       *)
CodeCacheSize == 20

(* Whatever the cache holds, the code's eviction after saving any block b *)
(* keeps exactly the cached blocks e with b - 20 <= e <= b (spec 4.8 and   *)
(* 8: nothing older than the window, nothing in the future), also for the  *)
(* first 20 blocks, where b - 20 would wrap below zero in the code's       *)
(* unsigned arithmetic.                                                    *)
EvictionKeepsWindow ==
    \A b \in LawBlocks :
        EvictSideloadsWithin(cache, b, CodeCacheSize)
            = {e \in cache : b - CodeCacheSize <= e.block /\ e.block <= b}

(* Every call returns: the reorg retry loop gives up after its attempts    *)
(* even while the core keeps the cursor from progressing.                  *)
AdvanceTerminates == (pc # "idle") ~> (pc = "idle")

(* A call that saw no reorg, to a target the log reaches, returns OK with  *)
(* the cursor at the target (spec 4.7; the Go test expects an advance to   *)
(* move the cursor's inbox accumulator).                                   *)
AdvanceReachesTarget ==
    [][ (pc # "idle" /\ pc' = "idle" /\ ~reorged' /\ target <= Len(msgs)
         /\ ~goOver)
        => (res' = "OK" /\ cursor'.count = target) ]_vars

=============================================================================
