----------------------------- MODULE BlockPipeline -----------------------------
(***************************************************************************)
(* What happens to a block after its finality is verified, and what the    *)
(* API says of it: main.rs of the client starts the parts in turn; the     *)
(* light client samples every announced block, the sync client those from  *)
(* SyncStart up to the first announced one, and the application client     *)
(* fetches the data of the blocks both of them verified. They share the    *)
(* database, which survives a crash (rocksdb), and broadcast channels,     *)
(* which drop what a slow receiver has not read.                           *)
(*                                                                         *)
(* Left out: the sampled cells and the data themselves, the processing     *)
(* delay, the events for metrics. A header in Incomplete has no extension. *)
(***************************************************************************)
EXTENDS Naturals, Sequences

CONSTANTS
    MaxBlock,       \* bound: the chain
    FirstBlock,     \* the first block the very first run announces
    Incomplete,     \* blocks without an extension
    NoBlock, SyncStarts, \* sync_start_block, or NoBlock: each is tried
    AppModes,       \* is there an application client? each is tried
    EventCapacity,  \* of the channel of RPC events
    BlockCapacity,  \* of the channel of processed blocks
    MaxCrashes      \* bound: runs after the first one

ASSUME PipelineAssumption ==
    /\ {MaxBlock, FirstBlock, MaxCrashes} \subseteq Nat
    /\ FirstBlock \in 1 .. MaxBlock
    /\ Incomplete \subseteq 1 .. MaxBlock
    /\ NoBlock \notin Nat /\ SyncStarts \subseteq Nat \cup {NoBlock}
    /\ AppModes \subseteq BOOLEAN
    /\ EventCapacity \in Nat \ {0} /\ BlockCapacity \in Nat \ {0}

Blocks == 1 .. MaxBlock
NoRange == [first |-> NoBlock, last |-> NoBlock]

VARIABLES
    sync_start, app_mode,   \* the configuration
    (* the database: records by key, blocks with a record for keyed ones   *)
    LatestHeader, VerifiedHeader, AchievedConfidence, VerifiedData,
    LatestSync, VerifiedSyncHeader, AchievedSyncConfidence, VerifiedSyncData,
    IsSynced,
    BlockHeader, VerifiedCellCount, BlockHeaderReceivedAt,
    AppData,        \* blocks the application client has dealt with
    (* the run *)
    phase,          \* "waiting" for a header, "serving" the API, "running"
                    \* with all clients, or "down"
    head,           \* the last header the node announced
    announced,      \* the last block whose finality is verified
    first,          \* block_header of main: the first one of this run
    light, next,    \* the light client: "idle", "busy" with block next, or
                    \* "returned"
    sync, sync_at,  \* the sync client: "idle", "busy" with block sync_at, "done"
    block_rx,       \* processed blocks the application client has not read
    crashes

config  == <<sync_start, app_mode>>
latest  == <<LatestHeader, VerifiedHeader>>
lightDb == <<AchievedConfidence>>
syncDb  == <<LatestSync, VerifiedSyncHeader, AchievedSyncConfidence>>
appDb   == <<VerifiedData, VerifiedSyncData, AppData>>
keyed   == <<BlockHeader, VerifiedCellCount, BlockHeaderReceivedAt>>
node    == <<phase, head, announced, first, crashes>>
lightPc == <<light, next>>
syncPc  == <<sync, sync_at>>
vars    == <<config, latest, lightDb, syncDb, appDb, IsSynced, keyed, node, lightPc,
             syncPc, block_rx>>

Init ==
    /\ sync_start \in SyncStarts /\ app_mode \in AppModes
    /\ LatestHeader = 0 /\ LatestSync = NoBlock
    /\ VerifiedHeader = NoRange /\ AchievedConfidence = NoRange /\ VerifiedData = NoRange
    /\ VerifiedSyncHeader = NoRange /\ AchievedSyncConfidence = NoRange
    /\ VerifiedSyncData = NoRange
    /\ IsSynced = "unset"
    /\ BlockHeader = {} /\ VerifiedCellCount = {} /\ BlockHeaderReceivedAt = {} /\ AppData = {}
    /\ phase = "waiting" /\ head = FirstBlock - 1 /\ announced = FirstBlock - 1
    /\ first = NoBlock
    /\ light = "idle" /\ next = NoBlock
    /\ sync = "idle" /\ sync_at = NoBlock
    /\ block_rx = <<>>
    /\ crashes = 0

-----------------------------------------------------------------------------

(* Mutant: the range starts over with every block.                         *)
Restarted(range, b) == [first |-> b, last |-> b]

(* BlockRange: read the record or init it, and move its end.               *)
Extend(range, b) ==
    IF range = NoRange THEN [first |-> b, last |-> b] ELSE [range EXCEPT !.last = b]

Contains(range, b) == range # NoRange /\ range.first <= b /\ b <= range.last

(* sync_range of the configuration: half open, empty without a start.      *)
SyncRange == IF sync_start = NoBlock THEN {} ELSE sync_start .. first - 1

IsUp == phase # "down"

(* The subscription loop gets a header, and verifies the finality of one.  *)
HeaderArrives ==
    /\ IsUp /\ head < MaxBlock
    /\ head' = head + 1
    /\ LatestHeader' = head + 1
    /\ BlockHeaderReceivedAt' = BlockHeaderReceivedAt \cup {head + 1}
    /\ UNCHANGED <<config, VerifiedHeader, lightDb, syncDb, appDb, IsSynced, BlockHeader,
                   VerifiedCellCount, phase, announced, first, crashes, lightPc, syncPc,
                   block_rx>>

HeaderVerified ==
    /\ IsUp /\ announced < head
    /\ announced' = announced + 1
    /\ VerifiedHeader' = Extend(VerifiedHeader, announced + 1)
    /\ next' = IF next = NoBlock THEN announced + 1 ELSE next
    /\ UNCHANGED <<config, LatestHeader, lightDb, syncDb, appDb, IsSynced, keyed, phase,
                   head, first, crashes, light, syncPc, block_rx>>

(* main: after the first announced header it stores its number and serves  *)
(* the API, then it starts the sync and the light client.                  *)
ServeApi ==
    /\ phase = "waiting" /\ next # NoBlock
    /\ phase' = "serving"
    /\ first' = next
    /\ LatestHeader' = next
    /\ UNCHANGED <<config, VerifiedHeader, lightDb, syncDb, appDb, IsSynced, keyed,
                   head, announced, crashes, lightPc, syncPc, block_rx>>

(* Mutant: the flag of the last run is kept.                               *)
StartWithOldFlag ==
    /\ phase = "serving"
    /\ phase' = "running"
    /\ sync' = IF SyncRange = {} THEN "done" ELSE "idle"
    /\ sync_at' = IF sync_start = NoBlock THEN first ELSE sync_start
    /\ UNCHANGED <<config, latest, lightDb, syncDb, appDb, IsSynced, keyed, head,
                   announced, first, crashes, lightPc, block_rx>>

StartClients ==
    /\ phase = "serving"
    /\ phase' = "running"
    /\ IsSynced' = IF sync_start = NoBlock THEN IsSynced ELSE "false"
    /\ sync' = IF SyncRange = {} THEN "done" ELSE "idle"
    /\ sync_at' = IF sync_start = NoBlock THEN first ELSE sync_start
    /\ UNCHANGED <<config, latest, lightDb, syncDb, appDb, keyed, head, announced, first,
                   crashes, lightPc, block_rx>>

(* The process ends; what is left is the database.                         *)
Stop == phase' = "down"

Crash ==
    /\ IsUp /\ Stop
    /\ UNCHANGED <<config, latest, lightDb, syncDb, appDb, IsSynced, keyed, head,
                   announced, first, crashes, lightPc, syncPc, block_rx>>

(* A new run starts with the header the node has by then.                  *)
Restart ==
    /\ phase = "down" /\ crashes < MaxCrashes
    /\ crashes' = crashes + 1
    /\ phase' = "waiting" /\ first' = NoBlock
    /\ \E b \in head .. MaxBlock :
          /\ head' = b /\ announced' = b - 1 /\ LatestHeader' = b
          /\ BlockHeaderReceivedAt' = BlockHeaderReceivedAt \cup {b}
    /\ light' = "idle" /\ next' = NoBlock
    /\ sync' = "idle" /\ sync_at' = NoBlock
    /\ block_rx' = <<>>
    /\ UNCHANGED <<config, VerifiedHeader, lightDb, syncDb, appDb, IsSynced, BlockHeader,
                   VerifiedCellCount>>

Ended == phase = "down" /\ crashes = MaxCrashes /\ UNCHANGED vars

-----------------------------------------------------------------------------
Running == phase = "running"

(* block_tx.send: without an application client nobody waits for blocks.   *)
Send(b, kind) ==
    block_rx' = IF app_mode THEN Append(block_rx, [block |-> b, kind |-> kind]) ELSE block_rx

(* Mutant: the newest event is left unread.                                *)
AllButOne == announced - next

(* A receiver that missed an event gets an error: the light client returns.*)
Unread == announced + 1 - next

LightReceives ==
    /\ Running /\ light = "idle" /\ Unread > 0
    /\ light' = IF Unread <= EventCapacity THEN "busy" ELSE "returned"
    /\ UNCHANGED <<config, latest, lightDb, syncDb, appDb, IsSynced, keyed, node, next,
                   syncPc, block_rx>>

LightDone == light' = "idle" /\ next' = next + 1

(* A header without extension is stored and counted as achieved.           *)
LightSkipsIncomplete ==
    /\ Running /\ light = "busy" /\ next \in Incomplete
    /\ AchievedConfidence' = Extend(AchievedConfidence, next)
    /\ BlockHeader' = BlockHeader \cup {next}
    /\ Send(next, "skipped") /\ LightDone
    /\ UNCHANGED <<config, latest, syncDb, appDb, IsSynced, VerifiedCellCount,
                   BlockHeaderReceivedAt, node, syncPc>>

(* Too few cells or columns: nothing is stored.                            *)
LightFetchesTooFew ==
    /\ Running /\ light = "busy" /\ next \notin Incomplete
    /\ Send(next, "skipped") /\ LightDone
    /\ UNCHANGED <<config, latest, lightDb, syncDb, appDb, IsSynced, keyed, node, syncPc>>

LightVerifies ==
    /\ Running /\ light = "busy" /\ next \notin Incomplete
    /\ VerifiedCellCount' = VerifiedCellCount \cup {next}
    /\ AchievedConfidence' = Extend(AchievedConfidence, next)
    /\ BlockHeader' = BlockHeader \cup {next}
    /\ Send(next, "verified") /\ LightDone
    /\ UNCHANGED <<config, latest, syncDb, appDb, IsSynced, BlockHeaderReceivedAt, node, syncPc>>

(* Fetching fails: the light client shuts the process down.                *)
LightFails ==
    /\ Running /\ light = "busy" /\ next \notin Incomplete
    /\ Stop
    /\ UNCHANGED <<config, latest, lightDb, syncDb, appDb, IsSynced, keyed, head,
                   announced, first, crashes, lightPc, syncPc, block_rx>>

-----------------------------------------------------------------------------
Syncing == Running /\ sync # "done" /\ sync_at < first

SyncNext == sync' = "idle" /\ sync_at' = sync_at + 1

(* A block with a cell count, or whose header cannot be had, is passed by. *)
SyncPasses ==
    /\ Syncing /\ sync = "idle"
    /\ sync_at \in VerifiedCellCount \/ sync_at \notin BlockHeader
    /\ SyncNext
    /\ UNCHANGED <<config, latest, lightDb, syncDb, appDb, IsSynced, keyed, node,
                   lightPc, block_rx>>

SyncHasHeader ==
    /\ Syncing /\ sync = "idle" /\ sync_at \notin VerifiedCellCount
    /\ sync' = "busy"
    /\ BlockHeader' = BlockHeader \cup {sync_at}
    /\ LatestSync' = sync_at
    /\ VerifiedSyncHeader' = Extend(VerifiedSyncHeader, sync_at)
    /\ UNCHANGED <<config, latest, lightDb, AchievedSyncConfidence, appDb, IsSynced,
                   VerifiedCellCount, BlockHeaderReceivedAt, node, lightPc, sync_at, block_rx>>

(* Skipped or verified, the block counts as achieved.                      *)
SyncProcesses(verified) ==
    /\ Syncing /\ sync = "busy"
    /\ verified => sync_at \notin Incomplete
    /\ AchievedSyncConfidence' = Extend(AchievedSyncConfidence, sync_at)
    /\ IF verified
       THEN VerifiedCellCount' = VerifiedCellCount \cup {sync_at} /\ Send(sync_at, "verified")
       ELSE UNCHANGED <<VerifiedCellCount, block_rx>>
    /\ SyncNext
    /\ UNCHANGED <<config, latest, lightDb, LatestSync, VerifiedSyncHeader, appDb,
                   IsSynced, BlockHeader, BlockHeaderReceivedAt, node, lightPc>>

SyncFails ==
    /\ Syncing /\ sync = "busy" /\ sync_at \notin Incomplete
    /\ SyncNext
    /\ UNCHANGED <<config, latest, lightDb, syncDb, appDb, IsSynced, keyed, node,
                   lightPc, block_rx>>

SyncEnds ==
    /\ Running /\ sync = "idle" /\ sync_at = first
    /\ sync' = "done"
    /\ IsSynced' = IF app_mode THEN IsSynced ELSE "true"
    /\ UNCHANGED <<config, latest, lightDb, syncDb, appDb, keyed, node, lightPc,
                   sync_at, block_rx>>

-----------------------------------------------------------------------------
(* The application client, started with the API.                           *)
AppListens == app_mode /\ phase \in {"serving", "running"} /\ block_rx # <<>>

AppSkips ==
    /\ AppListens /\ Len(block_rx) <= BlockCapacity
    /\ Head(block_rx).kind = "skipped"
    /\ block_rx' = Tail(block_rx)
    /\ UNCHANGED <<config, latest, lightDb, syncDb, appDb, IsSynced, keyed, node,
                   lightPc, syncPc>>

IsLastOfRange(b) == b \in SyncRange /\ b + 1 = first

(* The data of the block are stored, or there are none for this app; then  *)
(* set_data_verified_state.                                                *)
AppProcesses ==
    /\ AppListens /\ Len(block_rx) <= BlockCapacity
    /\ Head(block_rx).kind = "verified"
    /\ LET b == Head(block_rx).block IN
       /\ AppData' = AppData \cup {b}
       /\ IF b \in SyncRange
          THEN VerifiedSyncData' = Extend(VerifiedSyncData, b) /\ UNCHANGED VerifiedData
          ELSE VerifiedData' = Extend(VerifiedData, b) /\ UNCHANGED VerifiedSyncData
       /\ IsSynced' = IF IsSynced = "false" /\ IsLastOfRange(b) THEN "true" ELSE IsSynced
    /\ block_rx' = Tail(block_rx)
    /\ UNCHANGED <<config, latest, lightDb, syncDb, keyed, node, lightPc, syncPc>>

(* Mutant: data that cannot be had count as verified.                      *)
AppPassesOver ==
    /\ AppListens /\ Head(block_rx).kind = "verified"
    /\ IF Head(block_rx).block \in SyncRange THEN UNCHANGED VerifiedData
       ELSE VerifiedData' = Extend(VerifiedData, Head(block_rx).block)
    /\ block_rx' = Tail(block_rx)
    /\ UNCHANGED <<config, latest, lightDb, syncDb, VerifiedSyncData, AppData, IsSynced,
                   keyed, node, lightPc, syncPc>>

(* A missed block, or data that cannot be had, shuts the process down.     *)
AppFails ==
    /\ AppListens
    /\ Len(block_rx) > BlockCapacity \/ Head(block_rx).kind = "verified"
    /\ Stop
    /\ UNCHANGED <<config, latest, lightDb, syncDb, appDb, IsSynced, keyed, head,
                   announced, first, crashes, lightPc, syncPc, block_rx>>

LightStep ==
    \/ LightReceives \/ LightSkipsIncomplete \/ LightFetchesTooFew \/ LightVerifies
    \/ LightFails

SyncStep ==
    \/ SyncPasses \/ SyncHasHeader \/ \E v \in BOOLEAN : SyncProcesses(v)
    \/ SyncFails \/ SyncEnds

AppStep == AppSkips \/ AppProcesses \/ AppFails

Next ==
    \/ HeaderArrives \/ HeaderVerified \/ ServeApi \/ StartClients
    \/ LightStep \/ SyncStep \/ AppStep
    \/ Crash \/ Restart \/ Ended

(* main goes on, and every fetch ends: with cells, too few or an error.    *)
Fairness ==
    /\ WF_vars(ServeApi \/ StartClients)
    /\ WF_vars(LightStep) /\ WF_vars(SyncStep) /\ WF_vars(AppStep)

Spec == Init /\ [][Next]_vars
FairSpec == Spec /\ Fairness

-----------------------------------------------------------------------------
FirstSyncBlock(firstBlock) == IF sync_start = NoBlock THEN firstBlock ELSE sync_start

(* block_status of the API.                                                *)
HistoricalStatus(b) ==
    IF Contains(VerifiedSyncData, b) THEN "finished"
    ELSE IF Contains(AchievedSyncConfidence, b) THEN "verifying-data"
    ELSE IF Contains(VerifiedSyncHeader, b) THEN "verifying-confidence"
    ELSE IF LatestSync = b THEN "verifying-header" ELSE "pending"

RecentStatus(b) ==
    IF Contains(VerifiedData, b) THEN "finished"
    ELSE IF Contains(AchievedConfidence, b) THEN "verifying-data"
    ELSE IF Contains(VerifiedHeader, b) THEN "verifying-confidence"
    ELSE IF LatestHeader = b THEN "verifying-header" ELSE "pending"

BlockStatus(b) ==
    LET firstBlock == IF VerifiedHeader = NoRange THEN LatestHeader ELSE VerifiedHeader.first
    IN  IF b > LatestHeader THEN "none"
        ELSE IF b < FirstSyncBlock(firstBlock) THEN "unavailable"
        ELSE IF b \in Incomplete THEN "incomplete"
        ELSE IF b < firstBlock THEN HistoricalStatus(b) ELSE RecentStatus(b)

(* GET /v2/blocks/{b}: not found without a stored header.                  *)
Answer(b) == IF b \in BlockHeader THEN BlockStatus(b) ELSE "none"

(* GET /v2/blocks/{b}/header, /data and /cell-count.                       *)
HeaderAnswer(b) ==
    IF Answer(b) = "none" \/ b \notin BlockHeaderReceivedAt THEN "not found"
    ELSE IF Answer(b) \in {"unavailable", "pending", "verifying-header"} THEN "bad request"
    ELSE "ok"

DataAnswer(b) ==
    IF ~app_mode \/ Answer(b) = "none" THEN "not found"
    ELSE IF Answer(b) \in {"finished", "incomplete"} THEN "ok" ELSE "bad request"

CellCountAnswer(b) == IF b \in VerifiedCellCount THEN "ok" ELSE "bad request"

(* GET /v1/confidence/{b}, /v1/latest_block, /v1/appdata/{b}.  *)
ConfidenceV1(b) ==
    IF b \in VerifiedCellCount THEN "ok"      \* computed from the count
    ELSE IF AchievedConfidence # NoRange /\ b <= AchievedConfidence.last
    THEN "ok"                                 \* the configured confidence
    ELSE "bad request"

LatestV1 == AchievedConfidence.last

AppDataV1(b) ==
    IF b \in AppData THEN "ok"
    ELSE IF AchievedConfidence # NoRange /\ b = LatestV1 THEN "in process" ELSE "not found"

-----------------------------------------------------------------------------
(* As long as the database has not seen a crash, a sampled block the API   *)
(* calls finished has passed the application client, however far the       *)
(* three clients are apart (block_status, set_data_verified_state).        *)
FinishedMeansData ==
    crashes = 0 =>
        \A b \in Blocks : b \in VerifiedCellCount /\ Answer(b) = "finished" => b \in AppData

(* The API reports the history as synced only when the sync client has     *)
(* been through all of it, in this run and not an earlier one.             *)
SyncedMeansWalked ==
    phase = "running" /\ IsSynced = "true" => sync_at = first

(* What the API has once answered for a block - its header, its data, its  *)
(* cell count, its confidence - or called finished it never takes back,    *)
(* crashes or not, although each answer is put together from records that  *)
(* three clients write (handlers.rs of v1 and v2). Only the status of a    *)
(* block of the history may be taken back once there was a crash: the sync *)
(* of the next run may verify a block before it that the last one passed   *)
(* by, and moves the end of the ranges back (set_data_verified_state).     *)
Says(what, b) ==
    CASE what = "finished"   -> Answer(b) = "finished"
      [] what = "header"     -> HeaderAnswer(b) = "ok"
      [] what = "data"       -> DataAnswer(b) = "ok"
      [] what = "cells"      -> CellCountAnswer(b) = "ok"
      [] what = "confidence" -> ConfidenceV1(b) = "ok"
      [] what = "appdata"    -> AppDataV1(b) = "ok"
Kept(b) == {what \in {"finished", "header", "data", "cells", "confidence", "appdata"} : Says(what, b)}
IsHistory(b) == VerifiedHeader # NoRange /\ b < VerifiedHeader.first
MayBeTakenBack(b) == IF crashes > 0 /\ IsHistory(b) THEN {"finished", "header", "data"} ELSE {}
AnswersAreKept == [][\A b \in Blocks : Kept(b) \ Kept(b)' \subseteq MayBeTakenBack(b)]_vars

(* Every announced block is dealt with, unless the process goes down or    *)
(* the light client has missed an event.                                   *)
AnnouncedAreProcessed ==
    \A b \in Blocks :
        (phase = "running" /\ first <= b /\ b <= announced)
            ~> (phase # "running" \/ light = "returned" \/ next > b)
=============================================================================
