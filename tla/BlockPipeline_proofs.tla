------------------------- MODULE BlockPipeline_proofs -------------------------
(***************************************************************************)
(* What the API reports as synced and as finished is so: for chains and    *)
(* channels of any length, with and without history and application.       *)
(***************************************************************************)
EXTENDS BlockPipeline, SequenceTheorems, TLAPS

Items  == [block : Nat, kind : {"verified", "skipped"}]
Ranges == {NoRange} \cup [first : Nat, last : Nat]

(* Types, and that nothing is processed before the clients are started.    *)
Typed ==
    /\ sync_start \in Nat \cup {NoBlock} /\ app_mode \in BOOLEAN
    /\ phase \in {"waiting", "serving", "running", "down"}
    /\ head \in Nat /\ announced + 1 \in Nat /\ next \in Nat \cup {NoBlock} /\ crashes \in Nat
    /\ {VerifiedHeader, VerifiedData, VerifiedSyncData} \subseteq Ranges
    /\ VerifiedCellCount \subseteq Nat
    /\ block_rx \in Seq(Items)
    /\ phase = "waiting" => first = NoBlock /\ block_rx = <<>>
    /\ phase = "serving" => first \in Nat /\ next \in Nat /\ block_rx = <<>>
    /\ phase = "running" => first \in Nat /\ next \in Nat /\ sync_at \in Nat

(* The light client is at the first block or above. The sync client is     *)
(* from the start of the history on, and below or at the first block       *)
(* unless it has nothing to do. What they have sent is behind them.        *)
Historical(b) == sync_start # NoBlock /\ sync_start <= b /\ b < sync_at /\ sync_at <= first
Positions ==
    phase \in {"serving", "running"} =>
        /\ first <= next
        /\ phase = "running" =>
            /\ IF sync_start = NoBlock THEN sync_at = first ELSE sync_start <= sync_at
            /\ sync # "done" => sync_at <= first
        /\ \A i \in 1 .. Len(block_rx) :
            IF block_rx[i].block < first THEN Historical(block_rx[i].block)
            ELSE block_rx[i].block < next

(* The first block of the verified range, in the first run of a database.  *)
FirstRun ==
    crashes = 0 =>
        /\ phase \in {"waiting", "serving"} => VerifiedData = NoRange /\ VerifiedSyncData = NoRange
        /\ first = NoBlock =>
            /\ VerifiedCellCount = {}
            /\ next = NoBlock => VerifiedHeader = NoRange
            /\ next # NoBlock => VerifiedHeader # NoRange /\ VerifiedHeader.first = next
        /\ first # NoBlock => VerifiedHeader # NoRange /\ VerifiedHeader.first = first

(* Blocks of one client are queued in order, behind those processed.       *)
SameClient(b, c) == (b < first) <=> (c < first)
InOrder ==
    \A i, j \in 1 .. Len(block_rx) :
        i < j /\ SameClient(block_rx[i].block, block_rx[j].block) =>
            block_rx[i].block < block_rx[j].block

Behind(b) ==
    IF b < first THEN VerifiedSyncData # NoRange => VerifiedSyncData.last < b
    ELSE VerifiedData # NoRange => VerifiedData.last < b

(* Every sampled block is processed or in the queue.                       *)
Queued(b) == \E i \in 1 .. Len(block_rx) : block_rx[i] = [block |-> b, kind |-> "verified"]
NoneLost ==
    IF app_mode THEN \A b \in VerifiedCellCount : b \in AppData \/ Queued(b)
    ELSE VerifiedData = NoRange /\ VerifiedSyncData = NoRange

Delivered ==
    crashes = 0 =>
        /\ NoneLost /\ InOrder
        /\ \A i \in 1 .. Len(block_rx) : Behind(block_rx[i].block)
        /\ phase \in {"serving", "running"} /\ VerifiedData # NoRange => VerifiedData.last < next
        /\ phase = "running" /\ VerifiedSyncData # NoRange => VerifiedSyncData.last < sync_at

IInv == Typed /\ Positions /\ SyncedMeansWalked /\ FirstRun /\ Delivered

-----------------------------------------------------------------------------
LEMMA Ranged ==
    /\ NoBlock \notin Nat /\ NoRange \in Ranges
    /\ \A r \in Ranges, b \in Nat :
        /\ Extend(r, b) \in Ranges /\ Extend(r, b) # NoRange
        /\ Extend(r, b).first = IF r = NoRange THEN b ELSE r.first
        /\ Extend(r, b).last = b
BY PipelineAssumption DEF Ranges, NoRange, Extend

LEMMA InitIInv == Init => IInv
<1> SUFFICES ASSUME Init PROVE IInv
    OBVIOUS
<1>1. block_rx = <<>> /\ block_rx \in Seq(Items) /\ Len(block_rx) = 0
    BY DEF Init
<1>2. FirstBlock - 1 \in Nat /\ FirstBlock - 1 + 1 \in Nat /\ SyncStarts \subseteq Nat \cup {NoBlock}
      /\ AppModes \subseteq BOOLEAN
    BY PipelineAssumption
<1>3. Typed
    BY <1>1, <1>2, Ranged DEF Init, Typed
<1> QED
    BY <1>1, <1>3 DEF Init, IInv, Positions, SyncedMeansWalked, FirstRun, Delivered, NoneLost,
        InOrder

(* A block is sent to the application client, or nobody waits for it.      *)
LEMMA SendAppends ==
    ASSUME block_rx \in Seq(Items), NEW b \in Nat, NEW kind \in {"verified", "skipped"},
           app_mode, Send(b, kind)
    PROVE  /\ block_rx' \in Seq(Items)
           /\ Len(block_rx) \in Nat /\ Len(block_rx') = Len(block_rx) + 1
           /\ \A i \in 1 .. Len(block_rx) : block_rx'[i] = block_rx[i]
           /\ block_rx'[Len(block_rx) + 1] = [block |-> b, kind |-> kind]
<1> DEFINE e == [block |-> b, kind |-> kind]
<1>1. e \in Items /\ block_rx' = Append(block_rx, e)
    BY DEF Items, Send
<1>2. Len(block_rx) \in Nat
    BY LenProperties
<1>3. /\ block_rx' \in Seq(Items) /\ Len(block_rx') = Len(block_rx) + 1
      /\ \A i \in 1 .. Len(block_rx) : block_rx'[i] = block_rx[i]
      /\ block_rx'[Len(block_rx) + 1] = e
    <2> HIDE DEF e
    <2> QED
        BY <1>1, AppendProperties
<1> QED
    BY <1>2, <1>3

LEMMA QueueTyped ==
    ASSUME block_rx \in Seq(Items)
    PROVE  /\ Len(block_rx) \in Nat
           /\ \A i \in 1 .. Len(block_rx) : block_rx[i] \in Items /\ block_rx[i].block \in Nat
<1>1. Len(block_rx) \in Nat
    BY LenProperties
<1>2. \A i \in 1 .. Len(block_rx) : block_rx[i] \in Items
    BY ElementOfSeq
<1>3. \A e \in Items : e.block \in Nat
    BY DEF Items
<1> QED
    BY <1>1, <1>2, <1>3

LEMMA ReadsHead ==
    ASSUME block_rx \in Seq(Items), block_rx # <<>>, block_rx' = Tail(block_rx)
    PROVE  /\ block_rx' \in Seq(Items)
           /\ Len(block_rx) \in Nat \ {0} /\ Len(block_rx') = Len(block_rx) - 1
           /\ \A i \in 1 .. Len(block_rx') : block_rx'[i] = block_rx[i + 1]
           /\ Head(block_rx) = block_rx[1] /\ Head(block_rx) \in Items
           /\ Head(block_rx).block \in Nat
<1>1. Head(block_rx) \in Items
    BY HeadTailProperties
<1>2. Head(block_rx).block \in Nat
    BY <1>1 DEF Items
<1> QED
    BY <1>1, <1>2, HeadTailProperties, LenProperties

-----------------------------------------------------------------------------
LEMMA NothingSaid == IInv /\ UNCHANGED vars => IInv'
<1> SUFFICES ASSUME IInv, UNCHANGED vars PROVE IInv'
    OBVIOUS
<1> USE DEF vars, config, latest, appDb, keyed, node, lightPc, syncPc
<1>1. Typed'
    BY DEF IInv, Typed
<1>2. Positions' /\ SyncedMeansWalked' /\ FirstRun'
    BY DEF IInv, Positions, Historical, SyncedMeansWalked, FirstRun
<1>3. Delivered'
    BY DEF IInv, Delivered, NoneLost, InOrder, Behind, Queued, SameClient
<1> QED
    BY <1>1, <1>2, <1>3 DEF IInv

(* Headers, and the end of the process, touch no block that is sent.       *)
LEMMA HeaderKeeps == IInv /\ (HeaderArrives \/ LightReceives) => IInv'
<1> SUFFICES ASSUME IInv, HeaderArrives \/ LightReceives PROVE IInv'
    OBVIOUS
<1>1. /\ head' \in Nat
      /\ UNCHANGED <<config, VerifiedHeader, appDb, IsSynced, VerifiedCellCount, phase,
                     announced, first, crashes, next, syncPc, block_rx>>
    BY DEF IInv, Typed, HeaderArrives, LightReceives, latest, keyed, node, lightPc
<1> USE <1>1 DEF config, appDb, syncPc
<1>2. Typed'
    BY DEF IInv, Typed
<1>3. Positions' /\ SyncedMeansWalked' /\ FirstRun'
    BY DEF IInv, Positions, Historical, SyncedMeansWalked, FirstRun
<1>4. Delivered'
    BY DEF IInv, Delivered, NoneLost, InOrder, Behind, Queued, SameClient
<1> QED
    BY <1>2, <1>3, <1>4 DEF IInv

LEMMA DownKeeps == IInv /\ (Crash \/ LightFails \/ AppFails) => IInv'
<1> SUFFICES ASSUME IInv, Crash \/ LightFails \/ AppFails PROVE IInv'
    OBVIOUS
<1>1. /\ phase' = "down"
      /\ UNCHANGED <<config, latest, appDb, IsSynced, keyed, head, announced, first,
                     crashes, lightPc, syncPc, block_rx>>
    BY DEF Crash, LightFails, AppFails, Stop
<1> USE <1>1 DEF config, latest, appDb, keyed, lightPc, syncPc
<1>2. Typed'
    BY DEF IInv, Typed
<1>3. Positions' /\ SyncedMeansWalked' /\ FirstRun'
    BY DEF IInv, Positions, SyncedMeansWalked, FirstRun
<1>4. Delivered'
    BY DEF IInv, Delivered, NoneLost, InOrder, Behind, Queued, SameClient
<1> QED
    BY <1>2, <1>3, <1>4 DEF IInv

LEMMA RestartKeeps == IInv /\ Restart => IInv'
<1> SUFFICES ASSUME IInv, Restart PROVE IInv'
    OBVIOUS
<1>1. PICK b \in head .. MaxBlock : head' = b /\ announced' = b - 1
    BY DEF Restart
<1>2. head' \in Nat /\ announced' + 1 \in Nat /\ crashes' \in Nat /\ crashes' # 0
    BY <1>1, PipelineAssumption DEF IInv, Typed, Restart
<1>3. /\ phase' = "waiting" /\ first' = NoBlock /\ next' = NoBlock /\ sync_at' = NoBlock
      /\ block_rx' = <<>> /\ block_rx' \in Seq(Items)
      /\ UNCHANGED <<config, VerifiedHeader, appDb, VerifiedCellCount>>
    BY DEF Restart
<1>4. Typed'
    BY <1>2, <1>3 DEF IInv, Typed, config, appDb
<1> QED
    BY <1>2, <1>3, <1>4 DEF IInv, Positions, SyncedMeansWalked, FirstRun, Delivered

LEMMA VerifiedKeeps == IInv /\ HeaderVerified => IInv'
<1> SUFFICES ASSUME IInv, HeaderVerified PROVE IInv'
    OBVIOUS
<1> DEFINE b == announced + 1
<1>1. /\ b \in Nat /\ VerifiedHeader \in Ranges /\ VerifiedHeader' = Extend(VerifiedHeader, b)
      /\ announced' = b /\ next' = IF next = NoBlock THEN b ELSE next
    BY DEF IInv, Typed, HeaderVerified
<1>2. /\ phase # "down"
      /\ UNCHANGED <<config, appDb, IsSynced, VerifiedCellCount, phase, head, first,
                     crashes, syncPc, block_rx>>
    BY DEF HeaderVerified, IsUp, keyed
<1>3. /\ VerifiedHeader' \in Ranges /\ VerifiedHeader' # NoRange
      /\ VerifiedHeader'.first = IF VerifiedHeader = NoRange THEN b ELSE VerifiedHeader.first
    BY <1>1, Ranged
<1> HIDE DEF b
<1>4. Typed'
    BY <1>1, <1>2, <1>3 DEF IInv, Typed, config, appDb, syncPc, b
<1>5. phase \in {"serving", "running"} => next' = next
    BY <1>1, Ranged DEF IInv, Typed
<1>6. Positions' /\ SyncedMeansWalked'
    BY <1>2, <1>5 DEF IInv, Positions, Historical, SyncedMeansWalked, config, syncPc
<1>7. FirstRun'
    BY <1>1, <1>2, <1>3, Ranged DEF IInv, FirstRun, appDb
<1>8. Delivered'
    BY <1>2, <1>5 DEF IInv, Delivered, NoneLost, InOrder, Behind, Queued, SameClient, config,
        appDb, syncPc
<1> QED
    BY <1>4, <1>6, <1>7, <1>8 DEF IInv

LEMMA ServeKeeps == IInv /\ ServeApi => IInv'
<1> SUFFICES ASSUME IInv, ServeApi PROVE IInv'
    OBVIOUS
<1>1. /\ phase = "waiting" /\ next \in Nat /\ first = NoBlock /\ block_rx = <<>>
      /\ phase' = "serving" /\ first' = next
      /\ UNCHANGED <<config, VerifiedHeader, appDb, IsSynced, VerifiedCellCount, head,
                     announced, crashes, next, syncPc, block_rx>>
    BY DEF IInv, Typed, ServeApi, keyed, lightPc
<1>2. Typed'
    BY <1>1 DEF IInv, Typed, config, appDb, syncPc
<1>3. Len(block_rx') = 0
    BY <1>1
<1>4. Positions' /\ SyncedMeansWalked'
    BY <1>1, <1>3 DEF Positions, SyncedMeansWalked
<1>5. FirstRun'
    BY <1>1, Ranged DEF IInv, FirstRun, appDb
<1>6. Delivered'
    BY <1>1, <1>3 DEF IInv, FirstRun, Delivered, NoneLost, InOrder, config, appDb
<1> QED
    BY <1>2, <1>4, <1>5, <1>6 DEF IInv

LEMMA StartKeeps == IInv /\ StartClients => IInv'
<1> SUFFICES ASSUME IInv, StartClients PROVE IInv'
    OBVIOUS
<1>1. /\ phase = "serving" /\ next \in Nat /\ first \in Nat /\ block_rx = <<>>
      /\ phase' = "running" /\ sync_start \in Nat \cup {NoBlock}
      /\ sync_at' = IF sync_start = NoBlock THEN first ELSE sync_start
      /\ sync' = IF SyncRange = {} THEN "done" ELSE "idle"
      /\ IsSynced' = IF sync_start = NoBlock THEN IsSynced ELSE "false"
      /\ UNCHANGED <<config, VerifiedHeader, appDb, VerifiedCellCount, head,
                     announced, first, crashes, next, block_rx>>
    BY DEF IInv, Typed, StartClients, keyed, lightPc, latest
<1>2. Typed'
    BY <1>1 DEF IInv, Typed, config, appDb
<1>3. Len(block_rx') = 0
    BY <1>1
<1>4. sync' # "done" => sync_at' <= first
    <2> SUFFICES ASSUME sync' # "done" PROVE sync_at' <= first
        OBVIOUS
    <2>1. SyncRange # {}
        BY <1>1
    <2> QED
        BY <1>1, <2>1 DEF SyncRange
<1>5. Positions' /\ SyncedMeansWalked'
    BY <1>1, <1>3, <1>4 DEF IInv, Positions, SyncedMeansWalked, config
<1>6. FirstRun'
    BY <1>1 DEF IInv, FirstRun, appDb
<1>7. Delivered'
    BY <1>1, <1>3 DEF IInv, FirstRun, Delivered, NoneLost, InOrder, Queued, config, appDb
<1> QED
    BY <1>2, <1>5, <1>6, <1>7 DEF IInv

-----------------------------------------------------------------------------
(* The light client samples the next block, or skips it.                   *)
LightSends(kind) ==
    /\ phase = "running" /\ Send(next, kind) /\ next' = next + 1
    /\ VerifiedCellCount' = IF kind = "verified" THEN VerifiedCellCount \cup {next}
                            ELSE VerifiedCellCount
    /\ UNCHANGED <<config, latest, appDb, IsSynced, node, syncPc>>

LEMMA LightSendKeeps ==
    ASSUME IInv, NEW kind \in {"verified", "skipped"}, LightSends(kind)
    PROVE  IInv'
<1>1. /\ phase = "running" /\ next' = next + 1 /\ next \in Nat /\ first \in Nat
      /\ first <= next /\ block_rx \in Seq(Items)
      /\ UNCHANGED <<config, VerifiedHeader, appDb, IsSynced, phase, head, announced,
                     first, crashes, sync, sync_at>>
    BY DEF LightSends, IInv, Typed, Positions, latest, node, syncPc
<1>2. VerifiedCellCount' = IF kind = "verified" THEN VerifiedCellCount \cup {next}
                           ELSE VerifiedCellCount
    BY DEF LightSends
<1>3. CASE ~app_mode
    <2>1. block_rx' = block_rx /\ ~app_mode'
        BY <1>1, <1>3 DEF LightSends, Send, config
    <2>2. Typed'
        BY <1>1, <1>2, <2>1 DEF IInv, Typed, config, appDb
    <2>3. Positions'
        BY <1>1, <2>1, QueueTyped DEF IInv, Positions, Historical, config
    <2>4. SyncedMeansWalked' /\ FirstRun'
        BY <1>1, Ranged DEF IInv, SyncedMeansWalked, FirstRun, appDb
    <2>5. Delivered'
        BY <1>1, <1>3, <2>1, Ranged DEF IInv, Delivered, NoneLost, InOrder, Behind, SameClient,
            config, appDb
    <2> QED
        BY <2>2, <2>3, <2>4, <2>5 DEF IInv
<1>4. CASE app_mode
    <2> DEFINE n == Len(block_rx)
    <2>1. /\ block_rx' \in Seq(Items) /\ n \in Nat /\ Len(block_rx') = n + 1
          /\ \A i \in 1 .. n : block_rx'[i] = block_rx[i] /\ block_rx[i].block \in Nat
          /\ block_rx'[n + 1] = [block |-> next, kind |-> kind]
        <3>1. Send(next, kind)
            BY DEF LightSends
        <3>2. \A i \in 1 .. n : block_rx[i].block \in Nat
            BY <1>1, QueueTyped
        <3> QED
            BY <1>1, <1>4, <3>1, <3>2, SendAppends
    <2>2. /\ block_rx'[n + 1].block = next /\ app_mode'
          /\ \A i \in 1 .. n + 1 : i \in 1 .. n \/ i = n + 1
          /\ \A i \in 1 .. n : i \in 1 .. n + 1
        BY <1>1, <1>4, <2>1 DEF config
    <2> HIDE DEF n
    <2>3. Typed'
        <3>1. VerifiedCellCount' \subseteq Nat
            BY <1>1, <1>2 DEF IInv, Typed
        <3> QED
            BY <1>1, <2>1, <3>1 DEF IInv, Typed, config, appDb
    <2>4. /\ \A i \in 1 .. n : IF block_rx[i].block < first THEN Historical(block_rx[i].block)
                               ELSE block_rx[i].block < next
          /\ IF sync_start = NoBlock THEN sync_at = first ELSE sync_start <= sync_at
          /\ sync # "done" => sync_at <= first
        BY <1>1 DEF IInv, Positions, n
    <2>5. Positions'
        <3>1. \A i \in 1 .. n + 1 :
                IF block_rx'[i].block < first THEN Historical(block_rx'[i].block)
                ELSE block_rx'[i].block < next + 1
            <4>1. ~ (next < first) /\ next < next + 1
                BY <1>1
            <4>2. \A i \in 1 .. n :
                    IF block_rx'[i].block < first THEN Historical(block_rx'[i].block)
                    ELSE block_rx'[i].block < next + 1
                BY <1>1, <2>1, <2>4
            <4> QED
                BY <2>2, <4>1, <4>2
        <3> QED
            BY <1>1, <2>1, <2>4, <3>1 DEF Positions, Historical, config
    <2>6. SyncedMeansWalked' /\ FirstRun'
        BY <1>1, Ranged DEF IInv, SyncedMeansWalked, FirstRun, appDb
    <2>7. Delivered'
        <3> SUFFICES ASSUME crashes = 0
                     PROVE  /\ NoneLost' /\ InOrder'
                            /\ \A i \in 1 .. n + 1 : Behind(block_rx[i].block)'
                            /\ VerifiedData # NoRange => VerifiedData.last < next + 1
                            /\ VerifiedSyncData # NoRange => VerifiedSyncData.last < sync_at
            BY <1>1, <2>1 DEF IInv, Delivered, appDb
        <3>1. /\ NoneLost /\ InOrder
              /\ \A i \in 1 .. n : Behind(block_rx[i].block)
              /\ VerifiedData # NoRange => VerifiedData.last < next
              /\ VerifiedSyncData # NoRange => VerifiedSyncData.last < sync_at
            BY <1>1 DEF IInv, Delivered, n
        <3>2. NoneLost'
            <4>1. \A b \in VerifiedCellCount : b \in AppData \/ Queued(b)'
                BY <1>4, <2>1, <2>2, <3>1 DEF NoneLost, Queued, n
            <4>2. \A b \in VerifiedCellCount' : b \in AppData \/ Queued(b)'
                <5>1. CASE kind = "verified"
                    <6> SUFFICES ASSUME NEW b \in VerifiedCellCount', b \notin VerifiedCellCount
                                 PROVE  Queued(b)'
                        BY <4>1
                    <6>1. b = next
                        BY <1>2, <5>1
                    <6> QED
                        BY <2>1, <2>2, <5>1, <6>1 DEF Queued
                <5>2. CASE kind # "verified"
                    BY <1>2, <4>1, <5>2
                <5> QED
                    BY <5>1, <5>2
            <4> QED
                BY <1>1, <2>2, <4>2 DEF NoneLost, appDb
        <3>3. InOrder'
            BY <1>1, <2>1, <2>2, <2>4, <3>1 DEF InOrder, SameClient, n
        <3>4. \A i \in 1 .. n + 1 : Behind(block_rx[i].block)'
            BY <1>1, <2>1, <2>2, <3>1 DEF Behind, appDb
        <3>5. VerifiedData # NoRange => VerifiedData.last < next + 1
            <4>1. VerifiedData # NoRange => VerifiedData.last \in Nat
                BY DEF IInv, Typed, Ranges
            <4> QED
                BY <1>1, <3>1, <4>1
        <3> QED
            BY <3>1, <3>2, <3>3, <3>4, <3>5
    <2> QED
        BY <2>3, <2>5, <2>6, <2>7 DEF IInv
<1> QED
    BY <1>3, <1>4

LEMMA LightKeeps ==
    IInv /\ (LightSkipsIncomplete \/ LightFetchesTooFew \/ LightVerifies) => IInv'
<1> SUFFICES ASSUME IInv, LightSkipsIncomplete \/ LightFetchesTooFew \/ LightVerifies
             PROVE  IInv'
    OBVIOUS
<1>1. LightSends("skipped") \/ LightSends("verified")
    BY DEF LightSends, LightSkipsIncomplete, LightFetchesTooFew, LightVerifies, Running,
        LightDone, keyed
<1> QED
    BY <1>1, LightSendKeeps

-----------------------------------------------------------------------------
(* The sync client stays at its block, at or below the first one.          *)
LEMMA SyncStaysKeeps == IInv /\ (SyncHasHeader \/ SyncEnds) => IInv'
<1> SUFFICES ASSUME IInv, SyncHasHeader \/ SyncEnds PROVE IInv'
    OBVIOUS
<1>1. /\ phase = "running" /\ sync_at \in Nat /\ first \in Nat /\ sync_at <= first
      /\ sync_at # first => IsSynced' = IsSynced
      /\ UNCHANGED <<config, VerifiedHeader, appDb, VerifiedCellCount, phase, head, announced,
                     first, crashes, next, sync_at, block_rx>>
    BY DEF IInv, Typed, SyncHasHeader, SyncEnds, Syncing, Running, latest, keyed, node, lightPc
<1>2. Typed'
    BY <1>1 DEF IInv, Typed, config, appDb
<1>3. Positions' /\ SyncedMeansWalked' /\ FirstRun'
    BY <1>1 DEF IInv, Positions, Historical, SyncedMeansWalked, FirstRun, config, appDb
<1>4. Delivered'
    BY <1>1 DEF IInv, Delivered, NoneLost, InOrder, Behind, Queued, SameClient, config, appDb
<1> QED
    BY <1>2, <1>3, <1>4 DEF IInv

(* It passes a block by, with or without sampling it.                      *)
SyncMoves ==
    /\ Syncing /\ SyncNext
    /\ \/ UNCHANGED <<VerifiedCellCount, block_rx>>
       \/ Send(sync_at, "verified") /\ VerifiedCellCount' = VerifiedCellCount \cup {sync_at}
    /\ UNCHANGED <<config, latest, appDb, IsSynced, node, lightPc>>

Moved ==
    /\ phase = "running" /\ sync_at \in Nat /\ first \in Nat /\ next \in Nat
    /\ sync_at < first /\ first <= next /\ sync_start # NoBlock /\ sync_start <= sync_at
    /\ sync_at' = sync_at + 1 /\ block_rx \in Seq(Items) /\ VerifiedCellCount' \subseteq Nat
    /\ UNCHANGED <<config, VerifiedHeader, appDb, IsSynced, phase, head, announced, first,
                   crashes, next>>

LEMMA SyncMovesFacts == IInv /\ SyncMoves => Moved
<1> SUFFICES ASSUME IInv, SyncMoves PROVE Moved
    OBVIOUS
<1>1. /\ phase = "running" /\ sync_at \in Nat /\ first \in Nat /\ next \in Nat
      /\ sync_at < first /\ block_rx \in Seq(Items) /\ VerifiedCellCount \subseteq Nat
      /\ sync_at' = sync_at + 1
    BY DEF IInv, Typed, SyncMoves, Syncing, Running, SyncNext
<1>2. VerifiedCellCount' \subseteq Nat
    BY <1>1 DEF SyncMoves
<1> QED
    BY <1>1, <1>2 DEF Moved, IInv, Positions, SyncMoves, latest, node, lightPc

LEMMA SyncPassesKeeps ==
    ASSUME IInv, SyncMoves, UNCHANGED block_rx,
           ~app_mode \/ UNCHANGED VerifiedCellCount
    PROVE  IInv'
<1>0. Moved
    BY SyncMovesFacts
<1> USE <1>0 DEF Moved
<1>1. Typed'
    BY DEF IInv, Typed, config, appDb
<1>2. Positions'
    <2>1. \A i \in 1 .. Len(block_rx) :
            /\ block_rx[i].block \in Nat
            /\ IF block_rx[i].block < first THEN Historical(block_rx[i].block)
               ELSE block_rx[i].block < next
        BY QueueTyped DEF IInv, Positions
    <2>2. \A i \in 1 .. Len(block_rx) :
            IF block_rx[i].block < first
            THEN /\ sync_start <= block_rx[i].block
                 /\ block_rx[i].block < sync_at + 1 /\ sync_at + 1 <= first
            ELSE block_rx[i].block < next
        BY <2>1 DEF Historical
    <2> QED
        BY <2>2 DEF Positions, Historical, config, IInv, Typed
<1>3. SyncedMeansWalked' /\ FirstRun'
    <2>1. SyncedMeansWalked'
        BY DEF IInv, SyncedMeansWalked
    <2>2. FirstRun'
        BY Ranged DEF IInv, FirstRun, appDb
    <2> QED
        BY <2>1, <2>2
<1>4. VerifiedSyncData # NoRange => VerifiedSyncData.last \in Nat
    BY DEF IInv, Typed, Ranges
<1>5. Delivered'
    BY <1>4 DEF IInv, Delivered, NoneLost, InOrder, Behind, Queued, SameClient, config, appDb
<1> QED
    BY <1>1, <1>2, <1>3, <1>5 DEF IInv

LEMMA SyncSendsKeeps ==
    ASSUME IInv, SyncMoves, app_mode, Send(sync_at, "verified"),
           VerifiedCellCount' = VerifiedCellCount \cup {sync_at}
    PROVE  IInv'
<1> DEFINE n == Len(block_rx)
<1>0. Moved
    BY SyncMovesFacts
<1> USE <1>0 DEF Moved
<1>1. /\ block_rx' \in Seq(Items) /\ n \in Nat /\ Len(block_rx') = n + 1
      /\ \A i \in 1 .. n : block_rx'[i] = block_rx[i] /\ block_rx[i].block \in Nat
      /\ block_rx'[n + 1] = [block |-> sync_at, kind |-> "verified"]
    <2>1. \A i \in 1 .. n : block_rx[i].block \in Nat
        BY QueueTyped
    <2> QED
        BY <2>1, SendAppends
<1>2. /\ block_rx'[n + 1].block = sync_at /\ app_mode'
      /\ \A i \in 1 .. n + 1 : i \in 1 .. n \/ i = n + 1
      /\ \A i \in 1 .. n : i \in 1 .. n + 1
    BY <1>1 DEF config
<1> HIDE DEF n
<1>3. Typed'
    BY <1>1 DEF IInv, Typed, config, appDb
<1>4. \A i \in 1 .. n : IF block_rx[i].block < first THEN Historical(block_rx[i].block)
                        ELSE block_rx[i].block < next
    BY DEF IInv, Positions, n
<1>5. Positions'
    <2>1. \A i \in 1 .. n + 1 :
            IF block_rx'[i].block < first
            THEN /\ sync_start <= block_rx'[i].block
                 /\ block_rx'[i].block < sync_at + 1 /\ sync_at + 1 <= first
            ELSE block_rx'[i].block < next
        BY <1>1, <1>2, <1>4 DEF Historical
    <2> QED
        BY <1>1, <2>1 DEF Positions, Historical, config, IInv, Typed
<1>6. SyncedMeansWalked' /\ FirstRun'
    <2>1. SyncedMeansWalked'
        BY DEF IInv, SyncedMeansWalked
    <2>2. FirstRun'
        BY Ranged DEF IInv, FirstRun, appDb
    <2> QED
        BY <2>1, <2>2
<1>7. Delivered'
    <2> SUFFICES ASSUME crashes = 0
                 PROVE  /\ NoneLost' /\ InOrder'
                        /\ \A i \in 1 .. n + 1 : Behind(block_rx[i].block)'
                        /\ VerifiedData # NoRange => VerifiedData.last < next
                        /\ VerifiedSyncData # NoRange => VerifiedSyncData.last < sync_at + 1
        BY <1>1 DEF IInv, Delivered, appDb
    <2>1. /\ NoneLost /\ InOrder
          /\ \A i \in 1 .. n : Behind(block_rx[i].block)
          /\ VerifiedData # NoRange => VerifiedData.last < next
          /\ VerifiedSyncData # NoRange => VerifiedSyncData.last < sync_at
        BY DEF IInv, Delivered, n
    <2>2. NoneLost'
        <3>1. \A b \in VerifiedCellCount : b \in AppData \/ Queued(b)'
            BY <1>1, <1>2, <2>1 DEF NoneLost, Queued, n
        <3>2. \E i \in 1 .. n + 1 : block_rx'[i] = [block |-> sync_at, kind |-> "verified"]
            BY <1>1, <1>2
        <3>3. \A b \in VerifiedCellCount' : b \in AppData \/ Queued(b)'
            BY <1>1, <3>1, <3>2 DEF Queued
        <3> QED
            BY <1>2, <3>3 DEF NoneLost, appDb
    <2>3. InOrder'
        BY <1>1, <1>2, <1>4, <2>1 DEF InOrder, SameClient, Historical, n
    <2>4. \A i \in 1 .. n + 1 : Behind(block_rx[i].block)'
        BY <1>1, <1>2, <2>1 DEF Behind, appDb
    <2>5. VerifiedSyncData # NoRange => VerifiedSyncData.last \in Nat
        BY DEF IInv, Typed, Ranges
    <2> QED
        BY <2>1, <2>2, <2>3, <2>4, <2>5
<1> QED
    BY <1>3, <1>5, <1>6, <1>7 DEF IInv

LEMMA SyncKeeps == IInv /\ SyncStep => IInv'
<1> SUFFICES ASSUME IInv, SyncStep PROVE IInv'
    OBVIOUS
<1>1. CASE SyncHasHeader \/ SyncEnds
    BY <1>1, SyncStaysKeeps
<1>2. CASE SyncPasses \/ SyncFails \/ \E v \in BOOLEAN : SyncProcesses(v)
    <2>1. SyncMoves
        BY <1>2 DEF SyncMoves, SyncPasses, SyncFails, SyncProcesses, keyed
    <2>2. CASE UNCHANGED <<VerifiedCellCount, block_rx>>
        BY <2>1, <2>2, SyncPassesKeeps
    <2>3. CASE /\ Send(sync_at, "verified")
               /\ VerifiedCellCount' = VerifiedCellCount \cup {sync_at}
        <3>1. CASE app_mode
            BY <2>1, <2>3, <3>1, SyncSendsKeeps
        <3>2. CASE ~app_mode
            BY <2>1, <2>3, <3>2, SyncPassesKeeps DEF Send
        <3> QED
            BY <3>1, <3>2
    <2> QED
        BY <2>1, <2>2, <2>3 DEF SyncMoves
<1> QED
    BY <1>1, <1>2 DEF SyncStep

-----------------------------------------------------------------------------
(* The application client is done with the head of the queue.              *)
AppReads(b, kind) ==
    /\ AppListens /\ Head(block_rx) = [block |-> b, kind |-> kind]
    /\ block_rx' = Tail(block_rx)
    /\ UNCHANGED <<config, latest, keyed, node, lightPc, syncPc>>

Read(b, kind) ==
    /\ app_mode /\ phase = "running" /\ first \in Nat /\ next \in Nat /\ sync_at \in Nat
    /\ UNCHANGED <<config, VerifiedHeader, VerifiedCellCount, phase, head, announced,
                   first, crashes, next, sync, sync_at>>
    /\ block_rx' \in Seq(Items)
    /\ Len(block_rx) \in Nat \ {0} /\ Len(block_rx') = Len(block_rx) - 1
    /\ \A i \in 1 .. Len(block_rx) : block_rx[i].block \in Nat
    /\ \A i \in 1 .. Len(block_rx') :
         i + 1 \in 1 .. Len(block_rx) /\ 1 < i + 1 /\ block_rx'[i] = block_rx[i + 1]
    /\ block_rx[1] = [block |-> b, kind |-> kind] /\ block_rx[1].block = b
    /\ 1 \in 1 .. Len(block_rx)

LEMMA AppReadsFacts ==
    ASSUME IInv, NEW b \in Nat, NEW kind \in {"verified", "skipped"}, AppReads(b, kind)
    PROVE  Read(b, kind)
<1>1. block_rx \in Seq(Items) /\ block_rx # <<>>
    BY DEF IInv, Typed, AppReads, AppListens
<1>2. /\ block_rx' \in Seq(Items)
      /\ Len(block_rx) \in Nat \ {0} /\ Len(block_rx') = Len(block_rx) - 1
      /\ \A i \in 1 .. Len(block_rx') : block_rx'[i] = block_rx[i + 1]
      /\ block_rx[1] = [block |-> b, kind |-> kind] /\ block_rx[1].block = b
    BY <1>1, ReadsHead DEF AppReads
<1>3. \A i \in 1 .. Len(block_rx') : i + 1 \in 1 .. Len(block_rx) /\ 1 < i + 1
    BY <1>2
<1>4. \A i \in 1 .. Len(block_rx) : block_rx[i].block \in Nat
    BY <1>1, QueueTyped
<1>5. app_mode /\ phase = "running" /\ first \in Nat /\ next \in Nat /\ sync_at \in Nat
    BY <1>1 DEF IInv, Typed, AppReads, AppListens
<1>6. UNCHANGED <<config, VerifiedHeader, VerifiedCellCount, phase, head, announced,
                  first, crashes, next, sync, sync_at>>
    BY DEF AppReads, latest, keyed, node, lightPc, syncPc
<1> QED
    BY <1>2, <1>3, <1>4, <1>5, <1>6 DEF Read

LEMMA AppReadsPositions ==
    ASSUME IInv, NEW b \in Nat, NEW kind \in {"verified", "skipped"}, AppReads(b, kind)
    PROVE  Positions' /\ (IF b < first THEN Historical(b) ELSE b < next)
<1>0. Read(b, kind)
    BY AppReadsFacts
<1>1. \A i \in 1 .. Len(block_rx) :
        IF block_rx[i].block < first THEN Historical(block_rx[i].block)
        ELSE block_rx[i].block < next
    BY <1>0 DEF Read, IInv, Positions
<1>2. IF b < first THEN Historical(b) ELSE b < next
    BY <1>1, <1>0 DEF Read
<1>3. \A i \in 1 .. Len(block_rx') :
        IF block_rx'[i].block < first THEN Historical(block_rx'[i].block)
        ELSE block_rx'[i].block < next
    BY <1>1, <1>0 DEF Read
<1> QED
    BY <1>2, <1>3, <1>0 DEF Read, IInv, Positions, Historical, config

(* Once a block is read, those of the same client behind it are above it.  *)
LEMMA AppReadsOrder ==
    ASSUME IInv, NEW b \in Nat, NEW kind \in {"verified", "skipped"}, AppReads(b, kind),
           crashes = 0
    PROVE  /\ InOrder' /\ \A i \in 1 .. Len(block_rx') : Behind(block_rx'[i].block)
           /\ \A i \in 1 .. Len(block_rx') :
                SameClient(b, block_rx'[i].block) => b < block_rx'[i].block
           /\ \A c \in VerifiedCellCount :
                c \in AppData \/ (c = b /\ kind = "verified") \/ Queued(c)'
<1>0. Read(b, kind)
    BY AppReadsFacts
<1>1. /\ InOrder /\ \A i \in 1 .. Len(block_rx) : Behind(block_rx[i].block)
      /\ \A c \in VerifiedCellCount : c \in AppData \/ Queued(c)
    BY <1>0 DEF Read, IInv, Delivered, NoneLost
<1>2. InOrder'
    <2>1. \A i, j \in 1 .. Len(block_rx') :
            i < j => i + 1 < j + 1 /\ i + 1 \in 1 .. Len(block_rx) /\ j + 1 \in 1 .. Len(block_rx)
        BY <1>0 DEF Read
    <2> QED
        BY <1>1, <2>1, <1>0 DEF Read, InOrder, SameClient
<1>3. \A i \in 1 .. Len(block_rx') : Behind(block_rx'[i].block)
    BY <1>1, <1>0 DEF Read
<1>4. \A i \in 1 .. Len(block_rx') :
        SameClient(b, block_rx'[i].block) => b < block_rx'[i].block
    BY <1>1, <1>0 DEF Read, InOrder
<1>5. ASSUME NEW c \in VerifiedCellCount, c \notin AppData, ~ (c = b /\ kind = "verified")
      PROVE  Queued(c)'
    <2>1. PICK i \in 1 .. Len(block_rx) : block_rx[i] = [block |-> c, kind |-> "verified"]
        BY <1>1, <1>5 DEF Queued
    <2>2. i # 1
        BY <1>5, <2>1, <1>0 DEF Read
    <2>3. i - 1 \in 1 .. Len(block_rx') /\ i - 1 + 1 = i
        BY <2>2, <1>0 DEF Read
    <2>4. block_rx'[i - 1] = [block |-> c, kind |-> "verified"]
        BY <2>1, <2>3, <1>0 DEF Read
    <2> QED
        BY <2>3, <2>4 DEF Queued
<1> QED
    BY <1>2, <1>3, <1>4, <1>5

LEMMA AppSkipsKeeps == IInv /\ AppSkips => IInv'
<1> SUFFICES ASSUME IInv, AppSkips PROVE IInv'
    OBVIOUS
<1> DEFINE b == Head(block_rx).block
<1>1. b \in Nat /\ Head(block_rx) \in Items
    BY ReadsHead DEF IInv, Typed, AppSkips, AppListens
<1>2. AppReads(b, "skipped") /\ UNCHANGED <<appDb, IsSynced>>
    BY <1>1 DEF AppReads, AppSkips, Items
<1> HIDE DEF b
<1>0. Read(b, "skipped")
    BY <1>1, <1>2, AppReadsFacts
<1>3. Typed'
    BY <1>1, <1>2, <1>0 DEF Read, IInv, Typed, config, appDb
<1>4. Positions' /\ SyncedMeansWalked'
    BY <1>1, <1>2, <1>0, AppReadsPositions DEF Read, IInv, SyncedMeansWalked
<1>5. FirstRun'
    BY <1>1, <1>2, <1>0 DEF Read, IInv, FirstRun, appDb
<1>6. Delivered'
    <2> SUFFICES ASSUME crashes = 0
                 PROVE  /\ NoneLost' /\ InOrder'
                        /\ \A i \in 1 .. Len(block_rx') : Behind(block_rx[i].block)'
                        /\ VerifiedData # NoRange => VerifiedData.last < next
                        /\ VerifiedSyncData # NoRange => VerifiedSyncData.last < sync_at
        BY <1>1, <1>2, <1>0 DEF Read, IInv, Delivered, appDb
    <2>1. InOrder' /\ \A i \in 1 .. Len(block_rx') : Behind(block_rx[i].block)'
        BY <1>1, <1>2, <1>0, AppReadsOrder DEF Read, Behind, appDb
    <2>2. \A c \in VerifiedCellCount : c \in AppData \/ Queued(c)'
        BY <1>1, <1>2, AppReadsOrder
    <2>3. NoneLost'
        BY <1>1, <1>2, <2>2, <1>0 DEF Read, NoneLost, appDb, config
    <2> QED
        BY <1>1, <1>2, <2>1, <2>3, <1>0 DEF Read, IInv, Delivered
<1> QED
    BY <1>3, <1>4, <1>5, <1>6 DEF IInv

(* The block ends the verified range of its client.                        *)
LEMMA AppProcessesKeeps == IInv /\ AppProcesses => IInv'
<1> SUFFICES ASSUME IInv, AppProcesses PROVE IInv'
    OBVIOUS
<1> DEFINE b == Head(block_rx).block
<1>1. b \in Nat /\ Head(block_rx) \in Items
    BY ReadsHead DEF IInv, Typed, AppProcesses, AppListens
<1>2. AppReads(b, "verified") /\ AppData' = AppData \cup {b}
    BY <1>1 DEF AppReads, AppProcesses, Items
<1>3. /\ IF b \in SyncRange
         THEN VerifiedSyncData' = Extend(VerifiedSyncData, b) /\ UNCHANGED VerifiedData
         ELSE VerifiedData' = Extend(VerifiedData, b) /\ UNCHANGED VerifiedSyncData
      /\ IsSynced' = IF IsSynced = "false" /\ IsLastOfRange(b) THEN "true" ELSE IsSynced
    BY DEF AppProcesses
<1> HIDE DEF b
<1>0. Read(b, "verified")
    BY <1>1, <1>2, AppReadsFacts
<1>4. /\ app_mode /\ phase = "running" /\ first \in Nat /\ next \in Nat /\ sync_at \in Nat
      /\ UNCHANGED <<config, VerifiedHeader, VerifiedCellCount, phase, head, announced,
                     first, crashes, next, sync, sync_at>>
      /\ block_rx' \in Seq(Items) /\ Len(block_rx') \in Nat
      /\ \A i \in 1 .. Len(block_rx') : block_rx'[i].block \in Nat
    <2>1. block_rx' \in Seq(Items)
        BY <1>1, <1>2, <1>0 DEF Read
    <2>2. Len(block_rx') \in Nat /\ \A i \in 1 .. Len(block_rx') : block_rx'[i].block \in Nat
        BY <1>1, <1>2, <1>0 DEF Read
    <2> QED
        BY <1>1, <1>2, <2>1, <2>2, <1>0 DEF Read
<1>5. Positions' /\ (IF b < first THEN Historical(b) ELSE b < next)
    BY <1>1, <1>2, AppReadsPositions
<1>6. b \in SyncRange <=> b < first
    <2>1. sync_start \in Nat \cup {NoBlock}
        BY DEF IInv, Typed
    <2> QED
        BY <1>1, <1>4, <1>5, <2>1 DEF SyncRange, Historical
<1>7. /\ {VerifiedData, VerifiedSyncData} \subseteq Ranges
      /\ {VerifiedData', VerifiedSyncData'} \subseteq Ranges
      /\ b < first => VerifiedSyncData'.last = b /\ VerifiedData' = VerifiedData
      /\ ~ (b < first) => VerifiedData'.last = b /\ VerifiedSyncData' = VerifiedSyncData
    <2>1. {VerifiedData, VerifiedSyncData} \subseteq Ranges
        BY DEF IInv, Typed
    <2>2. /\ Extend(VerifiedData, b) \in Ranges /\ Extend(VerifiedData, b).last = b
          /\ Extend(VerifiedSyncData, b) \in Ranges /\ Extend(VerifiedSyncData, b).last = b
        BY <1>1, <2>1, Ranged
    <2>3. CASE b < first
        BY <1>3, <1>6, <2>1, <2>2, <2>3
    <2>4. CASE ~(b < first)
        BY <1>3, <1>6, <2>1, <2>2, <2>4
    <2> QED
        BY <2>1, <2>3, <2>4
<1>8. Typed'
    BY <1>4, <1>7 DEF IInv, Typed, config
<1>9. SyncedMeansWalked'
    <2>1. CASE IsSynced' = IsSynced
        BY <1>4, <2>1 DEF IInv, SyncedMeansWalked
    <2>2. CASE IsLastOfRange(b)
        <3>1. b < first /\ b + 1 = first /\ b < sync_at /\ sync_at <= first
            BY <1>5, <1>6, <2>2 DEF IsLastOfRange, Historical
        <3> QED
            BY <1>1, <1>4, <3>1 DEF SyncedMeansWalked
    <2> QED
        BY <1>3, <2>1, <2>2
<1>10. FirstRun'
    BY <1>4 DEF IInv, FirstRun
<1>11. Delivered'
    <2> SUFFICES ASSUME crashes = 0
                 PROVE  /\ NoneLost' /\ InOrder'
                        /\ \A i \in 1 .. Len(block_rx') : Behind(block_rx[i].block)'
                        /\ VerifiedData' # NoRange => VerifiedData'.last < next
                        /\ VerifiedSyncData' # NoRange => VerifiedSyncData'.last < sync_at
        BY <1>4 DEF Delivered
    <2>1. /\ VerifiedData # NoRange => VerifiedData.last < next
          /\ VerifiedSyncData # NoRange => VerifiedSyncData.last < sync_at
        BY <1>4 DEF IInv, Delivered
    <2>2. /\ InOrder' /\ \A i \in 1 .. Len(block_rx') : Behind(block_rx'[i].block)
          /\ \A i \in 1 .. Len(block_rx') :
               SameClient(b, block_rx'[i].block) => b < block_rx'[i].block
          /\ \A c \in VerifiedCellCount : c \in AppData \/ c = b \/ Queued(c)'
        BY <1>1, <1>2, AppReadsOrder
    <2>3. NoneLost'
        BY <1>2, <1>4, <2>2 DEF NoneLost, config
    <2>4. \A i \in 1 .. Len(block_rx') : Behind(block_rx[i].block)'
        BY <1>1, <1>4, <1>7, <2>2 DEF Behind, SameClient
    <2>5. /\ VerifiedData' # NoRange => VerifiedData'.last < next
          /\ VerifiedSyncData' # NoRange => VerifiedSyncData'.last < sync_at
        BY <1>5, <1>7, <2>1 DEF Historical
    <2> QED
        BY <2>2, <2>3, <2>4, <2>5
<1> QED
    BY <1>5, <1>8, <1>9, <1>10, <1>11 DEF IInv

-----------------------------------------------------------------------------
(* The invariant is inductive.                                             *)
LEMMA PipelineStep == IInv /\ [Next]_vars => IInv'
<1> SUFFICES ASSUME IInv, [Next]_vars PROVE IInv'
    OBVIOUS
<1>1. CASE HeaderArrives \/ LightReceives
    BY <1>1, HeaderKeeps
<1>2. CASE HeaderVerified
    BY <1>2, VerifiedKeeps
<1>3. CASE ServeApi
    BY <1>3, ServeKeeps
<1>4. CASE StartClients
    BY <1>4, StartKeeps
<1>5. CASE Crash \/ LightFails \/ AppFails
    BY <1>5, DownKeeps
<1>6. CASE Restart
    BY <1>6, RestartKeeps
<1>7. CASE LightSkipsIncomplete \/ LightFetchesTooFew \/ LightVerifies
    BY <1>7, LightKeeps
<1>8. CASE SyncStep
    BY <1>8, SyncKeeps
<1>9. CASE AppSkips
    BY <1>9, AppSkipsKeeps
<1>10. CASE AppProcesses
    BY <1>10, AppProcessesKeeps
<1>11. CASE UNCHANGED vars
    BY <1>11, NothingSaid
<1> QED
    BY <1>1, <1>2, <1>3, <1>4, <1>5, <1>6, <1>7, <1>8, <1>9, <1>10, <1>11
    DEF Next, LightStep, AppStep, Ended

(* So it holds in every state of a run.                                    *)
THEOREM PipelineInvariant == Spec => []IInv
BY PipelineStep, InitIInv, PTL DEF Spec

(* The API reports the history as synced only when the sync client is      *)
(* through with it, in this very run (start_sync, set_data_verified_state).*)
THEOREM Synced == Spec => []SyncedMeansWalked
<1>1. IInv => SyncedMeansWalked
    BY DEF IInv
<1> QED
    BY <1>1, PipelineInvariant, PTL

(* A sampled block the API calls finished has passed the application       *)
(* client, as long as the database has not seen a crash (block_status).    *)
THEOREM Finished == Spec => []FinishedMeansData
<1>1. IInv => FinishedMeansData
    <2> SUFFICES ASSUME IInv, crashes = 0, NEW b \in Blocks, b \in VerifiedCellCount,
                        Answer(b) = "finished", b \notin AppData
                 PROVE  FALSE
        BY DEF FinishedMeansData
    <2>1. first # NoBlock /\ VerifiedHeader # NoRange /\ VerifiedHeader.first = first
        BY DEF IInv, FirstRun
    <2>2. IF b < first THEN Contains(VerifiedSyncData, b) ELSE Contains(VerifiedData, b)
        BY <2>1 DEF Answer, BlockStatus, HistoricalStatus, RecentStatus
    <2>3. app_mode /\ Queued(b) /\ \A i \in 1 .. Len(block_rx) : Behind(block_rx[i].block)
        BY <2>2 DEF IInv, Delivered, NoneLost, Contains
    <2>4. Behind(b)
        BY <2>3 DEF Queued
    <2>5. /\ VerifiedData # NoRange => VerifiedData.last \in Nat
          /\ VerifiedSyncData # NoRange => VerifiedSyncData.last \in Nat
        BY DEF IInv, Typed, Ranges
    <2> QED
        BY <2>2, <2>4, <2>5, PipelineAssumption DEF Behind, Contains, Blocks
<1> QED
    BY <1>1, PipelineInvariant, PTL

-----------------------------------------------------------------------------
(* What the API has said stays: no record gets smaller. The first block of *)
(* a run is no earlier than what the last one did, and the light client    *)
(* goes on from there.                                                     *)
Front == IF next # NoBlock THEN next ELSE announced + 1

Upto(r, b) == r # NoRange => r.last <= b

(* Between the runs, everything is at the last header or before it.        *)
Stored ==
    /\ LatestHeader \in Nat /\ announced \in Int
    /\ AchievedConfidence \in Ranges /\ BlockHeader \subseteq Nat
    /\ LatestHeader <= head /\ announced <= head
    /\ \A b \in BlockHeader : b <= head
    /\ BlockHeader # {} => VerifiedHeader # NoRange
    /\ Upto(VerifiedHeader, head) /\ Upto(AchievedConfidence, head) /\ Upto(VerifiedData, head)

(* In a run, it is where the light client is or before it.                 *)
UpToFront ==
    /\ phase # "down" =>
        /\ Upto(VerifiedHeader, announced + 1)
        /\ Upto(AchievedConfidence, Front) /\ Upto(VerifiedData, Front)
        /\ next # NoBlock => next <= announced + 1 /\ VerifiedHeader # NoRange
    /\ phase = "waiting" =>
        /\ next # NoBlock => next <= announced
        /\ \A b \in BlockHeader : b <= Front
    /\ phase \in {"serving", "running"} => first <= announced
    /\ phase # "down" /\ light = "busy" => next # NoBlock /\ next <= announced

(* New blocks come to the application client in order.                     *)
Recent(i) == block_rx[i].block >= first
NewInOrder ==
    phase \in {"serving", "running"} =>
        /\ \A i \in 1 .. Len(block_rx) : Recent(i) => Upto(VerifiedData, block_rx[i].block)
        /\ \A i, j \in 1 .. Len(block_rx) :
              i < j /\ Recent(i) /\ Recent(j) => block_rx[i].block <= block_rx[j].block

(* Before the first crash nothing is received before the first block.      *)
SinceFirst ==
    crashes = 0 =>
        /\ \A b \in BlockHeaderReceivedAt : FirstBlock <= b
        /\ IF VerifiedHeader = NoRange THEN announced = FirstBlock - 1
           ELSE VerifiedHeader.first = FirstBlock
        /\ head >= FirstBlock - 1

Recorded == IInv /\ Stored /\ UpToFront /\ NewInOrder /\ SinceFirst

(* Nothing gets smaller.                                                   *)
Longer(r, s) == r # NoRange => s # NoRange /\ s.first = r.first /\ r.last <= s.last
Grows ==
    /\ config' = config
    /\ BlockHeader \subseteq BlockHeader' /\ VerifiedCellCount \subseteq VerifiedCellCount'
    /\ AppData \subseteq AppData' /\ BlockHeaderReceivedAt \subseteq BlockHeaderReceivedAt'
    /\ Longer(VerifiedHeader, VerifiedHeader') /\ Longer(AchievedConfidence, AchievedConfidence')
    /\ Longer(VerifiedData, VerifiedData')
    /\ crashes = 0 => Longer(VerifiedSyncData, VerifiedSyncData')
    /\ \A b \in BlockHeader : b <= LatestHeader => b <= LatestHeader'

LEMMA LongerContains ==
    ASSUME NEW r \in Ranges, NEW s \in Ranges, Longer(r, s), NEW b \in Nat, Contains(r, b)
    PROVE  Contains(s, b)
BY DEF Longer, Contains, Ranges, NoRange

LEMMA GrowsKeeps ==
    ASSUME Recorded, Recorded', Grows, NEW b \in Blocks
    PROVE  Kept(b) \ Kept(b)' \subseteq MayBeTakenBack(b)
<1>1. /\ b \in Nat /\ app_mode' = app_mode /\ sync_start' = sync_start
      /\ {VerifiedHeader, VerifiedData, AchievedConfidence, VerifiedSyncData} \subseteq Ranges
      /\ {VerifiedHeader', VerifiedData', AchievedConfidence', VerifiedSyncData'} \subseteq Ranges
      /\ LatestHeader \in Nat /\ LatestHeader' \in Nat
    BY PipelineAssumption DEF Blocks, Recorded, IInv, Typed, Stored, Grows, config
<1>2. ASSUME b \in BlockHeader, b <= LatestHeader
      PROVE  /\ b \in BlockHeader' /\ b <= LatestHeader' /\ VerifiedHeader # NoRange
             /\ VerifiedHeader' # NoRange /\ VerifiedHeader'.first = VerifiedHeader.first
    BY <1>2 DEF Grows, Recorded, Stored, Longer
<1>3. Answer(b) # "none" => b \in BlockHeader /\ b <= LatestHeader
    BY <1>1 DEF Answer, BlockStatus
<1>4. ASSUME b \in BlockHeader, b <= LatestHeader
      PROVE  /\ Answer(b) = BlockStatus(b) /\ Answer(b)' = BlockStatus(b)'
             /\ Answer(b) = "incomplete" => Answer(b)' = "incomplete"
             /\ Answer(b) = "unavailable" <=> b < FirstSyncBlock(VerifiedHeader.first)
             /\ Answer(b)' = "unavailable" <=> b < FirstSyncBlock(VerifiedHeader.first)
    BY <1>1, <1>2, <1>4 DEF Answer, BlockStatus, FirstSyncBlock, HistoricalStatus, RecentStatus
<1>5. ASSUME b \in BlockHeader, b <= LatestHeader, VerifiedHeader.first <= b, b \notin Incomplete,
             ~(b < FirstSyncBlock(VerifiedHeader.first))
      PROVE  Answer(b) = RecentStatus(b) /\ Answer(b)' = RecentStatus(b)'
    <2>1. /\ VerifiedHeader.first \in Nat /\ ~(b < VerifiedHeader.first)
          /\ ~(b > LatestHeader) /\ ~(b > LatestHeader')
        BY <1>1, <1>2, <1>5 DEF Ranges
    <2>2. BlockStatus(b) = RecentStatus(b)
        BY <1>2, <1>5, <2>1 DEF BlockStatus
    <2>3. BlockStatus(b)' = RecentStatus(b)'
        BY <1>1, <1>2, <1>5, <2>1 DEF BlockStatus, FirstSyncBlock
    <2> QED
        BY <1>4, <1>5, <2>2, <2>3
<1>6. ASSUME b \in BlockHeader, b <= LatestHeader, b < VerifiedHeader.first, b \notin Incomplete,
             ~(b < FirstSyncBlock(VerifiedHeader.first))
      PROVE  Answer(b) = HistoricalStatus(b) /\ Answer(b)' = HistoricalStatus(b)'
    <2>1. ~(b > LatestHeader) /\ ~(b > LatestHeader')
        BY <1>1, <1>2, <1>6
    <2>2. BlockStatus(b) = HistoricalStatus(b)
        BY <1>2, <1>6, <2>1 DEF BlockStatus
    <2>3. BlockStatus(b)' = HistoricalStatus(b)'
        BY <1>1, <1>2, <1>6, <2>1 DEF BlockStatus, FirstSyncBlock
    <2> QED
        BY <1>4, <1>6, <2>2, <2>3
<1>7. ASSUME Answer(b) = "finished", ~(crashes > 0 /\ IsHistory(b)) PROVE Answer(b)' = "finished"
    <2>1. /\ b \in BlockHeader /\ b <= LatestHeader
          /\ b \notin Incomplete /\ ~(b < FirstSyncBlock(VerifiedHeader.first))
        BY <1>3, <1>4, <1>7, <1>2 DEF BlockStatus
    <2>2. CASE VerifiedHeader.first <= b
        <3>1. Contains(VerifiedData, b)
            BY <1>5, <1>7, <2>1, <2>2 DEF RecentStatus
        <3>2. Contains(VerifiedData', b)
            BY <1>1, <3>1, LongerContains DEF Grows
        <3> QED
            BY <1>5, <2>1, <2>2, <3>2 DEF RecentStatus, Contains
    <2>3. CASE b < VerifiedHeader.first
        <3>1. crashes = 0 /\ Longer(VerifiedSyncData, VerifiedSyncData')
            BY <1>2, <1>7, <2>1, <2>3 DEF IsHistory, Recorded, IInv, Typed, Grows
        <3>2. Contains(VerifiedSyncData, b)
            BY <1>6, <1>7, <2>1, <2>3 DEF HistoricalStatus
        <3>3. Contains(VerifiedSyncData', b)
            BY <1>1, <3>1, <3>2, LongerContains
        <3> QED
            BY <1>6, <2>1, <2>3, <3>3 DEF HistoricalStatus, Contains
    <2>4. VerifiedHeader.first \in Nat
        BY <1>1, <1>2, <2>1 DEF Ranges
    <2> QED
        BY <1>1, <2>2, <2>3, <2>4
<1>8. ASSUME HeaderAnswer(b) = "ok", ~(crashes > 0 /\ IsHistory(b)) PROVE HeaderAnswer(b)' = "ok"
    <2>1. /\ Answer(b) \notin {"none", "unavailable", "pending", "verifying-header"}
          /\ b \in BlockHeaderReceivedAt /\ b \in BlockHeader /\ b <= LatestHeader
          /\ ~(b < FirstSyncBlock(VerifiedHeader.first))
        BY <1>3, <1>4, <1>8 DEF HeaderAnswer
    <2>2. VerifiedHeader.first \in Nat /\ VerifiedHeader.first <= b
        <3>1. VerifiedHeader.first \in Nat /\ VerifiedHeader # NoRange
            BY <1>1, <1>2, <2>1 DEF Ranges
        <3>2. CASE crashes = 0
            BY <1>1, <2>1, <3>1, <3>2, PipelineAssumption DEF Recorded, SinceFirst
        <3>3. CASE crashes # 0
            BY <1>1, <1>8, <3>1, <3>3 DEF IsHistory, Recorded, IInv, Typed
        <3> QED
            BY <3>1, <3>2, <3>3
    <2>3. CASE b \in Incomplete
        <3>1. Answer(b) = "incomplete"
            BY <1>1, <1>2, <1>4, <2>1, <2>3 DEF BlockStatus
        <3> QED
            BY <1>4, <2>1, <3>1 DEF HeaderAnswer, Grows
    <2>4. CASE b \notin Incomplete
        <3>1. \/ Contains(VerifiedData, b) \/ Contains(AchievedConfidence, b)
              \/ Contains(VerifiedHeader, b)
            BY <1>5, <2>1, <2>2, <2>4 DEF RecentStatus
        <3>2. \/ Contains(VerifiedData', b) \/ Contains(AchievedConfidence', b)
              \/ Contains(VerifiedHeader', b)
            BY <1>1, <3>1, LongerContains DEF Grows
        <3>3. RecentStatus(b)' \in {"finished", "verifying-data", "verifying-confidence"}
            BY <3>2 DEF RecentStatus, Contains
        <3> QED
            BY <1>5, <2>1, <2>2, <2>4, <3>3 DEF HeaderAnswer, Grows
    <2> QED
        BY <2>3, <2>4
<1>9. ASSUME DataAnswer(b) = "ok", ~(crashes > 0 /\ IsHistory(b)) PROVE DataAnswer(b)' = "ok"
    <2>1. app_mode /\ Answer(b) \in {"finished", "incomplete"}
        BY <1>9 DEF DataAnswer
    <2>2. Answer(b)' \in {"finished", "incomplete"}
        BY <1>3, <1>4, <1>7, <1>9, <2>1
    <2> QED
        BY <1>1, <2>1, <2>2 DEF DataAnswer
<1>10. CellCountAnswer(b) = "ok" => CellCountAnswer(b)' = "ok"
    BY DEF CellCountAnswer, Grows
<1>11. AppDataV1(b) = "ok" => AppDataV1(b)' = "ok"
    BY DEF AppDataV1, Grows
<1>12. ConfidenceV1(b) = "ok" => ConfidenceV1(b)' = "ok"
    <2>1. ASSUME AchievedConfidence # NoRange, b <= AchievedConfidence.last
          PROVE  AchievedConfidence' # NoRange /\ b <= AchievedConfidence'.last
        BY <1>1, <2>1 DEF Grows, Longer, Ranges
    <2> QED
        BY <2>1 DEF ConfidenceV1, Grows
<1> QED
    <2>1. ASSUME NEW what \in Kept(b), what \notin MayBeTakenBack(b) PROVE Says(what, b)'
        BY <2>1, <1>7, <1>8, <1>9, <1>10, <1>11, <1>12 DEF Kept, Says, MayBeTakenBack
    <2> QED
        BY <2>1 DEF Kept

(* The queue of processed blocks.                                          *)
LEMMA SameOrder ==
    ASSUME Recorded, UNCHANGED <<VerifiedData, first, block_rx>>,
           phase' \in {"serving", "running"} => phase \in {"serving", "running"}
    PROVE  NewInOrder'
BY DEF Recorded, NewInOrder, Recent, Upto

LEMMA SendInOrder ==
    ASSUME Recorded, phase = "running", UNCHANGED <<VerifiedData, first, phase>>,
           NEW b \in Nat, NEW kind \in {"verified", "skipped"}, Send(b, kind),
           b >= first => b = next
    PROVE  NewInOrder'
<1>1. /\ first \in Nat /\ next \in Nat /\ block_rx \in Seq(Items)
      /\ VerifiedData # NoRange => VerifiedData.last \in Nat /\ VerifiedData.last <= next
      /\ \A i \in 1 .. Len(block_rx) : block_rx[i].block \in Nat /\ (Recent(i) => block_rx[i].block <= next)
    <2>1. \A i \in 1 .. Len(block_rx) : block_rx[i].block \in Nat
        BY QueueTyped DEF Recorded, IInv, Typed
    <2>2. first \in Nat /\ next \in Nat /\ block_rx \in Seq(Items)
        BY DEF Recorded, IInv, Typed
    <2>3. \A i \in 1 .. Len(block_rx) : Recent(i) => block_rx[i].block <= next
        BY <2>1, <2>2 DEF Recorded, IInv, Positions, Recent
    <2>4. VerifiedData # NoRange => VerifiedData.last \in Nat /\ VerifiedData.last <= next
        BY <2>2, Ranged DEF Recorded, IInv, Typed, UpToFront, Front, Upto, Ranges
    <2> QED
        BY <2>1, <2>2, <2>3, <2>4
<1>2. CASE ~app_mode
    BY <1>2, SameOrder DEF Send
<1>3. CASE app_mode
    <2> DEFINE n == Len(block_rx)
    <2>1. /\ n \in Nat /\ Len(block_rx') = n + 1
          /\ \A i \in 1 .. n : block_rx'[i] = block_rx[i]
          /\ block_rx'[n + 1] = [block |-> b, kind |-> kind]
        BY <1>1, <1>3, SendAppends
    <2>2. block_rx'[n + 1].block = b /\ \A i \in 1 .. n + 1 : i \in 1 .. n \/ i = n + 1
        BY <2>1
    <2> HIDE DEF n
    <2>3. /\ \A i \in 1 .. n : Recent(i) => Upto(VerifiedData, block_rx[i].block)
          /\ \A i, j \in 1 .. n : i < j /\ Recent(i) /\ Recent(j) => block_rx[i].block <= block_rx[j].block
        BY DEF Recorded, NewInOrder, n
    <2>4. \A i \in 1 .. n : Recent(i)' <=> Recent(i)
        BY <2>1 DEF Recent
    <2>5. \A i \in 1 .. n + 1 : i = n + 1 /\ Recent(i)' => b = next
        BY <2>2 DEF Recent
    <2>6. ASSUME NEW i \in 1 .. n + 1, Recent(i)' PROVE Upto(VerifiedData', block_rx'[i].block)
        <3>1. CASE i \in 1 .. n
            BY <2>1, <2>3, <2>4, <2>6, <3>1 DEF Upto
        <3>2. CASE i = n + 1
            <4>1. b = next /\ block_rx'[i].block = b
                BY <2>2, <2>5, <2>6, <3>2
            <4> QED
                BY <1>1, <4>1 DEF Upto
        <3> QED
            BY <2>2, <3>1, <3>2
    <2>7. ASSUME NEW i \in 1 .. n + 1, NEW j \in 1 .. n + 1, i < j, Recent(i)', Recent(j)'
          PROVE  block_rx'[i].block <= block_rx'[j].block
        <3>1. CASE j \in 1 .. n
            BY <2>1, <2>2, <2>3, <2>4, <2>7, <3>1
        <3>2. CASE j = n + 1
            <4>1. i \in 1 .. n
                BY <2>1, <2>2, <2>7, <3>2
            <4>2. b = next /\ block_rx'[j].block = b
                BY <2>2, <2>5, <2>7, <3>2
            <4>3. Recent(i) /\ block_rx'[i].block = block_rx[i].block
                BY <2>1, <2>4, <2>7, <4>1
            <4> QED
                BY <1>1, <4>1, <4>2, <4>3 DEF n
        <3> QED
            BY <2>2, <3>1, <3>2
    <2> QED
        BY <2>1, <2>6, <2>7 DEF NewInOrder
<1> QED
    BY <1>2, <1>3

LEMMA ReadInOrder ==
    ASSUME Recorded, AppListens, block_rx' = Tail(block_rx), UNCHANGED <<first, phase>>,
           \/ VerifiedData' = VerifiedData
           \/ Head(block_rx).block >= first /\ VerifiedData' = Extend(VerifiedData, Head(block_rx).block)
    PROVE  NewInOrder'
<1>1. /\ block_rx \in Seq(Items) /\ block_rx # <<>> /\ phase \in {"serving", "running"}
      /\ VerifiedData \in Ranges
    BY DEF AppListens, Recorded, IInv, Typed
<1>2. /\ Len(block_rx) \in Nat \ {0} /\ Len(block_rx') = Len(block_rx) - 1
      /\ \A i \in 1 .. Len(block_rx') : block_rx'[i] = block_rx[i + 1] /\ i + 1 \in 1 .. Len(block_rx)
      /\ Head(block_rx) = block_rx[1] /\ 1 \in 1 .. Len(block_rx) /\ block_rx[1].block \in Nat
    BY <1>1, ReadsHead
<1>3. /\ \A i \in 1 .. Len(block_rx) : Recent(i) => Upto(VerifiedData, block_rx[i].block)
      /\ \A i, j \in 1 .. Len(block_rx) :
            i < j /\ Recent(i) /\ Recent(j) => block_rx[i].block <= block_rx[j].block
    BY <1>1 DEF Recorded, NewInOrder
<1>4. \A i \in 1 .. Len(block_rx') : Recent(i)' <=> Recent(i + 1)
    BY <1>2 DEF Recent
<1>5. ASSUME NEW i \in 1 .. Len(block_rx'), Recent(i)' PROVE Upto(VerifiedData', block_rx'[i].block)
    <2>1. CASE VerifiedData' = VerifiedData
        BY <1>2, <1>3, <1>4, <1>5, <2>1
    <2>2. CASE Head(block_rx).block >= first /\ VerifiedData' = Extend(VerifiedData, Head(block_rx).block)
        <3>1. VerifiedData'.last = block_rx[1].block
            <4>1. Extend(VerifiedData, Head(block_rx).block).last = Head(block_rx).block
                BY <1>1, <1>2, Ranged
            <4> QED
                BY <1>2, <2>2, <4>1
        <3>2. Recent(1) /\ 1 < i + 1
            BY <1>2, <2>2 DEF Recent
        <3>3. block_rx[1].block <= block_rx[i + 1].block
            BY <1>2, <1>3, <1>4, <1>5, <3>2
        <3> QED
            BY <1>2, <3>1, <3>3 DEF Upto
    <2> QED
        BY <2>1, <2>2
<1>6. ASSUME NEW i \in 1 .. Len(block_rx'), NEW j \in 1 .. Len(block_rx'), i < j, Recent(i)', Recent(j)'
      PROVE  block_rx'[i].block <= block_rx'[j].block
    <2>1. i + 1 < j + 1
        BY <1>2, <1>6
    <2> QED
        BY <1>2, <1>3, <1>4, <1>6, <2>1
<1> QED
    BY <1>5, <1>6 DEF NewInOrder

-----------------------------------------------------------------------------
(* Steps that change no record the answers are read from.                  *)
Records == <<config, LatestHeader, VerifiedHeader, AchievedConfidence, VerifiedData, VerifiedSyncData,
             VerifiedCellCount, AppData, BlockHeader, BlockHeaderReceivedAt>>

Unharmed == Recorded' /\ Grows

LEMMA SameGrows == ASSUME Recorded, UNCHANGED Records PROVE Grows
<1>1. /\ config' = config /\ LatestHeader' = LatestHeader
      /\ UNCHANGED <<BlockHeader, VerifiedCellCount, AppData, BlockHeaderReceivedAt>>
      /\ UNCHANGED <<VerifiedHeader, AchievedConfidence, VerifiedData, VerifiedSyncData>>
    BY DEF Records
<1>2. \A r \in Ranges : Longer(r, r)
    BY DEF Longer, Ranges, NoRange
<1>3. {VerifiedHeader, AchievedConfidence, VerifiedData, VerifiedSyncData} \subseteq Ranges
    BY DEF Recorded, IInv, Typed, Stored
<1> QED
    BY <1>1, <1>2, <1>3 DEF Grows

LEMMA QuietStep ==
    ASSUME Recorded, IInv', UNCHANGED Records, UNCHANGED <<head, announced, first, crashes, next>>,
           phase' \in {phase, "down"} \/ (phase = "serving" /\ phase' = "running"),
           light' = light \/ (light' = "busy" => next # NoBlock /\ next <= announced),
           NewInOrder'
    PROVE  Unharmed
<1>1. Grows
    BY SameGrows
<1>2. /\ LatestHeader' = LatestHeader
      /\ UNCHANGED <<VerifiedHeader, AchievedConfidence, VerifiedData, BlockHeader, BlockHeaderReceivedAt>>
    BY DEF Records
<1>3. Stored'
    BY <1>2 DEF Recorded, Stored, Upto
<1>4. UpToFront'
    BY <1>2 DEF Recorded, UpToFront, Upto, Front
<1>5. SinceFirst'
    BY <1>2 DEF Recorded, SinceFirst
<1> QED
    BY <1>1, <1>3, <1>4, <1>5 DEF Unharmed, Recorded

(* The light client is done with a block, which may count as achieved.     *)
LEMMA LightMoves ==
    ASSUME Recorded, IInv', phase = "running", light = "busy", light' = "idle", next' = next + 1,
           UNCHANGED <<config, LatestHeader, VerifiedHeader, VerifiedData, VerifiedSyncData, AppData,
                       BlockHeaderReceivedAt>>,
           UNCHANGED <<phase, head, announced, first, crashes>>,
           VerifiedCellCount \subseteq VerifiedCellCount',
           \/ UNCHANGED <<AchievedConfidence, BlockHeader>>
           \/ /\ AchievedConfidence' = Extend(AchievedConfidence, next)
              /\ BlockHeader' = BlockHeader \cup {next},
           NEW kind \in {"verified", "skipped"}, Send(next, kind)
    PROVE  Unharmed
<1>1. /\ next \in Nat /\ next # NoBlock /\ next <= announced /\ announced \in Int /\ announced <= head
      /\ head \in Nat /\ LatestHeader \in Nat /\ LatestHeader <= head /\ BlockHeader \subseteq Nat
      /\ {VerifiedHeader, VerifiedData, AchievedConfidence, VerifiedSyncData} \subseteq Ranges
      /\ first <= next /\ first \in Nat
    BY Ranged DEF Recorded, Stored, IInv, Typed, UpToFront, Positions
<1>2. \A r \in Ranges : Longer(r, r) /\ (r # NoRange => r.last \in Nat)
    BY DEF Longer, Ranges, NoRange
<1>3. Upto(AchievedConfidence, next) /\ Upto(VerifiedData, next)
    BY <1>1 DEF Recorded, UpToFront, Front
<1>4. /\ AchievedConfidence' \in Ranges /\ Upto(AchievedConfidence', next)
      /\ Longer(AchievedConfidence, AchievedConfidence')
    <2>1. CASE AchievedConfidence' = AchievedConfidence
        BY <1>1, <1>2, <1>3, <2>1
    <2>2. CASE AchievedConfidence' = Extend(AchievedConfidence, next)
        <3>1. /\ AchievedConfidence' \in Ranges /\ AchievedConfidence' # NoRange
              /\ AchievedConfidence'.last = next
              /\ AchievedConfidence # NoRange => AchievedConfidence'.first = AchievedConfidence.first
            BY <1>1, <2>2, Ranged
        <3> QED
            BY <1>1, <1>3, <3>1 DEF Upto, Longer
    <2> QED
        BY <2>1, <2>2
<1>5. BlockHeader \subseteq BlockHeader' /\ BlockHeader' \subseteq BlockHeader \cup {next}
    OBVIOUS
<1>6. Grows
    BY <1>1, <1>2, <1>4, <1>5 DEF Grows
<1>7. Stored'
    <2>1. VerifiedHeader # NoRange
        BY <1>1 DEF Recorded, UpToFront
    <2>2. \A b \in BlockHeader' : b \in Nat /\ b <= head
        BY <1>1, <1>5 DEF Recorded, Stored
    <2>3. Upto(AchievedConfidence', head)
        BY <1>1, <1>2, <1>4 DEF Upto
    <2> QED
        BY <1>1, <1>4, <2>1, <2>2, <2>3 DEF Recorded, Stored
<1>8. UpToFront'
    <2>1. Front' = next + 1
        BY <1>1, Ranged DEF Front
    <2>2. Upto(AchievedConfidence', next + 1) /\ Upto(VerifiedData', next + 1)
        BY <1>1, <1>2, <1>3, <1>4 DEF Upto
    <2>3. Upto(VerifiedHeader, announced + 1) /\ VerifiedHeader # NoRange /\ first <= announced
        BY <1>1 DEF Recorded, UpToFront
    <2> QED
        BY <1>1, <2>1, <2>2, <2>3 DEF UpToFront
<1>9. SinceFirst'
    BY DEF Recorded, SinceFirst
<1>10. NewInOrder'
    BY <1>1, SendInOrder
<1> QED
    BY <1>6, <1>7, <1>8, <1>9, <1>10 DEF Unharmed, Recorded
LEMMA QuietSteps ==
    ASSUME Recorded, IInv',
           \/ UNCHANGED vars \/ Crash \/ LightFails \/ AppFails \/ LightReceives \/ StartClients
           \/ LightFetchesTooFew \/ SyncPasses \/ SyncFails \/ SyncEnds \/ AppSkips
    PROVE  Unharmed
<1> USE DEF vars, config, latest, lightDb, syncDb, appDb, keyed, node, lightPc, syncPc, Records
<1>1. CASE UNCHANGED vars \/ Crash \/ LightFails \/ AppFails
    <2>1. /\ UNCHANGED Records /\ UNCHANGED <<head, announced, first, crashes, light, next, block_rx>>
          /\ phase' \in {phase, "down"}
        BY <1>1 DEF Crash, LightFails, AppFails, Stop
    <2>2. NewInOrder'
        BY <2>1, SameOrder
    <2> QED
        BY <2>1, <2>2, QuietStep
<1>2. CASE LightReceives
    <2>1. /\ UNCHANGED Records
          /\ UNCHANGED <<phase, head, announced, first, crashes, next, block_rx>>
          /\ phase = "running" /\ announced + 1 - next > 0
        BY <1>2 DEF LightReceives, Running, Unread
    <2>2. next # NoBlock /\ next <= announced
        <3>1. next \in Nat /\ announced \in Int /\ NoBlock \notin Nat
            BY <2>1, Ranged DEF Recorded, IInv, Typed, Stored
        <3> QED
            BY <2>1, <3>1
    <2>3. NewInOrder'
        BY <2>1, SameOrder
    <2> QED
        BY <2>1, <2>2, <2>3, QuietStep
<1>3. CASE StartClients
    <2>1. /\ UNCHANGED Records /\ phase = "serving" /\ phase' = "running"
          /\ UNCHANGED <<head, announced, first, crashes, light, next, block_rx>>
        BY <1>3 DEF StartClients
    <2>2. NewInOrder'
        BY <2>1, SameOrder
    <2> QED
        BY <2>1, <2>2, QuietStep
<1>4. CASE SyncPasses \/ SyncFails \/ SyncEnds
    <2>1. /\ UNCHANGED Records
          /\ UNCHANGED <<phase, head, announced, first, crashes, light, next, block_rx>>
        BY <1>4 DEF SyncPasses, SyncFails, SyncEnds
    <2>2. NewInOrder'
        BY <2>1, SameOrder
    <2> QED
        BY <2>1, <2>2, QuietStep
<1>5. CASE AppSkips
    <2>1. /\ UNCHANGED Records
          /\ UNCHANGED <<phase, head, announced, first, crashes, light, next>>
          /\ AppListens /\ block_rx' = Tail(block_rx)
        BY <1>5 DEF AppSkips
    <2>2. NewInOrder'
        BY <2>1, ReadInOrder
    <2> QED
        BY <2>1, <2>2, QuietStep
<1>6. CASE LightFetchesTooFew
    <2>1. /\ UNCHANGED Records /\ phase = "running" /\ light = "busy" /\ light' = "idle"
          /\ UNCHANGED <<phase, head, announced, first, crashes>> /\ next' = next + 1
          /\ Send(next, "skipped")
        BY <1>6 DEF LightFetchesTooFew, Running, LightDone
    <2> QED
        BY <2>1, LightMoves
<1> QED
    BY <1>1, <1>2, <1>3, <1>4, <1>5, <1>6

LEMMA HeaderArrivesKeeps == ASSUME Recorded, IInv', HeaderArrives PROVE Unharmed
<1> USE DEF config, lightDb, syncDb, appDb, lightPc, syncPc
<1>1. /\ UNCHANGED <<config, VerifiedHeader, AchievedConfidence, VerifiedData, VerifiedSyncData,
                     VerifiedCellCount, AppData, BlockHeader>>
      /\ UNCHANGED <<phase, announced, first, crashes, light, next, block_rx>>
      /\ head' = head + 1 /\ LatestHeader' = head + 1
      /\ BlockHeaderReceivedAt' = BlockHeaderReceivedAt \cup {head + 1}
    BY DEF HeaderArrives
<1>2. /\ head \in Nat /\ LatestHeader <= head /\ LatestHeader \in Nat /\ announced \in Int
      /\ announced <= head /\ BlockHeader \subseteq Nat
      /\ {VerifiedHeader, VerifiedData, AchievedConfidence, VerifiedSyncData} \subseteq Ranges
    BY DEF Recorded, Stored, IInv, Typed
<1>3. \A r \in Ranges : Longer(r, r) /\ (r # NoRange => r.last \in Nat)
    BY DEF Longer, Ranges, NoRange
<1>4. Grows
    BY <1>1, <1>2, <1>3 DEF Grows
<1>5. Stored'
    BY <1>1, <1>2, <1>3 DEF Recorded, Stored, Upto
<1>6. UpToFront'
    BY <1>1 DEF Recorded, UpToFront, Upto, Front
<1>7. SinceFirst'
    BY <1>1, <1>2, PipelineAssumption DEF Recorded, SinceFirst
<1>8. NewInOrder'
    BY <1>1, SameOrder
<1> QED
    BY <1>4, <1>5, <1>6, <1>7, <1>8 DEF Unharmed, Recorded

LEMMA VerifiedGrows == ASSUME Recorded, IInv', HeaderVerified PROVE Unharmed
<1> USE DEF config, lightDb, syncDb, appDb, syncPc, keyed
<1>1. /\ UNCHANGED <<config, LatestHeader, AchievedConfidence, VerifiedData, VerifiedSyncData,
                     VerifiedCellCount, AppData, BlockHeader, BlockHeaderReceivedAt>>
      /\ UNCHANGED <<phase, head, first, crashes, light, block_rx>>
      /\ phase # "down" /\ announced < head /\ announced' = announced + 1
      /\ VerifiedHeader' = Extend(VerifiedHeader, announced + 1)
      /\ next' = IF next = NoBlock THEN announced + 1 ELSE next
    BY DEF HeaderVerified, IsUp
<1>2. /\ head \in Nat /\ LatestHeader <= head /\ LatestHeader \in Nat /\ announced \in Int
      /\ announced + 1 \in Nat /\ next \in Nat \cup {NoBlock} /\ NoBlock \notin Nat
      /\ {VerifiedHeader, VerifiedData, AchievedConfidence, VerifiedSyncData} \subseteq Ranges
      /\ BlockHeader \subseteq Nat
    BY Ranged DEF Recorded, Stored, IInv, Typed
<1>3. \A r \in Ranges : Longer(r, r) /\ (r # NoRange => r.last \in Nat)
    BY DEF Longer, Ranges, NoRange
<1>4. /\ VerifiedHeader' \in Ranges /\ VerifiedHeader' # NoRange /\ VerifiedHeader'.last = announced + 1
      /\ VerifiedHeader'.first = IF VerifiedHeader = NoRange THEN announced + 1 ELSE VerifiedHeader.first
    BY <1>1, <1>2, Ranged
<1>5. Longer(VerifiedHeader, VerifiedHeader')
    <2>1. VerifiedHeader # NoRange => VerifiedHeader.last <= announced + 1
        BY <1>1 DEF Recorded, UpToFront, Upto
    <2> QED
        BY <1>4, <2>1 DEF Longer
<1>6. Grows
    BY <1>1, <1>2, <1>3, <1>5 DEF Grows
<1>7. Stored'
    BY <1>1, <1>2, <1>4 DEF Recorded, Stored, Upto
<1>8. UpToFront'
    <2>1. Front' = Front /\ Front \in Nat
        BY <1>1, <1>2 DEF Front
    <2>2. next' # NoBlock /\ next' <= announced + 1 /\ (next # NoBlock => next' = next)
        BY <1>1, <1>2 DEF Recorded, UpToFront
    <2>3. /\ Upto(VerifiedHeader', announced' + 1) /\ Upto(AchievedConfidence', Front')
          /\ Upto(VerifiedData', Front') /\ next' <= announced' + 1
        BY <1>1, <1>2, <1>4, <2>1, <2>2 DEF Recorded, UpToFront, Upto
    <2>4. phase' \in {"serving", "running"} => first' <= announced'
        BY <1>1, <1>2 DEF Recorded, UpToFront, IInv, Typed
    <2>5. phase' = "waiting" => next' <= announced' /\ \A b \in BlockHeader' : b <= Front'
        <3>1. next' <= announced'
            BY <1>1, <1>2, <2>2
        <3>2. phase = "waiting" => \A b \in BlockHeader : b <= Front
            BY DEF Recorded, UpToFront
        <3> QED
            BY <1>1, <2>1, <3>1, <3>2
    <2>6. (phase # "down")' => next' # NoBlock /\ VerifiedHeader' # NoRange
        BY <1>4, <2>2
    <2>7. light' = "busy" => next' # NoBlock /\ next' <= announced'
        BY <1>1, <1>2, <2>2 DEF Recorded, UpToFront
    <2> HIDE DEF config, lightDb, syncDb, appDb, syncPc, keyed
    <2> QED
        BY <2>3, <2>4, <2>5, <2>6, <2>7 DEF UpToFront, Upto
<1>9. SinceFirst'
    <2>1. FirstBlock \in Nat
        BY PipelineAssumption
    <2> QED
        BY <1>1, <1>4, <2>1 DEF Recorded, SinceFirst
<1>10. NewInOrder'
    BY <1>1, SameOrder
<1> QED
    BY <1>6, <1>7, <1>8, <1>9, <1>10 DEF Unharmed, Recorded

(* The API starts: the latest header goes back to the first of this run.   *)
LEMMA ServeGrows == ASSUME Recorded, IInv', ServeApi PROVE Unharmed
<1> USE DEF config, lightDb, syncDb, appDb, syncPc, keyed, lightPc
<1>1. /\ UNCHANGED <<config, VerifiedHeader, AchievedConfidence, VerifiedData, VerifiedSyncData,
                     VerifiedCellCount, AppData, BlockHeader, BlockHeaderReceivedAt>>
      /\ UNCHANGED <<head, announced, crashes, light, next, block_rx>>
      /\ phase = "waiting" /\ phase' = "serving" /\ next # NoBlock
      /\ first' = next /\ LatestHeader' = next
    BY DEF ServeApi
<1>2. /\ next \in Nat /\ next <= announced /\ announced <= head /\ head \in Nat /\ announced \in Int
      /\ \A b \in BlockHeader : b <= next
      /\ block_rx = <<>> /\ Len(block_rx) = 0
      /\ {VerifiedHeader, VerifiedData, AchievedConfidence, VerifiedSyncData} \subseteq Ranges
    BY <1>1 DEF Recorded, Stored, IInv, Typed, UpToFront, Front
<1>3. \A r \in Ranges : Longer(r, r)
    BY DEF Longer, Ranges, NoRange
<1>4. Grows
    BY <1>1, <1>2, <1>3 DEF Grows
<1>5. Stored'
    BY <1>1, <1>2 DEF Recorded, Stored, Upto
<1>6. UpToFront'
    BY <1>1, <1>2 DEF Recorded, UpToFront, Upto, Front
<1>7. SinceFirst' /\ NewInOrder'
    BY <1>1, <1>2 DEF Recorded, SinceFirst, NewInOrder
<1> QED
    BY <1>4, <1>5, <1>6, <1>7 DEF Unharmed, Recorded

LEMMA RestartGrows == ASSUME Recorded, IInv', Restart PROVE Unharmed
<1> USE DEF config, lightDb, syncDb, appDb
<1>1. PICK b \in head .. MaxBlock :
        /\ head' = b /\ announced' = b - 1 /\ LatestHeader' = b
        /\ BlockHeaderReceivedAt' = BlockHeaderReceivedAt \cup {b}
    BY DEF Restart
<1>2. /\ UNCHANGED <<config, VerifiedHeader, AchievedConfidence, VerifiedData, VerifiedSyncData,
                     VerifiedCellCount, AppData, BlockHeader>>
      /\ phase' = "waiting" /\ crashes' = crashes + 1 /\ light' = "idle" /\ next' = NoBlock
    BY DEF Restart
<1>3. /\ head \in Nat /\ b \in Nat /\ head <= b /\ crashes \in Nat
      /\ LatestHeader \in Nat /\ LatestHeader <= head /\ BlockHeader \subseteq Nat
      /\ {VerifiedHeader, VerifiedData, AchievedConfidence, VerifiedSyncData} \subseteq Ranges
    BY PipelineAssumption DEF Recorded, Stored, IInv, Typed
<1>4. \A r \in Ranges : Longer(r, r) /\ (r # NoRange => r.last \in Nat)
    BY DEF Longer, Ranges, NoRange
<1>5. Grows
    BY <1>1, <1>2, <1>3, <1>4 DEF Grows
<1>6. /\ \A r \in {VerifiedHeader, AchievedConfidence, VerifiedData} : Upto(r, b)
      /\ \A c \in BlockHeader : c <= b
    <2>1. /\ Upto(VerifiedHeader, head) /\ Upto(AchievedConfidence, head) /\ Upto(VerifiedData, head)
          /\ \A c \in BlockHeader : c <= head
        BY DEF Recorded, Stored
    <2> QED
        BY <1>3, <1>4, <2>1 DEF Upto
<1>7. Stored'
    BY <1>1, <1>2, <1>3, <1>6 DEF Recorded, Stored
<1>8. UpToFront'
    <2>1. Front' = b /\ announced' + 1 = b
        BY <1>1, <1>2, <1>3 DEF Front
    <2> QED
        BY <1>2, <1>6, <2>1 DEF UpToFront
<1>9. SinceFirst' /\ NewInOrder'
    BY <1>2, <1>3 DEF SinceFirst, NewInOrder
<1> QED
    BY <1>5, <1>7, <1>8, <1>9 DEF Unharmed, Recorded

(* Sampled or without extension, a block of the light client is achieved.  *)
LEMMA LightGrows == ASSUME Recorded, IInv', LightSkipsIncomplete \/ LightVerifies PROVE Unharmed
<1> USE DEF config, latest, syncDb, appDb, node, syncPc
<1>1. /\ phase = "running" /\ light = "busy" /\ light' = "idle" /\ next' = next + 1
      /\ UNCHANGED <<config, LatestHeader, VerifiedHeader, VerifiedData, VerifiedSyncData, AppData,
                     BlockHeaderReceivedAt>>
      /\ UNCHANGED <<phase, head, announced, first, crashes>>
      /\ VerifiedCellCount \subseteq VerifiedCellCount'
      /\ AchievedConfidence' = Extend(AchievedConfidence, next)
      /\ BlockHeader' = BlockHeader \cup {next}
      /\ \E kind \in {"verified", "skipped"} : Send(next, kind)
    BY DEF LightSkipsIncomplete, LightVerifies, Running, LightDone
<1> QED
    BY <1>1, LightMoves

(* The sync client is below the first block.                               *)
LEMMA SyncGrows ==
    ASSUME Recorded, IInv', SyncHasHeader \/ \E verified \in BOOLEAN : SyncProcesses(verified)
    PROVE  Unharmed
<1> USE DEF config, latest, lightDb, appDb, node, lightPc
<1>1. /\ phase = "running" /\ sync_at < first
      /\ UNCHANGED <<config, LatestHeader, VerifiedHeader, AchievedConfidence, VerifiedData,
                     VerifiedSyncData, AppData, BlockHeaderReceivedAt>>
      /\ UNCHANGED <<phase, head, announced, first, crashes, light, next>>
      /\ VerifiedCellCount \subseteq VerifiedCellCount'
      /\ BlockHeader \subseteq BlockHeader' /\ BlockHeader' \subseteq BlockHeader \cup {sync_at}
      /\ block_rx' = block_rx \/ Send(sync_at, "verified")
    BY DEF SyncHasHeader, SyncProcesses, Syncing, Running
<1>2. /\ next \in Nat /\ next # NoBlock /\ first <= announced /\ announced \in Int /\ announced <= head
      /\ head \in Nat /\ LatestHeader \in Nat /\ first \in Nat /\ sync_at \in Nat
      /\ {VerifiedHeader, VerifiedData, AchievedConfidence, VerifiedSyncData} \subseteq Ranges
      /\ VerifiedHeader # NoRange /\ BlockHeader \subseteq Nat
    BY <1>1, Ranged DEF Recorded, Stored, IInv, Typed, UpToFront
<1>3. \A r \in Ranges : Longer(r, r)
    BY DEF Longer, Ranges, NoRange
<1>4. Grows
    BY <1>1, <1>2, <1>3 DEF Grows
<1>5. Stored'
    <2>1. \A b \in BlockHeader' : b \in Nat /\ b <= head
        BY <1>1, <1>2 DEF Recorded, Stored
    <2> QED
        BY <1>1, <1>2, <2>1 DEF Recorded, Stored
<1>6. UpToFront'
    BY <1>1, <1>2 DEF Recorded, UpToFront, Front
<1>7. SinceFirst'
    BY <1>1 DEF Recorded, SinceFirst
<1>8. NewInOrder'
    <2>1. CASE block_rx' = block_rx
        BY <1>1, <2>1, SameOrder
    <2>2. CASE Send(sync_at, "verified")
        BY <1>1, <1>2, <2>2, SendInOrder
    <2> QED
        BY <1>1, <2>1, <2>2
<1> QED
    BY <1>4, <1>5, <1>6, <1>7, <1>8 DEF Unharmed, Recorded

(* The application client is done with the data of a block.                *)
LEMMA AppGrows == ASSUME Recorded, IInv', AppProcesses PROVE Unharmed
<1> USE DEF config, latest, lightDb, syncDb, keyed, node, lightPc, syncPc
<1> DEFINE b == Head(block_rx).block
<1>1. /\ AppListens /\ block_rx' = Tail(block_rx) /\ AppData \subseteq AppData'
      /\ IF b \in SyncRange
         THEN VerifiedSyncData' = Extend(VerifiedSyncData, b) /\ UNCHANGED VerifiedData
         ELSE VerifiedData' = Extend(VerifiedData, b) /\ UNCHANGED VerifiedSyncData
      /\ UNCHANGED <<config, LatestHeader, VerifiedHeader, AchievedConfidence, VerifiedCellCount,
                     BlockHeader, BlockHeaderReceivedAt>>
      /\ UNCHANGED <<phase, head, announced, first, crashes, light, next>>
    BY DEF AppProcesses
<1>2. /\ block_rx \in Seq(Items) /\ block_rx # <<>> /\ phase = "running" /\ app_mode
      /\ next \in Nat /\ first \in Nat /\ sync_at \in Nat /\ NoBlock \notin Nat
      /\ first <= announced /\ announced \in Int /\ announced <= head /\ head \in Nat
      /\ {VerifiedHeader, VerifiedData, AchievedConfidence, VerifiedSyncData} \subseteq Ranges
      /\ next <= announced + 1
    BY <1>1, Ranged DEF AppListens, Recorded, Stored, IInv, Typed, UpToFront
<1>3. /\ b \in Nat /\ b = block_rx[1].block /\ 1 \in 1 .. Len(block_rx)
    BY <1>1, <1>2, ReadsHead
<1>4. IF b < first THEN Historical(b) ELSE b < next
    BY <1>2, <1>3 DEF Recorded, IInv, Positions
<1>5. b \in SyncRange <=> b < first
    BY <1>2, <1>3, <1>4 DEF SyncRange, Historical, Recorded, IInv, Typed
<1> HIDE DEF b
<1>6. \A r \in Ranges : Longer(r, r) /\ (r # NoRange => r.last \in Nat)
    BY DEF Longer, Ranges, NoRange
<1>7. VerifiedData' \in Ranges /\ Longer(VerifiedData, VerifiedData') /\ Upto(VerifiedData', next)
    <2>1. Upto(VerifiedData, next)
        BY <1>2 DEF Recorded, UpToFront, Front
    <2>2. CASE b < first
        BY <1>1, <1>2, <1>5, <1>6, <2>1, <2>2
    <2>3. CASE b >= first
        <3>1. VerifiedData' = Extend(VerifiedData, b) /\ b < next
            BY <1>1, <1>2, <1>3, <1>4, <1>5, <2>3
        <3>2. /\ VerifiedData' \in Ranges /\ VerifiedData' # NoRange /\ VerifiedData'.last = b
              /\ VerifiedData # NoRange => VerifiedData'.first = VerifiedData.first
            BY <1>2, <1>3, <3>1, Ranged
        <3>3. Upto(VerifiedData, b)
            BY <1>2, <1>3, <2>3 DEF Recorded, NewInOrder, Recent
        <3> QED
            BY <1>2, <1>3, <3>1, <3>2, <3>3 DEF Upto, Longer
    <2> QED
        BY <1>2, <1>3, <2>2, <2>3
<1>8. crashes = 0 => Longer(VerifiedSyncData, VerifiedSyncData')
    <2> SUFFICES ASSUME crashes = 0 PROVE Longer(VerifiedSyncData, VerifiedSyncData')
        OBVIOUS
    <2>1. CASE b >= first
        BY <1>1, <1>2, <1>3, <1>5, <1>6, <2>1
    <2>2. CASE b < first
        <3>1. VerifiedSyncData' = Extend(VerifiedSyncData, b)
            BY <1>1, <1>5, <2>2
        <3>2. VerifiedSyncData # NoRange => VerifiedSyncData.last < b
            BY <1>3, <2>2 DEF Recorded, IInv, Delivered, Behind
        <3>3. /\ VerifiedSyncData' # NoRange /\ VerifiedSyncData'.last = b
              /\ VerifiedSyncData # NoRange => VerifiedSyncData'.first = VerifiedSyncData.first
            BY <1>2, <1>3, <3>1, Ranged
        <3> QED
            BY <1>2, <1>3, <1>6, <3>2, <3>3 DEF Longer
    <2> QED
        BY <1>2, <1>3, <2>1, <2>2
<1>9. Grows
    <2>1. \A c \in BlockHeader : c <= LatestHeader => c <= LatestHeader'
        BY <1>1
    <2> QED
        BY <1>1, <1>2, <1>6, <1>7, <1>8, <2>1 DEF Grows
<1>10. Stored'
    <2>1. VerifiedData' # NoRange => b \in Nat
        BY <1>3
    <2>2. Upto(VerifiedData', head)
        <3>1. CASE b < first
            BY <1>1, <1>5, <3>1 DEF Recorded, Stored
        <3>2. CASE b >= first
            <4>1. VerifiedData' = Extend(VerifiedData, b) /\ b < next
                BY <1>1, <1>2, <1>3, <1>4, <1>5, <3>2
            <4>2. VerifiedData'.last = b
                BY <1>2, <1>3, <4>1, Ranged
            <4> QED
                BY <1>2, <1>3, <4>1, <4>2 DEF Upto
        <3> QED
            BY <1>2, <1>3, <3>1, <3>2
    <2> QED
        BY <1>1, <2>2 DEF Recorded, Stored
<1>11. UpToFront'
    BY <1>1, <1>2, <1>7 DEF Recorded, UpToFront, Front
<1>12. SinceFirst'
    BY <1>1 DEF Recorded, SinceFirst
<1>13. NewInOrder'
    BY <1>1, <1>2, <1>3, <1>5, ReadInOrder DEF b
<1> QED
    BY <1>9, <1>10, <1>11, <1>12, <1>13 DEF Unharmed, Recorded

LEMMA RecordedInit == Init => Recorded
<1> SUFFICES ASSUME Init PROVE Recorded
    OBVIOUS
<1>1. FirstBlock \in Nat /\ FirstBlock - 1 \in Nat /\ FirstBlock - 1 + 1 = FirstBlock
    BY PipelineAssumption
<1>2. Stored
    BY <1>1, Ranged DEF Init, Stored, Upto
<1>3. UpToFront /\ NewInOrder /\ SinceFirst
    BY <1>1 DEF Init, UpToFront, NewInOrder, SinceFirst, Upto
<1> QED
    BY <1>2, <1>3, InitIInv DEF Recorded

(* No step takes back what the API has said of a block, except the status  *)
(* of the history once there was a crash (handlers.rs of v1 and v2).       *)
THEOREM AnswersStay == Spec => AnswersAreKept
<1>1. Recorded /\ [Next]_vars => Unharmed
    <2> SUFFICES ASSUME Recorded, [Next]_vars PROVE Unharmed
        OBVIOUS
    <2>1. IInv'
        BY PipelineStep DEF Recorded
    <2> QED
        BY <2>1, QuietSteps, HeaderArrivesKeeps, VerifiedGrows, ServeGrows, RestartGrows, LightGrows,
            SyncGrows, AppGrows DEF Next, LightStep, SyncStep, AppStep, Ended
<1>2. Recorded /\ Recorded' /\ Unharmed
        => \A b \in Blocks : Kept(b) \ Kept(b)' \subseteq MayBeTakenBack(b)
    BY GrowsKeeps DEF Unharmed
<1>3. Recorded /\ [Next]_vars
        => Recorded' /\ \A b \in Blocks : Kept(b) \ Kept(b)' \subseteq MayBeTakenBack(b)
    BY <1>1, <1>2 DEF Unharmed
<1> QED
    BY <1>3, RecordedInit, PTL DEF Spec, AnswersAreKept
=============================================================================
