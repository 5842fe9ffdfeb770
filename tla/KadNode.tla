------------------------------- MODULE KadNode -------------------------------
(***************************************************************************)
(* A node of the DHT: the records its store holds and for how long, the    *)
(* records it puts and the statistics ClientState keeps of them.           *)
(* core/src/network/p2p: kad_mem_store, kad_rocksdb_store, client,         *)
(* event_loop; client/src/main.rs: BlockStat.                              *)
(*                                                                         *)
(* The value of a record is only too large or not. Kademlia itself is      *)
(* external: a put is stored at this node and sent to others, whose        *)
(* answers end its query; a get finds a record unless it is expired.       *)
(***************************************************************************)
EXTENDS Naturals, Sequences, FiniteSets

CONSTANTS
    Keys, Blocks,
    BlockOf,        \* the block in a key
    NoRecord, NoStat,
    Backend,        \* "memory" or "rocksdb"
    max_records,    \* limit of the memory store
    kad_record_ttl,
    PeersExpire,    \* assumption: other nodes put records that expire
    MaxTime, MaxPuts, MaxRestarts   \* bounds

Never == MaxTime + kad_record_ttl + 1

KadNodeAssumption ==
    /\ IsFiniteSet(Keys) /\ BlockOf \in [Keys -> Blocks]
    /\ NoStat \notin [total : Nat, remaining : Nat, success : Nat, error : Nat]
    /\ Backend \in {"memory", "rocksdb"}
    /\ kad_record_ttl \in Nat \ {0} /\ max_records \in Nat
    /\ PeersExpire \in BOOLEAN
    /\ {MaxTime, MaxPuts, MaxRestarts} \subseteq Nat

VARIABLES
    is_fat_client,
    now,
    records,        \* of each key: [expires, due], "due" is when it should be
                    \* gone by the local time to live; or NoRecord
    queries,        \* of each key: put queries under way
    output,         \* events on their way to ClientState
    active_blocks,  \* of each block: the statistics of its puts, or NoStat
    lost,           \* blocks with a put whose result never comes
    puts, restarts  \* counters for the bounds

store == <<now, records>>
stats == <<queries, output, active_blocks, lost, puts>>
vars == <<is_fat_client, store, stats, restarts>>

Init ==
    /\ is_fat_client \in BOOLEAN
    /\ now = 0 /\ records = [k \in Keys |-> NoRecord]
    /\ queries = [k \in Keys |-> 0] /\ output = <<>>
    /\ active_blocks = [b \in Blocks |-> NoStat] /\ lost = {}
    /\ puts = 0 /\ restarts = 0

-----------------------------------------------------------------------------
Stored == {k \in Keys : records[k] # NoRecord}

(* put: an occupied entry is replaced, a vacant one needs room, which a    *)
(* database always has.                                                    *)
HasRoom(new) ==
    Backend = "memory" => Cardinality(Stored) + Cardinality(new) <= max_records

(* is_expired of what get returns. The database keeps the seconds that     *)
(* were left when the record was put, and counts them from now whenever it *)
(* is read.                                                                *)
is_expired(k) ==
    Backend = "memory" /\ records[k].expires # Never /\ records[k].expires <= now

(* Mutant: what the sender says.                                           *)
AsSent(expires) == expires

(* min of two Options: None is the smaller one.                            *)
Sooner(expires) ==
    IF expires = Never \/ expires < now + kad_record_ttl
    THEN expires ELSE now + kad_record_ttl

Tick ==
    /\ now < MaxTime /\ now' = now + 1
    /\ UNCHANGED <<is_fat_client, records, stats, restarts>>

(* InboundRequest::PutRecord: a record that is too large or finds no room  *)
(* is dropped without a word.                                              *)
IncomingPut(k, expires) ==
    /\ ~is_fat_client
    /\ PeersExpire => expires # Never
    /\ HasRoom({k} \ Stored)
    /\ records' = [records EXCEPT ![k] =
            [expires |-> Sooner(expires), due |-> now + kad_record_ttl]]
    /\ UNCHANGED <<is_fat_client, now, stats, restarts>>

(* A request finds an expired record: Kademlia removes it.                 *)
IncomingGet(k) ==
    /\ k \in Stored /\ is_expired(k)
    /\ records' = [records EXCEPT ![k] = NoRecord]
    /\ UNCHANGED <<is_fat_client, now, stats, restarts>>

(* prune_expired_records: nothing under rocksdb.                           *)
Prune ==
    /\ \E k \in Stored : is_expired(k)
    /\ records' = [k \in Keys |-> IF k \in Stored /\ is_expired(k) THEN NoRecord ELSE records[k]]
    /\ UNCHANGED <<is_fat_client, now, stats, restarts>>

-----------------------------------------------------------------------------
Announce(b, n) == Append(output, [is |-> "put", block |-> b, number |-> n])

(* put_kad_record: each record is stored, then sent; one that is refused   *)
(* is logged, and announced like the others. accepted: those stored.       *)
PutRecords(b, ks) ==
    /\ puts < MaxPuts
    /\ ks # {} /\ \A k \in ks : BlockOf[k] = b
    /\ puts' = puts + 1
    /\ \E accepted \in SUBSET ks :
        /\ ks \cap Stored \subseteq accepted
        /\ HasRoom(accepted \ Stored)
        /\ \A k \in ks \ accepted : ~HasRoom((accepted \cup {k}) \ Stored)
        /\ records' = [k \in Keys |-> IF k \in accepted
                THEN [expires |-> now + kad_record_ttl, due |-> now + kad_record_ttl]
                ELSE records[k]]
        /\ queries' = [k \in Keys |-> queries[k] + IF k \in accepted THEN 1 ELSE 0]
        /\ lost' = IF accepted = ks THEN lost ELSE lost \cup {b}
    /\ output' = Announce(b, Cardinality(ks))
    /\ UNCHANGED <<is_fat_client, now, active_blocks, restarts>>

(* put_kad_record_to: to the peers given, not stored here.                 *)
PutRecordsTo(b, ks) ==
    /\ puts < MaxPuts
    /\ ks # {} /\ \A k \in ks : BlockOf[k] = b
    /\ puts' = puts + 1
    /\ queries' = [k \in Keys |-> queries[k] + IF k \in ks THEN 1 ELSE 0]
    /\ output' = Announce(b, Cardinality(ks))
    /\ UNCHANGED <<is_fat_client, store, active_blocks, lost, restarts>>

(* Mutant: a fat client only forgets what was put.                         *)
ForgetIfPut(k, ok) ==
    IF is_fat_client /\ ok THEN [records EXCEPT ![k] = NoRecord] ELSE records

(* remove_record: the memory optimization of fat clients.                  *)
Forget(k, ok) ==
    IF is_fat_client THEN [records EXCEPT ![k] = NoRecord] ELSE records

(* QueryResult::PutRecord: the quorum was reached, or not, or not in time. *)
PutEnds(k, ok) ==
    /\ queries[k] > 0
    /\ queries' = [queries EXCEPT ![k] = @ - 1]
    /\ records' = Forget(k, ok)
    /\ output' = Append(output, [is |-> IF ok THEN "ok" ELSE "failed", key |-> k])
    /\ UNCHANGED <<is_fat_client, now, active_blocks, lost, puts, restarts>>

(* Mutant: a second batch of a block starts its statistics again.          *)
NewPutAgain(b, n) ==
    [active_blocks EXCEPT ![b] = [total |-> n, remaining |-> n, success |-> 0, error |-> 0]]

(* handle_new_put_record: a new entry, or more cells of one.               *)
NewPut(b, n) ==
    LET old == active_blocks[b] IN
    [active_blocks EXCEPT ![b] =
        IF old = NoStat
        THEN [total |-> n, remaining |-> n, success |-> 0, error |-> 0]
        ELSE [old EXCEPT !.total = @ + n, !.remaining = @ + n]]

(* process_put_record_result: the entry that is complete is removed.       *)
Counted(s, ok) ==
    [s EXCEPT !.remaining = @ - 1,
              !.success = @ + IF ok THEN 1 ELSE 0,
              !.error = @ + IF ok THEN 0 ELSE 1]

(* Mutant: only a success counts down.                                     *)
OnlySuccessCounts(b, ok) ==
    IF active_blocks[b] = NoStat \/ ~ok THEN active_blocks
    ELSE LET s == Counted(active_blocks[b], ok) IN
         [active_blocks EXCEPT ![b] = IF s.remaining = 0 THEN NoStat ELSE s]

process_put_record_result(b, ok) ==
    IF active_blocks[b] = NoStat THEN active_blocks
    ELSE LET s == Counted(active_blocks[b], ok) IN
         [active_blocks EXCEPT ![b] = IF s.remaining = 0 THEN NoStat ELSE s]

(* handle_events takes the next event.                                     *)
HandleEvent ==
    /\ output # <<>>
    /\ output' = Tail(output)
    /\ LET e == Head(output) IN
       active_blocks' =
            IF e.is = "put" THEN NewPut(e.block, e.number)
            ELSE process_put_record_result(BlockOf[e.key], e.is = "ok")
    /\ UNCHANGED <<is_fat_client, store, queries, lost, puts, restarts>>

-----------------------------------------------------------------------------
(* A restart of the P2P client: queries and a store in memory go, events   *)
(* that were sent are still forwarded.                                     *)
Restart ==
    /\ restarts < MaxRestarts
    /\ restarts' = restarts + 1
    /\ records' = IF Backend = "memory" THEN [k \in Keys |-> NoRecord] ELSE records
    /\ lost' = lost \cup {BlockOf[k] : k \in {j \in Keys : queries[j] > 0}}
    /\ queries' = [k \in Keys |-> 0]
    /\ UNCHANGED <<is_fat_client, now, output, active_blocks, puts>>

(* The bounds are reached, nothing is under way.                           *)
Ended ==
    /\ now = MaxTime /\ puts = MaxPuts
    /\ output = <<>> /\ \A k \in Keys : queries[k] = 0
    /\ UNCHANGED vars

Next ==
    \/ Tick
    \/ \E k \in Keys :
        \/ \E e \in now + 1 .. Never : IncomingPut(k, e)
        \/ IncomingGet(k)
        \/ \E ok \in BOOLEAN : PutEnds(k, ok)
    \/ Prune
    \/ \E b \in Blocks, ks \in SUBSET Keys : PutRecords(b, ks) \/ PutRecordsTo(b, ks)
    \/ HandleEvent
    \/ Restart
    \/ Ended

Spec == Init /\ [][Next]_vars

(* Queries end by their timeout, ClientState takes its events.             *)
Fairness ==
    /\ \A k \in Keys : WF_vars(\E ok \in BOOLEAN : PutEnds(k, ok))
    /\ WF_vars(HandleEvent)

FairSpec == Spec /\ Fairness

-----------------------------------------------------------------------------

(* "Expiry is handled lazily when retrieving a record", "TTL will be set   *)
(* to a lower value between the local TTL and incoming record TTL": no     *)
(* record is served longer than the local time to live after it came in,   *)
(* whatever its sender says, however often it is put again.                *)
NothingOutlivesTTL ==
    \A k \in Stored : now >= records[k].due => is_expired(k)

(* What a fat client puts stays in its store only as long as the put is    *)
(* under way, however it ends.                                             *)
FatStoreIsTransient ==
    is_fat_client => \A k \in Stored : queries[k] > 0

(* "Received PUT completion for unknown or already completed block" never  *)
(* happens: a put is announced before its results, and an entry is only    *)
(* complete when none are left, for any number of batches of a block.      *)
ResultsAreExpected ==
    output # <<>> /\ Head(output).is # "put" =>
        LET s == active_blocks[BlockOf[Head(output).key]] IN
        s # NoStat /\ s.total = s.remaining + s.success + s.error

(* The upload of a block is reported in the end, unless the store refused  *)
(* one of its records or a restart dropped one of its queries.             *)
UploadsAreReported ==
    \A b \in Blocks : active_blocks[b] # NoStat ~> active_blocks[b] = NoStat \/ b \in lost
=============================================================================
