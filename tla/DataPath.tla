------------------------------- MODULE DataPath -------------------------------
(***************************************************************************)
(* The cells and rows of one block: a fat client takes its partition from  *)
(* a node and puts it into the DHT; a light client samples cells from the  *)
(* DHT, falls back to a node and verifies them; once the block counts as   *)
(* available, the application client of that light client collects the    *)
(* rows of its application. They meet only in the DHT, where any peer may  *)
(* put anything under any key.                                             *)
(*                                                                         *)
(* A step ends where the code awaits. A lookup in the DHT is one step: it  *)
(* may miss any record that is there. A cell (80 bytes of proof and data)  *)
(* is its verdict: "good", "bad" (its proof does not hold) or "broken"     *)
(* (checking the proof is an error). With the multiproof feature a cell    *)
(* outside its own block of cells counts as not found.                     *)
(***************************************************************************)
EXTENDS Naturals, FiniteSets, Sequences, Functions

CONSTANTS
    Rows, Cols,     \* of the extended matrix: Rows is 0 .. 2 * n - 1
    Samples,        \* the sets of cells the light client may draw
    Batches,        \* the partition of the fat client, one set per RPC call
    AppRows,        \* app_specific_rows: the rows of the application
    threshold,      \* AppClientConfig: cells to reconstruct at most
    Modes,          \* network modes tried
    MaxWrong,       \* bound: wrong cells or rows in one answer of the node
    MaxForged,      \* bound: records put by peers that are no client of ours
    MaxRestarts     \* bound: P2P restarts

ASSUME DataPathAssumption ==
    /\ Rows # {} /\ Rows = 0 .. Cardinality(Rows) - 1 /\ Cardinality(Rows) % 2 = 0
    /\ IsFiniteSet(Cols) /\ Cardinality(Cols) > 2  \* narrower blocks are skipped
    /\ Samples \subseteq SUBSET (Rows \X Cols)
    /\ Batches \in Seq(SUBSET (Rows \X Cols))
    /\ AppRows \subseteq {r \in Rows : r % 2 = 0}
    /\ {threshold, MaxWrong, MaxForged, MaxRestarts} \subseteq Nat
    /\ Modes \subseteq {"Both", "P2POnly", "RPCOnly"}

Cells == Rows \X Cols
Verdicts == {"good", "bad", "broken"}
Nothing == <<>>                       \* no cells fetched: the empty function

VARIABLES
    network_mode, insert_into_dht, multiproof,  \* configuration and build
    p2p_client,         \* does the shared slot hold a P2P client?
    dht_cells, dht_rows,  \* the records: a verdict, or "none"
    fat,                \* [pc, batch, fetched]
    light,              \* [pc, asked, fetched, unfetched, rpc, short]
    app,                \* [pc, dht, rows, missing, cells]
    forged, restarts

config == <<network_mode, insert_into_dht, multiproof>>
dht    == <<dht_cells, dht_rows>>
vars   == <<config, p2p_client, dht, fat, light, app, forged, restarts>>

Init ==
    /\ network_mode \in Modes /\ insert_into_dht \in BOOLEAN /\ multiproof \in BOOLEAN
    /\ p2p_client = (network_mode # "RPCOnly")
    /\ dht_cells = [c \in Cells |-> "none"]
    /\ dht_rows = [r \in Rows |-> "none"]
    /\ fat = [pc |-> "rpc", batch |-> 1, fetched |-> Nothing]
    /\ light = [pc |-> "idle", asked |-> {}, fetched |-> Nothing, unfetched |-> {},
                rpc |-> {}, short |-> FALSE]
    /\ app = [pc |-> "idle", dht |-> Nothing, rows |-> Nothing, missing |-> {},
              cells |-> Nothing]
    /\ forged = 0 /\ restarts = 0

-----------------------------------------------------------------------------
(* What a client gets: a function from cells (or rows) to verdicts.        *)

(* proof::verify: an error of one proof is an error of the whole call; a   *)
(* multiproof holds for all of its cells or for none.                      *)
VerifyFails(cells) == \E c \in DOMAIN cells : cells[c] = "broken"

VerifySingle(cells) == {c \in DOMAIN cells : cells[c] = "good"}
VerifyMulti(cells) == {c \in DOMAIN cells : \A d \in DOMAIN cells : cells[d] = "good"}
verify(cells) == IF multiproof THEN VerifyMulti(cells) ELSE VerifySingle(cells)

(* What two sources found, the first one's word before the second one's    *)
(* (@@ of TLC, spelled out).                                               *)
Together(f, g) ==
    [k \in DOMAIN f \cup DOMAIN g |-> IF k \in DOMAIN f THEN f[k] ELSE g[k]]

(* fetch_cells_from_dht, fetch_rows_from_dht: some of the records.         *)
FromDht(records, keys) ==
    {Restrict(records, found) : found \in SUBSET {k \in keys : records[k] # "none"}}

(* request_kate_proof, request_kate_rows: answers for some of the keys,    *)
(* since positions and proofs are zipped; a node may be wrong about some.  *)
FromRpc(keys) ==
    UNION {{f \in [answered -> Verdicts] :
               Cardinality({k \in answered : f[k] # "good"}) <= MaxWrong} :
           answered \in SUBSET keys}

(* put_kad_record: each put may be lost, and no put is undone.             *)
Put(records, values, stored) ==
    [k \in DOMAIN records |-> IF k \in stored THEN values[k] ELSE records[k]]

-----------------------------------------------------------------------------
(* The fat client: batch by batch from the node into the DHT, unverified.  *)
(* An insertion that fails is logged; a call that fails ends the block,    *)
(* and what earlier batches put stays.                                     *)
FatBatch ==
    /\ fat.pc = "rpc" /\ fat.batch <= Len(Batches)
    /\ \E cells \in FromRpc(Batches[fat.batch]) :
          /\ \E stored \in SUBSET DOMAIN cells : dht_cells' = Put(dht_cells, cells, stored)
          /\ fat' = [fat EXCEPT !.batch = @ + 1,
                                !.fetched = Together(cells, @)]
    /\ UNCHANGED <<config, p2p_client, dht_rows, light, app, forged, restarts>>

FatRpcFails ==
    /\ fat.pc = "rpc" /\ fat.batch <= Len(Batches)
    /\ fat' = [fat EXCEPT !.pc = "failed", !.fetched = Nothing] \* triggers the shutdown
    /\ UNCHANGED <<config, p2p_client, dht, light, app, forged, restarts>>

(* Rows are built from the cells that are no extension, when there are as  *)
(* many as a row has: only rows with all their cells.                      *)
FatRows ==
    /\ fat.pc = "rpc" /\ fat.batch > Len(Batches)
    /\ LET data == {c \in DOMAIN fat.fetched : c[1] % 2 = 0}
           whole == {r \in Rows : \A col \in Cols : <<r, col>> \in data}
           row == [r \in whole |-> IF \A col \in Cols : fat.fetched[<<r, col>>] = "good"
                                   THEN "good" ELSE "bad"]
           rows == IF multiproof \/ Cardinality(data) < Cardinality(Cols) THEN {} ELSE whole
       IN \E stored \in SUBSET rows : dht_rows' = Put(dht_rows, row, stored)
    /\ fat' = [fat EXCEPT !.pc = "done", !.fetched = Nothing]
    /\ UNCHANGED <<config, p2p_client, dht_cells, light, app, forged, restarts>>
-----------------------------------------------------------------------------
(* The light client: fetch_verified of DHTWithRPCFallbackClient.           *)
(* In RPC-only mode the DHT is not asked; RPCClient, which the web client  *)
(* has, behaves like this mode.                                            *)
RpcOnly == network_mode = "RPCOnly"

LightStart ==
    /\ light.pc = "idle"
    /\ \E positions \in Samples :
          light' = [light EXCEPT !.asked = positions, !.unfetched = positions,
                                 !.pc = IF RpcOnly THEN "rpc" ELSE "dht"]
    /\ UNCHANGED <<config, p2p_client, dht, fat, app, forged, restarts>>

(* light_client::process_block: fewer cells than it asked for skip it.     *)
Outcome(asked, fetched) == IF asked = DOMAIN fetched THEN "verified" ELSE "skipped"

(* Mutant: cells whose proof does not hold are asked for no more.          *)
UnfetchedOnly(asked, found) == asked \ DOMAIN found

(* unfetched.append(unverified): all that is not fetched and verified.     *)
StillMissing(asked, found) == asked \ verify(found)

(* Mutant: what was found counts as fetched before it is verified.         *)
RetainAll(found) == found

(* fetched.retain: only what is verified.                                  *)
Retain(found) == Restrict(found, verify(found))

(* Without a P2P client (a restart is under way) all cells are unfetched.  *)
LightFromDht ==
    /\ light.pc = "dht"
    /\ \E cells \in IF p2p_client THEN FromDht(dht_cells, light.asked) ELSE {Nothing} :
          light' = IF VerifyFails(cells) THEN [light EXCEPT !.pc = "failed"]
                   ELSE [light EXCEPT
                            !.fetched = Retain(cells),
                            !.unfetched = StillMissing(light.asked, cells),
                            !.pc = IF network_mode = "P2POnly"
                                   THEN Outcome(light.asked, Retain(cells)) ELSE "rpc"]
    /\ UNCHANGED <<config, p2p_client, dht, fat, app, forged, restarts>>

(* The node is asked even when nothing is missing. Cells it does not       *)
(* answer are in no result; `short` says that it left a cell unserved.     *)
LightFromRpc ==
    /\ light.pc = "rpc"
    /\ \E cells \in FromRpc(light.unfetched) :
          LET fetched == Together(Retain(cells), light.fetched)
          IN light' =
              IF VerifyFails(cells) THEN [light EXCEPT !.pc = "failed"]
              ELSE [light EXCEPT
                      !.rpc = DOMAIN Retain(cells), !.fetched = fetched,
                      !.short = verify(cells) # light.unfetched,
                      !.unfetched = DOMAIN cells \ verify(cells),
                      !.pc = IF network_mode = "Both" /\ insert_into_dht /\ p2p_client
                             THEN "insert" ELSE Outcome(light.asked, fetched)]
    /\ UNCHANGED <<config, p2p_client, dht, fat, app, forged, restarts>>

LightRpcFails ==
    /\ light.pc = "rpc"
    /\ light' = [light EXCEPT !.pc = "failed"]   \* and the shutdown is triggered
    /\ UNCHANGED <<config, p2p_client, dht, fat, app, forged, restarts>>

(* The insertion holds the slot of the client: no restart passes it.       *)
LightInsert ==
    /\ light.pc = "insert"
    /\ \E stored \in SUBSET light.rpc :
          dht_cells' = Put(dht_cells, light.fetched, stored)
    /\ light' = [light EXCEPT !.pc = Outcome(light.asked, light.fetched)]
    /\ UNCHANGED <<config, p2p_client, dht_rows, fat, app, forged, restarts>>
-----------------------------------------------------------------------------
(* The application client: process_block. It runs on blocks that its light *)
(* client verified. Its P2P client is a clone made at startup, which finds *)
(* nothing after a P2P restart; in RPC-only mode there is none.            *)
AppFromDht(records, keys) ==
    IF RpcOnly \/ restarts > 0 THEN {Nothing} ELSE FromDht(records, keys)

(* A local variable is emptied when it is used no more.                    *)
Fail(a) == [pc |-> "failed", dht |-> Nothing, rows |-> Nothing, missing |-> {},
            cells |-> Nothing]           \* and the shutdown is triggered

AppRowsFromDht ==
    /\ app.pc = "idle" /\ light.pc = "verified"
    /\ \E rows \in AppFromDht(dht_rows, AppRows) :
          app' = IF VerifyFails(rows) THEN Fail(app) ELSE [app EXCEPT !.pc = "rpc", !.dht = rows]
    /\ UNCHANGED <<config, p2p_client, dht, fat, light, forged, restarts>>

(* verify_equality: the rows that match their commitments.                 *)
verify_equality(rows) == {r \in DOMAIN rows : rows[r] = "good"}

(* The rows whose index one of the sources has verified, the DHT's first,  *)
(* cut to the length of the shorter list: without a P2P client the list of *)
(* rows of the DHT has only as many entries as the application has rows.   *)
VerifiedRows(dht_found, rpc_found) ==
    LET length == IF RpcOnly THEN Cardinality(AppRows) ELSE Cardinality(Rows)
    IN Restrict(Together(dht_found, rpc_found),
                {r \in verify_equality(dht_found) \cup verify_equality(rpc_found) : r < length})

(* Rows no source has verified are rebuilt, up to the threshold of cells.  *)
AppRowsFromRpc ==
    /\ app.pc = "rpc"
    /\ \E rows \in IF network_mode = "P2POnly" THEN {Nothing}
                   ELSE FromRpc(AppRows \ verify_equality(app.dht)) :
          LET missing == AppRows \ (verify_equality(app.dht) \cup verify_equality(rows))
          IN app' = IF VerifyFails(rows) \/ Cardinality(missing) * Cardinality(Cols) > threshold
                    THEN Fail(app)
                    ELSE [app EXCEPT !.rows = VerifiedRows(app.dht, rows), !.missing = missing,
                                     !.dht = Nothing,
                                     !.pc = IF missing = {} THEN "decode" ELSE "cells"]
    /\ UNCHANGED <<config, p2p_client, dht, fat, light, forged, restarts>>

AppRpcFails ==
    /\ app.pc = "rpc" /\ network_mode # "P2POnly"
    /\ app' = Fail(app)
    /\ UNCHANGED <<config, p2p_client, dht, fat, light, forged, restarts>>

(* Mutant: cells that were found are used.                                 *)
FetchUnverified(found) == found

(* fetch_verified of the application client: cells with a valid proof.     *)
FetchVerified(found) == Restrict(found, verify(found))

(* reconstruct_rows_from_dht: first the cells of the missing rows, then,   *)
(* for the columns of those not found, two thirds of the column's cells;   *)
(* half of them determine the column.                                      *)
AppCells ==
    /\ app.pc = "cells"
    /\ \E found \in AppFromDht(dht_cells, app.missing \X Cols) :
          app' = IF VerifyFails(found) THEN Fail(app)
                 ELSE [app EXCEPT !.pc = "columns", !.cells = FetchVerified(found)]
    /\ UNCHANGED <<config, p2p_client, dht, fat, light, forged, restarts>>

InColumn(cells, col) == {c \in DOMAIN cells : c[2] = col}

RowFrom(row, cells, columns) ==
    IF \A c \in DOMAIN cells : c[1] = row \/ c[2] \in columns => cells[c] = "good"
    THEN "good" ELSE "bad"

AppColumns ==
    /\ app.pc = "columns"
    /\ LET columns == {c[2] : c \in (app.missing \X Cols) \ DOMAIN app.cells}
           drawn == (2 * Cardinality(Rows) + 2) \div 3
       IN \E found \in AppFromDht(dht_cells, Rows \X columns) :
             LET cells == FetchVerified(found)
                 short == \E col \in columns :
                             2 * Cardinality(InColumn(cells, col)) < Cardinality(Rows)
             IN /\ \A col \in columns : Cardinality(InColumn(found, col)) <= drawn
                /\ app' = IF VerifyFails(found) \/ short THEN Fail(app)
                          ELSE [app EXCEPT
                                  !.pc = "decode", !.missing = {}, !.cells = Nothing,
                                  !.rows = Together([r \in app.missing |->
                                      RowFrom(r, Together(app.cells, cells), columns)], @)]
    /\ UNCHANGED <<config, p2p_client, dht, fat, light, forged, restarts>>

(* Decoding needs all rows; wrong ones may decode or not.                  *)
AppStore ==
    /\ app.pc = "decode"
    /\ \E decoded \in BOOLEAN :
          /\ decoded => DOMAIN app.rows = AppRows
          /\ ~decoded => \E r \in AppRows : r \notin DOMAIN app.rows \/ app.rows[r] # "good"
          /\ app' = IF decoded THEN [app EXCEPT !.pc = "stored"] ELSE Fail(app)
    /\ UNCHANGED <<config, p2p_client, dht, fat, light, forged, restarts>>
-----------------------------------------------------------------------------
(* Other peers put what they like; a restart empties the slot for a while. *)
ForgeCell ==
    /\ forged < MaxForged
    /\ \E c \in Cells, v \in Verdicts : dht_cells' = [dht_cells EXCEPT ![c] = v]
    /\ forged' = forged + 1
    /\ UNCHANGED <<config, p2p_client, dht_rows, fat, light, app, restarts>>

ForgeRow ==
    /\ forged < MaxForged
    /\ \E r \in AppRows, v \in Verdicts : dht_rows' = [dht_rows EXCEPT ![r] = v]
    /\ forged' = forged + 1
    /\ UNCHANGED <<config, p2p_client, dht_cells, fat, light, app, restarts>>

StopP2P ==
    /\ p2p_client /\ restarts < MaxRestarts /\ light.pc # "insert"
    /\ p2p_client' = FALSE /\ restarts' = restarts + 1
    /\ UNCHANGED <<config, dht, fat, light, app, forged>>

StartP2P ==
    /\ ~p2p_client /\ network_mode # "RPCOnly"
    /\ p2p_client' = TRUE
    /\ UNCHANGED <<config, dht, fat, light, app, forged, restarts>>

Next ==
    \/ FatBatch \/ FatRpcFails \/ FatRows
    \/ LightStart \/ LightFromDht \/ LightFromRpc \/ LightRpcFails \/ LightInsert
    \/ AppRowsFromDht \/ AppRowsFromRpc \/ AppRpcFails \/ AppCells \/ AppColumns \/ AppStore
    \/ ForgeCell \/ ForgeRow \/ StopP2P \/ StartP2P

Spec == Init /\ [][Next]_vars
-----------------------------------------------------------------------------
(* A block counts as available only with a proof that holds for every cell *)
(* that was sampled (light_client.rs:210), whatever the DHT holds and      *)
(* whatever the node answers.                                              *)
VerifiedMeansProved ==
    light.pc = "verified" => light.fetched = [c \in light.asked |-> "good"]

(* The fallback is complete: with a node to ask, a block is skipped only   *)
(* when the node itself left a cell unserved; cells that the DHT lacks or  *)
(* has wrong are all asked for.                                            *)
FallbackWorks ==
    light.pc = "skipped" /\ network_mode # "P2POnly" => light.short

(* Where the DHT is the only source, the data stored for the application   *)
(* is true: its rows match their commitments or are rebuilt from cells     *)
(* with proofs (app_client.rs:370-412).                                    *)
P2POnlyDataIsTrue ==
    app.pc = "stored" /\ network_mode = "P2POnly" => \A r \in AppRows : app.rows[r] = "good"

(* What app_client.rs:8 says of the client: "Verify commitment equality    *)
(* for each row". With a node as a second source it does not hold: a row   *)
(* of the DHT that failed is taken once the node's row is verified.        *)
EachRowIsVerified ==
    app.pc = "stored" => \A r \in AppRows : app.rows[r] = "good"
=============================================================================
