----------------------------- MODULE SyncFinality -----------------------------
(***************************************************************************)
(* core/src/sync_finality.rs: the walk from the last checkpoint (or block  *)
(* 1) to the first finalized header of this run, which checks that every   *)
(* block names its predecessor, has a finality proof for every change of   *)
(* authorities checked, and leaves a checkpoint after each. The database   *)
(* outlives the process, so the walk is resumed by a later run, perhaps    *)
(* through another node and after runs with the sync disabled.             *)
(*                                                                         *)
(* A node knows the finalized chain up to node.final; from there up to     *)
(* node.best its best chain may still be a fork the network did not        *)
(* finalize, and get_block_hash answers with the best chain. A block (its  *)
(* hash, its header) is a record [number, branch].                         *)
(***************************************************************************)
EXTENDS GrandpaChain

CONSTANTS
    MaxRestarts,    \* bound: how often the process starts again
    MaxLag          \* how far a node may be behind the network's finality

ASSUME SyncAssumption == {MaxRestarts, MaxLag} \subseteq Nat

VARIABLES
    network,            \* what the network has finalized
    node,               \* the node the RPC client is connected to
    restarts,
    status,             \* "init", "loop", "proof": where sync is;
                        \* "synced", "disabled"; "rpc_failed", "check_failed",
                        \* "parent_panic": how the process came to shut down
    last_block_num, curr_block_num, set_id, validator_set, prev_hash,
    block_header,       \* BlockHeaderKey(n)
    checkpoint,         \* FinalitySyncCheckpointKey
    is_finality_synced  \* IsFinalitySyncedKey

nodeVars == <<network, node, restarts>>
locals   == <<last_block_num, curr_block_num, set_id, validator_set, prev_hash>>
dbVars   == <<block_header, checkpoint, is_finality_synced>>
vars     == <<nodeVars, status, locals, dbVars>>

-----------------------------------------------------------------------------
(* The chain as the nodes show it.                                         *)
Main(n) == [number |-> n, branch |-> "main"]
Fork(n) == [number |-> n, branch |-> "fork"]
NoBlock == [number |-> 0, branch |-> "none"]

(* FinalitySyncCheckpointKey is absent: a checkpoint that was stored names *)
(* block 2 or a later one.                                                 *)
NoCheckpoint == [number |-> 0, set_id |-> 0, validator_set |-> {}]

Hashes == {Main(n) : n \in Blocks} \cup {Fork(n) : n \in Blocks}

Nodes == {nd \in [final : Blocks, best : Blocks, forked : BOOLEAN] :
             /\ network <= nd.final + MaxLag /\ nd.final <= network
             /\ nd.final <= nd.best}

(* get_block_hash(n), where the node has such a block.                     *)
BlockHash(n) == IF n > node.final /\ node.forked THEN Fork(n) ELSE Main(n)

(* The parent hash in a header: a fork leaves the finalized chain above    *)
(* the finality of the node that follows it.                               *)
Parent(hash, root) == IF hash.branch = "fork" /\ hash.number > root + 1
                      THEN Fork(hash.number - 1) ELSE Main(hash.number - 1)

-----------------------------------------------------------------------------
(* A first run with an empty database.                                     *)
Init ==
    /\ network \in Blocks
    /\ node \in Nodes
    /\ restarts = 0
    /\ status = "init"
    /\ last_block_num = node.final
    /\ curr_block_num = 1 /\ set_id = 0 /\ validator_set = {} /\ prev_hash = NoBlock
    /\ block_header = [n \in Blocks |-> NoBlock]
    /\ checkpoint = NoCheckpoint
    /\ is_finality_synced = FALSE

(* Finality moves on in the network, and with it the node we talk to.      *)
NetworkFinalizes ==
    /\ network < MaxBlock
    /\ network' = network + 1
    /\ node' = [final  |-> node.final + 1,
                best   |-> IF node.best > node.final THEN node.best ELSE node.final + 1,
                forked |-> FALSE]
    /\ UNCHANGED <<restarts, status, locals, dbVars>>

(* The RPC client gives up on its node between two calls and finds another.*)
SwitchNode ==
    /\ status \in {"init", "loop", "proof"}
    /\ node' \in Nodes
    /\ UNCHANGED <<network, restarts, status, locals, dbVars>>

-----------------------------------------------------------------------------
CheckpointOf(number, id, valset) ==
    [number |-> number, set_id |-> id, validator_set |-> valset]

(* Where a run without a checkpoint begins (also a mutant of ResumePoint:  *)
(* the checkpoint is not looked up).                                       *)
GenesisPoint == CheckpointOf(1, SetIdAt(0), Authorities[1])

StoredPoint == IF checkpoint # NoCheckpoint THEN checkpoint ELSE GenesisPoint

(* A run resumes at the block of the checkpoint, the first block of the    *)
(* checkpoint's set.                                                       *)
ResumePoint == StoredPoint

(* From the entry of sync to the loop: the checkpoint, or genesis; then    *)
(* the hash of the block before.                                           *)
Begin ==
    /\ status = "init"
    /\ curr_block_num' = ResumePoint.number
    /\ set_id' = ResumePoint.set_id
    /\ validator_set' = ResumePoint.validator_set
    /\ curr_block_num' - 1 <= node.best
    /\ prev_hash' = BlockHash(curr_block_num' - 1)
    /\ status' = "loop"
    /\ UNCHANGED <<nodeVars, last_block_num, dbVars>>

(* Mutant: the walk stays at a block without a change.                     *)
NoAdvance(n) == n

(* Mutant: every other block is left out.                                  *)
SkipOne(n) == IF n + 2 <= last_block_num + 1 THEN n + 2 ELSE n + 1

(* curr_block_num += 1                                                     *)
NextBlock(n) == n + 1

NextPrevHash(old, hash) == hash

(* One round of the loop up to the look at the authority changes: the      *)
(* header is stored before its parent is compared.                         *)
FetchHeader ==
    /\ status = "loop"
    /\ curr_block_num # last_block_num + 1
    /\ curr_block_num <= node.best
    /\ LET hash == BlockHash(curr_block_num)
       IN  /\ block_header' = [block_header EXCEPT ![curr_block_num] = hash]
           /\ IF Parent(hash, node.final) # prev_hash
              THEN /\ status' = "parent_panic"
                   /\ UNCHANGED <<curr_block_num, prev_hash>>
              ELSE /\ prev_hash' = NextPrevHash(prev_hash, hash)
                   /\ IF NewAuthorities(curr_block_num) = {}
                      THEN /\ curr_block_num' = NextBlock(curr_block_num)
                           /\ UNCHANGED status
                      ELSE status' = "proof" /\ UNCHANGED curr_block_num
    /\ UNCHANGED <<nodeVars, last_block_num, set_id, validator_set, checkpoint,
                   is_finality_synced>>

(* Mutant: the new authorities keep the old set id.                        *)
SameSetId(id) == id

(* set_id += 1                                                             *)
NextSetId(id) == id + 1

(* request_finality_proof of a change the node has finalized: the          *)
(* justification is the one of the last block of the set, the change.      *)
CheckProof ==
    /\ status = "proof"
    /\ curr_block_num <= node.final
    /\ LET check == CheckFinality([set_id |-> set_id, validator_set |-> validator_set],
                                  Justification[curr_block_num])
       IN  IF check.ok
           THEN /\ curr_block_num' = NextBlock(curr_block_num)
                /\ validator_set' = NewAuthorities(curr_block_num)
                /\ set_id' = NextSetId(check.set_id)
                /\ checkpoint' = CheckpointOf(curr_block_num', set_id', validator_set')
                /\ status' = "loop"
           ELSE /\ status' = "check_failed"
                /\ UNCHANGED <<curr_block_num, validator_set, set_id, checkpoint>>
    /\ UNCHANGED <<nodeVars, last_block_num, prev_hash, block_header, is_finality_synced>>

Finish ==
    /\ status = "loop"
    /\ curr_block_num = last_block_num + 1
    /\ is_finality_synced' = TRUE
    /\ status' = "synced"
    /\ UNCHANGED <<nodeVars, locals, block_header, checkpoint>>

(* A call fails on every node, or asks for what the node does not have:    *)
(* run triggers the shutdown.                                              *)
RpcFails ==
    /\ status \in {"init", "loop", "proof"}
    /\ status' = "rpc_failed"
    /\ UNCHANGED <<nodeVars, locals, dbVars>>

(* The process stops or crashes at any point and starts again; with the    *)
(* sync disabled, main sets the flag.                                      *)
Restart ==
    /\ restarts < MaxRestarts
    /\ restarts' = restarts + 1
    /\ node' \in Nodes
    /\ last_block_num' = node'.final
    /\ curr_block_num' = 1 /\ set_id' = 0 /\ validator_set' = {} /\ prev_hash' = NoBlock
    /\ \/ status' = "init" /\ UNCHANGED is_finality_synced
       \/ status' = "disabled" /\ is_finality_synced' = TRUE
    /\ UNCHANGED <<network, block_header, checkpoint>>

Stopped == status \notin {"init", "loop", "proof"} /\ UNCHANGED vars

Next ==
    \/ NetworkFinalizes \/ SwitchNode
    \/ Begin \/ FetchHeader \/ CheckProof \/ Finish
    \/ RpcFails \/ Restart
    \/ Stopped

(* The runtime keeps polling the task of the sync.                         *)
Fairness == WF_vars(Begin) /\ WF_vars(FetchHeader) /\ WF_vars(CheckProof)
            /\ WF_vars(Finish)

Spec == Init /\ [][Next]_vars
FairSpec == Spec /\ Fairness

-----------------------------------------------------------------------------
Statuses == {"init", "loop", "proof", "synced", "disabled",
             "rpc_failed", "check_failed", "parent_panic"}

(* A checkpoint always names the block a later run can resume at: the set  *)
(* id and the authorities are those that finalize it, whenever the process *)
(* was stopped and however the set ids signatures matched.                 *)
CheckpointTrue ==
    checkpoint # NoCheckpoint =>
        /\ checkpoint.set_id = SetIdFor(checkpoint.number)
        /\ checkpoint.validator_set = Authorities[checkpoint.set_id + 1]

(* When the sync reports that finality is synced, every header up to the   *)
(* first one of this run is stored and is the finalized one, and every     *)
(* change of authorities among them lies below the checkpoint: all were    *)
(* proved, in this run or an earlier one.                                  *)
SyncedMeansVerified ==
    status = "synced" =>
        /\ \A n \in 1 .. last_block_num : block_header[n] = Main(n)
        /\ \A c \in Changes : c <= last_block_num =>
               checkpoint # NoCheckpoint /\ c < checkpoint.number

(* The walk never runs past the block it stops at (its exit test is an     *)
(* equality).                                                              *)
StaysInRange == status \in {"loop", "proof"} => curr_block_num <= last_block_num + 1

(* Every run of the sync comes to an end.                                  *)
SyncEnds == status = "init" ~> status \in {"synced", "rpc_failed", "disabled"}
=============================================================================
