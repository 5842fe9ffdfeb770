-------------------------- MODULE SyncFinality_proofs --------------------------
(***************************************************************************)
(* What a finished finality sync is worth, proved for every chain, every   *)
(* number of restarts and every point at which a run is stopped, as long   *)
(* as the nodes asked do not lag behind the finality of the network.       *)
(***************************************************************************)
EXTENDS SyncFinality, Finality_proofs

(* The types the argument needs.                                           *)
Typed ==
    /\ network \in Blocks
    /\ node \in Nodes
    /\ status \in Statuses
    /\ last_block_num \in Nat /\ last_block_num <= network
    /\ curr_block_num \in Nat
    /\ block_header \in [Blocks -> Hashes \cup {NoBlock}]
    /\ checkpoint.number \in Nat

(* The stored headers below n are the finalized ones.                      *)
StoredBelow(n) == \A m \in Blocks : 1 <= m /\ m < n => block_header[m] = Main(m)

(* What a checkpoint stands for, and that the run that resumes at it does  *)
(* not begin beyond its last block.                                        *)
CheckpointCovers ==
    checkpoint # NoCheckpoint =>
        /\ 1 <= checkpoint.number /\ checkpoint.number <= network + 1
        /\ StoredBelow(checkpoint.number)
        /\ status = "init" => checkpoint.number <= last_block_num + 1

(* What the walk has established when it stands at curr_block_num.         *)
WalkCovers ==
    status \in {"loop", "proof"} =>
        /\ 1 <= curr_block_num /\ curr_block_num <= last_block_num + 1
        /\ StoredBelow(curr_block_num)
        /\ \A c \in Changes : c < curr_block_num =>
               checkpoint # NoCheckpoint /\ c < checkpoint.number

AtChange ==
    status = "proof" =>
        /\ curr_block_num <= last_block_num
        /\ block_header[curr_block_num] = Main(curr_block_num)

IInv == Typed /\ CheckpointCovers /\ WalkCovers /\ AtChange /\ SyncedMeansVerified

LEMMA ChainFacts ==
    /\ MaxBlock \in Nat /\ Blocks \subseteq Nat /\ Changes \subseteq Blocks
    /\ \A c \in Changes : 1 <= c
    /\ \A n \in Nat : n <= MaxBlock => n \in Blocks
BY ChainAssumption DEF Blocks

LEMMA InitIInv == Init => IInv
BY ChainFacts DEF Init, IInv, Typed, CheckpointCovers, WalkCovers, AtChange,
    SyncedMeansVerified, Nodes, Statuses, Hashes, NoCheckpoint

LEMMA NextIInv == MaxLag = 0 /\ IInv /\ [Next]_vars => IInv'
<1> SUFFICES ASSUME MaxLag = 0, IInv, [Next]_vars PROVE IInv'
    OBVIOUS
<1> USE DEF IInv
<1>1. node.final = network /\ network \in Nat /\ node.final \in Nat
    <2>1. network \in Nat /\ node.final \in Nat /\ node.final <= network
          /\ network <= node.final + MaxLag
        BY ChainFacts DEF Typed, Nodes
    <2> QED
        BY <2>1
(* Up to the first header of the run, the node shows the finalized chain.  *)
<1>2. \A n \in Nat : n <= last_block_num => BlockHash(n) = Main(n)
    BY <1>1 DEF BlockHash, Typed
<1>3. CASE NetworkFinalizes
    <2>1. network + 1 \in Blocks /\ node' \in Nodes'
        BY <1>1, <1>3, ChainFacts DEF NetworkFinalizes, Nodes, Typed, Blocks
    <2> QED
        BY <1>1, <1>3, <2>1 DEF NetworkFinalizes, Typed, CheckpointCovers, WalkCovers,
            AtChange, SyncedMeansVerified, StoredBelow, locals, dbVars
<1>4. CASE SwitchNode
    BY <1>4 DEF SwitchNode, Typed, CheckpointCovers, WalkCovers, AtChange,
        SyncedMeansVerified, StoredBelow, Nodes, locals, dbVars
<1>5. CASE Begin
    <2>1. Typed' /\ CheckpointCovers' /\ AtChange' /\ SyncedMeansVerified'
        BY <1>5 DEF Begin, Typed, CheckpointCovers, StoredBelow, AtChange,
            SyncedMeansVerified, ResumePoint, StoredPoint, GenesisPoint, CheckpointOf, Statuses, Nodes, nodeVars, dbVars
    <2>2. CASE checkpoint = NoCheckpoint
        <3>1. curr_block_num' = 1 /\ UNCHANGED <<last_block_num, checkpoint, block_header>>
            BY <1>5, <2>2 DEF Begin, dbVars, ResumePoint, StoredPoint, GenesisPoint,
                CheckpointOf
        <3>2. last_block_num \in Nat
            BY DEF Typed
        <3>3. 1 <= curr_block_num' /\ curr_block_num' <= last_block_num' + 1
            BY <3>1, <3>2
        <3>4. StoredBelow(curr_block_num)'
            BY <3>1, ChainFacts DEF StoredBelow
        <3>5. \A c \in Changes : ~(c < curr_block_num')
            BY <3>1, ChainFacts
        <3> QED
            BY <2>1, <3>3, <3>4, <3>5 DEF WalkCovers
    <2>3. CASE checkpoint # NoCheckpoint
        BY <1>5, <2>1, <2>3 DEF Begin, WalkCovers, StoredBelow, Typed, CheckpointCovers,
            ResumePoint, StoredPoint, GenesisPoint, CheckpointOf, dbVars
    <2> QED
        BY <2>1, <2>2, <2>3
<1>6. CASE FetchHeader
    <2>1. curr_block_num \in Blocks /\ curr_block_num <= last_block_num
          /\ 1 <= curr_block_num
        BY <1>1, <1>6, ChainFacts DEF FetchHeader, WalkCovers, Typed, Blocks
    <2>2. block_header' = [block_header EXCEPT ![curr_block_num] = Main(curr_block_num)]
        BY <1>2, <1>6, <2>1 DEF FetchHeader, Typed
    <2>3. /\ \A m \in Blocks : 1 <= m /\ m < curr_block_num + 1 => block_header'[m] = Main(m)
          /\ block_header'[curr_block_num] = Main(curr_block_num)
          /\ block_header' \in [Blocks -> Hashes \cup {NoBlock}]
        BY <1>6, <2>1, <2>2, ChainFacts DEF FetchHeader, StoredBelow, Typed, WalkCovers, Hashes
    <2>4. checkpoint # NoCheckpoint => StoredBelow(checkpoint.number)'
        BY <1>6, <2>2, <2>1 DEF StoredBelow, CheckpointCovers, Typed, FetchHeader
    <2>5. CheckpointCovers' /\ SyncedMeansVerified'
        BY <1>6, <2>4 DEF FetchHeader, CheckpointCovers, StoredBelow, SyncedMeansVerified,
            nodeVars
    <2>6. CASE status' = "parent_panic"
        BY <1>6, <2>3, <2>5, <2>6 DEF FetchHeader, Typed, WalkCovers, AtChange, Statuses,
            nodeVars, Nodes
    <2>7. CASE status' = "loop" /\ NewAuthorities(curr_block_num) = {}
               /\ curr_block_num' = NextBlock(curr_block_num)
        <3>1. curr_block_num \notin Changes
            BY <2>1, <2>7, ChainFacts, Announced
        <3>2. Typed'
            BY <1>6, <2>3, <2>7 DEF FetchHeader, Typed, Statuses, NextBlock, nodeVars, Nodes
        <3>3. WalkCovers'
            BY <1>6, <2>1, <2>3, <2>7, <3>1, ChainFacts DEF FetchHeader, WalkCovers,
                StoredBelow, NextBlock, Typed
        <3> QED
            BY <2>5, <2>7, <3>2, <3>3 DEF AtChange
    <2>8. CASE status' = "proof" /\ UNCHANGED curr_block_num
        <3>1. Typed'
            BY <1>6, <2>3, <2>8 DEF FetchHeader, Typed, Statuses, nodeVars, Nodes
        <3>2. WalkCovers' /\ AtChange'
            BY <1>6, <2>1, <2>3, <2>8 DEF FetchHeader, WalkCovers, StoredBelow, Typed, AtChange
        <3> QED
            BY <2>5, <3>1, <3>2
    <2> QED
        BY <1>6, <2>6, <2>7, <2>8 DEF FetchHeader
<1>7. CASE CheckProof
    <2>1. CASE status' = "check_failed"
        BY <1>7, <2>1 DEF CheckProof, Typed, CheckpointCovers, WalkCovers, AtChange,
            SyncedMeansVerified, StoredBelow, Statuses, Nodes, nodeVars
    <2>2. CASE status' = "loop"
        <3>1. /\ curr_block_num' = curr_block_num + 1
              /\ checkpoint' = CheckpointOf(curr_block_num + 1, set_id', validator_set')
              /\ UNCHANGED <<network, node, last_block_num, block_header>>
            BY <1>7, <2>2 DEF CheckProof, NextBlock, nodeVars
        <3>3. checkpoint'.number = curr_block_num + 1 /\ checkpoint' # NoCheckpoint
            BY <3>1 DEF CheckpointOf, NoCheckpoint, Typed
        <3>4. \A m \in Blocks : 1 <= m /\ m < curr_block_num + 1 => block_header'[m] = Main(m)
            BY <1>7, <3>1, ChainFacts DEF CheckProof, WalkCovers, AtChange, StoredBelow, Typed
        <3> QED
            BY <1>7, <2>2, <3>1, <3>3, <3>4, ChainFacts DEF CheckProof, Typed,
                CheckpointCovers, WalkCovers, AtChange, SyncedMeansVerified, Statuses, Nodes,
                StoredBelow
    <2> QED
        BY <1>7, <2>1, <2>2 DEF CheckProof
<1>8. CASE Finish
    <2>1. \A n \in 1 .. last_block_num : n \in Blocks /\ n < curr_block_num
        BY <1>8, ChainFacts DEF Finish, Typed, Blocks
    <2>2. SyncedMeansVerified'
        BY <1>8, <2>1, ChainFacts DEF Finish, SyncedMeansVerified, WalkCovers, StoredBelow,
            locals, Typed
    <2> QED
        BY <1>8, <2>2 DEF Finish, Typed, CheckpointCovers, WalkCovers, AtChange,
            StoredBelow, Statuses, Nodes, locals, nodeVars
<1>9. CASE RpcFails
    BY <1>9 DEF RpcFails, Typed, CheckpointCovers, WalkCovers, AtChange,
        SyncedMeansVerified, StoredBelow, Statuses, Nodes, locals, nodeVars, dbVars
<1>10. CASE Restart
    <2>1. node'.final = network /\ last_block_num' = network /\ node' \in Nodes'
        BY <1>1, <1>10, ChainFacts DEF Restart, Nodes, Typed
    <2> QED
        BY <1>1, <1>10, <2>1 DEF Restart, Typed, CheckpointCovers, WalkCovers, AtChange,
            SyncedMeansVerified, StoredBelow, Statuses
<1>11. CASE Stopped \/ UNCHANGED vars
    BY <1>11 DEF Stopped, Typed, CheckpointCovers, WalkCovers, AtChange,
        SyncedMeansVerified, StoredBelow, Statuses, Nodes, vars, locals, nodeVars, dbVars
<1> QED
    BY <1>3, <1>4, <1>5, <1>6, <1>7, <1>8, <1>9, <1>10, <1>11 DEF Next

(* With nodes that do not lag, a run that reports finality as synced has   *)
(* stored the finalized header of every block up to its first one, and     *)
(* every change of authorities among them has been proved and lies below   *)
(* the checkpoint, however often and wherever earlier runs were stopped.   *)
THEOREM SyncedRunIsVerified ==
    ASSUME MaxLag = 0
    PROVE  Spec => []SyncedMeansVerified
<1>1. IInv => SyncedMeansVerified
    BY DEF IInv
<1>2. IInv /\ [Next]_vars => IInv'
    BY NextIInv
<1> QED
    BY InitIInv, <1>1, <1>2, PTL DEF Spec

(* Nor does the walk ever pass the block its exit test waits for.          *)
THEOREM WalkStaysInRange ==
    ASSUME MaxLag = 0
    PROVE  Spec => []StaysInRange
<1>1. IInv => StaysInRange
    BY DEF IInv, WalkCovers, StaysInRange
<1>2. IInv /\ [Next]_vars => IInv'
    BY NextIInv
<1> QED
    BY InitIInv, <1>1, <1>2, PTL DEF Spec

-----------------------------------------------------------------------------
(* The authorities the walk carries along.                                 *)

(* What the run and the checkpoint hold the next proof against; the walk   *)
(* asks for a proof only at a change of authorities.                       *)
RunTyped ==
    /\ curr_block_num \in Nat
    /\ network \in Blocks /\ node.final \in Blocks /\ node.final <= network

StoredTrue ==
    checkpoint # NoCheckpoint =>
        /\ checkpoint.number \in Nat
        /\ checkpoint.set_id = SetIdFor(checkpoint.number)
        /\ checkpoint.validator_set = Authorities[checkpoint.set_id + 1]

WalkTrue ==
    status \in {"loop", "proof"} =>
        /\ set_id = SetIdFor(curr_block_num)
        /\ validator_set = Authorities[set_id + 1]
        /\ status = "proof" => curr_block_num \in Changes

NeverRefused == status # "check_failed"

AuthInv == RunTyped /\ StoredTrue /\ WalkTrue /\ NeverRefused

(* Block 1 is finalized by the authorities of genesis.                     *)
LEMMA GenesisAuthorities == SetIdAt(0) = 0 /\ SetIdFor(1) = 0
<1>1. {c \in Changes : c <= 0} = {}
    <2>1. \A c \in Changes : c \in Nat /\ 1 <= c
        BY ChainFacts
    <2>2. \A c \in Changes : ~(c <= 0)
        BY <2>1
    <2> QED
        BY <2>2
<1>2. SetIdAt(0) = 0
    BY <1>1, FS_EmptySet DEF SetIdAt
<1>3. SetIdFor(0 + 1) = SetIdAt(0)
    BY SetIds
<1> QED
    BY <1>2, <1>3

(* A first run has no checkpoint and no walk.                              *)
LEMMA InitAuthInv == Init => AuthInv
BY ChainFacts DEF Init, AuthInv, RunTyped, StoredTrue, WalkTrue, NeverRefused, Nodes

(* Every step keeps the authorities those of the block walked to.          *)
LEMMA NextAuthInv == AuthInv /\ [Next]_vars => AuthInv'
<1> SUFFICES ASSUME AuthInv, [Next]_vars PROVE AuthInv'
    OBVIOUS
<1> USE DEF AuthInv
<1>1. CASE NetworkFinalizes
    <2>1. /\ network < MaxBlock /\ network' = network + 1
          /\ node'.final = node.final + 1
          /\ UNCHANGED <<status, checkpoint, curr_block_num, set_id, validator_set>>
        BY <1>1 DEF NetworkFinalizes, locals, dbVars
    <2>2. RunTyped'
        BY <2>1, ChainFacts DEF RunTyped, Blocks
    <2> QED
        BY <2>1, <2>2 DEF StoredTrue, WalkTrue, NeverRefused
<1>2. CASE SwitchNode \/ RpcFails
    <2>1. node' \in Nodes \/ UNCHANGED node
        BY <1>2 DEF SwitchNode, RpcFails, nodeVars
    <2>2. RunTyped'
        BY <1>2, <2>1 DEF SwitchNode, RpcFails, RunTyped, Nodes, nodeVars, locals
    <2>3. StoredTrue' /\ WalkTrue' /\ NeverRefused'
        BY <1>2 DEF SwitchNode, RpcFails, StoredTrue, WalkTrue, NeverRefused, locals, dbVars
    <2> QED
        BY <2>2, <2>3
<1>3. CASE Begin
    <2>1. UNCHANGED <<network, node, checkpoint>> /\ status' = "loop"
        BY <1>3 DEF Begin, nodeVars, dbVars
    <2>2. /\ curr_block_num' \in Nat /\ set_id' = SetIdFor(curr_block_num')
          /\ validator_set' = Authorities[set_id' + 1]
        <3>1. CASE checkpoint = NoCheckpoint
            BY <1>3, <3>1, GenesisAuthorities
               DEF Begin, ResumePoint, StoredPoint, GenesisPoint, CheckpointOf
        <3>2. CASE checkpoint # NoCheckpoint
            BY <1>3, <3>2 DEF Begin, ResumePoint, StoredPoint, StoredTrue
        <3> QED
            BY <3>1, <3>2
    <2> QED
        BY <2>1, <2>2 DEF RunTyped, StoredTrue, WalkTrue, NeverRefused
<1>4. CASE FetchHeader
    <2>1. /\ UNCHANGED <<network, node, checkpoint, set_id, validator_set>> /\ status = "loop"
          /\ \/ status' = "parent_panic" /\ UNCHANGED curr_block_num
             \/ /\ NewAuthorities(curr_block_num) = {} /\ status' = "loop"
                /\ curr_block_num' = curr_block_num + 1
             \/ /\ NewAuthorities(curr_block_num) # {} /\ status' = "proof"
                /\ UNCHANGED curr_block_num
        BY <1>4 DEF FetchHeader, NextBlock, nodeVars
    <2>2. curr_block_num \in Nat /\ curr_block_num + 1 \in Nat
        BY DEF RunTyped
    <2>3. curr_block_num \notin Changes =>
              SetIdFor(curr_block_num + 1) = SetIdFor(curr_block_num)
        BY <2>2, SetIds
    <2>4. NewAuthorities(curr_block_num) = {} <=> curr_block_num \notin Changes
        BY <2>2, Announced
    <2> QED
        BY <2>1, <2>2, <2>3, <2>4 DEF RunTyped, StoredTrue, WalkTrue, NeverRefused
<1>5. CASE CheckProof
    <2>1. /\ curr_block_num \in Blocks /\ curr_block_num \in Nat
          /\ curr_block_num \in Changes
        BY <1>5, ChainFacts DEF CheckProof, RunTyped, WalkTrue, Blocks
    <2> DEFINE valset == [set_id |-> set_id, validator_set |-> validator_set]
    <2>2. SetIdFor(curr_block_num) \in Nat /\ set_id = SetIdFor(curr_block_num)
          /\ validator_set = Authorities[set_id + 1]
        BY <1>5, <2>1, SetIds DEF CheckProof, WalkTrue
    <2>3. valset.set_id \in Nat /\ Finalizes(valset, curr_block_num)
        BY <2>2 DEF Finalizes
    <2> HIDE DEF valset
    <2>4. CheckFinality(valset, Justification[curr_block_num])
            = [ok |-> TRUE, set_id |-> SetIdFor(curr_block_num)]
        BY <2>1, <2>3, TrueJustificationPasses
    <2>5. /\ curr_block_num' = curr_block_num + 1
          /\ validator_set' = NewAuthorities(curr_block_num)
          /\ set_id' = SetIdFor(curr_block_num) + 1
          /\ checkpoint' = CheckpointOf(curr_block_num', set_id', validator_set')
          /\ status' = "loop" /\ UNCHANGED <<network, node>>
        BY <1>5, <2>4 DEF CheckProof, NextBlock, NextSetId, nodeVars, valset
    <2>6. /\ SetIdFor(curr_block_num + 1) = SetIdFor(curr_block_num) + 1
          /\ NewAuthorities(curr_block_num) = Authorities[SetIdFor(curr_block_num) + 1 + 1]
        BY <2>1, SetIds, Announced
    <2>7. /\ curr_block_num' \in Nat /\ set_id' = SetIdFor(curr_block_num')
          /\ validator_set' = Authorities[set_id' + 1]
        BY <2>1, <2>5, <2>6
    <2> QED
        BY <2>5, <2>7 DEF RunTyped, StoredTrue, WalkTrue, NeverRefused, CheckpointOf
<1>6. CASE Finish \/ Stopped \/ UNCHANGED vars
    BY <1>6 DEF Finish, Stopped, RunTyped, StoredTrue, WalkTrue, NeverRefused,
                nodeVars, locals, dbVars, vars
<1>7. CASE Restart
    BY <1>7 DEF Restart, RunTyped, StoredTrue, WalkTrue, NeverRefused, Nodes
<1> QED
    BY <1>1, <1>2, <1>3, <1>4, <1>5, <1>6, <1>7 DEF Next

(* For every chain, however far the nodes lag behind and wherever runs are *)
(* stopped, the stored checkpoint holds the set id and the authorities     *)
(* that finalize the block a later run resumes at.                         *)
THEOREM CheckpointIsTrue == Spec => []CheckpointTrue
<1>1. AuthInv => CheckpointTrue
    BY DEF AuthInv, StoredTrue, CheckpointTrue
<1> QED
    BY InitAuthInv, NextAuthInv, <1>1, PTL DEF Spec

(* So the finality proof of a change of authorities is never refused: no   *)
(* run is shut down by its own check.                                      *)
THEOREM ProofsAreAccepted == Spec => [](status # "check_failed")
<1>1. AuthInv => status # "check_failed"
    BY DEF AuthInv, NeverRefused
<1> QED
    BY InitAuthInv, NextAuthInv, <1>1, PTL DEF Spec
=============================================================================
