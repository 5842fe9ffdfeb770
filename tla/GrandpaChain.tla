---------------------------- MODULE GrandpaChain ----------------------------
(***************************************************************************)
(* The finalized chain the light client follows (external: the node and    *)
(* its runtime). The finalized chain has one block per number, so a block, *)
(* its hash and its header are all the block's number. Blocks in Changes   *)
(* carry a GRANDPA authority change in their digest: the block itself is   *)
(* still finalized by the old set, the next one by the new set.            *)
(***************************************************************************)
EXTENDS Finality

CONSTANTS
    MaxBlock,     \* bound: the last block the node finalizes
    Changes,      \* the blocks that announce a new authority set
    Authorities   \* Authorities[s + 1]: the validators of GRANDPA set s

ASSUME ChainAssumption ==
    /\ MaxBlock \in Nat
    /\ Changes \subseteq 1 .. MaxBlock
    /\ Authorities \in Seq(SUBSET Nat)
    /\ Len(Authorities) = Cardinality(Changes) + 1
    /\ \A i \in DOMAIN Authorities : Authorities[i] # {}
                                     /\ IsFiniteSet(Authorities[i])

Blocks == 0 .. MaxBlock

(* The set id in the state of block n, read by fetch_set_id_at.            *)
SetIdAt(n) == Cardinality({c \in Changes : c <= n})

(* The set id whose authorities finalize block n.                          *)
SetIdFor(n) == Cardinality({c \in Changes : c < n})

Valset(set_id) == [set_id |-> set_id, validator_set |-> Authorities[set_id + 1]]

(* filter_auth_set_changes of the header of block n: the announced         *)
(* authorities, or nothing.                                                *)
NewAuthorities(n) == IF n \in Changes THEN Authorities[SetIdAt(n) + 1] ELSE {}

(* The signers of a set in the order of their keys.                        *)
InOrder(signers) ==
    CHOOSE f \in [1 .. Cardinality(signers) -> signers] :
        \A i, j \in DOMAIN f : i < j => f[i] < f[j]

(* A justification of block n: precommits of the whole set that finalizes  *)
(* it, all for n itself.                                                   *)
Justification ==
    [n \in Blocks |->
        LET order == InOrder(Authorities[SetIdFor(n) + 1])
        IN  [target |-> n, ancestries |-> << >>,
             precommits |-> [i \in DOMAIN order |->
                 [id |-> order[i], target |-> n, signed |-> SetIdFor(n)]]]]
=============================================================================
