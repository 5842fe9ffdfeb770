------------------------------ MODULE Finality ------------------------------
(***************************************************************************)
(* The GRANDPA justification check of core/src/finality.rs.                *)
(*                                                                         *)
(* A validator set is a record [set_id, validator_set]: the vector the     *)
(* code sorts and dedups is a set here. Validators are numbers, because    *)
(* the code orders precommits by signer. A precommit is a record           *)
(* [id, target, signed]: its signature is abstracted to the one set id it  *)
(* was produced for, so it verifies against a candidate id exactly when    *)
(* the two are equal, and a signature that is simply wrong carries an id   *)
(* no candidate reaches. The votes_ancestries headers are the function     *)
(* from a block to its parent that the code collects them into.            *)
(***************************************************************************)
EXTENDS Naturals, FiniteSets, Sequences

SaturatingSub(a, b) == IF a >= b THEN a - b ELSE 0

(* Mutant: no fallback to earlier set ids.                                 *)
OnlyExpectedSetId(set_id) == {set_id}

(* candidate_set_ids: the expected set id, then one and two before it.     *)
CandidateSetIds(set_id) == {SaturatingSub(set_id, k) : k \in 0 .. 2}

IsSignedBySupermajority(num_signatures, validator_set_size) ==
    num_signatures >= ((validator_set_size * 2) \div 3) + 1

(* confirm_ancestry: follow the parents of child for at most as many hops  *)
(* as there are ancestry entries, giving up at a block that has none.      *)
ConfirmAncestry(child, root, parent) ==
    LET hop[n \in 0 .. Cardinality(DOMAIN parent)] ==
            IF n = 0 THEN child
            ELSE IF hop[n - 1] \in DOMAIN parent
                 THEN parent[hop[n - 1]] ELSE hop[n - 1]
    IN  \/ child = root
        \/ \E n \in 1 .. Cardinality(DOMAIN parent) :
              /\ hop[n - 1] \in DOMAIN parent
              /\ hop[n] = root

(* Mutant: the dedup is forgotten.                                         *)
AllPrecommits(precommits) == DOMAIN precommits

(* sort_by_key then dedup_by: a stable sort, so that the first precommit   *)
(* of every signer is the one kept.                                        *)
UniqueSigners(precommits) ==
    {i \in DOMAIN precommits :
        \A j \in 1 .. (i - 1) : precommits[j].id # precommits[i].id}

VerifiedPrecommits(valset, just) ==
    {i \in UniqueSigners(just.precommits) :
        just.precommits[i].signed \in CandidateSetIds(valset.set_id)}

(* The precommits whose signers match the validator set.                   *)
MatchedPrecommits(valset, just) ==
    {i \in VerifiedPrecommits(valset, just) :
        /\ ConfirmAncestry(just.precommits[i].target, just.target, just.ancestries)
        /\ just.precommits[i].id \in valset.validator_set}

(* validator_set_id is overwritten by every signature that verifies, in    *)
(* signer order, whatever becomes of its ancestry: the last one stays.     *)
UsedSetId(valset, just) ==
    LET verified == VerifiedPrecommits(valset, just)
    IN  IF verified = {} THEN valset.set_id
        ELSE just.precommits[CHOOSE i \in verified :
                \A j \in verified :
                    just.precommits[j].id <= just.precommits[i].id].signed

(* check_finality: Ok(set id) or Err.                                      *)
CheckFinality(valset, just) ==
    [ok |-> IsSignedBySupermajority(Cardinality(MatchedPrecommits(valset, just)),
                                    Cardinality(valset.validator_set)),
     set_id |-> UsedSetId(valset, just)]
=============================================================================
