----------------------------- MODULE FinalityCheck ---------------------------
(***************************************************************************)
(* check_finality against a definition of what it is meant to decide, over *)
(* every small justification: one state machine step evaluates the check.  *)
(***************************************************************************)
EXTENDS Finality

CONSTANTS
    Sizes,          \* sizes of the validator set, 1 .. n for n in Sizes
    SetIds,         \* the set ids the client may expect
    SignedIds,      \* the set ids signatures may be for (others: forgeries)
    Signers,        \* who may precommit: validators and an outsider
    MaxPrecommits,  \* bound: precommits in a justification
    AncestryBlocks  \* blocks that may occur in votes_ancestries, 1 included

FinalityAssumption ==
    /\ Sizes \subseteq Nat /\ SetIds \subseteq Nat /\ SignedIds \subseteq Nat
    /\ MaxPrecommits \in Nat
    /\ IsFiniteSet(AncestryBlocks) /\ 1 \in AncestryBlocks

VARIABLES valset, just, result
vars == <<valset, just, result>>

Pending == [ok |-> FALSE, set_id |-> 99]

Justifications(parentMaps, precommits) ==
    [target : {1}, ancestries : parentMaps, precommits : precommits]

(* Many votes, all for the target itself.                                  *)
Votes ==
    Justifications({<< >>},
        UNION {[1 .. n -> [id : Signers, target : {1}, signed : SignedIds]] :
                  n \in 0 .. MaxPrecommits})

(* One vote of a single validator, for any block of any map of parents.    *)
Descents ==
    Justifications(UNION {[S -> AncestryBlocks] : S \in SUBSET AncestryBlocks},
                   [{1} -> [id : {1}, target : AncestryBlocks, signed : {0}]])

Init ==
    /\ \/ /\ valset \in [set_id : SetIds, validator_set : {1 .. n : n \in Sizes}]
          /\ just \in Votes
       \/ valset = [set_id |-> 0, validator_set |-> {1}] /\ just \in Descents
    /\ result = Pending

Check ==
    /\ result = Pending
    /\ result' = CheckFinality(valset, just)
    /\ UNCHANGED <<valset, just>>

Done == result # Pending /\ UNCHANGED vars

Next == Check \/ Done
Spec == Init /\ [][Next]_vars

-----------------------------------------------------------------------------
(* Descent along the ancestry headers, as a closure instead of a walk.     *)
Ancestors(child, parent) ==
    LET R    == {<<b, parent[b]>> : b \in DOMAIN parent}
        S    == DOMAIN parent \cup {child}
    IN  {root \in AncestryBlocks :
            \E n \in 1 .. Cardinality(S) : \E path \in [0 .. n -> AncestryBlocks] :
                /\ path[0] = child /\ path[n] = root
                /\ \A k \in 1 .. n : <<path[k - 1], path[k]>> \in R}

Supports(p) ==
    /\ p.id \in valset.validator_set
    /\ p.signed <= valset.set_id /\ valset.set_id <= p.signed + 2
    /\ p.target = just.target \/ just.target \in Ancestors(p.target, just.ancestries)

FirstOf(v) == LET own == {i \in DOMAIN just.precommits : just.precommits[i].id = v}
              IN  CHOOSE i \in own : \A j \in own : i <= j

Signed(v) == \E i \in DOMAIN just.precommits : just.precommits[i].id = v

(* A justification is accepted exactly when more than two thirds of the    *)
(* distinct validators support the target by their first precommit:        *)
(* doubled precommits, outsiders, wrong signatures, unrelated branches and *)
(* cyclic ancestries count for nothing.                                    *)
AcceptedIffSupermajority ==
    result # Pending =>
        (result.ok <=> 3 * Cardinality({v \in valset.validator_set :
                               Signed(v) /\ Supports(just.precommits[FirstOf(v)])})
                       > 2 * Cardinality(valset.validator_set))
=============================================================================
