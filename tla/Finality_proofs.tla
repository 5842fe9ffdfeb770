--------------------------- MODULE Finality_proofs ---------------------------
(***************************************************************************)
(* What the finality check of Finality makes of the justifications of      *)
(* GrandpaChain, for every chain and every sequence of validator sets:     *)
(* the lemmas the proofs about SubscriptionLoop and SyncFinality rest on.  *)
(***************************************************************************)
EXTENDS GrandpaChain, FiniteSetTheorems, WellFoundedInduction, TLAPS

(* A justification passes the integer test of is_signed_by_supermajority   *)
(* exactly when it has more than two thirds of the validators.             *)
THEOREM SupermajorityIsTwoThirds ==
    ASSUME NEW n \in Nat, NEW size \in Nat
    PROVE  IsSignedBySupermajority(n, size) <=> 3 * n > 2 * size
BY DEF IsSignedBySupermajority

-----------------------------------------------------------------------------
(* A set of numbers that is not empty has a least one: what induction over *)
(* the numbers is done with here.                                          *)
LEMMA LeastNat ==
    ASSUME NEW T \in SUBSET Nat, T # {}
    PROVE  \E x \in T : \A y \in T : x <= y
<1> DEFINE R == OpToRel(<, Nat)
<1>1. IsWellFoundedOn(R, Nat)
    BY NatLessThanWellFounded
<1>2. PICK x \in T : \A y \in T : ~ (<<y, x>> \in R)
    <2> HIDE DEF R
    <2> QED
        BY <1>1, WFMin
<1>3. \A y \in T : ~(y < x)
    BY <1>2 DEF OpToRel
<1> QED
    BY <1>3

Increasing(f) == \A i, j \in DOMAIN f : i < j => f[i] < f[j]

(* A finite set of numbers can be listed in increasing order.              *)
LEMMA IncreasingEnumeration ==
    ASSUME NEW S \in SUBSET Nat, IsFiniteSet(S)
    PROVE  \E f \in [1 .. Cardinality(S) -> S] : Increasing(f)
<1> DEFINE Listed(U) == \E f \in [1 .. Cardinality(U) -> U] : Increasing(f)
           Sizes == {n \in Nat : \E U \in SUBSET Nat :
                        IsFiniteSet(U) /\ Cardinality(U) = n /\ ~Listed(U)}
<1> SUFFICES ASSUME Sizes # {} PROVE FALSE
    BY FS_CardinalityType
<1>1. PICK n \in Sizes : \A m \in Sizes : n <= m
    <2> Sizes \in SUBSET Nat
        OBVIOUS
    <2> HIDE DEF Sizes
    <2> QED
        BY LeastNat
<1>2. PICK U \in SUBSET Nat : IsFiniteSet(U) /\ Cardinality(U) = n /\ ~Listed(U)
    OBVIOUS
<1>3. CASE U = {}
    <2>1. Cardinality(U) = 0 /\ 1 .. 0 = {}
        BY <1>3, FS_EmptySet
    <2>2. [i \in 1 .. 0 |-> 0] \in [1 .. Cardinality(U) -> U]
        BY <2>1
    <2>3. Increasing([i \in 1 .. 0 |-> 0])
        BY <2>1 DEF Increasing
    <2> QED
        BY <1>2, <2>2, <2>3
<1>4. CASE U # {}
    <2>1. PICK x \in U : \A y \in U : x <= y
        BY <1>4, LeastNat
    <2> DEFINE V == U \ {x}
    <2>2. IsFiniteSet(V) /\ Cardinality(V) = n - 1 /\ n \in Nat /\ V \in SUBSET Nat
        BY <1>2, <2>1, FS_RemoveElement
    <2>3. n - 1 \in Nat
        BY <2>2, FS_CardinalityType
    <2>4. n - 1 \notin Sizes
        BY <1>1, <2>3
    <2>5. PICK g \in [1 .. (n - 1) -> V] : Increasing(g)
        BY <2>2, <2>3, <2>4
    <2> DEFINE f == [i \in 1 .. n |-> IF i = 1 THEN x ELSE g[i - 1]]
    <2>6. \A i \in 1 .. n : i # 1 => i - 1 \in 1 .. (n - 1) /\ g[i - 1] \in V
        BY <2>2
    <2>7. f \in [1 .. n -> U]
        BY <2>6
    <2>8. ASSUME NEW i \in 1 .. n, NEW j \in 1 .. n, i < j PROVE f[i] < f[j]
        <3>1. j # 1 /\ f[j] = g[j - 1] /\ g[j - 1] \in V
            BY <2>6, <2>8
        <3>2. CASE i = 1
            <4>1. f[i] = x /\ x \in Nat
                BY <3>2
            <4>2. x <= g[j - 1] /\ x # g[j - 1] /\ g[j - 1] \in Nat
                BY <2>1, <3>1
            <4> QED
                BY <3>1, <4>1, <4>2
        <3>3. CASE i # 1
            <4>1. f[i] = g[i - 1] /\ i - 1 \in DOMAIN g /\ j - 1 \in DOMAIN g /\ i - 1 < j - 1
                BY <2>5, <2>6, <2>8, <3>1, <3>3
            <4> QED
                BY <2>5, <3>1, <4>1 DEF Increasing
        <3> QED
            BY <3>2, <3>3
    <2>9. Increasing(f)
        BY <2>8 DEF Increasing
    <2> QED
        BY <1>2, <2>7, <2>9
<1> QED
    BY <1>3, <1>4

-----------------------------------------------------------------------------
(* The authorities of every set id the chain reaches are known and are a   *)
(* finite set of numbers that is not empty.                                *)
LEMMA SetIds ==
    ASSUME NEW n \in Nat
    PROVE  /\ SetIdFor(n) \in Nat /\ SetIdAt(n) \in Nat
           /\ SetIdFor(n) + 1 \in DOMAIN Authorities
           /\ SetIdAt(n) + 1 \in DOMAIN Authorities
           /\ SetIdFor(n + 1) = SetIdAt(n)
           /\ SetIdAt(n) = IF n \in Changes THEN SetIdFor(n) + 1 ELSE SetIdFor(n)
<1> DEFINE before == {c \in Changes : c < n}
           upto == {c \in Changes : c <= n}
<1>1. IsFiniteSet(Changes) /\ Changes \subseteq Nat /\ Cardinality(Changes) \in Nat
    <2>1. Changes \subseteq 1 .. MaxBlock /\ MaxBlock \in Nat
        BY ChainAssumption
    <2>2. IsFiniteSet(1 .. MaxBlock)
        <3>1. 1 \in Int /\ MaxBlock \in Int
            BY <2>1
        <3> QED
            BY <3>1, FS_Interval
    <2>3. IsFiniteSet(Changes)
        BY <2>2, <2>1, FS_Subset, Zenon
    <2>4. Changes \subseteq Nat
        BY <2>1
    <2> QED
        BY <2>3, <2>4, FS_CardinalityType
<1>2. IsFiniteSet(before) /\ Cardinality(before) <= Cardinality(Changes) /\ Cardinality(before) \in Nat
    BY <1>1, FS_Subset, FS_CardinalityType
<1>3. IsFiniteSet(upto) /\ Cardinality(upto) <= Cardinality(Changes) /\ Cardinality(upto) \in Nat
    BY <1>1, FS_Subset, FS_CardinalityType
<1>0. \A c \in Changes :
          (c < n + 1 <=> c <= n) /\ (c <= n <=> c < n \/ c = n) /\ ~(n < n)
    <2> SUFFICES ASSUME NEW c \in Changes
                 PROVE  (c < n + 1 <=> c <= n) /\ (c <= n <=> c < n \/ c = n) /\ ~(n < n)
        OBVIOUS
    <2>1. c \in Nat
        BY <1>1
    <2> QED
        BY <2>1
<1>4. {c \in Changes : c < n + 1} = upto
    BY <1>0, Zenon
<1>5. n \notin Changes => upto = before
    BY <1>0, Zenon
<1>6. n \in Changes => upto = before \cup {n} /\ n \notin before
    BY <1>0, Zenon
<1>7. Cardinality(before \cup {n}) = IF n \in before THEN Cardinality(before) ELSE Cardinality(before) + 1
    BY <1>2, FS_AddElement
<1>8. DOMAIN Authorities = 1 .. (Cardinality(Changes) + 1)
    BY ChainAssumption
<1>9. /\ SetIdFor(n) = Cardinality(before) /\ SetIdAt(n) = Cardinality(upto)
      /\ SetIdFor(n + 1) = SetIdAt(n)
    BY <1>4 DEF SetIdFor, SetIdAt
<1>10. Cardinality(upto) = IF n \in Changes THEN Cardinality(before) + 1 ELSE Cardinality(before)
    BY <1>5, <1>6, <1>7
<1> HIDE DEF before, upto
<1> QED
    BY <1>1, <1>2, <1>3, <1>8, <1>9, <1>10

LEMMA AuthoritiesOfSet ==
    ASSUME NEW k \in DOMAIN Authorities
    PROVE  /\ Authorities[k] \in SUBSET Nat /\ Authorities[k] # {}
           /\ IsFiniteSet(Authorities[k])
BY ChainAssumption

(* Blocks with the same changes below them have the same authorities.      *)
LEMMA SteadySetId ==
    ASSUME NEW m \in Nat, NEW n \in Nat, m <= n,
           \A c \in Changes : ~(m <= c /\ c < n)
    PROVE  SetIdFor(m) = SetIdFor(n)
<1>1. \A c \in Changes : c \in Nat
    BY ChainAssumption
<1>2. {c \in Changes : c < m} = {c \in Changes : c < n}
    BY <1>1
<1> QED
    BY <1>2 DEF SetIdFor

(* A block announces authorities exactly when it is a change, and then     *)
(* those of the set after it.                                              *)
LEMMA Announced ==
    ASSUME NEW n \in Nat
    PROVE  /\ n \in Changes => NewAuthorities(n) = Authorities[SetIdAt(n) + 1]
                               /\ NewAuthorities(n) # {}
           /\ n \notin Changes => NewAuthorities(n) = {}
BY SetIds, AuthoritiesOfSet DEF NewAuthorities

-----------------------------------------------------------------------------
(* The validators that finalize block n, under a set id from which the     *)
(* candidates reach the one the votes were signed for.                     *)
Finalizes(valset, n) ==
    /\ valset.validator_set = Authorities[SetIdFor(n) + 1]
    /\ SetIdFor(n) <= valset.set_id /\ valset.set_id <= SetIdFor(n) + 2

LEMMA CandidatesReach ==
    ASSUME NEW id \in Nat, NEW set_id \in Nat
    PROVE  id \in CandidateSetIds(set_id) <=> (id <= set_id /\ set_id <= id + 2)
<1>1. CandidateSetIds(set_id) = {SaturatingSub(set_id, k) : k \in {0, 1, 2}}
    <2>1. 0 .. 2 = {0, 1, 2}
        OBVIOUS
    <2> QED
        BY <2>1 DEF CandidateSetIds
<1>2. CandidateSetIds(set_id) =
          {SaturatingSub(set_id, 0), SaturatingSub(set_id, 1), SaturatingSub(set_id, 2)}
    BY <1>1
<1>3. SaturatingSub(set_id, 0) = set_id
      /\ SaturatingSub(set_id, 1) = (IF set_id >= 1 THEN set_id - 1 ELSE 0)
      /\ SaturatingSub(set_id, 2) = (IF set_id >= 2 THEN set_id - 2 ELSE 0)
    BY DEF SaturatingSub
<1> QED
    BY <1>2, <1>3

(* The precommits of a justification: one of every authority in the order  *)
(* of the keys, for the block itself.                                      *)
LEMMA JustificationFacts ==
    ASSUME NEW n \in Blocks
    PROVE  LET just  == Justification[n]
               size  == Cardinality(Authorities[SetIdFor(n) + 1])
           IN  /\ size \in Nat \ {0}
               /\ just.target = n /\ just.ancestries = << >>
               /\ DOMAIN just.precommits = 1 .. size
               /\ \A i \in 1 .. size :
                     /\ just.precommits[i].id \in Authorities[SetIdFor(n) + 1]
                     /\ just.precommits[i].target = n
                     /\ just.precommits[i].signed = SetIdFor(n)
               /\ \A i, j \in 1 .. size :
                     i < j => just.precommits[i].id < just.precommits[j].id
<1> DEFINE signers == Authorities[SetIdFor(n) + 1]
           size == Cardinality(signers)
           order == InOrder(signers)
<1>1. n \in Nat
    BY ChainAssumption DEF Blocks
<1>2. signers \in SUBSET Nat /\ signers # {} /\ IsFiniteSet(signers)
    BY <1>1, SetIds, AuthoritiesOfSet
<1>3. size \in Nat \ {0}
    BY <1>2, FS_CardinalityType, FS_EmptySet
<1>4. order \in [1 .. size -> signers] /\ \A i, j \in DOMAIN order : i < j => order[i] < order[j]
    <2>1. \E f \in [1 .. size -> signers] : \A i, j \in DOMAIN f : i < j => f[i] < f[j]
        BY <1>2, IncreasingEnumeration DEF Increasing
    <2> HIDE DEF signers
    <2> QED
        BY <2>1 DEF InOrder
<1>5. Justification[n] =
          [target |-> n, ancestries |-> << >>,
           precommits |-> [i \in DOMAIN order |->
               [id |-> order[i], target |-> n, signed |-> SetIdFor(n)]]]
    BY DEF Justification
<1> HIDE DEF order, signers
<1>6. DOMAIN order = 1 .. size
    BY <1>4
<1>7. DOMAIN Justification[n].precommits = 1 .. size
    BY <1>5, <1>6
<1>8. \A i \in 1 .. size : Justification[n].precommits[i] =
          [id |-> order[i], target |-> n, signed |-> SetIdFor(n)]
    BY <1>5, <1>6
<1>9. \A i \in 1 .. size : order[i] \in signers
    BY <1>4
<1>10. Justification[n].target = n /\ Justification[n].ancestries = << >>
    BY <1>5
<1>11. ASSUME NEW i \in 1 .. size
       PROVE  /\ Justification[n].precommits[i].id = order[i]
              /\ Justification[n].precommits[i].target = n
              /\ Justification[n].precommits[i].signed = SetIdFor(n)
    <2>1. Justification[n].precommits[i] = [id |-> order[i], target |-> n, signed |-> SetIdFor(n)]
        BY <1>8
    <2> QED
        BY <2>1
<1> QED
    BY <1>3, <1>4, <1>6, <1>7, <1>9, <1>10, <1>11 DEF signers

(* The check of a justification against the authorities that finalize its  *)
(* block succeeds and yields the set id it was signed for.                 *)
THEOREM TrueJustificationPasses ==
    ASSUME NEW n \in Blocks, NEW valset, valset.set_id \in Nat, Finalizes(valset, n)
    PROVE  CheckFinality(valset, Justification[n]) = [ok |-> TRUE, set_id |-> SetIdFor(n)]
<1> DEFINE just == Justification[n]
           size == Cardinality(Authorities[SetIdFor(n) + 1])
<1>0. n \in Nat /\ SetIdFor(n) \in Nat
    <2>1. n \in Nat
        BY ChainAssumption DEF Blocks
    <2> QED
        BY <2>1, SetIds
<1>1. /\ size \in Nat \ {0}
      /\ just.target = n
      /\ DOMAIN just.precommits = 1 .. size
      /\ \A i \in 1 .. size :
            /\ just.precommits[i].id \in Authorities[SetIdFor(n) + 1]
            /\ just.precommits[i].target = n
            /\ just.precommits[i].signed = SetIdFor(n)
      /\ \A i, j \in 1 .. size : i < j => just.precommits[i].id < just.precommits[j].id
    BY JustificationFacts
<1>2. \A i \in 1 .. size : just.precommits[i].id \in Nat
    BY <1>0, <1>1, SetIds, AuthoritiesOfSet
<1> HIDE DEF just, size
<1>3. UniqueSigners(just.precommits) = 1 .. size
    <2>1. ASSUME NEW i \in 1 .. size, NEW j \in 1 .. (i - 1)
          PROVE  just.precommits[j].id # just.precommits[i].id
        <3>1. j \in 1 .. size /\ j < i
            BY <1>1
        <3> QED
            BY <1>1, <1>2, <3>1
    <2> QED
        BY <1>1, <2>1 DEF UniqueSigners
<1>4. SetIdFor(n) \in CandidateSetIds(valset.set_id)
    BY <1>0, CandidatesReach DEF Finalizes
<1>5. VerifiedPrecommits(valset, just) = 1 .. size
    BY <1>1, <1>3, <1>4 DEF VerifiedPrecommits
<1>6. \A i \in 1 .. size : ConfirmAncestry(just.precommits[i].target, just.target, just.ancestries)
    BY <1>1 DEF ConfirmAncestry
<1>7. MatchedPrecommits(valset, just) = 1 .. size
    BY <1>1, <1>5, <1>6 DEF MatchedPrecommits, Finalizes
<1>8. IsSignedBySupermajority(Cardinality(MatchedPrecommits(valset, just)),
                              Cardinality(valset.validator_set))
    <2>1. Cardinality(1 .. size) = size
        BY <1>1, FS_Interval
    <2>2. Cardinality(valset.validator_set) = size
        BY DEF Finalizes, size
    <2>3. IsSignedBySupermajority(size, size)
        BY <1>1, SupermajorityIsTwoThirds
    <2> QED
        BY <1>7, <2>1, <2>2, <2>3
<1>9. UsedSetId(valset, just) = SetIdFor(n)
    <2>1. 1 .. size # {}
        BY <1>1
    <2>2. size \in 1 .. size
          /\ \A j \in 1 .. size : just.precommits[j].id <= just.precommits[size].id
        BY <1>1, <1>2
    <2> QED
        BY <1>1, <1>5, <2>1, <2>2 DEF UsedSetId
<1> QED
    BY <1>8, <1>9 DEF CheckFinality, just
=============================================================================
