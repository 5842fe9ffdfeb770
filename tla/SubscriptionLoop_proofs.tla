----------------------- MODULE SubscriptionLoop_proofs -----------------------
(***************************************************************************)
(* Machine-checked facts about SubscriptionLoop, for every chain and every *)
(* value of the bounds: the output has no gap; and with a node whose head  *)
(* never moves back, every header is matched with the authorities that     *)
(* really finalize it, so that the finality check never fails.             *)
(***************************************************************************)
EXTENDS SubscriptionLoop, Finality_proofs

-----------------------------------------------------------------------------
(* The output.                                                             *)

(* What the output depends on: the justifications are numbers of blocks.   *)
JustsOK ==
    /\ nodeHead \in Nat
    /\ justs \in Seq(Nat)
    /\ justifications \in Seq(Nat)

CountersOK == last_finalized \in Nat /\ emitted \subseteq Nat

(* The output reaches up to last_finalized without a gap: this is what     *)
(* makes the range the loop fills in below a justified block sufficient.   *)
CoveredUpToFinalized == (Start + 1) .. last_finalized \subseteq emitted

IInv == JustsOK /\ CountersOK /\ CoveredUpToFinalized /\ NoGapInOutput

(* Blocks, the start and the changes are numbers.                          *)
LEMMA BlockFacts ==
    /\ MaxBlock \in Nat /\ Blocks \subseteq Nat /\ Changes \subseteq Blocks
    /\ Start \in Blocks
    /\ \A n \in Nat : n <= MaxBlock => n \in Blocks
BY ChainAssumption, LoopAssumption DEF Blocks

(* Nothing has been put out at the start.                                  *)
LEMMA InitIInv == Init => IInv
<1> SUFFICES ASSUME Init PROVE IInv
    OBVIOUS
<1>1. JustsOK /\ CountersOK
    BY BlockFacts DEF Init, JustsOK, CountersOK
<1>2. CoveredUpToFinalized
    BY BlockFacts DEF Init, CoveredUpToFinalized
<1>3. NoGapInOutput
    BY DEF Init, NoGapInOutput
<1> QED
    BY <1>1, <1>2, <1>3 DEF IInv

(* Taking the top off a stack of numbers.                                  *)
LEMMA PopOfNats ==
    ASSUME NEW s \in Seq(Nat), s # << >>
    PROVE  Front(s) \in Seq(Nat) /\ Last(s) \in Nat
BY DEF Front, Last

(* Output that continues upwards from last_finalized leaves no gap.        *)
LEMMA ContiguousOutput ==
    ASSUME CountersOK, CoveredUpToFinalized, NoGapInOutput, NEW top \in Nat,
           emitted' = emitted \cup (last_finalized + 1) .. top
    PROVE  emitted' \subseteq Nat /\ NoGapInOutput'
           /\ (Start + 1) .. top \subseteq emitted'
<1>1. emitted' \subseteq Nat
    BY DEF CountersOK
<1>2. \A n \in Nat : n <= top => (Start + 1) .. n \subseteq emitted'
    BY BlockFacts DEF CountersOK, CoveredUpToFinalized
<1>3. ASSUME NEW n \in emitted' PROVE (Start + 1) .. n \subseteq emitted'
    <2>1. CASE n \in emitted
        BY <2>1 DEF NoGapInOutput
    <2>2. CASE n \in (last_finalized + 1) .. top
        BY <1>2, <2>2 DEF CountersOK
    <2> QED
        BY <1>3, <2>1, <2>2
<1> QED
    BY <1>1, <1>2, <1>3 DEF NoGapInOutput

(* Every step keeps the output without a gap.                              *)
LEMMA NextIInv == IInv /\ [Next]_vars => IInv'
<1> SUFFICES ASSUME IInv, [Next]_vars PROVE IInv'
    OBVIOUS
<1> USE DEF IInv
<1>0. ASSUME UNCHANGED <<last_finalized, emitted>>, JustsOK' PROVE IInv'
    BY <1>0 DEF CountersOK, CoveredUpToFinalized, NoGapInOutput
<1>1. CASE NodeFinalizes
    <2>1. nodeHead + 1 \in Nat /\ Append(justs, nodeHead + 1) \in Seq(Nat)
        BY DEF JustsOK
    <2>2. JustsOK'
        BY <1>1, <2>1 DEF NodeFinalizes, JustsOK, blockData
    <2> QED
        BY <1>0, <1>1, <2>2 DEF NodeFinalizes, blockData
<1>2. CASE ReceiveHeader
    BY <1>0, <1>2 DEF ReceiveHeader, JustsOK
<1>3. CASE ReceiveJustification
    <2>1. Tail(justs) \in Seq(Nat) /\ Append(justifications, Head(justs)) \in Seq(Nat)
        BY <1>3 DEF ReceiveJustification, JustsOK
    <2> QED
        BY <1>0, <1>3, <2>1 DEF ReceiveJustification, JustsOK
<1>4. CASE NothingToVerify
    BY <1>0, <1>4 DEF NothingToVerify, StackAfterMiss, JustsOK, streamVars
<1>5. ASSUME TopMatches, PopTop PROVE JustsOK' /\ Top \in Nat
    BY <1>5, PopOfNats DEF TopMatches, PopTop, Top, JustsOK, streamVars
<1>6. CASE VerifyBlock /\ ~TopCheck.ok
    BY <1>0, <1>5, <1>6 DEF VerifyBlock, FinalityPanic
<1>7. CASE VerifyBlock /\ TopCheck.ok
    <2>1. Top \in Nat /\ JustsOK'
        BY <1>5, <1>7 DEF VerifyBlock
    <2>2. last_finalized' = Top /\ emitted' = emitted \cup Skipped(Top) \cup {Top}
        BY <1>7 DEF VerifyBlock, OutputTop
    <2>3. CASE Top > last_finalized
        <3>1. Skipped(Top) \cup {Top} = (last_finalized + 1) .. Top
            BY <2>1, <2>3 DEF Skipped, CountersOK
        <3>2. emitted' = emitted \cup (last_finalized + 1) .. Top
            BY <2>2, <3>1
        <3> QED
            BY <2>1, <2>2, <3>2, ContiguousOutput DEF CountersOK, CoveredUpToFinalized
    <2>4. CASE Top <= last_finalized
        (* Possible after a reconnection to a node that lags behind: the   *)
        (* block is already covered, or lies below the trusted start.      *)
        <3>1. Skipped(Top) = {}
            BY <2>1, <2>4 DEF Skipped, CountersOK
        <3>2. (Start + 1) .. Top \subseteq emitted
            BY <2>1, <2>4, BlockFacts DEF CountersOK, CoveredUpToFinalized
        <3>3. emitted' = emitted \cup {Top}
            BY <2>2, <3>1
        <3> QED
            BY <2>1, <2>2, <3>2, <3>3 DEF CountersOK, CoveredUpToFinalized, NoGapInOutput
    <2> QED
        BY <2>1, <2>3, <2>4 DEF CountersOK
<1>8. CASE SkippedFetchPanic
    <2>1. Top \in Nat /\ JustsOK'
        BY <1>5, <1>8 DEF SkippedFetchPanic
    <2>2. PICK missing \in Skipped(Top) :
              emitted' = emitted \cup (last_finalized + 1) .. (missing - 1)
        BY <1>8 DEF SkippedFetchPanic
    <2>3. missing - 1 \in Nat /\ last_finalized' = last_finalized
          /\ last_finalized <= missing - 1
        BY <1>8, <2>1, <2>2 DEF SkippedFetchPanic, Skipped, CountersOK
    <2>4. emitted' \subseteq Nat /\ NoGapInOutput'
          /\ (Start + 1) .. (missing - 1) \subseteq emitted'
        BY <2>2, <2>3, ContiguousOutput
    <2> QED
        BY <2>1, <2>3, <2>4, BlockFacts DEF CountersOK, CoveredUpToFinalized
<1>9. CASE Reconnect
    <2>1. nodeHead' \in Nat
        BY <1>9, BlockFacts DEF Reconnect
    <2> QED
        BY <1>0, <1>9, <2>1 DEF Reconnect, blockData, JustsOK
<1>10. CASE StreamFails
    BY <1>0, <1>10 DEF StreamFails, streamVars, blockData, JustsOK
<1>11. CASE Terminated \/ UNCHANGED vars
    BY <1>0, <1>11 DEF Terminated, vars, streamVars, blockData, JustsOK
<1> QED
    BY <1>1, <1>2, <1>3, <1>4, <1>6, <1>7, <1>8, <1>9, <1>10, <1>11 DEF Next

(* Whatever the order of headers and justifications, however often the     *)
(* stream is created again and however far the new node is behind or       *)
(* ahead, the blocks SubscriptionLoop puts out above its trusted start     *)
(* have no gap, for every chain and every bound.                           *)
THEOREM OutputHasNoGap == Spec => []NoGapInOutput
<1>1. IInv => NoGapInOutput
    BY DEF IInv
<1> QED
    BY InitIInv, NextIInv, <1>1, PTL DEF Spec

-----------------------------------------------------------------------------
(* The operators on queues, stacks and the unverified headers.             *)

(* An item that joins the end of a queue.                                  *)
LEMMA AppendFacts ==
    ASSUME NEW S, NEW s \in Seq(S), NEW x \in S
    PROVE  /\ Append(s, x) \in Seq(S)
           /\ Len(Append(s, x)) = Len(s) + 1
           /\ Range(Append(s, x)) = Range(s) \cup {x}
           /\ \A i \in 1 .. Len(s) : Append(s, x)[i] = s[i]
           /\ Append(s, x)[Len(s) + 1] = x
<1>1. /\ Append(s, x) \in Seq(S) /\ Len(Append(s, x)) = Len(s) + 1
      /\ \A i \in 1 .. Len(s) : Append(s, x)[i] = s[i]
      /\ Append(s, x)[Len(s) + 1] = x
    OBVIOUS
<1>2. DOMAIN s = 1 .. Len(s) /\ DOMAIN Append(s, x) = 1 .. (Len(s) + 1) /\ Len(s) \in Nat
    OBVIOUS
<1>3. 1 .. (Len(s) + 1) = (1 .. Len(s)) \cup {Len(s) + 1}
    BY <1>2
<1>4. Range(Append(s, x)) = {Append(s, x)[i] : i \in (1 .. Len(s)) \cup {Len(s) + 1}}
    BY <1>2, <1>3 DEF Range
<1>5. Range(s) = {s[i] : i \in 1 .. Len(s)}
    BY <1>2 DEF Range
<1> QED
    BY <1>1, <1>4, <1>5

(* Taking the first item off a queue.                                      *)
LEMMA TailFacts ==
    ASSUME NEW S, NEW s \in Seq(S), s # << >>
    PROVE  /\ Tail(s) \in Seq(S) /\ Head(s) \in S /\ Head(s) = s[1]
           /\ Len(s) \in Nat \ {0} /\ Len(Tail(s)) = Len(s) - 1
           /\ \A i \in 1 .. (Len(s) - 1) : Tail(s)[i] = s[i + 1]
           /\ Range(s) = Range(Tail(s)) \cup {Head(s)}
<1>1. /\ Tail(s) \in Seq(S) /\ Head(s) \in S /\ Head(s) = s[1]
      /\ Len(s) \in Nat \ {0} /\ Len(Tail(s)) = Len(s) - 1
      /\ \A i \in 1 .. (Len(s) - 1) : Tail(s)[i] = s[i + 1]
    OBVIOUS
<1>2. DOMAIN s = 1 .. Len(s) /\ DOMAIN Tail(s) = 1 .. (Len(s) - 1)
    BY <1>1
<1>3. ASSUME NEW y \in Range(s) PROVE y \in Range(Tail(s)) \cup {Head(s)}
    <2>1. PICK i \in 1 .. Len(s) : y = s[i]
        BY <1>2 DEF Range
    <2>2. CASE i = 1
        BY <1>1, <2>1, <2>2
    <2>3. CASE i # 1
        <3>1. i - 1 \in 1 .. (Len(s) - 1) /\ (i - 1) + 1 = i
            BY <1>1, <2>1, <2>3
        <3>2. Tail(s)[i - 1] = s[i]
            BY <1>1, <3>1
        <3> QED
            BY <1>2, <2>1, <3>1, <3>2 DEF Range
    <2> QED
        BY <2>2, <2>3
<1>4. ASSUME NEW y \in Range(Tail(s)) PROVE y \in Range(s)
    <2>1. PICK i \in 1 .. (Len(s) - 1) : y = Tail(s)[i]
        BY <1>2 DEF Range
    <2>2. i + 1 \in 1 .. Len(s) /\ y = s[i + 1]
        BY <1>1, <2>1
    <2> QED
        BY <1>2, <2>2 DEF Range
<1>5. Head(s) \in Range(s)
    BY <1>1, <1>2 DEF Range
<1> QED
    BY <1>1, <1>3, <1>4, <1>5

(* Taking the top off a stack.                                             *)
LEMMA FrontFacts ==
    ASSUME NEW S, NEW s \in Seq(S), s # << >>
    PROVE  /\ Front(s) \in Seq(S) /\ Last(s) \in S /\ Last(s) = s[Len(s)]
           /\ Len(s) \in Nat \ {0} /\ Len(Front(s)) = Len(s) - 1
           /\ \A i \in 1 .. (Len(s) - 1) : Front(s)[i] = s[i]
           /\ Range(s) = Range(Front(s)) \cup {Last(s)}
<1>0. Len(s) \in Nat \ {0} /\ Len(s) \in 1 .. Len(s) /\ Len(s) - 1 \in Nat
      /\ \A i \in 1 .. Len(s) : s[i] \in S
    OBVIOUS
<1>6. Front(s) = [i \in 1 .. (Len(s) - 1) |-> s[i]]
    BY <1>0 DEF Front
<1>1. /\ Front(s) \in Seq(S) /\ Last(s) \in S /\ Last(s) = s[Len(s)]
      /\ Len(s) \in Nat \ {0} /\ Len(Front(s)) = Len(s) - 1
      /\ \A i \in 1 .. (Len(s) - 1) : Front(s)[i] = s[i]
    BY <1>0, <1>6 DEF Last
<1>2. DOMAIN s = 1 .. Len(s) /\ DOMAIN Front(s) = 1 .. (Len(s) - 1)
    BY <1>1
<1>3. 1 .. Len(s) = (1 .. (Len(s) - 1)) \cup {Len(s)}
    BY <1>1
<1>4. Range(s) = {s[i] : i \in (1 .. (Len(s) - 1)) \cup {Len(s)}}
    BY <1>2, <1>3 DEF Range
<1>5. Range(Front(s)) = {Front(s)[i] : i \in 1 .. (Len(s) - 1)}
    BY <1>2 DEF Range
<1> QED
    BY <1>1, <1>4, <1>5

(* The order of a queue or a stack of numbers is kept.                     *)
LEMMA PushOrder ==
    ASSUME NEW s \in Seq(Nat), NEW x \in Nat, Increasing(s),
           \A y \in Range(s) : y < x
    PROVE  Increasing(Append(s, x))
<1>1. \A i \in 1 .. Len(s) : Append(s, x)[i] = s[i] /\ s[i] < x /\ s[i] \in Nat
    BY AppendFacts DEF Range
<1>2. Append(s, x)[Len(s) + 1] = x /\ DOMAIN Append(s, x) = 1 .. (Len(s) + 1)
      /\ Len(s) \in Nat
    BY AppendFacts
<1>3. ASSUME NEW i \in DOMAIN Append(s, x), NEW j \in DOMAIN Append(s, x), i < j
      PROVE  Append(s, x)[i] < Append(s, x)[j]
    <2>1. i \in 1 .. Len(s)
        BY <1>2, <1>3
    <2>2. CASE j = Len(s) + 1
        BY <1>1, <1>2, <2>1, <2>2
    <2>3. CASE j \in 1 .. Len(s)
        BY <1>1, <1>3, <2>1, <2>3 DEF Increasing
    <2> QED
        BY <1>2, <2>2, <2>3
<1> QED
    BY <1>3 DEF Increasing

(* The head of an ordered queue is below the rest.                         *)
LEMMA TailOrder ==
    ASSUME NEW s \in Seq(Nat), s # << >>, Increasing(s)
    PROVE  Increasing(Tail(s)) /\ \A y \in Range(Tail(s)) : Head(s) < y
<1>1. DOMAIN Tail(s) = 1 .. (Len(s) - 1) /\ DOMAIN s = 1 .. Len(s)
      /\ Head(s) = s[1] /\ Len(s) \in Nat \ {0}
      /\ \A i \in 1 .. (Len(s) - 1) : Tail(s)[i] = s[i + 1]
    BY TailFacts
<1>2. \A i \in 1 .. (Len(s) - 1) : i + 1 \in 1 .. Len(s) /\ 1 < i + 1 /\ s[1] < s[i + 1]
    BY <1>1 DEF Increasing
<1>3. \A y \in Range(Tail(s)) : Head(s) < y
    BY <1>1, <1>2 DEF Range
<1>4. \A i, j \in 1 .. (Len(s) - 1) : i < j => s[i + 1] < s[j + 1]
    BY <1>1 DEF Increasing
<1> QED
    BY <1>1, <1>3, <1>4 DEF Increasing

(* The top of an ordered stack is above the rest.                          *)
LEMMA FrontOrder ==
    ASSUME NEW s \in Seq(Nat), s # << >>, Increasing(s)
    PROVE  Increasing(Front(s)) /\ \A y \in Range(Front(s)) : y < Last(s)
<1>1. DOMAIN Front(s) = 1 .. (Len(s) - 1) /\ DOMAIN s = 1 .. Len(s)
      /\ Last(s) = s[Len(s)] /\ Len(s) \in Nat \ {0}
      /\ \A i \in 1 .. (Len(s) - 1) : Front(s)[i] = s[i]
    BY FrontFacts
<1>2. \A i \in 1 .. (Len(s) - 1) : s[i] < s[Len(s)]
    <2> SUFFICES ASSUME NEW i \in 1 .. (Len(s) - 1) PROVE s[i] < s[Len(s)]
        OBVIOUS
    <2>1. i \in DOMAIN s /\ Len(s) \in DOMAIN s /\ i < Len(s)
        BY <1>1
    <2> QED
        BY <2>1 DEF Increasing
<1>3. \A y \in Range(Front(s)) : y < Last(s)
    BY <1>1, <1>2 DEF Range
<1>4. \A i, j \in 1 .. (Len(s) - 1) : i < j => s[i] < s[j]
    <2> SUFFICES ASSUME NEW i \in 1 .. (Len(s) - 1), NEW j \in 1 .. (Len(s) - 1), i < j
                 PROVE  s[i] < s[j]
        OBVIOUS
    <2>1. i \in DOMAIN s /\ j \in DOMAIN s
        BY <1>1
    <2> QED
        BY <2>1 DEF Increasing
<1> QED
    BY <1>1, <1>3, <1>4 DEF Increasing

(* position(..) finds the first entry of a block, if there is one.         *)
LEMMA PositionFacts ==
    ASSUME NEW S, NEW hs \in Seq(S), NEW n
    PROVE  /\ Position(hs, n) = 0 => \A i \in 1 .. Len(hs) : hs[i].number # n
           /\ Position(hs, n) # 0 =>
                 /\ Position(hs, n) \in 1 .. Len(hs) /\ hs[Position(hs, n)].number = n
                 /\ \A i \in 1 .. Len(hs) : i < Position(hs, n) => hs[i].number # n
<1> DEFINE I == {i \in 1 .. Len(hs) : hs[i].number = n}
<1>1. Position(hs, n) = IF I # {} THEN Min(I) ELSE 0
    BY DEF Position, SelectInSeq
<1>2. CASE I = {}
    BY <1>1, <1>2
<1>3. CASE I # {}
    <2>1. I \in SUBSET Nat
        OBVIOUS
    <2>2. \E x \in I : \A y \in I : x <= y
        BY <1>3, <2>1, LeastNat
    <2> HIDE DEF I
    <2>3. Min(I) \in I /\ \A y \in I : Min(I) <= y
        BY <2>2 DEF Min
    <2>4. Position(hs, n) \in I /\ \A y \in I : Position(hs, n) <= y
        BY <1>1, <1>3, <2>3
    <2> QED
        BY <2>4 DEF I
<1> QED
    BY <1>2, <1>3

(* swap_remove: the last entry takes the place of the one removed.         *)
LEMMA SwapRemoveFacts ==
    ASSUME NEW S, NEW hs \in Seq(S), NEW p \in 1 .. Len(hs)
    PROVE  /\ SwapRemove(hs, p) \in Seq(S)
           /\ Len(SwapRemove(hs, p)) = Len(hs) - 1
           /\ \A i \in 1 .. (Len(hs) - 1) :
                 SwapRemove(hs, p)[i] = IF i = p THEN hs[Len(hs)] ELSE hs[i]
<1>1. /\ Front(hs) \in Seq(S) /\ Last(hs) \in S /\ Last(hs) = hs[Len(hs)]
      /\ Len(hs) \in Nat \ {0} /\ Len(Front(hs)) = Len(hs) - 1
      /\ \A i \in 1 .. (Len(hs) - 1) : Front(hs)[i] = hs[i]
    BY FrontFacts
<1>2. CASE p = Len(hs)
    BY <1>1, <1>2 DEF SwapRemove
<1>3. CASE p # Len(hs)
    <2>1. SwapRemove(hs, p) = [Front(hs) EXCEPT ![p] = Last(hs)]
        BY <1>3 DEF SwapRemove
    <2> QED
        BY <1>1, <1>3, <2>1
<1> QED
    BY <1>2, <1>3

(* What r has kept of the entries hs when those of the blocks in gone were *)
(* taken out, one of each.                                                 *)
Once(hs, n) == \A i, k \in 1 .. Len(hs) : hs[i].number = n /\ hs[k].number = n => i = k
Nowhere(hs, n) == \A i \in 1 .. Len(hs) : hs[i].number # n

Remains(S, r, hs, gone) ==
    /\ r \in Seq(S)
    /\ \A i \in 1 .. Len(r) : \E k \in 1 .. Len(hs) : r[i] = hs[k]
    /\ \A k \in 1 .. Len(hs) :
          hs[k].number \notin gone => \E i \in 1 .. Len(r) : r[i] = hs[k]
    /\ \A n \in Nat : Once(hs, n) => Once(r, n)
    /\ \A n \in gone : Once(hs, n) => Nowhere(r, n)

(* swap_remove leaves all the other entries.                               *)
LEMMA SwapRemoveRemains ==
    ASSUME NEW S, NEW hs \in Seq(S), NEW p \in 1 .. Len(hs)
    PROVE  Remains(S, SwapRemove(hs, p), hs, {hs[p].number})
<1> DEFINE r == SwapRemove(hs, p)
           old(i) == IF i = p THEN Len(hs) ELSE i
<1>1. /\ r \in Seq(S) /\ Len(r) = Len(hs) - 1 /\ Len(hs) \in Nat
      /\ \A i \in 1 .. Len(r) : old(i) \in 1 .. Len(hs) /\ old(i) # p /\ r[i] = hs[old(i)]
      /\ \A i, k \in 1 .. Len(r) : old(i) = old(k) => i = k
    <2>1. /\ r \in Seq(S) /\ Len(r) = Len(hs) - 1 /\ Len(hs) \in Nat
          /\ \A i \in 1 .. (Len(hs) - 1) : r[i] = IF i = p THEN hs[Len(hs)] ELSE hs[i]
        BY SwapRemoveFacts
    <2> HIDE DEF r
    <2>2. \A i \in 1 .. Len(r) : old(i) \in 1 .. Len(hs) /\ old(i) # p
        BY <2>1
    <2>3. \A i \in 1 .. Len(r) : r[i] = hs[old(i)]
        BY <2>1
    <2>4. \A i, k \in 1 .. Len(r) : old(i) = old(k) => i = k
        BY <2>1
    <2> QED
        BY <2>1, <2>2, <2>3, <2>4
<1>2. ASSUME NEW k \in 1 .. Len(hs), k # p PROVE \E i \in 1 .. Len(r) : old(i) = k
    <2>1. CASE k = Len(hs)
        <3>1. p \in 1 .. Len(r) /\ old(p) = k
            BY <1>1, <1>2, <2>1
        <3> QED
            BY <3>1
    <2>2. CASE k # Len(hs)
        <3>1. k \in 1 .. Len(r)
            BY <1>1, <2>2
        <3>2. old(k) = k
            BY <1>2
        <3> QED
            BY <3>1, <3>2
    <2> QED
        BY <2>1, <2>2
<1> HIDE DEF r, old
<1>3. \A k \in 1 .. Len(hs) :
          hs[k].number \notin {hs[p].number} => \E i \in 1 .. Len(r) : r[i] = hs[k]
    BY <1>1, <1>2
<1>4. ASSUME NEW n \in Nat, Once(hs, n) PROVE Once(r, n)
    <2> SUFFICES ASSUME NEW i \in 1 .. Len(r), NEW k \in 1 .. Len(r),
                        r[i].number = n, r[k].number = n
                 PROVE  i = k
        BY DEF Once
    <2>1. old(i) = old(k)
        BY <1>1, <1>4 DEF Once
    <2> QED
        BY <1>1, <2>1
<1>5. ASSUME NEW n \in {hs[p].number}, Once(hs, n) PROVE Nowhere(r, n)
    <2> SUFFICES ASSUME NEW i \in 1 .. Len(r), r[i].number = n PROVE FALSE
        BY DEF Nowhere
    <2>1. old(i) = p
        BY <1>1, <1>5 DEF Once
    <2> QED
        BY <1>1, <2>1
<1>6. \A i \in 1 .. Len(r) : \E k \in 1 .. Len(hs) : r[i] = hs[k]
    BY <1>1
<1> QED
    BY <1>1, <1>3, <1>4, <1>5, <1>6 DEF Remains, r

(* Taking the first header of a block leaves all the other entries.        *)
LEMMA WithoutRemains ==
    ASSUME NEW S, NEW hs \in Seq(S), NEW n
    PROVE  Remains(S, Without(hs, n), hs, {n})
<1>1. CASE Position(hs, n) = 0
    <2>1. Without(hs, n) = hs /\ Nowhere(hs, n)
        BY <1>1, PositionFacts DEF Without, Nowhere
    <2> QED
        BY <2>1 DEF Remains
<1>2. CASE Position(hs, n) # 0
    <2> DEFINE p == Position(hs, n)
    <2>1. p \in 1 .. Len(hs) /\ hs[p].number = n /\ Without(hs, n) = SwapRemove(hs, p)
        BY <1>2, PositionFacts DEF Without
    <2> HIDE DEF p
    <2> QED
        BY <2>1, SwapRemoveRemains
<1> QED
    BY <1>1, <1>2

(* Two removals, one after the other.                                      *)
LEMMA RemainsTwice ==
    ASSUME NEW S, NEW hs, NEW r, NEW q, NEW gone, NEW more \in SUBSET Nat,
           Remains(S, r, hs, gone), Remains(S, q, r, more)
    PROVE  Remains(S, q, hs, gone \cup more)
<1>1. \A i \in 1 .. Len(q) : \E k \in 1 .. Len(hs) : q[i] = hs[k]
    BY DEF Remains
<1>2. \A k \in 1 .. Len(hs) :
          hs[k].number \notin gone \cup more => \E i \in 1 .. Len(q) : q[i] = hs[k]
    <2> SUFFICES ASSUME NEW k \in 1 .. Len(hs), hs[k].number \notin gone \cup more
                 PROVE  \E i \in 1 .. Len(q) : q[i] = hs[k]
        OBVIOUS
    <2>1. PICK i \in 1 .. Len(r) : r[i] = hs[k]
        BY DEF Remains
    <2>2. r[i].number \notin more
        BY <2>1
    <2> QED
        BY <2>1, <2>2 DEF Remains
<1>3. \A m \in Nat : Once(hs, m) => Once(q, m)
    BY DEF Remains
<1>4. ASSUME NEW m \in gone \cup more, Once(hs, m) PROVE Nowhere(q, m)
    <2>1. CASE m \in gone
        <3>1. Nowhere(r, m)
            BY <1>4, <2>1 DEF Remains
        <3>2. \A i \in 1 .. Len(r) : r[i].number # m
            BY <3>1 DEF Nowhere
        <3>3. \A i \in 1 .. Len(q) : \E k \in 1 .. Len(r) : q[i] = r[k]
            BY DEF Remains
        <3>4. \A i \in 1 .. Len(q) : q[i].number # m
            BY <3>2, <3>3
        <3> QED
            BY <3>4 DEF Nowhere
    <2>2. CASE m \in more
        BY <1>4, <2>2 DEF Remains
    <2> QED
        BY <1>4, <2>1, <2>2
<1> QED
    BY <1>1, <1>2, <1>3, <1>4 DEF Remains

(* The loop over the skipped blocks, up to the block to.                   *)
Takes(left, hs, from, to) ==
    left = [bl \in from .. to |-> IF bl = from THEN hs ELSE Without(left[bl - 1], bl)]

(* The loop has a result, whatever the number of its iterations.           *)
LEMMA TakesExists ==
    ASSUME NEW hs, NEW from \in Nat, NEW k \in Nat
    PROVE  \E left : Takes(left, hs, from, from + k)
<1> DEFINE None == {m \in Nat : ~ \E left : Takes(left, hs, from, from + m)}
<1> SUFFICES ASSUME None # {} PROVE FALSE
    OBVIOUS
<1>1. PICK m \in None : \A i \in None : m <= i
    <2> None \in SUBSET Nat
        OBVIOUS
    <2> HIDE DEF None
    <2> QED
        BY LeastNat
<1>2. CASE m = 0
    <2>1. from .. (from + 0) = {from}
        OBVIOUS
    <2>2. Takes([bl \in from .. (from + 0) |-> hs], hs, from, from + 0)
        BY <2>1 DEF Takes
    <2> QED
        BY <1>2, <2>2
<1>3. CASE m # 0
    <2>1. m - 1 \in Nat /\ m - 1 \notin None
        <3>1. m \in Nat /\ m - 1 \in Nat /\ ~(m <= m - 1)
            BY <1>3
        <3> HIDE DEF None
        <3> QED
            BY <1>1, <3>1
    <2>2. PICK g : Takes(g, hs, from, from + (m - 1))
        BY <2>1
    <2> DEFINE f == [bl \in from .. (from + m) |->
                        IF bl = from + m THEN Without(g[bl - 1], bl) ELSE g[bl]]
    <2>3. \A bl \in from .. (from + (m - 1)) :
              g[bl] = IF bl = from THEN hs ELSE Without(g[bl - 1], bl)
        BY <2>2 DEF Takes
    <2>4. ASSUME NEW bl \in from .. (from + m)
          PROVE  f[bl] = IF bl = from THEN hs ELSE Without(f[bl - 1], bl)
        <3>1. CASE bl = from + m
            <4>1. bl # from /\ bl - 1 \in from .. (from + m) /\ bl - 1 # from + m
                BY <1>3, <3>1
            <4>2. f[bl - 1] = g[bl - 1]
                BY <4>1
            <4>3. f[bl] = Without(g[bl - 1], bl)
                BY <3>1
            <4> QED
                BY <4>1, <4>2, <4>3
        <3>2. CASE bl # from + m
            <4>1. bl \in from .. (from + (m - 1)) /\ f[bl] = g[bl]
                BY <2>4, <3>2
            <4>2. CASE bl = from
                BY <2>3, <4>1, <4>2
            <4>3. CASE bl # from
                <5>1. bl - 1 \in from .. (from + m) /\ bl - 1 # from + m
                    BY <4>1, <4>3
                <5>2. f[bl - 1] = g[bl - 1]
                    BY <5>1
                <5>3. g[bl] = Without(g[bl - 1], bl)
                    BY <2>3, <4>1, <4>3
                <5> QED
                    BY <4>1, <4>3, <5>2, <5>3
            <4> QED
                BY <4>2, <4>3
        <3> QED
            BY <3>1, <3>2
    <2>5. f = [bl \in from .. (from + m) |-> f[bl]]
        OBVIOUS
    <2>6. Takes(f, hs, from, from + m)
        <3> HIDE DEF f
        <3> QED
            BY <2>4, <2>5 DEF Takes
    <2> QED
        BY <2>6
<1> QED
    BY <1>2, <1>3

(* After the loop one header of each of its blocks is gone.                *)
LEMMA TakesRemains ==
    ASSUME NEW S, NEW hs \in Seq(S), NEW from \in Nat, NEW to \in Nat, from <= to,
           NEW left, Takes(left, hs, from, to)
    PROVE  Remains(S, left[to], hs, (from + 1) .. to)
<1> DEFINE Bad == {m \in Nat : m \in from .. to /\ ~Remains(S, left[m], hs, (from + 1) .. m)}
<1> SUFFICES ASSUME Bad # {} PROVE FALSE
    OBVIOUS
<1>1. PICK m \in Bad : \A i \in Bad : m <= i
    <2> Bad \in SUBSET Nat
        OBVIOUS
    <2> HIDE DEF Bad
    <2> QED
        BY LeastNat
<1>2. m \in from .. to /\ left[m] = IF m = from THEN hs ELSE Without(left[m - 1], m)
    BY <1>1 DEF Takes
<1>3. CASE m = from
    <2>1. (from + 1) .. m = {} /\ left[m] = hs
        BY <1>2, <1>3
    <2> QED
        BY <1>1, <2>1 DEF Remains
<1>4. CASE m # from
    <2>1. m - 1 \in from .. to /\ m - 1 \in Nat /\ m \in Nat
        BY <1>2, <1>4
    <2>2. Remains(S, left[m - 1], hs, (from + 1) .. (m - 1))
        BY <1>1, <2>1
    <2>3. Remains(S, left[m], left[m - 1], {m})
        <3>1. left[m - 1] \in Seq(S)
            BY <2>2 DEF Remains
        <3> QED
            BY <1>2, <1>4, <3>1, WithoutRemains
    <2>4. ((from + 1) .. (m - 1)) \cup {m} = (from + 1) .. m
        BY <1>2, <1>4
    <2>5. Remains(S, left[m], hs, ((from + 1) .. (m - 1)) \cup {m})
        BY <2>1, <2>2, <2>3, RemainsTwice
    <2> QED
        BY <1>1, <2>4, <2>5
<1> QED
    BY <1>3, <1>4

(* Of the unverified headers, the skipped blocks lose one each.            *)
LEMMA TakeSkippedRemains ==
    ASSUME NEW S, NEW hs \in Seq(S), NEW n \in Nat, last_finalized \in Nat
    PROVE  Remains(S, TakeSkipped(hs, n), hs, Skipped(n))
<1>1. CASE Skipped(n) = {}
    BY <1>1 DEF TakeSkipped, Remains
<1>2. CASE Skipped(n) # {}
    <2>1. last_finalized <= n - 1 /\ n - 1 \in Nat
        BY <1>2 DEF Skipped
    <2> DEFINE left == CHOOSE left : Takes(left, hs, last_finalized, n - 1)
    <2>2. \E f : Takes(f, hs, last_finalized, n - 1)
        <3>1. (n - 1) - last_finalized \in Nat
              /\ last_finalized + ((n - 1) - last_finalized) = n - 1
            BY <2>1
        <3> QED
            BY <3>1, TakesExists
    <2>3. Takes(left, hs, last_finalized, n - 1)
        <3> HIDE DEF Takes
        <3> QED
            BY <2>2
    <2>4. TakeSkipped(hs, n) = left[n - 1]
        BY <1>2 DEF TakeSkipped, Takes
    <2> HIDE DEF left
    <2> QED
        BY <2>1, <2>3, <2>4, TakesRemains DEF Skipped
<1> QED
    BY <1>1, <1>2

-----------------------------------------------------------------------------
(* The state of the loop while it runs, for a node whose finalized head    *)
(* never moves back. Entries are the headers that wait with the authorities *)
(* that were current when they came in.                                    *)
Valsets == [set_id : Nat, validator_set : SUBSET Nat]
Entries == [number : Blocks, valset : Valsets]

Numbers == {unverified_headers[i].number : i \in DOMAIN unverified_headers}

(* The justifications whose blocks can still be put out by them.           *)
Waiting == Range(justs) \cup Range(justifications)

(* The authorities an entry came in with do not finalize its block: a      *)
(* change of authorities whose header came in a second time.               *)
Wrong(i) == ~Finalizes(unverified_headers[i].valset, unverified_headers[i].number)

(* Up to two repeated changes the set id that is counted locally stays     *)
(* within what check_finality tolerates; Start counts as the first one.    *)
StartsAtChange == IF Start \in Changes THEN 1 ELSE 0
Slack == IF reconnects + StartsAtChange < 2 THEN reconnects + StartsAtChange ELSE 2

Typed ==
    /\ status \in {"running", "stopped", "rpc_panic"}
    /\ nodeHead \in Blocks /\ reconnects \in Nat /\ last_finalized \in Blocks
    /\ headers \in Seq(Blocks) /\ justs \in Seq(Blocks) /\ justifications \in Seq(Blocks)
    /\ current_valset \in Valsets
    /\ next_valset \in Valsets \cup {NoValset}
    /\ unverified_headers \in Seq(Entries)

(* The header subscription holds consecutive blocks up to the head, and no *)
(* change but the head itself.                                             *)
HeaderQueue ==
    /\ \A i \in DOMAIN headers : headers[i] = nodeHead - Len(headers) + i
    /\ \A c \in Changes : c < nodeHead => c \notin Range(headers)
    /\ \A n \in Numbers : n <= nodeHead

(* Justifications come in and are stacked in the order of their blocks.    *)
JustificationOrder ==
    /\ Increasing(justs) /\ Increasing(justifications)
    /\ \A j \in Waiting : j <= nodeHead
    /\ \A j \in Range(justifications), k \in Range(justs) : j < k
    /\ nodeHead \in Changes /\ justs # << >> => nodeHead \in Range(justs)

(* Between two items the top of the stack has no header.                   *)
IdleTop == pc = "idle" /\ justifications # << >> => Last(justifications) \notin Numbers

(* Block j waits twice.                                                    *)
Twice(j) ==
    \/ j \in Numbers /\ j \in Range(headers)
    \/ \E i, k \in DOMAIN unverified_headers :
          i # k /\ unverified_headers[i].number = j /\ unverified_headers[k].number = j

Single == \A j \in Waiting : ~Twice(j)

(* What can still be verified lies above last_finalized.                   *)
Ahead ==
    /\ last_finalized <= nodeHead /\ last_finalized \notin Waiting
    /\ \A j \in Range(justs) : last_finalized < j
    /\ \A j \in Range(justifications) :
          j \in Numbers \cup Range(headers) => last_finalized < j

(* No justification up to the change c is verified any more: what is left  *)
(* of them on the stack lies below one whose header is lost.               *)
Sealed(c) ==
    /\ \A j \in Range(justs) : c < j
    /\ c \notin Range(justifications)
    /\ \A j \in Range(justifications) : j < c =>
          \E t \in Range(justifications) :
             j <= t /\ t < c /\ t \notin Numbers \cup Range(headers)

OldSealed == \A c \in Changes : c < nodeHead => Sealed(c)

(* The header of block n waits with the authorities that finalize it.      *)
Kept(n) == \E i \in DOMAIN unverified_headers :
               unverified_headers[i].number = n /\ ~Wrong(i)

(* The head is a change whose header has come in.                          *)
HeadReceived ==
    nodeHead \in Changes /\ nodeHead \notin Range(headers) =>
        /\ last_finalized < nodeHead => Kept(nodeHead)
        /\ next_valset = NoValset => Sealed(nodeHead)

(* The set the next header is taken to be finalized by is set k, under a   *)
(* set id that is at most slack too high.                                  *)
Active(k, slack) ==
    /\ ActiveValset.validator_set = Authorities[k + 1]
    /\ k <= ActiveValset.set_id /\ ActiveValset.set_id <= k + slack

(* All changes have come in; or the change at the head is still to come;   *)
(* or it is to come a second time.                                         *)
AllReceived ==
    /\ ~(nodeHead \in Changes /\ nodeHead \in Range(headers))
    /\ Active(SetIdAt(nodeHead), Slack)
ChangeToCome ==
    /\ nodeHead \in Changes /\ nodeHead \in Range(headers)
    /\ Active(SetIdFor(nodeHead), Slack)
ChangeAgain ==
    /\ nodeHead \in Changes /\ headers = <<nodeHead>>
    /\ Active(SetIdAt(nodeHead), Slack - 1)
    /\ Sealed(nodeHead)
    /\ last_finalized < nodeHead => Kept(nodeHead)
ActiveKnown == AllReceived \/ ChangeToCome \/ ChangeAgain

(* Only a change has wrong authorities, and nothing verifies it; while it  *)
(* matters, the entries before it are of blocks up to it.                  *)
WrongSealed ==
    \A i \in DOMAIN unverified_headers : Wrong(i) =>
        /\ unverified_headers[i].number \in Changes
        /\ \A c \in Changes : c = unverified_headers[i].number =>
              /\ Sealed(c)
              /\ last_finalized < c =>
                    \A k \in DOMAIN unverified_headers :
                        k < i => unverified_headers[k].number <= c

(* A wrong entry of a block still to come stands behind a true one.        *)
FirstTrue ==
    \A i \in DOMAIN unverified_headers :
        Wrong(i) /\ last_finalized < unverified_headers[i].number =>
            \E k \in DOMAIN unverified_headers :
                /\ k < i /\ ~Wrong(k)
                /\ unverified_headers[k].number = unverified_headers[i].number

Running ==
    /\ HeaderQueue /\ JustificationOrder /\ IdleTop /\ Single /\ Ahead
    /\ OldSealed /\ HeadReceived /\ ActiveKnown /\ WrongSealed

LoopInv == Typed /\ FirstTrue /\ (status = "running" => Running)

(* A reconnection repeats the header of a change that has come in already. *)
RepeatsChange ==
    /\ Reconnect /\ nodeHead \in Changes
    /\ nodeHead \notin Range(headers) /\ headers' # << >>
FewRepeats == RepeatsChange => reconnects + StartsAtChange < 2

(* A node that finalizes no change of authorities while the loop is still  *)
(* busy with the one before, and reconnections that move neither back nor  *)
(* ahead and lose no change.                                               *)
SteadyNode == MaxLag = 0 /\ MaxGap = 0 /\ PromptChanges /\ ~LosesChanges

(* Queues of blocks are queues of numbers.                                 *)
LEMMA SeqOfNat == ASSUME NEW s \in Seq(Blocks) PROVE s \in Seq(Nat)
<1>1. Len(s) \in Nat /\ s = [i \in 1 .. Len(s) |-> s[i]] /\ \A i \in 1 .. Len(s) : s[i] \in Blocks
    OBVIOUS
<1>2. \A i \in 1 .. Len(s) : s[i] \in Nat
    BY <1>1, BlockFacts
<1> QED
    BY <1>1, <1>2

(* None is no validator set.                                               *)
LEMMA NoValsetApart == NoValset \notin Valsets
BY LoopAssumption DEF Valsets

(* The slack stays within the two ids check_finality goes back.            *)
LEMMA SlackFacts == Typed => Slack \in 0 .. 2
BY DEF Typed, Slack, StartsAtChange

(* The next header of the queue.                                           *)
LEMMA NextHeader ==
    ASSUME Typed, HeaderQueue, headers # << >>
    PROVE  LET n == Head(headers)
           IN  /\ n \in Blocks /\ n <= nodeHead
               /\ nodeHead \in Range(headers)
               /\ \A m \in Nat : n <= m /\ m <= nodeHead => m \in Range(headers)
               /\ \A m \in Range(Tail(headers)) : n < m
               /\ n = nodeHead => Tail(headers) = << >>
               /\ n \in Changes => n = nodeHead
               /\ SetIdFor(n) = SetIdFor(nodeHead)
<1> DEFINE n == Head(headers)
           len == Len(headers)
<1>1. /\ headers \in Seq(Blocks) /\ n \in Blocks /\ n = headers[1] /\ len \in Nat \ {0}
      /\ Tail(headers) \in Seq(Blocks) /\ Len(Tail(headers)) = len - 1
      /\ \A i \in 1 .. (len - 1) : Tail(headers)[i] = headers[i + 1]
    BY TailFacts DEF Typed
<1>2. nodeHead \in Nat /\ n \in Nat /\ DOMAIN headers = 1 .. len
      /\ DOMAIN Tail(headers) = 1 .. (len - 1)
    <2>1. nodeHead \in Blocks
        BY DEF Typed
    <2>2. nodeHead \in Nat /\ n \in Nat
        <3> HIDE DEF n
        <3> QED
            BY <1>1, <2>1, BlockFacts
    <2>3. DOMAIN headers = 1 .. len /\ DOMAIN Tail(headers) = 1 .. (len - 1)
        BY <1>1
    <2> QED
        BY <2>2, <2>3
<1>3. \A i \in 1 .. len : headers[i] = nodeHead - len + i
    BY <1>2 DEF HeaderQueue
<1>4. n = nodeHead - len + 1
    BY <1>1, <1>3
<1>5. ASSUME NEW m \in Nat, n <= m, m <= nodeHead PROVE m \in Range(headers)
    <2>1. m - nodeHead + len \in 1 .. len /\ headers[m - nodeHead + len] = m
        BY <1>1, <1>2, <1>3, <1>4, <1>5
    <2> QED
        BY <1>2, <2>1 DEF Range
<1>6. \A m \in Range(Tail(headers)) : n < m
    <2>1. \A i \in 1 .. (len - 1) : n < headers[i + 1]
        BY <1>1, <1>2, <1>3, <1>4
    <2> QED
        BY <1>1, <1>2, <2>1 DEF Range
<1>7. n <= nodeHead /\ nodeHead \in Range(headers) /\ n \in Range(headers)
    BY <1>1, <1>2, <1>4, <1>5
<1>8. n = nodeHead => Tail(headers) = << >>
    BY <1>1, <1>2, <1>4
<1>9. \A c \in Changes : ~(n <= c /\ c < nodeHead)
    <2> SUFFICES ASSUME NEW c \in Changes, n <= c, c < nodeHead PROVE FALSE
        OBVIOUS
    <2>1. c \in Nat
        BY BlockFacts
    <2>2. c \in Range(headers)
        BY <1>2, <1>5, <2>1
    <2> QED
        BY <2>2 DEF HeaderQueue
<1>10. SetIdFor(n) = SetIdFor(nodeHead)
    <2> HIDE DEF n
    <2> QED
        BY <1>2, <1>7, <1>9, SteadySetId
<1>11. n \in Changes => n = nodeHead
    BY <1>2, <1>7, <1>9
<1> QED
    BY <1>1, <1>5, <1>6, <1>7, <1>8, <1>10, <1>11

(* A change that is sealed stays so when nothing of blocks up to it comes  *)
(* back.                                                                   *)
LEMMA SealedStays ==
    ASSUME NEW c, Sealed(c),
           \A j \in Range(justs') : j \in Range(justs) \/ c < j,
           \A j \in Range(justifications') : j \in Range(justifications) \/ c < j,
           c \notin Range(justifications'),
           \A j \in Range(justifications') : j < c => j \in Range(justifications),
           \A t \in Range(justifications) : t < c /\ t \notin Numbers \cup Range(headers) =>
               t \in Range(justifications') /\ t \notin Numbers' \cup Range(headers')
    PROVE  Sealed(c)'
BY DEF Sealed

(* The top of the stack, when its header is there.                         *)
LEMMA TopFacts ==
    ASSUME Typed, Running, TopMatches
    PROVE  /\ Top \in Blocks /\ Top \in Range(justifications) /\ Top \in Numbers
           /\ TopPosition \in 1 .. Len(unverified_headers)
           /\ unverified_headers[TopPosition].number = Top
           /\ last_finalized < Top /\ Top <= nodeHead
           /\ Range(justifications) = Range(Front(justifications)) \cup {Top}
           /\ \A j \in Range(Front(justifications)) : j < Top
           /\ \A c \in Nat : Sealed(c) => c < Top
           /\ TopCheck = [ok |-> TRUE, set_id |-> SetIdFor(Top)]
<1>1. justifications \in Seq(Blocks) /\ justifications # << >> /\ Increasing(justifications)
      /\ justifications \in Seq(Nat)
    <2>1. justifications \in Seq(Blocks) /\ justifications # << >>
          /\ Increasing(justifications)
        BY DEF Typed, Running, JustificationOrder, TopMatches
    <2> QED
        BY <2>1, BlockFacts, SeqOfNat
<1>2. /\ Top \in Blocks /\ Top \in Range(justifications)
      /\ Range(justifications) = Range(Front(justifications)) \cup {Top}
      /\ \A j \in Range(Front(justifications)) : j < Top
    BY <1>1, FrontFacts, FrontOrder DEF Top
<1>3. TopPosition \in 1 .. Len(unverified_headers)
      /\ unverified_headers[TopPosition].number = Top
    BY PositionFacts DEF TopMatches, TopPosition, Typed
<1>4. TopPosition \in DOMAIN unverified_headers
    BY <1>3 DEF Typed
<1>5. Top \in Numbers
    BY <1>3, <1>4 DEF Numbers
<1>6. last_finalized < Top /\ Top <= nodeHead
    BY <1>2, <1>5 DEF Running, Ahead, JustificationOrder, Waiting
<1>7. ASSUME NEW c \in Nat, Sealed(c) PROVE c < Top
    <2>1. Top \in Nat /\ Top # c
        BY <1>2, <1>7, BlockFacts DEF Sealed
    <2>2. ASSUME Top < c PROVE FALSE
        <3>1. PICK t \in Range(justifications) :
                  Top <= t /\ t < c /\ t \notin Numbers \cup Range(headers)
            BY <1>2, <1>7, <2>2 DEF Sealed
        <3>2. t = Top
            BY <1>2, <2>1, <3>1, BlockFacts DEF Typed
        <3> QED
            BY <1>5, <3>1, <3>2
    <2> QED
        BY <1>7, <2>1, <2>2
<1>8. ~Wrong(TopPosition)
    <2> SUFFICES ASSUME Wrong(TopPosition) PROVE FALSE
        OBVIOUS
    <2>1. Sealed(Top)
        BY <1>3, <1>4 DEF Running, WrongSealed
    <2> QED
        BY <1>2, <2>1 DEF Sealed
<1>9. TopCheck = [ok |-> TRUE, set_id |-> SetIdFor(Top)]
    <2>1. unverified_headers[TopPosition].valset.set_id \in Nat
        <3>1. unverified_headers[TopPosition] \in Entries
            BY <1>3 DEF Typed
        <3> QED
            BY <3>1 DEF Entries, Valsets
    <2>2. Finalizes(unverified_headers[TopPosition].valset, Top)
        BY <1>3, <1>8 DEF Wrong
    <2> QED
        BY <1>2, <2>1, <2>2, TrueJustificationPasses DEF TopCheck
<1> QED
    BY <1>1, <1>2, <1>3, <1>5, <1>6, <1>7, <1>9

(* What is known of a running loop.                                        *)
LEMMA RunningFacts ==
    ASSUME Typed, Running
    PROVE  /\ nodeHead \in Nat /\ last_finalized \in Nat /\ nodeHead \in Blocks
           /\ headers \in Seq(Nat) /\ justs \in Seq(Nat) /\ justifications \in Seq(Nat)
           /\ Range(headers) \subseteq Nat /\ Range(justs) \subseteq Nat
           /\ Range(justifications) \subseteq Nat /\ Numbers \subseteq Nat
           /\ Changes \subseteq Nat
<1>1. /\ headers \in Seq(Nat) /\ justs \in Seq(Nat) /\ justifications \in Seq(Nat)
      /\ unverified_headers \in Seq(Entries)
    BY SeqOfNat DEF Typed
<1>2. nodeHead \in Nat /\ last_finalized \in Nat /\ Changes \subseteq Nat /\ nodeHead \in Blocks
    BY BlockFacts DEF Typed
<1>3. Range(headers) \subseteq Nat /\ Range(justs) \subseteq Nat
      /\ Range(justifications) \subseteq Nat
    BY <1>1 DEF Range
<1>4. \A i \in DOMAIN unverified_headers : unverified_headers[i].number \in Nat
    <2> SUFFICES ASSUME NEW i \in DOMAIN unverified_headers
                 PROVE  unverified_headers[i].number \in Nat
        OBVIOUS
    <2>1. unverified_headers[i] \in Entries
        BY <1>1
    <2> QED
        BY <2>1, BlockFacts DEF Entries
<1> QED
    BY <1>1, <1>2, <1>3, <1>4 DEF Numbers

(* When the loop is idle and the head's change of authorities has come in, *)
(* no justification that waits on the stack verifies it any more.          *)
LEMMA HeadSealed ==
    ASSUME Typed, Running, pc = "idle", nodeHead \in Changes, nodeHead \notin Range(headers)
    PROVE  /\ nodeHead \notin Range(justifications)
           /\ \A j \in Range(justifications) : j < nodeHead =>
                 \E t \in Range(justifications) :
                     j <= t /\ t < nodeHead /\ t \notin Numbers
<1>1. CASE justifications = << >>
    BY <1>1 DEF Range
<1>2. CASE justifications # << >>
    <2> DEFINE t == Last(justifications)
    <2>1. /\ Range(justifications) = Range(Front(justifications)) \cup {t}
          /\ \A y \in Range(Front(justifications)) : y < t
        BY <1>2, RunningFacts, FrontFacts, FrontOrder DEF Running, JustificationOrder
    <2>2. t \in Range(justifications) /\ t \in Nat /\ t <= nodeHead
        BY <2>1, RunningFacts DEF Running, JustificationOrder, Waiting
    <2>3. t \notin Numbers
        BY <1>2 DEF Running, IdleTop
    <2> HIDE DEF t
    <2>4. t # nodeHead
        <3> SUFFICES ASSUME t = nodeHead PROVE FALSE
            OBVIOUS
        <3>1. last_finalized <= nodeHead /\ last_finalized # nodeHead
            BY <2>2 DEF Running, Ahead, Waiting
        <3>2. Kept(nodeHead)
            BY <3>1, RunningFacts DEF Running, HeadReceived
        <3> QED
            BY <2>3, <3>2 DEF Kept, Numbers
    <2>5. t < nodeHead
        BY <2>2, <2>4, RunningFacts
    <2>6. \A y \in Range(justifications) : y <= t
        BY <2>1, <2>2, RunningFacts
    <2>7. nodeHead \notin Range(justifications)
        BY <2>2, <2>5, <2>6, RunningFacts
    <2> QED
        BY <2>2, <2>3, <2>5, <2>6, <2>7
<1> QED
    BY <1>1, <1>2

-----------------------------------------------------------------------------
(* The invariant, one lemma per action.                                    *)

(* SubscriptionLoop::new.                                                  *)
LEMMA LoopInit ==
    ASSUME Init
    PROVE  LoopInv
<1>1. /\ nodeHead = Start /\ last_finalized = Start /\ reconnects = 0
      /\ headers \in {<< >>, <<Start>>} /\ justs = << >> /\ justifications = << >>
      /\ unverified_headers = << >> /\ status = "running"
      /\ current_valset = Valset(SetIdAt(Start)) /\ next_valset = NoValset
    BY DEF Init
<1>2. /\ Range(justs) = {} /\ Range(justifications) = {} /\ DOMAIN unverified_headers = {}
      /\ Numbers = {} /\ Waiting = {}
    BY <1>1 DEF Range, Numbers, Waiting
<1>3. Start \in Nat /\ Start \in Blocks /\ SetIdAt(Start) \in Nat
      /\ Authorities[SetIdAt(Start) + 1] \in SUBSET Nat
    BY BlockFacts, SetIds, AuthoritiesOfSet
<1>4. /\ current_valset.set_id = SetIdAt(Start)
      /\ current_valset.validator_set = Authorities[SetIdAt(Start) + 1]
      /\ current_valset \in Valsets
    BY <1>1, <1>3 DEF Valset, Valsets
<1>5. headers \in Seq(Blocks)
    <2>1. << >> \in Seq(Blocks) /\ <<Start>> \in Seq(Blocks)
        BY <1>3
    <2> QED
        BY <1>1, <2>1
<1>6. Typed
    BY <1>1, <1>3, <1>4, <1>5 DEF Typed
<1>7. FirstTrue /\ WrongSealed
    BY <1>2 DEF FirstTrue, WrongSealed
<1>8. \A c \in Changes : Sealed(c)
    BY <1>2 DEF Sealed
<1>9. Range(headers) \subseteq {Start} /\ Len(headers) \in {0, 1}
      /\ \A i \in DOMAIN headers : headers[i] = Start - Len(headers) + i
    <2>1. CASE headers = << >>
        BY <2>1 DEF Range
    <2>2. CASE headers = <<Start>>
        <3>1. Len(headers) = 1 /\ DOMAIN headers = {1} /\ headers[1] = Start
            BY <2>2
        <3> QED
            BY <1>3, <3>1 DEF Range
    <2> QED
        BY <1>1, <2>1, <2>2
<1>10. HeaderQueue
    <2>1. \A c \in Changes : c < nodeHead => c \notin Range(headers)
        BY <1>1, <1>3, <1>9, BlockFacts
    <2> QED
        BY <1>1, <1>2, <1>9, <2>1 DEF HeaderQueue
<1>11. JustificationOrder /\ IdleTop /\ Single
    BY <1>1, <1>2 DEF JustificationOrder, IdleTop, Single, Increasing
<1>12. Ahead /\ OldSealed /\ HeadReceived
    BY <1>1, <1>2, <1>3, <1>8 DEF Ahead, OldSealed, HeadReceived
<1>13. ActiveKnown
    <2>1. ActiveValset = current_valset
        BY <1>1 DEF ActiveValset
    <2>2. CASE Start \in Changes /\ Start \in Range(headers)
        <3>1. headers = <<Start>>
            BY <1>1, <2>2 DEF Range
        <3>2. Slack = 1
            BY <1>1, <2>2 DEF Slack, StartsAtChange
        <3>3. Active(SetIdAt(nodeHead), Slack - 1)
            BY <1>1, <1>3, <1>4, <2>1, <3>2 DEF Active
        <3> QED
            BY <1>1, <1>3, <1>8, <2>2, <3>1, <3>3 DEF ActiveKnown, ChangeAgain
    <2>3. CASE ~(Start \in Changes /\ Start \in Range(headers))
        <3>1. Slack \in Nat
            BY <1>6, SlackFacts
        <3>2. Active(SetIdAt(nodeHead), Slack)
            BY <1>1, <1>3, <1>4, <2>1, <3>1 DEF Active
        <3> QED
            BY <1>1, <2>3, <3>2 DEF ActiveKnown, AllReceived
    <2> QED
        BY <2>2, <2>3
<1> QED
    BY <1>1, <1>6, <1>7, <1>10, <1>11, <1>12, <1>13 DEF LoopInv, Running

(* What only some steps change.                                            *)
LEMMA SameHeaders ==
    ASSUME UNCHANGED unverified_headers
    PROVE  /\ Numbers' = Numbers
           /\ \A i : Wrong(i)' <=> Wrong(i)
           /\ \A n : Kept(n)' <=> Kept(n)
BY DEF Numbers, Wrong, Kept

(* A step that changes nothing but the program counter.                    *)
LEMMA NothingNewKeeps ==
    ASSUME LoopInv, IdleTop',
           UNCHANGED <<nodeHead, headers, justs, reconnects, status, unverified_headers,
                       current_valset, next_valset, last_finalized, justifications>>
    PROVE  LoopInv'
<1>3. /\ Numbers' = Numbers /\ \A i : Wrong(i)' <=> Wrong(i)
      /\ \A n : Kept(n)' <=> Kept(n)
    BY SameHeaders
<1>4. Waiting' = Waiting /\ ActiveValset' = ActiveValset /\ Slack' = Slack
    BY DEF Waiting, ActiveValset, Slack
<1>5. \A c : Sealed(c)' <=> Sealed(c)
    BY <1>3 DEF Sealed
<1>6. Typed'
    BY DEF LoopInv, Typed
<1>7. FirstTrue'
    BY <1>3 DEF FirstTrue, LoopInv
<1> SUFFICES ASSUME status = "running" PROVE Running'
    BY <1>6, <1>7 DEF LoopInv
<1>8. Running
    BY DEF LoopInv
<1>9. HeaderQueue' /\ JustificationOrder' /\ WrongSealed'
    BY <1>3, <1>4, <1>5, <1>8 DEF HeaderQueue, JustificationOrder, WrongSealed, Running
<1>10. Single' /\ Ahead' /\ OldSealed' /\ HeadReceived'
    BY <1>3, <1>4, <1>5, <1>8
       DEF Single, Twice, Ahead, OldSealed, HeadReceived, Running
<1>11. ActiveKnown'
    BY <1>3, <1>4, <1>5, <1>8
       DEF ActiveKnown, AllReceived, ChangeToCome, ChangeAgain, Active, Running
<1> QED
    BY <1>9, <1>10, <1>11 DEF Running

(* The loop goes back to waiting.                                          *)
LEMMA NothingToVerifyKeeps ==
    ASSUME LoopInv, NothingToVerify
    PROVE  LoopInv'
<1>1. /\ UNCHANGED <<nodeHead, headers, justs, reconnects, status, unverified_headers,
                     current_valset, next_valset, last_finalized, justifications>>
      /\ justifications # << >> => Position(unverified_headers, Last(justifications)) = 0
    BY DEF NothingToVerify, StackAfterMiss, Verifying, streamVars
<1>2. ASSUME justifications # << >> PROVE Last(justifications) \notin Numbers
    BY <1>1, <1>2, PositionFacts DEF LoopInv, Typed, Numbers
<1>3. IdleTop'
    BY <1>1, <1>2, SameHeaders DEF IdleTop
<1> QED
    BY <1>1, <1>3, NothingNewKeeps

(* Nothing happens.                                                        *)
LEMMA StutterKeeps ==
    ASSUME LoopInv, UNCHANGED vars
    PROVE  LoopInv'
<1>1. /\ UNCHANGED <<nodeHead, headers, justs, reconnects, status, unverified_headers,
                     current_valset, next_valset, last_finalized, justifications>>
      /\ UNCHANGED pc
    BY DEF vars, streamVars, blockData
<1>2. CASE status = "running"
    <2>1. IdleTop'
        BY <1>1, <1>2, SameHeaders DEF LoopInv, Running, IdleTop
    <2> QED
        BY <1>1, <2>1, NothingNewKeeps
<1>3. CASE status # "running"
    BY <1>1, <1>3, SameHeaders DEF LoopInv, Typed, FirstTrue
<1> QED
    BY <1>2, <1>3

(* The stream gives up.                                                    *)
LEMMA StreamFailsKeeps ==
    ASSUME LoopInv, StreamFails
    PROVE  LoopInv'
<1>1. /\ UNCHANGED <<nodeHead, headers, justs, reconnects, unverified_headers,
                     current_valset, next_valset, last_finalized, justifications>>
      /\ status' = "stopped"
    BY DEF StreamFails, streamVars, blockData
<1>2. Typed'
    BY <1>1 DEF LoopInv, Typed
<1>3. FirstTrue'
    BY <1>1, SameHeaders DEF LoopInv, FirstTrue
<1> QED
    BY <1>1, <1>2, <1>3 DEF LoopInv

(* A justification moves from its queue to the stack.                      *)
LEMMA ReceiveJustificationKeeps ==
    ASSUME LoopInv, ReceiveJustification
    PROVE  LoopInv'
<1> DEFINE n == Head(justs)
<1>1. /\ UNCHANGED <<nodeHead, headers, reconnects, status, unverified_headers,
                     current_valset, next_valset, last_finalized>>
      /\ status = "running" /\ pc' = "verify" /\ justs # << >>
      /\ justs' = Tail(justs) /\ justifications' = Append(justifications, n)
    BY DEF ReceiveJustification, Idle
<1>2. Typed /\ FirstTrue /\ Running
    BY <1>1 DEF LoopInv
<1>3. /\ Numbers' = Numbers /\ \A i : Wrong(i)' <=> Wrong(i)
      /\ \A m : Kept(m)' <=> Kept(m)
    BY <1>1, SameHeaders
<1>4. ActiveValset' = ActiveValset /\ Slack' = Slack
    BY <1>1 DEF ActiveValset, Slack
<1>5. /\ justs \in Seq(Blocks) /\ justifications \in Seq(Blocks)
      /\ justs \in Seq(Nat) /\ justifications \in Seq(Nat)
    BY <1>2, RunningFacts DEF Typed
<1>6. /\ justs' \in Seq(Blocks) /\ n \in Blocks
      /\ Range(justs) = Range(justs') \cup {n}
      /\ Increasing(justs') /\ \A y \in Range(justs') : n < y
    <2>1. Tail(justs) \in Seq(Blocks) /\ n \in Blocks
          /\ Range(justs) = Range(Tail(justs)) \cup {n}
        BY <1>1, <1>5, TailFacts
    <2>2. Increasing(Tail(justs)) /\ \A y \in Range(Tail(justs)) : n < y
        BY <1>1, <1>2, <1>5, TailOrder DEF Running, JustificationOrder
    <2> QED
        BY <1>1, <2>1, <2>2
<1>7. /\ n \in Nat /\ justifications' \in Seq(Blocks)
      /\ Range(justifications') = Range(justifications) \cup {n}
    BY <1>1, <1>5, <1>6, AppendFacts, BlockFacts
<1> HIDE DEF n
<1>8. n \in Range(justs) /\ \A j \in Range(justifications) : j < n
    BY <1>2, <1>6 DEF Running, JustificationOrder
<1>9. Increasing(justifications')
    BY <1>1, <1>2, <1>5, <1>7, <1>8, PushOrder DEF Running, JustificationOrder
<1>10. Waiting' = Waiting
    BY <1>6, <1>7 DEF Waiting
<1>11. ASSUME NEW c \in Changes, Sealed(c) PROVE Sealed(c)'
    <2>1. c < n /\ c \in Nat
        BY <1>2, <1>8, <1>11, RunningFacts DEF Sealed
    <2>2. \A j \in Range(justs') : j \in Range(justs) \/ c < j
        BY <1>6
    <2>3. \A j \in Range(justifications') : j \in Range(justifications) \/ c < j
        BY <1>7, <2>1
    <2>4. c \notin Range(justifications')
        BY <1>7, <1>11, <2>1 DEF Sealed
    <2>5. \A j \in Range(justifications') : j < c => j \in Range(justifications)
        BY <1>7, <2>1
    <2>6. \A t \in Range(justifications) : t < c /\ t \notin Numbers \cup Range(headers) =>
               t \in Range(justifications') /\ t \notin Numbers' \cup Range(headers')
        BY <1>1, <1>3, <1>7
    <2> QED
        BY <1>11, <2>2, <2>3, <2>4, <2>5, <2>6, SealedStays
<1>12. Typed'
    BY <1>1, <1>2, <1>6, <1>7 DEF Typed
<1>13. FirstTrue' /\ WrongSealed'
    BY <1>1, <1>2, <1>3, <1>11 DEF FirstTrue, WrongSealed, Running
<1>14. HeaderQueue' /\ IdleTop' /\ Single'
    BY <1>1, <1>2, <1>3, <1>10 DEF HeaderQueue, IdleTop, Single, Twice, Running
<1>15. JustificationOrder'
    <2>1. ASSUME nodeHead \in Changes, justs' # << >> PROVE nodeHead \in Range(justs')
        <3>1. nodeHead \in Range(justs)
            BY <1>1, <1>2, <2>1 DEF Running, JustificationOrder
        <3>2. PICK y \in Range(justs') : TRUE
            BY <1>6, <2>1, TailFacts
        <3>3. n < y /\ y <= nodeHead /\ n \in Nat /\ y \in Nat
            BY <1>2, <1>6, <1>7, <3>2, RunningFacts DEF Running, JustificationOrder, Waiting
        <3>4. n # nodeHead
            BY <1>2, <3>3, RunningFacts
        <3> QED
            BY <1>6, <3>1, <3>4
    <2>2. \A j \in Range(justifications'), k \in Range(justs') : j < k
        BY <1>2, <1>6, <1>7 DEF Running, JustificationOrder
    <2> QED
        BY <1>1, <1>2, <1>6, <1>9, <1>10, <2>1, <2>2 DEF Running, JustificationOrder
<1>16. Ahead'
    BY <1>1, <1>2, <1>3, <1>6, <1>7, <1>8, <1>10 DEF Ahead, Running
<1>17. OldSealed' /\ HeadReceived'
    BY <1>1, <1>2, <1>3, <1>11 DEF OldSealed, HeadReceived, Running
<1>18. ActiveKnown'
    BY <1>1, <1>2, <1>3, <1>4, <1>11
       DEF ActiveKnown, AllReceived, ChangeToCome, ChangeAgain, Active, Running
<1> QED
    BY <1>12, <1>13, <1>14, <1>15, <1>16, <1>17, <1>18 DEF LoopInv, Running

(* The entry a received header becomes, and what was known of it before.   *)
LEMMA ReceiveHeaderKeeps ==
    ASSUME LoopInv, ReceiveHeader
    PROVE  LoopInv'
<1> DEFINE n == Head(headers)
           e == [number |-> n, valset |-> ActiveValset]
<1>0. PICK len \in Nat : len = Len(unverified_headers)
    BY DEF LoopInv, Typed
<1>1. /\ UNCHANGED <<nodeHead, justs, reconnects, status, justifications, last_finalized>>
      /\ status = "running" /\ pc' = "verify" /\ headers # << >>
      /\ headers' = Tail(headers)
      /\ current_valset' = ActiveValset
      /\ unverified_headers' = Append(unverified_headers, e)
      /\ next_valset' = IF NewAuthorities(n) = {} THEN NoValset
                        ELSE [set_id |-> ActiveValset.set_id + 1,
                              validator_set |-> NewAuthorities(n)]
    BY DEF ReceiveHeader, Idle
<1>2. Typed /\ FirstTrue /\ Running
    BY <1>1 DEF LoopInv
<1>3. /\ headers \in Seq(Blocks) /\ unverified_headers \in Seq(Entries)
      /\ current_valset \in Valsets /\ next_valset \in Valsets \cup {NoValset}
    BY <1>2 DEF Typed
<1>4. HeaderQueue
    BY <1>2 DEF Running
<1>5. /\ n \in Blocks /\ n <= nodeHead
      /\ nodeHead \in Range(headers)
      /\ \A m \in Range(headers') : n < m
      /\ n = nodeHead => headers' = << >>
      /\ n \in Changes => n = nodeHead
      /\ SetIdFor(n) = SetIdFor(nodeHead)
    BY <1>1, <1>2, <1>4, NextHeader
<1>6. /\ headers' \in Seq(Blocks) /\ Range(headers) = Range(headers') \cup {n}
      /\ Len(headers) \in Nat \ {0} /\ Len(headers') = Len(headers) - 1
      /\ \A i \in 1 .. (Len(headers) - 1) : headers'[i] = headers[i + 1]
    BY <1>1, <1>3, TailFacts
<1>7. ActiveValset \in Valsets
    BY <1>3 DEF ActiveValset
<1>8. e \in Entries /\ e.number = n /\ e.valset = ActiveValset /\ n \in Nat
    BY <1>5, <1>7, BlockFacts DEF Entries
<1>9. /\ unverified_headers' \in Seq(Entries) /\ len \in Nat
      /\ DOMAIN unverified_headers = 1 .. len /\ DOMAIN unverified_headers' = 1 .. (len + 1)
      /\ \A i \in 1 .. len : unverified_headers'[i] = unverified_headers[i]
      /\ unverified_headers'[len + 1] = e
    <2>1. len \in Nat /\ DOMAIN unverified_headers = 1 .. len
        BY <1>0, <1>3
    <2> HIDE DEF e
    <2>2. Append(unverified_headers, e) \in Seq(Entries)
          /\ Len(Append(unverified_headers, e)) = len + 1
          /\ \A i \in 1 .. len : Append(unverified_headers, e)[i] = unverified_headers[i]
          /\ Append(unverified_headers, e)[len + 1] = e
        BY <1>0, <1>3, <1>8, AppendFacts
    <2>3. DOMAIN Append(unverified_headers, e) = 1 .. (len + 1)
        BY <2>2
    <2> QED
        BY <1>1, <2>1, <2>2, <2>3
<1> HIDE DEF n, e
<1>10. Numbers' = Numbers \cup {n}
    <2>1. \A y : y \in Numbers' <=> \E i \in 1 .. (len + 1) : unverified_headers'[i].number = y
        BY <1>9 DEF Numbers
    <2>2. \A y : y \in Numbers <=> \E i \in 1 .. len : unverified_headers[i].number = y
        BY <1>9 DEF Numbers
    <2>3. \A i : i \in 1 .. (len + 1) <=> i \in 1 .. len \/ i = len + 1
        BY <1>9
    <2> QED
        BY <1>8, <1>9, <2>1, <2>2, <2>3
<1>11. /\ Waiting' = Waiting /\ Slack' = Slack
       /\ Numbers' \cup Range(headers') = Numbers \cup Range(headers)
    BY <1>1, <1>6, <1>10 DEF Waiting, Slack
<1>12. \A i \in 1 .. len : Wrong(i)' <=> Wrong(i)
    BY <1>9 DEF Wrong
<1>13. \A m : Kept(m) => Kept(m)'
    BY <1>9, <1>12 DEF Kept
<1>14. \A c : Sealed(c) => Sealed(c)'
    BY <1>1, <1>11 DEF Sealed
<1>15. Slack \in 0 .. 2
    BY <1>2, SlackFacts
<1>16. /\ SetIdFor(n) \in Nat /\ SetIdAt(nodeHead) \in Nat
       /\ nodeHead \in Nat /\ nodeHead + 1 \in Nat
       /\ SetIdAt(nodeHead) = IF nodeHead \in Changes THEN SetIdFor(n) + 1 ELSE SetIdFor(n)
    <2>1. nodeHead \in Nat /\ nodeHead + 1 \in Nat
        BY <1>2, RunningFacts
    <2>2. /\ SetIdFor(nodeHead) \in Nat /\ SetIdAt(nodeHead) \in Nat
          /\ SetIdAt(nodeHead) = IF nodeHead \in Changes
                                  THEN SetIdFor(nodeHead) + 1 ELSE SetIdFor(nodeHead)
        BY <2>1, SetIds
    <2> QED
        BY <1>5, <2>1, <2>2
<1>17. ActiveKnown
    BY <1>2 DEF Running
<1>18. ActiveValset.set_id \in Nat
    BY <1>7 DEF Valsets

(* Either the header's authorities finalize it, or it is a change whose    *)
(* header comes in a second time.                                          *)
<1>19. Finalizes(ActiveValset, n) \/ ChangeAgain
    <2>1. CASE AllReceived
        <3>1. nodeHead \notin Changes
            BY <1>5, <2>1 DEF AllReceived
        <3> QED
            BY <1>15, <1>16, <1>18, <2>1, <3>1 DEF AllReceived, Active, Finalizes
    <2>2. CASE ChangeToCome
        BY <1>5, <1>15, <1>16, <1>18, <2>2 DEF ChangeToCome, Active, Finalizes
    <2> QED
        BY <1>17, <2>1, <2>2 DEF ActiveKnown
<1>20. /\ ChangeAgain => n = nodeHead /\ n \in Changes /\ Sealed(n)
       /\ n < nodeHead => nodeHead \in Range(headers')
       /\ n < nodeHead \/ n = nodeHead
    <2>1. ChangeAgain => headers = <<nodeHead>>
        BY DEF ChangeAgain
    <2>2. headers = <<nodeHead>> => n = nodeHead
        BY DEF n
    <2>3. n < nodeHead \/ n = nodeHead
        BY <1>5, <1>8, <1>16
    <2>4. n < nodeHead => nodeHead \in Range(headers')
        BY <1>5, <1>6, <1>8, <1>16
    <2> QED
        BY <2>1, <2>2, <2>3, <2>4 DEF ChangeAgain
<1>21. Wrong(len + 1)' => ChangeAgain
    BY <1>8, <1>9, <1>19 DEF Wrong
<1>22. nodeHead \in Changes /\ n = nodeHead /\ last_finalized < nodeHead => Kept(nodeHead)'
    <2> SUFFICES ASSUME nodeHead \in Changes, n = nodeHead, last_finalized < nodeHead
                 PROVE  Kept(nodeHead)'
        OBVIOUS
    <2>1. CASE ChangeAgain
        <3>1. Kept(nodeHead)
            BY <2>1 DEF ChangeAgain
        <3> QED
            BY <1>1, <1>13, <3>1 DEF Kept
    <2>2. CASE Finalizes(ActiveValset, n)
        <3>1. ~Wrong(len + 1)' /\ unverified_headers'[len + 1].number = nodeHead'
              /\ len + 1 \in DOMAIN unverified_headers'
            BY <1>1, <1>8, <1>9, <2>2 DEF Wrong
        <3> QED
            BY <3>1 DEF Kept
    <2> QED
        BY <1>19, <2>1, <2>2

<1>23. Typed'
    <2>1. NewAuthorities(n) \in SUBSET Nat
        <3>1. Authorities[SetIdAt(n) + 1] \in SUBSET Nat
            BY <1>8, SetIds, AuthoritiesOfSet
        <3> QED
            BY <3>1 DEF NewAuthorities
    <2>2. next_valset' \in Valsets \cup {NoValset}
        <3>1. NewAuthorities(n) # {} => next_valset' \in Valsets
            BY <1>1, <1>18, <2>1 DEF Valsets
        <3> QED
            BY <1>1, <3>1
    <2> QED
        BY <1>1, <1>2, <1>6, <1>7, <1>9, <2>2 DEF Typed
<1>24. HeaderQueue'
    <2>1. DOMAIN headers = 1 .. Len(headers) /\ DOMAIN headers' = 1 .. (Len(headers) - 1)
        BY <1>3, <1>6
    <2>2. ASSUME NEW i \in 1 .. (Len(headers) - 1)
          PROVE  headers'[i] = nodeHead - Len(headers') + i
        <3>1. i + 1 \in DOMAIN headers
            BY <1>6, <2>1
        <3>2. headers[i + 1] = nodeHead - Len(headers) + (i + 1)
            BY <1>4, <3>1 DEF HeaderQueue
        <3>3. headers'[i] = headers[i + 1]
            BY <1>6
        <3> QED
            BY <1>6, <1>16, <3>2, <3>3
    <2>3. \A c \in Changes : c < nodeHead => c \notin Range(headers')
        BY <1>4, <1>6 DEF HeaderQueue
    <2>4. \A m \in Numbers' : m <= nodeHead
        BY <1>4, <1>5, <1>10 DEF HeaderQueue
    <2> QED
        BY <1>1, <2>1, <2>2, <2>3, <2>4 DEF HeaderQueue
<1>25. JustificationOrder' /\ IdleTop'
    BY <1>1, <1>2, <1>11 DEF JustificationOrder, IdleTop, Running
<1>26. Single'
    <2> SUFFICES ASSUME NEW j \in Waiting, Twice(j)' PROVE Twice(j)
        BY <1>2, <1>11 DEF Single, Running
    <2>1. CASE j \in Numbers' /\ j \in Range(headers')
        <3>1. j # n
            BY <1>5, <1>8, <2>1
        <3> QED
            BY <1>6, <1>10, <2>1, <3>1 DEF Twice
    <2>2. CASE \E i, k \in DOMAIN unverified_headers' :
                  i # k /\ unverified_headers'[i].number = j
                        /\ unverified_headers'[k].number = j
        <3>1. PICK i, k \in 1 .. (len + 1) :
                  i # k /\ unverified_headers'[i].number = j
                        /\ unverified_headers'[k].number = j
            BY <1>9, <2>2
        <3>2. CASE i \in 1 .. len /\ k \in 1 .. len
            BY <1>9, <3>1, <3>2 DEF Twice
        <3>3. CASE i = len + 1 \/ k = len + 1
            <4>1. j = n
                BY <1>8, <1>9, <3>1, <3>3
            <4>2. j \in Numbers
                <5>1. i \in 1 .. len \/ k \in 1 .. len
                    BY <1>9, <3>1, <3>3
                <5> QED
                    BY <1>9, <3>1, <5>1 DEF Numbers
            <4> QED
                BY <1>6, <4>1, <4>2 DEF Twice
        <3> QED
            BY <1>9, <3>1, <3>2, <3>3
    <2> QED
        BY <2>1, <2>2 DEF Twice
<1>27. Ahead'
    BY <1>1, <1>2, <1>11 DEF Ahead, Running
<1>28. OldSealed'
    BY <1>1, <1>2, <1>14 DEF OldSealed, Running
<1>29. nodeHead \in Changes /\ n = nodeHead => next_valset' # NoValset
       /\ ActiveValset'.set_id = ActiveValset.set_id + 1
       /\ ActiveValset'.validator_set = Authorities[SetIdAt(nodeHead) + 1]
    <2> SUFFICES ASSUME nodeHead \in Changes, n = nodeHead
                 PROVE  next_valset' # NoValset
                        /\ ActiveValset'.set_id = ActiveValset.set_id + 1
                        /\ ActiveValset'.validator_set = Authorities[SetIdAt(nodeHead) + 1]
        OBVIOUS
    <2>1. NewAuthorities(n) # {} /\ NewAuthorities(n) = Authorities[SetIdAt(nodeHead) + 1]
        BY <1>8, Announced
    <2>2. NewAuthorities(n) \in SUBSET Nat
        BY <1>16, <2>1, SetIds, AuthoritiesOfSet
    <2>3. next_valset' = [set_id |-> ActiveValset.set_id + 1,
                          validator_set |-> NewAuthorities(n)]
        BY <1>1, <2>1
    <2>4. next_valset' \in Valsets
        BY <1>18, <2>2, <2>3 DEF Valsets
    <2>5. next_valset' # NoValset
        BY <2>4, NoValsetApart
    <2> QED
        BY <2>1, <2>3, <2>5 DEF ActiveValset
<1>30. ~(nodeHead \in Changes /\ n = nodeHead) => ActiveValset' = ActiveValset
    <2> SUFFICES ASSUME ~(nodeHead \in Changes /\ n = nodeHead)
                 PROVE  ActiveValset' = ActiveValset
        OBVIOUS
    <2>1. NewAuthorities(n) = {}
        BY <1>5, <1>8, Announced
    <2> QED
        BY <1>1, <2>1 DEF ActiveValset
<1>31. HeadReceived'
    <2> SUFFICES ASSUME nodeHead \in Changes, nodeHead \notin Range(headers')
                 PROVE  /\ last_finalized < nodeHead => Kept(nodeHead)'
                        /\ next_valset' # NoValset
        BY <1>1 DEF HeadReceived
    <2>1. n = nodeHead
        BY <1>20
    <2> QED
        BY <1>22, <1>29, <2>1
<1>32. ActiveKnown'
    <2>1. CASE AllReceived
        <3>1. nodeHead \notin Changes
            BY <1>5, <2>1 DEF AllReceived
        <3> QED
            BY <1>1, <1>11, <1>30, <2>1, <3>1 DEF ActiveKnown, AllReceived, Active
    <2>2. CASE ChangeToCome /\ n < nodeHead
        <3>1. nodeHead \in Range(headers')
            BY <1>20, <2>2
        <3>2. ActiveValset' = ActiveValset
            BY <1>8, <1>16, <1>30, <2>2
        <3> QED
            BY <1>1, <1>11, <2>2, <3>1, <3>2 DEF ActiveKnown, ChangeToCome, Active
    <2>3. CASE n = nodeHead /\ (ChangeToCome \/ ChangeAgain)
        <3>1. nodeHead \in Changes /\ headers' = << >>
            BY <1>5, <2>3 DEF ChangeToCome, ChangeAgain
        <3>2. Range(headers') = {}
            BY <3>1 DEF Range
        <3>3. /\ ActiveValset'.set_id = ActiveValset.set_id + 1
              /\ ActiveValset'.validator_set = Authorities[SetIdAt(nodeHead) + 1]
            BY <1>29, <2>3, <3>1
        <3>4. SetIdAt(nodeHead) = SetIdFor(nodeHead) + 1
            BY <1>5, <1>16, <3>1
        <3>5. /\ SetIdAt(nodeHead) <= ActiveValset'.set_id
              /\ ActiveValset'.set_id <= SetIdAt(nodeHead) + Slack
            <4>1. CASE ChangeToCome
                BY <1>15, <1>16, <1>18, <1>5, <3>3, <3>4, <4>1 DEF ChangeToCome, Active
            <4>2. CASE ChangeAgain
                BY <1>15, <1>16, <1>18, <3>3, <4>2 DEF ChangeAgain, Active
            <4> QED
                BY <2>3, <4>1, <4>2
        <3>6. Active(SetIdAt(nodeHead), Slack)'
            BY <1>1, <1>11, <3>3, <3>5 DEF Active
        <3> QED
            BY <1>1, <3>2, <3>6 DEF ActiveKnown, AllReceived
    <2> QED
        BY <1>17, <1>20, <2>1, <2>2, <2>3 DEF ActiveKnown
<1>33. WrongSealed'
    <2>1. ASSUME NEW i \in 1 .. (len + 1), Wrong(i)'
          PROVE  unverified_headers'[i].number \in Changes
        <3>1. CASE i \in 1 .. len
            BY <1>2, <1>9, <1>12, <2>1, <3>1 DEF Running, WrongSealed
        <3>2. CASE i = len + 1
            BY <1>8, <1>9, <1>20, <1>21, <2>1, <3>2
        <3> QED
            BY <1>9, <3>1, <3>2
    <2>2. ASSUME NEW i \in 1 .. (len + 1), Wrong(i)',
                 NEW c \in Changes, c = unverified_headers'[i].number
          PROVE  /\ Sealed(c)'
                 /\ last_finalized < c =>
                       \A k \in 1 .. (len + 1) : k < i => unverified_headers'[k].number <= c
        <3>1. CASE i \in 1 .. len
            <4>1. Wrong(i) /\ c = unverified_headers[i].number
                BY <1>9, <1>12, <2>2, <3>1
            <4>2. /\ Sealed(c)
                  /\ last_finalized < c => \A k \in 1 .. len :
                        k < i => unverified_headers[k].number <= c
                BY <1>2, <1>9, <3>1, <4>1 DEF Running, WrongSealed
            <4>3. \A k \in 1 .. (len + 1) : k < i => k \in 1 .. len
                BY <1>9, <3>1
            <4> QED
                BY <1>9, <1>14, <4>2, <4>3
        <3>2. CASE i = len + 1
            <4>1. c = n /\ ChangeAgain
                BY <1>8, <1>9, <1>21, <2>2, <3>2
            <4>2. Sealed(c) /\ c = nodeHead
                BY <1>20, <4>1
            <4>3. \A k \in 1 .. len : unverified_headers[k].number <= c
                BY <1>4, <1>9, <4>2 DEF HeaderQueue, Numbers
            <4>4. \A k \in 1 .. (len + 1) : k < i => k \in 1 .. len
                BY <1>9, <3>2
            <4> QED
                BY <1>9, <1>14, <4>2, <4>3, <4>4
        <3> QED
            BY <1>9, <3>1, <3>2
    <2> QED
        BY <1>1, <1>9, <2>1, <2>2 DEF WrongSealed
<1>34. FirstTrue'
    <2> SUFFICES ASSUME NEW i \in 1 .. (len + 1), Wrong(i)',
                        last_finalized < unverified_headers'[i].number
                 PROVE  \E k \in 1 .. (len + 1) :
                            /\ k < i /\ ~Wrong(k)'
                            /\ unverified_headers'[k].number = unverified_headers'[i].number
        BY <1>1, <1>9 DEF FirstTrue
    <2>1. CASE i \in 1 .. len
        <3>1. Wrong(i) /\ unverified_headers'[i] = unverified_headers[i]
            BY <1>9, <1>12, <2>1
        <3>2. PICK k \in 1 .. len : k < i /\ ~Wrong(k)
                        /\ unverified_headers[k].number = unverified_headers[i].number
            BY <1>2, <1>9, <2>1, <3>1 DEF FirstTrue
        <3>3. k \in 1 .. (len + 1)
            BY <1>9
        <3> QED
            BY <1>9, <1>12, <3>1, <3>2, <3>3
    <2>2. CASE i = len + 1
        <3>1. unverified_headers'[i].number = n /\ ChangeAgain
            BY <1>8, <1>9, <1>21, <2>2
        <3>2. n = nodeHead /\ Kept(nodeHead)
            BY <1>20, <3>1 DEF ChangeAgain
        <3>3. PICK k \in 1 .. len : unverified_headers[k].number = nodeHead /\ ~Wrong(k)
            BY <1>9, <3>2 DEF Kept
        <3>4. k \in 1 .. (len + 1) /\ k < i
            BY <1>9, <2>2
        <3> QED
            BY <1>9, <1>12, <3>1, <3>2, <3>3, <3>4
    <2> QED
        BY <1>9, <2>1, <2>2
<1> QED
    BY <1>23, <1>24, <1>25, <1>26, <1>27, <1>28, <1>31, <1>32, <1>33, <1>34
       DEF LoopInv, Running

(* The node finalizes the next block.                                      *)
LEMMA NodeFinalizesKeeps ==
    ASSUME SteadyNode, LoopInv, NodeFinalizes
    PROVE  LoopInv'
<1> DEFINE h == nodeHead + 1
<1>1. /\ UNCHANGED <<reconnects, pc, status, unverified_headers, justifications,
                     current_valset, next_valset, last_finalized>>
      /\ status = "running" /\ nodeHead < MaxBlock
      /\ nodeHead \in Changes => Settled(nodeHead)
      /\ nodeHead' = h /\ headers' = Append(headers, h)
      /\ justs' = Append(justs, h) \/ (h \notin Changes /\ justs' = justs)
    BY DEF NodeFinalizes, SteadyNode, blockData
<1>2. Typed /\ FirstTrue /\ Running
    BY <1>1 DEF LoopInv
<1>3. /\ Numbers' = Numbers /\ \A i : Wrong(i)' <=> Wrong(i)
      /\ \A m : Kept(m)' <=> Kept(m)
    BY <1>1, SameHeaders
<1>4. ActiveValset' = ActiveValset /\ Slack' = Slack
    BY <1>1 DEF ActiveValset, Slack
<1>5. /\ headers \in Seq(Blocks) /\ justs \in Seq(Blocks) /\ justs \in Seq(Nat)
      /\ nodeHead \in Nat /\ last_finalized \in Nat
    BY <1>2, RunningFacts DEF Typed
<1>6. h \in Nat /\ nodeHead < h /\ h \in Blocks
    <2>1. h \in Nat /\ nodeHead < h /\ h <= MaxBlock
        BY <1>1, <1>5, BlockFacts
    <2> HIDE DEF h
    <2> QED
        BY <2>1, BlockFacts
<1>7. /\ HeaderQueue /\ JustificationOrder /\ IdleTop /\ Single /\ Ahead
      /\ OldSealed /\ HeadReceived /\ ActiveKnown /\ WrongSealed
    BY <1>2 DEF Running
<1>8. Increasing(justs) /\ \A j \in Waiting : j <= nodeHead
    BY <1>7 DEF JustificationOrder
<1>9. \A m \in Range(headers) : m <= nodeHead /\ m \in Nat
    <2>1. Range(headers) \subseteq Nat
        BY <1>2, RunningFacts
    <2>2. headers # << >> => \A m \in Range(Tail(headers)) \cup {Head(headers)} : m <= nodeHead
        <3> SUFFICES ASSUME NEW i \in DOMAIN headers PROVE headers[i] <= nodeHead
            BY <1>5, TailFacts DEF Range
        <3>1. headers[i] = nodeHead - Len(headers) + i /\ i <= Len(headers)
              /\ Len(headers) \in Nat /\ i \in Nat
            BY <1>5, <1>7 DEF HeaderQueue
        <3> QED
            BY <1>5, <3>1
    <2>3. headers = << >> => Range(headers) = {}
        BY DEF Range
    <2> QED
        BY <1>5, <2>1, <2>2, <2>3, TailFacts
<1>10. /\ headers' \in Seq(Blocks) /\ Len(headers') = Len(headers) + 1
       /\ Range(headers') = Range(headers) \cup {h}
       /\ \A i \in 1 .. Len(headers) : headers'[i] = headers[i]
       /\ headers'[Len(headers) + 1] = h
    <2> HIDE DEF h
    <2> QED
        BY <1>1, <1>5, <1>6, AppendFacts
<1>11. /\ justs' \in Seq(Blocks) /\ Increasing(justs')
       /\ Range(justs) \subseteq Range(justs') /\ Range(justs') \subseteq Range(justs) \cup {h}
       /\ h \in Changes => h \in Range(justs')
    <2> HIDE DEF h
    <2>1. CASE justs' = Append(justs, h)
        <3>1. \A y \in Range(justs) : y < h
            BY <1>2, <1>5, <1>6, <1>8, RunningFacts DEF Waiting
        <3>2. Increasing(Append(justs, h))
            BY <1>5, <1>6, <1>8, <3>1, PushOrder
        <3>3. Append(justs, h) \in Seq(Blocks)
              /\ Range(Append(justs, h)) = Range(justs) \cup {h}
            BY <1>5, <1>6, AppendFacts
        <3> QED
            BY <2>1, <3>2, <3>3
    <2>2. CASE h \notin Changes /\ justs' = justs
        BY <1>5, <1>8, <2>2
    <2> QED
        BY <1>1, <2>1, <2>2
<1>12. \A m \in Waiting \cup Numbers \cup Range(headers) : m \in Nat /\ m <= nodeHead
    BY <1>2, <1>7, <1>8, <1>9, RunningFacts DEF Waiting, HeaderQueue
<1>13. h \notin Waiting \cup Numbers \cup Range(headers)
    BY <1>5, <1>6, <1>12
<1> HIDE DEF h

(* A change is settled before the next block is finalized.                 *)
<1>14. ASSUME nodeHead \in Changes
       PROVE  /\ pc = "idle" /\ headers = << >> /\ Range(headers) = {} /\ Range(justs) = {}
    <2>1. pc = "idle" /\ nodeHead \notin Range(headers) /\ nodeHead \notin Range(justs)
        <3>1. Settled(nodeHead)
            BY <1>1, <1>14
        <3> QED
            BY <3>1 DEF Settled, Contains, Range
    <2>2. headers = << >>
        BY <1>2, <1>7, <2>1, NextHeader
    <2>3. justs = << >>
        BY <1>7, <1>14, <2>1 DEF JustificationOrder
    <2> QED
        BY <2>1, <2>2, <2>3 DEF Range
<1>15. AllReceived
    BY <1>7, <1>14 DEF ActiveKnown, ChangeToCome, ChangeAgain
<1>16. ASSUME NEW c \in Changes, c <= nodeHead, Sealed(c) PROVE Sealed(c)'
    <2>1. c \in Nat /\ c < h
        BY <1>2, <1>5, <1>6, <1>16, RunningFacts
    <2>2. \A j \in Range(justs') : j \in Range(justs) \/ c < j
        BY <1>11, <2>1
    <2>3. \A t \in Range(justifications) : t < c /\ t \notin Numbers \cup Range(headers) =>
               t \notin Numbers' \cup Range(headers')
        BY <1>3, <1>10, <1>13 DEF Waiting
    <2> QED
        BY <1>1, <1>16, <2>2, <2>3, SealedStays DEF Sealed
<1>17. nodeHead \in Changes => Sealed(nodeHead) /\ nodeHead \notin Range(headers)
    <2> SUFFICES ASSUME nodeHead \in Changes
                 PROVE  Sealed(nodeHead) /\ nodeHead \notin Range(headers)
        OBVIOUS
    <2>1. Range(headers) = {} /\ Range(justs) = {} /\ pc = "idle"
        BY <1>14
    <2> QED
        BY <1>2, <2>1, HeadSealed DEF Sealed

<1>18. Typed'
    BY <1>1, <1>2, <1>6, <1>10, <1>11 DEF Typed
<1>19. FirstTrue'
    BY <1>1, <1>2, <1>3 DEF FirstTrue
<1>20. HeaderQueue'
    <2>1. DOMAIN headers = 1 .. Len(headers) /\ DOMAIN headers' = 1 .. (Len(headers) + 1)
          /\ Len(headers) \in Nat
        BY <1>5, <1>10
    <2>2. ASSUME NEW i \in 1 .. (Len(headers) + 1)
          PROVE  headers'[i] = nodeHead' - Len(headers') + i
        <3>1. CASE i = Len(headers) + 1
            <4>1. headers'[i] = nodeHead'
                BY <1>1, <1>10, <3>1
            <4>2. nodeHead' \in Nat
                BY <1>1, <1>6
            <4> QED
                BY <1>10, <2>1, <3>1, <4>1, <4>2
        <3>2. CASE i \in 1 .. Len(headers)
            <4>1. headers'[i] = nodeHead - Len(headers) + i
                BY <1>7, <1>10, <2>1, <3>2 DEF HeaderQueue
            <4>2. nodeHead' = nodeHead + 1
                BY <1>1 DEF h
            <4> QED
                BY <1>5, <1>10, <2>1, <4>1, <4>2
        <3> QED
            BY <2>1, <3>1, <3>2
    <2>3. ASSUME NEW c \in Changes, c < h PROVE c \notin Range(headers')
        <3>1. c \in Nat
            BY <1>2, RunningFacts
        <3>2. CASE c = nodeHead
            BY <1>10, <1>14, <2>3, <3>1, <3>2, <1>6
        <3>3. CASE c < nodeHead
            BY <1>6, <1>7, <1>10, <2>3, <3>1, <3>3 DEF HeaderQueue
        <3> QED
            BY <1>5, <2>3, <3>1, <3>2, <3>3 DEF h
    <2>4. \A m \in Numbers' : m <= h
        BY <1>3, <1>5, <1>6, <1>12
    <2> QED
        BY <1>1, <2>1, <2>2, <2>3, <2>4 DEF HeaderQueue
<1>21. JustificationOrder'
    <2>1. Waiting' \subseteq Waiting \cup {h}
        BY <1>1, <1>11 DEF Waiting
    <2>2. \A j \in Waiting' : j <= h
        BY <1>5, <1>6, <1>12, <2>1
    <2>3. \A j \in Range(justifications), k \in Range(justs') : j < k
        <3> SUFFICES ASSUME NEW j \in Range(justifications), NEW k \in Range(justs')
                     PROVE  j < k
            OBVIOUS
        <3>1. CASE k \in Range(justs)
            BY <1>7, <3>1 DEF JustificationOrder
        <3>2. CASE k = h
            BY <1>5, <1>6, <1>12, <3>2 DEF Waiting
        <3> QED
            BY <1>11, <3>1, <3>2
    <2> QED
        BY <1>1, <1>7, <1>11, <2>2, <2>3 DEF JustificationOrder
<1>22. IdleTop'
    BY <1>1, <1>3, <1>7 DEF IdleTop
<1>23. Single'
    <2> SUFFICES ASSUME NEW j \in Waiting', Twice(j)' PROVE FALSE
        BY DEF Single
    <2>1. Twice(j)
        <3>1. CASE j = h
            <4>1. h \notin Numbers'
                BY <1>3, <1>13
            <4> QED
                BY <1>1, <3>1, <4>1 DEF Twice, Numbers
        <3>2. CASE j # h
            BY <1>1, <1>3, <1>10, <3>2 DEF Twice
        <3> QED
            BY <3>1, <3>2
    <2>2. j \in Waiting \/ j = h
        BY <1>1, <1>11 DEF Waiting
    <2>3. j # h
        BY <1>13, <2>1 DEF Twice, Numbers
    <2> QED
        BY <1>7, <2>1, <2>2, <2>3 DEF Single
<1>24. Ahead'
    <2>1. last_finalized < h /\ last_finalized <= h /\ last_finalized # h
        BY <1>5, <1>6, <1>7 DEF Ahead
    <2>2. last_finalized \notin Waiting'
        BY <1>1, <1>7, <1>11, <2>1 DEF Ahead, Waiting
    <2>3. \A j \in Range(justs') : last_finalized < j
        BY <1>7, <1>11, <2>1 DEF Ahead
    <2>4. \A j \in Range(justifications) :
              j \in Numbers' \cup Range(headers') => last_finalized < j
        BY <1>3, <1>7, <1>10, <2>1 DEF Ahead
    <2> QED
        BY <1>1, <2>1, <2>2, <2>3, <2>4 DEF Ahead
<1>25. OldSealed'
    <2> SUFFICES ASSUME NEW c \in Changes, c < h PROVE Sealed(c)'
        BY <1>1 DEF OldSealed
    <2>1. c \in Nat /\ c <= nodeHead
        <3>1. c \in Nat
            BY <1>2, RunningFacts
        <3> QED
            BY <1>5, <3>1 DEF h
    <2>2. Sealed(c)
        BY <1>5, <1>7, <1>17, <2>1 DEF OldSealed
    <2> QED
        BY <1>16, <2>1, <2>2
<1>26. HeadReceived'
    BY <1>1, <1>10 DEF HeadReceived
<1>27. ActiveKnown'
    <2>1. Active(SetIdAt(nodeHead), Slack)
        BY <1>15 DEF AllReceived
    <2>2. SetIdFor(h) = SetIdAt(nodeHead) /\ (h \notin Changes => SetIdAt(h) = SetIdFor(h))
        <3>1. SetIdFor(nodeHead + 1) = SetIdAt(nodeHead)
            BY <1>5, SetIds
        <3> QED
            BY <1>6, <3>1, SetIds DEF h
    <2>3. CASE h \in Changes
        BY <1>1, <1>4, <1>10, <2>1, <2>2, <2>3 DEF ActiveKnown, ChangeToCome, Active
    <2>4. CASE h \notin Changes
        BY <1>1, <1>4, <2>1, <2>2, <2>4 DEF ActiveKnown, AllReceived, Active
    <2> QED
        BY <2>3, <2>4
<1>28. WrongSealed'
    <2> SUFFICES ASSUME NEW i \in DOMAIN unverified_headers, Wrong(i)
                 PROVE  /\ unverified_headers[i].number \in Changes
                        /\ \A c \in Changes : c = unverified_headers[i].number =>
                              /\ Sealed(c)'
                              /\ last_finalized < c =>
                                    \A k \in DOMAIN unverified_headers :
                                        k < i => unverified_headers[k].number <= c
        BY <1>1, <1>3 DEF WrongSealed
    <2>1. unverified_headers[i].number <= nodeHead
        BY <1>7 DEF HeaderQueue, Numbers
    <2> QED
        BY <1>7, <1>16, <2>1 DEF WrongSealed
<1> QED
    BY <1>18, <1>19, <1>20, <1>21, <1>22, <1>23, <1>24, <1>25, <1>26, <1>27, <1>28
       DEF LoopInv, Running

(* Both subscriptions start over at the head.                              *)
LEMMA ReconnectKeeps ==
    ASSUME SteadyNode, LoopInv, Reconnect, FewRepeats
    PROVE  LoopInv'
<1>1. /\ UNCHANGED <<pc, status, unverified_headers, justifications,
                     current_valset, next_valset, last_finalized>>
      /\ status = "running" /\ pc = "idle"
      /\ reconnects' = reconnects + 1 /\ justs' = << >>
      /\ headers' \in {<< >>, <<nodeHead'>>}
      /\ \A c \in Changes : Unseen(c) => Contains(headers', c)
    BY DEF Reconnect, Idle, SteadyNode, blockData
<1>2. Typed /\ FirstTrue /\ Running
    BY <1>1 DEF LoopInv
<1>3. nodeHead \in Nat /\ last_finalized \in Nat /\ reconnects \in Nat /\ nodeHead \in Blocks
    BY <1>2, RunningFacts DEF Typed
<1>4. nodeHead' = nodeHead
    <2>1. PICK hd \in Blocks : nodeHead' = hd /\ nodeHead <= hd + 0 /\ hd <= nodeHead + 0
        BY DEF Reconnect, SteadyNode
    <2>2. hd \in Nat
        BY BlockFacts
    <2> QED
        BY <1>3, <2>1, <2>2
<1>5. /\ Numbers' = Numbers /\ \A i : Wrong(i)' <=> Wrong(i)
      /\ \A m : Kept(m)' <=> Kept(m)
    BY <1>1, SameHeaders
<1>6. ActiveValset' = ActiveValset
    BY <1>1 DEF ActiveValset
<1>7. /\ HeaderQueue /\ JustificationOrder /\ IdleTop /\ Single /\ Ahead
      /\ OldSealed /\ HeadReceived /\ ActiveKnown /\ WrongSealed
    BY <1>2 DEF Running
<1>8. headers' = << >> \/ headers' = <<nodeHead>>
    BY <1>1, <1>4
<1>9. /\ headers' = << >> => Range(headers') = {}
      /\ headers' = <<nodeHead>> => Range(headers') = {nodeHead} /\ Len(headers') = 1
                                    /\ headers'[1] = nodeHead
      /\ headers' \in Seq(Blocks) /\ Range(headers') \subseteq {nodeHead}
      /\ \A i \in DOMAIN headers' : headers'[i] = nodeHead - Len(headers') + i
    <2>1. CASE headers' = << >>
        BY <2>1 DEF Range
    <2>2. CASE headers' = <<nodeHead>>
        <3>1. Len(<<nodeHead>>) = 1 /\ <<nodeHead>>[1] = nodeHead
              /\ DOMAIN <<nodeHead>> = {1} /\ <<nodeHead>> \in Seq(Blocks)
            BY <1>3
        <3>2. Range(<<nodeHead>>) = {nodeHead}
            BY <3>1 DEF Range
        <3> QED
            BY <1>3, <2>2, <3>1, <3>2
    <2> QED
        BY <1>8, <2>1, <2>2
<1>10. Range(justs') = {} /\ Increasing(justs') /\ justs' \in Seq(Blocks)
    BY <1>1 DEF Range, Increasing
<1>11. Waiting' = Range(justifications) /\ Waiting' \subseteq Waiting
    BY <1>1, <1>10 DEF Waiting
<1>12. /\ Slack \in Nat /\ Slack <= Slack' /\ Slack' \in Nat
       /\ reconnects + StartsAtChange < 2 => Slack = Slack' - 1
    BY <1>1, <1>3 DEF Slack, StartsAtChange

(* The head is lost, or it comes in again, only while the loop is idle.    *)
<1>13. ASSUME nodeHead \in Changes, nodeHead \notin Range(headers)
       PROVE  /\ nodeHead \notin Range(justifications)
              /\ \A j \in Range(justifications) : j < nodeHead =>
                    \E t \in Range(justifications) :
                        j <= t /\ t < nodeHead /\ t \notin Numbers
    BY <1>1, <1>2, <1>13, HeadSealed
<1>14. nodeHead \in Changes /\ nodeHead \in Range(headers) => headers' = <<nodeHead>>
    <2> SUFFICES ASSUME nodeHead \in Changes, nodeHead \in Range(headers)
                 PROVE  headers' = <<nodeHead>>
        OBVIOUS
    <2>1. Unseen(nodeHead)
        BY DEF Unseen, Contains, Range
    <2>2. Contains(headers', nodeHead)
        BY <1>1, <2>1
    <2>3. headers' # << >>
        BY <2>2 DEF Contains
    <2> QED
        BY <1>8, <2>3
<1>15. ASSUME NEW c \in Changes, c <= nodeHead, Sealed(c) PROVE Sealed(c)'
    <2>1. c \in Nat
        BY <1>2, RunningFacts
    <2>2. \A t \in Range(justifications) : t < c /\ t \notin Numbers \cup Range(headers) =>
               t \notin Numbers' \cup Range(headers')
        BY <1>3, <1>5, <1>9, <1>15, <2>1
    <2> QED
        BY <1>1, <1>10, <1>15, <2>2, SealedStays DEF Sealed
<1>16. nodeHead \in Changes /\ nodeHead \notin Range(headers) => Sealed(nodeHead)'
    <2> SUFFICES ASSUME nodeHead \in Changes, nodeHead \notin Range(headers)
                 PROVE  Sealed(nodeHead)'
        OBVIOUS
    <2>1. nodeHead \notin Range(justifications')
        BY <1>1, <1>13
    <2>2. ASSUME NEW j \in Range(justifications'), j < nodeHead
          PROVE  \E t \in Range(justifications') :
                     j <= t /\ t < nodeHead /\ t \notin Numbers' \cup Range(headers')
        <3>1. PICK t \in Range(justifications) : j <= t /\ t < nodeHead /\ t \notin Numbers
            BY <1>1, <1>13, <2>2
        <3>2. t \notin Range(headers')
            BY <1>3, <1>9, <3>1
        <3> QED
            BY <1>1, <1>5, <3>1, <3>2
    <2> QED
        BY <1>4, <1>10, <2>1, <2>2 DEF Sealed

<1>17. Typed'
    BY <1>1, <1>2, <1>3, <1>4, <1>9, <1>10 DEF Typed
<1>18. FirstTrue'
    BY <1>1, <1>2, <1>5 DEF FirstTrue
<1>19. HeaderQueue'
    <2>1. \A c \in Changes : c < nodeHead => c \notin Range(headers')
        BY <1>3, <1>9
    <2> QED
        BY <1>4, <1>5, <1>7, <1>9, <2>1 DEF HeaderQueue
<1>20. JustificationOrder'
    BY <1>1, <1>4, <1>7, <1>10, <1>11 DEF JustificationOrder
<1>21. IdleTop'
    BY <1>1, <1>5, <1>7 DEF IdleTop
<1>22. Single'
    <2> SUFFICES ASSUME NEW j \in Range(justifications), Twice(j)' PROVE FALSE
        BY <1>11 DEF Single
    <2>1. ~Twice(j)
        BY <1>7 DEF Single, Waiting
    <2>2. j \in Numbers /\ j = nodeHead
        BY <1>1, <1>5, <1>9, <2>1 DEF Twice
    <2>3. justifications # << >> /\ justifications \in Seq(Nat)
        BY <1>2, RunningFacts DEF Range
    <2>4. j = Last(justifications) \/ j \in Range(Front(justifications))
        BY <2>3, FrontFacts
    <2>5. j # Last(justifications)
        BY <1>1, <1>7, <2>2, <2>3 DEF IdleTop
    <2>6. j < Last(justifications)
        BY <1>7, <2>3, <2>4, <2>5, FrontOrder DEF JustificationOrder
    <2>7. Last(justifications) \in Waiting /\ Last(justifications) \in Nat
        BY <2>3, FrontFacts DEF Waiting
    <2>8. Last(justifications) <= nodeHead
        BY <1>7, <2>7 DEF JustificationOrder
    <2> QED
        BY <1>3, <2>2, <2>6, <2>7, <2>8
<1>23. Ahead'
    <2>1. ASSUME NEW j \in Range(justifications), j \in Numbers' \cup Range(headers')
          PROVE  last_finalized < j
        <3>1. CASE j \in Numbers
            BY <1>7, <3>1 DEF Ahead
        <3>2. CASE j = nodeHead
            BY <1>3, <1>7, <3>2 DEF Ahead, Waiting
        <3> QED
            BY <1>5, <1>9, <2>1, <3>1, <3>2
    <2> QED
        BY <1>1, <1>4, <1>7, <1>10, <1>11, <2>1 DEF Ahead
<1>24. OldSealed'
    <2> SUFFICES ASSUME NEW c \in Changes, c < nodeHead PROVE Sealed(c)'
        BY <1>4 DEF OldSealed
    <2>1. c \in Nat /\ c <= nodeHead
        BY <1>2, <1>3, RunningFacts
    <2> QED
        BY <1>7, <1>15, <2>1 DEF OldSealed
<1>25. nodeHead \in Changes /\ nodeHead \notin Range(headers) /\ last_finalized < nodeHead
       => Kept(nodeHead)
    BY <1>7 DEF HeadReceived
<1>26. HeadReceived'
    <2> SUFFICES ASSUME nodeHead \in Changes, nodeHead \notin Range(headers')
                 PROVE  /\ last_finalized < nodeHead => Kept(nodeHead)'
                        /\ Sealed(nodeHead)'
        BY <1>1, <1>4 DEF HeadReceived, Kept, Sealed
    <2>1. nodeHead \notin Range(headers)
        BY <1>9, <1>14
    <2> QED
        BY <1>4, <1>5, <1>16, <1>25, <2>1 DEF Kept
<1>27. \A k \in Nat : Active(k, Slack) => Active(k, Slack)'
    <2> SUFFICES ASSUME NEW k \in Nat, Active(k, Slack)
                 PROVE  /\ ActiveValset.validator_set = Authorities[k + 1]
                        /\ k <= ActiveValset.set_id /\ ActiveValset.set_id <= k + Slack'
        BY <1>6 DEF Active
    <2>1. ActiveValset.set_id \in Nat
        BY <1>2 DEF Typed, Valsets, ActiveValset
    <2> QED
        BY <1>12, <2>1 DEF Active
<1>28. /\ SetIdAt(nodeHead) \in Nat /\ SetIdFor(nodeHead) \in Nat
    BY <1>3, SetIds
<1>29. ActiveKnown'
    <2>1. CASE nodeHead \notin Changes
        <3>1. Active(SetIdAt(nodeHead), Slack)
            BY <1>7, <2>1 DEF ActiveKnown, AllReceived, ChangeToCome, ChangeAgain
        <3> QED
            BY <1>4, <1>27, <1>28, <2>1, <3>1 DEF ActiveKnown, AllReceived
    <2>2. CASE nodeHead \in Changes /\ nodeHead \notin Range(headers)
        <3>0. headers # <<nodeHead>>
            BY <2>2 DEF Range
        <3>1. Active(SetIdAt(nodeHead), Slack)
            BY <1>7, <2>2, <3>0 DEF ActiveKnown, AllReceived, ChangeToCome, ChangeAgain
        <3>2. CASE headers' = << >>
            BY <1>4, <1>9, <1>27, <1>28, <3>1, <3>2 DEF ActiveKnown, AllReceived
        <3>3. CASE headers' = <<nodeHead>>
            <4>1. headers' # << >>
                BY <3>3
            <4>2. RepeatsChange
                BY <2>2, <4>1 DEF RepeatsChange
            <4>3. Slack = Slack' - 1
                BY <1>12, <4>2 DEF FewRepeats
            <4>4. Active(SetIdAt(nodeHead), Slack - 1)'
                BY <1>4, <1>6, <3>1, <4>3 DEF Active
            <4>5. Sealed(nodeHead)' /\ (last_finalized < nodeHead => Kept(nodeHead)')
                BY <1>4, <1>5, <1>16, <1>25, <2>2 DEF Kept
            <4> QED
                BY <1>1, <1>4, <2>2, <3>3, <4>4, <4>5 DEF ActiveKnown, ChangeAgain
        <3> QED
            BY <1>8, <3>2, <3>3
    <2>3. CASE nodeHead \in Changes /\ nodeHead \in Range(headers)
        <3>1. headers' = <<nodeHead>> /\ nodeHead \in Range(headers')
            BY <1>9, <1>14, <2>3
        <3>2. CASE ChangeToCome
            BY <1>4, <1>27, <1>28, <2>3, <3>1, <3>2 DEF ActiveKnown, ChangeToCome
        <3>3. CASE ChangeAgain
            <4>1. Active(SetIdAt(nodeHead), Slack - 1)'
                <5>1. ActiveValset.set_id \in Nat
                    BY <1>2 DEF Typed, Valsets, ActiveValset
                <5> QED
                    BY <1>4, <1>6, <1>12, <1>28, <3>3, <5>1 DEF ChangeAgain, Active
            <4>2. Sealed(nodeHead)' /\ (last_finalized < nodeHead => Kept(nodeHead)')
                BY <1>3, <1>4, <1>5, <1>15, <3>3 DEF Kept, ChangeAgain
            <4> QED
                BY <1>1, <1>4, <2>3, <3>1, <4>1, <4>2 DEF ActiveKnown, ChangeAgain
        <3> QED
            BY <1>7, <2>3, <3>2, <3>3 DEF ActiveKnown, AllReceived
    <2> QED
        BY <2>1, <2>2, <2>3
<1>30. WrongSealed'
    <2> SUFFICES ASSUME NEW i \in DOMAIN unverified_headers, Wrong(i)
                 PROVE  /\ unverified_headers[i].number \in Changes
                        /\ \A c \in Changes : c = unverified_headers[i].number =>
                              /\ Sealed(c)'
                              /\ last_finalized < c =>
                                    \A k \in DOMAIN unverified_headers :
                                        k < i => unverified_headers[k].number <= c
        BY <1>1, <1>5 DEF WrongSealed
    <2>1. unverified_headers[i].number <= nodeHead
        BY <1>7 DEF HeaderQueue, Numbers
    <2> QED
        BY <1>7, <1>15, <2>1 DEF WrongSealed
<1> QED
    BY <1>17, <1>18, <1>19, <1>20, <1>21, <1>22, <1>23, <1>24, <1>26, <1>29, <1>30
       DEF LoopInv, Running

(* The headers left behind by a block put out with those skipped below it. *)
LEMMA OutputRemains ==
    ASSUME Typed, Running, TopMatches, unverified_headers' = TakeSkipped(Remaining, Top)
    PROVE  Remains(Entries, unverified_headers', unverified_headers, {Top} \cup Skipped(Top))
<1>1. /\ unverified_headers \in Seq(Entries) /\ Top \in Nat /\ last_finalized \in Nat
      /\ TopPosition \in 1 .. Len(unverified_headers)
      /\ unverified_headers[TopPosition].number = Top
    BY TopFacts, RunningFacts, BlockFacts DEF Typed
<1>2. Remains(Entries, Remaining, unverified_headers, {Top})
    BY <1>1, SwapRemoveRemains DEF Remaining
<1>3. Remaining \in Seq(Entries)
    BY <1>2 DEF Remains
<1>4. Remains(Entries, unverified_headers', Remaining, Skipped(Top))
    BY <1>1, <1>3, TakeSkippedRemains
<1>5. Skipped(Top) \in SUBSET Nat
    BY <1>1 DEF Skipped
<1> QED
    BY <1>2, <1>4, <1>5, RemainsTwice

(* A justification finds its header: the block goes out.                   *)
LEMMA VerifyBlockKeeps ==
    ASSUME LoopInv, VerifyBlock
    PROVE  LoopInv'
<1>0. status = "running" /\ TopMatches
    BY DEF VerifyBlock, TopMatches, Verifying
<1>1. Typed /\ FirstTrue /\ Running
    BY <1>0 DEF LoopInv
<1>2. PICK top : top = Top
    OBVIOUS
<1>3. /\ top \in Blocks /\ top \in Range(justifications) /\ top \in Numbers
      /\ last_finalized < top /\ top <= nodeHead
      /\ Range(justifications) = Range(Front(justifications)) \cup {top}
      /\ \A j \in Range(Front(justifications)) : j < top
      /\ \A c \in Nat : Sealed(c) => c < top
      /\ TopCheck = [ok |-> TRUE, set_id |-> SetIdFor(top)]
    BY <1>0, <1>1, <1>2, TopFacts
<1>4. OutputTop /\ PopTop
    BY <1>3 DEF VerifyBlock
<1>5. /\ UNCHANGED <<nodeHead, headers, justs, reconnects, pc, status, next_valset>>
      /\ pc = "verify"
      /\ justifications' = Front(justifications)
      /\ last_finalized' = top
      /\ current_valset' = [current_valset EXCEPT !.set_id = SetIdFor(top)]
      /\ unverified_headers' = TakeSkipped(Remaining, Top)
    BY <1>0, <1>2, <1>3, <1>4
       DEF OutputTop, PopTop, AdoptSetId, streamVars, TopMatches, Verifying
<1>6. /\ HeaderQueue /\ JustificationOrder /\ IdleTop /\ Single /\ Ahead
      /\ OldSealed /\ HeadReceived /\ ActiveKnown /\ WrongSealed
    BY <1>1 DEF Running
<1>7. /\ nodeHead \in Nat /\ last_finalized \in Nat /\ top \in Nat
      /\ Changes \subseteq Nat /\ SetIdFor(top) \in Nat
    BY <1>1, <1>3, RunningFacts, BlockFacts, SetIds
<1>8. justifications \in Seq(Blocks) /\ justifications \in Seq(Nat) /\ justifications # << >>
    BY <1>0, <1>1, RunningFacts DEF Typed, TopMatches
<1>9. PICK gone : gone = {top} \cup Skipped(Top)
    OBVIOUS
<1>10. \A m \in Nat : last_finalized < m /\ m <= top <=> m \in gone
    BY <1>2, <1>7, <1>9, <1>3 DEF Skipped
<1>11. Remains(Entries, unverified_headers', unverified_headers, gone)
    BY <1>0, <1>1, <1>2, <1>5, <1>9, OutputRemains
<1>12. PICK len \in Nat, rest \in Nat :
          /\ len = Len(unverified_headers) /\ rest = Len(unverified_headers')
          /\ DOMAIN unverified_headers = 1 .. len /\ DOMAIN unverified_headers' = 1 .. rest
    <2>1. unverified_headers \in Seq(Entries) /\ unverified_headers' \in Seq(Entries)
        BY <1>1, <1>11 DEF Remains, Typed
    <2>2. \A s \in Seq(Entries) : Len(s) \in Nat /\ DOMAIN s = 1 .. Len(s)
        OBVIOUS
    <2> QED
        BY <2>1, <2>2
<1>13. /\ unverified_headers' \in Seq(Entries)
       /\ \A i \in 1 .. rest : \E k \in 1 .. len : unverified_headers'[i] = unverified_headers[k]
       /\ \A k \in 1 .. len : unverified_headers[k].number \notin gone =>
              \E i \in 1 .. rest : unverified_headers'[i] = unverified_headers[k]
       /\ \A n \in Nat : Once(unverified_headers, n) => Once(unverified_headers', n)
       /\ \A n \in gone : Once(unverified_headers, n) => Nowhere(unverified_headers', n)
    BY <1>11, <1>12 DEF Remains
<1>14. Numbers' \subseteq Numbers
    <2>1. \A y \in Numbers' : \E i \in 1 .. rest : unverified_headers'[i].number = y
        BY <1>12 DEF Numbers
    <2>2. \A k \in 1 .. len : unverified_headers[k].number \in Numbers
        BY <1>12 DEF Numbers
    <2> QED
        BY <1>13, <2>1, <2>2
<1>15. \A i \in 1 .. rest, k \in 1 .. len :
           unverified_headers'[i] = unverified_headers[k] => (Wrong(i)' <=> Wrong(k))
    BY DEF Wrong
<1>16. \A j \in Nat : ~Twice(j) => Once(unverified_headers, j)
    BY <1>12 DEF Once, Twice
<1>17. justifications' \in Seq(Blocks) /\ Increasing(justifications')
    <2>1. Front(justifications) \in Seq(Blocks)
        BY <1>8, FrontFacts
    <2>2. Increasing(Front(justifications))
        BY <1>6, <1>8, FrontOrder DEF JustificationOrder
    <2> QED
        BY <1>5, <2>1, <2>2
<1>18. /\ Range(justifications') \subseteq Range(justifications)
       /\ Waiting' \subseteq Waiting /\ Waiting \subseteq Nat /\ top \in Waiting
    BY <1>1, <1>3, <1>5, RunningFacts DEF Waiting
<1>19. ASSUME NEW c \in Nat, Sealed(c) PROVE Sealed(c)' /\ c < top
    <2>1. c < top
        BY <1>3, <1>19
    <2>2. ASSUME NEW t \in Range(justifications), t < c PROVE t \in Range(justifications')
        BY <1>3, <1>5, <1>7, <2>1, <2>2
    <2> QED
        BY <1>5, <1>14, <1>18, <1>19, <2>1, <2>2, SealedStays DEF Sealed
<1>20. ~Twice(top) /\ top \notin Range(headers)
    <2>1. ~Twice(top)
        BY <1>6, <1>18 DEF Single
    <2> QED
        BY <1>3, <2>1 DEF Twice
<1>21. \A m \in Range(headers) : top < m
    <2> SUFFICES ASSUME NEW m \in Range(headers), m <= top PROVE FALSE
        <3>1. Range(headers) \subseteq Nat
            BY <1>1, RunningFacts
        <3> QED
            BY <1>7, <3>1
    <2>1. headers # << >> /\ headers \in Seq(Blocks)
        BY <1>1 DEF Range, Typed
    <2>2. m = Head(headers) \/ m \in Range(Tail(headers))
        BY <2>1, TailFacts
    <2>3. \A y \in Range(Tail(headers)) : Head(headers) < y
        BY <1>1, <1>6, <2>1, NextHeader
    <2>4. Head(headers) \in Nat /\ m \in Nat
        BY <1>1, <2>1, TailFacts, RunningFacts, BlockFacts
    <2>5. Head(headers) <= top
        BY <1>7, <2>2, <2>3, <2>4
    <2>6. top \in Range(headers)
        BY <1>1, <1>3, <1>6, <1>7, <2>1, <2>5, NextHeader
    <2> QED
        BY <1>20, <2>6

<1>22. Typed'
    <2>1. current_valset' \in Valsets
        BY <1>1, <1>5, <1>7 DEF Typed, Valsets
    <2> QED
        BY <1>1, <1>3, <1>5, <1>13, <1>17, <2>1 DEF Typed
<1>23. \A i \in 1 .. rest : Wrong(i)' =>
           /\ unverified_headers'[i].number \in Changes
           /\ \A c \in Changes : c = unverified_headers'[i].number => Sealed(c)' /\ c < top
    <2> SUFFICES ASSUME NEW i \in 1 .. rest, Wrong(i)'
                 PROVE  /\ unverified_headers'[i].number \in Changes
                        /\ \A c \in Changes : c = unverified_headers'[i].number =>
                               Sealed(c)' /\ c < top
        OBVIOUS
    <2>1. PICK k \in 1 .. len : unverified_headers'[i] = unverified_headers[k]
        BY <1>13
    <2>2. Wrong(k)
        BY <1>15, <2>1
    <2>3. /\ unverified_headers[k].number \in Changes
          /\ \A c \in Changes : c = unverified_headers[k].number => Sealed(c)
        BY <1>6, <1>12, <2>2 DEF WrongSealed
    <2> QED
        BY <1>7, <1>19, <2>1, <2>3
<1>24. \A i \in 1 .. rest : Wrong(i)' => ~(last_finalized' < unverified_headers'[i].number)
    BY <1>5, <1>7, <1>23
<1>25. FirstTrue'
    BY <1>12, <1>24 DEF FirstTrue
<1>26. WrongSealed'
    BY <1>5, <1>7, <1>12, <1>23 DEF WrongSealed
<1>27. HeaderQueue'
    BY <1>5, <1>6, <1>14 DEF HeaderQueue
<1>28. JustificationOrder'
    BY <1>5, <1>6, <1>17, <1>18 DEF JustificationOrder
<1>29. IdleTop'
    BY <1>5 DEF IdleTop
<1>30. Single'
    <2> SUFFICES ASSUME NEW j \in Waiting, ~Twice(j) PROVE ~Twice(j)'
        BY <1>6, <1>18 DEF Single
    <2>1. j \in Nat
        BY <1>18
    <2>2. Once(unverified_headers', j)
        BY <1>13, <1>16, <2>1
    <2>3. ~(j \in Numbers' /\ j \in Range(headers'))
        BY <1>5, <1>14 DEF Twice
    <2> QED
        BY <1>12, <2>2, <2>3 DEF Twice, Once
<1>31. Ahead'
    <2>1. \A j \in Range(justs) : top < j
        BY <1>3, <1>6 DEF JustificationOrder
    <2>2. top \notin Waiting'
        BY <1>3, <1>5, <1>7, <2>1 DEF Waiting
    <2>3. ASSUME NEW j \in Range(justifications'), j \in Numbers' \cup Range(headers)
          PROVE  FALSE
        <3>1. j < top /\ j \in Waiting /\ j \in Nat
            BY <1>3, <1>5, <1>18 DEF Waiting
        <3>2. j \in Numbers'
            BY <1>7, <1>21, <2>3, <3>1
        <3>3. last_finalized < j
            BY <1>6, <1>14, <1>18, <3>2 DEF Ahead
        <3>4. j \in gone
            BY <1>7, <1>10, <3>1, <3>3
        <3>5. Nowhere(unverified_headers', j)
            BY <1>6, <1>13, <1>16, <3>1, <3>4 DEF Single
        <3> QED
            BY <1>12, <3>2, <3>5 DEF Nowhere, Numbers
    <2> QED
        BY <1>3, <1>5, <2>1, <2>2, <2>3 DEF Ahead
<1>32. OldSealed'
    BY <1>5, <1>6, <1>7, <1>19 DEF OldSealed
<1>33. HeadReceived'
    <2> SUFFICES ASSUME nodeHead \in Changes, nodeHead \notin Range(headers)
                 PROVE  /\ top < nodeHead => Kept(nodeHead)'
                        /\ next_valset = NoValset => Sealed(nodeHead)'
        BY <1>5 DEF HeadReceived, Kept, Sealed
    <2>1. ASSUME top < nodeHead PROVE Kept(nodeHead)'
        <3>1. last_finalized < nodeHead /\ nodeHead \notin gone
            BY <1>3, <1>7, <1>10, <2>1
        <3>2. PICK k \in 1 .. len : unverified_headers[k].number = nodeHead /\ ~Wrong(k)
            BY <1>6, <1>12, <3>1 DEF HeadReceived, Kept
        <3>3. PICK i \in 1 .. rest : unverified_headers'[i] = unverified_headers[k]
            BY <1>13, <3>1, <3>2
        <3>4. ~Wrong(i)' /\ unverified_headers'[i].number = nodeHead'
            BY <1>5, <1>15, <3>2, <3>3
        <3> QED
            BY <1>12, <3>4 DEF Kept
    <2>2. ASSUME next_valset = NoValset PROVE Sealed(nodeHead)'
        <3>1. Sealed(nodeHead)
            BY <1>6, <2>2 DEF HeadReceived
        <3> QED
            BY <1>5, <1>7, <1>19, <3>1 DEF Sealed
    <2> QED
        BY <2>1, <2>2
<1>34. ~ChangeAgain
    <2>1. ChangeAgain => Sealed(nodeHead)
        BY DEF ChangeAgain
    <2> QED
        BY <1>3, <1>7, <2>1
<1>35. SetIdFor(top) = SetIdFor(nodeHead)
    <2>1. \A c \in Changes : ~(top <= c /\ c < nodeHead)
        BY <1>3, <1>6, <1>7 DEF OldSealed
    <2> QED
        BY <1>3, <1>7, <2>1, SteadySetId
<1>36. ActiveKnown'
    <2>0. Slack' = Slack /\ Slack \in Nat
        BY <1>1, <1>5, SlackFacts DEF Slack
    <2>1. CASE next_valset # NoValset
        <3>1. ActiveValset' = ActiveValset
            BY <1>5, <2>1 DEF ActiveValset
        <3> QED
            BY <1>5, <1>6, <1>34, <2>0, <3>1 DEF ActiveKnown, AllReceived, ChangeToCome, Active
    <2>2. CASE next_valset = NoValset
        <3>1. /\ ActiveValset'.set_id = SetIdFor(top)
              /\ ActiveValset'.validator_set = ActiveValset.validator_set
            BY <1>1, <1>5, <2>2 DEF ActiveValset, Typed, Valsets
        <3>2. CASE AllReceived
            <4>1. nodeHead \notin Changes
                <5> SUFFICES ASSUME nodeHead \in Changes PROVE FALSE
                    OBVIOUS
                <5>1. Sealed(nodeHead)
                    BY <1>6, <2>2, <3>2 DEF AllReceived, HeadReceived
                <5> QED
                    BY <1>3, <1>7, <5>1
            <4>2. SetIdFor(top) = SetIdAt(nodeHead)
                BY <1>7, <1>35, <4>1, SetIds
            <4> QED
                BY <1>5, <1>7, <2>0, <3>1, <3>2, <4>1, <4>2
                   DEF ActiveKnown, AllReceived, Active
        <3>3. CASE ChangeToCome
            BY <1>5, <1>7, <1>35, <2>0, <3>1, <3>3 DEF ActiveKnown, ChangeToCome, Active
        <3> QED
            BY <1>6, <1>34, <3>2, <3>3 DEF ActiveKnown
    <2> QED
        BY <2>1, <2>2
<1> QED
    BY <1>22, <1>25, <1>26, <1>27, <1>28, <1>29, <1>30, <1>31, <1>32, <1>33, <1>36
       DEF LoopInv, Running

(* The loop dies fetching a skipped header: what it leaves behind.         *)
LEMMA SkippedFetchPanicKeeps ==
    ASSUME LoopInv, SkippedFetchPanic
    PROVE  LoopInv'
<1>0. status = "running" /\ TopMatches
    BY DEF SkippedFetchPanic, TopMatches, Verifying
<1>1. Typed /\ FirstTrue /\ Running
    BY <1>0 DEF LoopInv
<1>2. PICK top, pos : top = Top /\ pos = TopPosition
    OBVIOUS
<1>3. /\ top \in Blocks /\ pos \in 1 .. Len(unverified_headers)
      /\ unverified_headers[pos].number = top
      /\ last_finalized < top
      /\ \A c \in Nat : Sealed(c) => c < top
      /\ TopCheck = [ok |-> TRUE, set_id |-> SetIdFor(top)]
    BY <1>0, <1>1, <1>2, TopFacts
<1>4. /\ UNCHANGED <<nodeHead, headers, justs, reconnects, next_valset, last_finalized>>
      /\ status' = "rpc_panic"
      /\ justifications' = Front(justifications) /\ justifications # << >>
      /\ current_valset' = [current_valset EXCEPT !.set_id = SetIdFor(top)]
      /\ unverified_headers' = SwapRemove(unverified_headers, pos)
    BY <1>2, <1>3 DEF SkippedFetchPanic, PopTop, AdoptSetId, streamVars, Remaining, TopMatches
<1>5. PICK len \in Nat : len = Len(unverified_headers)
                         /\ DOMAIN unverified_headers = 1 .. len
    BY <1>1 DEF Typed
<1>6. /\ unverified_headers' \in Seq(Entries) /\ DOMAIN unverified_headers' = 1 .. (len - 1)
      /\ \A i \in 1 .. (len - 1) : unverified_headers'[i] =
             IF i = pos THEN unverified_headers[len] ELSE unverified_headers[i]
    <2>1. unverified_headers \in Seq(Entries)
        BY <1>1 DEF Typed
    <2>2. /\ SwapRemove(unverified_headers, pos) \in Seq(Entries)
          /\ Len(SwapRemove(unverified_headers, pos)) = len - 1
          /\ \A i \in 1 .. (len - 1) : SwapRemove(unverified_headers, pos)[i] =
                 IF i = pos THEN unverified_headers[len] ELSE unverified_headers[i]
        BY <1>3, <1>5, <2>1, SwapRemoveFacts
    <2> QED
        BY <1>4, <2>2
<1>7. Typed'
    <2>1. SetIdFor(top) \in Nat
        BY <1>3, BlockFacts, SetIds
    <2>2. current_valset' \in Valsets
        BY <1>1, <1>4, <2>1 DEF Typed, Valsets
    <2>3. Front(justifications) \in Seq(Blocks)
        BY <1>1, <1>4, FrontFacts DEF Typed
    <2> QED
        BY <1>1, <1>4, <1>6, <2>2, <2>3 DEF Typed
<1>8. \A i \in 1 .. (len - 1), k \in 1 .. len :
          unverified_headers'[i] = unverified_headers[k] => (Wrong(i)' <=> Wrong(k))
    BY DEF Wrong
<1>9. ASSUME NEW i \in 1 .. len, Wrong(i)
      PROVE  unverified_headers[i].number \in Nat /\ unverified_headers[i].number < top
             /\ (last_finalized < unverified_headers[i].number =>
                    \A k \in 1 .. len :
                        k < i => unverified_headers[k].number <= unverified_headers[i].number)
    BY <1>1, <1>3, <1>5, <1>9, RunningFacts DEF Running, WrongSealed
<1>10. FirstTrue'
    <2> SUFFICES ASSUME NEW i \in 1 .. (len - 1), Wrong(i)',
                        last_finalized < unverified_headers'[i].number
                 PROVE  \E k \in 1 .. (len - 1) :
                            /\ k < i /\ ~Wrong(k)'
                            /\ unverified_headers'[k].number = unverified_headers'[i].number
        BY <1>4, <1>6 DEF FirstTrue
    <2>1. CASE i = pos
        <3>1. len \in 1 .. len /\ unverified_headers'[i] = unverified_headers[len] /\ pos < len
            BY <1>5, <1>6, <2>1
        <3>2. Wrong(len)
            BY <1>8, <3>1
        <3>3. unverified_headers[pos].number <= unverified_headers[len].number
            BY <1>3, <1>5, <1>9, <3>1, <3>2
        <3>4. unverified_headers[len].number \in Nat /\ unverified_headers[len].number < top
            BY <1>9, <3>1, <3>2
        <3>5. top \in Nat
            BY <1>3, BlockFacts
        <3> QED
            BY <1>3, <3>3, <3>4, <3>5
    <2>2. CASE i # pos
        <3>1. i \in 1 .. len /\ unverified_headers'[i] = unverified_headers[i]
            BY <1>5, <1>6, <2>2
        <3>2. Wrong(i)
            BY <1>8, <3>1
        <3>3. PICK k \in 1 .. len : k < i /\ ~Wrong(k)
                        /\ unverified_headers[k].number = unverified_headers[i].number
            BY <1>1, <1>5, <3>1, <3>2 DEF FirstTrue
        <3>4. k # pos
            <4>1. unverified_headers[i].number \in Nat /\ unverified_headers[i].number < top
                BY <1>9, <3>1, <3>2
            <4> QED
                BY <1>3, <3>3, <4>1, BlockFacts
        <3>5. k \in 1 .. (len - 1) /\ unverified_headers'[k] = unverified_headers[k]
            BY <1>5, <1>6, <3>3, <3>4
        <3>6. ~Wrong(k)'
            BY <1>8, <3>3, <3>5
        <3> QED
            BY <3>1, <3>3, <3>5, <3>6
    <2> QED
        BY <2>1, <2>2
<1> QED
    BY <1>4, <1>7, <1>10 DEF LoopInv

(* No step leads out of the invariant, however often the node is lost.     *)
THEOREM LoopInvariant ==
    ASSUME SteadyNode
    PROVE  Spec /\ [][FewRepeats]_vars => []LoopInv
<1>1. Init => LoopInv
    BY LoopInit
<1>2. LoopInv /\ [Next]_vars /\ [FewRepeats]_vars => LoopInv'
    <2> SUFFICES ASSUME LoopInv, [Next]_vars, [FewRepeats]_vars PROVE LoopInv'
        OBVIOUS
    <2>1. CASE UNCHANGED vars
        BY <2>1, StutterKeeps
    <2>2. CASE Next /\ FewRepeats
        <3>1. CASE NodeFinalizes
            BY <3>1, NodeFinalizesKeeps
        <3>2. CASE ReceiveHeader
            BY <3>2, ReceiveHeaderKeeps
        <3>3. CASE ReceiveJustification
            BY <3>3, ReceiveJustificationKeeps
        <3>4. CASE NothingToVerify
            BY <3>4, NothingToVerifyKeeps
        <3>5. CASE VerifyBlock
            BY <3>5, VerifyBlockKeeps
        <3>6. CASE SkippedFetchPanic
            BY <3>6, SkippedFetchPanicKeeps
        <3>7. CASE Reconnect
            BY <2>2, <3>7, ReconnectKeeps
        <3>8. CASE StreamFails
            BY <3>8, StreamFailsKeeps
        <3>9. CASE Terminated
            BY <3>9, StutterKeeps DEF Terminated
        <3> QED
            BY <2>2, <3>1, <3>2, <3>3, <3>4, <3>5, <3>6, <3>7, <3>8, <3>9 DEF Next
    <2> QED
        BY <2>1, <2>2
<1> QED
    BY <1>1, <1>2, PTL DEF Spec

(* Up to two reconnections that repeat a change need no assumption on      *)
(* when they happen.                                                       *)
FewReconnects == MaxReconnects + StartsAtChange <= 2

(* The bound on reconnections implies the one on repeated changes.         *)
LEMMA FewReconnectsSuffice ==
    ASSUME FewReconnects
    PROVE  Spec => [][FewRepeats]_vars
<1> DEFINE Counted == reconnects \in Nat
<1>1. Init => Counted
    BY DEF Init
<1>2. Counted /\ [Next]_vars => Counted'
    <2> SUFFICES ASSUME Counted, [Next]_vars PROVE Counted'
        OBVIOUS
    <2>1. CASE UNCHANGED vars
        BY <2>1 DEF vars, streamVars
    <2>2. CASE Reconnect
        BY <2>2 DEF Reconnect
    <2>3. CASE Next /\ ~Reconnect
        BY <2>3 DEF Next, NodeFinalizes, ReceiveHeader, ReceiveJustification, NothingToVerify,
                    VerifyBlock, PopTop, SkippedFetchPanic, StreamFails, Terminated,
                    vars, streamVars
    <2> QED
        BY <2>1, <2>2, <2>3
<1>3. Counted /\ [Next]_vars => [FewRepeats]_vars
    <2> SUFFICES ASSUME Counted, RepeatsChange PROVE reconnects + StartsAtChange < 2
        BY DEF FewRepeats
    <2>1. reconnects < MaxReconnects /\ MaxReconnects \in Nat /\ StartsAtChange \in Nat
        BY LoopAssumption DEF RepeatsChange, Reconnect, StartsAtChange
    <2> QED
        BY <2>1 DEF FewReconnects
<1> QED
    BY <1>1, <1>2, <1>3, PTL DEF Spec

(* A true entry is the first of its block, or no wrong one is found.       *)
LEMMA LoopInvImplies ==
    ASSUME LoopInv
    PROVE  NoFinalityPanic /\ TrueAuthorities
<1>1. NoFinalityPanic
    BY DEF LoopInv, Typed, NoFinalityPanic
<1>2. ASSUME NEW n \in (last_finalized + 1) .. MaxBlock,
             Position(unverified_headers, n) # 0
      PROVE  LET valset == unverified_headers[Position(unverified_headers, n)].valset
             IN  /\ valset.validator_set = Authorities[SetIdFor(n) + 1]
                 /\ SetIdFor(n) \in CandidateSetIds(valset.set_id)
    <2> DEFINE pos == Position(unverified_headers, n)
    <2>1. unverified_headers \in Seq(Entries) /\ last_finalized \in Nat
        BY BlockFacts DEF LoopInv, Typed
    <2>2. /\ pos \in 1 .. Len(unverified_headers) /\ unverified_headers[pos].number = n
          /\ \A i \in 1 .. Len(unverified_headers) :
                 i < pos => unverified_headers[i].number # n
        BY <1>2, <2>1, PositionFacts
    <2> HIDE DEF pos
    <2>3. DOMAIN unverified_headers = 1 .. Len(unverified_headers)
        BY <2>1
    <2>4. last_finalized < n /\ n \in Nat
        BY <2>1
    <2>5. ~Wrong(pos)
        BY <2>2, <2>3, <2>4 DEF LoopInv, FirstTrue
    <2>6. Finalizes(unverified_headers[pos].valset, n)
        BY <2>2, <2>5 DEF Wrong
    <2>7. unverified_headers[pos].valset.set_id \in Nat
        <3>1. unverified_headers[pos] \in Entries
            BY <2>1, <2>2
        <3> QED
            BY <3>1 DEF Entries, Valsets
    <2>8. SetIdFor(n) \in Nat
        BY <2>4, SetIds
    <2> QED
        BY <2>6, <2>7, <2>8, CandidatesReach DEF Finalizes, pos
<1>3. TrueAuthorities
    BY <1>2 DEF TrueAuthorities
<1> QED
    BY <1>1, <1>3

(* check_finality(..).expect(..) of the loop never panics, for every chain, *)
(* if the node's finalized head never moves back, no change is lost, and   *)
(* reconnections repeat a change at most twice (counting a start at one);  *)
(* with at most two reconnections in all, whenever they happen.            *)
THEOREM FinalityNeverPanics ==
    ASSUME SteadyNode
    PROVE  /\ Spec /\ [][FewRepeats]_vars => []NoFinalityPanic
           /\ FewReconnects => (Spec => []NoFinalityPanic)
<1>1. Spec /\ [][FewRepeats]_vars => []NoFinalityPanic
    BY LoopInvariant, LoopInvImplies, PTL
<1>2. ASSUME FewReconnects PROVE Spec => []NoFinalityPanic
    BY <1>1, <1>2, FewReconnectsSuffice, PTL
<1> QED
    BY <1>1, <1>2

(* Under the same conditions, every header still to be verified waits with *)
(* the authorities that finalize its block, under a set id from which      *)
(* check_finality reaches the one that its votes were signed for.          *)
THEOREM AuthoritiesAreTrue ==
    ASSUME SteadyNode
    PROVE  /\ Spec /\ [][FewRepeats]_vars => []TrueAuthorities
           /\ FewReconnects => (Spec => []TrueAuthorities)
<1>1. Spec /\ [][FewRepeats]_vars => []TrueAuthorities
    BY LoopInvariant, LoopInvImplies, PTL
<1>2. ASSUME FewReconnects PROVE Spec => []TrueAuthorities
    BY <1>1, <1>2, FewReconnectsSuffice, PTL
<1> QED
    BY <1>1, <1>2
=============================================================================
