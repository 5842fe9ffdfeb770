-------------------------- MODULE SubscriptionLoop --------------------------
(***************************************************************************)
(* core/src/network/rpc/subscriptions.rs together with the stream it       *)
(* consumes (Client::subscription_stream and create_rpc_subscriptions of   *)
(* core/src/network/rpc/client.rs).                                        *)
(*                                                                         *)
(* Two subscriptions of one node, finalized headers and GRANDPA            *)
(* justifications, are merged in an arbitrary order. The loop keeps the    *)
(* headers it cannot verify yet with the validator set that was current    *)
(* when they came in, keeps the justifications it cannot match yet on a    *)
(* stack, and puts out every block up to a justified one. A justification  *)
(* is represented by the block it justifies.                               *)
(***************************************************************************)
EXTENDS GrandpaChain, SequencesExt

CONSTANTS
    Start,          \* the finalized head when SubscriptionLoop::new ran
    MaxReconnects,  \* bound: how often the stream is created again
    MaxLag,         \* how far behind a newly connected node may be
    MaxGap,         \* how many finalized blocks a reconnection may miss
    MaxBuffered,    \* bound: items waiting in one subscription
    PromptChanges,  \* whether the node finalizes the block after an authority
                    \* change only once the loop is done with that change
    LosesChanges,   \* whether a reconnection may miss a change of authorities
    RpcMayFail,     \* whether get_header_by_block_number may exhaust retries
    NoValset        \* the None of next_valset

ASSUME LoopAssumption ==
    /\ Start \in Blocks
    /\ {MaxReconnects, MaxLag, MaxGap, MaxBuffered} \subseteq Nat
    /\ {PromptChanges, LosesChanges, RpcMayFail} \subseteq BOOLEAN
    /\ NoValset \notin [set_id : Nat, validator_set : SUBSET Nat]

VARIABLES
    nodeHead,       \* finalized head of the node we are connected to
    headers,        \* finalized headers waiting in subscription 0
    justs,          \* justifications waiting in subscription 1
    last_stream, per_stream_count,          \* the stall detector
    reconnects,
    pc,             \* "idle", or "verify": in verify_and_output_block_headers
    status,         \* "running", "stopped", "finality_panic", "rpc_panic"
    justifications, unverified_headers,     \* BlockData
    current_valset, next_valset, last_finalized,
    finality_synced,                        \* local of the verification loop
    latest_header, verified_header,         \* LatestHeaderKey, VerifiedHeaderKey
    is_finality_synced, checkpoint,         \* IsFinalitySyncedKey, checkpoint
    emitted         \* the blocks sent in HeaderUpdate events so far

streamVars == <<nodeHead, headers, justs, last_stream, per_stream_count, reconnects>>
blockData  == <<justifications, unverified_headers, current_valset, next_valset,
                last_finalized, finality_synced>>
dbVars     == <<latest_header, verified_header, is_finality_synced, checkpoint>>
vars       == <<streamVars, pc, status, blockData, dbVars, emitted>>

NoRange == [first |-> 0, last |-> 0]   \* VerifiedHeaderKey is absent

-----------------------------------------------------------------------------
(* SubscriptionLoop::new, and the first subscriptions: the header stream   *)
(* may begin with the current finalized head or with the block after it.   *)
Init ==
    /\ nodeHead = Start
    /\ headers \in {<< >>, <<Start>>}
    /\ justs = << >>
    /\ last_stream = 0 /\ per_stream_count = 0 /\ reconnects = 0
    /\ pc = "idle" /\ status = "running"
    /\ justifications = << >> /\ unverified_headers = << >>
    /\ current_valset = Valset(SetIdAt(Start)) /\ next_valset = NoValset
    /\ last_finalized = Start
    /\ finality_synced = FALSE
    /\ latest_header = Start /\ verified_header = NoRange
    /\ is_finality_synced \in BOOLEAN
    /\ checkpoint = [number |-> 0, set_id |-> 0, validator_set |-> Authorities[1]]
    /\ emitted = {}

-----------------------------------------------------------------------------
(* Nothing of block n is still on its way to or inside the loop.           *)
Settled(n) == pc = "idle" /\ ~Contains(headers, n) /\ ~Contains(justs, n)

(* The node finalizes one more block. A block that changes the authorities *)
(* always gets a justification; for others GRANDPA may skip it.            *)
NodeFinalizes ==
    /\ status = "running"
    /\ nodeHead < MaxBlock
    /\ Len(headers) < MaxBuffered /\ Len(justs) < MaxBuffered
    /\ PromptChanges /\ nodeHead \in Changes => Settled(nodeHead)
    /\ nodeHead' = nodeHead + 1
    /\ headers' = Append(headers, nodeHead + 1)
    /\ \/ justs' = Append(justs, nodeHead + 1)
       \/ nodeHead + 1 \notin Changes /\ UNCHANGED justs
    /\ UNCHANGED <<last_stream, per_stream_count, reconnects, pc, status,
                   blockData, dbVars, emitted>>

(* Processes inside the node (take_while in create_rpc_subscriptions): the *)
(* third item beyond the first from the same stream ends the stream.       *)
NotStalled(stream) == last_stream # stream \/ per_stream_count + 1 < 3

CountItem(stream) ==
    /\ last_stream' = stream
    /\ per_stream_count' = IF last_stream # stream THEN 0 ELSE per_stream_count + 1

Idle == status = "running" /\ pc = "idle"

(* Mutant: an announced set never becomes the current one.                 *)
StaleValset == current_valset

(* If a new validator set became active, it replaces the current one.      *)
ActiveValset == IF next_valset # NoValset THEN next_valset ELSE current_valset

(* The local flag every call of verify_and_output_block_headers begins     *)
(* with.                                                                   *)
InitialFlag == FALSE

(* The Header arm of handle_new_subscription.                              *)
ReceiveHeader ==
    /\ Idle /\ headers # << >> /\ NotStalled(0)
    /\ CountItem(0)
    /\ headers' = Tail(headers)
    /\ LET n   == Head(headers)
           cur == ActiveValset
       IN  /\ latest_header' = n
           /\ current_valset' = cur
           /\ unverified_headers' =
                  Append(unverified_headers, [number |-> n, valset |-> cur])
           /\ next_valset' =
                  IF NewAuthorities(n) = {} THEN NoValset
                  ELSE [set_id |-> cur.set_id + 1,
                        validator_set |-> NewAuthorities(n)]
    /\ pc' = "verify" /\ finality_synced' = InitialFlag
    /\ UNCHANGED <<nodeHead, justs, reconnects, status, justifications,
                   last_finalized, verified_header, is_finality_synced,
                   checkpoint, emitted>>

(* The Justification arm of handle_new_subscription.                       *)
ReceiveJustification ==
    /\ Idle /\ justs # << >> /\ NotStalled(1)
    /\ CountItem(1)
    /\ justs' = Tail(justs)
    /\ justifications' = Append(justifications, Head(justs))
    /\ pc' = "verify" /\ finality_synced' = InitialFlag
    /\ UNCHANGED <<nodeHead, headers, reconnects, status, unverified_headers,
                   current_valset, next_valset, last_finalized, dbVars, emitted>>

-----------------------------------------------------------------------------
(* verify_and_output_block_headers: one iteration per justification.       *)

SwapRemove(s, i) ==
    IF i = Len(s) THEN Front(s) ELSE [Front(s) EXCEPT ![i] = Last(s)]

Position(hs, n) == SelectInSeq(hs, LAMBDA h : h.number = n)

(* Mutants: the range starts one late, or ends at the next block.          *)
SkippedLate(n) == (last_finalized + 2) .. (n - 1)

Skipped(n) == (last_finalized + 1) .. (n - 1)

(* The first header of block n is taken out, if there is one.              *)
Without(hs, n) ==
    IF Position(hs, n) = 0 THEN hs ELSE SwapRemove(hs, Position(hs, n))

(* The skipped blocks, one after the other, take their headers from the    *)
(* unverified ones if they are there.                                      *)
TakeSkipped(hs, n) ==
    LET left[bl \in last_finalized .. (n - 1)] ==
            IF bl = last_finalized THEN hs ELSE Without(left[bl - 1], bl)
    IN  IF Skipped(n) = {} THEN hs ELSE left[n - 1]

Verifying == status = "running" /\ pc = "verify"

(* Mutant: a justification without a header is thrown away.                *)
DroppedMiss == IF justifications = << >> THEN << >> ELSE Front(justifications)

(* What is left of the stack when its top has no header: all of it, the    *)
(* justification is pushed back.                                           *)
StackAfterMiss == justifications

(* The stack is empty, or its top has no header yet and goes back.         *)
NothingToVerify ==
    /\ Verifying
    /\ justifications # << >>
          => Position(unverified_headers, Last(justifications)) = 0
    /\ justifications' = StackAfterMiss
    /\ pc' = "idle"
    /\ UNCHANGED <<streamVars, status, unverified_headers, current_valset,
                   next_valset, last_finalized, finality_synced, dbVars, emitted>>

(* The justification on top of the stack, the place of the first header    *)
(* of its block, and the verdict of check_finality on the two.             *)
Top         == Last(justifications)
TopPosition == Position(unverified_headers, Top)
TopCheck    == CheckFinality(unverified_headers[TopPosition].valset,
                             Justification[Top])

(* The top of the stack is popped, its header is found and swap-removed:   *)
(* the headers that remain.                                                *)
TopMatches == Verifying /\ justifications # << >> /\ TopPosition # 0
Remaining  == SwapRemove(unverified_headers, TopPosition)

PopTop ==
    /\ justifications' = Front(justifications)
    /\ UNCHANGED <<streamVars, pc, next_valset, latest_header, is_finality_synced>>

(* check_finality(..).expect("Finality check failed") panics.              *)
FinalityPanic ==
    /\ status' = "finality_panic"
    /\ unverified_headers' = Remaining
    /\ UNCHANGED <<current_valset, last_finalized, finality_synced,
                   verified_header, checkpoint, emitted>>

(* What follows a check that succeeds: adopt the set id that it returns,   *)
(* and store the checkpoint or look up whether finality is synced.         *)
AdoptSetId ==
    /\ current_valset' = [current_valset EXCEPT !.set_id = TopCheck.set_id]
    /\ IF finality_synced
       THEN /\ checkpoint' = [number |-> Top, set_id |-> TopCheck.set_id,
                              validator_set |-> current_valset.validator_set]
            /\ UNCHANGED finality_synced
       ELSE finality_synced' = is_finality_synced /\ UNCHANGED checkpoint

(* The block of the justification goes out, after those skipped below it.  *)
OutputTop ==
    /\ AdoptSetId
    /\ unverified_headers' = TakeSkipped(Remaining, Top)
    /\ last_finalized' = Top
    /\ verified_header' = [first |-> IF verified_header = NoRange
                                     THEN Top ELSE verified_header.first,
                           last |-> Top]
    /\ emitted' = emitted \cup Skipped(Top) \cup {Top}
    /\ UNCHANGED status

VerifyBlock ==
    /\ TopMatches /\ PopTop
    /\ IF TopCheck.ok THEN OutputTop ELSE FinalityPanic

(* get_header_by_block_number(..).await.unwrap() panics on the first       *)
(* skipped block that cannot be fetched; those before it went out.         *)
SkippedFetchPanic ==
    /\ RpcMayFail
    /\ TopMatches /\ PopTop
    /\ TopCheck.ok /\ AdoptSetId
    /\ \E missing \in Skipped(Top) :
          /\ Position(Remaining, missing) = 0
          /\ emitted' = emitted \cup (last_finalized + 1) .. (missing - 1)
    /\ unverified_headers' = Remaining
    /\ status' = "rpc_panic"
    /\ UNCHANGED <<last_finalized, verified_header>>

-----------------------------------------------------------------------------
(* An error, the 30 s timeout, or the stall detector (which drops the item *)
(* it stopped at) ends the merged stream.                                  *)

(* The header of block c has not been received, and is finalized at the    *)
(* node we are connected to now.                                           *)
Unseen(c) == \/ Contains(headers, c)
             \/ nodeHead < c /\ c <= nodeHead'

(* with_retries finds a node: both subscriptions start over at its head.   *)
Reconnect ==
    /\ Idle /\ reconnects < MaxReconnects
    /\ reconnects' = reconnects + 1
    /\ nodeHead' \in {h \in Blocks : nodeHead <= h + MaxLag /\ h <= nodeHead + MaxGap}
    /\ headers' \in {<< >>, <<nodeHead'>>}
    /\ LosesChanges \/ \A c \in Changes : Unseen(c) => Contains(headers', c)
    /\ justs' = << >>
    /\ last_stream' = 0 /\ per_stream_count' = 0
    /\ UNCHANGED <<pc, status, blockData, dbVars, emitted>>

(* with_retries gives up: the stream yields the error and ends, run        *)
(* returns it, and the trigger the task is wrapped in shuts down.          *)
StreamFails ==
    /\ Idle
    /\ status' = "stopped"
    /\ UNCHANGED <<streamVars, pc, blockData, dbVars, emitted>>

Terminated == status # "running" /\ UNCHANGED vars

Next ==
    \/ NodeFinalizes
    \/ ReceiveHeader \/ ReceiveJustification
    \/ NothingToVerify \/ VerifyBlock \/ SkippedFetchPanic
    \/ Reconnect \/ StreamFails
    \/ Terminated

(* The runtime keeps polling the loop's one task, and with it the stream.  *)
Fairness == WF_vars(\/ ReceiveHeader \/ ReceiveJustification
                    \/ NothingToVerify \/ VerifyBlock)

Spec == Init /\ [][Next]_vars
FairSpec == Spec /\ Fairness

(***************************************************************************)
(* Properties of the loop's output, and of what it relies on to make it.   *)
(***************************************************************************)

(* Every block between the trusted start and the newest block put out has  *)
(* been put out too, whatever the order of headers and justifications,     *)
(* the blocks GRANDPA skipped and the reconnections.                       *)
NoGapInOutput == \A n \in emitted : (Start + 1) .. n \subseteq emitted

(* The finality check the loop treats as impossible to fail never fails.   *)
NoFinalityPanic == status # "finality_panic"

(* The header a justification of a block still to come will be matched     *)
(* with waits with the authorities that really finalize the block, and     *)
(* with a set id from which check_finality still reaches the real one.     *)
TrueAuthorities ==
    \A n \in (last_finalized + 1) .. MaxBlock :
        LET pos    == Position(unverified_headers, n)
            valset == unverified_headers[pos].valset
        IN  pos # 0 =>
              /\ valset.validator_set = Authorities[SetIdFor(n) + 1]
              /\ SetIdFor(n) \in CandidateSetIds(valset.set_id)

(* A justification the node has sent leads to its block being put out,     *)
(* unless the loop stops; the last reconnection is past, because each one  *)
(* throws away what waits in the subscriptions.                            *)
JustifiedBlocksComeOut ==
    \A n \in Blocks :
        Contains(justs, n) /\ reconnects = MaxReconnects
            ~> (n \in emitted \/ status # "running")
=============================================================================
