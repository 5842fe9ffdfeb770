------------------------------ MODULE Submission ------------------------------
(***************************************************************************)
(* Submitting data through a node with a nonce of the client's own. Every  *)
(* POST /v2/submit and every submit over a web socket is a call of its     *)
(* own; an attempt reads the counter, waits until the transaction is in a  *)
(* block or has failed, and sets the counter to the nonce it used plus     *)
(* one, whatever came of it; with_retries attempts again after an error.   *)
(* Main sets the counter to the nonce the node expects at every start.     *)
(* Transactions that a client signed itself carry their nonce and leave    *)
(* the counter alone.                                                      *)
(***************************************************************************)
EXTENDS Naturals, FiniteSets

CONSTANTS
    Submits,        \* bound: calls
    UsedNonces,     \* what the account may have used before: each is tried
    MaxAttempts     \* bound: attempts with_retries makes for a call

SubmissionAssumption == UsedNonces \subseteq Nat

VARIABLES
    signer_nonce,   \* SignerNonceKey
    account_nonce,  \* of the signer, on chain
    pool,           \* nonces of transactions that wait for an earlier one
    submits,        \* [call -> [at, nonce, attempts]]
    lost            \* did an attempt fail, since the start, before its
                    \*   transaction got to a node?

submit_vars == <<signer_nonce, account_nonce, pool, submits, lost>>

Init ==
    /\ account_nonce \in UsedNonces /\ signer_nonce = account_nonce
    /\ pool = {} /\ lost = FALSE
    /\ submits = [s \in Submits |-> [at |-> "new", nonce |-> 0, attempts |-> 0]]

(* The handlers refuse a client without an application, and an empty       *)
(* transaction over a socket.                                              *)
Refuse(s) ==
    /\ submits[s].at = "new"
    /\ submits' = [submits EXCEPT ![s].at = "refused"]
    /\ UNCHANGED <<signer_nonce, account_nonce, pool, lost>>

StartAttempt(s) ==
    /\ submits[s].at \in {"new", "retry"} /\ submits[s].attempts < MaxAttempts
    /\ submits' = [submits EXCEPT ![s] =
          [at |-> "signed", nonce |-> signer_nonce, attempts |-> @.attempts + 1]]
    /\ UNCHANGED <<signer_nonce, account_nonce, pool, lost>>

(* The nonce expected after n: transactions in the pool follow at once.    *)
After(n) == {k \in n + 1 .. n + 1 + Cardinality(pool) :
                k \notin pool /\ \A i \in n + 1 .. k - 1 : i \in pool}

(* The node takes the transaction: into a block, into its pool when an     *)
(* earlier nonce is missing, or not at all when the nonce is used.         *)
NodeTakes(s) ==
    LET n == submits[s].nonce IN
    /\ submits[s].at = "signed"
    /\ submits' = [submits EXCEPT ![s].at =
          IF n = account_nonce THEN "included" ELSE IF n > account_nonce THEN "pooled" ELSE "stale"]
    /\ account_nonce' \in IF n = account_nonce THEN After(n) ELSE {account_nonce}
    /\ pool' = {k \in IF n > account_nonce THEN pool \cup {n} ELSE pool : k >= account_nonce'}
    /\ UNCHANGED <<signer_nonce, lost>>

(* The connection breaks before the node has the transaction.              *)
SendFails(s) ==
    /\ submits[s].at = "signed"
    /\ submits' = [submits EXCEPT ![s].at = "unsent"]
    /\ lost' = TRUE
    /\ UNCHANGED <<signer_nonce, account_nonce, pool>>

(* Mutant: the counter is read again before it is advanced.                *)
CountUp(nonce) == signer_nonce' = signer_nonce + 1

Advance(nonce) == signer_nonce' = nonce + 1

(* The attempt ends: with the inclusion, or with an error, also when the   *)
(* answer to an inclusion is lost.                                         *)
EndAttempt(s, ok) ==
    /\ submits[s].at \in {"included", "pooled", "stale", "unsent"}
    /\ ok => submits[s].at = "included"
    /\ Advance(submits[s].nonce)
    /\ submits' = [submits EXCEPT ![s].at = IF ok THEN "submitted" ELSE "retry"]
    /\ UNCHANGED <<account_nonce, pool, lost>>

(* The process ends and starts again: the calls in flight are gone, what   *)
(* waits in the pool is not, and the nonce is read from the node.          *)
Restart ==
    /\ submits' = [s \in Submits |->
          IF submits[s].at \in {"new", "refused", "submitted"} THEN submits[s]
          ELSE [submits[s] EXCEPT !.at = "gone"]]
    /\ signer_nonce' = account_nonce /\ lost' = FALSE
    /\ UNCHANGED <<account_nonce, pool>>

Next ==
    \/ \E s \in Submits : Refuse(s) \/ StartAttempt(s) \/ NodeTakes(s) \/ SendFails(s)
    \/ \E s \in Submits, ok \in BOOLEAN : EndAttempt(s, ok)
    \/ Restart

Spec == Init /\ [][Next]_submit_vars

-----------------------------------------------------------------------------
(* The counter is ahead of the account, so that nothing can be included    *)
(* any more until the next start, only if an attempt failed before a node  *)
(* had its transaction: however concurrent calls, retries, lost answers    *)
(* and restarts fall, each attempt advances the counter to the nonce it    *)
(* used plus one and no further (client.rs 829-844, main.rs 207-214).      *)
CounterIsAheadOnlyAfterLoss == ~lost => signer_nonce <= account_nonce
=============================================================================
