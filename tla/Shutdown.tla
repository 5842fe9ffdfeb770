------------------------------- MODULE Shutdown -------------------------------
(***************************************************************************)
(* core/src/shutdown.rs and the futures of core/src/shutdown/: one         *)
(* Controller, the delay tokens and trigger tokens made from it, the tasks *)
(* wrapped in with_cancel and the tasks that await completed_shutdown.     *)
(*                                                                         *)
(* Every method locks the one mutex for its whole body, and wakers are     *)
(* woken under it, so every method is one step. A task is resolved, woken  *)
(* (the executor will poll it) or parked; the two vectors of wakers hold a *)
(* task's waker or not, however often.                                     *)
(***************************************************************************)
EXTENDS Naturals, FiniteSets

CONSTANTS
    Reasons, NoReason,  \* the reasons given, and the None of reason
    Tokens,         \* delay tokens: what can be alive at once
    Triggers,       \* families of trigger tokens: a token and its clones
    MaxCopies,      \* bound: clones of one trigger token alive at once
    Tasks,          \* tasks wrapped in with_cancel
    Waiters         \* tasks that await completed_shutdown

ASSUME ShutdownAssumption ==
    /\ Reasons \cap {NoReason, "pending", "ok"} = {}
    /\ IsFiniteSet(Tokens)
    /\ MaxCopies \in Nat
    /\ Tasks \cap Waiters = {}

VARIABLES
    reason, delay_tokens, on_shutdown_trigger, on_shutdown_complete,
    tokens,         \* the delay tokens alive
    cell, copies,   \* of a trigger family: the shared reason, tokens alive
    woken,          \* the tasks the executor is going to poll
    inner,          \* has the future wrapped in with_cancel its value?
    outcome         \* what a task resolved to: "pending", "ok" or a reason

controller == <<reason, delay_tokens, on_shutdown_trigger, on_shutdown_complete>>
triggers   == <<cell, copies>>
vars       == <<controller, tokens, triggers, woken, inner, outcome>>

All == Tasks \cup Waiters
Pending(t) == outcome[t] = "pending"
Parked(t)  == Pending(t) /\ t \notin woken

Init ==
    /\ reason = NoReason /\ delay_tokens = 0
    /\ on_shutdown_trigger = {} /\ on_shutdown_complete = {}
    /\ tokens = {}
    /\ cell \in [Triggers -> Reasons] /\ copies = [g \in Triggers |-> 1]
    /\ woken = All
    /\ inner = [t \in Tasks |-> FALSE]
    /\ outcome = [t \in All |-> "pending"]

-----------------------------------------------------------------------------
is_shutdown_completed == reason # NoReason /\ delay_tokens = 0

(* Mutant: the tasks that await completion are dropped without a wake.     *)
NoNotify(alreadyWoken) ==
    /\ woken' = alreadyWoken
    /\ on_shutdown_complete' = {}

(* notify_shutdown_complete, on top of the tasks already woken.            *)
NotifyComplete(alreadyWoken) ==
    /\ woken' = alreadyWoken \cup on_shutdown_complete
    /\ on_shutdown_complete' = {}

(* Mutant: a later reason replaces the first one.                          *)
LastReason(r) ==
    /\ reason' = r
    /\ on_shutdown_trigger' = {}
    /\ IF delay_tokens = 0 THEN NotifyComplete(woken \cup on_shutdown_trigger)
       ELSE woken' = woken \cup on_shutdown_trigger /\ UNCHANGED on_shutdown_complete

(* ControllerInner::shutdown: Err, and nothing happens, if the shutdown    *)
(* has started.                                                            *)
shutdown(r) ==
    IF reason # NoReason
    THEN UNCHANGED <<reason, on_shutdown_trigger, on_shutdown_complete, woken>>
    ELSE /\ reason' = r
         /\ on_shutdown_trigger' = {}
         /\ IF delay_tokens = 0
            THEN NotifyComplete(woken \cup on_shutdown_trigger)
            ELSE /\ woken' = woken \cup on_shutdown_trigger
                 /\ UNCHANGED on_shutdown_complete

trigger_shutdown(r) ==
    /\ shutdown(r)
    /\ UNCHANGED <<delay_tokens, tokens, triggers, inner, outcome>>

-----------------------------------------------------------------------------

(* The test of delay_token: Err once the shutdown has completed.           *)
MayDelay == ~(delay_tokens = 0 /\ reason # NoReason)

increment_delay_tokens(k) ==
    /\ k \notin tokens
    /\ tokens' = tokens \cup {k}
    /\ delay_tokens' = delay_tokens + 1
    /\ UNCHANGED <<reason, on_shutdown_trigger, on_shutdown_complete, triggers,
                   woken, inner, outcome>>

delay_token(k) == MayDelay /\ increment_delay_tokens(k)

(* DelayToken::clone asks nothing: there is a token to clone.              *)
CloneDelayToken(k) == tokens # {} /\ increment_delay_tokens(k)

SaturatingSub(n) == IF n = 0 THEN 0 ELSE n - 1

(* Drop of a delay token, by itself or with the WithDelay that holds it    *)
(* (at the latest when its future is ready).                               *)
DropDelayToken(k) ==
    /\ k \in tokens
    /\ tokens' = tokens \ {k}
    /\ delay_tokens' = SaturatingSub(delay_tokens)
    /\ IF delay_tokens' = 0 THEN NotifyComplete(woken)
       ELSE UNCHANGED <<woken, on_shutdown_complete>>
    /\ UNCHANGED <<reason, on_shutdown_trigger, triggers, inner, outcome>>

-----------------------------------------------------------------------------
CloneTrigger(g) ==
    /\ copies[g] \in 1 .. (MaxCopies - 1)
    /\ copies' = [copies EXCEPT ![g] = @ + 1]
    /\ UNCHANGED <<controller, tokens, cell, woken, inner, outcome>>

(* Drop of a trigger token, by itself or with the WithTrigger that holds   *)
(* it: the first one takes the reason the family shares.                   *)
DropTrigger(g) ==
    /\ copies[g] > 0
    /\ copies' = [copies EXCEPT ![g] = @ - 1]
    /\ cell' = [cell EXCEPT ![g] = NoReason]
    /\ IF cell[g] = NoReason
       THEN UNCHANGED <<reason, on_shutdown_trigger, on_shutdown_complete, woken>>
       ELSE shutdown(cell[g])
    /\ UNCHANGED <<delay_tokens, tokens, inner, outcome>>

ForgetTrigger(g) ==
    /\ copies[g] > 0
    /\ copies' = [copies EXCEPT ![g] = @ - 1]
    /\ UNCHANGED <<controller, tokens, cell, woken, inner, outcome>>

-----------------------------------------------------------------------------
(* The wrapped future gets what it waits for, and wakes its task.          *)
InnerReady(t) ==
    /\ Pending(t) /\ ~inner[t]
    /\ inner' = [inner EXCEPT ![t] = TRUE]
    /\ woken' = woken \cup {t}
    /\ UNCHANGED <<controller, tokens, triggers, outcome>>

(* A task is polled although nothing it waits for has happened.            *)
SpuriousWake(t) ==
    /\ Parked(t)
    /\ woken' = woken \cup {t}
    /\ UNCHANGED <<controller, tokens, triggers, inner, outcome>>

Resolve(t, value) ==
    /\ outcome' = [outcome EXCEPT ![t] = value]
    /\ UNCHANGED <<on_shutdown_trigger, on_shutdown_complete>>

(* Mutant: the waker is only kept if there is none yet.                    *)
RegisterFirst(t) == on_shutdown_trigger' =
    IF on_shutdown_trigger = {} THEN {t} ELSE on_shutdown_trigger

(* The end of Signal::poll: the task's earlier waker is replaced.          *)
RegisterSignal(t) == on_shutdown_trigger' = on_shutdown_trigger \cup {t}

(* WithCancel::poll, and Signal::poll in it: the wrapped future first.     *)
PollWithCancel(t) ==
    /\ t \in woken /\ Pending(t)
    /\ woken' = woken \ {t}
    /\ IF inner[t] THEN Resolve(t, "ok")
       ELSE IF reason # NoReason THEN Resolve(t, reason)
       ELSE /\ RegisterSignal(t)
            /\ UNCHANGED <<outcome, on_shutdown_complete>>
    /\ UNCHANGED <<reason, delay_tokens, tokens, triggers, inner>>

PollCompleted(w) ==
    /\ w \in woken /\ Pending(w)
    /\ woken' = woken \ {w}
    /\ IF is_shutdown_completed THEN Resolve(w, reason)
       ELSE /\ on_shutdown_complete' = on_shutdown_complete \cup {w}
            /\ UNCHANGED <<outcome, on_shutdown_trigger>>
    /\ UNCHANGED <<reason, delay_tokens, tokens, triggers, inner>>

-----------------------------------------------------------------------------
Finished ==
    /\ \A t \in All : ~Pending(t)
    /\ is_shutdown_completed
    /\ UNCHANGED vars

Next ==
    \/ \E r \in Reasons : trigger_shutdown(r)
    \/ \E k \in Tokens : delay_token(k) \/ CloneDelayToken(k) \/ DropDelayToken(k)
    \/ \E g \in Triggers : CloneTrigger(g) \/ DropTrigger(g) \/ ForgetTrigger(g)
    \/ \E t \in Tasks : InnerReady(t) \/ PollWithCancel(t)
    \/ \E w \in Waiters : PollCompleted(w)
    \/ \E t \in All : SpuriousWake(t)
    \/ Finished

(* The executor polls every woken task.                                    *)
Fairness ==
    /\ \A t \in Tasks : WF_vars(PollWithCancel(t))
    /\ \A w \in Waiters : WF_vars(PollCompleted(w))

Spec == Init /\ [][Next]_vars
FairSpec == Spec /\ Fairness

-----------------------------------------------------------------------------
Outcomes == {"pending", "ok"} \cup Reasons

TypeOK ==
    /\ reason \in Reasons \cup {NoReason}
    /\ delay_tokens \in Nat
    /\ on_shutdown_trigger \subseteq Tasks /\ on_shutdown_complete \subseteq Waiters
    /\ tokens \subseteq Tokens
    /\ cell \in [Triggers -> Reasons \cup {NoReason}]
    /\ copies \in [Triggers -> Nat]
    /\ woken \subseteq All
    /\ inner \in [Tasks -> BOOLEAN]
    /\ outcome \in [All -> Outcomes]

(* No task sleeps on: whoever is parked waits for what has not happened    *)
(* yet, and its waker is where it will be found when it does.              *)
NoLostWakeup ==
    /\ \A t \in Tasks : Parked(t) =>
           reason = NoReason /\ ~inner[t] /\ t \in on_shutdown_trigger
    /\ \A w \in Waiters : Parked(w) =>
           ~is_shutdown_completed /\ w \in on_shutdown_complete

(* The counter is the number of delay tokens alive: clones and drops in    *)
(* any order never make it drift, and its subtraction never saturates.     *)
TokensCounted == delay_tokens = Cardinality(tokens)

(* Completion is final: no token is made or cloned after it, so what the   *)
(* waiters go on to release is not used again.                             *)
CompletionIsFinal == [][is_shutdown_completed => is_shutdown_completed']_vars

(* The controller keeps the promise of ShutdownPromise.                    *)
Promise == INSTANCE ShutdownPromise WITH
               phase <- IF reason = NoReason THEN "running"
                        ELSE IF delay_tokens = 0 THEN "completed" ELSE "triggered"
KeepsPromise == Promise!Spec

(* When the shutdown has completed, all who await that go on.              *)
AllWaitersReleased ==
    \A w \in Waiters : is_shutdown_completed ~> ~Pending(w)
=============================================================================
