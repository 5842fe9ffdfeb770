---------------------------- MODULE Shutdown_proofs ----------------------------
(***************************************************************************)
(* The Controller of core/src/shutdown.rs, proved for every number of      *)
(* tasks, waiters, tokens and reasons: its type, that its counter is the   *)
(* number of tokens alive, that no wakeup is lost, that completion is      *)
(* final, and that it implements what its documentation promises.          *)
(***************************************************************************)
EXTENDS Shutdown, FiniteSetTheorems, TLAPS

IInv == TypeOK /\ TokensCounted

LEMMA TypeInit == Init => TypeOK
BY ShutdownAssumption DEF Init, TypeOK, All, Outcomes

(* The three ways to touch the lists of wakers keep their types.           *)
LEMMA ShutdownTypes ==
    ASSUME TypeOK, NEW r \in Reasons, shutdown(r)
    PROVE  /\ reason' \in Reasons
           /\ on_shutdown_trigger' \subseteq Tasks
           /\ on_shutdown_complete' \subseteq Waiters
           /\ woken' \subseteq All /\ woken \subseteq woken'
BY ShutdownAssumption DEF TypeOK, shutdown, NotifyComplete, All

LEMMA TypeNext == TypeOK /\ [Next]_vars => TypeOK'
<1> SUFFICES ASSUME TypeOK, [Next]_vars PROVE TypeOK'
    OBVIOUS
<1>1. ASSUME NEW r \in Reasons, trigger_shutdown(r) PROVE TypeOK'
    BY <1>1, ShutdownTypes DEF trigger_shutdown, TypeOK, triggers
<1>2. ASSUME NEW k \in Tokens, increment_delay_tokens(k) PROVE TypeOK'
    BY <1>2 DEF increment_delay_tokens, TypeOK, triggers
<1>3. ASSUME NEW k \in Tokens, DropDelayToken(k) PROVE TypeOK'
    BY <1>3 DEF DropDelayToken, SaturatingSub, NotifyComplete, TypeOK, triggers, All
<1>4. ASSUME NEW g \in Triggers, CloneTrigger(g) \/ ForgetTrigger(g) PROVE TypeOK'
    BY <1>4 DEF CloneTrigger, ForgetTrigger, TypeOK, controller
<1>5. ASSUME NEW g \in Triggers, DropTrigger(g) PROVE TypeOK'
    <2>1. cell' \in [Triggers -> Reasons \cup {NoReason}] /\ copies' \in [Triggers -> Nat]
        BY <1>5 DEF DropTrigger, TypeOK
    <2>2. cell[g] # NoReason => cell[g] \in Reasons
        BY DEF TypeOK
    <2> QED
        BY <1>5, <2>1, <2>2, ShutdownTypes DEF DropTrigger, TypeOK
<1>6. ASSUME NEW t \in Tasks, InnerReady(t) PROVE TypeOK'
    BY <1>6 DEF InnerReady, TypeOK, controller, triggers, All
<1>7. ASSUME NEW t \in Tasks, PollWithCancel(t) PROVE TypeOK'
    BY <1>7 DEF PollWithCancel, Resolve, RegisterSignal, TypeOK, triggers, All, Outcomes
<1>8. ASSUME NEW w \in Waiters, PollCompleted(w) PROVE TypeOK'
    BY <1>8 DEF PollCompleted, Resolve, TypeOK, triggers, All, Outcomes, is_shutdown_completed
<1>9. ASSUME NEW t \in All, SpuriousWake(t) PROVE TypeOK'
    BY <1>9 DEF SpuriousWake, TypeOK, controller, triggers, All
<1>10. CASE Finished \/ UNCHANGED vars
    BY <1>10 DEF Finished, TypeOK, vars, controller, triggers
<1> QED
    BY <1>1, <1>2, <1>3, <1>4, <1>5, <1>6, <1>7, <1>8, <1>9, <1>10
    DEF Next, delay_token, CloneDelayToken

(* Every variable of the controller keeps its type.                        *)
THEOREM TypeCorrect == Spec => []TypeOK
BY TypeInit, TypeNext, PTL DEF Spec

-----------------------------------------------------------------------------
LEMMA CountInit == Init => TokensCounted
BY FS_EmptySet DEF Init, TokensCounted

LEMMA CountNext == IInv /\ [Next]_vars => TokensCounted'
<1> SUFFICES ASSUME TypeOK, TokensCounted, [Next]_vars PROVE TokensCounted'
    BY DEF IInv
<1>1. IsFiniteSet(tokens)
    BY ShutdownAssumption, FS_Subset DEF TypeOK
<1>2. ASSUME NEW k \in Tokens, increment_delay_tokens(k) PROVE TokensCounted'
    BY <1>1, <1>2, FS_AddElement DEF increment_delay_tokens, TokensCounted
<1>3. ASSUME NEW k \in Tokens, DropDelayToken(k) PROVE TokensCounted'
    <2>1. k \in tokens /\ tokens' = tokens \ {k} /\ delay_tokens' = SaturatingSub(delay_tokens)
        BY <1>3 DEF DropDelayToken
    <2>2. Cardinality(tokens \ {k}) = Cardinality(tokens) - 1
        BY <1>1, <2>1, FS_RemoveElement
    <2>3. Cardinality(tokens \ {k}) \in Nat
        BY <1>1, FS_RemoveElement, FS_CardinalityType
    <2> QED
        BY <2>1, <2>2, <2>3 DEF TokensCounted, SaturatingSub, TypeOK
<1>4. ASSUME UNCHANGED <<delay_tokens, tokens>> PROVE TokensCounted'
    BY <1>4 DEF TokensCounted
<1>5. ASSUME NEW r \in Reasons, trigger_shutdown(r) PROVE TokensCounted'
    BY <1>4, <1>5 DEF trigger_shutdown
<1>6. ASSUME NEW g \in Triggers, CloneTrigger(g) \/ DropTrigger(g) \/ ForgetTrigger(g)
      PROVE  TokensCounted'
    BY <1>4, <1>6 DEF CloneTrigger, DropTrigger, ForgetTrigger, controller
<1>7. ASSUME NEW t \in Tasks, InnerReady(t) \/ PollWithCancel(t) PROVE TokensCounted'
    BY <1>4, <1>7 DEF InnerReady, PollWithCancel, controller
<1>8. ASSUME NEW w \in Waiters, PollCompleted(w) PROVE TokensCounted'
    BY <1>4, <1>8 DEF PollCompleted
<1>9. ASSUME NEW t \in All, SpuriousWake(t) PROVE TokensCounted'
    BY <1>4, <1>9 DEF SpuriousWake, controller
<1>10. CASE Finished \/ UNCHANGED vars
    BY <1>4, <1>10 DEF Finished, vars, controller
<1> QED
    BY <1>2, <1>3, <1>5, <1>6, <1>7, <1>8, <1>9, <1>10
    DEF Next, delay_token, CloneDelayToken

LEMMA IInvInductive == (Init => IInv) /\ (IInv /\ [Next]_vars => IInv')
BY TypeInit, TypeNext, CountInit, CountNext DEF IInv

(* The counter is the number of delay tokens alive, whatever the order of  *)
(* creations, clones and drops.                                            *)
THEOREM CountsTokens == Spec => []TokensCounted
<1>1. IInv => TokensCounted
    BY DEF IInv
<1> QED
    BY IInvInductive, <1>1, PTL DEF Spec

-----------------------------------------------------------------------------
(* How one step moves the two variables the promise is about.              *)
LEMMA ControllerStep ==
    ASSUME IInv, [Next]_vars
    PROVE  \/ UNCHANGED <<reason, delay_tokens>>
           \/ /\ reason = NoReason /\ reason' \in Reasons
              /\ UNCHANGED delay_tokens
           \/ /\ ~is_shutdown_completed
              /\ UNCHANGED reason
              /\ delay_tokens' \in Nat
              /\ reason # NoReason => delay_tokens # 0
<1> DEFINE Goal == \/ UNCHANGED <<reason, delay_tokens>>
                   \/ /\ reason = NoReason /\ reason' \in Reasons
                      /\ UNCHANGED delay_tokens
                   \/ /\ ~is_shutdown_completed
                      /\ UNCHANGED reason
                      /\ delay_tokens' \in Nat
                      /\ reason # NoReason => delay_tokens # 0
<1>0. TypeOK'
    BY TypeNext DEF IInv
<1>1. ASSUME NEW r \in Reasons, trigger_shutdown(r) PROVE Goal
    BY <1>1 DEF trigger_shutdown, shutdown
<1>2. ASSUME NEW k \in Tokens, delay_token(k) PROVE Goal
    BY <1>0, <1>2 DEF delay_token, MayDelay, increment_delay_tokens, TypeOK,
        is_shutdown_completed
<1>3. ASSUME tokens # {} PROVE delay_tokens # 0
    <2>1. IsFiniteSet(tokens)
        BY ShutdownAssumption, FS_Subset DEF TypeOK, IInv
    <2> QED
        BY <1>3, <2>1, FS_EmptySet DEF IInv, TokensCounted
<1>4. ASSUME NEW k \in Tokens, CloneDelayToken(k) PROVE Goal
    BY <1>0, <1>3, <1>4 DEF CloneDelayToken, increment_delay_tokens, TypeOK,
        is_shutdown_completed
<1>5. ASSUME NEW k \in Tokens, DropDelayToken(k) PROVE Goal
    BY <1>0, <1>3, <1>5 DEF DropDelayToken, TypeOK, is_shutdown_completed
<1>6. ASSUME NEW g \in Triggers, DropTrigger(g) PROVE Goal
    <2>1. cell[g] # NoReason => cell[g] \in Reasons
        BY DEF IInv, TypeOK
    <2> QED
        BY <1>6, <2>1 DEF DropTrigger, shutdown
<1>7. ASSUME NEW g \in Triggers, CloneTrigger(g) \/ ForgetTrigger(g) PROVE Goal
    BY <1>7 DEF CloneTrigger, ForgetTrigger, controller
<1>8. ASSUME NEW t \in Tasks, InnerReady(t) \/ PollWithCancel(t) PROVE Goal
    BY <1>8 DEF InnerReady, PollWithCancel, controller
<1>9. ASSUME NEW w \in Waiters, PollCompleted(w) PROVE Goal
    BY <1>9 DEF PollCompleted
<1>10. ASSUME NEW t \in All, SpuriousWake(t) PROVE Goal
    BY <1>10 DEF SpuriousWake, controller
<1>11. CASE Finished \/ UNCHANGED vars
    BY <1>11 DEF Finished, vars, controller
<1> QED
    BY <1>1, <1>2, <1>4, <1>5, <1>6, <1>7, <1>8, <1>9, <1>10, <1>11 DEF Next

(* A completed shutdown stays complete.                                    *)
THEOREM CompletesForGood == Spec => CompletionIsFinal
<1>1. IInv /\ [Next]_vars => [is_shutdown_completed => is_shutdown_completed']_vars
    BY ControllerStep DEF is_shutdown_completed
<1> QED
    BY IInvInductive, <1>1, PTL DEF Spec, CompletionIsFinal

(* The controller implements the promise: triggered once, for one reason,  *)
(* completed once and only after that.                                     *)
THEOREM ImplementsPromise == Spec => KeepsPromise
<1>1. Init => Promise!Init
    BY DEF Init, Promise!Init
<1>2. IInv /\ [Next]_vars => [Promise!Next]_(Promise!vars)
    <2> SUFFICES ASSUME IInv, [Next]_vars PROVE [Promise!Next]_(Promise!vars)
        OBVIOUS
    <2> QED
        BY ControllerStep, ShutdownAssumption DEF Promise!Next, Promise!Trigger,
            Promise!Complete, Promise!vars, is_shutdown_completed
<1> QED
    BY IInvInductive, <1>1, <1>2, PTL DEF Spec, KeepsPromise, Promise!Spec

-----------------------------------------------------------------------------
LEMMA WakeupInit == Init => NoLostWakeup
BY DEF Init, NoLostWakeup, Parked, All

LEMMA WakeupNext == IInv /\ NoLostWakeup /\ [Next]_vars => NoLostWakeup'
<1> SUFFICES ASSUME IInv, TypeOK, NoLostWakeup, [Next]_vars PROVE NoLostWakeup'
    BY DEF IInv
<1> USE DEF NoLostWakeup, Parked, Pending, is_shutdown_completed
<1>1. ASSUME NEW r \in Reasons, shutdown(r), UNCHANGED <<delay_tokens, inner, outcome>>
      PROVE  NoLostWakeup'
    BY <1>1 DEF shutdown, NotifyComplete
<1>2. ASSUME NEW r \in Reasons, trigger_shutdown(r) PROVE NoLostWakeup'
    BY <1>1, <1>2 DEF trigger_shutdown
<1>3. ASSUME NEW k \in Tokens, delay_token(k) PROVE NoLostWakeup'
    BY <1>3 DEF delay_token, increment_delay_tokens, TypeOK
<1>4. ASSUME NEW k \in Tokens, CloneDelayToken(k) PROVE NoLostWakeup'
    BY <1>4 DEF CloneDelayToken, increment_delay_tokens, TypeOK
<1>5. ASSUME NEW k \in Tokens, DropDelayToken(k) PROVE NoLostWakeup'
    BY <1>5 DEF DropDelayToken, NotifyComplete
<1>6. ASSUME NEW g \in Triggers, DropTrigger(g) PROVE NoLostWakeup'
    <2>1. cell[g] # NoReason => cell[g] \in Reasons
        BY DEF TypeOK
    <2> QED
        BY <1>1, <1>6, <2>1 DEF DropTrigger
<1>7. ASSUME NEW g \in Triggers, CloneTrigger(g) \/ ForgetTrigger(g) PROVE NoLostWakeup'
    BY <1>7 DEF CloneTrigger, ForgetTrigger, controller
<1>8. ASSUME NEW t \in Tasks, InnerReady(t) PROVE NoLostWakeup'
    BY <1>8 DEF InnerReady, controller, TypeOK
<1>9. ASSUME NEW t \in Tasks, PollWithCancel(t) PROVE NoLostWakeup'
    BY <1>9, ShutdownAssumption DEF PollWithCancel, Resolve, RegisterSignal, TypeOK, All, Outcomes
<1>10. ASSUME NEW w \in Waiters, PollCompleted(w) PROVE NoLostWakeup'
    BY <1>10, ShutdownAssumption DEF PollCompleted, Resolve, TypeOK, All, Outcomes
<1>11. ASSUME NEW t \in All, SpuriousWake(t) PROVE NoLostWakeup'
    BY <1>11 DEF SpuriousWake, controller
<1>12. CASE Finished \/ UNCHANGED vars
    BY <1>12 DEF Finished, vars, controller
<1> QED
    BY <1>2, <1>3, <1>4, <1>5, <1>6, <1>7, <1>8, <1>9, <1>10, <1>11, <1>12 DEF Next

(* Nobody sleeps through what it waits for: a parked task has its waker    *)
(* registered, and what it waits for has not happened.                     *)
THEOREM WakeupsAreNotLost == Spec => []NoLostWakeup
<1>1. IInv /\ NoLostWakeup /\ [Next]_vars => (IInv /\ NoLostWakeup)'
    BY IInvInductive, WakeupNext
<1>2. Init => IInv /\ NoLostWakeup
    BY IInvInductive, WakeupInit
<1> QED
    BY <1>1, <1>2, PTL DEF Spec
=============================================================================
