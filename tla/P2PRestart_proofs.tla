--------------------------- MODULE P2PRestart_proofs ---------------------------
(***************************************************************************)
(* At most one event loop can be reached at any time, and the client that  *)
(* is shared is served: for any number of restarts, callers and peers, and *)
(* for restarts that fail.                                                 *)
(***************************************************************************)
EXTENDS P2PRestart, SequenceTheorems, TLAPS

(* Types of what the steps below look at.                                  *)
Typed ==
    /\ loop \in [Gens -> {"none", "running", "closing", "gone"}]
    /\ call \in [Everyone -> Calls \cup {NoCall}]
    /\ p2p_client \in Gens \cup {NoGen} /\ clone \in Gens \cup {NoGen, Untaken}
    /\ current_shutdown \in Gens /\ started \in Gens
    /\ manager \in {"idle", "stopping", "waiting", "starting"}
    /\ triggered \subseteq Gens /\ boot \in Seq(Peers)

(* What exists has been started.                                           *)
UpToStarted ==
    /\ current_shutdown <= started
    /\ clone \in Gens => clone <= started
    /\ \A c \in Everyone : call[c] # NoCall => call[c].gen <= started
    /\ manager \in {"stopping", "waiting"} => started < MaxGen

(* The phases of the manager: the loop that ends is told to, and has ended *)
(* before the next runs, which nobody tells to end while it starts.        *)
Phases ==
    /\ \A g \in triggered : g <= current_shutdown
    /\ manager = "waiting" => current_shutdown \in triggered
    /\ manager = "starting" =>
        /\ current_shutdown < started /\ Runs(started)
        /\ p2p_client = NoGen /\ ~Runs(current_shutdown)

(* Whoever can reach a loop that runs reaches the one of the controller    *)
(* the manager has, or is the manager that starts another one.             *)
Reached ==
    /\ clone \in Gens /\ Runs(clone) => clone = current_shutdown
    /\ \A c \in Everyone, g \in Gens :
        Runs(g) /\ Waits(c, g) =>
            g = current_shutdown \/ (manager = "starting" /\ g = started /\ c = Manager)

(* A client that is shared is not one that was told to end, unless the     *)
(* manager waits for that.                                                 *)
Shared ==
    p2p_client \in Gens /\ current_shutdown \in triggered => manager = "waiting"

IInv == Typed /\ UpToStarted /\ Phases /\ Reached /\ Shared /\ SharedClientIsServed

-----------------------------------------------------------------------------
LEMMA InitIInv == Init => IInv
<1> SUFFICES ASSUME Init PROVE IInv
    OBVIOUS
<1>1. 1 \in Gens /\ NoGen \notin Gens /\ Untaken \notin Gens
    BY EventLoopAssumption, RestartAssumption DEF Gens
<1>2. Typed
    BY <1>1, RestartAssumption DEF Init, LoopInit, Typed
<1>3. UpToStarted /\ Phases /\ Reached /\ Shared /\ SharedClientIsServed
    BY <1>1, <1>2 DEF Init, LoopInit, UpToStarted, Phases, Reached, Shared, Typed,
        SharedClientIsServed, Waits, Runs
<1> QED
    BY <1>2, <1>3 DEF IInv

(* Calls of a step that starts none: each is as it was, or has ended.      *)
NoNewCalls ==
    /\ call' \in [Everyone -> Calls \cup {NoCall}]
    /\ \A c \in Everyone :
        call'[c] # NoCall => call[c] # NoCall /\ call'[c].gen = call[c].gen

LEMMA AnswerEnds ==
    ASSUME Typed, NEW who, NEW a, Answer(who, a)
    PROVE  NoNewCalls
BY DEF Answer, NoNewCalls, Typed

LEMMA NoLongerQueued ==
    ASSUME Typed, NEW c \in Everyone, call[c] # NoCall
    PROVE  /\ [call[c] EXCEPT !.queued = FALSE] \in Calls
           /\ [call[c] EXCEPT !.queued = FALSE].gen = call[c].gen
BY DEF Typed, Calls

(* What a loop does at a command or an event of its swarm changes neither  *)
(* loops nor controllers and starts no calls.                              *)
LEMMA LoopStepCalls ==
    ASSUME Typed, NEW g \in Gens, LoopStep(g)
    PROVE  NoNewCalls /\ UNCHANGED <<loop, triggered, life>>
<1> USE AnswerEnds
<1>1. ASSUME Command(g) PROVE NoNewCalls /\ UNCHANGED <<loop, triggered>>
    <2>1. ASSUME NEW c \in Everyone, NEW p \in Peers, DialRefused(g, c, p)
          PROVE  NoNewCalls /\ UNCHANGED <<loop, triggered>>
        BY <2>1 DEF DialRefused, loops
    <2>2. ASSUME NEW c \in Everyone, NEW p \in Peers, Dial(g, c, p)
          PROVE  NoNewCalls /\ UNCHANGED <<loop, triggered>>
        <3>1. call[c] # NoCall
            BY <2>2 DEF Dial, Takes, Waits
        <3>2. \A d \in Everyone : call'[d] =
                IF d = c THEN [call[c] EXCEPT !.queued = FALSE]
                ELSE IF d \in Dialling(g, p) THEN NoCall ELSE call[d]
            BY <2>2 DEF Dial
        <3>3. call' \in [Everyone -> Calls \cup {NoCall}]
            BY <2>2, <3>1, NoLongerQueued DEF Dial, Typed
        <3> QED
            BY <2>2, <3>1, <3>2, <3>3, NoLongerQueued DEF Dial, NoNewCalls, loops
    <2>3. ASSUME NEW c \in Everyone, StartQuery(g, c)
          PROVE  NoNewCalls /\ UNCHANGED <<loop, triggered>>
        <3>1. call[c] # NoCall
            BY <2>3 DEF StartQuery, Takes, Waits
        <3>2. call' = [call EXCEPT ![c] = [call[c] EXCEPT !.queued = FALSE]]
            BY <2>3 DEF StartQuery, Typed
        <3> QED
            BY <2>3, <3>1, <3>2, NoLongerQueued DEF StartQuery, NoNewCalls, Typed, loops
    <2>4. ASSUME NEW c \in Everyone, AnswerNow(g, c)
          PROVE  NoNewCalls /\ UNCHANGED <<loop, triggered>>
        BY <2>4 DEF AnswerNow, loops
    <2>5. ASSUME NEW c \in Everyone, Reconfigure(g, c)
          PROVE  NoNewCalls /\ UNCHANGED <<loop, triggered>>
        BY <2>5 DEF Reconfigure
    <2>6. ASSUME NEW c \in Everyone, Listen(g, c)
          PROVE  NoNewCalls /\ UNCHANGED <<loop, triggered>>
        BY <2>6 DEF Listen
    <2>7. ASSUME NEW c \in Everyone, StopListening(g, c)
          PROVE  NoNewCalls /\ UNCHANGED <<loop, triggered>>
        BY <2>7 DEF StopListening
    <2>8. ASSUME Abandoned(g) PROVE NoNewCalls /\ UNCHANGED <<loop, triggered>>
        BY <2>8 DEF Abandoned, NoNewCalls, Typed, loops, clients
    <2> QED
        BY <1>1, <2>1, <2>2, <2>3, <2>4, <2>5, <2>6, <2>7, <2>8 DEF Command
<1>2. ASSUME SwarmEvent(g) PROVE NoNewCalls /\ UNCHANGED <<loop, triggered>>
    BY <1>2 DEF SwarmEvent, ConnectionEstablished, OutgoingConnectionError, Resolve, loops
<1> QED
    BY <1>1, <1>2 DEF LoopStep

(* A call is all that execute_sync starts.                                 *)
LEMMA OneNewCall ==
    ASSUME Typed, NEW c \in Everyone, NEW o \in Ops, NEW g \in Gens, ExecuteSync(c, o, g)
    PROVE  /\ call' \in [Everyone -> Calls \cup {NoCall}]
           /\ call'[c] # NoCall => call'[c].gen = g
           /\ \A d \in Everyone \ {c} : call'[d] = call[d]
<1>1. [op |-> o, gen |-> g, queued |-> TRUE] \in Calls
    BY DEF Calls
<1>2. CASE loop[g] = "gone"
    BY <1>2 DEF ExecuteSync, Answer, Typed
<1>3. CASE loop[g] # "gone"
    <2>1. call' = [call EXCEPT ![c] = [op |-> o, gen |-> g, queued |-> TRUE]]
        BY <1>3 DEF ExecuteSync
    <2>2. call'[c] = [op |-> o, gen |-> g, queued |-> TRUE]
        BY <2>1 DEF Typed
    <2> QED
        BY <1>1, <2>1, <2>2 DEF Typed
<1> QED
    BY <1>2, <1>3

-----------------------------------------------------------------------------
(* Steps that leave the life of the clients alone, and of the loops at     *)
(* most end one that is not served any more.                               *)
LEMMA QuietStep ==
    ASSUME IInv, NoNewCalls, UNCHANGED <<loop, triggered, p2p_client, clone, current_shutdown,
                                         started, manager>>,
           boot' \in Seq(Peers)
    PROVE  IInv'
BY DEF IInv, Typed, UpToStarted, Phases, Reached, Shared, SharedClientIsServed, NoNewCalls,
    Runs, Waits

LEMMA EndingStep ==
    ASSUME IInv, NoNewCalls, UNCHANGED <<triggered, life>>,
           NEW g \in Gens, g \in triggered \/ ~Held(g) \/ ~Runs(g),
           NEW new \in {"closing", "gone"}, loop' = [loop EXCEPT ![g] = new]
    PROVE  IInv'
<1>1. \A h \in Gens : Runs(h)' => h # g /\ Runs(h)
    BY DEF IInv, Typed, Runs
<1>2. \A h \in Gens : h # g /\ Runs(h) => Runs(h)'
    BY DEF IInv, Typed, Runs
<1>3. Typed'
    BY DEF IInv, Typed, NoNewCalls, life
<1>4. UpToStarted'
    BY DEF IInv, UpToStarted, NoNewCalls, life
<1>5. Phases'
    <2>1. manager = "starting" => g # started
        BY DEF IInv, Phases, Held, Typed, Gens
    <2> QED
        BY <1>1, <1>2, <2>1 DEF IInv, Phases, Typed, life
<1>6. Reached'
    BY <1>1 DEF IInv, Reached, NoNewCalls, Waits, life
<1>7. Shared'
    BY DEF IInv, Shared, life
<1>8. SharedClientIsServed'
    <2>1. p2p_client = g => g \in triggered \/ ~Runs(g)
        BY DEF Held
    <2> QED
        BY <1>1, <1>2, <2>1 DEF IInv, Shared, SharedClientIsServed, life
<1> QED
    BY <1>3, <1>4, <1>5, <1>6, <1>7, <1>8 DEF IInv

-----------------------------------------------------------------------------
(* A new call to a loop nobody else starts, stops or keeps meanwhile.      *)
LEMMA CallingStep ==
    ASSUME IInv, NEW c \in Everyone, NEW o \in Ops, NEW g \in Gens, ExecuteSync(c, o, g),
           g <= started, Runs(g) => g = current_shutdown,
           UNCHANGED <<loop, triggered, p2p_client, clone, current_shutdown, started>>,
           boot' \in Seq(Peers),
           \/ UNCHANGED manager
           \/ manager = "idle" /\ manager' = "stopping" /\ started < MaxGen
    PROVE  IInv'
<1>1. /\ call' \in [Everyone -> Calls \cup {NoCall}]
      /\ call'[c] # NoCall => call'[c].gen = g
      /\ \A d \in Everyone \ {c} : call'[d] = call[d]
    BY OneNewCall DEF IInv
<1>2. Typed'
    BY <1>1 DEF IInv, Typed
<1>3. UpToStarted'
    BY <1>1 DEF IInv, UpToStarted
<1>4. Phases' /\ Shared' /\ SharedClientIsServed'
    BY DEF IInv, Phases, Shared, SharedClientIsServed, Runs
<1>5. Reached'
    BY <1>1 DEF IInv, Reached, Waits, Runs
<1> QED
    BY <1>2, <1>3, <1>4, <1>5 DEF IInv

LEMMA BeginIInv == IInv /\ Begin => IInv'
<1> SUFFICES ASSUME IInv, Begin PROVE IInv'
    OBVIOUS
<1>1. UNCHANGED <<loop, triggered, p2p_client, clone, current_shutdown, started, boot>>
    BY DEF Begin, loops
<1>2. boot' \in Seq(Peers)
    BY <1>1 DEF IInv, Typed
<1>3. Manager \in Everyone /\ <<"stop">> \in Ops
    BY DEF Everyone, Ops
<1>4. CASE p2p_client \in Gens
    <2>1. p2p_client = current_shutdown /\ p2p_client <= started
        BY <1>4 DEF IInv, SharedClientIsServed, UpToStarted
    <2>2. ExecuteSync(Manager, <<"stop">>, p2p_client)
        BY <1>4 DEF Begin
    <2>3. manager = "idle" /\ manager' = "stopping" /\ started < MaxGen
        BY DEF Begin
    <2> QED
        BY <1>1, <1>2, <1>3, <1>4, <2>1, <2>2, <2>3, CallingStep
<1>5. CASE p2p_client \notin Gens
    BY <1>1, <1>5 DEF Begin, IInv, Typed, UpToStarted, Phases, Reached, Shared,
        SharedClientIsServed, Runs, Waits
<1> QED
    BY <1>4, <1>5

LEMMA StartLoopIInv == IInv /\ StartLoop => IInv'
<1> SUFFICES ASSUME IInv, StartLoop PROVE IInv'
    OBVIOUS
<1> DEFINE new == started + 1
<1>1. new \in Gens /\ Manager \in Everyone /\ <<"listen">> \in Ops
    BY EventLoopAssumption DEF StartLoop, IInv, Typed, UpToStarted, Gens, Everyone, Ops
<1>2. /\ call' \in [Everyone -> Calls \cup {NoCall}]
      /\ call'[Manager] # NoCall => call'[Manager].gen = new
      /\ \A d \in Everyone \ {Manager} : call'[d] = call[d]
    BY <1>1, OneNewCall DEF StartLoop, IInv
<1>3. \A g \in Gens : Runs(g)' <=> Runs(g) \/ g = new
    BY <1>1 DEF StartLoop, IInv, Typed, Runs
<1>4. ~Runs(current_shutdown) /\ current_shutdown < new /\ current_shutdown # new
    BY DEF StartLoop, Completed, Runs, IInv, Typed, UpToStarted, Gens
<1>5. Typed'
    BY <1>1, <1>2 DEF StartLoop, IInv, Typed
<1>6. UpToStarted'
    BY <1>1, <1>2 DEF StartLoop, IInv, Typed, UpToStarted, Calls, Gens
<1>7. Phases'
    BY <1>1, <1>3, <1>4 DEF StartLoop, IInv, Typed, Phases
<1>8. Reached'
    <2>1. clone \in Gens => clone # new
        BY DEF IInv, Typed, UpToStarted, Gens
    <2>2. \A d \in Everyone : Waits(d, new) => FALSE
        BY DEF IInv, Typed, UpToStarted, Waits, Gens
    <2>3. \A g \in Gens, d \in Everyone : Waits(d, g)' => Waits(d, g) \/ (d = Manager /\ g = new)
        BY <1>2 DEF Waits
    <2> QED
        BY <1>3, <2>1, <2>2, <2>3 DEF StartLoop, IInv, Reached
<1>9. Shared' /\ SharedClientIsServed'
    BY RestartAssumption DEF StartLoop, Shared, SharedClientIsServed, Gens
<1> QED
    BY <1>5, <1>6, <1>7, <1>8, <1>9 DEF IInv

LEMMA StartedIInv == IInv /\ Started => IInv'
<1> SUFFICES ASSUME IInv, Started PROVE IInv'
    OBVIOUS
<1>1. /\ manager = "starting" /\ call[Manager] = NoCall
      /\ manager' = "idle" /\ p2p_client' = started /\ current_shutdown' = started
      /\ boot' = Bootstraps
      /\ UNCHANGED <<loop, triggered, call, clone, started>>
    BY DEF Started, Listens, loops
<1>2. current_shutdown < started /\ Runs(started) /\ ~Runs(current_shutdown)
    BY <1>1 DEF IInv, Phases
<1>3. Typed' /\ UpToStarted' /\ Phases'
    BY <1>1, <1>2, RestartAssumption DEF IInv, Typed, UpToStarted, Phases, Gens
<1>4. Reached'
    BY <1>1, <1>2 DEF IInv, Reached, Runs, Waits
<1>5. started \notin triggered
    BY <1>2 DEF IInv, Phases, Typed, Gens
<1>6. Shared' /\ SharedClientIsServed'
    BY <1>1, <1>2, <1>5 DEF Shared, SharedClientIsServed, Runs
<1> QED
    BY <1>3, <1>4, <1>6 DEF IInv

LEMMA ManagerIInv == IInv /\ ManagerStep => IInv'
<1> SUFFICES ASSUME IInv, ManagerStep PROVE IInv'
    OBVIOUS
<1>1. CASE TriggerShutdown
    <2>1. /\ manager = "stopping" /\ manager' = "waiting"
          /\ triggered' = triggered \cup {current_shutdown}
          /\ call' = [call EXCEPT ![Boot] = NoCall] /\ boot' = <<>>
          /\ UNCHANGED <<loop, p2p_client, clone, current_shutdown, started>>
        BY <1>1 DEF TriggerShutdown
    <2>2. /\ call' \in [Everyone -> Calls \cup {NoCall}]
          /\ \A c \in Everyone : call'[c] # NoCall => call'[c] = call[c]
        BY <2>1 DEF IInv, Typed
    <2>3. Typed'
        BY <2>1, <2>2 DEF IInv, Typed
    <2>4. UpToStarted' /\ Phases'
        BY <2>1, <2>2 DEF IInv, Typed, UpToStarted, Phases, Gens
    <2>5. Reached'
        BY <2>1, <2>2 DEF IInv, Reached, Runs, Waits
    <2>6. Shared' /\ SharedClientIsServed'
        BY <2>1 DEF IInv, Shared, SharedClientIsServed, Runs
    <2> QED
        BY <2>3, <2>4, <2>5, <2>6 DEF IInv
<1>2. CASE StartFails
    <2>1. /\ manager = "starting" /\ call[Manager] = NoCall /\ manager' = "idle"
          /\ UNCHANGED <<loop, triggered, call, p2p_client, clone, current_shutdown, started, boot>>
        BY <1>2 DEF StartFails, Listens, loops, clients
    <2> QED
        BY <2>1 DEF IInv, Typed, UpToStarted, Phases, Reached, Shared, SharedClientIsServed,
            Runs, Waits
<1> QED
    BY <1>1, <1>2, BeginIInv, StartLoopIInv, StartedIInv
       DEF ManagerStep, PeriodicRestart, TriggeredRestart

LEMMA NextIInv == IInv /\ [Next]_vars => IInv'
<1> SUFFICES ASSUME IInv, [Next]_vars PROVE IInv'
    OBVIOUS
<1>1. boot \in Seq(Peers) /\ Typed
    BY DEF IInv, Typed
<1>2. CASE TakeClone
    <2>1. clone' = p2p_client
          /\ UNCHANGED <<loop, triggered, call, p2p_client, current_shutdown, started, manager, boot>>
        BY <1>2 DEF TakeClone, loops, clients
    <2>2. p2p_client \in Gens => p2p_client = current_shutdown /\ p2p_client <= started
        BY DEF IInv, SharedClientIsServed, UpToStarted
    <2> QED
        BY <2>1, <2>2 DEF IInv, Typed, UpToStarted, Phases, Reached, Shared, SharedClientIsServed,
            Runs, Waits
<1>3. ASSUME NEW c \in Callers, Call(c) PROVE IInv'
    <2>1. PICK o \in Dials \cup {<<"query">>, <<"now">>, <<"mode">>},
               g \in {p2p_client, clone} \cap Gens : ExecuteSync(c, o, g)
        BY <1>3 DEF Call
    <2>2. c \in Everyone /\ o \in Ops
        BY DEF Everyone, Ops
    <2>3. g <= started /\ (Runs(g) => g = current_shutdown)
        BY DEF IInv, UpToStarted, SharedClientIsServed, Reached
    <2>4. UNCHANGED <<loop, triggered, p2p_client, clone, current_shutdown, started, manager, boot>>
        BY <1>3 DEF Call, loops, life
    <2> QED
        BY <1>1, <2>1, <2>2, <2>3, <2>4, CallingStep
<1>4. CASE BootDials
    <2>1. Head(boot) \in Peers /\ boot' \in Seq(Peers)
        BY <1>1, <1>4, HeadTailProperties DEF BootDials, BootGoesOn
    <2>2. Boot \in Everyone /\ <<"dial", Head(boot)>> \in Ops
        BY <2>1 DEF Everyone, Ops, Dials
    <2>3. current_shutdown \in Gens /\ current_shutdown <= started
        BY DEF IInv, Typed, UpToStarted
    <2>4. /\ ExecuteSync(Boot, <<"dial", Head(boot)>>, current_shutdown)
          /\ UNCHANGED <<loop, triggered, p2p_client, clone, current_shutdown, started, manager>>
        BY <1>4 DEF BootDials, loops
    <2> QED
        BY <2>1, <2>2, <2>3, <2>4, CallingStep
<1>5. CASE ManagerStep
    BY <1>5, ManagerIInv
<1>6. ASSUME NEW g \in Gens, KadModeChange(g) PROVE IInv'
    BY <1>1, <1>6, QuietStep DEF KadModeChange, clients, NoNewCalls, Typed
<1>7. ASSUME NEW g \in Gens, LoopStep(g) PROVE IInv'
    BY <1>1, <1>7, LoopStepCalls, QuietStep DEF life
<1>8. ASSUME NEW g \in Gens, LoopEnds(g) PROVE IInv'
    <2>1. CASE Break(g) /\ (g \in triggered \/ ~Held(g)) /\ UNCHANGED life
        BY <1>1, <2>1, EndingStep DEF Break, clients, NoNewCalls, Typed
    <2>2. CASE DropLoop(g) /\ UNCHANGED life
        <3>1. NoNewCalls
            BY <1>1, <2>2, AnswerEnds DEF DropLoop
        <3> QED
            BY <2>2, <3>1, EndingStep DEF DropLoop, Runs
    <2> QED
        BY <1>8, <2>1, <2>2 DEF LoopEnds, SeesTrigger, SeesClosed
<1>9. ASSUME NEW c \in Everyone, QueryEnds(c), UNCHANGED life PROVE IInv'
    <2>1. NoNewCalls
        BY <1>1, <1>9, AnswerEnds DEF QueryEnds
    <2> QED
        BY <1>1, <1>9, <2>1, QuietStep DEF QueryEnds, loops, life
<1>10. CASE UNCHANGED vars
    BY <1>1, <1>10, QuietStep DEF vars, loops, clients, life, NoNewCalls, Typed
<1> QED
    BY <1>2, <1>3, <1>4, <1>5, <1>6, <1>7, <1>8, <1>9, <1>10 DEF Next, Ended

-----------------------------------------------------------------------------
(* Two event loops never serve at once: whoever has a client that is       *)
(* served has one of the same loop (perform_restart waits for the old loop *)
(* before it starts the next, also after a start that failed half way).    *)
THEOREM OneLoop == Spec => []OneLoopServes
<1>1. IInv => OneLoopServes
    <2> SUFFICES ASSUME IInv, NEW g \in Gens, Runs(g), Held(g)
                 PROVE  g = IF manager = "starting" THEN started ELSE current_shutdown
        BY DEF OneLoopServes
    <2>1. g = current_shutdown \/ (manager = "starting" /\ g = started)
        BY RestartAssumption DEF Held, IInv, SharedClientIsServed, Reached
    <2> QED
        BY <2>1 DEF IInv, Phases
<1> QED
    BY <1>1, InitIInv, NextIInv, PTL DEF Spec

(* A client that is shared is served, or about to be replaced.             *)
THEOREM SharedServed == Spec => []SharedClientIsServed
<1>1. IInv => SharedClientIsServed
    BY DEF IInv
<1> QED
    BY <1>1, InitIInv, NextIInv, PTL DEF Spec
=============================================================================
