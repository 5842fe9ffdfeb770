------------------------------ MODULE P2PRestart ------------------------------
(***************************************************************************)
(* The life of P2P clients in the light client: core/src/network/p2p/      *)
(* restart.rs, with ClientState and the wiring of client/src/main.rs. The  *)
(* manager ends the event loop and starts another, from time to time and   *)
(* for every KadModeChange event; each generation has its own shutdown     *)
(* controller. The client is shared behind a mutex, but the API and the    *)
(* application client keep the clone they got at the start.                *)
(*                                                                         *)
(* Left out: the shutdown of the whole process, which cancels the manager  *)
(* and the callers.                                                        *)
(***************************************************************************)
EXTENDS P2PEventLoop

CONSTANTS
    NoGen, Untaken,
    Bootstraps,     \* the bootstrap peers, a sequence
    FirstModes      \* what may be configured

ASSUME RestartAssumption ==
    /\ {NoGen, Untaken} \cap Nat = {} /\ NoGen # Untaken
    /\ Bootstraps \in Seq(Peers) /\ FirstModes \subseteq Modes

VARIABLES
    p2p_client,     \* the generation of the shared client, or NoGen
    clone,          \* of the clone, NoGen, or Untaken yet
    current_shutdown,   \* the generation whose controller the manager has
    started,        \* the generations started so far
    manager,        \* "idle", "stopping" listeners, "waiting" for the loop to
                    \* end, "starting" the next one
    operation_mode, \* in the shared configuration
    libp2p_cfg,     \* the mode in the copy the manager took
    restart_trigger,    \* messages in its channel
    boot            \* bootstrap peers the task of the last start has left

life == <<p2p_client, clone, current_shutdown, started, manager, operation_mode,
          libp2p_cfg, restart_trigger, boot>>
vars == <<loops, swarm, clients, life>>

Init ==
    \E mode \in FirstModes :
        /\ LoopInit(mode)
        /\ p2p_client = 1 /\ clone = Untaken
        /\ current_shutdown = 1 /\ started = 1
        /\ manager = "idle"
        /\ operation_mode = mode /\ libp2p_cfg = mode
        /\ restart_trigger = 0
        /\ boot = Bootstraps

-----------------------------------------------------------------------------
(* main hands the API and the application client what is shared then.      *)
TakeClone ==
    /\ clone = Untaken
    /\ clone' = p2p_client
    /\ UNCHANGED <<loops, swarm, clients, p2p_client, current_shutdown, started, manager,
                   operation_mode, libp2p_cfg, restart_trigger, boot>>

(* A task calls its client: the one shared now, or the clone.              *)
Call(c) ==
    /\ call[c] = NoCall /\ calls[c] < MaxCalls
    /\ calls' = [calls EXCEPT ![c] = @ + 1]
    /\ \E o \in Dials \cup {<<"query">>, <<"now">>, <<"mode">>}, g \in {p2p_client, clone} \cap Gens :
        ExecuteSync(c, o, g)
    /\ UNCHANGED <<loops, pending_swarm_events, attempts, life>>

(* bootstrap_on_startup: one after the other, until one fails.             *)
BootGoesOn == boot # <<>> /\ answer[Boot] \in {"none", "ok"}

BootDials ==
    /\ call[Boot] = NoCall /\ BootGoesOn
    /\ ExecuteSync(Boot, <<"dial", Head(boot)>>, current_shutdown)
    /\ boot' = Tail(boot)
    /\ UNCHANGED <<loops, pending_swarm_events, attempts, calls, p2p_client, clone,
                   current_shutdown, started, manager, operation_mode, libp2p_cfg,
                   restart_trigger>>

(* handle_events: the mode goes to the configuration, a restart follows.   *)
KadModeChange(g) ==
    /\ events[g] # <<>>
    /\ operation_mode' = Head(events[g])
    /\ events' = [events EXCEPT ![g] = Tail(@)]
    /\ restart_trigger' = restart_trigger + 1
    /\ UNCHANGED <<loop, triggered, listening, kad_mode, swarm, clients, p2p_client,
                   clone, current_shutdown, started, manager, libp2p_cfg, boot>>

-----------------------------------------------------------------------------

(* perform_restart begins: the listeners of the shared client are stopped. *)
Begin ==
    /\ manager = "idle" /\ started < MaxGen
    /\ manager' = "stopping"
    /\ libp2p_cfg' = operation_mode
    /\ IF p2p_client \in Gens
       THEN ExecuteSync(Manager, <<"stop">>, p2p_client)
       ELSE UNCHANGED <<commands, call, answer>>
    /\ UNCHANGED <<loops, pending_swarm_events, attempts, calls, p2p_client, clone,
                   current_shutdown, started, operation_mode, boot>>

(* Mutant: without a client there is nothing to restart.                   *)
OnlyWithClient == p2p_client # NoGen /\ Begin /\ UNCHANGED restart_trigger

PeriodicRestart == Begin /\ UNCHANGED restart_trigger

TriggeredRestart ==
    /\ restart_trigger > 0 /\ Begin
    /\ restart_trigger' = restart_trigger - 1

(* The trigger cancels the bootstrap task, too: with_cancel.               *)
TriggerShutdown ==
    /\ manager = "stopping" /\ call[Manager] = NoCall
    /\ manager' = "waiting"
    /\ triggered' = triggered \cup {current_shutdown}
    /\ call' = [call EXCEPT ![Boot] = NoCall] /\ boot' = <<>>
    /\ UNCHANGED <<loop, listening, kad_mode, events, swarm, answer, calls, p2p_client,
                   clone, current_shutdown, started, operation_mode, libp2p_cfg,
                   restart_trigger>>

(* Mutant: the loop is told to end, but not waited for.                    *)
AtOnce(g) == g \in triggered

(* completed_shutdown: the token of the loop is dropped.                   *)
Completed(g) == g \in triggered /\ loop[g] \in {"closing", "gone"}

(* The shared client is taken out; a new loop runs before it listens.      *)
StartLoop ==
    /\ manager = "waiting" /\ Completed(current_shutdown)
    /\ manager' = "starting"
    /\ p2p_client' = NoGen
    /\ started' = started + 1
    /\ loop' = [loop EXCEPT ![started + 1] = "running"]
    /\ kad_mode' = [kad_mode EXCEPT ![started + 1] = libp2p_cfg]
    /\ ExecuteSync(Manager, <<"listen">>, started + 1)
    /\ UNCHANGED <<triggered, listening, events, pending_swarm_events, attempts,
                   calls, clone, current_shutdown, operation_mode, libp2p_cfg,
                   restart_trigger, boot>>

Listens == manager = "starting" /\ call[Manager] = NoCall

(* Mutant: the controller of the new loop is not kept.                     *)
OldController ==
    /\ Listens /\ answer[Manager] = "ok"
    /\ manager' = "idle"
    /\ p2p_client' = started
    /\ boot' = Bootstraps /\ answer' = [answer EXCEPT ![Boot] = "none"]
    /\ UNCHANGED <<loops, swarm, call, calls, clone, current_shutdown, started,
                   operation_mode, libp2p_cfg, restart_trigger>>

Started ==
    /\ Listens /\ answer[Manager] = "ok"
    /\ manager' = "idle"
    /\ p2p_client' = started
    /\ current_shutdown' = started
    /\ boot' = Bootstraps /\ answer' = [answer EXCEPT ![Boot] = "none"]
    /\ UNCHANGED <<loops, swarm, call, calls, clone, started, operation_mode, libp2p_cfg,
                   restart_trigger>>

(* The new client is dropped; the old controller stays, triggered.         *)
StartFails ==
    /\ Listens /\ answer[Manager] # "ok"
    /\ manager' = "idle"
    /\ UNCHANGED <<loops, swarm, clients, p2p_client, clone, current_shutdown, started,
                   operation_mode, libp2p_cfg, restart_trigger, boot>>

ManagerStep ==
    \/ PeriodicRestart \/ TriggeredRestart \/ TriggerShutdown \/ StartLoop \/ Started
    \/ StartFails

(* A client of generation g is left somewhere: shared, cloned, just made,  *)
(* in the bootstrap task or in a call.                                     *)
Held(g) ==
    \/ g \in {p2p_client, clone}
    \/ manager = "starting" /\ g = started
    \/ g = current_shutdown /\ BootGoesOn
    \/ \E c \in Everyone : Waits(c, g)

LoopStep(g) ==
    \/ Command(g) /\ UNCHANGED life
    \/ SwarmEvent(g) /\ UNCHANGED life

LoopEnds(g) ==
    \/ SeesTrigger(g) /\ UNCHANGED life
    \/ ~Held(g) /\ SeesClosed(g) /\ UNCHANGED life
    \/ DropLoop(g) /\ UNCHANGED life

(* The bound is reached and nobody waits.                                  *)
Ended ==
    /\ manager = "idle"
    /\ started = MaxGen
    /\ \A c \in Everyone : call[c] = NoCall
    /\ UNCHANGED vars

Next ==
    \/ TakeClone \/ \E c \in Callers : Call(c)
    \/ BootDials
    \/ ManagerStep
    \/ \E g \in Gens : KadModeChange(g)
    \/ \E g \in Gens : LoopStep(g) \/ LoopEnds(g)
    \/ \E c \in Everyone : QueryEnds(c) /\ UNCHANGED life
    \/ Ended

Spec == Init /\ [][Next]_vars

(* Loops are polled, queries and attempts to connect time out, the timer   *)
(* of the manager fires.                                                   *)
Fairness ==
    /\ \A g \in Gens :
        /\ WF_vars(Command(g) /\ UNCHANGED life)
        /\ WF_vars(SwarmEvent(g) /\ UNCHANGED life)
        /\ WF_vars(LoopEnds(g))
    /\ \A c \in Everyone : WF_vars(QueryEnds(c) /\ UNCHANGED life)
    /\ WF_vars(ManagerStep)

FairSpec == Spec /\ Fairness

-----------------------------------------------------------------------------

(* Two event loops never run at once, unless one of them is out of reach:  *)
(* nobody has a client of it any more and it is about to find its channel  *)
(* closed. This is what waiting for the shutdown to complete is for, and a *)
(* start that fails half way must not break it.                            *)
OneLoopServes ==
    \A g, h \in Gens :
        Runs(g) /\ Runs(h) /\ Held(g) /\ Held(h) => g = h

(* A client that is shared is one of a loop that serves it, or the manager *)
(* is about to replace it.                                                 *)
SharedClientIsServed ==
    p2p_client \in Gens =>
        /\ p2p_client = current_shutdown
        /\ Runs(p2p_client) \/ (p2p_client \in triggered /\ manager = "waiting")

(* Every call ends, also one to a loop that is replaced meanwhile, one of  *)
(* a stale clone, and a dial that another replaces.                        *)
CallsEnd == \A c \in Everyone : call[c] # NoCall ~> call[c] = NoCall

(* After a restart that failed another follows until a client is there     *)
(* again, although the controller that is triggered next is one that is    *)
(* triggered already and the client to stop is gone.                       *)
ClientComesBack ==
    p2p_client = NoGen ~> p2p_client # NoGen \/ (started = MaxGen /\ manager = "idle")
=============================================================================
