----------------------------- MODULE P2PEventLoop -----------------------------
(***************************************************************************)
(* Event loops and the calls of their clients: core/src/network/p2p. A     *)
(* Client sends closures over a channel; the loop runs them on the swarm   *)
(* between two swarm events. execute_sync waits for an answer, which a     *)
(* closure gives at once, or leaves to the swarm event that ends a query   *)
(* or a dial. A sender that is dropped answers with an error.              *)
(*                                                                         *)
(* A restart ends one loop and starts another; loops are numbered by       *)
(* generation. Kademlia is configured. What the closures read is in        *)
(* KadNode; here they are "now". P2PRestart adds who starts and ends loops. *)
(***************************************************************************)
EXTENDS Naturals, Sequences, FiniteSets

CONSTANTS
    Callers,        \* tasks that use a client
    Manager, Boot,  \* the restart manager and the bootstrap task
    NoCaller, NoCall,
    Peers,
    MaxGen,         \* bound: loops started
    MaxCalls        \* bound: calls of each task

Everyone == Callers \cup {Manager, Boot}
Gens == 1 .. MaxGen
Modes == {"client", "server"}

(* What a call asks: a dial of a peer, a query of the DHT, something that  *)
(* is answered at once, a new Kademlia mode, listeners.                    *)
Dials == {<<"dial", p>> : p \in Peers}
Ops == Dials \cup {<<"query">>, <<"now">>, <<"mode">>, <<"listen">>, <<"stop">>}
Calls == [op : Ops, gen : Gens, queued : BOOLEAN]

ASSUME EventLoopAssumption ==
    /\ Manager # Boot /\ {Manager, Boot} \cap Callers = {}
    /\ NoCaller \notin Everyone /\ NoCall \notin Calls
    /\ MaxGen \in Nat \ {0} /\ MaxCalls \in Nat

VARIABLES
    loop,       \* of each generation: "none", "running"; "closing", when its
                \* delay token is dropped; "gone", when its swarm is, too
    triggered,  \* generations whose controller is triggered
    listening,  \* generations with a listener
    kad_mode,   \* of each generation
    events,     \* of each generation: KadModeChange events sent
    commands,   \* of each generation: the callers in its channel
    pending_swarm_events,   \* of each generation: who dials a peer
    attempts,   \* of each generation: outgoing connections under way
    call,       \* of each caller: the one that is queued or pending, or NoCall
    answer,     \* the last one to the manager and to the bootstrap task:
                \* "ok", "failed", "dropped" or "closed"
    calls       \* made by each task

loops == <<loop, triggered, listening, kad_mode, events>>
swarm == <<commands, pending_swarm_events, attempts>>
clients == <<call, answer, calls>>

LoopInit(mode) ==
    /\ loop = [g \in Gens |-> IF g = 1 THEN "running" ELSE "none"]
    /\ triggered = {} /\ listening = {1}
    /\ kad_mode = [g \in Gens |-> mode]
    /\ events = [g \in Gens |-> <<>>]
    /\ commands = [g \in Gens |-> <<>>]
    /\ pending_swarm_events = [g \in Gens |-> [p \in Peers |-> NoCaller]]
    /\ attempts = [g \in Gens |-> [p \in Peers |-> 0]]
    /\ call = [c \in Everyone |-> NoCall]
    /\ answer = [c \in {Manager, Boot} |-> "none"]
    /\ calls = [c \in Callers |-> 0]

-----------------------------------------------------------------------------
Waits(c, g) == call[c] # NoCall /\ call[c].gen = g
Pending(c, g) == Waits(c, g) /\ ~call[c].queued

(* The callers in who get the answer a.                                    *)
Answer(who, a) ==
    /\ call' = [c \in Everyone |-> IF c \in who THEN NoCall ELSE call[c]]
    /\ answer' = [c \in {Manager, Boot} |-> IF c \in who THEN a ELSE answer[c]]

(* execute_sync: an error once the receiver is dropped, else into the      *)
(* channel.                                                                *)
ExecuteSync(c, o, g) ==
    IF loop[g] = "gone"
    THEN Answer({c}, "closed") /\ UNCHANGED commands
    ELSE /\ call' = [call EXCEPT ![c] = [op |-> o, gen |-> g, queued |-> TRUE]]
         /\ commands' = [commands EXCEPT ![g] = Append(@, c)]
         /\ UNCHANGED answer

Runs(g) == loop[g] = "running"

(* The loop takes the command of c out of the channel; a cancelled caller  *)
(* has left a command that nobody waits for.                               *)
Takes(g, c, o) ==
    /\ Runs(g) /\ commands[g] # <<>>
    /\ c = Head(commands[g]) /\ Waits(c, g) /\ call[c].op = o
    /\ commands' = [commands EXCEPT ![g] = Tail(@)]
    /\ UNCHANGED calls

(* dial_peer: the swarm may refuse, which drops the sender; else the       *)
(* sender replaces that of an earlier dial of the peer, which is dropped.  *)
DialRefused(g, c, p) ==
    /\ Takes(g, c, <<"dial", p>>)
    /\ Answer({c}, "dropped")
    /\ UNCHANGED <<loops, pending_swarm_events, attempts>>

Dialling(g, p) ==
    {c \in Everyone : c = pending_swarm_events[g][p] /\ Pending(c, g)}

Dial(g, c, p) ==
    /\ Takes(g, c, <<"dial", p>>)
    /\ call' = [d \in Everyone |-> IF d = c THEN [call[c] EXCEPT !.queued = FALSE]
                                   ELSE IF d \in Dialling(g, p) THEN NoCall ELSE call[d]]
    /\ answer' = [d \in {Manager, Boot} |->
                    IF d \in Dialling(g, p) THEN "dropped" ELSE answer[d]]
    /\ pending_swarm_events' = [pending_swarm_events EXCEPT ![g][p] = c]
    /\ attempts' = [attempts EXCEPT ![g][p] = @ + 1]
    /\ UNCHANGED loops

(* get_kad_record, get_closest_peers: the query is under way.              *)
StartQuery(g, c) ==
    /\ Takes(g, c, <<"query">>)
    /\ call' = [call EXCEPT ![c].queued = FALSE]
    /\ UNCHANGED <<loops, pending_swarm_events, attempts, answer>>

AnswerNow(g, c) ==
    /\ Takes(g, c, <<"now">>)
    /\ Answer({c}, "ok")
    /\ UNCHANGED <<loops, pending_swarm_events, attempts>>

(* reconfigure_kademlia_mode, on a machine that is large enough: the mode  *)
(* follows the external addresses. The event is sent whatever the outcome. *)
NewMode(mode, reachable) ==
    IF reachable /\ mode = "client" THEN "server"
    ELSE IF ~reachable /\ mode = "server" THEN "client"
    ELSE mode

Reconfigure(g, c) ==
    /\ Takes(g, c, <<"mode">>)
    /\ \E reachable \in BOOLEAN :
        /\ kad_mode' = [kad_mode EXCEPT ![g] = NewMode(@, reachable)]
        /\ events' = [events EXCEPT ![g] = Append(@, NewMode(kad_mode[g], reachable))]
    /\ Answer({c}, "ok")
    /\ UNCHANGED <<loop, triggered, listening, pending_swarm_events, attempts>>

(* start_listening: an address that cannot be bound fails the call; those  *)
(* before it stay bound.                                                   *)
Listen(g, c) ==
    /\ Takes(g, c, <<"listen">>)
    /\ \E a \in {"ok", "failed"}, bound \in BOOLEAN :
        /\ a = "ok" => bound
        /\ Answer({c}, a)
        /\ listening' = IF bound THEN listening \cup {g} ELSE listening
    /\ UNCHANGED <<loop, triggered, kad_mode, events, pending_swarm_events, attempts>>

StopListening(g, c) ==
    /\ Takes(g, c, <<"stop">>)
    /\ listening' = listening \ {g}
    /\ Answer({c}, "ok")
    /\ UNCHANGED <<loop, triggered, kad_mode, events, pending_swarm_events, attempts>>

(* The command of a cancelled bootstrap task: its dial goes on, its sender *)
(* is of no use to anybody.                                                *)
Abandoned(g) ==
    /\ Runs(g) /\ commands[g] # <<>> /\ ~Waits(Head(commands[g]), g)
    /\ commands' = [commands EXCEPT ![g] = Tail(@)]
    /\ UNCHANGED <<loops, pending_swarm_events, attempts, clients>>

Command(g) ==
    \/ \E c \in Everyone :
        \/ \E p \in Peers : DialRefused(g, c, p) \/ Dial(g, c, p)
        \/ StartQuery(g, c) \/ AnswerNow(g, c) \/ Reconfigure(g, c)
        \/ Listen(g, c) \/ StopListening(g, c)
    \/ Abandoned(g)

-----------------------------------------------------------------------------
(* OutboundQueryProgressed: a record, peers or an error.                   *)
QueryEnds(c) ==
    /\ call[c] # NoCall /\ Pending(c, call[c].gen)
    /\ call[c].op = <<"query">> /\ Runs(call[c].gen)
    /\ \E a \in {"ok", "failed"} : Answer({c}, a)
    /\ UNCHANGED <<loops, swarm, calls>>

Resolve(g, p, a) ==
    /\ Answer(Dialling(g, p), a)
    /\ pending_swarm_events' = [pending_swarm_events EXCEPT ![g][p] = NoCaller]
    /\ UNCHANGED <<loops, commands, calls>>

(* ConnectionEstablished: of a dial, or one that comes in meanwhile.       *)
ConnectionEstablished(g, p) ==
    /\ Runs(g) /\ attempts[g][p] > 0
    /\ \E outgoing \in {0, 1} :
        /\ outgoing = 0 => pending_swarm_events[g][p] # NoCaller
        /\ attempts' = [attempts EXCEPT ![g][p] = @ - outgoing]
    /\ Resolve(g, p, "ok")

(* Mutant: an error of the connection is logged, nobody is told.           *)
OnlyLogged(g, p) ==
    /\ Runs(g) /\ attempts[g][p] > 0
    /\ attempts' = [attempts EXCEPT ![g][p] = @ - 1]
    /\ UNCHANGED <<loops, commands, pending_swarm_events, clients>>

OutgoingConnectionError(g, p) ==
    /\ Runs(g) /\ attempts[g][p] > 0
    /\ attempts' = [attempts EXCEPT ![g][p] = @ - 1]
    /\ Resolve(g, p, "failed")

SwarmEvent(g) ==
    \E p \in Peers : ConnectionEstablished(g, p) \/ OutgoingConnectionError(g, p)

(* run breaks: peers are disconnected, the token is dropped.               *)
Break(g) ==
    /\ Runs(g)
    /\ loop' = [loop EXCEPT ![g] = "closing"]
    /\ UNCHANGED <<triggered, listening, kad_mode, events, swarm, clients>>

SeesTrigger(g) == g \in triggered /\ Break(g)

(* The channel is closed when no sender is left and it is empty.           *)
SeesClosed(g) == commands[g] = <<>> /\ Break(g)

(* self is dropped: listeners, commands, pending senders.                  *)
DropLoop(g) ==
    /\ loop[g] = "closing"
    /\ loop' = [loop EXCEPT ![g] = "gone"]
    /\ listening' = listening \ {g}
    /\ commands' = [commands EXCEPT ![g] = <<>>]
    /\ pending_swarm_events' = [pending_swarm_events EXCEPT ![g] = [p \in Peers |-> NoCaller]]
    /\ attempts' = [attempts EXCEPT ![g] = [p \in Peers |-> 0]]
    /\ Answer({c \in Everyone : Waits(c, g)}, "closed")
    /\ UNCHANGED <<triggered, kad_mode, events, calls>>
=============================================================================
