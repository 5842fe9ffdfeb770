------------------------------- MODULE RpcClient -------------------------------
(***************************************************************************)
(* The failover of core/src/network/rpc/client.rs: one Client, shared by   *)
(* tasks that call it concurrently. A call is tried with the current       *)
(* client, then on the other nodes, then on the node of RpcNodeKey; every  *)
(* phase is retried, and cancelled by the shutdown. A call that finds a    *)
(* node sends an event, replaces the shared client and then the key.       *)
(*                                                                         *)
(* A node is its host. The order in which shuffle puts the nodes is left   *)
(* open in every round. What the call itself asks is left out; it may fail *)
(* on any node at any time.                                                *)
(***************************************************************************)
EXTENDS Naturals, FiniteSets

CONSTANTS
    Nodes, NoNode,  \* the configured hosts
    ExpectedChain,  \* those whose genesis hash is the expected one
    Callers,        \* tasks that call methods of the client
    Initializer,    \* stands for initialize_connection among them
    Retries,        \* bound: retries per phase
    MaxCalls,       \* bound: calls each task makes
    Listeners       \* whether a receiver of RPC events can be alive or not

ASSUME ClientAssumption ==
    /\ IsFiniteSet(Nodes) /\ NoNode \notin Nodes
    /\ Initializer \notin Callers
    /\ ExpectedChain \subseteq Nodes
    /\ {Retries, MaxCalls} \subseteq Nat
    /\ Listeners \subseteq BOOLEAN

VARIABLES
    subxt_client,   \* the host of the shared client
    rpc_node,       \* RpcNodeKey
    listening,      \* does the event channel have a receiver?
    shutdown,
    init,           \* "connecting", "connected" or "failed"
    pc,             \* of each task: "idle"; "current", "new", "previous": the
                    \* phases of with_retries; "write", "put": a node was found
    list,           \* the nodes of this phase
    todo, retry,    \* those left in this round; rounds failed in this phase
    previous,       \* the second part shuffle returned
    found,          \* the node that executed the call
    failed,         \* the nodes that failed the call so far
    calls, result   \* calls made, and how the last one ended

call  == <<pc, list, todo, retry, previous, found, failed, calls, result>>
vars  == <<subxt_client, rpc_node, listening, shutdown, init, call>>

Everyone == Callers \cup {Initializer}

Init ==
    /\ subxt_client = NoNode /\ rpc_node = NoNode
    /\ listening \in Listeners
    /\ shutdown = FALSE
    /\ init = "connecting"
    /\ pc = [c \in Callers |-> "idle"]
    /\ list = [c \in Callers |-> {}]
    /\ todo = [c \in Everyone |-> Nodes]
    /\ retry = [c \in Everyone |-> 0]
    /\ previous = [c \in Callers |-> {}]
    /\ found = [c \in Callers |-> NoNode]
    /\ failed = [c \in Everyone |-> {}]
    /\ calls = [c \in Callers |-> 0]
    /\ result = [c \in Callers |-> "none"]

-----------------------------------------------------------------------------
(* Mutant: the genesis hash is not compared.                               *)
AnyChain(n) == TRUE

(* create_rpc_client refuses a node of another chain.                      *)
RightChain(n) == n \in ExpectedChain

(* Retry::spawn gives up after so many retries, else starts another round. *)
LastRound(c) == retry[c] = Retries

NextRound(c, nodes) ==
    /\ retry' = [retry EXCEPT ![c] = @ + 1]
    /\ todo' = [todo EXCEPT ![c] = nodes]

InitRound ==
    IF LastRound(Initializer)
    THEN init' = "failed" /\ UNCHANGED <<todo, retry>>
    ELSE NextRound(Initializer, Nodes) /\ UNCHANGED init

(* initialize_connection: the first node that answers is taken, but the    *)
(* event has to reach somebody for the attempt to succeed.                 *)
InitConnects(n) ==
    /\ init = "connecting" /\ n \in todo[Initializer]
    /\ RightChain(n)
    /\ IF listening
       THEN /\ subxt_client' = n /\ rpc_node' = n
            /\ init' = "connected"
            /\ UNCHANGED <<todo, retry>>
       ELSE InitRound /\ UNCHANGED <<subxt_client, rpc_node>>
    /\ UNCHANGED <<listening, shutdown, pc, list, previous, found, failed, calls, result>>

(* Mutant: the first node that fails ends the round.                       *)
FirstFailureEnds(n) ==
    /\ init = "connecting" /\ n \in todo[Initializer]
    /\ failed' = [failed EXCEPT ![Initializer] = @ \cup {n}]
    /\ InitRound
    /\ UNCHANGED <<subxt_client, rpc_node, listening, shutdown, pc, list, previous,
                   found, calls, result>>

InitNodeFails(n) ==
    /\ init = "connecting" /\ n \in todo[Initializer]
    /\ failed' = [failed EXCEPT ![Initializer] = @ \cup {n}]
    /\ IF todo[Initializer] = {n} THEN InitRound
       ELSE /\ todo' = [todo EXCEPT ![Initializer] = @ \ {n}]
            /\ UNCHANGED <<init, retry>>
    /\ UNCHANGED <<subxt_client, rpc_node, listening, shutdown, pc, list, previous,
                   found, calls, result>>

-----------------------------------------------------------------------------
shared == <<subxt_client, rpc_node, listening, shutdown, init>>

StartCall(c) ==
    /\ init = "connected" /\ pc[c] = "idle" /\ calls[c] < MaxCalls
    /\ pc' = [pc EXCEPT ![c] = "current"]
    /\ retry' = [retry EXCEPT ![c] = 0]
    /\ failed' = [failed EXCEPT ![c] = {}]
    /\ calls' = [calls EXCEPT ![c] = @ + 1]
    /\ UNCHANGED <<shared, list, todo, previous, found, result>>

Return(c, value) ==
    /\ pc' = [pc EXCEPT ![c] = "idle"]
    /\ result' = [result EXCEPT ![c] = value]

(* Mutant: the node connected so far is not tried again.                   *)
DropConnected(host) == <<Nodes \ {host}, {}>>

(* Nodes::shuffle.                                                         *)
Shuffle(host) ==
    IF Cardinality(Nodes) <= 1 THEN <<Nodes, {}>>
    ELSE <<{n \in Nodes : n # host}, {n \in Nodes : n = host}>>

Phase(c, name, nodes) ==
    /\ pc' = [pc EXCEPT ![c] = name]
    /\ list' = [list EXCEPT ![c] = nodes]
    /\ todo' = [todo EXCEPT ![c] = nodes]
    /\ retry' = [retry EXCEPT ![c] = 0]
    /\ UNCHANGED result

(* The current client has failed for good: shuffle by the stored node.     *)
ToNewNodes(c) ==
    LET parts == Shuffle(rpc_node)
    IN  /\ Phase(c, "new", parts[1])
        /\ previous' = [previous EXCEPT ![c] = parts[2]]

(* Mutant: the two lists are tried in turn, without an end.                *)
InTurn(c) ==
    IF pc[c] = "new" THEN Phase(c, "previous", previous[c])
    ELSE Phase(c, "new", Nodes \ previous[c])

(* A list of nodes has failed for good: fall back to the previous ones, or *)
(* give the call up. An empty list fails without a node being asked.       *)
ListFailed(c) ==
    IF pc[c] = "new" /\ previous[c] # {}
    THEN Phase(c, "previous", previous[c])
    ELSE Return(c, "error") /\ UNCHANGED <<list, todo, retry>>

(* try_with_current_client: every attempt takes the client of the moment.  *)
CurrentSucceeds(c) ==
    /\ pc[c] = "current"
    /\ Return(c, "ok")
    /\ UNCHANGED <<shared, list, todo, retry, previous, found, failed, calls>>

CurrentFails(c) ==
    /\ pc[c] = "current"
    /\ failed' = [failed EXCEPT ![c] = @ \cup {subxt_client}]
    /\ IF LastRound(c) THEN ToNewNodes(c)
       ELSE /\ retry' = [retry EXCEPT ![c] = @ + 1]
            /\ UNCHANGED <<pc, list, todo, previous, result>>
    /\ UNCHANGED <<shared, found, calls>>

Trying(c, n) == pc[c] \in {"new", "previous"} /\ n \in todo[c]

(* try_nodes_with_retries: a node executes the call; without a receiver    *)
(* for the event, the result is lost.                                      *)
NodeSucceeds(c, n) ==
    /\ Trying(c, n) /\ RightChain(n)
    /\ IF listening
       THEN /\ pc' = [pc EXCEPT ![c] = "write"]
            /\ found' = [found EXCEPT ![c] = n]
            /\ UNCHANGED <<list, todo, retry, result>>
       ELSE ListFailed(c) /\ UNCHANGED found
    /\ UNCHANGED <<shared, previous, failed, calls>>

NodeFails(c, n) ==
    /\ Trying(c, n)
    /\ failed' = [failed EXCEPT ![c] = @ \cup {n}]
    /\ IF todo[c] # {n}
       THEN /\ todo' = [todo EXCEPT ![c] = @ \ {n}]
            /\ UNCHANGED <<pc, list, retry, result>>
       ELSE IF LastRound(c) THEN ListFailed(c)
       ELSE /\ NextRound(c, list[c])
            /\ UNCHANGED <<pc, list, result>>
    /\ UNCHANGED <<shared, previous, found, calls>>

WriteClient(c) ==
    /\ pc[c] = "write"
    /\ subxt_client' = found[c]
    /\ pc' = [pc EXCEPT ![c] = "put"]
    /\ UNCHANGED <<rpc_node, listening, shutdown, init, list, todo, retry,
                   previous, found, failed, calls, result>>

PutNode(c) ==
    /\ pc[c] = "put"
    /\ rpc_node' = found[c]
    /\ Return(c, "ok")
    /\ UNCHANGED <<subxt_client, listening, shutdown, init, list, todo, retry,
                   previous, found, failed, calls>>

-----------------------------------------------------------------------------
Shutdown ==
    /\ ~shutdown
    /\ shutdown' = TRUE
    /\ UNCHANGED <<subxt_client, rpc_node, listening, init, call>>

(* with_cancel around the connection, or around a phase of a call, which   *)
(* then goes on to the next phase.                                         *)
CancelInit ==
    /\ shutdown /\ init = "connecting"
    /\ init' = "failed"
    /\ UNCHANGED <<subxt_client, rpc_node, listening, shutdown, call>>

Cancel(c) ==
    /\ shutdown
    /\ \/ pc[c] = "current" /\ ToNewNodes(c)
       \/ pc[c] \in {"new", "previous"} /\ ListFailed(c) /\ UNCHANGED previous
    /\ UNCHANGED <<shared, found, failed, calls>>

Quiet ==
    /\ init # "connecting" /\ shutdown
    /\ \A c \in Callers : pc[c] = "idle"
    /\ UNCHANGED vars

CallStep(c) ==
    \/ CurrentSucceeds(c) \/ CurrentFails(c)
    \/ \E n \in Nodes : NodeSucceeds(c, n) \/ NodeFails(c, n)
    \/ WriteClient(c) \/ PutNode(c) \/ Cancel(c)

Next ==
    \/ \E n \in Nodes : InitConnects(n) \/ InitNodeFails(n)
    \/ \E c \in Callers : StartCall(c) \/ CallStep(c)
    \/ Shutdown \/ CancelInit \/ Quiet

(* The runtime keeps polling the tasks; an attempt ends one way or another.*)
Fairness ==
    /\ WF_vars(\E n \in Nodes : InitConnects(n) \/ InitNodeFails(n))
    /\ \A c \in Callers : WF_vars(CallStep(c))

Spec == Init /\ [][Next]_vars
FairSpec == Spec /\ Fairness

-----------------------------------------------------------------------------

(* However the calls of the tasks switch the client under each other, a    *)
(* call only fails after every configured node has failed it, unless the   *)
(* process shuts down (with_retries).                                      *)
FailsOnlyOnAllNodes ==
    \A c \in Callers :
        result[c] = "error" /\ pc[c] = "idle" => shutdown \/ failed[c] = Nodes

(* So does the first connection (attempt_connection).                      *)
ConnectsToAnyNode ==
    init = "failed" => shutdown \/ failed[Initializer] = Nodes

(* Calls that switch the client in turn never leave it, or the stored key, *)
(* on a node of another chain (create_rpc_client).                         *)
OnlyExpectedChain ==
    init = "connected" => {subxt_client, rpc_node} \subseteq ExpectedChain

(* Every call ends, cancelled or not (with_retries).                       *)
CallsEnd == \A c \in Callers : pc[c] = "current" ~> pc[c] = "idle"
=============================================================================
