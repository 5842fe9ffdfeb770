---------------------------- MODULE RpcClient_proofs ----------------------------
(***************************************************************************)
(* What the failover of the RPC client promises, proved for every list of  *)
(* nodes, every number of tasks that share the client and every bound on   *)
(* the retries.                                                            *)
(***************************************************************************)
EXTENDS RpcClient, TLAPS

(* The types the argument needs.                                           *)
Typed ==
    /\ pc \in [Callers -> {"idle", "current", "new", "previous", "write", "put"}]
    /\ list \in [Callers -> SUBSET Nodes]
    /\ todo \in [Everyone -> SUBSET Nodes]
    /\ retry \in [Everyone -> Nat]
    /\ previous \in [Callers -> SUBSET Nodes]
    /\ found \in [Callers -> Nodes \cup {NoNode}]
    /\ failed \in [Everyone -> SUBSET Nodes]
    /\ result \in [Callers -> {"none", "ok", "error"}]

(* Calls are only made over a connection, and a node that is about to be   *)
(* written has been admitted.                                              *)
ConnectedCall(c) ==
    /\ pc[c] # "idle" => init = "connected"
    /\ pc[c] \in {"write", "put"} => found[c] \in ExpectedChain

(* Where a call stands, given that events are received: the nodes it has   *)
(* struck off its list have failed it, and so have those that are neither  *)
(* on the list nor on the one to come, unless the shutdown cut a phase off.*)
ListsCover(c) ==
    /\ pc[c] \in {"new", "previous"} => list[c] \ todo[c] \subseteq failed[c]
    /\ pc[c] = "new" => list[c] \cup previous[c] = Nodes
    /\ pc[c] = "previous" => shutdown \/ Nodes \ list[c] \subseteq failed[c]
    /\ pc[c] = "idle" /\ result[c] = "error" => shutdown \/ failed[c] = Nodes

CallInv(c) == ConnectedCall(c) /\ (listening => ListsCover(c))

IInv == Typed /\ OnlyExpectedChain /\ \A c \in Callers : CallInv(c)

LEMMA ChainSubset == ExpectedChain \subseteq Nodes /\ Callers \subseteq Everyone
                     /\ Initializer \in Everyone /\ Initializer \notin Callers
BY ClientAssumption DEF Everyone

(* shuffle loses no node.                                                  *)
LEMMA ShufflePartition ==
    ASSUME NEW host
    PROVE  /\ Shuffle(host)[1] \subseteq Nodes /\ Shuffle(host)[2] \subseteq Nodes
           /\ Shuffle(host)[1] \cup Shuffle(host)[2] = Nodes
BY DEF Shuffle

LEMMA InitIInv == Init => IInv
BY DEF Init, IInv, Typed, OnlyExpectedChain, CallInv, ConnectedCall, ListsCover

-----------------------------------------------------------------------------
(* Nothing that belongs to the calls of another task changes.              *)
OthersKept(c) ==
    \A d \in Callers \ {c} :
        /\ pc'[d] = pc[d] /\ list'[d] = list[d] /\ todo'[d] = todo[d]
        /\ previous'[d] = previous[d] /\ found'[d] = found[d]
        /\ failed'[d] = failed[d] /\ result'[d] = result[d]

LEMMA StepOfOne ==
    ASSUME IInv, NEW c \in Callers, Typed', OnlyExpectedChain', OthersKept(c),
           UNCHANGED <<init, listening, shutdown>>, CallInv(c)'
    PROVE  IInv'
<1>1. ASSUME NEW d \in Callers, d # c PROVE CallInv(d)'
    <2>1. CallInv(d)
        BY DEF IInv
    <2> QED
        BY <1>1, <2>1 DEF OthersKept, CallInv, ConnectedCall, ListsCover
<1> QED
    BY <1>1 DEF IInv

(* A call ends, or goes to the phase it names, with another list.          *)
LEMMA PhaseTypes ==
    ASSUME Typed, NEW c \in Callers, NEW nodes \in SUBSET Nodes,
           NEW name \in {"new", "previous"}, Phase(c, name, nodes)
    PROVE  /\ pc' \in [Callers -> {"idle", "current", "new", "previous", "write", "put"}]
           /\ list' \in [Callers -> SUBSET Nodes] /\ todo' \in [Everyone -> SUBSET Nodes]
           /\ retry' \in [Everyone -> Nat]
           /\ result' \in [Callers -> {"none", "ok", "error"}]
           /\ pc'[c] = name /\ list'[c] = nodes /\ todo'[c] = nodes
           /\ \A d \in Callers \ {c} : pc'[d] = pc[d] /\ list'[d] = list[d]
                                       /\ todo'[d] = todo[d] /\ result'[d] = result[d]
BY ChainSubset DEF Phase, Typed

(* A list is given up for good when its nodes have failed the call, or     *)
(* when the shutdown cuts the phase off.                                   *)
LEMMA ListFailedKeeps ==
    ASSUME Typed, NEW c \in Callers, pc[c] \in {"new", "previous"}, ListFailed(c),
           UNCHANGED <<previous, listening, shutdown>>,
           failed' \in [Everyone -> SUBSET Nodes], failed[c] \subseteq failed'[c],
           listening => ListsCover(c) /\ (shutdown \/ list[c] \subseteq failed'[c])
    PROVE  /\ pc' \in [Callers -> {"idle", "current", "new", "previous", "write", "put"}]
           /\ list' \in [Callers -> SUBSET Nodes] /\ todo' \in [Everyone -> SUBSET Nodes]
           /\ retry' \in [Everyone -> Nat]
           /\ result' \in [Callers -> {"none", "ok", "error"}]
           /\ pc'[c] \in {"idle", "previous"}
           /\ \A d \in Callers \ {c} : pc'[d] = pc[d] /\ list'[d] = list[d]
                                       /\ todo'[d] = todo[d] /\ result'[d] = result[d]
           /\ listening => ListsCover(c)'
<1>1. CASE pc[c] = "new" /\ previous[c] # {}
    <2>1. Phase(c, "previous", previous[c]) /\ previous[c] \in SUBSET Nodes
        BY <1>1 DEF ListFailed, Typed
    <2>2. pc'[c] = "previous" /\ list'[c] = previous[c] /\ todo'[c] = previous[c]
        BY <2>1, PhaseTypes
    <2>3. ASSUME listening PROVE ListsCover(c)'
        <3>1. list[c] \cup previous[c] = Nodes
            BY <1>1, <2>3 DEF ListsCover
        <3>2. shutdown \/ list[c] \subseteq failed'[c]
            BY <2>3
        <3> QED
            BY <2>2, <3>1, <3>2 DEF ListsCover
    <2> QED
        BY <2>1, <2>2, <2>3, PhaseTypes
<1>2. CASE ~(pc[c] = "new" /\ previous[c] # {})
    <2>1. Return(c, "error") /\ UNCHANGED <<list, todo, retry>>
        BY <1>2 DEF ListFailed
    <2>2. pc'[c] = "idle" /\ result'[c] = "error"
        BY <2>1 DEF Return, Typed
    <2>3. ASSUME listening PROVE shutdown \/ Nodes \subseteq failed'[c]
        BY <1>2, <2>3 DEF ListsCover
    <2>4. ASSUME listening PROVE ListsCover(c)'
        <3>1. failed'[c] \subseteq Nodes
            BY ChainSubset
        <3> QED
            BY <2>2, <2>3, <2>4, <3>1 DEF ListsCover
    <2> QED
        BY <2>1, <2>2, <2>4 DEF Return, Typed
<1> QED
    BY <1>1, <1>2

(* The first list and the one to come are all the nodes.                   *)
LEMMA NewNodesIInv ==
    ASSUME IInv, NEW c \in Callers, pc[c] = "current", ToNewNodes(c),
           UNCHANGED <<shared, found>>,
           failed' \in [Everyone -> SUBSET Nodes],
           \A d \in Callers \ {c} : failed'[d] = failed[d]
    PROVE  IInv'
<1> DEFINE parts == Shuffle(rpc_node)
<1>1. /\ parts[1] \in SUBSET Nodes /\ parts[2] \in SUBSET Nodes
      /\ parts[1] \cup parts[2] = Nodes
    BY ShufflePartition
<1>2. Phase(c, "new", parts[1]) /\ previous' = [previous EXCEPT ![c] = parts[2]]
    BY DEF ToNewNodes
<1> HIDE DEF parts
<1>3. Typed /\ CallInv(c) /\ OnlyExpectedChain
    BY DEF IInv
<1>4. Typed' /\ OthersKept(c) /\ pc'[c] = "new" /\ list'[c] = parts[1] /\ todo'[c] = parts[1]
    BY <1>1, <1>2, <1>3, PhaseTypes DEF Typed, OthersKept
<1>5. previous'[c] = parts[2]
    BY <1>2, <1>3 DEF Typed
<1>6. ListsCover(c)'
    BY <1>1, <1>4, <1>5 DEF ListsCover
<1>7. ConnectedCall(c)'
    BY <1>3, <1>4 DEF CallInv, ConnectedCall, shared
<1>8. OnlyExpectedChain' /\ UNCHANGED <<init, listening, shutdown>>
    BY <1>3 DEF OnlyExpectedChain, shared
<1> QED
    BY <1>4, <1>6, <1>7, <1>8, StepOfOne DEF CallInv

-----------------------------------------------------------------------------
(* The steps of one call.                                                  *)
LEMMA CallStepIInv ==
    ASSUME IInv, NEW c \in Callers, CallStep(c)
    PROVE  IInv'
<1> USE ChainSubset
<1>0. Typed /\ CallInv(c) /\ ConnectedCall(c) /\ OnlyExpectedChain
    BY DEF IInv, CallInv
<1>1. ASSUME UNCHANGED shared PROVE OnlyExpectedChain' /\ UNCHANGED <<init, listening, shutdown>>
    BY <1>0, <1>1 DEF shared, OnlyExpectedChain
<1>2. CASE CurrentSucceeds(c)
    <2>1. Typed' /\ OthersKept(c) /\ CallInv(c)'
        BY <1>0, <1>2 DEF CurrentSucceeds, Return, Typed, OthersKept, CallInv, ConnectedCall,
            ListsCover, shared
    <2> QED
        BY <1>1, <1>2, <2>1, StepOfOne DEF CurrentSucceeds
<1>3. CASE CurrentFails(c)
    <2>1. subxt_client \in Nodes
        BY <1>0, <1>3 DEF CurrentFails, ConnectedCall, OnlyExpectedChain
    <2>2. failed' \in [Everyone -> SUBSET Nodes]
          /\ \A d \in Callers \ {c} : failed'[d] = failed[d]
        BY <1>0, <1>3, <2>1 DEF CurrentFails, Typed
    <2>3. CASE LastRound(c)
        <3>1. pc[c] = "current" /\ ToNewNodes(c) /\ UNCHANGED <<shared, found, calls>>
            BY <1>3, <2>3 DEF CurrentFails
        <3> QED
            BY <1>0, <1>1, <2>2, <3>1, NewNodesIInv
    <2>4. CASE ~LastRound(c)
        <3>1. Typed' /\ OthersKept(c) /\ CallInv(c)'
            BY <1>0, <1>3, <2>2, <2>4 DEF CurrentFails, Typed, OthersKept, CallInv,
                ConnectedCall, ListsCover, shared
        <3> QED
            BY <1>1, <1>3, <3>1, StepOfOne DEF CurrentFails
    <2> QED
        BY <2>3, <2>4
(* ListFailed as it ends a step of a call.                                 *)
<1>4. ASSUME pc[c] \in {"new", "previous"}, ListFailed(c),
             UNCHANGED <<shared, previous, found>>,
             failed' \in [Everyone -> SUBSET Nodes], failed[c] \subseteq failed'[c],
             \A d \in Callers \ {c} : failed'[d] = failed[d],
             listening => shutdown \/ list[c] \subseteq failed'[c]
      PROVE  IInv'
    <2>1. UNCHANGED <<previous, listening, shutdown>> /\ (listening => ListsCover(c))
        BY <1>0, <1>4 DEF CallInv, shared
    <2>2. /\ Typed' /\ OthersKept(c) /\ pc'[c] \in {"idle", "previous"}
          /\ listening => ListsCover(c)'
        BY <1>0, <1>4, <2>1, ListFailedKeeps DEF Typed, OthersKept
    <2>3. ConnectedCall(c)'
        BY <1>0, <1>4, <2>2 DEF ConnectedCall, shared
    <2> QED
        BY <1>1, <1>4, <2>1, <2>2, <2>3, StepOfOne DEF CallInv
<1>5. ASSUME NEW n \in Nodes, NodeSucceeds(c, n) PROVE IInv'
    <2>1. CASE listening
        <3>1. Typed' /\ OthersKept(c) /\ CallInv(c)'
            BY <1>0, <1>5, <2>1 DEF NodeSucceeds, Trying, RightChain, Typed, OthersKept,
                CallInv, ConnectedCall, ListsCover, shared
        <3> QED
            BY <1>1, <1>5, <3>1, StepOfOne DEF NodeSucceeds
    <2>2. CASE ~listening
        BY <1>0, <1>4, <1>5, <2>2 DEF NodeSucceeds, Trying, Typed
    <2> QED
        BY <2>1, <2>2
<1>6. ASSUME NEW n \in Nodes, NodeFails(c, n) PROVE IInv'
    <2>1. /\ failed' \in [Everyone -> SUBSET Nodes] /\ failed'[c] = failed[c] \cup {n}
          /\ \A d \in Callers \ {c} : failed'[d] = failed[d]
          /\ pc[c] \in {"new", "previous"} /\ UNCHANGED <<shared, previous, found>>
        BY <1>0, <1>6 DEF NodeFails, Trying, Typed
    <2>2. CASE todo[c] # {n}
        <3>1. /\ todo' = [todo EXCEPT ![c] = @ \ {n}]
              /\ UNCHANGED <<pc, list, retry, result>>
            BY <1>6, <2>2 DEF NodeFails
        <3>2. Typed' /\ OthersKept(c)
            BY <1>0, <2>1, <3>1 DEF Typed, OthersKept
        <3>3. CallInv(c)'
            BY <1>0, <2>1, <3>1 DEF Typed, CallInv, ConnectedCall, ListsCover, shared
        <3> QED
            BY <1>1, <2>1, <3>2, <3>3, StepOfOne
    <2>3. CASE todo[c] = {n} /\ LastRound(c)
        <3>1. listening => list[c] \subseteq failed'[c]
            BY <1>0, <2>1, <2>3 DEF CallInv, ListsCover
        <3> QED
            BY <1>4, <1>6, <2>1, <2>3, <3>1 DEF NodeFails
    <2>4. CASE todo[c] = {n} /\ ~LastRound(c)
        <3>1. NextRound(c, list[c]) /\ UNCHANGED <<pc, list, result>>
            BY <1>6, <2>4 DEF NodeFails
        <3>2. Typed' /\ OthersKept(c) /\ todo'[c] = list[c]
            BY <1>0, <2>1, <3>1 DEF NextRound, Typed, OthersKept
        <3>3. CallInv(c)'
            BY <1>0, <2>1, <3>1, <3>2 DEF CallInv, ConnectedCall, ListsCover, shared
        <3> QED
            BY <1>1, <2>1, <3>2, <3>3, StepOfOne
    <2> QED
        BY <2>2, <2>3, <2>4
<1>7. CASE WriteClient(c) \/ PutNode(c)
    <2>1. /\ OnlyExpectedChain' /\ UNCHANGED <<init, listening, shutdown>>
          /\ Typed' /\ OthersKept(c)
        BY <1>0, <1>7 DEF WriteClient, PutNode, Return, Typed, OthersKept, ConnectedCall,
            OnlyExpectedChain
    <2>2. CallInv(c)'
        BY <1>0, <1>7 DEF WriteClient, PutNode, Return, Typed, CallInv, ConnectedCall,
            ListsCover
    <2> QED
        BY <2>1, <2>2, StepOfOne
<1>8. CASE Cancel(c)
    <2>1. shutdown /\ UNCHANGED <<shared, found, failed, calls>>
        BY <1>8 DEF Cancel
    <2>2. CASE pc[c] = "current" /\ ToNewNodes(c)
        BY <1>0, <2>1, <2>2, NewNodesIInv DEF Typed
    <2>3. CASE pc[c] \in {"new", "previous"} /\ ListFailed(c) /\ UNCHANGED previous
        BY <1>0, <1>4, <2>1, <2>3 DEF Typed
    <2> QED
        BY <1>8, <2>2, <2>3 DEF Cancel
<1> QED
    BY <1>2, <1>3, <1>5, <1>6, <1>7, <1>8 DEF CallStep

(* The steps of the first connection, and those that begin a call.         *)
LEMMA NextIInv == IInv /\ [Next]_vars => IInv'
<1> SUFFICES ASSUME IInv, [Next]_vars PROVE IInv'
    OBVIOUS
<1> USE ChainSubset
<1>0. Typed /\ OnlyExpectedChain /\ \A c \in Callers : CallInv(c)
    BY DEF IInv
(* No call is made while the connection is not there.                      *)
<1>1. ASSUME init = "connecting", Typed', OnlyExpectedChain',
             UNCHANGED <<pc, result, listening, shutdown>>,
             \A c \in Callers : failed'[c] = failed[c]
      PROVE  IInv'
    <2>1. ASSUME NEW c \in Callers PROVE CallInv(c)'
        BY <1>0, <1>1 DEF CallInv, ConnectedCall, ListsCover, Typed
    <2> QED
        BY <1>1, <2>1 DEF IInv
<1>2. ASSUME NEW n \in Nodes, InitConnects(n) PROVE IInv'
    <2>1. Typed' /\ OnlyExpectedChain'
        BY <1>0, <1>2 DEF InitConnects, InitRound, NextRound, RightChain, Typed,
            OnlyExpectedChain
    <2> QED
        BY <1>1, <1>2, <2>1 DEF InitConnects
<1>3. ASSUME NEW n \in Nodes, InitNodeFails(n) PROVE IInv'
    <2>1. Typed' /\ OnlyExpectedChain' /\ \A c \in Callers : failed'[c] = failed[c]
        BY <1>0, <1>3 DEF InitNodeFails, InitRound, NextRound, Typed, OnlyExpectedChain
    <2> QED
        BY <1>1, <1>3, <2>1 DEF InitNodeFails
<1>4. ASSUME NEW c \in Callers, StartCall(c) PROVE IInv'
    <2>1. Typed' /\ OthersKept(c) /\ CallInv(c)'
        BY <1>0, <1>4 DEF StartCall, Typed, OthersKept, CallInv, ConnectedCall, ListsCover,
            shared
    <2>2. OnlyExpectedChain' /\ UNCHANGED <<init, listening, shutdown>>
        BY <1>0, <1>4 DEF StartCall, OnlyExpectedChain, shared
    <2> QED
        BY <2>1, <2>2, StepOfOne
<1>5. CASE Shutdown
    BY <1>0, <1>5 DEF Shutdown, IInv, Typed, OnlyExpectedChain, CallInv, ConnectedCall,
        ListsCover, call
<1>6. CASE CancelInit
    <2>1. Typed' /\ OnlyExpectedChain'
        BY <1>0, <1>6 DEF CancelInit, Typed, OnlyExpectedChain, call
    <2> QED
        BY <1>1, <1>6, <2>1 DEF CancelInit, call
<1>7. CASE Quiet \/ UNCHANGED vars
    BY <1>0, <1>7 DEF Quiet, vars, call, IInv, Typed, OnlyExpectedChain, CallInv,
        ConnectedCall, ListsCover
<1> QED
    BY <1>2, <1>3, <1>4, <1>5, <1>6, <1>7, CallStepIInv DEF Next

-----------------------------------------------------------------------------
(* The first connection: the nodes struck off the round have failed.       *)
ConnectionCovers ==
    /\ init = "connecting" => Nodes \ todo[Initializer] \subseteq failed[Initializer]
    /\ ConnectsToAnyNode

(* What a call does is of no concern to the first connection.              *)
LEMMA CallLeavesConnection ==
    ASSUME Typed, NEW c \in Callers, CallStep(c) \/ StartCall(c)
    PROVE  /\ UNCHANGED <<init, shutdown>>
           /\ todo'[Initializer] = todo[Initializer]
           /\ failed'[Initializer] = failed[Initializer]
<1>1. c # Initializer /\ Initializer \in Everyone
    BY ChainSubset
<1>2. ASSUME ListFailed(c) PROVE todo'[Initializer] = todo[Initializer]
    BY <1>1, <1>2 DEF ListFailed, Phase, Typed
<1>3. ASSUME NEW n \in Nodes, NodeSucceeds(c, n) \/ NodeFails(c, n)
      PROVE  /\ UNCHANGED <<init, shutdown>>
             /\ todo'[Initializer] = todo[Initializer]
             /\ failed'[Initializer] = failed[Initializer]
    BY <1>1, <1>2, <1>3 DEF NodeSucceeds, NodeFails, NextRound, shared, Typed
<1>4. CASE Cancel(c)
    BY <1>1, <1>2, <1>4 DEF Cancel, ToNewNodes, Phase, shared, Typed
<1>5. CASE CurrentSucceeds(c) \/ CurrentFails(c)
    BY <1>1, <1>5 DEF CurrentSucceeds, CurrentFails, ToNewNodes, Phase, shared, Typed
<1>6. CASE WriteClient(c) \/ PutNode(c) \/ StartCall(c)
    BY <1>1, <1>6 DEF WriteClient, PutNode, StartCall, shared, Typed
<1> QED
    BY <1>3, <1>4, <1>5, <1>6 DEF CallStep

LEMMA NextConnection ==
    Typed /\ listening /\ ConnectionCovers /\ [Next]_vars => ConnectionCovers'
<1> SUFFICES ASSUME Typed, listening, ConnectionCovers, [Next]_vars
             PROVE  ConnectionCovers'
    OBVIOUS
<1> USE ChainSubset DEF ConnectionCovers, ConnectsToAnyNode
<1>1. ASSUME NEW n \in Nodes, InitConnects(n) PROVE ConnectionCovers'
    BY <1>1 DEF InitConnects
<1>2. ASSUME NEW n \in Nodes, InitNodeFails(n) PROVE ConnectionCovers'
    <2>1. failed'[Initializer] = failed[Initializer] \cup {n} /\ failed[Initializer] \subseteq Nodes
        BY <1>2 DEF InitNodeFails, Typed
    <2>2. CASE todo[Initializer] = {n}
        <3>1. failed'[Initializer] = Nodes
            BY <1>2, <2>1, <2>2 DEF InitNodeFails
        <3>2. InitRound
            BY <1>2, <2>2 DEF InitNodeFails
        <3> QED
            BY <3>1, <3>2, <1>2 DEF InitRound, InitNodeFails
    <2>3. CASE todo[Initializer] # {n}
        BY <1>2, <2>1, <2>3 DEF InitNodeFails, Typed
    <2> QED
        BY <2>2, <2>3
<1>3. ASSUME NEW c \in Callers, StartCall(c) \/ CallStep(c) PROVE ConnectionCovers'
    BY <1>3, CallLeavesConnection
<1>4. CASE Shutdown \/ CancelInit
    BY <1>4 DEF Shutdown, CancelInit, call
<1>5. CASE Quiet \/ UNCHANGED vars
    BY <1>5 DEF Quiet, vars, call
<1> QED
    BY <1>1, <1>2, <1>3, <1>4, <1>5 DEF Next

LEMMA ReceiverStays == listening /\ [Next]_vars => listening'
BY DEF Next, vars, call, shared, InitConnects, InitNodeFails, StartCall, CallStep,
    CurrentSucceeds, CurrentFails, NodeSucceeds, NodeFails, WriteClient, PutNode, Cancel,
    Shutdown, CancelInit, Quiet

-----------------------------------------------------------------------------
(* However many tasks switch the shared client under each other, neither   *)
(* the client nor the stored key is ever left on a node of another chain   *)
(* (create_rpc_client compares the genesis hash).                          *)
THEOREM ClientStaysOnChain == Spec => []OnlyExpectedChain
<1>1. IInv => OnlyExpectedChain
    BY DEF IInv
<1> QED
    BY InitIInv, NextIInv, <1>1, PTL DEF Spec

(* As long as somebody receives the RPC events, with_retries gives a call  *)
(* up only when every configured node has failed it, or in the shutdown.   *)
THEOREM CallsExhaustNodes ==
    ASSUME Listeners = {TRUE}
    PROVE  Spec => []FailsOnlyOnAllNodes
<1>1. Init => listening
    BY DEF Init
<1>2. IInv /\ listening => FailsOnlyOnAllNodes
    BY DEF IInv, CallInv, ListsCover, FailsOnlyOnAllNodes
<1> QED
    BY InitIInv, NextIInv, ReceiverStays, <1>1, <1>2, PTL DEF Spec

(* So does attempt_connection: the first connection fails only when every  *)
(* configured node has failed it, or in the shutdown.                      *)
THEOREM ConnectionExhaustsNodes ==
    ASSUME Listeners = {TRUE}
    PROVE  Spec => []ConnectsToAnyNode
<1>1. Init => listening /\ ConnectionCovers
    BY ChainSubset DEF Init, ConnectionCovers, ConnectsToAnyNode
<1>2. IInv => Typed
    BY DEF IInv
<1>3. ConnectionCovers => ConnectsToAnyNode
    BY DEF ConnectionCovers
<1> QED
    BY InitIInv, NextIInv, NextConnection, ReceiverStays, <1>1, <1>2, <1>3, PTL DEF Spec
=============================================================================
