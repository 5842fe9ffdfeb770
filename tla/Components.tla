------------------------------- MODULE Components -------------------------------
(***************************************************************************)
(* The components that share no state with the others, each explored from  *)
(* its own initial states while the rest keep still: the cells and rows of *)
(* a block, the node of the DHT, the finality check, the nonce of          *)
(* submissions, the monitor client, the web sockets of the API, and the    *)
(* life of each program from main to its end.                              *)
(***************************************************************************)
EXTENDS DataPath

CONSTANTS
    Subjects,       \* the components explored
    Keys, Blocks, BlockOf, NoRecord, NoStat, Backend, max_records, kad_record_ttl,
    PeersExpire, MaxTime, MaxPuts,
    Sizes, SetIds, SignedIds, Signers, MaxPrecommits, AncestryBlocks,
    Submits, UsedNonces, MaxAttempts,
    MonitoredPeers, BootstrapPeers, ResultWindow, PingWindow,
    blacklist_threshold, blacklist_remove_threshold, MaxChecks,
    Topics, ChannelCapacity, Skipped, Unconvertible, Ids, Sockets,
    FieldSets, Payloads, MaxEvents, MaxRequests,
    Runs, Version, MaxHeaders

VARIABLES
    subject,        \* the component this behaviour is about
    is_fat_client, now, records, queries, output, active_blocks, lost_blocks, puts, node_restarts,
    valset, just, result,
    signer_nonce, account_nonce, pool, submits, lost,
    server_list, checks,
    channels, publishers, ws_clients, sockets, pushed,
    program, options, releases, pc, main, tasks, triggered, restart, sent, from, first

Kad == INSTANCE KadNode WITH lost <- lost_blocks, restarts <- node_restarts
Fin == INSTANCE FinalityCheck
Sub == INSTANCE Submission
Mon == INSTANCE Monitor
Api == INSTANCE ApiServer
Pro == INSTANCE Process

node_vars     ==
    <<is_fat_client, now, records, queries, output, active_blocks, lost_blocks, puts, node_restarts>>
finality_vars == <<valset, just, result>>
submit_vars   == <<signer_nonce, account_nonce, pool, submits, lost>>
monitor_vars  == <<server_list, checks>>
api_vars      == <<channels, publishers, ws_clients, sockets, pushed>>
process_vars  ==
    <<program, options, releases, pc, main, tasks, triggered, restart, sent, from, first>>
components_vars ==
    <<subject, vars, node_vars, finality_vars, submit_vars, monitor_vars, api_vars, process_vars>>

ASSUME ComponentsAssumption ==
    /\ Kad!KadNodeAssumption /\ Fin!FinalityAssumption /\ Sub!SubmissionAssumption
    /\ Mon!MonitorAssumption /\ Api!ApiAssumption /\ Pro!ProcessAssumption

-----------------------------------------------------------------------------
(* How the components that keep still begin.                               *)
NoBlockYet ==
    network_mode = (CHOOSE mode \in Modes : TRUE) /\ ~insert_into_dht /\ ~multiproof

NoCheckYet ==
    /\ valset = [set_id |-> 0, validator_set |-> {1}] /\ result = Fin!Pending
    /\ just = [target |-> 1, ancestries |-> <<>>, precommits |-> <<>>]

NoProcess ==
    /\ program = "web" /\ options = {} /\ releases = {} /\ pc = 1 /\ main = "done"
    /\ tasks = [t \in Pro!Tasks |-> "none"]
    /\ from = [r \in {"state", "publisher", "first_header", "loop"} |-> 0]
    /\ triggered = FALSE /\ restart = FALSE /\ sent = 0 /\ first = 0

CInit ==
    /\ subject \in Subjects
    /\ Init /\ (subject # "data" => NoBlockYet)
    /\ Kad!Init /\ (subject # "node" => ~is_fat_client)
    /\ IF subject = "finality" THEN Fin!Init ELSE NoCheckYet
    /\ Sub!Init /\ (subject # "submission" => account_nonce = 0)
    /\ Mon!Init /\ Api!Init
    /\ IF subject = "process" THEN Pro!Init ELSE NoProcess

(* The steps of one component, which are about nothing else.               *)
Fetching   == subject = "data" /\ Next
              /\ UNCHANGED <<node_vars, finality_vars, submit_vars, monitor_vars, api_vars, process_vars>>
Storing    == subject = "node" /\ Kad!Next
              /\ UNCHANGED <<vars, finality_vars, submit_vars, monitor_vars, api_vars, process_vars>>
Finality   == subject = "finality" /\ Fin!Next
              /\ UNCHANGED <<vars, node_vars, submit_vars, monitor_vars, api_vars, process_vars>>
Submitting == subject = "submission" /\ Sub!Next
              /\ UNCHANGED <<vars, node_vars, finality_vars, monitor_vars, api_vars, process_vars>>
Monitoring == subject = "monitor" /\ Mon!Next
              /\ UNCHANGED <<vars, node_vars, finality_vars, submit_vars, api_vars, process_vars>>
Serving    == subject = "api" /\ Api!Next
              /\ UNCHANGED <<vars, node_vars, finality_vars, submit_vars, monitor_vars, process_vars>>
Running    == subject = "process" /\ Pro!Next
              /\ UNCHANGED <<vars, node_vars, finality_vars, submit_vars, monitor_vars, api_vars>>

CNext ==
    /\ UNCHANGED subject
    /\ Fetching \/ Storing \/ Finality \/ Submitting \/ Monitoring \/ Serving \/ Running

CSpec ==
    /\ CInit /\ [][CNext]_components_vars
    /\ Kad!Fairness /\ Mon!Fairness /\ Api!Fairness /\ Pro!Fairness

-----------------------------------------------------------------------------
(* The properties of the components, each stated and explained where it is *)
(* defined.                                                                *)
NothingOutlivesTTL       == Kad!NothingOutlivesTTL
FatStoreIsTransient      == Kad!FatStoreIsTransient
ResultsAreExpected       == Kad!ResultsAreExpected
UploadsAreReported       == Kad!UploadsAreReported
AcceptedIffSupermajority == Fin!AcceptedIffSupermajority
CounterIsAheadOnlyAfterLoss == Sub!CounterIsAheadOnlyAfterLoss
NewcomersFollowDiscovery == Mon!NewcomersFollowDiscovery
DeadPeersAreBlacklisted  == Mon!DeadPeersAreBlacklisted
NoGapsOnASocket          == Api!NoGapsOnASocket
SubscribersAreServed     == Api!SubscribersAreServed
LoopStartsAtFirst        == Pro!LoopStartsAtFirst
StartupEnds              == Pro!StartupEnds
EndedLoopEndsProcess     == Pro!EndedLoopEndsProcess
RestartHappens           == Pro!RestartHappens

(* Pages of up to three peers, walked through once.                        *)
PagesCoverListing ==
    server_list = <<>> /\ subject = "monitor" =>
        \A peers \in SUBSET (1 .. 3), asked \in 0 .. 4 : Mon!PagesCoverListing(peers, asked, 3)
=============================================================================
