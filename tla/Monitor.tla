------------------------------- MODULE Monitor --------------------------------
(***************************************************************************)
(* The monitor client: a list of discovered servers that three parties     *)
(* update under a mutex they give up while they wait - the handler of P2P  *)
(* events, and one task per known peer and tick that copies the entry of   *)
(* the peer, dials it and writes the whole copy back - and the HTTP API    *)
(* that pages through the list. Entries are never removed. Addresses are   *)
(* abstracted to whether a globally reachable one is known, round-trip     *)
(* times to how many are recorded.                                         *)
(***************************************************************************)
EXTENDS Integers, Sequences, FiniteSets, FiniteSetsExt, SequencesExt

CONSTANTS
    MonitoredPeers,          \* peers that may be discovered (naturals, in the
                             \*   order the API sorts them)
    BootstrapPeers,          \* those of the configuration
    ResultWindow,            \* MAX_CONNECTION_RESULTS, and the number of
                             \*   results the score waits for (20)
    PingWindow,              \* MAX_PING_RECORDS (20)
    blacklist_threshold, blacklist_remove_threshold,   \* 20 and 60
    MaxChecks                \* bound: overlapping checks of one peer

(* The score of a peer without enough results, 50, moves no flag.          *)
MonitorAssumption ==
    /\ {ResultWindow, PingWindow} \subseteq Nat
    /\ blacklist_threshold \in 0 .. 50 /\ blacklist_remove_threshold \in 50 .. 100

VARIABLES
    server_list,    \* [peer -> entry]: ServerInfo of the peers discovered
    checks          \* [peer -> [slot -> [at, info]]]: at is "free", "spawned" or
                    \*   "dialing", info the copy of the entry

monitor_vars == <<server_list, checks>>

Known == DOMAIN server_list
NoPage == 0
Slots == 1 .. MaxChecks

NewServer(global) ==
    [global |-> global, is_blacklisted |-> ~global, results |-> <<>>, pings |-> 0]

NoCheck == [at |-> "free", info |-> NewServer(FALSE)]

Init ==
    /\ server_list = <<>>
    /\ checks = [p \in MonitoredPeers |-> [i \in Slots |-> NoCheck]]

(***************************************************************************)
(* OutputEvent::DiscoveredPeers: one event carries several peers.          *)
(***************************************************************************)
Rediscovered(info, global) ==
    [info EXCEPT !.global = global, !.is_blacklisted = ~global]

Discover(found) ==      \* found: [peer -> has it a global address?]
    LET servers == DOMAIN found \ BootstrapPeers
    IN  server_list' = [p \in Known \cup servers |->
            IF p \notin servers THEN server_list[p]
            ELSE IF p \in Known THEN Rediscovered(server_list[p], found[p])
            ELSE NewServer(found[p])]

DiscoveredPeers(found) == Discover(found) /\ UNCHANGED checks

(* OutputEvent::Ping: only for a peer that was discovered.                 *)
Ping(p) ==
    /\ p \in Known
    /\ server_list' = [server_list EXCEPT ![p].pings =
                           IF @ < PingWindow THEN @ + 1 ELSE @]
    /\ UNCHANGED checks

(***************************************************************************)
(* A tick spawns a check of every known peer, whether or not the previous  *)
(* one has ended; the check copies the entry once it holds the lock.       *)
(***************************************************************************)
FreeSlot(p) == CHOOSE i \in Slots : checks[p][i].at = "free"

Tick ==
    /\ Known # {}
    /\ \A p \in Known : \E i \in Slots : checks[p][i].at = "free"
    /\ checks' = [p \in MonitoredPeers |->
                    IF p \in Known THEN [checks[p] EXCEPT ![FreeSlot(p)].at = "spawned"]
                    ELSE checks[p]]
    /\ UNCHANGED server_list

CopyEntry(p, i) ==
    /\ checks[p][i].at = "spawned"
    /\ checks' = [checks EXCEPT ![p][i] = [at |-> "dialing", info |-> server_list[p]]]
    /\ UNCHANGED server_list

UpdateConnectionResult(results, success) ==
    LET longer == Append(results, success)
    IN  IF Len(longer) > ResultWindow THEN Tail(longer) ELSE longer

(* Mutant: waits for one result more than are ever kept.                   *)
LateScore(results) ==
    IF Len(results) <= ResultWindow THEN 50
    ELSE (100 * Cardinality({i \in 1 .. Len(results) : results[i]})) \div Len(results)

(* Percent of the dials recorded that succeeded; 50 until enough are.      *)
HealthScore(results) ==
    IF Len(results) < ResultWindow THEN 50
    ELSE (100 * Cardinality({i \in 1 .. Len(results) : results[i]})) \div Len(results)

CheckedEntry(info, success) ==
    LET results == UpdateConnectionResult(info.results, success)
        score   == HealthScore(results)
    IN  [info EXCEPT !.results = results,
                     !.is_blacklisted = IF score < blacklist_threshold THEN TRUE
                                        ELSE IF score > blacklist_remove_threshold THEN FALSE
                                        ELSE @]

(* Mutant: the check writes back its results and its flag alone.           *)
PartWriteBack(p, info, success) ==
    LET entry == CheckedEntry(info, success)
    IN  server_list' = [server_list EXCEPT ![p].results = entry.results,
                                           ![p].is_blacklisted = entry.is_blacklisted]

WriteBack(p, info, success) ==
    server_list' = [server_list EXCEPT ![p] = CheckedEntry(info, success)]

(* The dial is answered: the connection stands, or an error, also for a    *)
(* dial whose answer went to a second dial of the same peer.               *)
Dialed(p, i, success) ==
    /\ checks[p][i].at = "dialing"
    /\ WriteBack(p, checks[p][i].info, success)
    /\ checks' = [checks EXCEPT ![p][i] = NoCheck]

Next ==
    \/ \E S \in SUBSET MonitoredPeers \ {{}} : \E found \in [S -> BOOLEAN] : DiscoveredPeers(found)
    \/ \E p \in MonitoredPeers : Ping(p)
    \/ Tick
    \/ \E p \in MonitoredPeers, i \in Slots : CopyEntry(p, i)
    \/ \E p \in MonitoredPeers, i \in Slots, success \in BOOLEAN : Dialed(p, i, success)

(* The interval ticks for ever and every dial is answered (P2PRestart).    *)
Fairness ==
    /\ WF_monitor_vars(Tick)
    /\ \A p \in MonitoredPeers, i \in Slots :
          /\ WF_monitor_vars(CopyEntry(p, i))
          /\ WF_monitor_vars(\E success \in BOOLEAN : Dialed(p, i, success))

Spec == Init /\ [][Next]_monitor_vars /\ Fairness

(***************************************************************************)
(* The HTTP API: every listing is the sorted list of the entries, paged.   *)
(* The sort makes it the same for every request: in which order peers are  *)
(* listed does not matter here.                                            *)
(***************************************************************************)
Listing(peers)   == SetToSeq(peers)

ValidatePage(page) == IF page < 1 THEN 1 ELSE page
ValidateLimit(limit, max_limit) ==
    IF limit < 1 THEN 1 ELSE IF limit > max_limit THEN max_limit ELSE limit

(* Mutant: only full pages count.                                          *)
FullPages(total, limit) == total \div limit

TotalPages(total, limit) == (total + limit - 1) \div limit
PageData(items, page, limit) ==
    SubSeq(items, (page - 1) * limit + 1, Min({Len(items), page * limit}))
NextPage(page, total, limit) == IF page < TotalPages(total, limit) THEN page + 1 ELSE NoPage

-----------------------------------------------------------------------------
(* What has been seen, and the page to ask for, after n requests.          *)
Follow(r, items, limit) ==
    IF r.next = NoPage THEN r
    ELSE [seen |-> r.seen \o PageData(items, r.next, limit),
          next |-> NextPage(r.next, Len(items), limit)]

Requests(items, limit) ==
    LET read[n \in 0 .. Len(items)] ==
            IF n = 0 THEN [seen |-> <<>>, next |-> ValidatePage(0)]
            ELSE Follow(read[n - 1], items, limit)
    IN  read

(* Whoever follows the next pages from the first one on sees every peer of *)
(* a listing once and in order, whatever the page size asked for           *)
(* (server.rs 231-262, config.rs 112-118).                                 *)
PagesCoverListing(peers, asked, max_limit) ==
    LET items == Listing(peers)
    IN  Requests(items, ValidateLimit(asked, max_limit))[Len(items)]
            = [seen |-> items, next |-> IF items = <<>> THEN 1 ELSE NoPage]

(* Until a peer has enough results it is blacklisted exactly when no       *)
(* global address of it is known, however discoveries fall between the     *)
(* copies and the write-backs of overlapping checks: address and flag      *)
(* travel together (main.rs 236-253, peer_monitor.rs 79-102).              *)
NewcomersFollowDiscovery ==
    \A p \in Known : Len(server_list[p].results) < ResultWindow =>
        (server_list[p].is_blacklisted <=> ~server_list[p].global)

(* A peer that never answers again and is not rediscovered ends up         *)
(* blacklisted, although a slow check may undo the results of quicker ones *)
(* (peer_monitor.rs 99-102): every write-back is one result ahead of the   *)
(* copy it came from, so the oldest copy in flight gains with each round.  *)
Answers(p)   == \E i \in Slots : Dialed(p, i, TRUE)
Discovers(p) == \E S \in {T \in SUBSET MonitoredPeers : p \in T} :
                   \E found \in [S -> BOOLEAN] : DiscoveredPeers(found)
DeadPeersAreBlacklisted ==
    \A p \in MonitoredPeers :
        (/\ <>[](p \in Known)
         /\ <>[][~Answers(p)]_monitor_vars
         /\ <>[][~Discovers(p)]_monitor_vars)
        => <>[](p \in Known /\ server_list[p].is_blacklisted)
=============================================================================
