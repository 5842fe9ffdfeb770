------------------------------- MODULE Process --------------------------------
(***************************************************************************)
(* A run of one of the programs, from main to its end: the light client,   *)
(* the fat client, the crawler, the bootstrap node, the monitor, the load  *)
(* test, the compatibility tests and the two entries of the web client.    *)
(* Main goes through a script of steps that may fail, spawns tasks, asks   *)
(* the P2P loop, and waits; the tasks hold the ends of the channels of RPC *)
(* events and of processed blocks, end by themselves or when their channel *)
(* closes, and are cancelled by the shutdown they, the user or a panic     *)
(* trigger; the updater and the maintenance ask main to execute the        *)
(* program again. What tasks do in between is the matter of the other      *)
(* modules. Headers are numbered in the order they are announced.          *)
(***************************************************************************)
EXTENDS Naturals, Sequences

CONSTANTS
    Runs,           \* [program, options, releases] that are tried: what runs,
                    \*   what its configuration turns on, and what GitHub has
    Version,        \* of the program
    MaxHeaders      \* bound: headers announced

VARIABLES
    program, options, releases,   \* the run, one of Runs
    pc,             \* the next step of main
    main,           \* "running", or how it ended
    tasks,          \* [task -> "none", "running", "restarting", "ended"
                    \*   or "cancelled"]
    triggered,      \* has the shutdown been triggered?
    restart,        \* the flag main reads at the end
    sent,           \* headers announced so far
    from,           \* [receiver of RPC events -> first header it gets, 0: none]
    first           \* the header main took as the first, 0 before

process_vars == <<program, options, releases, pc, main, tasks, triggered, restart, sent, from, first>>

-----------------------------------------------------------------------------
(* Steps of main. A step with an option is taken only when it is on.       *)
Step(do, what) == [do |-> do, what |-> what, option |-> "always"]
If(option, step) == [step EXCEPT !.option = option]

Try        == Step("try", "")            \* may return an error
Spawn(t)   == Step("spawn", t)
Ask(t)     == Step("ask", t)             \* waits for an answer of the task
Listen(r)  == Step("listen", r)          \* makes a receiver of RPC events
Connect    == Step("connect", "")        \* rpc::init
Header     == Step("header", "")         \* waits for the first header
Join(t)    == Step("join", t)            \* waits for the end of the task
Serve      == Step("serve", "")          \* waits for the shutdown
ServeHttp  == Step("http", "")           \* waits for a user who stops the server
Leave      == Step("leave", "")          \* main returns Ok

(* init_and_start_p2p_client and its like: the loop runs before main waits *)
(* for it to listen. Mutant: it is started once it listens.                *)
ListensFirst == <<Try, Ask("p2p"), Spawn("p2p")>>
StartP2P     == <<Try, Spawn("p2p"), Ask("p2p")>>

(* The receiver of the state handler is made with the channel; the nonce   *)
(* of the signer is read from the node.                                    *)
ClientConnects == <<Listen("state"), Connect, Try>>

(* All receivers of RPC events are made before the loop that sends them is *)
(* spawned. Mutant: the client subscribes once it has its first header.    *)
LateReceivers ==
    <<Listen("publisher"), Listen("first_header"), Spawn("subscriptions"), Header, Listen("loop")>>
ClientReceivers ==
    <<Listen("publisher"), Listen("first_header"), Listen("loop"), Spawn("subscriptions"), Header>>

(* Binding the server panics when its port is taken.                       *)
ClientTasks ==
    <<Try, Spawn("server"), If("app", Spawn("app")), Spawn("publisher"), If("sync", Spawn("sync")),
      If("sync_finality", Spawn("sync_finality")), Spawn("updater"), Spawn("maintenance"),
      Spawn("light")>>

StateHandler == <<Try, Spawn("state")>>

(* Configuration, identity and database, before main runs the rest. The    *)
(* configuration of a client without bootstraps, with a restart interval   *)
(* that is too short, or of a server that nobody can reach is an error.    *)
LoadConfig == <<Try>>

ClientScript ==
    LoadConfig \o [i \in 1 .. Len(StartP2P) |-> If("p2p", StartP2P[i])] \o ClientConnects
    \o ClientReceivers \o ClientTasks \o StateHandler \o <<Serve>>

FatBegins == <<Try>>
FatStarts ==
    StartP2P
    \o <<Listen("state"), Connect, Listen("first_header"), Listen("loop"),
         Spawn("subscriptions"), Header>>
FatTasks  == <<Spawn("heartbeat"), Try, Spawn("server"), Spawn("fat")>> \o StateHandler
FatScript == FatBegins \o FatStarts \o FatTasks \o <<Join("fat"), Serve>>

(* The receiver made with the channel is dropped at once.                  *)
CrawlerBegins == <<Try>>
CrawlerStarts ==
    StartP2P
    \o <<Connect, Listen("first_header"), Listen("loop"), Spawn("subscriptions"), Header>>
CrawlerTasks  == <<Spawn("heartbeat"), Spawn("crawler")>> \o StateHandler
CrawlerScript == CrawlerBegins \o CrawlerStarts \o CrawlerTasks \o <<Join("crawler"), Leave>>

BootstrapBegins == <<Try>>
BootstrapTasks  == StartP2P \o <<Spawn("server")>> \o StateHandler
BootstrapScript == BootstrapBegins \o BootstrapTasks \o <<Serve>>

MonitorScript ==
    <<Try>> \o StartP2P \o <<Spawn("state"), Spawn("bootstraps"), Spawn("discovery"),
                             Spawn("monitor"), Try, ServeHttp>>

LoadTestScript ==
    <<Try>> \o StartP2P \o <<Ask("p2p"), Spawn("state"), Spawn("load"), Join("load"), Leave>>

(* The receiver is dropped at once here as well.                           *)
CompatibilityScript == <<Try, Connect, Spawn("subscriptions"), Try, Leave>>

(* The P2P loop of the web client is made and never run.                   *)
WebScript ==
    <<Listen("loop"), Listen("publisher"), Connect, Try, Spawn("subscriptions"), Spawn("light"),
      Spawn("publisher"), Join("light"), Leave>>
LatestBlockScript == <<Try, Listen("loop"), Connect, Try, Leave>>

Script ==
    CASE program = "client"    -> ClientScript
      [] program = "fat"       -> FatScript
      [] program = "crawler"   -> CrawlerScript
      [] program = "bootstrap" -> BootstrapScript
      [] program = "monitor"   -> MonitorScript
      [] program = "load_test" -> LoadTestScript
      [] program = "tests"     -> CompatibilityScript
      [] program = "web"       -> WebScript
      [] program = "latest"    -> LatestBlockScript
Programs == {"client", "fat", "crawler", "bootstrap", "monitor", "load_test", "tests", "web", "latest"}

ProcessAssumption == \A r \in Runs : r.program \in Programs

-----------------------------------------------------------------------------
Tasks == {"p2p", "subscriptions", "server", "app", "publisher", "sync", "sync_finality",
          "updater", "maintenance", "light", "state", "heartbeat", "fat", "crawler", "load",
          "bootstraps", "discovery", "monitor"}

(* Stable releases have a plain version; a release of the client whose tag *)
(* has no version makes the whole listing an error.                        *)
LatestStable ==
    {r \in releases : r.stable /\ \A other \in releases : other.stable => other.version <= r.version}
UpdateAvailable ==
    /\ \A r \in releases : r.version # 0
    /\ \E r \in LatestStable : r.version > Version

(* How tasks may end by themselves, because they lag behind, meet an error *)
(* or are done: by returning, by triggering the shutdown (a panic does too *)
(* where the hook is installed), or by asking for a restart. The updater   *)
(* returns with any error and when it lags.                                *)
UpdaterEnds     == IF UpdateAvailable /\ "no_update" \notin options
                   THEN {"returns", "restarts"} ELSE {"returns"}
MaintenanceEnds == IF "maintenance_restart" \in options THEN {"restarts"} ELSE {}
ServerEnds      == IF program = "bootstrap" THEN {"returns"} ELSE {}
CrawlerEnds     == {"returns"}      \* at the first event that is no header
LoadEnds        == {"returns"}      \* after the duration of the test
HeartbeatEnds   == {"triggers"}     \* also when it lags

(* Mutant: only the log tells of a failed subscription loop.               *)
LoopReturns   == {"returns"}
LoopTriggers  == {"triggers"}

Ends(t) ==
    CASE t \in {"publisher", "sync"} -> {"returns"}
      [] t \in {"light", "fat", "sync_finality"} -> {"returns", "triggers"}
      [] t = "app" -> {"triggers"}
      [] t = "heartbeat" -> HeartbeatEnds
      [] t = "crawler" -> CrawlerEnds
      [] t = "load" -> LoadEnds
      [] t = "subscriptions" -> LoopTriggers
      [] t = "server" -> ServerEnds
      [] t = "updater" -> UpdaterEnds
      [] t = "maintenance" -> MaintenanceEnds
      [] OTHER -> {}

(* How they end when no sender of processed blocks is left.                *)
OnClosed(t) ==
    CASE t \in {"app", "heartbeat"} -> "triggers"
      [] t \in {"updater", "maintenance"} -> "returns"
      [] OTHER -> "stays"

(* Tasks that are not wrapped in with_cancel.                              *)
Uncancelled ==
    IF program = "web" THEN {"light"} ELSE IF "p2p_restart" \in options THEN {"p2p"} ELSE {}

Live == {t \in Tasks : tasks[t] \in {"running", "restarting"}}
RestartLocked == \E t \in Tasks : tasks[t] = "restarting"

(* Main holds the sender of blocks until it hands it to the loop.          *)
LoopOf == CASE program = "fat" -> "fat" [] program = "crawler" -> "crawler" [] OTHER -> "light"
BlocksClosed == tasks[LoopOf] # "none" /\ Live \cap {LoopOf, "sync"} = {}

Init ==
    /\ \E r \in Runs : program = r.program /\ options = r.options /\ releases = r.releases
    /\ pc = 1 /\ main = "running"
    /\ tasks = [t \in Tasks |-> "none"]
    /\ triggered = FALSE /\ restart = FALSE
    /\ sent = 0 /\ first = 0
    /\ from = [r \in {"state", "publisher", "first_header", "loop"} |-> 0]

-----------------------------------------------------------------------------
At(do) == main = "running" /\ Script[pc].do = do /\ pc \in 1 .. Len(Script)
What   == Script[pc].what

(* On to the next step whose option is on.                                 *)
Taken(i) == Script[i].option \in options \cup {"always"}
Proceed ==
    /\ \E i \in pc + 1 .. Len(Script) : /\ Taken(i) /\ \A k \in pc + 1 .. i - 1 : ~Taken(k)
                                        /\ pc' = i
    /\ UNCHANGED main
(* The crawler ends well whatever its run returned.                        *)
End(how) ==
    /\ main' = IF program = "crawler" THEN "done" ELSE how
    /\ UNCHANGED pc

(* An error ends run and main with it.                                     *)
MainTries ==
    /\ At("try") /\ (Proceed \/ End("failed"))
    /\ UNCHANGED <<program, options, releases, tasks, triggered, restart, sent, from, first>>

(* A task spawned after the trigger is cancelled when it is first polled.  *)
MainSpawns ==
    /\ At("spawn") /\ Proceed
    /\ tasks' = [tasks EXCEPT ![What] = "running"]
    /\ UNCHANGED <<program, options, releases, triggered, restart, sent, from, first>>

(* The task answers, with an error maybe; an error too when it is gone.    *)
MainAsks ==
    /\ At("ask")
    /\ \/ tasks[What] = "running" /\ Proceed
       \/ tasks[What] # "none" /\ End("failed")
    /\ UNCHANGED <<program, options, releases, tasks, triggered, restart, sent, from, first>>

MainListens ==
    /\ At("listen") /\ Proceed
    /\ from' = [from EXCEPT ![What] = sent + 1]
    /\ UNCHANGED <<program, options, releases, tasks, triggered, restart, sent, first>>

(* The first connection fails without a receiver of its event (RpcClient). *)
MainConnects ==
    /\ At("connect")
    /\ \/ Proceed /\ \E r \in DOMAIN from : from[r] # 0
       \/ End("failed")
    /\ UNCHANGED <<program, options, releases, tasks, triggered, restart, sent, from, first>>

(* The first header, or an error after six minutes and after the trigger.  *)
MainTakesHeader ==
    /\ At("header")
    /\ \/ /\ from["first_header"] <= sent
          /\ first' = from["first_header"] /\ Proceed
       \/ End("failed") /\ UNCHANGED first
    /\ UNCHANGED <<program, options, releases, tasks, triggered, restart, sent, from>>

(* A task that was cancelled gives main the reason as an error, the load   *)
(* just stops.                                                             *)
MainJoins ==
    /\ At("join")
    /\ \/ tasks[What] = "ended" /\ Proceed
       \/ tasks[What] = "cancelled" /\ End(IF program = "load_test" THEN "done" ELSE "failed")
    /\ UNCHANGED <<program, options, releases, tasks, triggered, restart, sent, from, first>>

(* The shutdown completes at once, no task delays it; then the light client*)
(* takes the lock of the flag.                                             *)
MainServes ==
    /\ At("serve") /\ triggered /\ ~RestartLocked
    /\ End(IF restart THEN "restarted" ELSE "stopped")
    /\ UNCHANGED <<program, options, releases, tasks, triggered, restart, sent, from, first>>

MainLeaves ==
    /\ At("leave") /\ End("done")
    /\ UNCHANGED <<program, options, releases, tasks, triggered, restart, sent, from, first>>

(* The web server of the monitor takes the signal of the user itself.      *)
UserStopsServer ==
    /\ At("http") /\ End("stopped")
    /\ UNCHANGED <<program, options, releases, tasks, triggered, restart, sent, from, first>>

Main ==
    \/ MainTries \/ MainSpawns \/ MainAsks \/ MainListens \/ MainConnects
    \/ MainTakesHeader \/ MainJoins \/ MainServes \/ MainLeaves

-----------------------------------------------------------------------------
UserSignal ==
    /\ main = "running" /\ ~triggered /\ program \in {"client", "fat", "crawler", "bootstrap"}
    /\ triggered' = TRUE
    /\ UNCHANGED <<program, options, releases, pc, main, tasks, restart, sent, from, first>>

Announce ==
    /\ main = "running" /\ tasks["subscriptions"] = "running" /\ sent < MaxHeaders
    /\ sent' = sent + 1
    /\ UNCHANGED <<program, options, releases, pc, main, tasks, triggered, restart, from, first>>

TaskReturns(t) ==
    /\ main = "running" /\ tasks[t] = "running"
    /\ "returns" \in Ends(t) \/ (OnClosed(t) = "returns" /\ BlocksClosed)
    /\ tasks' = [tasks EXCEPT ![t] = "ended"]
    /\ UNCHANGED <<program, options, releases, pc, main, triggered, restart, sent, from, first>>

TaskTriggers(t) ==
    /\ main = "running" /\ tasks[t] = "running"
    /\ "triggers" \in Ends(t) \/ (OnClosed(t) = "triggers" /\ BlocksClosed)
    /\ tasks' = [tasks EXCEPT ![t] = "ended"]
    /\ triggered' = TRUE
    /\ UNCHANGED <<program, options, releases, pc, main, restart, sent, from, first>>

(* A restart is asked for in two steps, with the lock of the flag held and *)
(* nothing awaited between them.                                           *)
FlagRestart == restart' = TRUE /\ UNCHANGED triggered

(* Mutant: whoever asks for the restart leaves the shutdown to others.     *)
NoTrigger   == UNCHANGED <<restart, triggered>>
StopForIt   == triggered' = TRUE /\ UNCHANGED restart

TaskAsksRestart(t) ==
    /\ main = "running" /\ tasks[t] = "running" /\ "restarts" \in Ends(t) /\ ~RestartLocked
    /\ tasks' = [tasks EXCEPT ![t] = "restarting"]
    /\ FlagRestart
    /\ UNCHANGED <<program, options, releases, pc, main, sent, from, first>>

TaskTriggersRestart(t) ==
    /\ main = "running" /\ tasks[t] = "restarting"
    /\ tasks' = [tasks EXCEPT ![t] = "ended"]
    /\ StopForIt
    /\ UNCHANGED <<program, options, releases, pc, main, sent, from, first>>

(* All tasks notice the trigger; the order in which they do is left out.   *)
Cancel ==
    /\ main = "running" /\ triggered
    /\ \E t \in Tasks \ Uncancelled : tasks[t] = "running"
    /\ tasks' = [t \in Tasks |-> IF tasks[t] = "running" /\ t \notin Uncancelled
                                 THEN "cancelled" ELSE tasks[t]]
    /\ UNCHANGED <<program, options, releases, pc, main, triggered, restart, sent, from, first>>

Next ==
    \/ Main \/ UserStopsServer \/ UserSignal \/ Announce \/ Cancel
    \/ \E t \in Tasks : TaskReturns(t) \/ TaskTriggers(t)
    \/ \E t \in Tasks : TaskAsksRestart(t) \/ TaskTriggersRestart(t)

(* Main and the tasks are polled; a task notices a closed channel and the  *)
(* cancellation, but need not end by itself.                               *)
Closes == BlocksClosed /\ \E t \in Tasks : OnClosed(t) # "stays" /\ (TaskReturns(t) \/ TaskTriggers(t))
Fairness ==
    /\ WF_process_vars(Main)
    /\ WF_process_vars(Closes)
    /\ WF_process_vars(\E t \in Tasks : TaskTriggersRestart(t))
    /\ WF_process_vars(Cancel)

Spec == Init /\ [][Next]_process_vars /\ Fairness

-----------------------------------------------------------------------------
(* The loop of the client takes up exactly where the sync of the past ends,*)
(* at the first header main waited for: no block falls between them and    *)
(* none is in both, whatever headers come while main goes on, for all      *)
(* receivers were made before the first was sent (main.rs 216-253).        *)
LoopStartsAtFirst == first # 0 /\ from["loop"] # 0 => from["loop"] = first

(* Main does not wait for ever on a task it has not started, on a first    *)
(* header that does not come, or on a connection: it gets to serve or ends *)
(* (restart.rs 50-62, rpc.rs 282-308).                                     *)
StartupEnds == <>(main # "running" \/ Script[pc].do \in {"serve", "http", "join"})

(* A program does not live on without the loop it is for: when the         *)
(* subscriptions, the fat client or the crawler end, or no more blocks     *)
(* come to an application client, the process ends (main.rs 223-230, fat   *)
(* 138-141 and 521-546). Not so the web client, whose light client nobody  *)
(* cancels, nor a light client without application, whose loop may return  *)
(* alone when it lags behind (light_client.rs 287-297).                    *)
Vital == {"subscriptions", "fat", "crawler", "app"}
LoopEnded ==
    \/ program # "web" /\ \E t \in Vital : tasks[t] = "ended"
    \/ BlocksClosed /\ {"app", "heartbeat"} \cap Live # {}
EndedLoopEndsProcess == LoopEnded ~> main # "running"

(* A restart that the updater or the maintenance asks for happens, unless  *)
(* main fails first, even when another reason stops the process: the flag  *)
(* is set before the trigger and read under its lock (updater 281-291,     *)
(* maintenance.rs 193-206, main.rs 1105-1110).                             *)
RestartHappens == restart ~> main \in {"restarted", "failed"}
=============================================================================
