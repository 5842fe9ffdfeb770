# Avail light client in TLA+

Specifications of this repository, the TLC configurations that check them on
small instances, and theorems about them that TLAPS checks for every instance.
Paths are relative to `src/`; `core/` stands for `core/src/`.

## 1. The system

The light client follows the finalized chain through an RPC node it does not
trust: it verifies GRANDPA justifications, samples random cells of every final
block from a DHT or from the node, and derives a confidence. Around it the
repository has a fat client that fills the DHT, a crawler, a bootstrap node, a
monitor of the network, a web build and two test programs. The parts of a process
share one database and talk through bounded broadcast channels.

```
   RPC node --headers, justifications--> subscription loop --HeaderUpdate--+
      |                                      | checkpoint                  |
      |  <-- finality sync (walk) -----------+ (database)                  v
      |                                                 light client, sync client
      +-- RPC client (failover, nonce) <-- all of them         | processed blocks
      |                                                        v
      +-- network client (fallback) <------------------ application client
   DHT <-- P2P client -> event loop -> Kademlia store          |
             ^ restart manager                                 v
   shutdown controller: cancels every task;         publishers -> web sockets
   updater and maintenance may ask for a restart    API v1, v2 read the database
```

| Component | State | Operations | What is hard | What makes it correct |
|---|---|---|---|---|
| finality check (`core/finality.rs`) | none | `check_finality` | neighbouring set ids, ancestry of votes, threshold | accepts exactly a supermajority of votes for descendants |
| subscription loop (`core/network/rpc/subscriptions.rs`) | unverified headers with their validator set, stack of justifications, last finalized header | handle a header or justification, verify and put out | two streams in any order, set changes, reconnection, RPC failure half way | no gap, right authorities, everything justified comes out |
| finality sync (`core/sync_finality.rs`) | position, set id, validators, checkpoint | walk one block, check a proof, store a checkpoint | restarts, nodes that lag or are on a fork | a finished run has verified all; a checkpoint is true |
| RPC client (`core/network/rpc/client.rs`) | current client, stored node, event channel, nonce | `with_retries`, first connection, `submit_data` | several calls switch the one client; lost answers | a call gives up only when every node has failed it; the nonce is ahead of the chain only after a loss |
| shutdown (`core/shutdown*`) | reason, delay tokens, wakers | trigger, tokens, four futures | lost wakeups, completion before or after the trigger | one reason, completion final, nobody waits for ever |
| light, sync, app client (`core/*_client.rs`) | ranges and per-block records in the database | process a block | receivers that lag, skipped blocks, a crash between two clients | what the API calls finished is so |
| network client (`core/network.rs`), cell proofs (`core/proof.rs`) | none | `fetch_verified`, `verify` | three modes, partial and wrong answers | only proved cells count; what the DHT lacks is asked from the node |
| API v1, v2 (`core/api`) | WebSocket clients, publishers | status, block, header, data; subscribe, publish | three clients write what one handler reads; a publisher that lags | answers are not taken back; sockets get every message in order |
| P2P client and event loop (`core/network/p2p`) | swarm, pending queries and dials | commands, swarm events | answers matched to callers, closed channels | every caller gets an answer |
| P2P restart (`core/network/p2p/restart.rs`) | shared client, current controller | periodic and triggered restart | stale clones, a start that fails half way | one loop serves; always another attempt |
| Kademlia stores, `BlockStat` (`client/src/main.rs`) | records, provider records, statistics of puts | put, get, expire, prune, count results | expiry that the sender chooses, results out of batches | records expire; results meet their batch |
| programs (`*/src/main.rs`), maintenance, updater | tasks, channels, `restart` flag | start the parts in order, wait, restart | a receiver made too late, a task that ends alone, two causes of a restart | startup ends, no program lives on without its loop, a restart happens |
| monitor (`monitor-client/src`) | list of servers | discover, check, page | copies written back whole | the list follows discoveries, dead peers are blacklisted |

`PROJECT.json` lists every part with its status, and the hazards of the code at
their lines.

## 2. The modules

| Module | Models | Code |
|---|---|---|
| `Finality` | the justification check, as operators | `core/finality.rs` |
| `GrandpaChain` | a chain with changes of authorities, the justification of each block | external, and `filter_auth_set_changes` |
| `SubscriptionLoop` | subscription streams, stall detector, the loop | `core/network/rpc/subscriptions.rs`, `client.rs:445-551` |
| `SyncFinality` | the walk, its checkpoint, restarts | `core/sync_finality.rs` |
| `ShutdownPromise` | what the controller promises: triggered once for one reason, completed once and for good | abstract |
| `Shutdown` | controller, tokens, futures and wakers | `core/shutdown.rs`, `core/shutdown/` |
| `RpcClient` | failover of concurrent calls | `core/network/rpc/client.rs:163-442`, `rpc.rs` |
| `Submission` | submissions with retries and the nonce of the client | `core/network/rpc/client.rs`, `core/api/v2/transactions.rs` |
| `BlockPipeline` | light, sync and app client over the database; what both APIs answer | `core/light_client.rs`, `sync_client.rs`, `app_client.rs`, `api/types.rs`, `api/v1`, `api/v2`, `client/src/main.rs` |
| `DataPath` | the cells and rows of one block: fat client, DHT, light client, app client | `core/network.rs`, `proof.rs`, `fat_client.rs`, `light_client.rs`, `app_client.rs`, `network/p2p/client.rs` |
| `P2PEventLoop` | event loops and the calls of their clients | `core/network/p2p/client.rs`, `event_loop.rs` |
| `P2PRestart` | the manager, the shared client and a clone of it | `core/network/p2p/restart.rs`, `client/src/main.rs` |
| `KadNode` | records of the DHT at one node, and the statistics of puts | `core/network/p2p/kad_mem_store.rs`, `kad_rocksdb_store.rs`, `client.rs`, `event_loop.rs`, `client/src/main.rs` |
| `ApiServer` | publishers, subscriptions and web sockets | `core/api/v2`, `core/api/types.rs` |
| `Monitor` | the list of servers, checks, paging | `monitor-client/src` |
| `Process` | each program from main to its end or restart | `client`, `fat`, `crawler`, `bootstrap`, `monitor-client`, `web`, `p2p-load-test`, `compatibility-tests`, `core/updater`, `core/maintenance.rs` |
| `FinalityCheck` | `check_finality` as one step on any small justification and map of parents | `core/finality.rs` |
| `Components` | joins the components that share no state | |
| `*_proofs` | theorems about the module of that name | |
| `MC*` | instances for TLC | |

`GrandpaChain` extends `Finality`; `SubscriptionLoop` and `SyncFinality` extend
`GrandpaChain`, so both run the real check on the justifications of a chain.
`Shutdown` instantiates `ShutdownPromise` and refines it. `P2PRestart` extends
`P2PEventLoop` and adds who starts and ends its loops. `DataPath` composes three
clients that meet in the DHT. `Components` extends `DataPath` with instances of
`KadNode`, `FinalityCheck`, `Submission`, `Monitor`, `ApiServer` and `Process`,
which share no state: each behaviour is about one subject while the rest keep
still. Four runs and one module of theorems are about it.

What one module assumes of its neighbours another one shows, where it is modelled:
`BlockPipeline` begins where the subscription loop ends, with blocks announced in
order without a gap (`NoGapInOutput`); its first block is the one the loop of the
light client starts at (`Process!LoopStartsAtFirst`); that every awaited call of
a task ends is `RpcClient!CallsEnd` and `P2PRestart!CallsEnd`.

How state and actions correspond to the code is in `PROJECT.json` under `map`,
definition by definition. In short:

- **Subscription loop.** `unverified_headers`, `justifications`, `current_valset`,
  `next_valset` and `last_finalized_block_header` are variables of their own;
  `emitted` is the set of `HeaderUpdate` events. One action per item received, one
  per turn of the loop in `verify_and_output_block_headers`. A panic (`expect`,
  `unwrap`, the asserts of the change filter) is a value of `pc`.
- **Finality sync.** `Begin`, `FetchHeader`, `CheckProof` and `Finish` are the
  stretches between two awaits that matter. A block is a number and a branch; its
  hash is the block itself. The database outlives `Restart`.
- **Shutdown.** Every method that takes the lock is one action; polls check and
  register under that lock. A waker is the name of the task in the list it was
  pushed to; a task is woken when it is taken out of the list.
- **RPC client.** `pc` is the phase of `with_retries` a call is in. The order of
  a shuffled list is open in every round. `WriteClient` and `PutNode` are two
  steps, as they are two statements without a common lock.
- **Submissions.** An attempt reads the counter and later writes it; what becomes
  of the transaction in between (included, invalid, lost before or after the
  node had it) is open.
- **Block pipeline.** A database record is a variable, a keyed record is the set
  of blocks that have one. A fetch has one of three outcomes: enough cells, too
  few (nothing is stored), an error. A broadcast receiver that is more than the
  capacity behind gets an error. `Answer`, `HeaderAnswer`, ... are the handlers.
- **Data path.** A cell or row is its verdict: good, bad or broken (the check
  itself is an error). A lookup of the DHT may miss any record; a node may answer
  in part and wrongly; other peers put what they like. A step ends at an await.
- **P2P.** A command is a call in the channel of its loop; it is answered at once,
  or by the event that ends its query or dial. A generation is one start of the
  P2P client, with its own controller.
- **Kademlia.** A record is when it expires; `due`, a history variable, is when it
  should by the local time to live. Time is a counter.
- **API server.** A channel is what is unread in it; a frame is its topic and
  number. One publisher per topic, which stops at the first error of `recv`.
- **Monitor.** A check copies the entry, dials, and writes the copy back whole.
- **Programs.** A main function is a script of steps (try, spawn, listen, ask,
  wait), a task its state; `Ends` and `OnClosed` say how each task may end.

## 3. Runs

Every passing run ends without error and explores its instance completely.

| Run | Instance | What it shows |
|---|---|---|
| `subscription` | 5 blocks, changes at 2 and 4, one reconnection, two buffered items per stream, RPC may fail, nodes neither lag nor outrun the loop at a change | no panic, right authorities, no gap, justified blocks come out |
| `subscription_race` | 6 blocks, and the node does not wait for the loop at a change | **violated**: `expect("Finality check failed")` panics for an honest node |
| `sync_finality` | 5 blocks, changes at 1 and 4, two restarts, nodes that follow finality | checkpoints are true; a finished walk has verified all; every run ends |
| `shutdown` | two reasons, two delay tokens with up to two copies, a trigger token, two cancellable tasks, two waiters | no lost wakeup, refinement of the promise, everybody is released |
| `rpc_client` | three hosts, one of another chain; two tasks, one call each, one retry per phase | a call or the first connection fails only on all nodes; never another chain; every call ends |
| `rpc_no_listener` | no receiver of RPC events | **violated**: the first connection fails although a node answers |
| `block_pipeline` | 4 blocks, the first run starts at 3, block 4 without extension, with and without history and app client, one crash, capacities 1 | finished means processed, synced means walked, no answer is taken back but the status of the history after a crash, every announced block is dealt with |
| `p2p_restart` | three generations, one task that calls (the shared client or a clone), one peer that is also the bootstrap, one call | one loop serves, the shared client is served, every call ends, a failed restart is followed by another |
| `kad_node` | three keys of two blocks, room for two records in memory, time to live 1, two puts, one restart, light and fat | no record outlives the time to live, a fat client keeps nothing, results meet their batch, every upload is reported |
| `data_path` | 2 rows by 3 columns (one row of the application, one extension), all modes, with and without multiproofs; one wrong answer per call, one record of another peer, one P2P restart | cells that count are proved, what the DHT lacks comes from an honest node, data of P2P-only mode are true |
| `app_rows` | the same | **violated**: a row of the DHT that failed verification is stored |
| `components` | see below | eleven properties of five components |

`kad_node`, `data_path`, `app_rows` and `components` are runs of `MCComponents` with
different `Subjects`.

The instances of `components`: every justification of up to three precommits by up
to three validators and a stranger, set ids with and without a lower neighbour and
every small map of ancestries; two submissions, three attempts each; a monitor of
two peers, one a bootstrap, with two overlapping checks and a window of two results;
one topic with four events, the third of which cannot be converted, a channel of
two, two sockets of one subscription; each program from its start, the client
with three configurations.

A violated run checks one statement of a comment or document of the repository,
quoted in `findings`, and TLC's trace shows what the code does instead.

**Deadlock** is checked except in `data_path`, `app_rows` and `components`, whose
behaviours end: a block is dealt with, a program stops, the bound is reached.
Elsewhere a state that may be final stutters by an action with its own guard, such
as `Ended`.

**Bounds.** `MaxBlock` is the smallest chain in which two changes of authorities
are followed by a block, so that a set id is adopted twice and a stale set is two
ids off, beyond the fallback. One reconnection loses everything buffered once;
after it the loop is in a state it could have started in. In `RpcClient` two calls
suffice for every interleaving of the two writes, three hosts for a list with two
new nodes, one retry for a round that is repeated. In `BlockPipeline` capacity 1
makes every receiver lag; two blocks before the first of a run are a history the
sync client walks in two steps, and after a crash the first of the next run is
above blocks that were announced before.
Three generations are two restarts, the second of which may follow a failed one.
Three keys exceed the store by one, and two puts are two batches of a block. Three
columns are the fewest a block may have, two rows an application row and
its extension. Four events overrun a channel of two while the publisher
handles one. `MaxCrashes`, `MaxRestarts`, `MaxReconnects`, `MaxCalls`, `Retries`,
`MaxAttempts`, `MaxBuffered`, `MaxCopies`, `MaxGen`, `MaxTime`, `MaxPuts`,
`MaxChecks`, `MaxEvents`, `MaxRequests` and `MaxHeaders` bound what is unbounded
in the code; each is named in its module.

**Regimes of a run.** `MaxLag = 0`, `PromptChanges = TRUE` and
`LosesChanges = FALSE` say that nodes are not behind a stored checkpoint, and do
not outrun the loop at a change of authorities; `PeersExpire = TRUE` that other
nodes put records that expire. They are assumptions about nodes that the code
makes and does not check; where they fail the code fails too, see section 5.

**Fairness.** Only weak fairness of steps of tasks: the runtime polls every woken
task, and every awaited call ends because its retries are bounded or a query times
out. The network is not fair: nodes need not finalize, headers need not come,
peers need not answer, users need not stop anything, tokens need not be dropped.
Liveness is stated relative to that: a justified block comes out *once no
reconnection is left*, a sync ends *or the process is shut down*, an announced block
is dealt with *unless the process goes down or the light client has returned*, a
message reaches a socket *unless the publisher falls behind*, an upload is
reported *unless a restart dropped one of its queries*. `data_path` has no
liveness property: its steps are those of single calls.

## 4. Theorems

| Theorem | Statement | Argument |
|---|---|---|
| `Finality_proofs!SupermajorityIsTwoThirds` | the integer test is `3n > 2 size` | arithmetic |
| `Finality_proofs!TrueJustificationPasses` | what the authorities of a block sign passes `check_finality` against them under each set id it falls back from | least counterexamples, see below |
| `SubscriptionLoop_proofs!OutputHasNoGap` | `Spec => []NoGapInOutput` | see below |
| `SubscriptionLoop_proofs!FinalityNeverPanics`, `AuthoritiesAreTrue` | with `SteadyNode` and `FewRepeats`, no panic over a justification; every header waits with the authorities that finalize it | see below |
| `SyncFinality_proofs!SyncedRunIsVerified`, `WalkStaysInRange` | with `MaxLag = 0`, a run that ends in synced has stored the finalized header of every block up to its first one and covers all changes | see below |
| `SyncFinality_proofs!CheckpointIsTrue`, `ProofsAreAccepted` | the checkpoint holds the authorities of the block the next run resumes at; no proof is refused, for any lag | inductive: the walk carries the authorities of its block along |
| `Shutdown_proofs!TypeCorrect`, `CountsTokens` | types; the counter is the number of tokens alive | `TypeOK /\ TokensCounted` is inductive |
| `Shutdown_proofs!CompletesForGood`, `ImplementsPromise` | completion is final; refinement of `ShutdownPromise` | every step changes reason and counter in one of five ways (`ControllerStep`) |
| `Shutdown_proofs!WakeupsAreNotLost` | no task is parked while what it waits for is there | inductive over the former |
| `RpcClient_proofs!ClientStaysOnChain` | the shared client and the stored key never stay on a node of another chain | see below |
| `RpcClient_proofs!CallsExhaustNodes`, `ConnectionExhaustsNodes` | with `Listeners = {TRUE}`, a call or the first connection fails only on all nodes or in the shutdown | see below |
| `BlockPipeline_proofs!Synced` | `Spec => []SyncedMeansWalked` | see below |
| `BlockPipeline_proofs!Finished` | `Spec => []FinishedMeansData` | see below |
| `BlockPipeline_proofs!AnswersStay` | `Spec => AnswersAreKept`, a property of steps | see below |
| `P2PRestart_proofs!OneLoop`, `SharedServed` | two loops never serve; a shared client is served | see below |
| `Components_proofs!RecordsExpire` | with the memory store and peers whose records expire, no record outlives the local time to live | a record expires before it is due, and what is due is finite |
| `Components_proofs!FatStoreEmpties` | with the memory store, a fat client keeps a record only while a put of it is under way | inductive: puts count queries, the end of one removes the record |
| `Components_proofs!ResultsFindStatistics` | `CSpec => []ResultsAreExpected`, with finitely many keys | see below |
| `Components_proofs!CounterSafe` | the counter is ahead of the nonce the node expects only after a loss | inductive with what each attempt has read |
| `Components_proofs!AvailableMeansProved`, `FallbackIsComplete` | a block is verified with a good proof of every sampled cell; with a node it is skipped only when the node left a cell out | `LightInv`: what is fetched is good and asked for, and what is asked of the node is exactly the rest |
| `Components_proofs!StoredDataIsTrue` | from the DHT alone only true rows are stored | `AppInv`: rows are good from the verification on, and so are the cells columns are rebuilt from |
| `Components_proofs!FlagsFollowDiscovery` | a newcomer is blacklisted exactly when it has no global address | the same holds of every copy that a check will write back |
| `Components_proofs!PagesCover` | `PagesCoverListing` for any listing, page size and limit | see below |
| `Components_proofs!FramesHaveNoGap` | `CSpec => []NoGapsOnASocket` | see below |
| `Components_proofs!SupermajorityDecides` | `CSpec => []AcceptedIffSupermajority` | see below |
| `Components_proofs!HopsSuffice` | `confirm_ancestry` finds what any path of ancestries leads to, however long | see below |
| `Components_proofs!LoopTakesUpAtFirst` | `CSpec => []LoopStartsAtFirst` | every script listens before it spawns what announces |

The assumptions are the named `ASSUME`s of the modules (finite or natural
constants), which TLC evaluates in the runs, and what is stated in the table.
Four theorems are about facts no run lists because they follow the shape of one
module (`TypeOK`, `TokensCounted`, `CompletionIsFinal` of `Shutdown`,
`StaysInRange` of `SyncFinality`); the others rest on them.

*No gap.* `NoGapInOutput` alone is not inductive: a step emits the blocks between
the last finalized one and a justified one, so what is emitted has to reach up to
the last finalized one. The invariant adds `CoveredUpToFinalized` (everything from
the start to the last finalized block is out) and the types of what the step
computes with; a panic between two sends leaves a prefix, which has no gap either.

*Set ids and justifications.* The set id of a block is the number of changes below
it, and a justification lists authorities in ascending order: both are built over
data of any size. What the proofs need of them (`SetIds`, `AuthoritiesOfSet`,
`IncreasingEnumeration`) is shown without induction: of the numbers at which such
a statement fails there is a least one (`LeastNat`), and the definition refutes it.

*True authorities.* `SteadyNode` is what the code expects of a node: its finalized
head neither moves back nor skips a change on a reconnection (`MaxLag`, `MaxGap`,
`LosesChanges`), and it does not finalize a change while the loop is busy with the
last one (`PromptChanges`); `subscription_race` shows what comes of the last one
failing. `FewRepeats` bounds how often reconnections bring the header of one change
again before a justification is verified; `MaxReconnects <= 2` suffices for it, or
1 after a start at a change. It is sharp, see section 5. The invariant `LoopInv`
follows the header of a change through the loop: it is still to come
(`ChangeToCome`), has come in (`AllReceived`), or will come again (`ChangeAgain`).
Which of the three it is decides which authorities the next header gets and how far
the expected set id may be too high (`Slack`). A repeated header waits with the authorities of the
*next* set; it does no harm because a true one stands before it (`FirstTrue`) and no
justification of its block is left (`WrongSealed`, `Sealed`). Justifications are
verified last first, hence `JustificationOrder` and `Ahead`.

*Verified walk.* A checkpoint has to stand for the headers below it across any
number of restarts, and a walk for the changes it passed: `CheckpointCovers`,
`WalkCovers` and `AtChange` are what the loop keeps, and `SyncedMeansVerified`
follows where the exit test `curr == last + 1` is met. That the walk cannot pass
the exit is part of the invariant, and where `MaxLag = 0` is needed.

*Failover.* What a call knows when it gives up is spread over its phases:
`ListsCover` keeps that the nodes struck off the list of a phase have failed the
call, that `shuffle` split all nodes into this list and the next, and that before
the second phase all others failed. Other tasks interfere only through the shared
client and key, which the invariant keeps inside the expected chain once the first
connection stands (`ConnectedCall`); a step of one task leaves what the invariant
says of the others alone (`StepOfOne`). `ConnectionCovers` is the same argument for
the first connection.

*Finished and synced.* The API calls a block finished when it lies between the ends
of a range of which only the last end moves. That this implies anything about each
block rests on the queue of processed blocks: `NoneLost` keeps that every sampled
block is processed or queued, `InOrder` that the blocks of one client are queued in
ascending order, and `Behind` that they lie above the range of that client. A
block inside the range is therefore not in the queue. The two clients are told
apart by the first block of the run, so `Positions` keeps the sync client, and
what it has queued, below it, and the light client at or above; `FirstRun` ties
the range of verified headers, which the handler uses instead, to that same block.
`SyncedMeansWalked` needs `Positions` for the flag the app client sets. A crash
empties the queue and keeps the database: this is why `Finished` speaks of the time
before it, while `Synced` holds for any number of crashes.

*Answers stay.* An answer is taken back if a range shrinks, so the proof is that every
step lets every range grow (`Grows`), in which the handlers are monotone
(`GrowsKeeps`). A client writes the block it is at as the last one of the range, so
it must not be behind the range: `Recorded` adds that all ranges end at or before
the place of the light client in a run (`UpToFront`), at or before the last header between
runs (`Stored`), and that new blocks reach the application client in ascending
order (`NewInOrder`). After a crash none of this holds of the history, whose range
does move back.

*One loop.* Loops overlap in time (a loop is `closing` while the next one runs), so
the invariant is about who can reach them: the shared client, a clone, and calls
under way all lead to the loop of the current controller or to one that no longer
runs (`Reached`). `Phases` keeps that the manager starts a loop only when the last
one has ended, also after a start that failed half way.

*Sockets.* Gaps could come from a channel that overran, or from a socket that was
away. The first ends the publisher at its next turn, so `Queued` (what is unread
follows what was handled, number by number) is claimed of publishers that
work; the second is for good, since a subscription holds the sender of the last
socket that connected and a new connection is a new socket (`Fresh`). A socket that
holds the sender has every message since its first one (`Complete`).

*Supermajority.* Two computations are compared with their definitions. The walk of
`confirm_ancestry` is a recursive function: that its values exist (`HopsExist`), that
it follows a path as long as it goes on (`HopsGoOn`) and that no path leads elsewhere
(`PathHops`) is shown by least counterexamples, and walk and closure agree
(`AncestryIsDescent`). Both stop after as many hops as there are ancestries; that this
rejects no descendant is `HopsSuffice`: a path that meets a block twice can be cut
(`PathIsCut`), and a shortest one meets each block of the ancestries at most once. The dedup
keeps the first precommit of each signer (`FirstIsUnique`), so the signer of a matched
precommit is a bijection onto the validators that support the target
(`MatchesCountSupporters`).

*Statistics of puts.* That each result finds its statistics is about everything on its
way: puts announced, results queued, queries not ended. `Books` is the sum of them
without a fold: a sequence of numbers, what remains of the puts of a block now and
after each event, which are natural, so that no result takes what is not there.
`Accounted` keeps that such a sequence exists and ends at no less than the queries under
way, counted as a finite set of tokens (`Underway`); an event that comes in extends it
(`BooksGrow`), one that is dealt with shifts it (`BooksShift`), and a restart, which
drops queries, only leaves more at the end.

*Components.* A step of `Components` is a step of one component or leaves its
variables alone (`DataSteps`, `NodeSteps`, ...), so each part has an invariant of its own.

*Pages.* A client that follows the next pages is a recursive function; `Place` says
where it is after each request, `NextPlace` that a request leads from one place to the
next, which is where the rounding of `TotalPages` enters (`TotalPagesCover`).

**Only model-checked.** Liveness under fairness, which is out of the provers' reach, and
the properties of the violated runs, which do not hold. Every invariant and every
property of steps that a passing run checks is stated by a theorem.

## 5. Observations without a run

Found while modelling and not, or not only, expressed as a violated run:

- The loop stores a checkpoint only when it verified two blocks in one call after
  the sync was done (`core/network/rpc/subscriptions.rs:152`, `175`): a later run
  walks further than it needs to, and still verifies all (`SyncedMeansVerified`).
- With `MaxLag = 1` TLC finds the finality sync run beyond its end, and the
  assertion on parent hashes fail (`core/sync_finality.rs:250`, `264`).
- A header of a change of authorities that comes in again, because a reconnection
  repeats the head, is counted again: the set id the loop expects rises by one each
  time (`core/network/rpc/subscriptions.rs:132`) and is set right only by the next
  verified justification (`173`). `check_finality` goes back two ids, so two
  repeats are harmless (`FinalityNeverPanics`); with `MaxReconnects = 3`, or 2
  after a start at a change, TLC finds the panic.
- The sync client of a later run may verify a block of the history that the last run
  skipped, and then sets the last end of the ranges of the history back to it
  (`core/sync_client.rs:92-112`, `core/app_client.rs:457-468`): blocks above it,
  which it passes by because they are sampled, were finished and are no longer. This
  is the exception `AnswersAreKept` makes.
- `WithCancel` polls its future first (`core/shutdown/with_cancel.rs:41`): one that
  is ready yields `Ok` although the shutdown was triggered before.
- After two calls switched the client, the stored node need not be the connected
  one (`core/network/rpc/client.rs:436`); the next failover starts from it.
- `GET /v2/blocks/{n}/header` answers 404 for historical blocks, which have no
  time of reception (`core/api/v2/handlers.rs:115`, `core/api/v2/README.md:137`).
- The status of a block that was skipped inside the range, or sampled before a
  crash, is finished without data (`FinishedMeansData` is about neither).
- A `KadModeChange` event restarts the P2P client also when the mode is the same
  (`core/network/p2p/client.rs:422`).
- The RocksDB store adds the seconds a record has left to the time of each read
  (`core/network/p2p/kad_rocksdb_store.rs:56`): with `Backend = "rocksdb"` TLC
  finds a record that is put again for ever.
- `/peers/blacklisted` of the monitor lists the peers that are not blacklisted
  (`monitor-client/src/server.rs:75`, its `README.md:124`).
- `GET /v1/status` is 404 while the last achieved block has no extension or no
  count of cells (`core/api/v1/handlers.rs:66-83`).
- `calculate_confidence` (`core/utils.rs:56`) raises 2 to the number of verified
  cells in 32 bits, which overflows from 32 cells on.

## 6. Not modelled

Cryptography (signatures, hashes, KZG proofs) appears as verdicts; encodings,
formats and routes of the HTTP layer, command lines and telemetry not at all: they
keep no state that a property is about. libp2p is external; of its behaviours only
Kademlia and connections are modelled. Provider records of the DHT are never
written by the client. The decoding of application rows, the packet capture of
the analyzer, the test swarm in memory and the bodies of the load and compatibility
tests are sequential and have no state of the client.

## 7. Plan

Done: what the client trusts (`Finality`, `GrandpaChain`, `SubscriptionLoop`,
`SyncFinality`), what every task relies on (`Shutdown`), the way of a block
(`RpcClient`, `BlockPipeline`, `DataPath`), the DHT (`P2PEventLoop`, `P2PRestart`,
`KadNode`), what users see (`ApiServer`, `Submission`), and the programs around
(`Monitor`, `Process`). Further steps, in this order:

1. State `NoGapInOutput` and the start of the light client as an abstract
   announcer that `SubscriptionLoop` implements and `BlockPipeline` uses.
2. The decoding of application rows as a pure function over small rows.
