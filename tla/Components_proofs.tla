--------------------------- MODULE Components_proofs ---------------------------
(***************************************************************************)
(* What the components of Components keep to for every value of their      *)
(* constants: the stores of the DHT node, the nonce of submissions, the    *)
(* cells and rows of a block, the monitor client, the web sockets, the     *)
(* life of a program and the finality check. Each part has an inductive    *)
(* invariant of its own and rests on the lemma that a step is one of the   *)
(* component or leaves it alone.                                           *)
(***************************************************************************)
EXTENDS Components, FiniteSetTheorems, SequenceTheorems, WellFoundedInduction, TLAPS

-----------------------------------------------------------------------------
(* Every step is one of a component, or leaves it alone.                   *)
LEMMA DataSteps ==
    (CInit => Init) /\ ([CNext]_components_vars => [Next]_vars)
BY DEF CInit, CNext, components_vars,
    Fetching, Storing, Finality, Submitting, Monitoring, Serving, Running

LEMMA NodeSteps ==
    (CInit => Kad!Init) /\ ([CNext]_components_vars => [Kad!Next]_(Kad!vars))
BY DEF CInit, CNext, components_vars, node_vars, Kad!vars, Kad!store, Kad!stats,
    Fetching, Storing, Finality, Submitting, Monitoring, Serving, Running

LEMMA SubmissionSteps ==
    (CInit => Sub!Init) /\ ([CNext]_components_vars => [Sub!Next]_submit_vars)
BY DEF CInit, CNext, components_vars, submit_vars,
    Fetching, Storing, Finality, Submitting, Monitoring, Serving, Running

LEMMA MonitorSteps ==
    (CInit => Mon!Init) /\ ([CNext]_components_vars => [Mon!Next]_monitor_vars)
BY DEF CInit, CNext, components_vars, monitor_vars,
    Fetching, Storing, Finality, Submitting, Monitoring, Serving, Running

LEMMA ApiSteps ==
    (CInit => Api!Init) /\ ([CNext]_components_vars => [Api!Next]_api_vars)
BY DEF CInit, CNext, components_vars, api_vars,
    Fetching, Storing, Finality, Submitting, Monitoring, Serving, Running

LEMMA ProcessSteps ==
    (CInit => Pro!Init \/ NoProcess) /\ ([CNext]_components_vars => [Pro!Next]_process_vars)
BY DEF CInit, CNext, components_vars, process_vars,
    Fetching, Storing, Finality, Submitting, Monitoring, Serving, Running

LEMMA FinalitySteps ==
    (CInit => Fin!Init \/ NoCheckYet) /\ ([CNext]_components_vars => [Fin!Next]_finality_vars)
BY DEF CInit, CNext, components_vars, finality_vars,
    Fetching, Storing, Finality, Submitting, Monitoring, Serving, Running
NodeTyped ==
    /\ now \in 0 .. MaxTime
    /\ DOMAIN records = Keys
    /\ queries \in [Keys -> Nat]

(* A record expires no later than the local time to live says, and that    *)
(* is before what the model counts as never.                               *)
RecordsBounded ==
    \A k \in Kad!Stored :
        /\ records[k].expires \in Nat /\ records[k].due \in Nat
        /\ records[k].expires <= records[k].due
        /\ records[k].due <= MaxTime + kad_record_ttl

LEMMA NodeInit == Kad!Init => NodeTyped /\ RecordsBounded
BY ComponentsAssumption DEF Kad!KadNodeAssumption, Kad!Init, NodeTyped, RecordsBounded, Kad!Stored

LEMMA ForgetKeeps ==
    ASSUME NEW k \in Keys, NEW ok, DOMAIN records = Keys
    PROVE  /\ DOMAIN Kad!Forget(k, ok) = Keys
           /\ \A j \in Keys : Kad!Forget(k, ok)[j] # NoRecord => Kad!Forget(k, ok)[j] = records[j]
           /\ is_fat_client => Kad!Forget(k, ok)[k] = NoRecord
BY DEF Kad!Forget

(* The queries of a put of the keys in ks.                                 *)
LEMMA MoreQueries ==
    ASSUME NodeTyped, NEW ks,
           queries' = [k \in Keys |-> queries[k] + IF k \in ks THEN 1 ELSE 0]
    PROVE  /\ queries' \in [Keys -> Nat]
           /\ \A k \in Keys : queries'[k] >= queries[k] /\ (k \in ks => queries'[k] > 0)
<1>1. \A k \in Keys : queries[k] + (IF k \in ks THEN 1 ELSE 0) \in Nat
    BY DEF NodeTyped
<1> QED
    BY <1>1 DEF NodeTyped

LEMMA NodeTypedStep == NodeTyped /\ [Kad!Next]_(Kad!vars) => NodeTyped'
<1> SUFFICES ASSUME NodeTyped, [Kad!Next]_(Kad!vars) PROVE NodeTyped'
    OBVIOUS
<1>1. CASE Kad!Tick
    BY <1>1, ComponentsAssumption DEF Kad!KadNodeAssumption, Kad!Tick, NodeTyped, Kad!stats
<1>2. ASSUME NEW k \in Keys, NEW e, Kad!IncomingPut(k, e) PROVE NodeTyped'
    BY <1>2 DEF Kad!IncomingPut, NodeTyped, Kad!stats
<1>3. ASSUME NEW k \in Keys, Kad!IncomingGet(k) PROVE NodeTyped'
    BY <1>3 DEF Kad!IncomingGet, NodeTyped, Kad!stats
<1>4. ASSUME NEW k \in Keys, NEW ok \in BOOLEAN, Kad!PutEnds(k, ok) PROVE NodeTyped'
    BY <1>4, ForgetKeeps DEF Kad!PutEnds, NodeTyped
<1>5. CASE Kad!Prune
    BY <1>5 DEF Kad!Prune, NodeTyped, Kad!stats
<1>6. ASSUME NEW b \in Blocks, NEW ks \in SUBSET Keys, Kad!PutRecords(b, ks) PROVE NodeTyped'
    BY <1>6, MoreQueries DEF Kad!PutRecords, NodeTyped
<1>7. ASSUME NEW b \in Blocks, NEW ks \in SUBSET Keys, Kad!PutRecordsTo(b, ks) PROVE NodeTyped'
    BY <1>7, MoreQueries DEF Kad!PutRecordsTo, NodeTyped, Kad!store
<1>8. CASE Kad!HandleEvent
    BY <1>8 DEF Kad!HandleEvent, NodeTyped, Kad!store
<1>9. CASE Kad!Restart
    BY <1>9 DEF Kad!Restart, NodeTyped
<1>10. CASE UNCHANGED Kad!vars
    BY <1>10 DEF Kad!vars, Kad!store, Kad!stats, NodeTyped
<1> QED
    BY <1>1, <1>2, <1>3, <1>4, <1>5, <1>6, <1>7, <1>8, <1>9, <1>10 DEF Kad!Next, Kad!Ended

(* Steps that add no record keep the bounds.                               *)
LEMMA FewerRecords ==
    ASSUME NodeTyped, RecordsBounded, DOMAIN records' = Keys,
           \A k \in Keys : records'[k] # NoRecord => records'[k] = records[k]
    PROVE  RecordsBounded'
BY DEF NodeTyped, RecordsBounded, Kad!Stored

LEMMA RecordsBoundedStep == PeersExpire /\ NodeTyped /\ RecordsBounded /\ [Kad!Next]_(Kad!vars) => RecordsBounded'
<1> SUFFICES ASSUME PeersExpire, NodeTyped, RecordsBounded, [Kad!Next]_(Kad!vars) PROVE RecordsBounded'
    OBVIOUS
<1>0. /\ MaxTime \in Nat /\ kad_record_ttl \in Nat /\ now \in Nat /\ now <= MaxTime
      /\ Kad!Never = MaxTime + kad_record_ttl + 1 /\ DOMAIN records = Keys
    BY ComponentsAssumption DEF Kad!KadNodeAssumption, NodeTyped, Kad!Never
<1>1. ASSUME NEW k \in Keys, NEW e \in now + 1 .. Kad!Never, Kad!IncomingPut(k, e) PROVE RecordsBounded'
    <2>1. /\ Kad!Sooner(e) \in Nat /\ Kad!Sooner(e) <= now + kad_record_ttl
        BY <1>0, <1>1 DEF Kad!IncomingPut, Kad!Sooner
    <2>2. \A j \in Keys : records'[j] =
            IF j = k THEN [expires |-> Kad!Sooner(e), due |-> now + kad_record_ttl] ELSE records[j]
        BY <1>0, <1>1 DEF Kad!IncomingPut
    <2>3. \A j \in Kad!Stored' : j \in Keys /\ (j = k \/ j \in Kad!Stored)
        BY <2>2 DEF Kad!Stored
    <2> QED
        BY <1>0, <2>1, <2>2, <2>3 DEF RecordsBounded
<1>2. ASSUME NEW b \in Blocks, NEW ks \in SUBSET Keys, Kad!PutRecords(b, ks) PROVE RecordsBounded'
    <2>1. PICK accepted \in SUBSET ks : records' = [k \in Keys |->
            IF k \in accepted THEN [expires |-> now + kad_record_ttl, due |-> now + kad_record_ttl]
            ELSE records[k]]
        BY <1>2 DEF Kad!PutRecords
    <2>2. \A j \in Kad!Stored' : j \in Keys /\ (j \in accepted \/ j \in Kad!Stored)
        BY <2>1 DEF Kad!Stored
    <2> QED
        BY <1>0, <2>1, <2>2 DEF RecordsBounded
<1>3. ASSUME NEW k \in Keys, Kad!IncomingGet(k) PROVE RecordsBounded'
    BY <1>0, <1>3, FewerRecords DEF Kad!IncomingGet
<1>4. ASSUME NEW k \in Keys, NEW ok \in BOOLEAN, Kad!PutEnds(k, ok) PROVE RecordsBounded'
    BY <1>0, <1>4, FewerRecords, ForgetKeeps DEF Kad!PutEnds
<1>5. CASE Kad!Prune
    BY <1>0, <1>5, FewerRecords DEF Kad!Prune
<1>6. CASE Kad!Restart
    BY <1>0, <1>6, FewerRecords DEF Kad!Restart
<1>7. CASE UNCHANGED records
    BY <1>0, <1>7, FewerRecords
<1> QED
    BY <1>1, <1>2, <1>3, <1>4, <1>5, <1>6, <1>7
       DEF Kad!Next, Kad!Tick, Kad!PutRecordsTo, Kad!HandleEvent, Kad!Ended, Kad!vars, Kad!store, Kad!stats

-----------------------------------------------------------------------------
(* No record of the store in memory is served when its local time to live  *)
(* is over, as long as other nodes put records that expire at all.         *)
THEOREM RecordsExpire ==
    ASSUME Backend = "memory", PeersExpire
    PROVE  CSpec => []NothingOutlivesTTL
<1>1. NodeTyped /\ RecordsBounded => Kad!NothingOutlivesTTL
    BY ComponentsAssumption DEF Kad!KadNodeAssumption, NodeTyped, RecordsBounded, Kad!NothingOutlivesTTL, Kad!is_expired, Kad!Never
<1>2. NodeTyped /\ RecordsBounded /\ [Kad!Next]_(Kad!vars) => (NodeTyped /\ RecordsBounded)'
    BY NodeTypedStep, RecordsBoundedStep
<1> QED
    BY <1>1, <1>2, NodeInit, NodeSteps, PTL DEF CSpec, NothingOutlivesTTL, FatStoreIsTransient

LEMMA TransientStep ==
    ASSUME Backend = "memory"
    PROVE  NodeTyped /\ Kad!FatStoreIsTransient /\ [Kad!Next]_(Kad!vars) => Kad!FatStoreIsTransient'
<1> SUFFICES ASSUME NodeTyped, Kad!FatStoreIsTransient, [Kad!Next]_(Kad!vars), is_fat_client'
             PROVE  \A k \in Kad!Stored' : queries'[k] > 0
    BY DEF Kad!FatStoreIsTransient
<1>0. is_fat_client /\ DOMAIN records = Keys
    BY DEF Kad!Next, Kad!Tick, Kad!IncomingPut, Kad!IncomingGet, Kad!PutEnds, Kad!Prune, Kad!PutRecords, Kad!PutRecordsTo,
        Kad!HandleEvent, Kad!Restart, Kad!Ended, Kad!vars, NodeTyped
<1>1. ASSUME NEW k \in Keys, NEW ok \in BOOLEAN, Kad!PutEnds(k, ok)
      PROVE  \A j \in Kad!Stored' : queries'[j] > 0
    <2>1. \A j \in Kad!Stored' : j # k /\ j \in Kad!Stored
        BY <1>0, <1>1, ForgetKeeps DEF Kad!PutEnds, Kad!Stored
    <2> QED
        BY <1>0, <1>1, <2>1 DEF Kad!PutEnds, Kad!FatStoreIsTransient, NodeTyped, Kad!Stored
<1>2. ASSUME NEW b \in Blocks, NEW ks \in SUBSET Keys, Kad!PutRecords(b, ks)
      PROVE  \A j \in Kad!Stored' : queries'[j] > 0
    <2>1. PICK accepted \in SUBSET ks :
            /\ records' = [k \in Keys |->
                IF k \in accepted
                THEN [expires |-> now + kad_record_ttl, due |-> now + kad_record_ttl]
                ELSE records[k]]
            /\ queries' = [k \in Keys |-> queries[k] + IF k \in accepted THEN 1 ELSE 0]
        BY <1>2 DEF Kad!PutRecords
    <2>2. \A j \in Kad!Stored' : j \in Keys /\ (j \in accepted \/ j \in Kad!Stored)
        BY <2>1 DEF Kad!Stored
    <2>3. \A j \in Keys : queries'[j] \in Nat /\ queries[j] \in Nat
                          /\ queries'[j] >= queries[j] /\ (j \in accepted => queries'[j] > 0)
        BY <2>1, MoreQueries DEF NodeTyped
    <2> QED
        BY <1>0, <2>2, <2>3 DEF Kad!FatStoreIsTransient
<1>3. ASSUME NEW b \in Blocks, NEW ks \in SUBSET Keys, Kad!PutRecordsTo(b, ks)
      PROVE  \A j \in Kad!Stored' : queries'[j] > 0
    <2>1. records' = records /\ \A j \in Keys : queries'[j] \in Nat /\ queries[j] \in Nat
                                                /\ queries'[j] >= queries[j]
        BY <1>3, MoreQueries DEF Kad!PutRecordsTo, NodeTyped, Kad!store
    <2> QED
        BY <1>0, <2>1 DEF Kad!FatStoreIsTransient, Kad!Stored
<1>4. CASE Kad!Restart
    BY <1>4 DEF Kad!Restart, Kad!Stored
<1>5. CASE /\ queries' = queries
           /\ DOMAIN records' = Keys
           /\ \A j \in Keys : records'[j] # NoRecord => records'[j] = records[j]
    BY <1>0, <1>5 DEF Kad!FatStoreIsTransient, Kad!Stored
<1>6. CASE Kad!Tick \/ Kad!HandleEvent \/ UNCHANGED Kad!vars
    BY <1>0, <1>5, <1>6 DEF Kad!Tick, Kad!HandleEvent, Kad!vars, Kad!store, Kad!stats
<1>7. CASE Kad!Prune
    BY <1>0, <1>5, <1>7 DEF Kad!Prune, Kad!stats
<1>8. ASSUME NEW k \in Keys, Kad!IncomingGet(k) PROVE \A j \in Kad!Stored' : queries'[j] > 0
    BY <1>0, <1>5, <1>8 DEF Kad!IncomingGet, Kad!stats
<1>9. ASSUME NEW k \in Keys, NEW e, Kad!IncomingPut(k, e) PROVE FALSE
    BY <1>0, <1>9 DEF Kad!IncomingPut
<1> QED
    BY <1>1, <1>2, <1>3, <1>4, <1>6, <1>7, <1>8, <1>9 DEF Kad!Next, Kad!Ended

(* A fat client keeps a record only while a put of it is under way.        *)
THEOREM FatStoreEmpties ==
    ASSUME Backend = "memory"
    PROVE  CSpec => []FatStoreIsTransient
<1>1. Kad!Init => Kad!FatStoreIsTransient
    BY DEF Kad!Init, Kad!FatStoreIsTransient, Kad!Stored
<1>2. NodeTyped /\ Kad!FatStoreIsTransient /\ [Kad!Next]_(Kad!vars) => (NodeTyped /\ Kad!FatStoreIsTransient)'
    BY NodeTypedStep, TransientStep
<1> QED
    BY <1>1, <1>2, NodeInit, NodeSteps, PTL DEF CSpec, NothingOutlivesTTL, FatStoreIsTransient

-----------------------------------------------------------------------------
SubmitStates == {"new", "refused", "signed", "included", "pooled", "stale", "unsent", "submitted", "retry", "gone"}

(* What an attempt knows of the account as long as nothing was lost: its   *)
(* nonce is no later than the account's, and used up once a node saw it.   *)
KnowsNonce(s) ==
    /\ submits[s].at \notin {"pooled", "unsent"}
    /\ submits[s].at = "signed" => submits[s].nonce <= account_nonce
    /\ submits[s].at \in {"included", "stale"} => submits[s].nonce < account_nonce

SubmitTyped ==
    /\ {signer_nonce, account_nonce} \subseteq Nat
    /\ submits \in [Submits -> [at : SubmitStates, nonce : Nat, attempts : Nat]]
    /\ lost \in BOOLEAN

InStep == signer_nonce <= account_nonce

SubmitInv == SubmitTyped /\ (~lost => InStep /\ \A s \in Submits : KnowsNonce(s))

LEMMA SubmitInit == Sub!Init => SubmitInv
<1> SUFFICES ASSUME Sub!Init PROVE SubmitTyped /\ InStep /\ \A s \in Submits : KnowsNonce(s)
  BY DEF SubmitInv
<1>1. SubmitTyped
  BY ComponentsAssumption DEF Sub!SubmissionAssumption, Sub!Init, SubmitTyped, SubmitStates
<1>2. InStep
  BY ComponentsAssumption DEF Sub!SubmissionAssumption, Sub!Init, InStep
<1>3. \A s \in Submits : KnowsNonce(s)
  BY DEF Sub!Init, KnowsNonce
<1> QED
  BY <1>1, <1>2, <1>3

LEMMA SubmitTypedStep == SubmitTyped /\ [Sub!Next]_submit_vars => SubmitTyped'
<1> SUFFICES ASSUME SubmitTyped, [Sub!Next]_submit_vars PROVE SubmitTyped'
  OBVIOUS
<1> USE DEF SubmitTyped, SubmitStates
<1>1. CASE UNCHANGED submit_vars
  BY <1>1 DEF submit_vars
<1>2. ASSUME NEW s \in Submits, Sub!Refuse(s) PROVE SubmitTyped'
  BY <1>2 DEF Sub!Refuse
<1>3. ASSUME NEW s \in Submits, Sub!StartAttempt(s) PROVE SubmitTyped'
  BY <1>3 DEF Sub!StartAttempt
<1>4. ASSUME NEW s \in Submits, Sub!NodeTakes(s) PROVE SubmitTyped'
  BY <1>4 DEF Sub!NodeTakes, Sub!After
<1>5. ASSUME NEW s \in Submits, Sub!SendFails(s) PROVE SubmitTyped'
  BY <1>5 DEF Sub!SendFails
<1>6. ASSUME NEW s \in Submits, NEW ok \in BOOLEAN, Sub!EndAttempt(s, ok) PROVE SubmitTyped'
  BY <1>6 DEF Sub!EndAttempt, Sub!Advance
<1>7. ASSUME Sub!Restart PROVE SubmitTyped'
  BY <1>7 DEF Sub!Restart
<1> QED
  BY <1>1, <1>2, <1>3, <1>4, <1>5, <1>6, <1>7 DEF Sub!Next

LEMMA SubmitNext == SubmitInv /\ [Sub!Next]_submit_vars => SubmitInv'
<1> SUFFICES ASSUME SubmitInv, [Sub!Next]_submit_vars, ~lost'
             PROVE  InStep' /\ \A s \in Submits : KnowsNonce(s)'
  BY SubmitTypedStep DEF SubmitInv
<1>0. SubmitTyped'
  BY SubmitTypedStep DEF SubmitInv
<1> USE DEF SubmitTyped, SubmitStates, InStep, KnowsNonce
<1>1. CASE UNCHANGED submit_vars
  BY <1>1 DEF submit_vars, SubmitInv
<1>2. ASSUME NEW s \in Submits, Sub!Refuse(s) PROVE InStep' /\ \A r \in Submits : KnowsNonce(r)'
  BY <1>2, <1>0 DEF Sub!Refuse, SubmitInv
<1>3. ASSUME NEW s \in Submits, Sub!StartAttempt(s) PROVE InStep' /\ \A r \in Submits : KnowsNonce(r)'
  BY <1>3, <1>0 DEF Sub!StartAttempt, SubmitInv
<1>4. ASSUME NEW s \in Submits, Sub!NodeTakes(s) PROVE InStep' /\ \A r \in Submits : KnowsNonce(r)'
  <2>1. submits[s].nonce <= account_nonce
    BY <1>4 DEF Sub!NodeTakes, SubmitInv
  <2>2. account_nonce <= account_nonce' /\ submits[s].nonce < account_nonce'
    BY <1>4, <2>1 DEF Sub!NodeTakes, Sub!After, SubmitInv
  <2>3. InStep'
    BY <1>4, <1>0, <2>2 DEF Sub!NodeTakes, SubmitInv
  <2>4. KnowsNonce(s)'
    BY <1>4, <1>0, <2>1, <2>2 DEF Sub!NodeTakes, SubmitInv
  <2>5. ASSUME NEW r \in Submits, r # s PROVE KnowsNonce(r)'
    BY <1>4, <1>0, <2>2, <2>5 DEF Sub!NodeTakes, SubmitInv
  <2> QED
    BY <2>3, <2>4, <2>5
<1>5. ASSUME NEW s \in Submits, Sub!SendFails(s) PROVE InStep' /\ \A r \in Submits : KnowsNonce(r)'
  BY <1>5 DEF Sub!SendFails
<1>6. ASSUME NEW s \in Submits, NEW ok \in BOOLEAN, Sub!EndAttempt(s, ok)
      PROVE  InStep' /\ \A r \in Submits : KnowsNonce(r)'
  BY <1>6, <1>0 DEF Sub!EndAttempt, Sub!Advance, SubmitInv
<1>7. ASSUME Sub!Restart PROVE InStep' /\ \A r \in Submits : KnowsNonce(r)'
  BY <1>7, <1>0 DEF Sub!Restart
<1> QED
  BY <1>1, <1>2, <1>3, <1>4, <1>5, <1>6, <1>7 DEF Sub!Next

(* However concurrent calls, retries, lost answers and restarts fall, the  *)
(* counter is ahead of the account only if an attempt never got to a node  *)
(* (client.rs 829-844, main.rs 207-214).                                   *)
THEOREM CounterSafe == CSpec => []CounterIsAheadOnlyAfterLoss
<1>1. Sub!Init => SubmitInv
  BY SubmitInit
<1>2. SubmitInv /\ [Sub!Next]_submit_vars => SubmitInv'
  BY SubmitNext
<1>3. SubmitInv => CounterIsAheadOnlyAfterLoss
  BY DEF SubmitInv, InStep, CounterIsAheadOnlyAfterLoss, Sub!CounterIsAheadOnlyAfterLoss
<1> QED
  BY <1>1, <1>2, <1>3, SubmissionSteps, PTL DEF CSpec

-----------------------------------------------------------------------------
(* The cells and rows of one block, for any matrix, samples, partition and *)
(* threshold, and for any number of wrong answers, forged records and P2P  *)
(* restarts.                                                               *)
AllGood(found) == \A c \in DOMAIN found : found[c] = "good"
Goods(keys) == [k \in keys |-> "good"]

(* What is verified was found and is good, with multiproofs and without.   *)
LEMMA VerifyGood ==
    ASSUME NEW cells
    PROVE  verify(cells) \subseteq DOMAIN cells /\ \A c \in verify(cells) : cells[c] = "good"
BY DEF verify, VerifySingle, VerifyMulti

LEMMA RetainGood ==
    ASSUME NEW cells
    PROVE  /\ DOMAIN Retain(cells) = verify(cells) /\ AllGood(Retain(cells))
           /\ AllGood(FetchVerified(cells))
BY VerifyGood DEF Retain, FetchVerified, Restrict, AllGood

LEMMA MergeGood ==
    ASSUME NEW f, NEW g, AllGood(f), AllGood(g)
    PROVE  /\ DOMAIN Together(f, g) = DOMAIN f \cup DOMAIN g
           /\ Together(f, g) = Goods(DOMAIN Together(f, g))
           /\ AllGood(Together(f, g))
BY DEF AllGood, Together, Goods

LEMMA NothingGood == DOMAIN Nothing = {} /\ AllGood(Nothing)
BY DEF Nothing, AllGood

-----------------------------------------------------------------------------
(* The light client holds only cells with a proof, and what it has yet to  *)
(* ask a node for is all that it does not hold.                            *)
LightInv ==
    /\ light = [pc |-> light.pc, asked |-> light.asked, fetched |-> light.fetched,
                unfetched |-> light.unfetched, rpc |-> light.rpc, short |-> light.short]
    /\ DOMAIN light.fetched \subseteq light.asked /\ AllGood(light.fetched)
    /\ light.pc \in {"idle", "dht"} => DOMAIN light.fetched = {}
    /\ light.pc = "rpc" => light.unfetched = light.asked \ DOMAIN light.fetched
    /\ light.pc = "insert" => (light.asked # DOMAIN light.fetched => light.short)
    /\ light.pc = "skipped" /\ network_mode # "P2POnly" => light.short
    /\ light.pc \in {"insert", "verified"} =>
            light.fetched = Goods(DOMAIN light.fetched)
    /\ light.pc = "verified" => light.asked = DOMAIN light.fetched

LEMMA LightInit == Init => LightInv
BY NothingGood DEF Init, LightInv

LEMMA FromDhtDomain ==
    ASSUME NEW keys, NEW cells \in FromDht(dht_cells, keys) PROVE DOMAIN cells \subseteq keys
BY DEF FromDht, Restrict

LEMMA FromRpcDomain ==
    ASSUME NEW keys, NEW cells \in FromRpc(keys) PROVE DOMAIN cells \subseteq keys
BY DEF FromRpc

LEMMA LightDhtStep == LightInv /\ LightFromDht => LightInv'
<1> SUFFICES ASSUME LightInv, LightFromDht PROVE LightInv'
    OBVIOUS
<1>1. network_mode' = network_mode /\ light.pc = "dht"
    BY DEF LightFromDht, config
<1>2. PICK cells : /\ cells \in IF p2p_client THEN FromDht(dht_cells, light.asked) ELSE {Nothing}
                   /\ light' = IF VerifyFails(cells) THEN [light EXCEPT !.pc = "failed"]
                        ELSE [light EXCEPT
                                !.fetched = Retain(cells),
                                !.unfetched = StillMissing(light.asked, cells),
                                !.pc = IF network_mode = "P2POnly"
                                       THEN Outcome(light.asked, Retain(cells)) ELSE "rpc"]
    BY DEF LightFromDht
<1>3. CASE VerifyFails(cells)
    BY <1>1, <1>2, <1>3 DEF LightInv
<1>4. CASE ~VerifyFails(cells)
    <2>1. DOMAIN cells \subseteq light.asked
        BY <1>2, FromDhtDomain, NothingGood
    <2>2. /\ DOMAIN Retain(cells) = verify(cells) /\ verify(cells) \subseteq light.asked
          /\ AllGood(Retain(cells)) /\ Retain(cells) = Goods(verify(cells))
        BY <2>1, RetainGood, VerifyGood DEF Retain, Restrict, AllGood, Goods
    <2>3. /\ light'.asked = light.asked /\ light'.fetched = Retain(cells)
          /\ light'.unfetched = light.asked \ verify(cells)
          /\ light'.pc = IF network_mode = "P2POnly"
                         THEN Outcome(light.asked, Retain(cells)) ELSE "rpc"
          /\ light' = [pc |-> light'.pc, asked |-> light'.asked, fetched |-> light'.fetched,
                       unfetched |-> light'.unfetched, rpc |-> light'.rpc, short |-> light'.short]
        BY <1>2, <1>4 DEF LightInv, StillMissing
    <2> QED
        BY <1>1, <2>2, <2>3 DEF LightInv, Outcome
<1> QED
    BY <1>3, <1>4

LEMMA LightRpcStep == LightInv /\ LightFromRpc => LightInv'
<1> SUFFICES ASSUME LightInv, LightFromRpc PROVE LightInv'
    OBVIOUS
<1>1. network_mode' = network_mode /\ light.pc = "rpc"
    BY DEF LightFromRpc, config
<1>2. PICK cells \in FromRpc(light.unfetched) :
        light' = IF VerifyFails(cells) THEN [light EXCEPT !.pc = "failed"]
              ELSE [light EXCEPT
                      !.rpc = DOMAIN Retain(cells), !.fetched = Together(Retain(cells), light.fetched),
                      !.short = verify(cells) # light.unfetched,
                      !.unfetched = DOMAIN cells \ verify(cells),
                      !.pc = IF network_mode = "Both" /\ insert_into_dht /\ p2p_client
                             THEN "insert" ELSE Outcome(light.asked, Together(Retain(cells), light.fetched))]
    BY DEF LightFromRpc
<1>3. CASE VerifyFails(cells)
    BY <1>1, <1>2, <1>3 DEF LightInv
<1>4. CASE ~VerifyFails(cells)
    <2> DEFINE fetched == Together(Retain(cells), light.fetched)
    <2>1. /\ DOMAIN fetched = verify(cells) \cup DOMAIN light.fetched
          /\ AllGood(fetched) /\ fetched = Goods(DOMAIN fetched)
        <3>1. AllGood(Retain(cells)) /\ AllGood(light.fetched) /\ DOMAIN Retain(cells) = verify(cells)
            BY RetainGood DEF LightInv
        <3> HIDE DEF LightInv
        <3> QED
            BY <3>1, MergeGood
    <2>2. verify(cells) \subseteq light.unfetched /\ light.unfetched \subseteq light.asked
        BY <1>1, FromRpcDomain, VerifyGood DEF LightInv
    <2>3. /\ light'.asked = light.asked /\ light'.fetched = fetched
          /\ light'.short = (verify(cells) # light.unfetched)
          /\ light'.pc \in {"insert", Outcome(light.asked, fetched)}
          /\ light' = [pc |-> light'.pc, asked |-> light'.asked, fetched |-> light'.fetched,
                       unfetched |-> light'.unfetched, rpc |-> light'.rpc, short |-> light'.short]
        BY <1>2, <1>4 DEF LightInv
    <2> HIDE DEF fetched
    <2>4. light.asked # DOMAIN fetched => light'.short
        BY <1>1, <2>1, <2>2, <2>3 DEF LightInv
    <2> QED
        BY <1>1, <2>1, <2>2, <2>3, <2>4 DEF LightInv, Outcome
<1> QED
    BY <1>3, <1>4

LEMMA LightStep == LightInv /\ [Next]_vars => LightInv'
<1> SUFFICES ASSUME LightInv, [Next]_vars PROVE LightInv'
    OBVIOUS
<1>1. CASE LightStart
    BY <1>1 DEF LightStart, LightInv, config
<1>2. CASE LightFromDht \/ LightFromRpc
    BY <1>2, LightDhtStep, LightRpcStep
<1>3. CASE LightRpcFails
    BY <1>3 DEF LightRpcFails, LightInv, config
<1>4. CASE LightInsert
    BY <1>4 DEF LightInsert, LightInv, Outcome, config
<1>5. CASE UNCHANGED <<light, network_mode>>
    BY <1>5 DEF LightInv
<1> QED
    BY <1>1, <1>2, <1>3, <1>4, <1>5 DEF Next, vars, config,
        FatBatch, FatRpcFails, FatRows, AppRowsFromDht, AppRowsFromRpc, AppRpcFails, AppCells,
        AppColumns, AppStore, ForgeCell, ForgeRow, StopP2P, StartP2P

(* A block counts as available only with a proof that holds for every cell *)
(* that was sampled, whatever peers and the node answer (network.rs        *)
(* 83-193, light_client.rs 201-219).                                       *)
THEOREM AvailableMeansProved == CSpec => []VerifiedMeansProved
<1>1. LightInv => VerifiedMeansProved
    BY DEF LightInv, VerifiedMeansProved, Goods
<1> QED
    BY <1>1, LightInit, LightStep, DataSteps, PTL DEF CSpec

(* With a node to ask, a block is skipped only when the node left a cell   *)
(* unserved: what the DHT lacks or has wrong is asked for (network.rs      *)
(* 131-193).                                                               *)
THEOREM FallbackIsComplete == CSpec => []FallbackWorks
<1>1. LightInv => FallbackWorks
    BY DEF LightInv, FallbackWorks
<1> QED
    BY <1>1, LightInit, LightStep, DataSteps, PTL DEF CSpec

-----------------------------------------------------------------------------
(* The application client without a node: what it has verified or rebuilt  *)
(* is good, and it stores only a whole set of rows.                        *)
AppInv ==
    /\ app = [pc |-> app.pc, dht |-> app.dht, rows |-> app.rows, missing |-> app.missing,
              cells |-> app.cells]
    /\ network_mode = "P2POnly" /\ app.pc \in {"cells", "columns", "decode", "stored"} =>
            AllGood(app.rows)
    /\ app.pc = "columns" => AllGood(app.cells)
    /\ app.pc = "stored" => DOMAIN app.rows = AppRows

LEMMA AppInit == Init => AppInv
BY DEF Init, AppInv

LEMMA FailKeeps == ASSUME network_mode' = network_mode, app' = Fail(app) PROVE AppInv'
BY DEF Fail, AppInv

LEMMA OnlySourceGood ==
    ASSUME NEW found PROVE AllGood(VerifiedRows(found, Nothing))
<1> DEFINE length == IF RpcOnly THEN Cardinality(AppRows) ELSE Cardinality(Rows)
           good   == {r \in verify_equality(found) \cup verify_equality(Nothing) : r < length}
<1>1. VerifiedRows(found, Nothing) = Restrict(Together(found, Nothing), good)
    BY DEF VerifiedRows
<1>2. \A r \in good : r \in DOMAIN found /\ found[r] = "good"
    BY NothingGood DEF verify_equality
<1>3. \A r \in good : Together(found, Nothing)[r] = "good"
    BY <1>2 DEF Together
<1> HIDE DEF good
<1> QED
    BY <1>1, <1>3 DEF Restrict, AllGood

LEMMA AppRpcStep == AppInv /\ AppRowsFromRpc => AppInv'
<1> SUFFICES ASSUME AppInv, AppRowsFromRpc PROVE AppInv'
    OBVIOUS
<1>1. network_mode' = network_mode
    BY DEF AppRowsFromRpc, config
<1>2. PICK rows \in IF network_mode = "P2POnly" THEN {Nothing}
                     ELSE FromRpc(AppRows \ verify_equality(app.dht)) :
            LET missing == AppRows \ (verify_equality(app.dht) \cup verify_equality(rows))
            IN app' = IF VerifyFails(rows) \/ Cardinality(missing) * Cardinality(Cols) > threshold
                      THEN Fail(app)
                      ELSE [app EXCEPT !.rows = VerifiedRows(app.dht, rows), !.missing = missing,
                                       !.dht = Nothing,
                                       !.pc = IF missing = {} THEN "decode" ELSE "cells"]
    BY DEF AppRowsFromRpc
<1>3. CASE app' = Fail(app)
    BY <1>1, <1>3, FailKeeps
<1>4. CASE app' # Fail(app)
    <2>1. /\ app'.rows = VerifiedRows(app.dht, rows) /\ app'.pc \in {"decode", "cells"}
          /\ app' = [pc |-> app'.pc, dht |-> app'.dht, rows |-> app'.rows,
                     missing |-> app'.missing, cells |-> app'.cells]
        BY <1>2, <1>4 DEF AppInv
    <2>2. network_mode = "P2POnly" => rows = Nothing
        BY <1>2
    <2>3. ASSUME network_mode = "P2POnly" PROVE AllGood(app'.rows)
        <3>1. app'.rows = VerifiedRows(app.dht, Nothing)
            BY <2>1, <2>2, <2>3
        <3>2. AllGood(VerifiedRows(app.dht, Nothing))
            BY OnlySourceGood
        <3> QED
            BY <3>1, <3>2
    <2> QED
        BY <1>1, <2>1, <2>3 DEF AppInv
<1> QED
    BY <1>3, <1>4

LEMMA RowFromGood ==
    ASSUME NEW row, NEW cells, NEW columns, AllGood(cells)
    PROVE  RowFrom(row, cells, columns) = "good"
BY DEF RowFrom, AllGood

LEMMA AppColumnsStep == AppInv /\ AppColumns => AppInv'
<1> SUFFICES ASSUME AppInv, AppColumns PROVE AppInv'
    OBVIOUS
<1>1. network_mode' = network_mode /\ app.pc = "columns"
    BY DEF AppColumns, config
<1> DEFINE columns == {c[2] : c \in (app.missing \X Cols) \ DOMAIN app.cells}
           Rebuilt(found) == [r \in app.missing |->
                RowFrom(r, Together(app.cells, FetchVerified(found)), columns)]
           Short(found) == \E col \in columns :
                2 * Cardinality(InColumn(FetchVerified(found), col)) < Cardinality(Rows)
<1>2. PICK found :
        app' = IF VerifyFails(found) \/ Short(found) THEN Fail(app)
               ELSE [app EXCEPT !.pc = "decode", !.missing = {}, !.cells = Nothing,
                                !.rows = Together(Rebuilt(found), @)]
    BY DEF AppColumns
<1> HIDE DEF Short
<1>3. AllGood(Rebuilt(found))
    <2>1. AllGood(Together(app.cells, FetchVerified(found)))
        BY <1>1, RetainGood, MergeGood DEF AppInv
    <2> QED
        BY <2>1, RowFromGood DEF AllGood
<1> HIDE DEF Rebuilt
<1>4. CASE app' # Fail(app)
    <2>1. /\ app'.rows = Together(Rebuilt(found), app.rows) /\ app'.pc = "decode"
          /\ app' = [pc |-> app'.pc, dht |-> app'.dht, rows |-> app'.rows,
                     missing |-> app'.missing, cells |-> app'.cells]
        BY <1>2, <1>4 DEF AppInv
    <2>2. ASSUME network_mode = "P2POnly" PROVE AllGood(app'.rows)
        <3>1. AllGood(app.rows)
            BY <1>1, <2>2 DEF AppInv
        <3> QED
            BY <1>3, <2>1, <3>1, MergeGood
    <2> QED
        BY <1>1, <2>1, <2>2 DEF AppInv
<1> QED
    BY <1>1, <1>4, FailKeeps

LEMMA AppStep == AppInv /\ [Next]_vars => AppInv'
<1> SUFFICES ASSUME AppInv, [Next]_vars PROVE AppInv'
    OBVIOUS
<1>1. CASE AppRowsFromDht
    <2>1. network_mode' = network_mode
        BY <1>1 DEF AppRowsFromDht, config
    <2>2. PICK rows : app' \in {Fail(app), [app EXCEPT !.pc = "rpc", !.dht = rows]}
        BY <1>1 DEF AppRowsFromDht
    <2> QED
        BY <2>1, <2>2, FailKeeps DEF AppInv
<1>2. CASE AppRowsFromRpc \/ AppColumns
    BY <1>2, AppRpcStep, AppColumnsStep
<1>3. CASE AppRpcFails
    BY <1>3, FailKeeps DEF AppRpcFails, config
<1>4. CASE AppCells
    <2>1. network_mode' = network_mode /\ app.pc = "cells"
        BY <1>4 DEF AppCells, config
    <2>2. PICK found : app' \in {Fail(app), [app EXCEPT !.pc = "columns", !.cells = FetchVerified(found)]}
        BY <1>4 DEF AppCells
    <2>3. AllGood(FetchVerified(found))
        BY RetainGood
    <2> QED
        BY <2>1, <2>2, <2>3, FailKeeps DEF AppInv
<1>5. CASE AppStore
    <2>1. network_mode' = network_mode /\ app.pc = "decode"
        BY <1>5 DEF AppStore, config
    <2>2. \/ app' = Fail(app)
          \/ DOMAIN app.rows = AppRows /\ app' = [app EXCEPT !.pc = "stored"]
        BY <1>5 DEF AppStore
    <2> QED
        BY <2>1, <2>2, FailKeeps DEF AppInv
<1>6. CASE UNCHANGED <<app, network_mode>>
    BY <1>6 DEF AppInv
<1> QED
    BY <1>1, <1>2, <1>3, <1>4, <1>5, <1>6 DEF Next, vars, config,
        FatBatch, FatRpcFails, FatRows, LightStart, LightFromDht, LightFromRpc, LightRpcFails,
        LightInsert, ForgeCell, ForgeRow, StopP2P, StartP2P

(* Where the DHT is the only source, each row stored for the application   *)
(* matches its commitment or is rebuilt from cells with proofs             *)
(* (app_client.rs 92-182 and 343-438).                                     *)
THEOREM StoredDataIsTrue == CSpec => []P2POnlyDataIsTrue
<1>1. AppInv => P2POnlyDataIsTrue
    BY DEF AppInv, P2POnlyDataIsTrue, AllGood
<1> QED
    BY <1>1, AppInit, AppStep, DataSteps, PTL DEF CSpec

-----------------------------------------------------------------------------
(* The monitor: the flag of a peer with few results follows what was last  *)
(* discovered, in the list and in every copy of an entry a check holds.    *)
Entries ==
    [global : BOOLEAN, is_blacklisted : BOOLEAN, results : Seq(BOOLEAN), pings : Nat]

Follows(info) == Len(info.results) < ResultWindow => (info.is_blacklisted <=> ~info.global)

MonitorTyped ==
    /\ Mon!Known \subseteq MonitoredPeers
    /\ \A p \in Mon!Known : server_list[p] \in Entries
    /\ checks \in [MonitoredPeers -> [Mon!Slots -> [at : {"free", "spawned", "dialing"}, info : Entries]]]

MonitorInv ==
    /\ MonitorTyped
    /\ \A p \in Mon!Known : Follows(server_list[p])
    /\ \A p \in MonitoredPeers, i \in Mon!Slots :
          /\ checks[p][i].at # "free" => p \in Mon!Known
          /\ Follows(checks[p][i].info)

LEMMA Thresholds ==
    /\ ResultWindow \in Nat /\ PingWindow \in Nat
    /\ blacklist_threshold \in 0 .. 50 /\ blacklist_remove_threshold \in 50 .. 100
BY ComponentsAssumption DEF Mon!MonitorAssumption

LEMMA NewServerFollows ==
    ASSUME NEW global \in BOOLEAN
    PROVE  Mon!NewServer(global) \in Entries /\ Follows(Mon!NewServer(global))
<1>1. <<>> \in Seq(BOOLEAN) /\ 0 \in Nat
    BY EmptySeq, Zenon
<1>2. CASE global = TRUE
    <2>1. Mon!NewServer(global) = [global |-> TRUE, is_blacklisted |-> FALSE, results |-> <<>>, pings |-> 0]
        BY <1>2 DEF Mon!NewServer
    <2> QED
        BY <1>1, <2>1 DEF Entries, Follows
<1>3. CASE global = FALSE
    <2>1. Mon!NewServer(global) = [global |-> FALSE, is_blacklisted |-> TRUE, results |-> <<>>, pings |-> 0]
        BY <1>3 DEF Mon!NewServer
    <2> QED
        BY <1>1, <2>1 DEF Entries, Follows
<1> QED
    BY <1>2, <1>3

LEMMA RediscoveredFollows ==
    ASSUME NEW info \in Entries, NEW global \in BOOLEAN
    PROVE  Mon!Rediscovered(info, global) \in Entries /\ Follows(Mon!Rediscovered(info, global))
BY DEF Mon!Rediscovered, Entries, Follows

(* A check moves the flag only with a window full of results.              *)
LEMMA CheckedFollows ==
    ASSUME NEW info \in Entries, Follows(info), NEW success \in BOOLEAN
    PROVE  /\ Mon!CheckedEntry(info, success) \in Entries
           /\ Follows(Mon!CheckedEntry(info, success))
<1> DEFINE longer  == Append(info.results, success)
           results == Mon!UpdateConnectionResult(info.results, success)
           entry   == Mon!CheckedEntry(info, success)
<1>1. info.results \in Seq(BOOLEAN) /\ longer \in Seq(BOOLEAN)
      /\ Len(longer) = Len(info.results) + 1 /\ Len(info.results) \in Nat
    BY AppendProperties DEF Entries
<1>2. results \in Seq(BOOLEAN)
      /\ (Len(results) < ResultWindow => Len(info.results) < ResultWindow)
    <2>1. results = IF Len(longer) > ResultWindow THEN Tail(longer) ELSE longer
        BY DEF Mon!UpdateConnectionResult
    <2>2. longer # <<>> /\ Tail(longer) \in Seq(BOOLEAN) /\ Len(Tail(longer)) = Len(longer) - 1
        <3>1. longer # <<>>
            BY <1>1, AppendProperties
        <3> HIDE DEF longer
        <3> QED
            BY <1>1, <3>1, HeadTailProperties, Zenon
    <2> HIDE DEF longer, results
    <2>3. CASE Len(longer) > ResultWindow
        <3>1. results = Tail(longer)
            BY <2>1, <2>3, Zenon
        <3>2. ~(Len(Tail(longer)) < ResultWindow)
            BY <1>1, <2>2, <2>3, Thresholds
        <3> QED
            BY <2>2, <3>1, <3>2, Zenon
    <2>4. CASE ~(Len(longer) > ResultWindow)
        BY <1>1, <2>1, <2>4, Thresholds
    <2> QED
        BY <2>3, <2>4
<1>3. /\ entry.global = info.global /\ entry.results = results
      /\ entry.is_blacklisted = IF Mon!HealthScore(results) < blacklist_threshold THEN TRUE
                                ELSE IF Mon!HealthScore(results) > blacklist_remove_threshold
                                THEN FALSE ELSE info.is_blacklisted
      /\ entry \in Entries
    <2> HIDE DEF results
    <2>1. entry = [info EXCEPT !.results = results, !.is_blacklisted =
                    IF Mon!HealthScore(results) < blacklist_threshold THEN TRUE
                    ELSE IF Mon!HealthScore(results) > blacklist_remove_threshold
                    THEN FALSE ELSE @]
        BY DEF Mon!CheckedEntry, results
    <2> QED
        BY <1>2, <2>1 DEF Entries
<1>4. Len(results) < ResultWindow => Mon!HealthScore(results) = 50
    BY DEF Mon!HealthScore
<1> HIDE DEF entry, results
<1>5. Len(results) < ResultWindow => entry.is_blacklisted = info.is_blacklisted
    <2> SUFFICES ASSUME Len(results) < ResultWindow
                 PROVE  entry.is_blacklisted = info.is_blacklisted
        OBVIOUS
    <2>1. ~(Mon!HealthScore(results) < blacklist_threshold)
          /\ ~(Mon!HealthScore(results) > blacklist_remove_threshold)
        BY <1>4, Thresholds
    <2> QED
        BY <1>3, <2>1, Zenon
<1>6. Follows(entry)
    BY <1>2, <1>3, <1>5 DEF Follows
<1> QED
    BY <1>3, <1>6 DEF entry

LEMMA MonitorInit == Mon!Init => MonitorInv
<1> SUFFICES ASSUME Mon!Init PROVE MonitorInv
    OBVIOUS
<1>1. Mon!Known = {}
    BY DEF Mon!Init, Mon!Known
<1>2. Mon!NoCheck.info \in Entries /\ Follows(Mon!NoCheck.info) /\ Mon!NoCheck.at = "free"
      /\ Mon!NoCheck \in [at : {"free", "spawned", "dialing"}, info : Entries]
    BY NewServerFollows DEF Mon!NoCheck
<1> QED
    BY <1>1, <1>2 DEF Mon!Init, MonitorInv, MonitorTyped

LEMMA DiscoverStep ==
    ASSUME MonitorInv, NEW S \in SUBSET MonitoredPeers, NEW found \in [S -> BOOLEAN],
           Mon!DiscoveredPeers(found)
    PROVE  MonitorInv'
<1> DEFINE servers == DOMAIN found \ BootstrapPeers
<1>1. /\ checks' = checks
      /\ server_list' = [p \in Mon!Known \cup servers |->
            IF p \notin servers THEN server_list[p]
            ELSE IF p \in Mon!Known THEN Mon!Rediscovered(server_list[p], found[p])
            ELSE Mon!NewServer(found[p])]
    BY DEF Mon!DiscoveredPeers, Mon!Discover
<1>2. Mon!Known' = Mon!Known \cup servers /\ servers \subseteq MonitoredPeers
    BY <1>1 DEF Mon!Known
<1>3. ASSUME NEW p \in Mon!Known' PROVE server_list'[p] \in Entries /\ Follows(server_list'[p])
    <2>1. CASE p \notin servers
        BY <1>1, <1>2, <1>3, <2>1 DEF MonitorInv, MonitorTyped
    <2>2. CASE p \in servers
        <3>1. found[p] \in BOOLEAN
            BY <2>2
        <3> QED
            BY <1>1, <1>2, <1>3, <2>2, <3>1, NewServerFollows, RediscoveredFollows DEF MonitorInv, MonitorTyped
    <2> QED
        BY <2>1, <2>2
<1> QED
    BY <1>1, <1>2, <1>3 DEF MonitorInv, MonitorTyped

LEMMA DialedStep ==
    ASSUME MonitorInv, NEW p \in MonitoredPeers, NEW i \in Mon!Slots, NEW success \in BOOLEAN,
           Mon!Dialed(p, i, success)
    PROVE  MonitorInv'
<1> DEFINE entry == Mon!CheckedEntry(checks[p][i].info, success)
<1>1. /\ checks[p][i].at = "dialing" /\ checks' = [checks EXCEPT ![p][i] = Mon!NoCheck]
      /\ server_list' = [server_list EXCEPT ![p] = entry]
    BY DEF Mon!Dialed, Mon!WriteBack
<1>2. p \in Mon!Known /\ checks[p][i].info \in Entries /\ Follows(checks[p][i].info)
    BY <1>1 DEF MonitorInv, MonitorTyped
<1>3. entry \in Entries /\ Follows(entry)
    BY <1>2, CheckedFollows
<1>4. Mon!NoCheck \in [at : {"free", "spawned", "dialing"}, info : Entries]
      /\ Follows(Mon!NoCheck.info) /\ Mon!NoCheck.at = "free"
    BY NewServerFollows DEF Mon!NoCheck
<1> HIDE DEF entry
<1>5. Mon!Known' = Mon!Known
    BY <1>1 DEF Mon!Known
<1>6. MonitorTyped'
    BY <1>1, <1>2, <1>3, <1>4, <1>5 DEF MonitorInv, MonitorTyped, Mon!Known
<1>7. \A q \in Mon!Known' : Follows(server_list'[q])
    BY <1>1, <1>3, <1>5 DEF MonitorInv, Mon!Known
<1>8. \A q \in MonitoredPeers, j \in Mon!Slots :
            checks'[q][j] = IF q = p /\ j = i THEN Mon!NoCheck ELSE checks[q][j]
    BY <1>1 DEF MonitorInv, MonitorTyped
<1> QED
    BY <1>4, <1>5, <1>6, <1>7, <1>8 DEF MonitorInv

LEMMA CheckStarts ==
    ASSUME MonitorInv, Mon!Tick PROVE MonitorInv'
<1>1. /\ server_list' = server_list /\ Mon!Known' = Mon!Known
      /\ \A p \in Mon!Known : \E i \in Mon!Slots : checks[p][i].at = "free"
      /\ checks' = [p \in MonitoredPeers |->
            IF p \in Mon!Known THEN [checks[p] EXCEPT ![Mon!FreeSlot(p)].at = "spawned"] ELSE checks[p]]
    BY DEF Mon!Tick, Mon!Known
<1>2. \A p \in Mon!Known : Mon!FreeSlot(p) \in Mon!Slots
    BY <1>1 DEF Mon!FreeSlot
<1>3. MonitorTyped'
    BY <1>1, <1>2 DEF MonitorInv, MonitorTyped
<1>4. \A p \in MonitoredPeers, i \in Mon!Slots :
            checks'[p][i].info = checks[p][i].info /\ (p \notin Mon!Known => checks'[p][i] = checks[p][i])
    BY <1>1, <1>2 DEF MonitorInv, MonitorTyped
<1> QED
    BY <1>1, <1>3, <1>4 DEF MonitorInv

LEMMA CopyStep ==
    ASSUME MonitorInv, NEW p \in MonitoredPeers, NEW i \in Mon!Slots, Mon!CopyEntry(p, i)
    PROVE  MonitorInv'
<1>1. /\ server_list' = server_list /\ Mon!Known' = Mon!Known /\ checks[p][i].at = "spawned"
      /\ checks' = [checks EXCEPT ![p][i] = [at |-> "dialing", info |-> server_list[p]]]
    BY DEF Mon!CopyEntry, Mon!Known
<1>2. p \in Mon!Known /\ server_list[p] \in Entries /\ Follows(server_list[p])
    BY <1>1 DEF MonitorInv, MonitorTyped
<1>3. MonitorTyped'
    BY <1>1, <1>2 DEF MonitorInv, MonitorTyped
<1>4. \A q \in MonitoredPeers, j \in Mon!Slots : checks'[q][j] =
            IF q = p /\ j = i THEN [at |-> "dialing", info |-> server_list[p]] ELSE checks[q][j]
    BY <1>1 DEF MonitorInv, MonitorTyped
<1> QED
    BY <1>1, <1>2, <1>3, <1>4 DEF MonitorInv

LEMMA PingStep ==
    ASSUME MonitorInv, NEW p \in MonitoredPeers, Mon!Ping(p) PROVE MonitorInv'
<1>1. /\ checks' = checks /\ p \in Mon!Known
      /\ server_list' = [server_list EXCEPT ![p].pings = IF @ < PingWindow THEN @ + 1 ELSE @]
    BY DEF Mon!Ping
<1>2. Mon!Known' = Mon!Known
    BY <1>1 DEF Mon!Known
<1>3. ASSUME NEW q \in Mon!Known
      PROVE  /\ server_list'[q] \in Entries /\ server_list'[q].results = server_list[q].results
             /\ server_list'[q].is_blacklisted = server_list[q].is_blacklisted
             /\ server_list'[q].global = server_list[q].global
    <2>1. server_list[q] \in Entries
        BY DEF MonitorInv, MonitorTyped
    <2>2. CASE q # p
        BY <1>1, <2>1, <2>2 DEF Mon!Known
    <2>3. CASE q = p
        <3> DEFINE pings == IF server_list[p].pings < PingWindow THEN server_list[p].pings + 1
                            ELSE server_list[p].pings
        <3>1. server_list'[q] = [server_list[q] EXCEPT !.pings = pings]
            BY <1>1, <2>3 DEF Mon!Known
        <3>2. pings \in Nat
            BY <2>1, <2>3, Thresholds DEF Entries
        <3> HIDE DEF pings
        <3> QED
            BY <2>1, <3>1, <3>2 DEF Entries
    <2> QED
        BY <2>2, <2>3
<1> QED
    BY <1>1, <1>2, <1>3 DEF MonitorInv, MonitorTyped, Follows

(* Until a peer has a window full of results it is blacklisted exactly     *)
(* when no global address of it is known, for any number of peers and of   *)
(* overlapping checks and any thresholds around the neutral score 50       *)
(* (main.rs 236-253, peer_monitor.rs 79-102 and 159-177).                  *)
THEOREM FlagsFollowDiscovery == CSpec => []NewcomersFollowDiscovery
<1>1. MonitorInv => NewcomersFollowDiscovery
    BY DEF MonitorInv, Follows, NewcomersFollowDiscovery, Mon!NewcomersFollowDiscovery
<1>2. ASSUME MonitorInv, [Mon!Next]_monitor_vars PROVE MonitorInv'
    <2>1. CASE UNCHANGED monitor_vars
        BY <1>2, <2>1 DEF monitor_vars, MonitorInv, MonitorTyped, Mon!Known
    <2> QED
        BY <1>2, <2>1, DiscoverStep, DialedStep, CheckStarts, CopyStep, PingStep DEF Mon!Next
<1> QED
    BY <1>1, <1>2, MonitorInit, MonitorSteps, PTL DEF CSpec

-----------------------------------------------------------------------------
(* The sockets: the publisher of a topic has handled every event up to     *)
(* some number, and a socket that serves a subscription has each message   *)
(* up to there from its first one on.                                      *)
Frames == [topic : Topics \cup Api!Answers, number : Nat, fields : SUBSET {"extrinsic", "data"}]

Channels == [sent : Nat, unread : Seq(Nat), lagged : BOOLEAN, closed : BOOLEAN]

ApiTyped ==
    /\ channels \in [Topics -> Channels]
    /\ \A id \in DOMAIN ws_clients : ws_clients[id] =
          [topics |-> ws_clients[id].topics, data_fields |-> ws_clients[id].data_fields,
           sender |-> ws_clients[id].sender]
    /\ \A c \in Sockets : sockets[c] =
          [id |-> sockets[c].id, at |-> sockets[c].at, requests |-> sockets[c].requests]
    /\ DOMAIN sockets = Sockets
    /\ pushed \in [Sockets -> Seq(Frames)]

(* The last event the publisher has handled.                               *)
Handled(t) == channels[t].sent - Len(channels[t].unread)

Works(t) == publishers[t] = "running" /\ ~channels[t].lagged

(* A channel that dropped nothing holds the events after those handled.    *)
Queued(t) ==
    /\ Handled(t) \in Nat
    /\ \A i \in 1 .. Len(channels[t].unread) : channels[t].unread[i] = Handled(t) + i

Waits(c) == sockets[c].at \notin {"open", "closed"}

(* A socket that is not open yet has had nothing and serves nobody.        *)
Fresh(c) ==
    Waits(c) => /\ pushed[c] = <<>>
                /\ \A id \in DOMAIN ws_clients : ws_clients[id].sender # c

(* From each frame of a topic on, a socket that serves it has all that was *)
(* handled.                                                                *)
Complete(c, t) ==
    \A k \in Api!Got(c, t) :
        /\ pushed[c][k].number <= Handled(t)
        /\ Api!Serves(c, t) =>
              \A n \in pushed[c][k].number + 1 .. Handled(t) :
                  Api!IsMessage(t, n) => Api!Gets(c, t, n)

ApiInv ==
    /\ ApiTyped
    /\ \A c \in Sockets : Fresh(c)
    /\ \A t \in Topics : Works(t) => Queued(t) /\ \A c \in Sockets : Complete(c, t)
    /\ NoGapsOnASocket

LEMMA ApiInit == Api!Init => ApiInv
<1> SUFFICES ASSUME Api!Init PROVE ApiInv
    OBVIOUS
<1>1. ApiTyped
    BY DEF Api!Init, ApiTyped, Channels
<1>2. \A c \in Sockets, t \in Topics : Api!Got(c, t) = {}
    BY DEF Api!Init, Api!Got
<1> QED
    BY <1>1, <1>2 DEF Api!Init, ApiInv, Fresh, Queued, Handled, Complete,
        NoGapsOnASocket, Api!NoGapsOnASocket

(* Frames that are no messages of a topic change nothing for it.           *)
LEMMA SameFrames ==
    ASSUME ApiTyped, ApiTyped', NEW c \in Sockets, NEW t \in Topics,
           \/ pushed'[c] = pushed[c]
           \/ \E f \in Frames : f.topic # t /\ pushed'[c] = Append(pushed[c], f)
    PROVE  /\ Api!Got(c, t)' = Api!Got(c, t)
           /\ \A k \in Api!Got(c, t) : pushed'[c][k] = pushed[c][k]
           /\ \A n : Api!Gets(c, t, n)' <=> Api!Gets(c, t, n)
<1>1. pushed[c] \in Seq(Frames) /\ pushed'[c] \in Seq(Frames)
    BY DEF ApiTyped
<1>2. ASSUME NEW f \in Frames, f.topic # t, pushed'[c] = Append(pushed[c], f)
      PROVE  /\ Api!Got(c, t)' = Api!Got(c, t)
             /\ \A k \in Api!Got(c, t) : pushed'[c][k] = pushed[c][k]
    <2>1. /\ DOMAIN pushed'[c] = 1 .. Len(pushed[c]) + 1 /\ DOMAIN pushed[c] = 1 .. Len(pushed[c])
          /\ Len(pushed[c]) \in Nat
          /\ \A k \in 1 .. Len(pushed[c]) : pushed'[c][k] = pushed[c][k]
          /\ pushed'[c][Len(pushed[c]) + 1] = f
        BY <1>1, <1>2
    <2> QED
        BY <1>2, <2>1 DEF Api!Got
<1>3. /\ Api!Got(c, t)' = Api!Got(c, t)
      /\ \A k \in Api!Got(c, t) : pushed'[c][k] = pushed[c][k]
    BY <1>2 DEF Api!Got
<1> QED
    BY <1>3 DEF Api!Gets

(* What is left to show of a step: the other parts follow when no frame of *)
(* a topic is added.                                                       *)
LEMMA SameNoGaps ==
    ASSUME ApiInv, ApiTyped',
           \A c \in Sockets, t \in Topics :
                \/ pushed'[c] = pushed[c]
                \/ \E f \in Frames : f.topic # t /\ pushed'[c] = Append(pushed[c], f)
    PROVE  NoGapsOnASocket'
<1>1. ASSUME NEW c \in Sockets, NEW t \in Topics
      PROVE  /\ Api!Got(c, t)' = Api!Got(c, t)
             /\ \A k \in Api!Got(c, t) : pushed'[c][k] = pushed[c][k]
             /\ \A n : Api!Gets(c, t, n)' <=> Api!Gets(c, t, n)
    BY SameFrames DEF ApiInv
<1> QED
    BY <1>1 DEF ApiInv, NoGapsOnASocket, Api!NoGapsOnASocket, Api!IsMessage

LEMMA SameComplete ==
    ASSUME ApiInv, ApiTyped', NEW c \in Sockets, NEW t \in Topics, Works(t),
           \/ pushed'[c] = pushed[c]
           \/ \E f \in Frames : f.topic # t /\ pushed'[c] = Append(pushed[c], f),
           Handled(t)' = Handled(t), Api!Serves(c, t)' => Api!Serves(c, t) \/ Api!Got(c, t) = {}
    PROVE  Complete(c, t)'
<1>1. Complete(c, t)
    BY DEF ApiInv
<1>2. /\ Api!Got(c, t)' = Api!Got(c, t)
      /\ \A k \in Api!Got(c, t) : pushed'[c][k] = pushed[c][k]
      /\ \A n : Api!Gets(c, t, n)' <=> Api!Gets(c, t, n)
    BY SameFrames DEF ApiInv
<1> QED
    BY <1>1, <1>2 DEF Complete, Api!IsMessage

-----------------------------------------------------------------------------
(* Steps of the channels.                                                  *)
LEMMA SameServes ==
    ASSUME sockets' = sockets, ws_clients' = ws_clients, NEW c, NEW t
    PROVE  Api!Serves(c, t)' <=> Api!Serves(c, t)
BY DEF Api!Serves, Api!Receivers

LEMMA ChannelDrops ==
    ASSUME NEW ch \in Channels, NEW n \in Nat, NEW q \in Seq(Nat), NEW new,
           new = [ch EXCEPT !.sent = n, !.unread = q, !.lagged = TRUE]
    PROVE  new \in Channels /\ new.lagged = TRUE
BY DEF Channels

LEMMA EventStep ==
    ASSUME ApiInv, NEW t \in Topics, Api!EventSent(t) PROVE ApiInv'
<1> USE DEF Channels
<1> DEFINE ch == channels[t]
<1>1. /\ ch \in Channels
      /\ UNCHANGED <<publishers, ws_clients, sockets, pushed>>
      /\ channels' = [channels EXCEPT ![t] =
          IF publishers[t] = "stopped" THEN [ch EXCEPT !.sent = @ + 1]
          ELSE IF Len(ch.unread) < ChannelCapacity
          THEN [ch EXCEPT !.sent = @ + 1, !.unread = Append(@, ch.sent + 1)]
          ELSE [ch EXCEPT !.sent = @ + 1, !.unread = Append(Tail(@), ch.sent + 1), !.lagged = TRUE]]
    BY DEF Api!EventSent, ApiInv, ApiTyped
<1>2. /\ channels'[t] \in Channels
      /\ Works(t)' => /\ Works(t) /\ channels'[t].sent = ch.sent + 1
                      /\ channels'[t].unread = Append(ch.unread, ch.sent + 1)
    <2>0. \A unread \in Seq(Nat) : Append(unread, ch.sent + 1) \in Seq(Nat)
        BY <1>1
    <2>1. CASE publishers[t] = "stopped"
        <3>1. channels'[t] = [ch EXCEPT !.sent = @ + 1]
            BY <1>1, <2>1 DEF ApiInv, ApiTyped
        <3>3. channels'[t] \in Channels
            BY <1>1, <3>1
        <3> QED
            BY <1>1, <2>1, <3>3 DEF Works
    <2>2. CASE publishers[t] # "stopped" /\ Len(ch.unread) < ChannelCapacity
        <3>1. channels'[t] = [ch EXCEPT !.sent = @ + 1, !.unread = Append(@, ch.sent + 1)]
            BY <1>1, <2>2 DEF ApiInv, ApiTyped
        <3>2. PICK n, q : n = ch.sent + 1 /\ q = Append(ch.unread, ch.sent + 1)
            OBVIOUS
        <3>3. n \in Nat /\ q \in Seq(Nat)
            BY <1>1, <2>0, <3>2
        <3>4. channels'[t] = [ch EXCEPT !.sent = n, !.unread = q]
            BY <3>1, <3>2
        <3>5. /\ channels'[t].sent = n /\ channels'[t].unread = q
              /\ (ch.lagged => channels'[t].lagged) /\ channels'[t] \in Channels
            <4>1. ch \in Channels
                BY <1>1
            <4>2. PICK new : new = channels'[t]
                OBVIOUS
            <4> HIDE DEF ch, Channels
            <4>3. new = [ch EXCEPT !.sent = n, !.unread = q]
                BY <3>4, <4>2
            <4>4. /\ new \in Channels /\ new.sent = n /\ new.unread = q
                  /\ (ch.lagged => new.lagged)
                BY <3>3, <4>1, <4>3 DEF Channels
            <4> QED
                BY <4>2, <4>4, Zenon
        <3> QED
            BY <1>1, <3>2, <3>5 DEF Works
    <2>3. CASE publishers[t] # "stopped" /\ ~(Len(ch.unread) < ChannelCapacity)
        <3>1. channels'[t] = [ch EXCEPT !.sent = @ + 1, !.unread = Append(Tail(@), ch.sent + 1), !.lagged = TRUE]
            BY <1>1, <2>3 DEF ApiInv, ApiTyped
        <3>2. PICK n, q : n = ch.sent + 1 /\ q = Append(Tail(ch.unread), ch.sent + 1)
            OBVIOUS
        <3>3. n \in Nat /\ q \in Seq(Nat)
            <4>1. CASE ch.unread = <<>>
                BY <1>1, <3>2, <4>1
            <4>2. CASE ch.unread # <<>>
                BY <1>1, <2>0, <3>2, <4>2
            <4> QED
                BY <4>1, <4>2
        <3>4. channels'[t] = [ch EXCEPT !.sent = n, !.unread = q, !.lagged = TRUE]
            BY <3>1, <3>2
        <3>5. channels'[t].lagged = TRUE /\ channels'[t] \in Channels
            <4>1. ch \in Channels
                BY <1>1
            <4>2. PICK new : new = channels'[t]
                OBVIOUS
            <4> HIDE DEF ch, Channels
            <4> QED
                BY <3>3, <3>4, <4>1, <4>2, ChannelDrops
        <3> QED
            BY <3>5 DEF Works
    <2> QED
        BY <2>1, <2>2, <2>3
<1>3. \A u \in Topics : u # t => channels'[u] = channels[u]
    BY <1>1 DEF ApiInv, ApiTyped
<1>4. ApiTyped'
    BY <1>1, <1>2, <1>3 DEF ApiInv, ApiTyped
<1>5. ASSUME Works(t)' PROVE Handled(t)' = Handled(t) /\ Queued(t)'
    <2>1. /\ channels'[t].sent = ch.sent + 1 /\ channels'[t].unread = Append(ch.unread, ch.sent + 1)
          /\ Queued(t)
        BY <1>2, <1>5 DEF ApiInv
    <2>2. /\ Len(channels'[t].unread) = Len(ch.unread) + 1 /\ Len(ch.unread) \in Nat
          /\ \A i \in 1 .. Len(ch.unread) : channels'[t].unread[i] = ch.unread[i]
          /\ channels'[t].unread[Len(ch.unread) + 1] = ch.sent + 1
        BY <1>1, <2>1
    <2>3. Handled(t)' = Handled(t)
        BY <1>1, <2>1, <2>2 DEF Handled
    <2>4. ASSUME NEW i \in 1 .. Len(channels'[t].unread)
          PROVE  channels'[t].unread[i] = Handled(t) + i
        <3>1. CASE i = Len(ch.unread) + 1
            BY <1>1, <2>2, <3>1 DEF Handled
        <3>2. CASE i # Len(ch.unread) + 1
            <4>1. i \in 1 .. Len(ch.unread)
                BY <2>2, <2>4, <3>2
            <4> QED
                BY <2>1, <2>2, <4>1 DEF Queued
        <3> QED
            BY <3>1, <3>2
    <2> QED
        BY <2>1, <2>3, <2>4 DEF Queued
<1>6. ASSUME NEW u \in Topics, Works(u)'
      PROVE  Queued(u)' /\ Works(u) /\ Handled(u)' = Handled(u)
    <2>1. CASE u = t
        BY <1>2, <1>5, <1>6, <2>1
    <2>2. CASE u # t
        BY <1>1, <1>3, <1>6, <2>2 DEF ApiInv, Works, Queued, Handled
    <2> QED
        BY <2>1, <2>2
<1>7. NoGapsOnASocket'
    BY <1>1, <1>4, SameNoGaps
<1>8. \A u \in Topics : Works(u)' => \A c \in Sockets : Complete(c, u)'
    BY <1>1, <1>4, <1>6, SameComplete, SameServes
<1>9. \A c \in Sockets : Fresh(c)'
    BY <1>1 DEF ApiInv, Fresh, Waits
<1> QED
    BY <1>4, <1>6, <1>7, <1>8, <1>9 DEF ApiInv

(* What a publisher takes from its channel is the event after those        *)
(* handled.                                                                *)
LEMMA ReceivedNext ==
    ASSUME ApiInv, NEW t \in Topics, Works(t), channels[t].unread # <<>>, Api!Received(t)
    PROVE  /\ Head(channels[t].unread) = Handled(t) + 1 /\ Head(channels[t].unread) \in Nat
           /\ Handled(t)' = Handled(t) + 1 /\ Queued(t)'
           /\ channels' \in [Topics -> Channels]
           /\ \A u \in Topics : /\ channels'[u].lagged = channels[u].lagged
                                /\ u # t => channels'[u] = channels[u]
<1> USE DEF Channels
<1> DEFINE ch == channels[t]
<1>1. /\ ch \in Channels
      /\ channels' = [channels EXCEPT ![t].unread = Tail(ch.unread)] /\ Queued(t)
    BY DEF Api!Received, ApiInv, ApiTyped
<1>2. /\ Tail(ch.unread) \in Seq(Nat) /\ Len(Tail(ch.unread)) = Len(ch.unread) - 1
      /\ Len(ch.unread) \in Nat \ {0} /\ Head(ch.unread) = ch.unread[1]
      /\ \A i \in 1 .. Len(Tail(ch.unread)) : Tail(ch.unread)[i] = ch.unread[i + 1]
    BY <1>1
<1>3. channels'[t] = [ch EXCEPT !.unread = Tail(ch.unread)]
    BY <1>1 DEF ApiInv, ApiTyped
<1>4. channels'[t].sent = ch.sent /\ channels'[t].unread = Tail(ch.unread) /\ channels'[t].lagged = ch.lagged
    BY <1>1, <1>3
<1>5. Head(ch.unread) = Handled(t) + 1 /\ Head(ch.unread) \in Nat
    BY <1>1, <1>2 DEF Queued
<1>6. Handled(t)' = Handled(t) + 1
    <2>1. /\ Len(channels'[t].unread) = Len(ch.unread) - 1 /\ channels'[t].sent = ch.sent
          /\ Len(ch.unread) \in Nat /\ ch.sent \in Nat
        BY <1>1, <1>2, <1>4
    <2> QED
        BY <2>1 DEF Handled
<1>7. Queued(t)'
    <2>1. Handled(t) \in Nat /\ \A i \in 1 .. Len(ch.unread) : ch.unread[i] = Handled(t) + i
        BY <1>1 DEF Queued
    <2>2. ASSUME NEW i \in 1 .. Len(Tail(ch.unread)) PROVE Tail(ch.unread)[i] = Handled(t)' + i
        <3>1. i + 1 \in 1 .. Len(ch.unread)
            BY <1>2
        <3>2. ch.unread[i + 1] = Handled(t) + (i + 1)
            BY <2>1, <3>1
        <3> QED
            BY <1>2, <1>6, <2>1, <3>2
    <2>3. \A i \in 1 .. Len(channels'[t].unread) : channels'[t].unread[i] = Handled(t)' + i
        BY <1>4, <2>2
    <2> QED
        BY <1>6, <2>1, <2>3 DEF Queued
<1>8. channels' \in [Topics -> Channels]
    <2>1. channels'[t] \in Channels
        <3> HIDE DEF ch
        <3>1. Tail(ch.unread) \in Seq(Nat)
            BY <1>2
        <3> QED
            BY <1>1, <1>3, <3>1
    <2> QED
        BY <1>1, <2>1 DEF ApiInv, ApiTyped
<1> QED
    BY <1>1, <1>4, <1>5, <1>6, <1>7, <1>8 DEF ApiInv, ApiTyped

LEMMA FrameTyped ==
    ASSUME ApiTyped, NEW c \in Sockets, NEW t, NEW k \in Api!Got(c, t)
    PROVE  pushed[c][k] \in Frames /\ pushed[c][k].number \in Nat
<1>1. pushed[c] \in Seq(Frames) /\ k \in DOMAIN pushed[c]
    BY DEF ApiTyped, Api!Got
<1>2. pushed[c][k] \in Frames
    BY <1>1
<1> QED
    BY <1>2 DEF Frames

LEMMA SkipStep ==
    ASSUME ApiInv, NEW t \in Topics, Api!PublisherSkips(t) PROVE ApiInv'
<1>1. /\ Works(t) /\ channels[t].unread # <<>> /\ Api!Received(t)
      /\ ~Api!IsMessage(t, Head(channels[t].unread))
      /\ UNCHANGED <<publishers, ws_clients, sockets, pushed>>
    BY DEF Api!PublisherSkips, Api!Behind, Works
<1>2. /\ Head(channels[t].unread) = Handled(t) + 1
      /\ Handled(t)' = Handled(t) + 1 /\ Queued(t)' /\ Handled(t) \in Nat
    BY <1>1, ReceivedNext DEF ApiInv, Queued
<1>3. \A u \in Topics : /\ channels'[u].lagged = channels[u].lagged
                        /\ u # t => channels'[u] = channels[u]
    BY <1>1, ReceivedNext
<1>4. ApiTyped'
    BY <1>1, ReceivedNext DEF ApiInv, ApiTyped
<1>5. NoGapsOnASocket'
    BY <1>1, <1>4, SameNoGaps
<1>6. ASSUME NEW c \in Sockets PROVE Complete(c, t)'
    <2>1. Complete(c, t) /\ pushed \in [Sockets -> Seq(Frames)]
        BY <1>1 DEF ApiInv, ApiTyped
    <2>2. /\ Api!Got(c, t)' = Api!Got(c, t) /\ pushed' = pushed
          /\ \A n : Api!Gets(c, t, n)' <=> Api!Gets(c, t, n)
          /\ Api!Serves(c, t)' <=> Api!Serves(c, t)
        BY <1>1, SameServes DEF Api!Got, Api!Gets
    <2>3. ASSUME NEW k \in Api!Got(c, t), NEW n \in pushed[c][k].number + 1 .. Handled(t) + 1,
                 Api!IsMessage(t, n)
          PROVE  n \in pushed[c][k].number + 1 .. Handled(t)
        <3>1. n # Handled(t) + 1
            BY <1>1, <1>2, <2>3
        <3> QED
            BY <1>2, <2>3, <3>1
    <2>4. \A k \in Api!Got(c, t) : pushed[c][k].number \in Nat
        BY FrameTyped DEF ApiInv
    <2> QED
        BY <1>2, <2>1, <2>2, <2>3, <2>4 DEF Complete, Api!IsMessage
<1>7. ASSUME NEW u \in Topics, Works(u)' PROVE Queued(u)' /\ \A c \in Sockets : Complete(c, u)'
    <2>1. Works(u)
        BY <1>1, <1>3, <1>7 DEF Works
    <2>2. CASE u # t
        <3>1. Handled(u)' = Handled(u) /\ Queued(u)'
            BY <1>3, <2>1, <2>2 DEF ApiInv, Handled, Queued
        <3> QED
            BY <1>1, <1>4, <2>1, <3>1, SameComplete, SameServes
    <2> QED
        BY <1>2, <1>6, <2>2
<1>8. \A c \in Sockets : Fresh(c)'
    BY <1>1 DEF ApiInv, Fresh, Waits
<1> QED
    BY <1>4, <1>5, <1>7, <1>8 DEF ApiInv

LEMMA StopStep ==
    ASSUME ApiInv, NEW t \in Topics, Api!PublisherStops(t) \/ Api!ProducersGone(t) PROVE ApiInv'
<1> USE DEF Channels
<1>1. /\ UNCHANGED <<ws_clients, sockets, pushed>>
      /\ \A u \in Topics : Works(u)' => Works(u)
      /\ \A u \in Topics : channels'[u].sent = channels[u].sent /\ channels'[u].unread = channels[u].unread
    <2>1. CASE Api!PublisherStops(t)
        BY <2>1 DEF Api!PublisherStops, Works
    <2>2. CASE Api!ProducersGone(t)
        <3>1. /\ UNCHANGED <<publishers, ws_clients, sockets, pushed>>
              /\ \A u \in Topics : channels'[u] = IF u = t THEN [channels[u] EXCEPT !.closed = TRUE]
                                                   ELSE channels[u]
              /\ \A u \in Topics : channels[u] \in Channels
            BY <2>2 DEF Api!ProducersGone, ApiInv, ApiTyped
        <3>2. \A u \in Topics :
                /\ channels'[u].sent = channels[u].sent /\ channels'[u].unread = channels[u].unread
                /\ channels'[u].lagged = channels[u].lagged
            BY <3>1
        <3> QED
            BY <3>1, <3>2 DEF Works
    <2> QED
        BY <2>1, <2>2
<1>2. ApiTyped'
    BY DEF Api!PublisherStops, Api!ProducersGone, ApiInv, ApiTyped
<1>3. NoGapsOnASocket'
    BY <1>1, <1>2, SameNoGaps
<1>4. ASSUME NEW u \in Topics, Works(u)' PROVE Queued(u)' /\ \A c \in Sockets : Complete(c, u)'
    <2>1. Handled(u)' = Handled(u) /\ Queued(u)'
        BY <1>1, <1>4 DEF ApiInv, Handled, Queued
    <2> QED
        BY <1>1, <1>2, <1>4, <2>1, SameComplete, SameServes
<1>5. \A c \in Sockets : Fresh(c)'
    BY <1>1 DEF ApiInv, Fresh, Waits
<1> QED
    BY <1>2, <1>3, <1>4, <1>5 DEF ApiInv

-----------------------------------------------------------------------------
(* The message of an event goes to every socket that serves its topic.     *)
LEMMA PublishStep ==
    ASSUME ApiInv, NEW t \in Topics, Api!PublisherPublishes(t) PROVE ApiInv'
<1>1. /\ Works(t) /\ channels[t].unread # <<>> /\ Api!Received(t)
      /\ UNCHANGED <<publishers, ws_clients, sockets>>
    BY DEF Api!PublisherPublishes, Api!Behind, Works
<1>2. PICK n \in Nat :
        /\ n = Handled(t) + 1 /\ Handled(t) \in Nat
        /\ Handled(t)' = n /\ Queued(t)'
        /\ Head(channels[t].unread) = n
    BY <1>1, ReceivedNext DEF ApiInv, Queued
<1>3. \A u \in Topics : /\ channels'[u].lagged = channels[u].lagged
                        /\ u # t => channels'[u] = channels[u]
    BY <1>1, ReceivedNext
<1>4. pushed' = [c \in Sockets |-> IF Api!Serves(c, t)
                    THEN Append(pushed[c], Api!Message(t, n, sockets[c].id)) ELSE pushed[c]]
    BY <1>2 DEF Api!PublisherPublishes, Api!Publish, Api!Serves
<1>5. ASSUME NEW id PROVE /\ Api!Message(t, n, id) \in Frames
                          /\ Api!Message(t, n, id).topic = t /\ Api!Message(t, n, id).number = n
    <2>1. Api!Filtered(t, ws_clients[id].data_fields) \in SUBSET {"extrinsic", "data"}
        BY DEF Api!Filtered, Api!FilterFields
    <2> QED
        BY <2>1 DEF Api!Message, Frames
<1>6. ApiTyped'
    <2>1. channels' \in [Topics -> Channels]
        BY <1>1, ReceivedNext
    <2>2. pushed' \in [Sockets -> Seq(Frames)]
        BY <1>4, <1>5 DEF ApiInv, ApiTyped
    <2> QED
        BY <1>1, <2>1, <2>2 DEF ApiInv, ApiTyped
<1>7. ASSUME NEW c \in Sockets, Api!Serves(c, t)
      PROVE  /\ Api!Got(c, t)' = Api!Got(c, t) \cup {Len(pushed[c]) + 1}
             /\ \A k \in Api!Got(c, t) : /\ pushed'[c][k] = pushed[c][k]
                                         /\ k < Len(pushed[c]) + 1
             /\ pushed'[c][Len(pushed[c]) + 1].number = n
             /\ \A m : Api!Gets(c, t, m)' <=> Api!Gets(c, t, m) \/ m = n
    <2>1. PICK f \in Frames : f.topic = t /\ f.number = n /\ pushed'[c] = Append(pushed[c], f)
        BY <1>4, <1>5, <1>7
    <2>2. /\ DOMAIN pushed'[c] = 1 .. Len(pushed[c]) + 1 /\ DOMAIN pushed[c] = 1 .. Len(pushed[c])
          /\ Len(pushed[c]) \in Nat
          /\ \A k \in 1 .. Len(pushed[c]) : pushed'[c][k] = pushed[c][k]
          /\ pushed'[c][Len(pushed[c]) + 1] = f
        BY <2>1 DEF ApiInv, ApiTyped
    <2>3. Api!Got(c, t)' = Api!Got(c, t) \cup {Len(pushed[c]) + 1}
        BY <2>1, <2>2 DEF Api!Got
    <2>4. \A k \in Api!Got(c, t) : pushed'[c][k] = pushed[c][k] /\ k < Len(pushed[c]) + 1
        BY <2>2 DEF Api!Got
    <2> QED
        BY <2>1, <2>2, <2>3, <2>4 DEF Api!Gets
<1>8. ASSUME NEW c \in Sockets, NEW u \in Topics, u # t \/ ~Api!Serves(c, t)
      PROVE  \/ pushed'[c] = pushed[c]
             \/ \E f \in Frames : f.topic # u /\ pushed'[c] = Append(pushed[c], f)
    BY <1>4, <1>5, <1>8
<1>9. ASSUME NEW c \in Sockets PROVE Complete(c, t)'
    <2>1. Complete(c, t) /\ \A k \in Api!Got(c, t) : pushed[c][k].number \in Nat
        BY <1>1, FrameTyped DEF ApiInv
    <2>2. Api!Serves(c, t)' <=> Api!Serves(c, t)
        BY <1>1, SameServes
    <2>3. CASE ~Api!Serves(c, t)
        BY <1>1, <1>2, <1>6, <1>8, <2>1, <2>2, <2>3, SameFrames DEF Complete, ApiInv
    <2>4. CASE Api!Serves(c, t)
        <3>1. ASSUME NEW k \in Api!Got(c, t)'
              PROVE  /\ pushed'[c][k].number <= n
                     /\ \A m \in pushed'[c][k].number + 1 .. n :
                            Api!IsMessage(t, m) => Api!Gets(c, t, m)'
            <4>1. CASE k = Len(pushed[c]) + 1
                BY <1>2, <1>7, <2>4, <4>1
            <4>2. CASE k \in Api!Got(c, t)
                <5>1. pushed'[c][k] = pushed[c][k] /\ pushed[c][k].number \in Nat
                      /\ pushed[c][k].number <= Handled(t)
                    BY <1>7, <2>1, <2>4, <4>2 DEF Complete
                <5>2. ASSUME NEW m \in pushed[c][k].number + 1 .. n, Api!IsMessage(t, m), m # n
                      PROVE  Api!Gets(c, t, m)
                    <6>1. m \in pushed[c][k].number + 1 .. Handled(t)
                        BY <1>2, <5>1, <5>2
                    <6> QED
                        BY <2>1, <2>4, <4>2, <5>2, <6>1 DEF Complete
                <5> QED
                    BY <1>2, <1>7, <2>4, <5>1, <5>2
            <4> QED
                BY <1>7, <2>4, <3>1, <4>1, <4>2
        <3> QED
            BY <1>2, <3>1 DEF Complete, Api!IsMessage
    <2> QED
        BY <2>3, <2>4
<1>10. ASSUME NEW u \in Topics, Works(u)' PROVE Queued(u)' /\ \A c \in Sockets : Complete(c, u)'
    <2>1. Works(u)
        BY <1>1, <1>3, <1>10 DEF Works
    <2>2. CASE u # t
        <3>1. Handled(u)' = Handled(u) /\ Queued(u)'
            BY <1>3, <2>1, <2>2 DEF ApiInv, Handled, Queued
        <3> QED
            BY <1>1, <1>6, <1>8, <2>1, <2>2, <3>1, SameComplete, SameServes
    <2> QED
        BY <1>2, <1>9, <2>2
<1>11. ASSUME NEW c \in Sockets, NEW u \in Topics, NEW i \in Api!Got(c, u)', NEW j \in Api!Got(c, u)', i < j
       PROVE  /\ pushed'[c][i].number < pushed'[c][j].number
              /\ \A m \in pushed'[c][i].number + 1 .. pushed'[c][j].number - 1 :
                    Api!IsMessage(u, m) => Api!Gets(c, u, m)'
    <2>0. \A k, l \in Api!Got(c, u) : k < l =>
            /\ pushed[c][k].number < pushed[c][l].number
            /\ \A m \in pushed[c][k].number + 1 .. pushed[c][l].number - 1 :
                    Api!IsMessage(u, m) => Api!Gets(c, u, m)
        BY DEF ApiInv, NoGapsOnASocket, Api!NoGapsOnASocket
    <2>3. i \in Nat /\ j \in Nat /\ Len(pushed[c]) \in Nat
        <3>1. pushed[c] \in Seq(Frames) /\ pushed'[c] \in Seq(Frames)
            BY <1>6 DEF ApiInv, ApiTyped
        <3> QED
            BY <3>1, <1>11 DEF Api!Got
    <2>1. CASE u # t \/ ~Api!Serves(c, t)
        <3>1. /\ Api!Got(c, u)' = Api!Got(c, u)
              /\ \A k \in Api!Got(c, u) : pushed'[c][k] = pushed[c][k]
              /\ \A m : Api!Gets(c, u, m)' <=> Api!Gets(c, u, m)
            BY <1>6, <1>8, <2>1, SameFrames DEF ApiInv
        <3> QED
            BY <1>11, <2>0, <3>1
    <2>2. CASE u = t /\ Api!Serves(c, t)
        <3>1. CASE j \in Api!Got(c, t)
            <4>1. i \in Api!Got(c, t)
                <5>1. j < Len(pushed[c]) + 1 /\ i \in Nat /\ j \in Nat /\ Len(pushed[c]) \in Nat
                    BY <1>7, <1>11, <2>2, <3>1, <2>3
                <5>2. i # Len(pushed[c]) + 1
                    BY <1>11, <5>1
                <5> QED
                    BY <1>7, <1>11, <2>2, <5>2
            <4>2. pushed'[c][i] = pushed[c][i] /\ pushed'[c][j] = pushed[c][j]
                BY <1>7, <2>2, <3>1, <4>1
            <4> QED
                BY <1>7, <1>11, <2>0, <2>2, <3>1, <4>1, <4>2
        <3>2. CASE j = Len(pushed[c]) + 1
            <4>1. i \in Api!Got(c, t)
                BY <1>7, <1>11, <2>2, <3>2
            <4>2. pushed'[c][i] = pushed[c][i] /\ pushed'[c][j].number = n
                BY <1>7, <2>2, <3>2, <4>1
            <4>3. pushed[c][i].number \in Nat /\ Complete(c, t)
                BY <1>1, <4>1, FrameTyped DEF ApiInv
            <4>4. /\ pushed[c][i].number <= Handled(t)
                  /\ \A m \in pushed[c][i].number + 1 .. Handled(t) :
                        Api!IsMessage(t, m) => Api!Gets(c, t, m)
                BY <2>2, <4>1, <4>3 DEF Complete
            <4>5. n - 1 = Handled(t)
                BY <1>2
            <4> QED
                BY <1>2, <1>7, <2>2, <4>2, <4>3, <4>4, <4>5
        <3> QED
            BY <1>7, <1>11, <2>2, <3>1, <3>2
    <2> QED
        BY <2>1, <2>2
<1>12. NoGapsOnASocket'
    BY <1>11 DEF NoGapsOnASocket, Api!NoGapsOnASocket, Api!IsMessage
<1>13. \A c \in Sockets : Fresh(c)'
    BY <1>1, <1>4 DEF ApiInv, Fresh, Waits, Api!Serves
<1> QED
    BY <1>6, <1>10, <1>12, <1>13 DEF ApiInv

-----------------------------------------------------------------------------
(* Steps of subscriptions and sockets.                                     *)
LEMMA SubscribeStep ==
    ASSUME ApiInv, NEW id \in Ids, NEW topics \in SUBSET Topics, NEW fields \in FieldSets,
           Api!Subscribe(id, topics, fields)
    PROVE  ApiInv'
<1>1. /\ id \notin DOMAIN ws_clients
      /\ DOMAIN ws_clients' = DOMAIN ws_clients \cup {id}
      /\ ws_clients'[id] = [topics |-> topics, data_fields |-> fields, sender |-> Api!NoSocket]
      /\ \A i \in DOMAIN ws_clients : ws_clients'[i] = ws_clients[i]
      /\ UNCHANGED <<channels, publishers, sockets, pushed>>
    BY DEF Api!Subscribe
<1>2. ApiTyped'
    BY <1>1 DEF ApiInv, ApiTyped
<1>3. \A c \in Sockets, t \in Topics : Api!Serves(c, t)' => Api!Serves(c, t)
    BY <1>1 DEF Api!Serves, Api!Receivers
<1>4. NoGapsOnASocket'
    BY <1>1, <1>2, SameNoGaps
<1>5. ASSUME NEW t \in Topics, Works(t)' PROVE Queued(t)' /\ \A c \in Sockets : Complete(c, t)'
    <2>1. Works(t) /\ Handled(t)' = Handled(t) /\ Queued(t)'
        BY <1>1, <1>5 DEF ApiInv, Works, Handled, Queued
    <2> QED
        BY <1>1, <1>2, <1>3, <2>1, SameComplete
<1>6. \A c \in Sockets : Fresh(c)'
    BY <1>1, ComponentsAssumption DEF ApiInv, Fresh, Waits, Api!ApiAssumption
<1> QED
    BY <1>2, <1>4, <1>5, <1>6 DEF ApiInv

LEMMA ConnectStep ==
    ASSUME ApiInv, NEW c \in Sockets, NEW id \in Ids, Api!Connect(c, id)
    PROVE  ApiInv'
<1>1. /\ sockets[c].at = "unused" /\ DOMAIN sockets' = Sockets
      /\ sockets'[c] = [id |-> id, at |-> "upgrading", requests |-> sockets[c].requests]
      /\ \A d \in Sockets : d # c => sockets'[d] = sockets[d]
      /\ UNCHANGED <<channels, publishers, ws_clients, pushed>>
    <2>1. /\ sockets[c] = [id |-> sockets[c].id, at |-> sockets[c].at, requests |-> sockets[c].requests]
          /\ DOMAIN sockets = Sockets
        BY DEF ApiInv, ApiTyped
    <2>2. sockets' = [d \in Sockets |-> IF d = c THEN [sockets[c] EXCEPT !.id = id, !.at = "upgrading"]
                                        ELSE sockets[d]]
        BY <2>1 DEF Api!Connect
    <2>3. sockets'[c] = [sockets[c] EXCEPT !.id = id, !.at = "upgrading"]
        BY <2>2
    <2>4. sockets'[c] = [id |-> id, at |-> "upgrading", requests |-> sockets[c].requests]
        BY <2>1, <2>3
    <2> QED
        BY <2>2, <2>4 DEF Api!Connect
<1>2. ApiTyped'
    <2>1. sockets'[c] = [id |-> sockets'[c].id, at |-> sockets'[c].at, requests |-> sockets'[c].requests]
        BY <1>1
    <2> QED
        BY <1>1, <2>1 DEF ApiInv, ApiTyped
<1>3. \A d \in Sockets, t \in Topics : Api!Serves(d, t)' => Api!Serves(d, t)
    BY <1>1 DEF Api!Serves, Api!Receivers
<1>4. NoGapsOnASocket'
    BY <1>1, <1>2, SameNoGaps
<1>5. ASSUME NEW t \in Topics, Works(t)' PROVE Queued(t)' /\ \A d \in Sockets : Complete(d, t)'
    <2>1. Works(t) /\ Handled(t)' = Handled(t) /\ Queued(t)'
        BY <1>1, <1>5 DEF ApiInv, Works, Handled, Queued
    <2> QED
        BY <1>1, <1>2, <1>3, <2>1, SameComplete
<1>6. \A d \in Sockets : Fresh(d)'
    BY <1>1 DEF ApiInv, Fresh, Waits
<1> QED
    BY <1>2, <1>4, <1>5, <1>6 DEF ApiInv

LEMMA SetSenderStep ==
    ASSUME ApiInv, NEW c \in Sockets, Api!SetSender(c) PROVE ApiInv'
<1> DEFINE id == sockets[c].id
<1>1. /\ sockets[c].at = "upgrading" /\ DOMAIN sockets' = Sockets
      /\ sockets'[c] = [id |-> id, at |-> "open", requests |-> sockets[c].requests]
      /\ \A d \in Sockets : d # c => sockets'[d] = sockets[d]
      /\ ws_clients' = [ws_clients EXCEPT ![id].sender = c]
      /\ UNCHANGED <<channels, publishers, pushed>>
    BY DEF Api!SetSender, ApiInv, ApiTyped
<1>2. /\ DOMAIN ws_clients' = DOMAIN ws_clients
      /\ \A i \in DOMAIN ws_clients :
            ws_clients'[i] = [topics |-> ws_clients[i].topics, data_fields |-> ws_clients[i].data_fields,
                              sender |-> IF i = id THEN c ELSE ws_clients[i].sender]
    <2>1. \A i \in DOMAIN ws_clients : ws_clients[i] =
            [topics |-> ws_clients[i].topics, data_fields |-> ws_clients[i].data_fields,
             sender |-> ws_clients[i].sender]
        BY DEF ApiInv, ApiTyped
    <2>2. ws_clients' = [i \in DOMAIN ws_clients |->
                           IF i = id THEN [ws_clients[id] EXCEPT !.sender = c] ELSE ws_clients[i]]
        BY <1>1
    <2>3. ASSUME NEW i \in DOMAIN ws_clients
          PROVE  ws_clients'[i] = [topics |-> ws_clients[i].topics, data_fields |-> ws_clients[i].data_fields,
                                   sender |-> IF i = id THEN c ELSE ws_clients[i].sender]
        BY <2>1, <2>2, <2>3
    <2> QED
        BY <2>2, <2>3
<1>3. ApiTyped'
    <2>1. sockets'[c] = [id |-> sockets'[c].id, at |-> sockets'[c].at, requests |-> sockets'[c].requests]
        BY <1>1
    <2>2. \A i \in DOMAIN ws_clients' : ws_clients'[i] =
            [topics |-> ws_clients'[i].topics, data_fields |-> ws_clients'[i].data_fields,
             sender |-> ws_clients'[i].sender]
        BY <1>2
    <2> QED
        BY <1>1, <2>1, <2>2 DEF ApiInv, ApiTyped
<1>4. \A t \in Topics : Api!Got(c, t) = {}
    <2>1. pushed[c] = <<>>
        BY <1>1 DEF ApiInv, Fresh, Waits
    <2> QED
        BY <2>1 DEF Api!Got
<1>5. ASSUME NEW d \in Sockets, NEW t \in Topics, Api!Serves(d, t)', d # c PROVE Api!Serves(d, t)
    <2>1. PICK i \in DOMAIN ws_clients' :
            t \in ws_clients'[i].topics /\ ws_clients'[i].sender # Api!NoSocket /\ ws_clients'[i].sender = d
        BY <1>5 DEF Api!Serves, Api!Receivers
    <2>2. i \in DOMAIN ws_clients /\ t \in ws_clients[i].topics /\ ws_clients[i].sender = d
        BY <1>2, <1>5, <2>1
    <2>3. sockets[d].at = "open"
        BY <1>1, <1>5 DEF Api!Serves
    <2> QED
        BY <2>1, <2>2, <2>3 DEF Api!Serves, Api!Receivers
<1>6. NoGapsOnASocket'
    BY <1>1, <1>3, SameNoGaps
<1>7. ASSUME NEW t \in Topics, Works(t)' PROVE Queued(t)' /\ \A d \in Sockets : Complete(d, t)'
    <2>1. Works(t) /\ Handled(t)' = Handled(t) /\ Queued(t)'
        BY <1>1, <1>7 DEF ApiInv, Works, Handled, Queued
    <2> QED
        BY <1>1, <1>3, <1>4, <1>5, <2>1, SameComplete
<1>8. ASSUME NEW d \in Sockets PROVE Fresh(d)'
    <2>1. CASE d = c
        BY <1>1, <2>1 DEF Fresh, Waits
    <2>2. CASE d # c
        BY <1>1, <1>2, <2>2 DEF ApiInv, Fresh, Waits
    <2> QED
        BY <2>1, <2>2
<1> QED
    BY <1>3, <1>6, <1>7, <1>8 DEF ApiInv

LEMMA RequestStep ==
    ASSUME ApiInv, NEW c \in Sockets, NEW payload \in Payloads, Api!HandleRequest(c, payload)
    PROVE  ApiInv'
<1>1. /\ sockets[c].at = "open" /\ DOMAIN sockets' = Sockets
      /\ sockets'[c].at = sockets[c].at /\ sockets'[c].id = sockets[c].id
      /\ sockets'[c] = [id |-> sockets'[c].id, at |-> sockets'[c].at, requests |-> sockets'[c].requests]
      /\ \A d \in Sockets : d # c => sockets'[d] = sockets[d]
      /\ UNCHANGED <<channels, publishers, ws_clients>>
    <2>1. sockets' = [sockets EXCEPT ![c].requests = @ + 1]
        BY DEF Api!HandleRequest
    <2>2. sockets[c] = [id |-> sockets[c].id, at |-> sockets[c].at, requests |-> sockets[c].requests]
        BY DEF ApiInv, ApiTyped
    <2>3. sockets'[c] = [id |-> sockets[c].id, at |-> sockets[c].at, requests |-> sockets[c].requests + 1]
        BY <2>1, <2>2 DEF ApiInv, ApiTyped
    <2>4. /\ DOMAIN sockets' = Sockets
          /\ \A d \in Sockets : d # c => sockets'[d] = sockets[d]
        BY <2>1 DEF ApiInv, ApiTyped
    <2> QED
        BY <2>3, <2>4 DEF Api!HandleRequest
<1>2. PICK f \in Frames :
        /\ \A t \in Topics : f.topic # t
        /\ pushed' = pushed \/ pushed' = [pushed EXCEPT ![c] = Append(@, f)]
    <2>1. Api!Answer(payload) \in Frames /\ Api!Answer(payload).topic \in Api!Answers
        BY DEF Api!Answer, Api!Answers, Frames
    <2>2. \A t \in Topics : Api!Answer(payload).topic # t
        BY <2>1, ComponentsAssumption DEF Api!ApiAssumption
    <2> QED
        BY <2>1, <2>2 DEF Api!HandleRequest
<1>3. ASSUME NEW d \in Sockets, NEW t \in Topics
      PROVE  \/ pushed'[d] = pushed[d]
             \/ \E g \in Frames : g.topic # t /\ pushed'[d] = Append(pushed[d], g)
    BY <1>2 DEF ApiInv, ApiTyped
<1>4. ApiTyped'
    <2>1. pushed' \in [Sockets -> Seq(Frames)]
        <3>1. pushed \in [Sockets -> Seq(Frames)] /\ Append(pushed[c], f) \in Seq(Frames)
            BY DEF ApiInv, ApiTyped
        <3> QED
            BY <1>2, <3>1
    <2> QED
        BY <1>1, <2>1 DEF ApiInv, ApiTyped
<1>5. \A d \in Sockets, t \in Topics : Api!Serves(d, t)' => Api!Serves(d, t)
    BY <1>1 DEF Api!Serves, Api!Receivers
<1>6. NoGapsOnASocket'
    BY <1>3, <1>4, SameNoGaps
<1>7. ASSUME NEW t \in Topics, Works(t)' PROVE Queued(t)' /\ \A d \in Sockets : Complete(d, t)'
    <2>1. Works(t) /\ Handled(t)' = Handled(t) /\ Queued(t)'
        BY <1>1, <1>7 DEF ApiInv, Works, Handled, Queued
    <2> QED
        BY <1>3, <1>4, <1>5, <2>1, SameComplete
<1>8. ASSUME NEW d \in Sockets PROVE Fresh(d)'
    <2>1. CASE d = c
        BY <1>1, <2>1 DEF Fresh, Waits
    <2>2. CASE d # c
        <3>1. pushed'[d] = pushed[d]
            BY <1>2, <2>2 DEF ApiInv, ApiTyped
        <3> QED
            BY <1>1, <2>2, <3>1 DEF ApiInv, Fresh, Waits
    <2> QED
        BY <2>1, <2>2
<1> QED
    BY <1>4, <1>6, <1>7, <1>8 DEF ApiInv

LEMMA DisconnectStep ==
    ASSUME ApiInv, NEW c \in Sockets, Api!Disconnect(c) PROVE ApiInv'
<1>1. /\ DOMAIN sockets' = Sockets
      /\ sockets'[c] = [id |-> sockets[c].id, at |-> "closed", requests |-> sockets[c].requests]
      /\ \A d \in Sockets : d # c => sockets'[d] = sockets[d]
      /\ UNCHANGED <<channels, publishers, ws_clients, pushed>>
    BY DEF Api!Disconnect, ApiInv, ApiTyped
<1>2. ApiTyped'
    <2>1. sockets'[c] = [id |-> sockets'[c].id, at |-> sockets'[c].at, requests |-> sockets'[c].requests]
        BY <1>1
    <2> QED
        BY <1>1, <2>1 DEF ApiInv, ApiTyped
<1>3. \A d \in Sockets, t \in Topics : Api!Serves(d, t)' => Api!Serves(d, t)
    BY <1>1 DEF Api!Serves, Api!Receivers
<1>4. NoGapsOnASocket'
    BY <1>1, <1>2, SameNoGaps
<1>5. ASSUME NEW t \in Topics, Works(t)' PROVE Queued(t)' /\ \A d \in Sockets : Complete(d, t)'
    <2>1. Works(t) /\ Handled(t)' = Handled(t) /\ Queued(t)'
        BY <1>1, <1>5 DEF ApiInv, Works, Handled, Queued
    <2> QED
        BY <1>1, <1>2, <1>3, <2>1, SameComplete
<1>6. \A d \in Sockets : Fresh(d)'
    BY <1>1 DEF ApiInv, Fresh, Waits
<1> QED
    BY <1>2, <1>4, <1>5, <1>6 DEF ApiInv

(* What a socket gets of a topic has no gap, repetition or swap: the       *)
(* publisher that lost an event stops (mod.rs 41-68), one socket at a time *)
(* holds the sender of a subscription (types.rs 716-723), and a socket     *)
(* that lost it never gets it back.                                        *)
THEOREM FramesHaveNoGap == CSpec => []NoGapsOnASocket
<1>1. ApiInv /\ [Api!Next]_api_vars => ApiInv'
    <2> SUFFICES ASSUME ApiInv, [Api!Next]_api_vars PROVE ApiInv'
        OBVIOUS
    <2>2. CASE UNCHANGED api_vars
        <3>1. UNCHANGED <<channels, publishers, ws_clients, sockets, pushed>>
            BY <2>2 DEF api_vars
        <3>2. ApiTyped'
            BY <3>1 DEF ApiInv, ApiTyped
        <3>3. NoGapsOnASocket'
            BY <3>1, <3>2, SameNoGaps
        <3>4. ASSUME NEW t \in Topics, Works(t)' PROVE Queued(t)' /\ \A c \in Sockets : Complete(c, t)'
            <4>1. Works(t) /\ Handled(t)' = Handled(t) /\ Queued(t)'
                BY <3>1, <3>4 DEF ApiInv, Works, Handled, Queued
            <4> QED
                BY <3>1, <3>2, <4>1, SameComplete, SameServes
        <3>5. \A c \in Sockets : Fresh(c)'
            BY <3>1 DEF ApiInv, Fresh, Waits
        <3> QED
            BY <3>2, <3>3, <3>4, <3>5 DEF ApiInv
    <2>3. CASE Api!Next
        BY <2>3, EventStep, StopStep, SkipStep, PublishStep, SubscribeStep, ConnectStep,
            SetSenderStep, RequestStep, DisconnectStep DEF Api!Next, Api!Publisher
    <2> QED
        BY <2>2, <2>3
<1>2. ApiInv => NoGapsOnASocket
    BY DEF ApiInv
<1> QED
    BY <1>1, <1>2, ApiInit, ApiSteps, PTL DEF CSpec

-----------------------------------------------------------------------------
(* The programs: every receiver of RPC events is made before the loop that *)
(* sends them is spawned, in each script of main.                          *)
Words ==
    Pro!Tasks \cup {"state", "publisher", "first_header", "loop"}
    \cup {"try", "spawn", "ask", "listen", "connect", "header", "join", "serve", "http", "leave", ""}
    \cup {"always", "app", "sync", "sync_finality", "p2p"}
Steps == [do : Words, what : Words, option : Words]

Listens(step)    == step.do = "listen"
StartsLoop(step) == step.do = "spawn" /\ step.what = "subscriptions"

NoLoop(s)   == \A i \in 1 .. Len(s) : ~StartsLoop(s[i])
NoListen(s) == \A i \in 1 .. Len(s) : ~Listens(s[i])
Ordered(s)  == \A i, j \in 1 .. Len(s) : Listens(s[i]) /\ StartsLoop(s[j]) => i < j

LEMMA Joined ==
    ASSUME NEW s \in Seq(Steps), NEW t \in Seq(Steps)
    PROVE  /\ s \o t \in Seq(Steps)
           /\ NoLoop(s) /\ NoLoop(t) => NoLoop(s \o t)
           /\ NoListen(s) /\ NoListen(t) => NoListen(s \o t)
           /\ NoLoop(s) /\ Ordered(t) => Ordered(s \o t)
           /\ Ordered(s) /\ NoListen(t) => Ordered(s \o t)
<1>1. /\ Len(s \o t) = Len(s) + Len(t) /\ Len(s) \in Nat /\ Len(t) \in Nat
      /\ \A i \in 1 .. Len(s) : (s \o t)[i] = s[i]
      /\ \A i \in Len(s) + 1 .. Len(s \o t) : (s \o t)[i] = t[i - Len(s)] /\ i - Len(s) \in 1 .. Len(t)
    OBVIOUS
<1> DEFINE u == s \o t
<1> HIDE DEF u
<1>2. \A i \in 1 .. Len(u) : \/ i \in 1 .. Len(s) /\ u[i] = s[i]
                             \/ i \in Len(s) + 1 .. Len(u) /\ u[i] = t[i - Len(s)] /\ i - Len(s) \in 1 .. Len(t)
    BY <1>1 DEF u
<1>3. NoLoop(s) /\ NoLoop(t) => NoLoop(u)
    BY <1>2 DEF NoLoop
<1>4. NoListen(s) /\ NoListen(t) => NoListen(u)
    BY <1>2 DEF NoListen
<1>5. ASSUME NoLoop(s), Ordered(t) PROVE Ordered(u)
    <2> SUFFICES ASSUME NEW i \in 1 .. Len(u), NEW j \in 1 .. Len(u), Listens(u[i]), StartsLoop(u[j])
                 PROVE  i < j
        BY DEF Ordered
    <2>1. u[j] = t[j - Len(s)] /\ j - Len(s) \in 1 .. Len(t) /\ j \in Len(s) + 1 .. Len(u)
        BY <1>2, <1>5 DEF NoLoop
    <2>2. CASE i \in 1 .. Len(s)
        BY <1>1, <2>1, <2>2
    <2>3. CASE u[i] = t[i - Len(s)] /\ i - Len(s) \in 1 .. Len(t)
        <3>1. i - Len(s) < j - Len(s)
            BY <1>5, <2>1, <2>3 DEF Ordered
        <3> QED
            BY <1>1, <3>1
    <2> QED
        BY <1>2, <2>2, <2>3
<1>6. ASSUME Ordered(s), NoListen(t) PROVE Ordered(u)
    <2> SUFFICES ASSUME NEW i \in 1 .. Len(u), NEW j \in 1 .. Len(u), Listens(u[i]), StartsLoop(u[j])
                 PROVE  i < j
        BY DEF Ordered
    <2>1. u[i] = s[i] /\ i \in 1 .. Len(s)
        BY <1>2, <1>6 DEF NoListen
    <2>2. CASE j \in 1 .. Len(s) /\ u[j] = s[j]
        BY <1>6, <2>1, <2>2 DEF Ordered
    <2>3. CASE j \in Len(s) + 1 .. Len(u)
        BY <1>1, <2>1, <2>3
    <2> QED
        BY <1>2, <2>2, <2>3
<1> QED
    BY <1>3, <1>4, <1>5, <1>6 DEF u

(* What the scripts need to know of a step.                                *)
LEMMA OptionalStep ==
    ASSUME NEW option \in Words, NEW step \in Steps
    PROVE  /\ Pro!If(option, step) \in Steps
           /\ Listens(Pro!If(option, step)) <=> Listens(step)
           /\ StartsLoop(Pro!If(option, step)) <=> StartsLoop(step)
BY DEF Steps, Pro!If, Listens, StartsLoop

LEMMA MainSteps ==
    /\ \A step \in {Pro!Try, Pro!Serve, Pro!ServeHttp, Pro!Leave, Pro!Header, Pro!Connect} :
          step \in Steps /\ ~Listens(step) /\ ~StartsLoop(step)
    /\ \A t \in Words : /\ Pro!Ask(t) \in Steps /\ ~Listens(Pro!Ask(t)) /\ ~StartsLoop(Pro!Ask(t))
                        /\ Pro!Join(t) \in Steps /\ ~Listens(Pro!Join(t)) /\ ~StartsLoop(Pro!Join(t))
                        /\ Pro!Listen(t) \in Steps /\ ~StartsLoop(Pro!Listen(t))
                        /\ Pro!Spawn(t) \in Steps /\ ~Listens(Pro!Spawn(t))
                        /\ t # "subscriptions" => ~StartsLoop(Pro!Spawn(t))
<1>1. {"try", "serve", "http", "leave", "header", "connect", "ask", "join", "listen", "spawn", ""}
        \subseteq Words
    BY DEF Words
<1>2. "always" \in Words
    BY DEF Words
<1>Try. Pro!Try \in Steps /\ ~Listens(Pro!Try) /\ ~StartsLoop(Pro!Try)
    BY <1>1, <1>2 DEF Pro!Try, Pro!Step, Steps, Listens, StartsLoop
<1>Serve. Pro!Serve \in Steps /\ ~Listens(Pro!Serve) /\ ~StartsLoop(Pro!Serve)
    BY <1>1, <1>2 DEF Pro!Serve, Pro!Step, Steps, Listens, StartsLoop
<1>ServeHttp. Pro!ServeHttp \in Steps /\ ~Listens(Pro!ServeHttp) /\ ~StartsLoop(Pro!ServeHttp)
    BY <1>1, <1>2 DEF Pro!ServeHttp, Pro!Step, Steps, Listens, StartsLoop
<1>Leave. Pro!Leave \in Steps /\ ~Listens(Pro!Leave) /\ ~StartsLoop(Pro!Leave)
    BY <1>1, <1>2 DEF Pro!Leave, Pro!Step, Steps, Listens, StartsLoop
<1>Header. Pro!Header \in Steps /\ ~Listens(Pro!Header) /\ ~StartsLoop(Pro!Header)
    BY <1>1, <1>2 DEF Pro!Header, Pro!Step, Steps, Listens, StartsLoop
<1>Connect. Pro!Connect \in Steps /\ ~Listens(Pro!Connect) /\ ~StartsLoop(Pro!Connect)
    BY <1>1, <1>2 DEF Pro!Connect, Pro!Step, Steps, Listens, StartsLoop
<1>3. ASSUME NEW t \in Words
      PROVE  /\ Pro!Ask(t) \in Steps /\ ~Listens(Pro!Ask(t)) /\ ~StartsLoop(Pro!Ask(t))
             /\ Pro!Join(t) \in Steps /\ ~Listens(Pro!Join(t)) /\ ~StartsLoop(Pro!Join(t))
             /\ Pro!Listen(t) \in Steps /\ ~StartsLoop(Pro!Listen(t))
             /\ Pro!Spawn(t) \in Steps /\ ~Listens(Pro!Spawn(t))
             /\ t # "subscriptions" => ~StartsLoop(Pro!Spawn(t))
    <2>1. Pro!Ask(t) \in Steps /\ ~Listens(Pro!Ask(t)) /\ ~StartsLoop(Pro!Ask(t))
        BY <1>1, <1>3, <1>2 DEF Pro!Ask, Pro!Step, Steps, Listens, StartsLoop
    <2>2. Pro!Join(t) \in Steps /\ ~Listens(Pro!Join(t)) /\ ~StartsLoop(Pro!Join(t))
        BY <1>1, <1>3, <1>2 DEF Pro!Join, Pro!Step, Steps, Listens, StartsLoop
    <2>3. Pro!Listen(t) \in Steps /\ ~StartsLoop(Pro!Listen(t))
        BY <1>1, <1>3, <1>2 DEF Pro!Listen, Pro!Step, Steps, Listens, StartsLoop
    <2>4. /\ Pro!Spawn(t) \in Steps /\ ~Listens(Pro!Spawn(t))
          /\ t # "subscriptions" => ~StartsLoop(Pro!Spawn(t))
        BY <1>1, <1>3, <1>2 DEF Pro!Spawn, Pro!Step, Steps, Listens, StartsLoop
    <2> QED
        BY <2>1, <2>2, <2>3, <2>4
<1> QED
    BY <1>Try, <1>Serve, <1>ServeHttp, <1>Leave, <1>Header, <1>Connect, <1>3

(* The parts of the scripts.                                               *)
LEMMA StateParts ==
    /\ Pro!StateHandler \in Seq(Steps) /\ NoListen(Pro!StateHandler) /\ NoLoop(Pro!StateHandler)
    /\ Pro!StartP2P \in Seq(Steps) /\ NoListen(Pro!StartP2P) /\ NoLoop(Pro!StartP2P)
    /\ Pro!ClientConnects \in Seq(Steps) /\ NoLoop(Pro!ClientConnects)
    /\ \A step \in Steps : ~Listens(step) /\ ~StartsLoop(step) =>
          <<step>> \in Seq(Steps) /\ NoListen(<<step>>) /\ NoLoop(<<step>>)
<1>0. "state" \in Words /\ "p2p" \in Words
    BY DEF Words
<1>1. Pro!StateHandler \in Seq(Steps) /\ NoListen(Pro!StateHandler) /\ NoLoop(Pro!StateHandler)
    BY <1>0, MainSteps DEF NoListen, NoLoop, Pro!StateHandler
<1>2. Pro!StartP2P \in Seq(Steps) /\ NoListen(Pro!StartP2P) /\ NoLoop(Pro!StartP2P)
    BY <1>0, MainSteps DEF NoListen, NoLoop, Pro!StartP2P
<1>3. Pro!ClientConnects \in Seq(Steps) /\ NoLoop(Pro!ClientConnects)
    BY <1>0, MainSteps DEF NoLoop, Pro!ClientConnects
<1>4. \A step \in Steps : ~Listens(step) /\ ~StartsLoop(step) =>
          <<step>> \in Seq(Steps) /\ NoListen(<<step>>) /\ NoLoop(<<step>>)
    BY DEF NoListen, NoLoop
<1> QED
    BY <1>1, <1>2, <1>3, <1>4

LEMMA ClientParts ==
    /\ Pro!ClientReceivers \in Seq(Steps) /\ Ordered(Pro!ClientReceivers)
    /\ Pro!ClientTasks \in Seq(Steps) /\ NoListen(Pro!ClientTasks)
<1>0. {"publisher", "first_header", "loop", "subscriptions", "server", "app", "sync", "sync_finality",
       "updater", "maintenance", "light"} \subseteq Words
    BY DEF Words, Pro!Tasks
<1>1. Pro!ClientReceivers \in Seq(Steps) /\ Ordered(Pro!ClientReceivers)
    BY <1>0, MainSteps DEF Ordered, Pro!ClientReceivers
<1>2. Pro!ClientTasks \in Seq(Steps) /\ NoListen(Pro!ClientTasks)
    <2>1. /\ Pro!If("app", Pro!Spawn("app")) \in Steps /\ ~Listens(Pro!If("app", Pro!Spawn("app")))
          /\ Pro!If("sync", Pro!Spawn("sync")) \in Steps /\ ~Listens(Pro!If("sync", Pro!Spawn("sync")))
          /\ Pro!If("sync_finality", Pro!Spawn("sync_finality")) \in Steps
          /\ ~Listens(Pro!If("sync_finality", Pro!Spawn("sync_finality")))
        BY <1>0, MainSteps, OptionalStep
    <2> QED
        BY <1>0, <2>1, MainSteps DEF NoListen, Pro!ClientTasks
<1> QED
    BY <1>1, <1>2

LEMMA ClientOrdered == Pro!ClientScript \in Seq(Steps) /\ Ordered(Pro!ClientScript)
<1> DEFINE p2p == [i \in 1 .. Len(Pro!StartP2P) |-> Pro!If("p2p", Pro!StartP2P[i])]
<1>1. p2p \in Seq(Steps) /\ NoLoop(p2p)
    <2>1. "p2p" \in Words
        BY DEF Words
    <2>2. \A i \in 1 .. Len(Pro!StartP2P) : Pro!StartP2P[i] \in Steps
        BY StateParts
    <2>3. Len(Pro!StartP2P) \in Nat
        BY StateParts
    <2>4. p2p \in [1 .. Len(Pro!StartP2P) -> Steps]
        BY <2>1, <2>2, OptionalStep
    <2>5. p2p \in Seq(Steps) /\ Len(p2p) = Len(Pro!StartP2P)
        BY <2>3, <2>4
    <2> QED
        BY <2>1, <2>2, <2>5, StateParts, OptionalStep DEF NoLoop
<1>2. Pro!LoadConfig \in Seq(Steps) /\ NoLoop(Pro!LoadConfig)
    BY MainSteps, StateParts DEF Pro!LoadConfig
<1> HIDE DEF p2p
<1>3. Pro!LoadConfig \o p2p \in Seq(Steps) /\ NoLoop(Pro!LoadConfig \o p2p)
    BY <1>1, <1>2, Joined
<1>4. Pro!LoadConfig \o p2p \o Pro!ClientConnects \in Seq(Steps)
      /\ NoLoop(Pro!LoadConfig \o p2p \o Pro!ClientConnects)
    BY <1>3, Joined, StateParts
<1>5. Pro!LoadConfig \o p2p \o Pro!ClientConnects \o Pro!ClientReceivers \in Seq(Steps)
      /\ Ordered(Pro!LoadConfig \o p2p \o Pro!ClientConnects \o Pro!ClientReceivers)
    BY <1>4, Joined, ClientParts
<1>6. Pro!LoadConfig \o p2p \o Pro!ClientConnects \o Pro!ClientReceivers \o Pro!ClientTasks \in Seq(Steps)
      /\ Ordered(Pro!LoadConfig \o p2p \o Pro!ClientConnects \o Pro!ClientReceivers \o Pro!ClientTasks)
    BY <1>5, Joined, ClientParts
<1>7. /\ Pro!LoadConfig \o p2p \o Pro!ClientConnects \o Pro!ClientReceivers \o Pro!ClientTasks
            \o Pro!StateHandler \in Seq(Steps)
      /\ Ordered(Pro!LoadConfig \o p2p \o Pro!ClientConnects \o Pro!ClientReceivers \o Pro!ClientTasks
            \o Pro!StateHandler)
    BY <1>6, Joined, StateParts
<1> QED
    BY <1>7, Joined, StateParts, MainSteps DEF Pro!ClientScript, p2p

LEMMA FatOrdered == Pro!FatScript \in Seq(Steps) /\ Ordered(Pro!FatScript)
<1>0. {"state", "first_header", "loop", "subscriptions", "heartbeat", "server", "fat"} \subseteq Words
    BY DEF Words, Pro!Tasks
<1> DEFINE receivers == <<Pro!Listen("state"), Pro!Connect, Pro!Listen("first_header"), Pro!Listen("loop"),
                          Pro!Spawn("subscriptions"), Pro!Header>>
           begun == <<Pro!Spawn("heartbeat"), Pro!Try, Pro!Spawn("server"), Pro!Spawn("fat")>>
           last == <<Pro!Join("fat"), Pro!Serve>>
<1>1. receivers \in Seq(Steps) /\ Ordered(receivers)
    BY <1>0, MainSteps DEF Ordered
<1>2. begun \in Seq(Steps) /\ NoListen(begun)
    BY <1>0, MainSteps DEF NoListen
<1>3. last \in Seq(Steps) /\ NoListen(last)
    BY <1>0, MainSteps DEF NoListen
<1>4. Pro!FatBegins \in Seq(Steps) /\ NoLoop(Pro!FatBegins)
    BY MainSteps, StateParts DEF Pro!FatBegins
<1> HIDE DEF receivers, begun, last
<1>5. Pro!FatStarts \in Seq(Steps) /\ Ordered(Pro!FatStarts)
    BY <1>1, Joined, StateParts DEF Pro!FatStarts, receivers
<1>6. Pro!FatTasks \in Seq(Steps) /\ NoListen(Pro!FatTasks)
    BY <1>2, Joined, StateParts DEF Pro!FatTasks, begun
<1>7. Pro!FatBegins \o Pro!FatStarts \in Seq(Steps) /\ Ordered(Pro!FatBegins \o Pro!FatStarts)
    BY <1>4, <1>5, Joined
<1>8. /\ Pro!FatBegins \o Pro!FatStarts \o Pro!FatTasks \in Seq(Steps)
      /\ Ordered(Pro!FatBegins \o Pro!FatStarts \o Pro!FatTasks)
    BY <1>6, <1>7, Joined
<1> QED
    BY <1>3, <1>8, Joined DEF Pro!FatScript, last

LEMMA CrawlerOrdered == Pro!CrawlerScript \in Seq(Steps) /\ Ordered(Pro!CrawlerScript)
<1>0. {"first_header", "loop", "subscriptions", "heartbeat", "crawler"} \subseteq Words
    BY DEF Words, Pro!Tasks
<1> DEFINE receivers == <<Pro!Connect, Pro!Listen("first_header"), Pro!Listen("loop"),
                          Pro!Spawn("subscriptions"), Pro!Header>>
           begun == <<Pro!Spawn("heartbeat"), Pro!Spawn("crawler")>>
           last == <<Pro!Join("crawler"), Pro!Leave>>
<1>1. receivers \in Seq(Steps) /\ Ordered(receivers)
    BY <1>0, MainSteps DEF Ordered
<1>2. begun \in Seq(Steps) /\ NoListen(begun)
    BY <1>0, MainSteps DEF NoListen
<1>3. last \in Seq(Steps) /\ NoListen(last)
    BY <1>0, MainSteps DEF NoListen
<1>4. Pro!CrawlerBegins \in Seq(Steps) /\ NoLoop(Pro!CrawlerBegins)
    BY MainSteps, StateParts DEF Pro!CrawlerBegins
<1> HIDE DEF receivers, begun, last
<1>5. Pro!CrawlerStarts \in Seq(Steps) /\ Ordered(Pro!CrawlerStarts)
    BY <1>1, Joined, StateParts DEF Pro!CrawlerStarts, receivers
<1>6. Pro!CrawlerTasks \in Seq(Steps) /\ NoListen(Pro!CrawlerTasks)
    BY <1>2, Joined, StateParts DEF Pro!CrawlerTasks, begun
<1>7. Pro!CrawlerBegins \o Pro!CrawlerStarts \in Seq(Steps) /\ Ordered(Pro!CrawlerBegins \o Pro!CrawlerStarts)
    BY <1>4, <1>5, Joined
<1>8. /\ Pro!CrawlerBegins \o Pro!CrawlerStarts \o Pro!CrawlerTasks \in Seq(Steps)
      /\ Ordered(Pro!CrawlerBegins \o Pro!CrawlerStarts \o Pro!CrawlerTasks)
    BY <1>6, <1>7, Joined
<1> QED
    BY <1>3, <1>8, Joined DEF Pro!CrawlerScript, last

LEMMA OthersOrdered ==
    /\ Pro!BootstrapScript \in Seq(Steps) /\ Ordered(Pro!BootstrapScript)
    /\ Pro!MonitorScript \in Seq(Steps) /\ Ordered(Pro!MonitorScript)
    /\ Pro!LoadTestScript \in Seq(Steps) /\ Ordered(Pro!LoadTestScript)
    /\ Pro!CompatibilityScript \in Seq(Steps) /\ Ordered(Pro!CompatibilityScript)
    /\ Pro!WebScript \in Seq(Steps) /\ Ordered(Pro!WebScript)
    /\ Pro!LatestBlockScript \in Seq(Steps) /\ Ordered(Pro!LatestBlockScript)
<1>0. {"server", "state", "bootstraps", "discovery", "monitor", "load", "p2p", "subscriptions", "loop",
       "publisher", "light"} \subseteq Words
    BY DEF Words, Pro!Tasks
<1>1. ASSUME NEW s \in Seq(Steps), NoListen(s) \/ NoLoop(s) PROVE Ordered(s)
    BY <1>1 DEF NoListen, NoLoop, Ordered
<1>2. <<Pro!Try>> \in Seq(Steps) /\ NoListen(<<Pro!Try>>) /\ <<Pro!Serve>> \in Seq(Steps) /\ NoListen(<<Pro!Serve>>)
    BY MainSteps, StateParts
<1>3. <<Pro!Try>> \o Pro!StartP2P \in Seq(Steps) /\ NoListen(<<Pro!Try>> \o Pro!StartP2P)
    BY <1>2, Joined, StateParts
<1>4. Pro!BootstrapScript \in Seq(Steps) /\ NoListen(Pro!BootstrapScript)
    <2>1. <<Pro!Spawn("server")>> \in Seq(Steps) /\ NoListen(<<Pro!Spawn("server")>>)
        BY <1>0, MainSteps DEF NoListen
    <2>2. Pro!StartP2P \o <<Pro!Spawn("server")>> \in Seq(Steps)
          /\ NoListen(Pro!StartP2P \o <<Pro!Spawn("server")>>)
        BY <2>1, Joined, StateParts
    <2>3. Pro!BootstrapTasks \in Seq(Steps) /\ NoListen(Pro!BootstrapTasks)
        BY <2>2, Joined, StateParts DEF Pro!BootstrapTasks
    <2>4. Pro!BootstrapBegins \o Pro!BootstrapTasks \in Seq(Steps)
          /\ NoListen(Pro!BootstrapBegins \o Pro!BootstrapTasks)
        BY <1>2, <2>3, Joined DEF Pro!BootstrapBegins
    <2> QED
        BY <1>2, <2>4, Joined DEF Pro!BootstrapScript
<1>5. Pro!MonitorScript \in Seq(Steps) /\ NoListen(Pro!MonitorScript)
    <2> DEFINE tasks_of == <<Pro!Spawn("state"), Pro!Spawn("bootstraps"), Pro!Spawn("discovery"),
                             Pro!Spawn("monitor"), Pro!Try, Pro!ServeHttp>>
    <2>1. tasks_of \in Seq(Steps) /\ NoListen(tasks_of)
        BY <1>0, MainSteps DEF NoListen
    <2> HIDE DEF tasks_of
    <2> QED
        BY <1>3, <2>1, Joined DEF Pro!MonitorScript, tasks_of
<1>6. Pro!LoadTestScript \in Seq(Steps) /\ NoListen(Pro!LoadTestScript)
    <2> DEFINE tasks_of == <<Pro!Ask("p2p"), Pro!Spawn("state"), Pro!Spawn("load"), Pro!Join("load"), Pro!Leave>>
    <2>1. tasks_of \in Seq(Steps) /\ NoListen(tasks_of)
        BY <1>0, MainSteps DEF NoListen
    <2> HIDE DEF tasks_of
    <2> QED
        BY <1>3, <2>1, Joined DEF Pro!LoadTestScript, tasks_of
<1>7. Pro!CompatibilityScript \in Seq(Steps) /\ NoListen(Pro!CompatibilityScript)
    BY <1>0, MainSteps DEF NoListen, Pro!CompatibilityScript
<1>8. Pro!LatestBlockScript \in Seq(Steps) /\ NoLoop(Pro!LatestBlockScript)
    BY <1>0, MainSteps DEF NoLoop, Pro!LatestBlockScript
<1>9. Pro!WebScript \in Seq(Steps) /\ Ordered(Pro!WebScript)
    BY <1>0, MainSteps DEF Ordered, Pro!WebScript
<1> QED
    BY <1>1, <1>4, <1>5, <1>6, <1>7, <1>8, <1>9

(* No header is announced before every receiver is made.                   *)
ProcessInv ==
    /\ program \in Pro!Programs
    /\ pc \in Nat
    /\ tasks["subscriptions"] = "none" => sent = 0
    /\ DOMAIN tasks = Pro!Tasks
    /\ tasks["subscriptions"] # "none" =>
          \E j \in 1 .. Len(Pro!Script) : j < pc /\ StartsLoop(Pro!Script[j])
    /\ \A r \in DOMAIN from : from[r] \in {0, 1}
    /\ {"first_header", "loop"} \subseteq DOMAIN from
    /\ first \in {0, 1}

LEMMA ScriptOrdered ==
    ASSUME program \in Pro!Programs
    PROVE  Pro!Script \in Seq(Steps) /\ Ordered(Pro!Script)
BY ClientOrdered, FatOrdered, CrawlerOrdered, OthersOrdered DEF Pro!Script, Pro!Programs

LEMMA ProcessInit == Pro!Init \/ NoProcess => ProcessInv
<1>1. ASSUME Pro!Init PROVE ProcessInv
    BY <1>1, ComponentsAssumption DEF Pro!Init, ProcessInv, Pro!ProcessAssumption, Pro!Tasks
<1>2. ASSUME NoProcess PROVE ProcessInv
    BY <1>2 DEF NoProcess, ProcessInv, Pro!Programs, Pro!Tasks
<1> QED
    BY <1>1, <1>2

(* What no step but those of the receivers, the loop and headers touches.  *)
LEMMA OtherStep ==
    ASSUME ProcessInv, UNCHANGED <<program, options, releases, from, first>>,
           pc' \in Nat, pc' >= pc, sent' = sent \/ tasks["subscriptions"] # "none",
           DOMAIN tasks' = Pro!Tasks,
           tasks'["subscriptions"] # "none" <=> tasks["subscriptions"] # "none"
    PROVE  ProcessInv'
<1>1. Pro!Script' = Pro!Script
    BY DEF Pro!Script, Pro!ClientScript, Pro!FatScript, Pro!CrawlerScript, Pro!BootstrapScript,
        Pro!MonitorScript, Pro!LoadTestScript, Pro!CompatibilityScript, Pro!WebScript,
        Pro!LatestBlockScript
<1>2. tasks["subscriptions"] # "none" =>
          \E j \in 1 .. Len(Pro!Script) : j < pc' /\ StartsLoop(Pro!Script[j])
    BY DEF ProcessInv
<1> QED
    BY <1>1, <1>2 DEF ProcessInv

LEMMA Proceeds ==
    ASSUME ProcessInv, Pro!Proceed PROVE pc' \in Nat /\ pc' > pc
BY DEF ProcessInv, Pro!Proceed

LEMMA MainListensStep == ASSUME ProcessInv, Pro!MainListens PROVE ProcessInv'
<1>1. /\ pc \in 1 .. Len(Pro!Script) /\ Listens(Pro!Script[pc])
      /\ UNCHANGED <<program, options, releases, tasks, sent, first>>
      /\ from' = [from EXCEPT ![Pro!What] = sent + 1]
    BY DEF Pro!MainListens, Pro!At, Listens
<1>2. Pro!Script \in Seq(Steps) /\ Ordered(Pro!Script)
    BY ScriptOrdered DEF ProcessInv
<1>3. tasks["subscriptions"] = "none"
    <2> SUFFICES ASSUME tasks["subscriptions"] # "none" PROVE FALSE
        OBVIOUS
    <2>1. PICK j \in 1 .. Len(Pro!Script) : j < pc /\ StartsLoop(Pro!Script[j])
        BY DEF ProcessInv
    <2>2. pc < j
        BY <1>1, <1>2, <2>1 DEF Ordered
    <2> QED
        BY <1>1, <2>1, <2>2
<1>4. sent = 0
    BY <1>3 DEF ProcessInv
<1>5. \A r \in DOMAIN from' : from'[r] \in {0, 1}
    BY <1>1, <1>4 DEF ProcessInv
<1> QED
    BY <1>1, <1>3, <1>5, Proceeds DEF ProcessInv, Pro!MainListens

LEMMA MainSpawnsStep == ASSUME ProcessInv, Pro!MainSpawns PROVE ProcessInv'
<1>1. /\ pc \in 1 .. Len(Pro!Script) /\ Pro!Script[pc].do = "spawn"
      /\ UNCHANGED <<program, options, releases, sent, from, first>>
      /\ tasks' = [tasks EXCEPT ![Pro!Script[pc].what] = "running"]
      /\ pc' \in Nat /\ pc' > pc
    BY Proceeds DEF Pro!MainSpawns, Pro!At, Pro!What
<1>2. CASE Pro!Script[pc].what = "subscriptions"
    <2>1. StartsLoop(Pro!Script[pc])
        BY <1>1, <1>2 DEF StartsLoop
    <2>2. Pro!Script' = Pro!Script
        BY <1>1 DEF Pro!Script, Pro!ClientScript, Pro!FatScript, Pro!CrawlerScript, Pro!BootstrapScript,
            Pro!MonitorScript, Pro!LoadTestScript, Pro!CompatibilityScript, Pro!WebScript,
            Pro!LatestBlockScript
    <2>3. tasks'["subscriptions"] = "running" /\ DOMAIN tasks' = Pro!Tasks
        BY <1>1, <1>2 DEF ProcessInv, Pro!Tasks
    <2> QED
        BY <1>1, <2>1, <2>2, <2>3 DEF ProcessInv
<1>3. CASE Pro!Script[pc].what # "subscriptions"
    <2>1. tasks'["subscriptions"] = tasks["subscriptions"] /\ DOMAIN tasks' = Pro!Tasks
        BY <1>1, <1>3 DEF ProcessInv, Pro!Tasks
    <2> QED
        BY <1>1, <2>1, OtherStep DEF ProcessInv
<1> QED
    BY <1>2, <1>3

LEMMA MainHeaderStep == ASSUME ProcessInv, Pro!MainTakesHeader PROVE ProcessInv'
<1>1. /\ UNCHANGED <<program, options, releases, tasks, sent, from>>
      /\ first' = first \/ first' = from["first_header"]
      /\ pc' \in Nat /\ pc' >= pc
    BY Proceeds DEF Pro!MainTakesHeader, Pro!End, ProcessInv
<1>2. first' \in {0, 1}
    BY <1>1 DEF ProcessInv
<1>3. Pro!Script' = Pro!Script
    BY <1>1 DEF Pro!Script, Pro!ClientScript, Pro!FatScript, Pro!CrawlerScript, Pro!BootstrapScript,
        Pro!MonitorScript, Pro!LoadTestScript, Pro!CompatibilityScript, Pro!WebScript,
        Pro!LatestBlockScript
<1>4. tasks["subscriptions"] # "none" =>
          \E j \in 1 .. Len(Pro!Script) : j < pc' /\ StartsLoop(Pro!Script[j])
    BY <1>1 DEF ProcessInv
<1> QED
    BY <1>1, <1>2, <1>3, <1>4 DEF ProcessInv

LEMMA TasksGoOn ==
    ASSUME ProcessInv, NEW t \in Pro!Tasks, tasks[t] # "none", NEW how, how # "none",
           tasks' = [tasks EXCEPT ![t] = how]
    PROVE  DOMAIN tasks' = Pro!Tasks /\ (tasks'["subscriptions"] # "none" <=> tasks["subscriptions"] # "none")
BY DEF ProcessInv, Pro!Tasks

LEMMA ProcessStep == ASSUME ProcessInv, [Pro!Next]_process_vars PROVE ProcessInv'
<1>1. CASE Pro!MainTries \/ Pro!MainAsks \/ Pro!MainConnects \/ Pro!MainJoins \/ Pro!MainServes
           \/ Pro!MainLeaves \/ Pro!UserStopsServer
    <2>1. /\ UNCHANGED <<program, options, releases, tasks, sent, from, first>>
          /\ Pro!Proceed \/ pc' = pc
        BY <1>1 DEF Pro!MainTries, Pro!MainAsks, Pro!MainConnects, Pro!MainJoins, Pro!MainServes,
            Pro!MainLeaves, Pro!UserStopsServer, Pro!End
    <2>2. pc' \in Nat /\ pc' >= pc
        BY <2>1, Proceeds DEF ProcessInv
    <2> QED
        BY <2>1, <2>2, OtherStep DEF ProcessInv
<1>2. CASE Pro!UserSignal \/ UNCHANGED process_vars
    <2>1. UNCHANGED <<program, options, releases, pc, tasks, sent, from, first>>
        BY <1>2 DEF Pro!UserSignal, process_vars
    <2> QED
        BY <2>1, OtherStep DEF ProcessInv
<1>3. CASE Pro!Announce
    <2>1. /\ UNCHANGED <<program, options, releases, pc, tasks, from, first>>
          /\ tasks["subscriptions"] # "none"
        BY <1>3 DEF Pro!Announce
    <2> QED
        BY <2>1, OtherStep DEF ProcessInv
<1>4. ASSUME NEW t \in Pro!Tasks,
             \/ Pro!TaskReturns(t) \/ Pro!TaskTriggers(t)
             \/ Pro!TaskAsksRestart(t) \/ Pro!TaskTriggersRestart(t)
      PROVE  ProcessInv'
    <2>1. /\ UNCHANGED <<program, options, releases, pc, sent, from, first>>
          /\ tasks[t] # "none"
          /\ \E how \in {"ended", "restarting"} : tasks' = [tasks EXCEPT ![t] = how]
        BY <1>4 DEF Pro!TaskReturns, Pro!TaskTriggers, Pro!TaskAsksRestart, Pro!TaskTriggersRestart
    <2>2. /\ DOMAIN tasks' = Pro!Tasks
          /\ tasks'["subscriptions"] # "none" <=> tasks["subscriptions"] # "none"
        BY <2>1, TasksGoOn
    <2> QED
        BY <2>1, <2>2, OtherStep DEF ProcessInv
<1>5. CASE Pro!Cancel
    <2>1. /\ UNCHANGED <<program, options, releases, pc, sent, from, first>>
          /\ tasks' = [t \in Pro!Tasks |-> IF tasks[t] = "running" /\ t \notin Pro!Uncancelled
                                           THEN "cancelled" ELSE tasks[t]]
        BY <1>5 DEF Pro!Cancel
    <2>2. "subscriptions" \in Pro!Tasks
        BY DEF Pro!Tasks
    <2>3. /\ DOMAIN tasks' = Pro!Tasks
          /\ tasks'["subscriptions"] # "none" <=> tasks["subscriptions"] # "none"
        BY <2>1, <2>2
    <2> QED
        BY <2>1, <2>3, OtherStep DEF ProcessInv
<1> QED
    BY <1>1, <1>2, <1>3, <1>4, <1>5, MainListensStep, MainSpawnsStep, MainHeaderStep DEF Pro!Next, Pro!Main

(* In every program the loop takes up at the header main waited for,       *)
(* whatever comes in between (main.rs 216-253 and its like).               *)
THEOREM LoopTakesUpAtFirst == CSpec => []LoopStartsAtFirst
<1>1. ProcessInv => LoopStartsAtFirst
    BY DEF ProcessInv, LoopStartsAtFirst, Pro!LoopStartsAtFirst
<1>2. ProcessInv /\ [Pro!Next]_process_vars => ProcessInv'
    BY ProcessStep
<1> QED
    BY <1>1, <1>2, ProcessInit, ProcessSteps, PTL DEF CSpec

-----------------------------------------------------------------------------
(* A set of numbers that is not empty has a least one: what induction over *)
(* the numbers is done with here.                                          *)
LEMMA LeastNumber ==
    ASSUME NEW T \in SUBSET Nat, T # {}
    PROVE  \E x \in T : \A y \in T : x <= y
<1> DEFINE R == OpToRel(<, Nat)
<1>1. IsWellFoundedOn(R, Nat)
    BY NatLessThanWellFounded
<1>2. PICK x \in T : \A y \in T : ~ (<<y, x>> \in R)
    <2> HIDE DEF R
    <2> QED
        BY <1>1, WFMin
<1>3. \A y \in T : ~(y < x)
    BY <1>2 DEF OpToRel
<1> QED
    BY <1>3

(* The blocks confirm_ancestry visits, hop by hop.                         *)
Hop(f, n, child, parent) ==
    IF n = 0 THEN child ELSE IF f[n - 1] \in DOMAIN parent THEN parent[f[n - 1]] ELSE f[n - 1]
Hops(f, m, child, parent) == f = [n \in 0 .. m |-> Hop(f, n, child, parent)]

LEMMA HopsExist ==
    ASSUME NEW m \in Nat, NEW child, NEW parent
    PROVE  \E f : Hops(f, m, child, parent)
<1> DEFINE Bad == {k \in Nat : ~ \E f : Hops(f, k, child, parent)}
<1> SUFFICES ASSUME Bad # {} PROVE FALSE
    OBVIOUS
<1>1. PICK k \in Bad : \A i \in Bad : k <= i
    <2> Bad \in SUBSET Nat
        OBVIOUS
    <2> HIDE DEF Bad
    <2> QED
        BY LeastNumber
<1>2. CASE k = 0
    <2> DEFINE f == [n \in 0 .. 0 |-> child]
    <2>1. \A n \in 0 .. 0 : f[n] = Hop(f, n, child, parent)
        BY DEF Hop
    <2>2. Hops(f, 0, child, parent)
        <3>1. f = [n \in 0 .. 0 |-> f[n]]
            OBVIOUS
        <3> HIDE DEF f
        <3> QED
            BY <2>1, <3>1 DEF Hops
    <2> QED
        BY <1>1, <1>2, <2>2
<1>3. CASE k # 0
    <2>1. k - 1 \in Nat /\ ~(k <= k - 1)
        BY <1>1, <1>3
    <2>2. PICK g : Hops(g, k - 1, child, parent)
        BY <1>1, <2>1
    <2>3. \A n \in 0 .. (k - 1) : g[n] = Hop(g, n, child, parent)
        BY <2>2 DEF Hops
    <2> DEFINE f == [n \in 0 .. k |-> IF n = k THEN Hop(g, k, child, parent) ELSE g[n]]
    <2>4. \A n \in 0 .. k : f[n] = Hop(f, n, child, parent)
        <3> SUFFICES ASSUME NEW n \in 0 .. k PROVE f[n] = Hop(f, n, child, parent)
            OBVIOUS
        <3>1. n # 0 => n - 1 \in 0 .. k /\ n - 1 # k
            BY <1>1
        <3>2. n # 0 => f[n - 1] = g[n - 1]
            BY <3>1
        <3>3. Hop(f, n, child, parent) = Hop(g, n, child, parent)
            <4> HIDE DEF f
            <4> QED
                BY <3>2 DEF Hop
        <3>4. n # k => n \in 0 .. (k - 1)
            BY <1>1, <2>1
        <3>5. f[n] = Hop(g, n, child, parent)
            BY <2>3, <3>4
        <3> QED
            BY <3>3, <3>5
    <2>5. f = [n \in 0 .. k |-> f[n]]
        OBVIOUS
    <2>6. Hops(f, k, child, parent)
        <3> HIDE DEF f
        <3> QED
            BY <2>4, <2>5 DEF Hops
    <2> QED
        BY <1>1, <2>6
<1> QED
    BY <1>2, <1>3

(* As long as the hops go on, each is that of a path along the ancestries. *)
LEMMA HopsGoOn ==
    ASSUME NEW m \in Nat, NEW child, NEW parent, NEW f, Hops(f, m, child, parent),
           NEW n \in 1 .. m, f[n - 1] \in DOMAIN parent
    PROVE  \A k \in 1 .. n : f[k - 1] \in DOMAIN parent /\ f[k] = parent[f[k - 1]]
<1>0. \A k \in 0 .. m : f[k] = Hop(f, k, child, parent)
    BY DEF Hops
<1> DEFINE Stuck == {i \in Nat : i < n /\ f[(n - 1) - i] \notin DOMAIN parent}
<1>1. Stuck = {}
    <2> SUFFICES ASSUME Stuck # {} PROVE FALSE
        OBVIOUS
    <2>1. PICK i \in Stuck : \A j \in Stuck : i <= j
        <3> Stuck \in SUBSET Nat
            OBVIOUS
        <3> HIDE DEF Stuck
        <3> QED
            BY LeastNumber
    <2>2. i # 0
        BY <2>1
    <2>3. i - 1 \in Nat /\ i - 1 < n /\ (n - 1) - (i - 1) = n - i /\ i - 1 \notin Stuck
        BY <2>1, <2>2
    <2>4. f[n - i] \in DOMAIN parent
        BY <2>3
    <2>5. n - i \in 0 .. m /\ n - i # 0 /\ (n - i) - 1 = (n - 1) - i
        BY <2>1
    <2>6. f[n - i] = f[(n - 1) - i]
        BY <1>0, <2>1, <2>5 DEF Hop
    <2> QED
        BY <2>1, <2>4, <2>6
<1>2. ASSUME NEW k \in 1 .. n PROVE f[k - 1] \in DOMAIN parent
    <2>1. n - k \in Nat /\ n - k < n /\ (n - 1) - (n - k) = k - 1
        OBVIOUS
    <2>2. n - k \notin Stuck
        BY <1>1
    <2> QED
        BY <2>1, <2>2
<1>3. ASSUME NEW k \in 1 .. n PROVE f[k] = parent[f[k - 1]]
    <2>1. k \in 0 .. m /\ k # 0
        OBVIOUS
    <2> QED
        BY <1>0, <1>2, <2>1 DEF Hop
<1> QED
    BY <1>2, <1>3

(* A path is where the hops lead.                                          *)
Path(path, n, child, parent) ==
    /\ path[0] = child
    /\ \A k \in 1 .. n : path[k - 1] \in DOMAIN parent /\ path[k] = parent[path[k - 1]]

LEMMA PathHops ==
    ASSUME NEW m \in Nat, NEW child, NEW parent, NEW f, Hops(f, m, child, parent),
           NEW n \in 0 .. m, NEW path, Path(path, n, child, parent)
    PROVE  \A k \in 0 .. n : f[k] = path[k]
<1>0. \A k \in 0 .. m : f[k] = Hop(f, k, child, parent)
    BY DEF Hops
<1> DEFINE Bad == {k \in Nat : k \in 0 .. n /\ f[k] # path[k]}
<1> SUFFICES ASSUME Bad # {} PROVE FALSE
    OBVIOUS
<1>1. PICK k \in Bad : \A i \in Bad : k <= i
    <2> Bad \in SUBSET Nat
        OBVIOUS
    <2> HIDE DEF Bad
    <2> QED
        BY LeastNumber
<1>2. k # 0
    BY <1>0, <1>1 DEF Hop, Path
<1>3. k \in 1 .. n /\ k \in 0 .. m /\ k - 1 \in Nat /\ k - 1 \in 0 .. n /\ ~(k <= k - 1)
    BY <1>1, <1>2
<1>4. f[k - 1] = path[k - 1]
    BY <1>1, <1>3
<1>5. f[k] = parent[path[k - 1]]
    BY <1>0, <1>2, <1>3, <1>4 DEF Hop, Path
<1> QED
    BY <1>1, <1>3, <1>5 DEF Path

(* confirm_ancestry finds exactly the ancestors of the target of a vote.   *)
LEMMA AncestryIsDescent ==
    ASSUME NEW S \in SUBSET AncestryBlocks, IsFiniteSet(AncestryBlocks),
           NEW parent \in [S -> AncestryBlocks],
           NEW child \in AncestryBlocks, NEW root \in AncestryBlocks
    PROVE  Fin!ConfirmAncestry(child, root, parent)
               <=> child = root \/ root \in Fin!Ancestors(child, parent)
<1> DEFINE m == Cardinality(DOMAIN parent)
           hop == CHOOSE f : Hops(f, m, child, parent)
           R == {<<b, parent[b]>> : b \in DOMAIN parent}
<1>1. DOMAIN parent = S
    OBVIOUS
<1>2. IsFiniteSet(S) /\ m \in Nat
    BY <1>1, FS_Subset, FS_CardinalityType
<1>3. Hops(hop, m, child, parent)
    <2>1. \E f : Hops(f, m, child, parent)
        BY <1>2, HopsExist
    <2> HIDE DEF Hops, m
    <2> QED
        BY <2>1
<1>4. Fin!ConfirmAncestry(child, root, parent)
          <=> child = root \/ \E n \in 1 .. m : hop[n - 1] \in DOMAIN parent /\ hop[n] = root
    BY DEF Fin!ConfirmAncestry, Hops, Hop, Cardinality, Fin!Cardinality
<1>5. root \in Fin!Ancestors(child, parent)
          <=> \E n \in 1 .. Cardinality(DOMAIN parent \cup {child}) : \E path \in [0 .. n -> AncestryBlocks] :
                  /\ path[0] = child /\ path[n] = root
                  /\ \A k \in 1 .. n : <<path[k - 1], path[k]>> \in R
    BY DEF Fin!Ancestors, Cardinality, Fin!Cardinality
<1>6. \A b, c : <<b, c>> \in R <=> b \in S /\ c = parent[b]
    BY <1>1
<1> HIDE DEF hop, R
<1>7. ASSUME NEW n \in 1 .. m, hop[n - 1] \in S, hop[n] = root
      PROVE  root \in Fin!Ancestors(child, parent)
    <2>1. \A k \in 1 .. n : hop[k - 1] \in S /\ hop[k] = parent[hop[k - 1]]
        BY <1>1, <1>2, <1>3, <1>7, HopsGoOn
    <2>2. hop[0] = child
        BY <1>2, <1>3 DEF Hops, Hop
    <2> DEFINE path == [k \in 0 .. n |-> hop[k]]
    <2>3. path \in [0 .. n -> AncestryBlocks]
        <3>1. ASSUME NEW k \in 0 .. n PROVE hop[k] \in AncestryBlocks
            <4>1. CASE k = 0
                BY <2>2, <4>1
            <4>2. CASE k # 0
                <5>1. k \in 1 .. n
                    BY <1>2, <4>2
                <5> QED
                    BY <2>1, <5>1
            <4> QED
                BY <4>1, <4>2
        <3> QED
            BY <3>1
    <2>4. \A k \in 0 .. n : path[k] = hop[k]
        OBVIOUS
    <2>5. 0 \in 0 .. n /\ n \in 0 .. n /\ \A k \in 1 .. n : k \in 0 .. n /\ k - 1 \in 0 .. n
        BY <1>2
    <2>6. n \in 1 .. Cardinality(DOMAIN parent \cup {child})
        <3>1. Cardinality(DOMAIN parent \cup {child}) = IF child \in S THEN m ELSE m + 1
            BY <1>2, FS_AddElement
        <3> HIDE DEF m
        <3> QED
            BY <1>2, <3>1
    <2> HIDE DEF path, m
    <2>7. path[0] = child /\ path[n] = root
        BY <1>7, <2>2, <2>4, <2>5
    <2>8. \A k \in 1 .. n : <<path[k - 1], path[k]>> \in R
        BY <1>6, <2>1, <2>4, <2>5
    <2> QED
        BY <1>5, <2>3, <2>6, <2>7, <2>8
<1>8. ASSUME root \in Fin!Ancestors(child, parent)
      PROVE  \E n \in 1 .. m : hop[n - 1] \in S /\ hop[n] = root
    <2>0. PICK n \in 1 .. Cardinality(DOMAIN parent \cup {child}) : \E path \in [0 .. n -> AncestryBlocks] :
              /\ path[0] = child /\ path[n] = root
              /\ \A k \in 1 .. n : <<path[k - 1], path[k]>> \in R
        BY <1>5, <1>8
    <2>1. PICK path \in [0 .. n -> AncestryBlocks] :
              /\ path[0] = child /\ path[n] = root
              /\ \A k \in 1 .. n : <<path[k - 1], path[k]>> \in R
        BY <2>0
    <2>2. \A k \in 1 .. n : path[k - 1] \in S /\ path[k] = parent[path[k - 1]]
        BY <1>6, <2>1
    <2>3. n \in Nat /\ 1 \in 1 .. n
        <3>1. Cardinality(DOMAIN parent \cup {child}) \in Nat
            BY <1>2, FS_AddElement, FS_CardinalityType
        <3> QED
            BY <2>0, <3>1
    <2>4. child \in S
        <3>1. path[1 - 1] \in S
            BY <2>2, <2>3
        <3> QED
            BY <2>1, <3>1
    <2>5. DOMAIN parent \cup {child} = DOMAIN parent
        BY <1>1, <2>4
    <2>6. n \in 1 .. m /\ n \in 0 .. m
        <3>1. n \in 1 .. m
            BY <2>5
        <3> HIDE DEF m
        <3> QED
            BY <1>2, <3>1
    <2>7. \A k \in 0 .. n : hop[k] = path[k]
        <3> HIDE DEF m
        <3>1. Path(path, n, child, parent)
            BY <1>1, <2>1, <2>2 DEF Path
        <3> QED
            BY <1>2, <1>3, <2>6, <3>1, PathHops
    <2>8. n \in 0 .. n /\ n - 1 \in 0 .. n /\ n \in 1 .. n
        BY <2>3
    <2>9. hop[n - 1] \in S /\ hop[n] = root
        BY <2>1, <2>2, <2>7, <2>8
    <2> QED
        BY <2>6, <2>9
<1> QED
    BY <1>4, <1>7, <1>8
-----------------------------------------------------------------------------
(* What the client is handed: a justification is a finite sequence of      *)
(* precommits over blocks, checked against a finite set of validators.     *)
Justified ==
    /\ valset.set_id \in Nat /\ IsFiniteSet(valset.validator_set)
    /\ just.target \in AncestryBlocks
    /\ \E S \in SUBSET AncestryBlocks : just.ancestries \in [S -> AncestryBlocks]
    /\ \E n \in Nat : DOMAIN just.precommits = 1 .. n
    /\ \A i \in DOMAIN just.precommits :
          just.precommits[i].target \in AncestryBlocks /\ just.precommits[i].signed \in Nat

(* A candidate set id is the expected one or one of the two before it.     *)
LEMMA CandidateIsRecent ==
    ASSUME NEW s \in Nat, NEW k \in Nat
    PROVE  k \in Fin!CandidateSetIds(s) <=> k <= s /\ s <= k + 2
<1>1. Fin!SaturatingSub(s, 0) = s
    BY DEF Fin!SaturatingSub
<1>2. Fin!SaturatingSub(s, 1) = IF s >= 1 THEN s - 1 ELSE 0
    BY DEF Fin!SaturatingSub
<1>3. Fin!SaturatingSub(s, 2) = IF s >= 2 THEN s - 2 ELSE 0
    BY DEF Fin!SaturatingSub
<1>4. 0 .. 2 = {0, 1, 2}
    OBVIOUS
<1>5. k \in Fin!CandidateSetIds(s)
          <=> k = Fin!SaturatingSub(s, 0) \/ k = Fin!SaturatingSub(s, 1) \/ k = Fin!SaturatingSub(s, 2)
    BY <1>4 DEF Fin!CandidateSetIds
<1> QED
    BY <1>1, <1>2, <1>3, <1>5

(* The first precommit of a signer is the one the dedup keeps.             *)
LEMMA FirstIsUnique ==
    ASSUME Justified, NEW i \in DOMAIN just.precommits
    PROVE  /\ i \in Fin!UniqueSigners(just.precommits) <=> i = Fin!FirstOf(just.precommits[i].id)
           /\ Fin!FirstOf(just.precommits[i].id) \in DOMAIN just.precommits
           /\ just.precommits[Fin!FirstOf(just.precommits[i].id)].id = just.precommits[i].id
<1> DEFINE v == just.precommits[i].id
           own == {j \in DOMAIN just.precommits : just.precommits[j].id = v}
<1>1. PICK n \in Nat : DOMAIN just.precommits = 1 .. n
    BY DEF Justified
<1>2. own \in SUBSET Nat /\ i \in own
    BY <1>1
<1>3. PICK x \in own : \A y \in own : x <= y
    <2> HIDE DEF own
    <2> QED
        BY <1>2, LeastNumber
<1>4. Fin!FirstOf(v) = CHOOSE k \in own : \A j \in own : k <= j
    BY DEF Fin!FirstOf
<1>5. Fin!FirstOf(v) \in own /\ \A j \in own : Fin!FirstOf(v) <= j
    <2> HIDE DEF own
    <2> QED
        BY <1>3, <1>4
<1>6. i \in Fin!UniqueSigners(just.precommits) <=> \A j \in 1 .. (i - 1) : just.precommits[j].id # v
    BY DEF Fin!UniqueSigners
<1>7. ASSUME i \in Fin!UniqueSigners(just.precommits) PROVE i = Fin!FirstOf(v)
    <2>1. Fin!FirstOf(v) \in Nat /\ 1 <= Fin!FirstOf(v) /\ i \in Nat /\ Fin!FirstOf(v) <= i
        BY <1>1, <1>2, <1>5
    <2>2. Fin!FirstOf(v) \notin 1 .. (i - 1)
        BY <1>5, <1>6, <1>7
    <2> QED
        BY <2>1, <2>2
<1>8. ASSUME i = Fin!FirstOf(v) PROVE i \in Fin!UniqueSigners(just.precommits)
    <2>1. ASSUME NEW j \in 1 .. (i - 1) PROVE just.precommits[j].id # v
        <3>1. j \in DOMAIN just.precommits /\ i \in Nat /\ j \in Nat /\ ~(i <= j)
            BY <1>1
        <3> QED
            BY <1>5, <1>8, <3>1
    <2> QED
        BY <1>6, <2>1
<1> QED
    BY <1>5, <1>7, <1>8

(* A validator supports the target by its first precommit.                 *)
Supporters ==
    {v \in valset.validator_set : Fin!Signed(v) /\ Fin!Supports(just.precommits[Fin!FirstOf(v)])}

LEMMA MatchedSupports ==
    ASSUME Justified
    PROVE  Fin!MatchedPrecommits(valset, just) =
               {i \in DOMAIN just.precommits :
                   i = Fin!FirstOf(just.precommits[i].id) /\ Fin!Supports(just.precommits[i])}
<1> SUFFICES ASSUME NEW i \in DOMAIN just.precommits
             PROVE  i \in Fin!MatchedPrecommits(valset, just)
                        <=> i = Fin!FirstOf(just.precommits[i].id) /\ Fin!Supports(just.precommits[i])
    BY DEF Fin!MatchedPrecommits, Fin!VerifiedPrecommits, Fin!UniqueSigners
<1> DEFINE p == just.precommits[i]
<1>1. i \in Fin!UniqueSigners(just.precommits) <=> i = Fin!FirstOf(p.id)
    BY FirstIsUnique
<1>2. p.signed \in Fin!CandidateSetIds(valset.set_id)
          <=> p.signed <= valset.set_id /\ valset.set_id <= p.signed + 2
    BY CandidateIsRecent DEF Justified
<1>3. Fin!ConfirmAncestry(p.target, just.target, just.ancestries)
          <=> p.target = just.target \/ just.target \in Fin!Ancestors(p.target, just.ancestries)
    <2>1. p.target \in AncestryBlocks /\ just.target \in AncestryBlocks
        BY DEF Justified
    <2>2. PICK S \in SUBSET AncestryBlocks : just.ancestries \in [S -> AncestryBlocks]
        BY DEF Justified
    <2>3. IsFiniteSet(AncestryBlocks)
        BY ComponentsAssumption DEF Fin!FinalityAssumption, Fin!IsFiniteSet, IsFiniteSet
    <2> QED
        BY <2>1, <2>2, <2>3, AncestryIsDescent
<1>4. i \in Fin!MatchedPrecommits(valset, just)
          <=> /\ i \in Fin!UniqueSigners(just.precommits)
              /\ p.signed \in Fin!CandidateSetIds(valset.set_id)
              /\ Fin!ConfirmAncestry(p.target, just.target, just.ancestries)
              /\ p.id \in valset.validator_set
    BY DEF Fin!MatchedPrecommits, Fin!VerifiedPrecommits
<1>5. Fin!Supports(p)
          <=> /\ p.id \in valset.validator_set
              /\ p.signed <= valset.set_id /\ valset.set_id <= p.signed + 2
              /\ p.target = just.target \/ just.target \in Fin!Ancestors(p.target, just.ancestries)
    BY DEF Fin!Supports
<1> QED
    BY <1>1, <1>2, <1>3, <1>4, <1>5

(* As many precommits match as validators support the target.              *)
LEMMA MatchesCountSupporters ==
    ASSUME Justified
    PROVE  /\ Cardinality(Fin!MatchedPrecommits(valset, just)) = Cardinality(Supporters)
           /\ Cardinality(Supporters) \in Nat
<1> DEFINE M == Fin!MatchedPrecommits(valset, just)
           signer == [i \in M |-> just.precommits[i].id]
<1>0. \A i : i \in M <=> /\ i \in DOMAIN just.precommits
                         /\ i = Fin!FirstOf(just.precommits[i].id) /\ Fin!Supports(just.precommits[i])
    BY MatchedSupports
<1>1. IsFiniteSet(Supporters) /\ Cardinality(Supporters) \in Nat
    <2>1. Supporters \in SUBSET valset.validator_set /\ IsFiniteSet(valset.validator_set)
        BY DEF Supporters, Justified
    <2> QED
        BY <2>1, FS_Subset, FS_CardinalityType
<1> HIDE DEF M
<1>2. ASSUME NEW i \in M PROVE signer[i] \in Supporters
    <2>1. i \in DOMAIN just.precommits /\ Fin!Supports(just.precommits[i])
          /\ Fin!FirstOf(just.precommits[i].id) = i
        BY <1>0
    <2>2. just.precommits[i].id \in valset.validator_set
        BY <2>1 DEF Fin!Supports
    <2>3. Fin!Signed(just.precommits[i].id)
        BY <2>1 DEF Fin!Signed
    <2> QED
        BY <2>1, <2>2, <2>3 DEF Supporters
<1>3. ASSUME NEW i \in M, NEW j \in M, signer[i] = signer[j] PROVE i = j
    BY <1>0, <1>3
<1>4. ASSUME NEW v \in Supporters PROVE \E i \in M : signer[i] = v
    <2>1. Fin!Signed(v) /\ Fin!Supports(just.precommits[Fin!FirstOf(v)])
        BY DEF Supporters
    <2>2. PICK k \in DOMAIN just.precommits : just.precommits[k].id = v
        BY <2>1 DEF Fin!Signed
    <2>3. Fin!FirstOf(v) \in DOMAIN just.precommits /\ just.precommits[Fin!FirstOf(v)].id = v
        BY <2>2, FirstIsUnique
    <2>4. Fin!FirstOf(v) \in M
        BY <1>0, <2>1, <2>3
    <2> QED
        BY <2>3, <2>4
<1>5. signer \in [M -> Supporters]
    BY <1>2
<1> HIDE DEF signer
<1>6. signer \in Bijection(M, Supporters)
    <2>1. \A i, j \in M : signer[i] = signer[j] => i = j
        BY <1>3
    <2>2. \A v \in Supporters : \E i \in M : signer[i] = v
        BY <1>4
    <2>3. signer \in Injection(M, Supporters)
        BY <1>5, <2>1 DEF Injection, IsInjective
    <2>4. signer \in Surjection(M, Supporters)
        BY <1>5, <2>2 DEF Surjection
    <2> QED
        BY <2>3, <2>4 DEF Bijection
<1>7. IsFiniteSet(M)
    <2>1. signer \in Injection(M, Supporters)
        BY <1>6 DEF Bijection
    <2> QED
        BY <1>1, <2>1, FS_Injection
<1>8. ExistsBijection(M, Supporters)
    BY <1>6 DEF ExistsBijection
<1>9. Cardinality(Supporters) = Cardinality(M)
    BY <1>7, <1>8, FS_Bijection
<1> QED
    BY <1>1, <1>9 DEF M

LEMMA Decided ==
    ASSUME Justified
    PROVE  Fin!CheckFinality(valset, just).ok
               <=> 3 * Cardinality(Supporters) > 2 * Cardinality(valset.validator_set)
<1> DEFINE n == Cardinality(Supporters)
           size == Cardinality(valset.validator_set)
<1>1. Fin!CheckFinality(valset, just).ok
          <=> Cardinality(Fin!MatchedPrecommits(valset, just)) >= ((size * 2) \div 3) + 1
    BY DEF Fin!CheckFinality, Fin!IsSignedBySupermajority, Fin!Cardinality, Cardinality
<1>2. Cardinality(Fin!MatchedPrecommits(valset, just)) = n /\ n \in Nat
    BY MatchesCountSupporters
<1>3. size \in Nat
    BY FS_CardinalityType DEF Justified
<1> HIDE DEF n, size
<1>4. n >= ((size * 2) \div 3) + 1 <=> 3 * n > 2 * size
    BY <1>2, <1>3
<1> QED
    BY <1>1, <1>2, <1>4 DEF n, size

(* The inductive invariant: what is handed in does not change, and a       *)
(* verdict is that of check_finality on it.                                *)
FinalityInv ==
    /\ Justified
    /\ result # Fin!Pending => result = Fin!CheckFinality(valset, just)

LEMMA FinalityStarts == CInit => FinalityInv
<1> SUFFICES ASSUME CInit PROVE FinalityInv
    OBVIOUS
<1> USE ComponentsAssumption DEF Fin!FinalityAssumption
<1>1. Fin!Init \/ NoCheckYet
    BY FinalitySteps
<1>2. result = Fin!Pending
    BY <1>1 DEF Fin!Init, NoCheckYet
<1>3. \A b \in Nat : IsFiniteSet(1 .. b)
    BY FS_Interval
<1>4. ASSUME NEW x PROVE x = <<>> => x \in [{} -> AncestryBlocks]
    OBVIOUS
<1>5. IsFiniteSet({1}) /\ {1} = 1 .. 1 /\ 0 \in Nat /\ 1 \in Nat
    <2>1. {1} = 1 .. 1 /\ 0 \in Nat /\ 1 \in Nat
        OBVIOUS
    <2>2. IsFiniteSet(1 .. 1)
        BY <1>3, <2>1
    <2> QED
        BY <2>1, <2>2
<1>6. ASSUME NoCheckYet PROVE Justified
    <2>1. valset.set_id \in Nat /\ IsFiniteSet(valset.validator_set)
        BY <1>5, <1>6 DEF NoCheckYet
    <2>2. just.target = 1 /\ just.ancestries = <<>> /\ just.precommits = <<>>
        BY <1>6 DEF NoCheckYet
    <2>3. DOMAIN just.precommits = 1 .. 0 /\ \A i : i \notin 1 .. 0
        BY <2>2
    <2>4. \E S \in SUBSET AncestryBlocks : just.ancestries \in [S -> AncestryBlocks]
        BY <1>4, <2>2
    <2> QED
        BY <2>1, <2>2, <2>3, <2>4, <1>5 DEF Justified
<1>7. CASE Fin!Init
    <2>1. CASE valset \in [set_id : SetIds, validator_set : {1 .. n : n \in Sizes}] /\ just \in Fin!Votes
        <3>1. valset.set_id \in Nat /\ IsFiniteSet(valset.validator_set)
            BY <1>3, <2>1
        <3>2. just.target = 1 /\ just.ancestries = <<>>
            BY <2>1 DEF Fin!Votes, Fin!Justifications
        <3>3. PICK n \in 0 .. MaxPrecommits :
                  just.precommits \in [1 .. n -> [id : Signers, target : {1}, signed : SignedIds]]
            BY <2>1 DEF Fin!Votes, Fin!Justifications
        <3>4. n \in Nat /\ DOMAIN just.precommits = 1 .. n
            BY <3>3
        <3>5. \A i \in DOMAIN just.precommits :
                  just.precommits[i].target \in AncestryBlocks /\ just.precommits[i].signed \in Nat
            BY <3>3
        <3>6. \E S \in SUBSET AncestryBlocks : just.ancestries \in [S -> AncestryBlocks]
            BY <1>4, <3>2
        <3> QED
            BY <1>2, <3>1, <3>2, <3>4, <3>5, <3>6 DEF Justified, FinalityInv
    <2>2. CASE valset = [set_id |-> 0, validator_set |-> {1}] /\ just \in Fin!Descents
        <3>1. valset.set_id \in Nat /\ IsFiniteSet(valset.validator_set)
            BY <1>5, <2>2
        <3>2. just.target = 1 /\ \E S \in SUBSET AncestryBlocks : just.ancestries \in [S -> AncestryBlocks]
            BY <2>2 DEF Fin!Descents, Fin!Justifications
        <3>3. just.precommits \in [{1} -> [id : {1}, target : AncestryBlocks, signed : {0}]]
            BY <2>2 DEF Fin!Descents, Fin!Justifications
        <3> QED
            BY <1>2, <1>5, <3>1, <3>2, <3>3 DEF Justified, FinalityInv
    <2> QED
        BY <1>7, <2>1, <2>2 DEF Fin!Init
<1> QED
    BY <1>1, <1>2, <1>6, <1>7 DEF FinalityInv

LEMMA FinalityStep == FinalityInv /\ [CNext]_components_vars => FinalityInv'
<1> SUFFICES ASSUME FinalityInv, [CNext]_components_vars PROVE FinalityInv'
    OBVIOUS
<1>1. [Fin!Next]_finality_vars
    BY FinalitySteps
<1>2. UNCHANGED <<valset, just>>
    BY <1>1 DEF Fin!Next, Fin!Check, Fin!Done, Fin!vars, finality_vars
<1>3. result' = result \/ result' = Fin!CheckFinality(valset, just)
    BY <1>1 DEF Fin!Next, Fin!Check, Fin!Done, Fin!vars, finality_vars
<1>4. Justified'
    BY <1>2 DEF FinalityInv, Justified
<1>5. Fin!Pending' = Fin!Pending
    BY DEF Fin!Pending
<1>6. Fin!CheckFinality(valset, just)' = Fin!CheckFinality(valset, just)
    BY <1>2
<1> QED
    BY <1>3, <1>4, <1>5, <1>6 DEF FinalityInv

(* check_finality accepts a justification exactly when more than two       *)
(* thirds of the distinct validators support its target by their first     *)
(* precommit, whatever the size of the set, the precommits, their order    *)
(* and the shape of the ancestries, cyclic ones included.                  *)
THEOREM SupermajorityDecides == CSpec => []AcceptedIffSupermajority
<1>1. FinalityInv => AcceptedIffSupermajority
    <2> SUFFICES ASSUME FinalityInv, result # Fin!Pending
                 PROVE  result.ok <=> 3 * Cardinality(Supporters) > 2 * Cardinality(valset.validator_set)
        BY DEF AcceptedIffSupermajority, Fin!AcceptedIffSupermajority, Supporters,
            Fin!Cardinality, Cardinality
    <2> QED
        BY Decided DEF FinalityInv
<1> QED
    BY <1>1, FinalityStarts, FinalityStep, PTL DEF CSpec

(* A path that meets a block twice can do without the blocks between.      *)
Leads(l, child, parent, root) ==
    l \in Nat /\ l # 0 /\ \E path : Path(path, l, child, parent) /\ path[l] = root

LEMMA PathIsCut ==
    ASSUME NEW child, NEW parent, NEW n \in Nat, NEW path, Path(path, n, child, parent),
           NEW i \in Nat, NEW j \in Nat, i < j, j < n, path[i] = path[j]
    PROVE  \E l \in Nat : l < n /\ Leads(l, child, parent, path[n])
<1> DEFINE l == n - (j - i)
           cut == [k \in 0 .. l |-> IF k <= i THEN path[k] ELSE path[k + (j - i)]]
<1>1. l \in Nat /\ i < l /\ l + (j - i) = n
    OBVIOUS
<1>2. \A k \in 0 .. l : k <= i => cut[k] = path[k]
    OBVIOUS
<1>3. \A k \in 0 .. l : ~(k <= i) => cut[k] = path[k + (j - i)]
    OBVIOUS
<1>4. i + (j - i) = j
    OBVIOUS
<1> HIDE DEF cut, l
<1>5. \A k \in 0 .. l : k >= i => cut[k] = path[k + (j - i)]
    BY <1>1, <1>2, <1>3, <1>4
<1>6. cut[0] = child
    BY <1>1, <1>2 DEF Path
<1>7. ASSUME NEW k \in 1 .. l PROVE cut[k - 1] \in DOMAIN parent /\ cut[k] = parent[cut[k - 1]]
    <2>0. k \in 0 .. l /\ k - 1 \in 0 .. l /\ k \in Nat
        BY <1>1
    <2>1. CASE k <= i
        <3>1. cut[k] = path[k] /\ cut[k - 1] = path[k - 1] /\ k \in 1 .. n
            BY <1>2, <2>0, <2>1
        <3> QED
            BY <3>1 DEF Path
    <2>2. CASE ~(k <= i)
        <3>1. k - 1 >= i /\ k >= i /\ k + (j - i) \in 1 .. n /\ (k - 1) + (j - i) = (k + (j - i)) - 1
            BY <1>1, <2>0, <2>2
        <3>2. cut[k] = path[k + (j - i)] /\ cut[k - 1] = path[(k + (j - i)) - 1]
            BY <1>5, <2>0, <3>1
        <3> QED
            BY <3>1, <3>2 DEF Path
    <2> QED
        BY <2>1, <2>2
<1>8. cut[l] = path[n]
    <2>1. l \in 0 .. l /\ l >= i
        BY <1>1
    <2> QED
        BY <1>1, <1>5, <2>1
<1> QED
    <2>1. Path(cut, l, child, parent)
        BY <1>6, <1>7 DEF Path
    <2>2. l < n /\ l # 0
        BY <1>1 DEF l
    <2> QED
        BY <1>1, <1>8, <2>1, <2>2 DEF Leads

(* confirm_ancestry gives up after as many hops as there are ancestries.   *)
(* That rejects no descendant: whatever path along the ancestries leads    *)
(* from the target of a vote to the target of the justification, however   *)
(* long it is and though the ancestries have cycles, it is confirmed.      *)
THEOREM HopsSuffice ==
    ASSUME NEW S \in SUBSET AncestryBlocks, NEW parent \in [S -> AncestryBlocks],
           NEW child \in AncestryBlocks, NEW root \in AncestryBlocks,
           NEW n \in Nat, NEW path, Path(path, n, child, parent), path[n] = root
    PROVE  Fin!ConfirmAncestry(child, root, parent)
<1>0. IsFiniteSet(AncestryBlocks)
    BY ComponentsAssumption DEF Fin!FinalityAssumption, Fin!IsFiniteSet, IsFiniteSet
<1>1. CASE n = 0
    BY <1>1 DEF Path, Fin!ConfirmAncestry
<1>2. CASE n # 0
    <2> DEFINE Lengths == {k \in Nat : Leads(k, child, parent, root)}
    <2>1. n \in Lengths
        BY <1>2 DEF Leads
    <2>2. PICK k \in Lengths : \A l \in Lengths : k <= l
        <3> Lengths \in SUBSET Nat
            OBVIOUS
        <3> HIDE DEF Lengths
        <3> QED
            BY <2>1, LeastNumber
    <2>3. k \in Nat /\ k # 0
        BY DEF Leads
    <2>4. PICK q : Path(q, k, child, parent) /\ q[k] = root
        BY DEF Leads
    <2>5. ASSUME NEW i \in Nat, NEW j \in Nat, i < j, j < k PROVE q[i] # q[j]
        <3> SUFFICES ASSUME q[i] = q[j] PROVE FALSE
            OBVIOUS
        <3>1. Path(q, k, child, parent)
            BY <2>4
        <3>2. PICK l \in Nat : l < k /\ Leads(l, child, parent, q[k])
            <4> HIDE DEF Lengths
            <4> QED
                BY <2>3, <2>5, <3>1, PathIsCut
        <3>3. l \in Lengths /\ ~(k <= l)
            BY <2>3, <2>4, <3>2
        <3> QED
            BY <2>2, <3>3
    <2>6. \A i \in 1 .. k : q[i - 1] \in S /\ q[i] = parent[q[i - 1]]
        BY <2>4 DEF Path
    <2> HIDE DEF Lengths
    <2> DEFINE visited == [i \in 1 .. k |-> q[i - 1]]
    <2>7. visited \in Injection(1 .. k, S)
        <3>1. visited \in [1 .. k -> S]
            BY <2>6
        <3>2. ASSUME NEW i \in 1 .. k, NEW j \in 1 .. k, visited[i] = visited[j] PROVE i = j
            <4>1. i - 1 \in Nat /\ j - 1 \in Nat /\ i - 1 < k /\ j - 1 < k /\ i \in Nat /\ j \in Nat
                BY <2>3
            <4>2. q[i - 1] = q[j - 1]
                BY <3>2
            <4>3. ~(i - 1 < j - 1) /\ ~(j - 1 < i - 1)
                BY <2>5, <4>1, <4>2
            <4> QED
                BY <4>1, <4>3
        <3> HIDE DEF visited
        <3>3. IsInjective(visited)
            BY <3>1, <3>2 DEF IsInjective
        <3> QED
            BY <3>1, <3>3 DEF Injection
    <2>8. k <= Cardinality(S)
        <3>1. IsFiniteSet(S)
            BY <1>0, FS_Subset
        <3>2. Cardinality(1 .. k) <= Cardinality(S)
            BY <2>7, <3>1, FS_Injection
        <3>3. Cardinality(1 .. k) = k
            BY <2>3, FS_Interval
        <3> QED
            BY <3>2, <3>3
    <2>9. root \in Fin!Ancestors(child, parent)
        <3> DEFINE short == [i \in 0 .. k |-> q[i]]
                   R == {<<b, parent[b]>> : b \in DOMAIN parent}
        <3>1. \A i \in 0 .. k : q[i] \in AncestryBlocks
            <4> SUFFICES ASSUME NEW i \in 0 .. k PROVE q[i] \in AncestryBlocks
                OBVIOUS
            <4>1. CASE i = 0
                BY <2>4, <4>1 DEF Path
            <4>2. CASE i # 0
                <5>1. i \in 1 .. k
                    BY <4>2
                <5> QED
                    BY <2>6, <5>1
            <4> QED
                BY <4>1, <4>2
        <3>2. short \in [0 .. k -> AncestryBlocks]
            BY <3>1
        <3>3. 0 \in 0 .. k /\ k \in 0 .. k /\ 1 \in 1 .. k
              /\ \A i \in 1 .. k : i \in 0 .. k /\ i - 1 \in 0 .. k
            BY <2>3
        <3>4. \A i \in 0 .. k : short[i] = q[i]
            OBVIOUS
        <3> HIDE DEF short
        <3>5. short[0] = child /\ short[k] = root
            BY <2>4, <3>3, <3>4 DEF Path
        <3>6. \A i \in 1 .. k : <<short[i - 1], short[i]>> \in R
            BY <2>6, <3>3, <3>4
        <3>7. child \in S
            <4>1. q[1 - 1] \in S
                BY <2>6, <3>3
            <4> QED
                BY <2>4, <4>1 DEF Path
        <3>8. DOMAIN parent \cup {child} = S
            BY <3>7
        <3>9. k \in 1 .. Cardinality(DOMAIN parent \cup {child})
            <4>1. Cardinality(S) \in Nat
                BY <1>0, FS_Subset, FS_CardinalityType
            <4> QED
                BY <2>3, <2>8, <3>8, <4>1
        <3> QED
            BY <3>2, <3>5, <3>6, <3>9 DEF Fin!Ancestors, Cardinality, Fin!Cardinality
    <2> QED
        BY <1>0, <2>9, AncestryIsDescent
<1> QED
    BY <1>1, <1>2

-----------------------------------------------------------------------------
(* The statistics of puts. Books are what remains of the puts of a block,  *)
(* now and after each event on its way: a put adds its records, a result   *)
(* takes one, and since they are natural numbers there was one to take.    *)
PutEvents    == [is : {"put"}, block : Blocks, number : Nat \ {0}]
ResultEvents == [is : {"ok", "failed"}, key : Keys]
Statistics   == [total : Nat, remaining : Nat, success : Nat, error : Nat]

Entry(e, b, before, after) ==
    IF e.is = "put" THEN after = before + IF e.block = b THEN e.number ELSE 0
    ELSE before = after + IF BlockOf[e.key] = b THEN 1 ELSE 0

Books(f, q, b, first_entry, last_entry) ==
    /\ f \in [0 .. Len(q) -> Nat]
    /\ f[0] = first_entry /\ f[Len(q)] = last_entry
    /\ \A i \in 1 .. Len(q) : Entry(q[i], b, f[i - 1], f[i])

Balanced(q, b, first_entry, last_entry) == \E f : Books(f, q, b, first_entry, last_entry)

LEMMA NoBooks ==
    ASSUME NEW b, NEW m \in Nat
    PROVE  Balanced(<<>>, b, m, m)
<1> DEFINE f == [i \in 0 .. 0 |-> m]
<1>1. f \in [0 .. Len(<<>>) -> Nat] /\ f[0] = m /\ f[Len(<<>>)] = m /\ 1 .. Len(<<>>) = {}
    OBVIOUS
<1> HIDE DEF f
<1> QED
    BY <1>1 DEF Balanced, Books

(* One more event.                                                         *)
LEMMA BooksGrow ==
    ASSUME NEW T, NEW q \in Seq(T), NEW e \in T, NEW b, NEW m, NEW n, Balanced(q, b, m, n),
           NEW l \in Nat, Entry(e, b, n, l)
    PROVE  Balanced(Append(q, e), b, m, l)
<1>1. PICK f : Books(f, q, b, m, n)
    BY DEF Balanced
<1> DEFINE longer == Append(q, e)
           g == [i \in 0 .. Len(q) + 1 |-> IF i = Len(q) + 1 THEN l ELSE f[i]]
<1>2. Len(q) \in Nat /\ Len(longer) = Len(q) + 1 /\ longer[Len(q) + 1] = e
      /\ \A i \in 1 .. Len(q) : longer[i] = q[i]
    OBVIOUS
<1>3. \A i \in 0 .. Len(q) : i # Len(q) + 1 /\ i \in 0 .. Len(q) + 1
    BY <1>2
<1>4. g[Len(q) + 1] = l /\ \A i \in 0 .. Len(q) : g[i] = f[i]
    BY <1>2, <1>3
<1>5. g \in [0 .. Len(q) + 1 -> Nat]
    <2>1. \A i \in 0 .. Len(q) + 1 : i # Len(q) + 1 => i \in 0 .. Len(q)
        BY <1>2
    <2>2. \A i \in 0 .. Len(q) : f[i] \in Nat
        BY <1>1 DEF Books
    <2> QED
        BY <2>1, <2>2
<1> HIDE DEF g, longer
<1>6. ASSUME NEW i \in 1 .. Len(longer) PROVE Entry(longer[i], b, g[i - 1], g[i])
    <2>1. CASE i = Len(q) + 1
        <3>1. i - 1 = Len(q) /\ Len(q) \in 0 .. Len(q)
            BY <1>2, <2>1
        <3>2. g[i - 1] = n
            BY <1>1, <1>4, <3>1 DEF Books
        <3> QED
            BY <1>2, <1>4, <2>1, <3>2
    <2>2. CASE i # Len(q) + 1
        <3>1. i \in 1 .. Len(q) /\ i \in 0 .. Len(q) /\ i - 1 \in 0 .. Len(q)
            BY <1>2, <2>2
        <3>2. Entry(q[i], b, f[i - 1], f[i])
            BY <1>1, <3>1 DEF Books
        <3> QED
            BY <1>2, <1>4, <3>1, <3>2
    <2> QED
        BY <2>1, <2>2
<1>7. g[0] = m
    <2>1. 0 \in 0 .. Len(q)
        BY <1>2
    <2> QED
        BY <1>1, <1>4, <2>1 DEF Books
<1>8. Books(g, longer, b, m, l)
    BY <1>2, <1>4, <1>5, <1>6, <1>7 DEF Books
<1> QED
    BY <1>8 DEF Balanced, longer

(* The first event is dealt with.                                          *)
LEMMA BooksShift ==
    ASSUME NEW T, NEW q \in Seq(T), q # <<>>, NEW b, NEW m, NEW n, Balanced(q, b, m, n)
    PROVE  \E l \in Nat : Entry(Head(q), b, m, l) /\ Balanced(Tail(q), b, l, n)
<1>1. PICK f : Books(f, q, b, m, n)
    BY DEF Balanced
<1> DEFINE rest == Tail(q)
           g == [i \in 0 .. Len(q) - 1 |-> f[i + 1]]
<1>2. Len(q) \in Nat /\ Len(q) >= 1 /\ Len(rest) = Len(q) - 1 /\ Head(q) = q[1]
      /\ \A i \in 1 .. Len(q) - 1 : rest[i] = q[i + 1]
    OBVIOUS
<1>3. \A i \in 0 .. Len(q) - 1 : g[i] = f[i + 1]
    OBVIOUS
<1>4. g \in [0 .. Len(q) - 1 -> Nat]
    <2>1. \A i \in 0 .. Len(q) - 1 : i + 1 \in 0 .. Len(q)
        BY <1>2
    <2>2. \A i \in 0 .. Len(q) : f[i] \in Nat
        BY <1>1 DEF Books
    <2> QED
        BY <2>1, <2>2
<1> HIDE DEF g, rest
<1>5. ASSUME NEW i \in 1 .. Len(rest) PROVE Entry(rest[i], b, g[i - 1], g[i])
    <2>1. i \in 0 .. Len(q) - 1 /\ i - 1 \in 0 .. Len(q) - 1 /\ (i - 1) + 1 = i
          /\ i + 1 \in 1 .. Len(q) /\ (i + 1) - 1 = i /\ i \in 1 .. Len(q) - 1
        BY <1>2
    <2>2. Entry(q[i + 1], b, f[i], f[i + 1])
        BY <1>1, <2>1 DEF Books
    <2>3. g[i - 1] = f[i] /\ g[i] = f[i + 1] /\ rest[i] = q[i + 1]
        BY <1>2, <1>3, <2>1
    <2> QED
        BY <2>2, <2>3
<1>6. g[0] = f[1] /\ g[Len(rest)] = n
    <2>1. 0 \in 0 .. Len(q) - 1 /\ 0 + 1 = 1 /\ Len(q) - 1 \in 0 .. Len(q) - 1 /\ (Len(q) - 1) + 1 = Len(q)
        BY <1>2
    <2>2. g[0] = f[1] /\ g[Len(q) - 1] = f[Len(q)]
        BY <1>3, <2>1
    <2> QED
        BY <1>1, <1>2, <2>2 DEF Books
<1>7. f[1] \in Nat /\ Entry(Head(q), b, m, f[1])
    <2>1. 1 \in 1 .. Len(q) /\ 1 \in 0 .. Len(q) /\ 1 - 1 = 0
        BY <1>2
    <2>2. Entry(q[1], b, f[1 - 1], f[1])
        BY <1>1, <2>1 DEF Books
    <2> QED
        BY <1>1, <1>2, <2>1, <2>2 DEF Books
<1>8. Books(g, rest, b, f[1], n)
    BY <1>2, <1>4, <1>5, <1>6 DEF Books
<1>9. Balanced(Tail(q), b, f[1], n)
    BY <1>8 DEF Balanced, rest
<1> QED
    BY <1>7, <1>9

Remaining(b) == IF active_blocks[b] = NoStat THEN 0 ELSE active_blocks[b].remaining
Underway(b)  == {q \in Keys \X Nat : BlockOf[q[1]] = b /\ q[2] \in 1 .. queries[q[1]]}

(* The statistics are of what is not done, and the books of each block     *)
(* leave a result for every query that is under way.                       *)
StatsTyped ==
    /\ output \in Seq(PutEvents \cup ResultEvents)
    /\ DOMAIN active_blocks = Blocks
    /\ \A b \in Blocks : LET s == active_blocks[b] IN
          s # NoStat => /\ s \in Statistics /\ s.remaining >= 1
                        /\ s.total = s.remaining + s.success + s.error
Accounted(b) ==
    /\ IsFiniteSet(Underway(b))
    /\ \E n \in Nat : n >= Cardinality(Underway(b)) /\ Balanced(output, b, Remaining(b), n)
StatsInv == NodeTyped /\ StatsTyped /\ \A b \in Blocks : Accounted(b)

LEMMA StatsStart == Kad!Init => StatsInv
<1> SUFFICES ASSUME Kad!Init PROVE StatsInv
    OBVIOUS
<1>1. NodeTyped
    BY NodeInit
<1>2. StatsTyped
    <2>1. <<>> \in Seq(PutEvents \cup ResultEvents)
        OBVIOUS
    <2> QED
        BY <2>1 DEF Kad!Init, StatsTyped
<1>3. ASSUME NEW b \in Blocks PROVE Accounted(b)
    <2>1. Underway(b) = {}
        BY DEF Kad!Init, Underway
    <2>2. IsFiniteSet(Underway(b)) /\ Cardinality(Underway(b)) = 0
        BY <2>1, FS_EmptySet
    <2>3. Balanced(output, b, Remaining(b), 0)
        BY NoBooks DEF Kad!Init, Remaining
    <2> QED
        BY <2>2, <2>3 DEF Accounted
<1> QED
    BY <1>1, <1>2, <1>3 DEF StatsInv

(* A put of keys of one block, of which those in asked have a query.        *)
LEMMA PutIsAccounted ==
    ASSUME StatsInv, NEW c \in Blocks, NEW ks \in SUBSET Keys, ks # {}, NEW asked \in SUBSET ks,
           \A k \in ks : BlockOf[k] = c,
           queries' = [k \in Keys |-> queries[k] + IF k \in asked THEN 1 ELSE 0],
           output' = Kad!Announce(c, Kad!Cardinality(ks)), UNCHANGED active_blocks
    PROVE  StatsTyped' /\ \A b \in Blocks : Accounted(b)'
<1> DEFINE size == Cardinality(ks)
           e == [is |-> "put", block |-> c, number |-> size]
           new == {<<k, queries[k] + 1>> : k \in asked}
<1>0. IsFiniteSet(ks) /\ IsFiniteSet(asked) /\ size \in Nat \ {0} /\ Cardinality(asked) <= size
      /\ Cardinality(asked) \in Nat
    <2>1. IsFiniteSet(Keys)
        BY ComponentsAssumption DEF Kad!KadNodeAssumption, Kad!IsFiniteSet, IsFiniteSet
    <2> QED
        BY <2>1, FS_Subset, FS_CardinalityType, FS_EmptySet
<1>1. output' = Append(output, e)
    BY DEF Kad!Announce, Kad!Cardinality, Cardinality
<1>2. e \in PutEvents \cup ResultEvents
    <2> HIDE DEF size
    <2> QED
        BY <1>0 DEF PutEvents
<1>3. queries \in [Keys -> Nat] /\ output \in Seq(PutEvents \cup ResultEvents)
    BY DEF StatsInv, NodeTyped, StatsTyped
<1>4. IsFiniteSet(new) /\ Cardinality(new) <= Cardinality(asked) /\ Cardinality(new) \in Nat
    <2> DEFINE token == [k \in asked |-> <<k, queries[k] + 1>>]
    <2>1. token \in Surjection(asked, new)
        BY DEF Surjection
    <2> HIDE DEF token, new
    <2> QED
        BY <1>0, <2>1, FS_Surjection, FS_CardinalityType
<1>5. StatsTyped'
    <2> HIDE DEF e
    <2>1. output' \in Seq(PutEvents \cup ResultEvents)
        BY <1>1, <1>2, <1>3
    <2> QED
        BY <2>1 DEF StatsInv, StatsTyped
<1>6. ASSUME NEW b \in Blocks PROVE Accounted(b)'
    <2>1. IsFiniteSet(Underway(b)) /\ Cardinality(Underway(b)) \in Nat
        BY FS_CardinalityType DEF StatsInv, Accounted
    <2>2. PICK n \in Nat : n >= Cardinality(Underway(b)) /\ Balanced(output, b, Remaining(b), n)
        BY DEF StatsInv, Accounted
    <2>3. Remaining(b)' = Remaining(b)
        BY DEF Remaining
    <2> DEFINE l == n + IF c = b THEN size ELSE 0
    <2>4. Balanced(output', b, Remaining(b)', l) /\ l \in Nat
        <3>1. Entry(e, b, n, l)
            <4> HIDE DEF size
            <4> QED
                BY DEF Entry
        <3>2. l \in Nat
            BY <1>0
        <3>3. Balanced(Append(output, e), b, Remaining(b), l)
            <4> HIDE DEF e, l
            <4> QED
                BY <1>2, <1>3, <2>2, <3>1, <3>2, BooksGrow
        <3> HIDE DEF e, l
        <3> QED
            BY <1>1, <2>3, <3>2, <3>3
    <2>5. CASE c = b
        <3>1. Underway(b)' \subseteq Underway(b) \cup new
            BY <1>3 DEF Underway
        <3>2. IsFiniteSet(Underway(b) \cup new)
              /\ Cardinality(Underway(b) \cup new) <= Cardinality(Underway(b)) + Cardinality(new)
            <4>1. IsFiniteSet(Underway(b) \cap new)
                BY <2>1, FS_Subset
            <4> HIDE DEF new
            <4>2. Cardinality(Underway(b) \cap new) \in Nat
                BY <4>1, FS_CardinalityType
            <4>3. IsFiniteSet(Underway(b) \cup new)
                  /\ Cardinality(Underway(b) \cup new) =
                        Cardinality(Underway(b)) + Cardinality(new) - Cardinality(Underway(b) \cap new)
                BY <1>4, <2>1, FS_Union
            <4> QED
                BY <1>4, <2>1, <4>2, <4>3
        <3> HIDE DEF new
        <3>3. IsFiniteSet(Underway(b)') /\ Cardinality(Underway(b)') <= Cardinality(Underway(b) \cup new)
              /\ Cardinality(Underway(b)') \in Nat /\ Cardinality(Underway(b) \cup new) \in Nat
            BY <3>1, <3>2, FS_Subset, FS_CardinalityType
        <3>4. l >= Cardinality(Underway(b)')
            <4> HIDE DEF size
            <4> QED
                BY <1>0, <1>4, <2>1, <2>2, <2>5, <3>2, <3>3
        <3> HIDE DEF l
        <3> QED
            BY <2>4, <3>3, <3>4 DEF Accounted
    <2>6. CASE c # b
        <3>1. Underway(b)' = Underway(b)
            BY <1>3, <2>6 DEF Underway
        <3>2. IsFiniteSet(Underway(b)') /\ l >= Cardinality(Underway(b)')
            <4>1. l = n
                BY <2>6
            <4> HIDE DEF l
            <4> QED
                BY <2>1, <2>2, <3>1, <4>1
        <3> HIDE DEF l
        <3> QED
            BY <2>4, <3>2 DEF Accounted
    <2> QED
        BY <2>5, <2>6
<1> QED
    BY <1>5, <1>6

(* The end of a query, reported as ok or failed.                           *)
LEMMA EndIsAccounted ==
    ASSUME StatsInv, NEW k \in Keys, NEW ok \in BOOLEAN, Kad!PutEnds(k, ok)
    PROVE  StatsTyped' /\ \A b \in Blocks : Accounted(b)'
<1> DEFINE e == [is |-> IF ok THEN "ok" ELSE "failed", key |-> k]
<1>1. queries[k] > 0 /\ queries' = [queries EXCEPT ![k] = @ - 1]
      /\ output' = Append(output, e) /\ UNCHANGED active_blocks
    BY DEF Kad!PutEnds
<1>2. e \in PutEvents \cup ResultEvents /\ e.is # "put" /\ e.key = k
    BY DEF ResultEvents
<1>3. queries \in [Keys -> Nat] /\ output \in Seq(PutEvents \cup ResultEvents)
    BY DEF StatsInv, NodeTyped, StatsTyped
<1> HIDE DEF e
<1>4. StatsTyped'
    <2>1. output' \in Seq(PutEvents \cup ResultEvents)
        BY <1>1, <1>2, <1>3
    <2> QED
        BY <1>1, <2>1 DEF StatsInv, StatsTyped
<1>5. ASSUME NEW b \in Blocks PROVE Accounted(b)'
    <2>1. IsFiniteSet(Underway(b)) /\ Cardinality(Underway(b)) \in Nat
        BY FS_CardinalityType DEF StatsInv, Accounted
    <2>2. PICK n \in Nat : n >= Cardinality(Underway(b)) /\ Balanced(output, b, Remaining(b), n)
        BY DEF StatsInv, Accounted
    <2>3. Remaining(b)' = Remaining(b)
        BY <1>1 DEF Remaining
    <2>4. ASSUME NEW l \in Nat, Entry(e, b, n, l) PROVE Balanced(output', b, Remaining(b)', l)
        BY <1>1, <1>2, <1>3, <2>2, <2>3, <2>4, BooksGrow
    <2>5. CASE BlockOf[k] = b
        <3> DEFINE token == <<k, queries[k]>>
        <3>1. token \in Underway(b)
            BY <1>1, <1>3, <2>5 DEF Underway
        <3>2. Underway(b)' = Underway(b) \ {token}
            BY <1>1, <1>3 DEF Underway
        <3> HIDE DEF token
        <3>3. IsFiniteSet(Underway(b)') /\ Cardinality(Underway(b)') = Cardinality(Underway(b)) - 1
              /\ Cardinality(Underway(b)') \in Nat
            BY <2>1, <3>1, <3>2, FS_RemoveElement, FS_CardinalityType
        <3>4. n - 1 \in Nat /\ n - 1 >= Cardinality(Underway(b)') /\ n = (n - 1) + 1
            BY <2>1, <2>2, <3>3
        <3>5. Entry(e, b, n, n - 1)
            BY <1>2, <2>5, <3>4 DEF Entry
        <3>6. Balanced(output', b, Remaining(b)', n - 1)
            BY <2>4, <3>4, <3>5
        <3> QED
            BY <3>3, <3>4, <3>6 DEF Accounted
    <2>6. CASE BlockOf[k] # b
        <3>1. Underway(b)' = Underway(b)
            BY <1>1, <1>3, <2>6 DEF Underway
        <3>2. Entry(e, b, n, n)
            BY <1>2, <2>6 DEF Entry
        <3>3. Balanced(output', b, Remaining(b)', n)
            BY <2>2, <2>4, <3>2
        <3> QED
            BY <2>1, <2>2, <3>1, <3>3 DEF Accounted
    <2> QED
        BY <2>5, <2>6
<1> QED
    BY <1>4, <1>5

(* The event at the head is expected: what it takes is there.              *)
LEMMA HeadIsExpected ==
    ASSUME StatsInv, output # <<>>, NEW b \in Blocks
    PROVE  \E l \in Nat : \E n \in Nat :
              /\ Entry(Head(output), b, Remaining(b), l) /\ Balanced(Tail(output), b, l, n)
              /\ n >= Cardinality(Underway(b))
<1>1. output \in Seq(PutEvents \cup ResultEvents)
    BY DEF StatsInv, StatsTyped
<1>2. PICK n \in Nat : n >= Cardinality(Underway(b)) /\ Balanced(output, b, Remaining(b), n)
    BY DEF StatsInv, Accounted
<1>3. PICK l \in Nat : Entry(Head(output), b, Remaining(b), l) /\ Balanced(Tail(output), b, l, n)
    BY <1>1, <1>2, BooksShift
<1> QED
    BY <1>2, <1>3

LEMMA HeadIsTyped ==
    ASSUME StatsInv, output # <<>>
    PROVE  /\ Head(output) \in PutEvents \cup ResultEvents
           /\ Tail(output) \in Seq(PutEvents \cup ResultEvents)
<1>1. output \in Seq(PutEvents \cup ResultEvents)
    BY DEF StatsInv, StatsTyped
<1> QED
    BY <1>1

(* What the two handlers make of an entry.                                 *)
Kept(s) == s # NoStat => /\ s \in Statistics /\ s.remaining >= 1
                         /\ s.total = s.remaining + s.success + s.error
Left(s) == IF s = NoStat THEN 0 ELSE s.remaining

LEMMA NewPutKeeps ==
    ASSUME NEW b \in Blocks, NEW n \in Nat \ {0}, DOMAIN active_blocks = Blocks, Kept(active_blocks[b])
    PROVE  /\ DOMAIN Kad!NewPut(b, n) = Blocks
           /\ \A c \in Blocks : c # b => Kad!NewPut(b, n)[c] = active_blocks[c]
           /\ Kept(Kad!NewPut(b, n)[b])
           /\ Left(Kad!NewPut(b, n)[b]) = Left(active_blocks[b]) + n
<1> DEFINE s == active_blocks[b]
           t == Kad!NewPut(b, n)[b]
<1>1. DOMAIN Kad!NewPut(b, n) = Blocks /\ \A c \in Blocks : c # b => Kad!NewPut(b, n)[c] = active_blocks[c]
    BY DEF Kad!NewPut
<1>2. t = IF s = NoStat THEN [total |-> n, remaining |-> n, success |-> 0, error |-> 0]
          ELSE [s EXCEPT !.total = @ + n, !.remaining = @ + n]
    BY DEF Kad!NewPut
<1>3. NoStat \notin Statistics
    BY ComponentsAssumption DEF Kad!KadNodeAssumption, Statistics
<1> HIDE DEF s, t
<1>4. t \in Statistics /\ t.remaining >= 1 /\ t.total = t.remaining + t.success + t.error
      /\ t.remaining = Left(s) + n
    <2>1. CASE s = NoStat
        BY <1>2, <2>1 DEF Statistics, Left
    <2>2. CASE s # NoStat
        <3>1. s \in Statistics /\ s.remaining >= 1 /\ s.total = s.remaining + s.success + s.error
            BY <2>2 DEF Kept, s
        <3>2. t = [total |-> s.total + n, remaining |-> s.remaining + n, success |-> s.success, error |-> s.error]
            BY <1>2, <2>2, <3>1 DEF Statistics
        <3> QED
            BY <2>2, <3>1, <3>2 DEF Statistics, Left
    <2> QED
        BY <2>1, <2>2
<1> QED
    BY <1>1, <1>3, <1>4 DEF Kept, Left, s, t

LEMMA ResultKeeps ==
    ASSUME NEW b \in Blocks, NEW ok \in BOOLEAN, DOMAIN active_blocks = Blocks, Kept(active_blocks[b]),
           active_blocks[b] # NoStat
    PROVE  /\ DOMAIN Kad!process_put_record_result(b, ok) = Blocks
           /\ \A c \in Blocks : c # b => Kad!process_put_record_result(b, ok)[c] = active_blocks[c]
           /\ Kept(Kad!process_put_record_result(b, ok)[b])
           /\ Left(active_blocks[b]) = Left(Kad!process_put_record_result(b, ok)[b]) + 1
<1> DEFINE s == active_blocks[b]
           t == Kad!Counted(s, ok)
<1>1. s \in Statistics /\ s.remaining >= 1 /\ s.total = s.remaining + s.success + s.error
    BY DEF Kept
<1>2. Kad!process_put_record_result(b, ok) =
          [active_blocks EXCEPT ![b] = IF t.remaining = 0 THEN NoStat ELSE t]
    BY DEF Kad!process_put_record_result
<1>3. NoStat \notin Statistics
    BY ComponentsAssumption DEF Kad!KadNodeAssumption, Statistics
<1> HIDE DEF s
<1>4. t = [total |-> s.total, remaining |-> s.remaining - 1,
           success |-> s.success + IF ok THEN 1 ELSE 0, error |-> s.error + IF ok THEN 0 ELSE 1]
    <2>1. t = [[[s EXCEPT !.remaining = s.remaining - 1]
                  EXCEPT !.success = s.success + IF ok THEN 1 ELSE 0]
                  EXCEPT !.error = s.error + IF ok THEN 0 ELSE 1]
        BY <1>1 DEF Kad!Counted, Statistics
    <2> HIDE DEF t
    <2> QED
        BY <1>1, <2>1 DEF Statistics
<1>5. t \in Statistics /\ t.total = t.remaining + t.success + t.error /\ s.remaining = t.remaining + 1
    <2>1. CASE ok
        BY <1>1, <1>4, <2>1 DEF Statistics
    <2>2. CASE ~ok
        BY <1>1, <1>4, <2>2 DEF Statistics
    <2> QED
        BY <2>1, <2>2
<1> HIDE DEF t
<1>6. Left(s) = s.remaining
    BY DEF Left, s
<1>7. CASE t.remaining = 0
    BY <1>1, <1>2, <1>5, <1>6, <1>7 DEF Kept, Left, s
<1>8. CASE t.remaining # 0
    <2>1. t.remaining >= 1
        BY <1>5, <1>8 DEF Statistics
    <2> QED
        BY <1>1, <1>2, <1>3, <1>5, <1>6, <1>8, <2>1 DEF Kept, Left, s
<1> QED
    BY <1>7, <1>8

(* ClientState takes an event.                                             *)
LEMMA EventIsAccounted ==
    ASSUME StatsInv, Kad!HandleEvent
    PROVE  StatsTyped' /\ \A b \in Blocks : Accounted(b)'
<1> DEFINE e == Head(output)
<1>0. output # <<>> /\ output' = Tail(output) /\ UNCHANGED queries
    BY DEF Kad!HandleEvent
<1>1. e \in PutEvents \cup ResultEvents /\ output' \in Seq(PutEvents \cup ResultEvents)
    BY <1>0, HeadIsTyped
<1>2. active_blocks' = IF e.is = "put" THEN Kad!NewPut(e.block, e.number)
                       ELSE Kad!process_put_record_result(BlockOf[e.key], e.is = "ok")
    BY DEF Kad!HandleEvent
<1>3. DOMAIN active_blocks = Blocks /\ \A b \in Blocks : Kept(active_blocks[b])
    BY DEF StatsInv, StatsTyped, Kept
<1>4. \A b \in Blocks : Remaining(b) = Left(active_blocks[b]) /\ Remaining(b)' = Left(active_blocks'[b])
    BY DEF Remaining, Left
<1>5. \A b \in Blocks : \E l \in Nat : Entry(e, b, Left(active_blocks[b]), l)
    BY <1>0, <1>4, HeadIsExpected
<1>6. \A b \in Blocks : Left(active_blocks[b]) \in Nat
    BY <1>3 DEF Kept, Left, Statistics
<1> HIDE DEF e
<1>7. /\ DOMAIN active_blocks' = Blocks /\ \A b \in Blocks : Kept(active_blocks'[b])
      /\ \A b \in Blocks : \A l \in Nat :
            Entry(e, b, Left(active_blocks[b]), l) => Left(active_blocks'[b]) = l
    <2>1. CASE e.is = "put"
        <3>1. e.block \in Blocks /\ e.number \in Nat \ {0}
            BY <1>1, <2>1 DEF PutEvents, ResultEvents
        <3>2. /\ DOMAIN active_blocks' = Blocks
              /\ \A c \in Blocks : c # e.block => active_blocks'[c] = active_blocks[c]
              /\ Kept(active_blocks'[e.block])
              /\ Left(active_blocks'[e.block]) = Left(active_blocks[e.block]) + e.number
            BY <1>2, <1>3, <2>1, <3>1, NewPutKeeps
        <3>3. \A b \in Blocks : Kept(active_blocks'[b])
            BY <1>3, <3>2
        <3>4. ASSUME NEW b \in Blocks, NEW l \in Nat, Entry(e, b, Left(active_blocks[b]), l)
              PROVE  Left(active_blocks'[b]) = l
            <4>1. CASE b = e.block
                BY <2>1, <3>2, <3>4, <4>1 DEF Entry
            <4>2. CASE b # e.block
                BY <1>6, <2>1, <3>2, <3>4, <4>2 DEF Entry
            <4> QED
                BY <4>1, <4>2
        <3> QED
            BY <3>2, <3>3, <3>4
    <2>2. CASE e.is # "put"
        <3> DEFINE c == BlockOf[e.key]
        <3>1. c \in Blocks
            BY <1>1, <2>2, ComponentsAssumption DEF Kad!KadNodeAssumption, PutEvents, ResultEvents
        <3> HIDE DEF c
        <3>2. PICK l \in Nat : Left(active_blocks[c]) = l + 1
            <4>1. PICK l \in Nat : Entry(e, c, Left(active_blocks[c]), l)
                BY <1>5, <3>1
            <4> QED
                BY <2>2, <4>1 DEF Entry, c
        <3>3. active_blocks[c] # NoStat
            BY <3>2 DEF Left
        <3>4. /\ DOMAIN active_blocks' = Blocks
              /\ \A d \in Blocks : d # c => active_blocks'[d] = active_blocks[d]
              /\ Kept(active_blocks'[c])
              /\ Left(active_blocks[c]) = Left(active_blocks'[c]) + 1
            <4>1. active_blocks' = Kad!process_put_record_result(c, e.is = "ok")
                BY <1>2, <2>2 DEF c
            <4>2. (e.is = "ok") \in BOOLEAN
                OBVIOUS
            <4> QED
                BY <1>3, <3>1, <3>3, <4>1, <4>2, ResultKeeps
        <3>5. \A b \in Blocks : Kept(active_blocks'[b])
            BY <1>3, <3>4
        <3>6. ASSUME NEW b \in Blocks, NEW m \in Nat, Entry(e, b, Left(active_blocks[b]), m)
              PROVE  Left(active_blocks'[b]) = m
            <4>1. CASE b = c
                <5>1. Left(active_blocks[c]) = m + 1
                    BY <2>2, <3>6, <4>1 DEF Entry, c
                <5>2. Left(active_blocks'[c]) \in Nat
                    BY <3>1, <3>5 DEF Kept, Left, Statistics
                <5> QED
                    BY <3>4, <4>1, <5>1, <5>2
            <4>2. CASE b # c
                <5>1. Left(active_blocks[b]) = m
                    BY <2>2, <3>6, <4>2 DEF Entry, c
                <5> QED
                    BY <3>4, <4>2, <5>1
            <4> QED
                BY <4>1, <4>2
        <3> QED
            BY <3>4, <3>5, <3>6
    <2> QED
        BY <2>1, <2>2
<1>8. StatsTyped'
    BY <1>1, <1>7 DEF StatsTyped, Kept
<1>9. ASSUME NEW b \in Blocks PROVE Accounted(b)'
    <2>1. PICK l \in Nat : \E n \in Nat :
              /\ Entry(Head(output), b, Remaining(b), l) /\ Balanced(Tail(output), b, l, n)
              /\ n >= Cardinality(Underway(b))
        BY <1>0, HeadIsExpected
    <2>2. PICK n \in Nat : Balanced(Tail(output), b, l, n) /\ n >= Cardinality(Underway(b))
        BY <2>1
    <2>3. Remaining(b)' = l
        <3>1. Entry(e, b, Left(active_blocks[b]), l)
            BY <1>4, <2>1 DEF e
        <3> QED
            BY <1>4, <1>7, <3>1
    <2>4. Underway(b)' = Underway(b)
        BY <1>0 DEF Underway
    <2>5. IsFiniteSet(Underway(b))
        BY DEF StatsInv, Accounted
    <2> QED
        BY <1>0, <2>2, <2>3, <2>4, <2>5 DEF Accounted
<1> QED
    BY <1>8, <1>9

LEMMA StatsStep == StatsInv /\ [Kad!Next]_(Kad!vars) => StatsInv'
<1> SUFFICES ASSUME StatsInv, [Kad!Next]_(Kad!vars) PROVE StatsTyped' /\ \A b \in Blocks : Accounted(b)'
    BY NodeTypedStep DEF StatsInv
<1>1. ASSUME NEW k \in Keys, NEW ok \in BOOLEAN, Kad!PutEnds(k, ok)
      PROVE  StatsTyped' /\ \A b \in Blocks : Accounted(b)'
    BY <1>1, EndIsAccounted
<1>2. ASSUME NEW c \in Blocks, NEW ks \in SUBSET Keys, Kad!PutRecords(c, ks)
      PROVE  StatsTyped' /\ \A b \in Blocks : Accounted(b)'
    <2>1. PICK asked \in SUBSET ks : queries' = [k \in Keys |-> queries[k] + IF k \in asked THEN 1 ELSE 0]
        BY <1>2 DEF Kad!PutRecords
    <2>2. ks # {} /\ (\A k \in ks : BlockOf[k] = c) /\ output' = Kad!Announce(c, Kad!Cardinality(ks))
          /\ UNCHANGED active_blocks
        BY <1>2 DEF Kad!PutRecords
    <2> QED
        BY <2>1, <2>2, PutIsAccounted
<1>3. ASSUME NEW c \in Blocks, NEW ks \in SUBSET Keys, Kad!PutRecordsTo(c, ks)
      PROVE  StatsTyped' /\ \A b \in Blocks : Accounted(b)'
    <2>1. ks \in SUBSET ks /\ queries' = [k \in Keys |-> queries[k] + IF k \in ks THEN 1 ELSE 0]
        BY <1>3 DEF Kad!PutRecordsTo
    <2>2. ks # {} /\ (\A k \in ks : BlockOf[k] = c) /\ output' = Kad!Announce(c, Kad!Cardinality(ks))
          /\ UNCHANGED active_blocks
        BY <1>3 DEF Kad!PutRecordsTo
    <2> QED
        BY <2>1, <2>2, PutIsAccounted
<1>4. CASE Kad!HandleEvent
    BY <1>4, EventIsAccounted
<1>5. CASE Kad!Restart
    <2>1. queries' = [k \in Keys |-> 0] /\ UNCHANGED <<output, active_blocks>>
        BY <1>5 DEF Kad!Restart
    <2>2. StatsTyped'
        BY <2>1 DEF StatsInv, StatsTyped
    <2>3. ASSUME NEW b \in Blocks PROVE Accounted(b)'
        <3>1. Underway(b)' = {}
            BY <2>1 DEF Underway
        <3>2. IsFiniteSet(Underway(b)') /\ Cardinality(Underway(b)') = 0
            BY <3>1, FS_EmptySet
        <3>3. PICK n \in Nat : Balanced(output, b, Remaining(b), n)
            BY DEF StatsInv, Accounted
        <3>4. Balanced(output', b, Remaining(b)', n)
            BY <2>1, <3>3 DEF Remaining
        <3> QED
            BY <3>2, <3>4 DEF Accounted
    <2> QED
        BY <2>2, <2>3
<1>6. CASE UNCHANGED <<queries, output, active_blocks>>
    <2>1. StatsTyped'
        BY <1>6 DEF StatsInv, StatsTyped
    <2>2. ASSUME NEW b \in Blocks PROVE Accounted(b)'
        <3>1. Underway(b)' = Underway(b) /\ Remaining(b)' = Remaining(b)
            BY <1>6 DEF Underway, Remaining
        <3> QED
            BY <1>6, <3>1 DEF StatsInv, Accounted
    <2> QED
        BY <2>1, <2>2
<1> QED
    BY <1>1, <1>2, <1>3, <1>4, <1>5, <1>6
       DEF Kad!Next, Kad!Tick, Kad!IncomingPut, Kad!IncomingGet, Kad!Prune, Kad!Ended, Kad!vars, Kad!store, Kad!stats

(* The result of a put always finds the statistics of its block, which     *)
(* count what is still to come: however many batches of a block are put,   *)
(* however their queries end, and whatever a restart drops.                *)
THEOREM ResultsFindStatistics == CSpec => []ResultsAreExpected
<1>1. StatsInv => ResultsAreExpected
    <2> SUFFICES ASSUME StatsInv, output # <<>>, Head(output).is # "put"
                 PROVE  LET s == active_blocks[BlockOf[Head(output).key]] IN
                        s # NoStat /\ s.total = s.remaining + s.success + s.error
        BY DEF ResultsAreExpected, Kad!ResultsAreExpected
    <2> DEFINE b == BlockOf[Head(output).key]
    <2>1. Head(output) \in ResultEvents
        BY HeadIsTyped DEF PutEvents
    <2>2. b \in Blocks
        BY <2>1, ComponentsAssumption DEF Kad!KadNodeAssumption, ResultEvents
    <2>3. PICK l \in Nat : Entry(Head(output), b, Remaining(b), l)
        <3> HIDE DEF b
        <3> QED
            BY <2>2, HeadIsExpected
    <2>4. Remaining(b) = l + 1
        BY <2>3 DEF Entry
    <2>5. active_blocks[b] # NoStat
        BY <2>4 DEF Remaining
    <2> QED
        BY <2>2, <2>5 DEF StatsInv, StatsTyped
<1> QED
    BY <1>1, StatsStart, StatsStep, NodeSteps, PTL DEF CSpec

-----------------------------------------------------------------------------
(* The pages of a listing. After k requests the first k pages are seen,    *)
(* and the next one is asked for as long as there is one.                  *)
Upto(items, limit, k) == IF k * limit < Len(items) THEN k * limit ELSE Len(items)
Place(items, limit, k) ==
    [seen |-> SubSeq(items, 1, Upto(items, limit, k)),
     next |-> IF k * limit < Len(items) THEN k + 1 ELSE Mon!NoPage]

LEMMA TotalPagesCover ==
    ASSUME NEW n \in Nat, NEW limit \in Nat \ {0}, NEW p \in Nat
    PROVE  p < Mon!TotalPages(n, limit) <=> p * limit < n
BY DEF Mon!TotalPages

LEMMA FirstPlace ==
    ASSUME NEW T, NEW items \in Seq(T), items # <<>>, NEW limit \in Nat \ {0}
    PROVE  Place(items, limit, 0) = [seen |-> <<>>, next |-> Mon!ValidatePage(0)]
<1>1. Len(items) \in Nat /\ 0 < Len(items) /\ 0 * limit = 0
    OBVIOUS
<1>2. SubSeq(items, 1, 0) = <<>>
    BY SubSeqEmpty
<1> QED
    BY <1>1, <1>2 DEF Place, Upto, Mon!ValidatePage

LEMMA NextPlace ==
    ASSUME NEW T, NEW items \in Seq(T), NEW limit \in Nat \ {0}, NEW k \in Nat
    PROVE  Mon!Follow(Place(items, limit, k), items, limit) = Place(items, limit, k + 1)
<1> DEFINE n == Len(items)
           a == k * limit
           b == (k + 1) * limit
<1>0. n \in Nat /\ a \in Nat /\ b \in Nat /\ b = a + limit
    OBVIOUS
<1>1. /\ Place(items, limit, k) =
            [seen |-> SubSeq(items, 1, IF a < n THEN a ELSE n), next |-> IF a < n THEN k + 1 ELSE Mon!NoPage]
      /\ Place(items, limit, k + 1) =
            [seen |-> SubSeq(items, 1, IF b < n THEN b ELSE n), next |-> IF b < n THEN (k + 1) + 1 ELSE Mon!NoPage]
    BY DEF Place, Upto
<1>2. k + 1 < Mon!TotalPages(n, limit) <=> b < n
    BY TotalPagesCover
<1>3. Mon!PageData(items, k + 1, limit) = SubSeq(items, a + 1, Mon!Min({n, b}))
    <2>1. (k + 1) - 1 = k
        OBVIOUS
    <2> QED
        BY <2>1 DEF Mon!PageData
<1> HIDE DEF n, a, b
<1>4. Mon!Min({n, b}) = IF b < n THEN b ELSE n
    BY <1>0 DEF Mon!Min
<1>5. CASE a < n
    <2> DEFINE c == IF b < n THEN b ELSE n
    <2>1. a \in 0 .. n /\ c \in a .. n /\ 1 \in 1 .. n + 1 /\ 1 - 1 = 0
        BY <1>0, <1>5
    <2> HIDE DEF c
    <2>2. SubSeq(items, 1, a) \o SubSeq(items, a + 1, c) = SubSeq(items, 1, c)
        <3>1. a \in 1 - 1 .. Len(items) /\ c \in a .. Len(items) /\ 1 \in 1 .. Len(items) + 1
            BY <2>1 DEF n
        <3> QED
            BY <3>1, ConcatAdjacentSubSeq
    <2>3. Mon!NextPage(k + 1, n, limit) = IF b < n THEN (k + 1) + 1 ELSE Mon!NoPage
        BY <1>2 DEF Mon!NextPage
    <2>4. k + 1 # Mon!NoPage
        BY DEF Mon!NoPage
    <2>5. Place(items, limit, k) = [seen |-> SubSeq(items, 1, a), next |-> k + 1]
        BY <1>1, <1>5
    <2>6. Mon!Follow(Place(items, limit, k), items, limit) =
            [seen |-> SubSeq(items, 1, a) \o Mon!PageData(items, k + 1, limit),
             next |-> Mon!NextPage(k + 1, n, limit)]
        BY <2>4, <2>5 DEF Mon!Follow, n
    <2> QED
        BY <1>1, <1>3, <1>4, <2>2, <2>3, <2>6 DEF c
<1>6. CASE ~(a < n)
    <2>1. ~(b < n)
        BY <1>0, <1>6
    <2>2. Place(items, limit, k).next = Mon!NoPage /\ Place(items, limit, k) = Place(items, limit, k + 1)
        BY <1>1, <1>6, <2>1
    <2> QED
        BY <2>2 DEF Mon!Follow
<1> QED
    BY <1>5, <1>6

(* The requests lead from place to place.                                  *)
Asked(f, items, limit) ==
    f = [k \in 0 .. Len(items) |->
            IF k = 0 THEN [seen |-> <<>>, next |-> Mon!ValidatePage(0)]
            ELSE Mon!Follow(f[k - 1], items, limit)]

LEMMA RequestsAreMade ==
    ASSUME NEW T, NEW items \in Seq(T), items # <<>>, NEW limit \in Nat \ {0}
    PROVE  \A k \in 0 .. Len(items) : Mon!Requests(items, limit)[k] = Place(items, limit, k)
<1> DEFINE n == Len(items)
           read == CHOOSE f : Asked(f, items, limit)
           f0 == [k \in 0 .. n |-> Place(items, limit, k)]
<1>0. n \in Nat
    OBVIOUS
<1>1. \A k \in 0 .. n : k # 0 => k - 1 \in 0 .. n /\ (k - 1) + 1 = k /\ k - 1 \in Nat
    BY <1>0
<1>2. Mon!Requests(items, limit) = read
    BY DEF Mon!Requests, Asked
<1>3. Asked(f0, items, limit)
    <2>1. ASSUME NEW k \in 0 .. n
          PROVE  f0[k] = IF k = 0 THEN [seen |-> <<>>, next |-> Mon!ValidatePage(0)]
                         ELSE Mon!Follow(f0[k - 1], items, limit)
        <3>1. CASE k = 0
            BY <3>1, FirstPlace
        <3>2. CASE k # 0
            <4>1. f0[k - 1] = Place(items, limit, k - 1)
                BY <1>1, <3>2
            <4>2. Mon!Follow(Place(items, limit, k - 1), items, limit) = Place(items, limit, (k - 1) + 1)
                BY <1>1, <3>2, NextPlace
            <4> QED
                BY <1>1, <3>2, <4>1, <4>2
        <3> QED
            BY <3>1, <3>2
    <2>2. f0 = [k \in 0 .. n |-> f0[k]]
        OBVIOUS
    <2> HIDE DEF f0
    <2> QED
        BY <2>1, <2>2 DEF Asked
<1>4. Asked(read, items, limit)
    <2> HIDE DEF Asked, f0
    <2> QED
        BY <1>3
<1>5. \A k \in 0 .. n : read[k] = IF k = 0 THEN [seen |-> <<>>, next |-> Mon!ValidatePage(0)]
                                  ELSE Mon!Follow(read[k - 1], items, limit)
    <2> HIDE DEF read
    <2> QED
        BY <1>4 DEF Asked
<1> HIDE DEF read, f0
<1> DEFINE Bad == {k \in Nat : k \in 0 .. n /\ read[k] # Place(items, limit, k)}
<1>6. Bad = {}
    <2> SUFFICES ASSUME Bad # {} PROVE FALSE
        OBVIOUS
    <2>1. PICK k \in Bad : \A i \in Bad : k <= i
        <3> Bad \in SUBSET Nat
            OBVIOUS
        <3> HIDE DEF Bad
        <3> QED
            BY LeastNumber
    <2>2. k \in 0 .. n /\ read[k] # Place(items, limit, k)
        BY <2>1
    <2>3. k # 0
        BY <1>5, <2>2, FirstPlace
    <2>4. k - 1 \in 0 .. n /\ (k - 1) + 1 = k /\ k - 1 \in Nat /\ ~(k <= k - 1)
        BY <1>0, <2>2, <2>3
    <2>5. read[k - 1] = Place(items, limit, k - 1)
        BY <2>1, <2>4
    <2>6. Mon!Follow(Place(items, limit, k - 1), items, limit) = Place(items, limit, (k - 1) + 1)
        BY <2>4, NextPlace
    <2> QED
        BY <1>5, <2>2, <2>3, <2>4, <2>5, <2>6
<1> QED
    BY <1>0, <1>2, <1>6

LEMMA ListingIsASequence ==
    ASSUME NEW peers, IsFiniteSet(peers)
    PROVE  Mon!Listing(peers) \in Seq(peers)
<1>1. Cardinality(peers) \in Nat /\ ExistsBijection(1 .. Cardinality(peers), peers)
    BY FS_CardinalityType
<1>2. \E f \in [1 .. Cardinality(peers) -> peers] : IsInjective(f)
    BY <1>1 DEF ExistsBijection, Bijection, Injection
<1>3. Mon!Listing(peers) \in [1 .. Cardinality(peers) -> peers]
    BY <1>2 DEF Mon!Listing, Mon!SetToSeq, Mon!Cardinality, Cardinality, Mon!IsInjective, IsInjective
<1> QED
    BY <1>1, <1>3

(* For any number of peers, any page size asked for and any limit of it,   *)
(* whoever follows the next pages sees the whole listing, once and in      *)
(* order, in no more requests than there are peers.                        *)
THEOREM PagesCover ==
    /\ \A peers, asked \in Nat, max_limit \in Nat \ {0} :
          IsFiniteSet(peers) => Mon!PagesCoverListing(peers, asked, max_limit)
    /\ CSpec => []PagesCoverListing
<1>1. ASSUME NEW peers, NEW asked \in Nat, NEW max_limit \in Nat \ {0}, IsFiniteSet(peers)
      PROVE  Mon!PagesCoverListing(peers, asked, max_limit)
    <2> DEFINE items == Mon!Listing(peers)
               limit == Mon!ValidateLimit(asked, max_limit)
               n == Len(items)
    <2>0. items \in Seq(peers)
        BY <1>1, ListingIsASequence
    <2>1. limit \in Nat \ {0}
        BY DEF Mon!ValidateLimit
    <2> SUFFICES Mon!Requests(items, limit)[n] = [seen |-> items, next |-> IF items = <<>> THEN 1 ELSE Mon!NoPage]
        BY DEF Mon!PagesCoverListing
    <2> HIDE DEF items, limit
    <2>2. CASE items = <<>>
        <3> DEFINE read == CHOOSE f : Asked(f, items, limit)
                   f0 == [k \in 0 .. 0 |-> [seen |-> <<>>, next |-> 1]]
        <3>1. n = 0 /\ Mon!ValidatePage(0) = 1
            BY <2>2 DEF Mon!ValidatePage
        <3>2. Mon!Requests(items, limit) = read
            BY DEF Mon!Requests, Asked
        <3>3. Asked(f0, items, limit)
            <4>1. \A k \in 0 .. 0 : k = 0
                OBVIOUS
            <4> QED
                BY <3>1, <4>1 DEF Asked
        <3>4. Asked(read, items, limit)
            <4> HIDE DEF Asked, f0
            <4> QED
                BY <3>3
        <3> HIDE DEF read
        <3>5. read[0] = [seen |-> <<>>, next |-> 1]
            BY <3>1, <3>4 DEF Asked
        <3> QED
            BY <2>2, <3>1, <3>2, <3>5
    <2>3. CASE items # <<>>
        <3>1. n \in Nat /\ n \in 0 .. n
            BY <2>0
        <3>2. ~(n * limit < n)
            <4> HIDE DEF n
            <4> QED
                BY <2>1, <3>1
        <3>3. Mon!Requests(items, limit)[n] = Place(items, limit, n)
            BY <2>0, <2>1, <2>3, <3>1, RequestsAreMade
        <3>4. SubSeq(items, 1, n) = items
            BY <2>0, SubSeqFull
        <3> QED
            BY <2>3, <3>2, <3>3, <3>4 DEF Place, Upto
    <2> QED
        BY <2>2, <2>3
<1>2. PagesCoverListing
    <2>1. \A p \in SUBSET (1 .. 3) : IsFiniteSet(p)
        <3>1. IsFiniteSet(1 .. 3)
            <4>1. 1 \in Int /\ 3 \in Int
                OBVIOUS
            <4> QED
                BY <4>1, FS_Interval
        <3> QED
            BY <3>1, FS_Subset
    <2>2. 3 \in Nat \ {0} /\ \A a \in 0 .. 4 : a \in Nat
        OBVIOUS
    <2> QED
        BY <1>1, <2>1, <2>2 DEF PagesCoverListing
<1>3. CSpec => []PagesCoverListing
    BY <1>2, PTL
<1> QED
    BY <1>1, <1>3
=============================================================================
