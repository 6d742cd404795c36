---------------------------- MODULE PlanningSession ----------------------------
(***************************************************************************)
(* The shared state behind the planner's HTTP API and every handler that   *)
(* changes it: the credential vault, the Ozon source snapshots (memory and *)
(* disk), the analysis snapshots, the manager's working-plan decisions and *)
(* the shipment plans that can be exported.                                *)
(*                                                                         *)
(* Who runs when.  "async def" handlers run on the one event-loop thread,  *)
(* so everything between two awaits is one step.  Plain "def" handlers,    *)
(* the sync worker and the analysis worker are threads of their own.  The  *)
(* two commit locks (OZON_CONTEXT_COMMIT_LOCK, PROJECT_PERSISTENCE_LOCK)   *)
(* only order commits: readers take neither, so the two places that change *)
(* several stores under the context lock (credential setup and the source  *)
(* commit) are two steps each, with the lock held in between.              *)
(*                                                                         *)
(* Snapshot identities are uuid4 values, fresh at every creation; here     *)
(* they are increasing numbers, so "inserted last" is "greatest id".       *)
(***************************************************************************)
EXTENDS Naturals, FiniteSets

CONSTANTS
    Syncs,          \* threads that may run a source refresh
    Runs,           \* threads that may run an analysis
    Checks,         \* shipment-plan requests
    Deletes,        \* threads that may serve DELETE pack-multiplicity
    Endpoints,      \* names of the source endpoints with evidence
    Packs,          \* contents of the pack-multiplicity master data
    Costs,          \* contents of the cost prices
    Mappings,       \* contents of the manual cluster mappings
    Choices,        \* contents of the overrides, and of a source selection
    KeepSources,    \* OzonSourceSnapshotStore max_snapshots (3)
    KeepAnalyses,   \* AnalysisSnapshotStore max_snapshots (3)
    KeepPlans,      \* ShipmentPlanStore max_plans (8)
    UnlinkMayFail,  \* whether deleting a state file can raise OSError
    MaxDoc,         \* bound: credential setups
    MaxGen,         \* bound: unlock-session transitions
    MaxSource,      \* bound: source snapshots ever created
    MaxAnalysis,    \* bound: analysis snapshots ever created
    MaxPlan         \* bound: shipment plans ever created

ASSUME BoundsAssumption ==
    /\ KeepSources \in Nat \ {0} /\ KeepAnalyses \in Nat \ {0}
    /\ KeepPlans \in Nat \ {0}
    /\ MaxDoc \in Nat /\ MaxGen \in Nat /\ MaxSource \in Nat
    /\ MaxAnalysis \in Nat /\ MaxPlan \in Nat
    /\ UnlinkMayFail \in BOOLEAN
\* 0 is the empty content.
ASSUME ContentsAssumption ==
    0 \in Packs /\ 0 \in Costs /\ 0 \in Mappings /\ 0 \in Choices

VARIABLES
    doc,         \* the encrypted vault document on disk; 0: not configured
    unlocked,    \* credentials of doc are in memory
    gen,         \* _session_generation
    replacing,   \* setup has written the vault, has not invalidated yet
    file,        \* persisted source snapshot: {} or a singleton
    sources,     \* OZON_SOURCE_STORE
    healthy,     \* _last_healthy_snapshot_id; 0: None
    analyses,    \* ANALYSIS_STORE
    selections,  \* OZON_SOURCE_SELECTIONS, by analysis id; 0: empty set
    plans,       \* SHIPMENT_PLAN_STORE
    pack,        \* project.pack_multiplicity
    cost,        \* project.cost_prices
    maps,        \* project.manual_cluster_mappings
    edits,       \* project.working_quantity_overrides
    sync,        \* per source refresh: progress and what it captured
    run,         \* per analysis: progress and what it captured
    check,       \* per shipment-plan request: progress and what it captured
    clearing,    \* pack deletions saved but not yet followed by the clears
    lastSource, lastAnalysis, lastPlan   \* identities handed out so far

vault == <<doc, unlocked, gen, replacing>>
store == <<file, sources, healthy>>
project == <<pack, cost, maps, edits>>
work == <<analyses, selections, plans>>
threads == <<sync, run, check, clearing>>
issued == <<lastSource, lastAnalysis, lastPlan>>
vars == <<vault, store, project, work, threads, issued>>

-----------------------------------------------------------------------------
(* Records.                                                                *)

Quality == 0..2
AnalysisIds == 1..MaxAnalysis

\* rows: the accounts whose rows the snapshot carries (a smart refresh
\* reuses rows of its base); quality: endpoint_quality per endpoint.
Source == [id : 1..MaxSource, ctx : Nat, rows : SUBSET Nat,
           quality : [Endpoints -> Quality]]

\* src, ctx: provenance of an API analysis (0, 0 for files); pack, cost,
\* maps: the project contents it was computed from.
Analysis == [id : AnalysisIds, mode : {"api", "files"}, src : Nat, ctx : Nat,
             pack : Packs, cost : Costs, maps : Mappings]

\* The content a working_plan_id is the hash of, beside its analysis.
Decisions == [edits : Choices, selected : Choices]

Plan == [id : 1..MaxPlan, of : Analysis, decisions : Decisions]

Idle == [pc |-> "idle"]

\* A refresh captures its session and its base before it fetches.
SyncJob == [pc : {"fetch"}, ctx : Nat, gen : Nat, base : SUBSET Source]
Clearing == [pc |-> "clear"]
RunJob == [pc : {"prepared"}, mode : {"api", "files"}, src : Nat, ctx : Nat]
          \cup [pc : {"loaded"}, mode : {"api", "files"}, src : Nat, ctx : Nat,
                pack : Packs, cost : Costs, maps : Mappings]
CheckJob == [pc : {"asked"}, of : Analysis, decisions : Decisions,
             pack : Packs, ctx : Nat, gen : Nat]

-----------------------------------------------------------------------------
(* Helpers.                                                                *)

\* source_store.latest, ANALYSIS_STORE.latest: {} or the newest member.
Newest(S) == {s \in S : \A t \in S : t.id <= s.id}
Oldest(S) == {s \in S : \A t \in S : s.id <= t.id}

\* put of the two FIFO stores (analyses, plans).
FifoPut(S, x, keep) ==
    LET all == S \cup {x}
    IN  IF Cardinality(all) > keep THEN all \ Oldest(all) ELSE all

IsHealthy(s) == \A e \in Endpoints : s.quality[e] > 0

HealthyAfter(s) == IF IsHealthy(s) THEN s.id ELSE healthy

\* Wrong on purpose: the oldest goes first, healthy or not.
SourcesAfterPlainFifo(s) == FifoPut(sources, s, KeepSources)

\* OzonSourceSnapshotStore.put: the last healthy snapshot is never evicted.
SourcesAfter(s) ==
    LET all == sources \cup {s}
        evictable == {x \in all : x.id # HealthyAfter(s)}
    IN  IF Cardinality(all) > KeepSources THEN all \ Oldest(evictable) ELSE all

\* source_refresh_regresses: the candidate loses established evidence.
Regresses(base, quality) ==
    \E b \in base : \E e \in Endpoints : quality[e] < b.quality[e]

\* Wrong on purpose: every candidate is activated.
AlwaysActivated(base, quality) == TRUE

\* The commit keeps a candidate only if it does not regress.
Activated(base, quality) == ~Regresses(base, quality)

\* clear_api of the analysis store.
FilesOnly(S) == {a \in S : a.mode # "api"}

\* is_context_active of the context captured as (c, g).
Active(c, g) == unlocked /\ g = gen /\ c = doc

\* No handler is between two steps that hold OZON_CONTEXT_COMMIT_LOCK.
ContextLockFree == ~replacing /\ \A t \in Syncs : sync[t].pc # "clear"

\* The event loop is busy while setup runs on it.
LoopFree == ~replacing

DecisionsFor(a) == [edits |-> edits, selected |-> selections[a.id]]

\* Wrong on purpose: the cost fingerprint is not compared.
CostsIgnored(a) == TRUE

\* _require_current_shippable_plan: newest analysis, same cost prices.
CostsUnchanged(a) == a.cost = cost
CurrentAnalysis(a) == a \in Newest(analyses) /\ CostsUnchanged(a)

\* require_current_working_plan.
CurrentDecisions(a, d) == CurrentAnalysis(a) /\ DecisionsFor(a) = d

\* shipment_export answers with a file exactly for these plans.
Exportable(p) == LoopFree /\ p \in plans /\ CurrentDecisions(p.of, p.decisions)

-----------------------------------------------------------------------------
(* The vault: /api/ozon/credentials/{setup,unlock,lock}.                   *)

\* Wrong on purpose: unlock does not look for the vault file.
AlwaysConfigured == TRUE

\* _unlock: the vault file exists.
Configured == doc # 0

\* Wrong on purpose: sessions are not told apart.
SameGeneration(g) == g

\* _session_generation += 1, at every activation and every revocation.
NextGeneration(g) == g + 1

\* setup, first half: under the context lock the new document replaces the
\* old one and its credentials become the active session.
SetupWrite ==
    /\ ContextLockFree
    /\ doc < MaxDoc /\ gen < MaxGen
    /\ doc' = doc + 1
    /\ gen' = NextGeneration(gen)
    /\ unlocked' = TRUE
    /\ replacing' = TRUE
    /\ UNCHANGED <<store, project, work, threads, issued>>

\* setup, second half: invalidate_ozon_account_context_state.
SetupInvalidate ==
    /\ replacing
    /\ replacing' = FALSE
    /\ sources' = {} /\ healthy' = 0 /\ file' = {}
    /\ analyses' = FilesOnly(analyses)
    /\ plans' = {}
    /\ selections' = [i \in AnalysisIds |-> 0]
    /\ UNCHANGED <<doc, unlocked, gen, project, threads, issued>>

\* The order-price file cannot be deleted: OSError before anything is
\* cleared; the handler answers 500 although the vault is replaced.
SetupFailsEarly ==
    /\ replacing /\ UnlinkMayFail
    /\ replacing' = FALSE
    /\ UNCHANGED <<doc, unlocked, gen, store, project, work, threads, issued>>

\* The source file cannot be deleted: only the source store is cleared.
SetupFailsLate ==
    /\ replacing /\ UnlinkMayFail
    /\ replacing' = FALSE
    /\ sources' = {} /\ healthy' = 0
    /\ UNCHANGED <<doc, unlocked, gen, file, project, work, threads, issued>>

\* unlock: the running session is revoked, then a new one activated.
Unlock ==
    /\ ContextLockFree
    /\ Configured /\ gen + 1 < MaxGen
    /\ gen' = NextGeneration(NextGeneration(gen))
    /\ unlocked' = TRUE
    /\ UNCHANGED <<doc, replacing, store, project, work, threads, issued>>

\* lock, and unlock with a wrong password or without a vault.
Revoke ==
    /\ ContextLockFree
    /\ gen < MaxGen
    /\ gen' = NextGeneration(gen)
    /\ unlocked' = FALSE
    /\ UNCHANGED <<doc, replacing, store, project, work, threads, issued>>

-----------------------------------------------------------------------------
(* Source refresh: /api/ozon/sync and /api/ozon/sync/stream.               *)

\* capture_context takes only the vault's own lock, and the base is read
\* without any: a refresh may start while setup holds the context lock.
SyncStart(t) ==
    /\ sync[t] = Idle
    /\ unlocked
    /\ sync' = [sync EXCEPT ![t] =
                  [pc |-> "fetch", ctx |-> doc, gen |-> gen,
                   base |-> Newest(sources)]]
    /\ UNCHANGED <<vault, store, project, work, run, check, clearing, issued>>

\* The accounts whose rows a candidate carries: a full refresh fetches all
\* of them, a smart refresh reuses rows of its base.
CandidateRows(job, smart) ==
    {job.ctx} \cup IF smart THEN UNION {b.rows : b \in job.base} ELSE {}

\* Wrong on purpose: only a healthy snapshot is written to the disk.
SavedIfHealthy(s) == IF IsHealthy(s) THEN {s} ELSE file

\* save_source_snapshot_atomic.
Saved(s) == {s}

\* _refresh_response.commit, first half: the candidate is activated.
SyncActivate(t, quality, smart) ==
    /\ sync[t].pc = "fetch"
    /\ ContextLockFree
    /\ Active(sync[t].ctx, sync[t].gen)
    /\ Activated(sync[t].base, quality)
    /\ lastSource < MaxSource
    /\ lastSource' = lastSource + 1
    /\ LET s == [id |-> lastSource + 1, ctx |-> sync[t].ctx,
                 rows |-> CandidateRows(sync[t], smart), quality |-> quality]
       IN  /\ file' = Saved(s)
           /\ sources' = SourcesAfter(s)
           /\ healthy' = HealthyAfter(s)
    /\ sync' = [sync EXCEPT ![t] = Clearing]
    /\ UNCHANGED <<vault, project, work, run, check, clearing,
                   lastAnalysis, lastPlan>>

\* ... second half: what was derived from the previous source is dropped.
SyncClear(t) ==
    /\ sync[t].pc = "clear"
    /\ analyses' = FilesOnly(analyses)
    /\ selections' = [i \in AnalysisIds |-> 0]
    /\ plans' = {}
    /\ sync' = [sync EXCEPT ![t] = Idle]
    /\ UNCHANGED <<vault, store, project, run, check, clearing, issued>>

\* The fetch fails, the session was revoked, the candidate regresses or the
\* file cannot be written: nothing is stored.
SyncEnd(t) ==
    /\ sync[t].pc = "fetch"
    /\ sync' = [sync EXCEPT ![t] = Idle]
    /\ UNCHANGED <<vault, store, project, work, run, check, clearing, issued>>

-----------------------------------------------------------------------------
(* Analysis: /api/analysis/stream (and /api/analysis, which takes the same *)
(* steps without leaving the event loop).                                  *)

\* prepare_analysis: an API analysis names the newest source snapshot.
PrepareApi(r) ==
    /\ LoopFree
    /\ run[r] = Idle
    /\ \E s \in Newest(sources) :
          /\ s.ctx = doc
          /\ run' = [run EXCEPT ![r] =
                       [pc |-> "prepared", mode |-> "api", src |-> s.id, ctx |-> doc]]
    /\ UNCHANGED <<vault, store, project, work, sync, check, clearing, issued>>

PrepareFiles(r) ==
    /\ LoopFree
    /\ run[r] = Idle
    /\ run' = [run EXCEPT ![r] =
                 [pc |-> "prepared", mode |-> "files", src |-> 0, ctx |-> 0]]
    /\ UNCHANGED <<vault, store, project, work, sync, check, clearing, issued>>

\* run_analysis_pipeline reads the project once, under the project lock.
Load(r) ==
    /\ run[r].pc = "prepared"
    /\ run' = [run EXCEPT ![r] =
                 [pc |-> "loaded", mode |-> run[r].mode, src |-> run[r].src,
                  ctx |-> run[r].ctx, pack |-> pack, cost |-> cost, maps |-> maps]]
    /\ UNCHANGED <<vault, store, project, work, sync, check, clearing, issued>>

PackUnchanged(j) == j.pack = pack
CostStillAtStart(j) == j.cost = cost
\* Wrong on purpose: any stored source will do.
OnStoredSource(j) == \E s \in sources : s.id = j.src
OnNewestSource(j) == \E s \in Newest(sources) : s.id = j.src
SourceStillCurrent(j) ==
    j.mode = "api" => ContextLockFree /\ j.ctx = doc /\ OnNewestSource(j)

\* commit_analysis_snapshot_if_current; c: the cost prices after the
\* imported ones were merged, with which the snapshot is stamped.
CommitAnalysis(r, c) ==
    /\ run[r].pc = "loaded"
    /\ PackUnchanged(run[r])
    /\ CostStillAtStart(run[r])
    /\ SourceStillCurrent(run[r])
    /\ lastAnalysis < MaxAnalysis
    /\ lastAnalysis' = lastAnalysis + 1
    /\ cost' = c
    /\ selections' = [i \in AnalysisIds |-> 0]
    /\ analyses' = FifoPut(analyses,
          [id |-> lastAnalysis + 1, mode |-> run[r].mode, src |-> run[r].src,
           ctx |-> run[r].ctx, pack |-> run[r].pack, cost |-> c,
           maps |-> run[r].maps], KeepAnalyses)
    /\ run' = [run EXCEPT ![r] = Idle]
    /\ UNCHANGED <<vault, store, plans, pack, maps, edits, sync, check, clearing,
                   lastSource, lastPlan>>

\* Rejected at the commit, failed, or cancelled by the client.
EndRun(r) ==
    /\ run[r].pc \in {"prepared", "loaded"}
    /\ run' = [run EXCEPT ![r] = Idle]
    /\ UNCHANGED <<vault, store, project, work, sync, check, clearing, issued>>

-----------------------------------------------------------------------------
(* Shipment plans: /api/shipment/plan.                                     *)

\* Everything before the await: the plan named by the request is current,
\* its source belongs to the vault, and the pack master data and the unlock
\* session are captured.
AskOzon(q) ==
    /\ LoopFree
    /\ check[q] = Idle
    /\ unlocked
    /\ \E a \in analyses :
          /\ CurrentAnalysis(a)
          /\ a.mode = "api"
          /\ \E s \in sources : s.id = a.src /\ s.ctx = doc
          /\ check' = [check EXCEPT ![q] =
                         [pc |-> "asked", of |-> a, decisions |-> DecisionsFor(a),
                          pack |-> pack, ctx |-> doc, gen |-> gen]]
    /\ UNCHANGED <<vault, store, project, work, sync, run, clearing, issued>>

SessionStillActive(j) == Active(j.ctx, j.gen)
PackStillSame(j) == j.pack = pack

\* commit_shipment_plan_if_current, in the loop turn that got the answer.
CommitPlan(q) ==
    /\ check[q].pc = "asked"
    /\ ContextLockFree
    /\ SessionStillActive(check[q])
    /\ PackStillSame(check[q])
    /\ CurrentDecisions(check[q].of, check[q].decisions)
    /\ lastPlan < MaxPlan
    /\ lastPlan' = lastPlan + 1
    /\ plans' = FifoPut(plans, [id |-> lastPlan + 1, of |-> check[q].of,
                                decisions |-> check[q].decisions], KeepPlans)
    /\ check' = [check EXCEPT ![q] = Idle]
    /\ UNCHANGED <<vault, store, project, analyses, selections, sync, run,
                   clearing, lastSource, lastAnalysis>>

\* The validation raised, or one of the commit's checks failed.
EndCheck(q) ==
    /\ LoopFree
    /\ check[q].pc = "asked"
    /\ check' = [check EXCEPT ![q] = Idle]
    /\ UNCHANGED <<vault, store, project, work, sync, run, clearing, issued>>

-----------------------------------------------------------------------------
(* The manager's decisions: /api/working-plan/{override,reset,bulk,        *)
(* reset-all,source,source/bulk}.                                          *)

\* Wrong on purpose: an edit leaves the shipment plans.
PlansKept == plans
PlansAfterEdit == {}

\* override, reset, bulk, reset-all: e is the new override content; the
\* selection of the touched lines is discarded.
EditPlan(a, e) ==
    /\ LoopFree
    /\ CurrentAnalysis(a)
    /\ edits' = e
    /\ selections' \in {selections, [selections EXCEPT ![a.id] = 0]}
    /\ plans' = PlansAfterEdit
    /\ UNCHANGED <<vault, store, analyses, pack, cost, maps, threads, issued>>

\* source and source/bulk to OZON: the accepted lines lose their override.
\* These two handlers do not compare cost prices.
SelectOzon(a, e, c) ==
    /\ LoopFree
    /\ a \in Newest(analyses) /\ a.mode = "api"
    /\ edits' = e
    /\ selections' = [selections EXCEPT ![a.id] = c]
    /\ plans' = PlansAfterEdit
    /\ UNCHANGED <<vault, store, analyses, pack, cost, maps, threads, issued>>

\* ... to CALCULATED: only the selection shrinks.
SelectCalculated(a, c) ==
    /\ LoopFree
    /\ a \in Newest(analyses)
    /\ selections' = [selections EXCEPT ![a.id] = c]
    /\ plans' = PlansAfterEdit
    /\ UNCHANGED <<vault, store, analyses, project, threads, issued>>

-----------------------------------------------------------------------------
(* Project master data.                                                    *)

\* put_cost_price: analyses stay; their stamp no longer matches.
PutCost(c) ==
    /\ LoopFree
    /\ c # cost
    /\ cost' = c
    /\ plans' = {}
    /\ UNCHANGED <<vault, store, pack, maps, edits, analyses, selections,
                   threads, issued>>

\* put_project_mappings.
PutMappings(m) ==
    /\ LoopFree
    /\ m # maps
    /\ maps' = m
    /\ analyses' = {} /\ plans' = {}
    /\ UNCHANGED <<vault, store, pack, cost, edits, selections, threads, issued>>

\* put_pack_multiplicity and import_pack_multiplicity.  As in PutCost and
\* PutMappings there is no await between the save and the clears; a worker
\* thread may commit between them, but what it stores is cleared with the
\* rest, as if it had committed before, or stays as if it committed after.
PutPack(k) ==
    /\ LoopFree
    /\ k # pack
    /\ pack' = k
    /\ analyses' = {} /\ plans' = {}
    /\ UNCHANGED <<vault, store, cost, maps, edits, selections, threads, issued>>

\* delete_pack_multiplicity runs on a pool thread: the save, under the
\* project lock ...
DeletePackSave(d, k) ==
    /\ d \notin clearing
    /\ k # pack
    /\ pack' = k
    /\ clearing' = clearing \cup {d}
    /\ UNCHANGED <<vault, store, cost, maps, edits, work, sync, run, check, issued>>

\* Wrong on purpose: the deletion leaves the analyses.
AnalysesKept == analyses
AnalysesAfterDelete == {}

\* ... and the two clears after the lock is released.
DeletePackClear(d) ==
    /\ d \in clearing
    /\ analyses' = AnalysesAfterDelete /\ plans' = {}
    /\ clearing' = clearing \ {d}
    /\ UNCHANGED <<vault, store, project, selections, sync, run, check, issued>>

-----------------------------------------------------------------------------
(* The process ends at any point and is started again: memory is lost, the *)
(* vault document, the source file and the project file stay, and          *)
(* _restore_persisted_source runs.                                         *)

\* Wrong on purpose: any account's file is restored.
RestoreAny(f) == f
Restorable(f) == {s \in f : s.ctx = doc}

Restart ==
    /\ unlocked' = FALSE /\ gen' = 0 /\ replacing' = FALSE
    /\ sources' = Restorable(file)
    /\ \/ \E s \in Restorable(file) : IsHealthy(s) /\ healthy' = s.id
       \/ (\A s \in Restorable(file) : ~IsHealthy(s)) /\ healthy' = 0
    /\ analyses' = {} /\ plans' = {}
    /\ selections' = [i \in AnalysisIds |-> 0]
    /\ sync' = [t \in Syncs |-> Idle]
    /\ run' = [r \in Runs |-> Idle]
    /\ check' = [q \in Checks |-> Idle]
    /\ clearing' = {}
    /\ UNCHANGED <<doc, file, project, issued>>

-----------------------------------------------------------------------------
Init ==
    /\ doc = 0 /\ unlocked = FALSE /\ gen = 0 /\ replacing = FALSE
    /\ file = {} /\ sources = {} /\ healthy = 0
    /\ analyses = {} /\ selections = [i \in AnalysisIds |-> 0] /\ plans = {}
    /\ pack = 0 /\ cost = 0 /\ maps = 0 /\ edits = 0
    /\ sync = [t \in Syncs |-> Idle]
    /\ run = [r \in Runs |-> Idle]
    /\ check = [q \in Checks |-> Idle]
    /\ clearing = {}
    /\ lastSource = 0 /\ lastAnalysis = 0 /\ lastPlan = 0

VaultNext == SetupWrite \/ SetupInvalidate \/ SetupFailsEarly \/ SetupFailsLate
             \/ Unlock \/ Revoke

SyncNext ==
    \E t \in Syncs :
        \/ SyncStart(t) \/ SyncClear(t) \/ SyncEnd(t)
        \/ \E quality \in [Endpoints -> Quality], smart \in BOOLEAN :
              SyncActivate(t, quality, smart)

RunNext ==
    \E r \in Runs :
        \/ PrepareApi(r) \/ PrepareFiles(r) \/ Load(r) \/ EndRun(r)
        \/ \E c \in Costs : CommitAnalysis(r, c)

CheckNext == \E q \in Checks : AskOzon(q) \/ CommitPlan(q) \/ EndCheck(q)

DecisionNext ==
    \E a \in analyses, c \in Choices :
        \/ EditPlan(a, c) \/ SelectCalculated(a, c)
        \/ \E e \in Choices : SelectOzon(a, e, c)

ProjectNext ==
    \/ \E c \in Costs : PutCost(c)
    \/ \E m \in Mappings : PutMappings(m)
    \/ \E k \in Packs : PutPack(k) \/ \E d \in Deletes : DeletePackSave(d, k)
    \/ \E d \in Deletes : DeletePackClear(d)

Next == VaultNext \/ SyncNext \/ RunNext \/ CheckNext \/ DecisionNext
        \/ ProjectNext \/ Restart

Spec == Init /\ [][Next]_vars

-----------------------------------------------------------------------------
(* Properties.                                                             *)

VaultOK ==
    /\ doc \in 0..MaxDoc /\ gen \in 0..MaxGen
    /\ unlocked \in BOOLEAN /\ replacing \in BOOLEAN
    /\ unlocked => doc # 0
StoreOK ==
    /\ file \in SUBSET Source /\ sources \in SUBSET Source
    /\ healthy \in 0..MaxSource
ProjectOK == pack \in Packs /\ cost \in Costs /\ maps \in Mappings /\ edits \in Choices
WorkOK ==
    /\ analyses \in SUBSET Analysis
    /\ selections \in [AnalysisIds -> Choices]
    /\ plans \in SUBSET Plan
ThreadsOK ==
    /\ sync \in [Syncs -> SyncJob \cup {Idle, Clearing}]
    /\ run \in [Runs -> RunJob \cup {Idle}]
    /\ check \in [Checks -> CheckJob \cup {Idle}]
    /\ clearing \in SUBSET Deletes
IssuedOK ==
    /\ lastSource \in 0..MaxSource /\ lastAnalysis \in 0..MaxAnalysis
    /\ lastPlan \in 0..MaxPlan

\* Every variable has the type its declaration says, and there are
\* credentials in memory only when a vault document exists.
TypeOK == VaultOK /\ StoreOK /\ ProjectOK /\ WorkOK /\ ThreadsOK /\ IssuedOK

\* Whatever the order of setups, refreshes and restarts, the source
\* snapshots in memory belong to the account of the vault on disk.
SourcesOfVault == ~replacing => \A s \in sources : s.ctx = doc

\* An API analysis in the store was computed from the source snapshot that
\* is the newest now, and under the vault that is on disk now: whichever of
\* a refresh, an account replacement and an analysis commits last, no stale
\* analysis survives.
AnalysesOnCurrentSource ==
    ContextLockFree =>
        \A a \in analyses : a.mode = "api" =>
            a.ctx = doc /\ \E s \in Newest(sources) : s.id = a.src /\ s.ctx = doc

\* When no deletion of pack data is between its save and its clears, every
\* stored analysis and shipment plan was computed from the current packs.
PackDataFresh ==
    clearing = {} => /\ \A a \in analyses : a.pack = pack
                     /\ \A p \in plans : p.of.pack = pack

\* A stored plan for the newest analysis carries the decisions the manager
\* has now, so an edit never leaves an exportable plan behind it.
PlansMatchDecisions ==
    \A p \in plans : p.of \in Newest(analyses) => DecisionsFor(p.of) = p.decisions

\* What shipment_export would render now was validated for the account of
\* the vault, from the newest source, with current packs and cost prices.
ExportFaithful ==
    ContextLockFree /\ clearing = {} =>
        \A p \in plans : Exportable(p) =>
            /\ p.of.mode = "api" /\ p.of.ctx = doc
            /\ \E s \in Newest(sources) : s.id = p.of.src
            /\ p.of.pack = pack /\ p.of.cost = cost

\* The source store keeps the newest healthy snapshot it was given, however
\* many unhealthy ones follow.
FallbackKept ==
    /\ healthy # 0 => \E s \in sources : s.id = healthy /\ IsHealthy(s)
    /\ \A s \in sources : IsHealthy(s) => s.id <= healthy

\* The newest source in memory is the one a restart would restore, also after
\* replacements of the account that failed half way.
NewestIsOnDisk == sources # {} => Newest(sources) = file

\* A session that a refresh or a shipment check captured and that was
\* revoked never becomes active again, whatever locks, unlocks and setups
\* follow: the thread's result can no longer be committed.
SessionsNeverRevive ==
    [][/\ \A t \in Syncs :
             sync[t].pc = "fetch" /\ sync'[t] = sync[t]
             /\ ~Active(sync[t].ctx, sync[t].gen)
             => ~(unlocked' /\ sync[t].gen = gen' /\ sync[t].ctx = doc')
       /\ \A q \in Checks :
             check[q].pc = "asked" /\ check'[q] = check[q]
             /\ ~Active(check[q].ctx, check[q].gen)
             => ~(unlocked' /\ check[q].gen = gen' /\ check[q].ctx = doc')]_vars

\* Under one account, the newest source never loses established evidence.
SourceNeverRegresses ==
    [][\A s \in Newest(sources), n \in Newest(sources') :
          s.ctx = n.ctx /\ ~replacing
          => ~Regresses({s}, n.quality)]_vars

-----------------------------------------------------------------------------
(* What the repository says of the program and the code does not keep.     *)

\* Changing the manual mappings marks the current result as requiring
\* recalculation: the analysis that is current was computed from the
\* mappings of the project.  The commit compares packs and cost prices only.
MappingsCurrent == \A a \in Newest(analyses) : a.maps = maps

\* A plan made under a replaced account cannot be exported any more, also
\* when the replacement of the credentials stopped half way.
ReplacementUnexportable ==
    \A p \in plans : Exportable(p) => p.of.ctx = doc

\* A source snapshot consists of rows of the account that owns it.
RowsOfOneAccount == \A s \in sources : s.rows \subseteq {s.ctx}

=============================================================================
