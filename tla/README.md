# Verification of the Ozon FBO shipment planner

The planner is one local Python process: a FastAPI backend (`src/backend`), a
browser frontend (`src/frontend`) and files beside the application. It reads
an account from the Ozon Seller API, computes a shipment plan, validates it by
creating temporary supply drafts at Ozon and exports it. There is no database
and no second process. What is hard is that *one* process holds many stores
which have to agree, while event-loop handlers, pool threads, worker threads,
the manager's edits and Ozon's answers interleave, and the account under all
of it can be replaced at any time.

Contents: [system](#1-the-system), [modules](#2-modules),
[runs](#3-runs-and-bounds), [findings](#4-where-the-code-departs-from-its-promises),
[proofs](#5-what-is-proved), [limits](#6-what-is-only-model-checked-and-what-is-not-modelled),
[plan](#7-plan).

## 1. The system

### 1.1 Components that keep state

| component (source) | state | operations | must hold |
|---|---|---|---|
| credential vault (`ozon/vault.py`) | encrypted document on disk; credentials in memory; session generation | setup, unlock, lock, capture, is-active | a revoked session never becomes active again; work of one account never lands in another |
| source store and file (`ozon/source_store.py`, `ozon/source_persistence.py`) | up to 3 source snapshots, which is the last healthy one; one snapshot on disk | put, clear, latest, save, restore, delete | the last healthy snapshot is never evicted; memory and disk agree, also after a crash |
| source refresh (`ozon/sync.py`, `/api/ozon/sync*`) | what a refresh captured: session, base snapshot | fetch, compare with base, commit | a refresh never loses established evidence |
| analysis and plan stores (`shipment/store.py`) | up to 3 analyses, up to 8 shipment plans | put, clear, clear_api, latest | an analysis belongs to the newest source and the current project |
| project file (`project.py`, `cost_prices.py`, `pack_multiplicity.py`) | pack data, cost prices, mappings, overrides | save atomically, load | what is planned and exported is computed from what is stored |
| working plan (`working_plan.py`) | overrides (in the project) and the Ozon selections per analysis | override, reset, bulk, select source | an edit leaves no exportable plan of earlier decisions |
| shipment requests (`/api/shipment/*`) | what a request captured before its await | plan, validate, export | only a currently valid plan is exported |
| draft validation (`ozon/draft_validation.py`) | answer cache (64), create budget, validations in flight, resumable drafts | validate | no second draft for a candidate, no resend in quarantine, no more creates than Ozon allows; every call ends |
| Ozon client (`ozon/client.py`) | admission lock, pacing, cooldown | post_json | pacing and cooldowns kept by all threads; a create never repeated; every call ends |
| price enrichment (`ozon/price_enrichment.py`) | published evidence, queue, cache and its file | start, cancel, prioritise | prices of a replaced source are never published |
| handoff, finance, advertising (`ozon/handoff.py`, `ozon/finance_store.py`, `advertising_store.py`) | small account-scoped caches | put, get, clear | account isolation |
| frontend (`frontend/assets/js`) | browser state | requests, rendering | a late answer never overwrites a newer one |

### 1.2 Components that compute

`ozon/adapters/*` and `ozon/sync.py` (reading Ozon), `application.py` and
`decision/*` (the evidence of an analysis), `analytics/*` (orders and
availability to demand and stockout episodes), `supply/*` (need, feasibility,
allocation, shippable plan), `shipment/{candidates,ranking,orchestration}.py`
(options), `economics/*` (Decimal arithmetic), `ingestion/*` (parsers). They
keep no state between calls; inside a call they are loops over rows, pages,
clusters, days or prices that carry state from one iteration to the next, and
that is where they can go wrong. Their correctness is algorithmic: conservation
of quantities and money, bounds, optimality, independence of the order in which
rows come, stability of history. A model of one has an action per iteration, so
that an invariant speaks about the loop and not only about its result.

### 1.3 How the components interact

*Threads.* `async def` handlers share the event-loop thread: what lies between
two `await`s is one step for all other `async` handlers, but not for threads.
Plain `def` handlers (`/api/ozon/sync`, `DELETE pack-multiplicity`) run on pool
threads, the streaming refresh and the analysis on worker threads, draft
validation in `run_in_threadpool`.

*Shared state.* All stores are module globals of `api.py`. Two commit locks
order the commits (`OZON_CONTEXT_COMMIT_LOCK`, `PROJECT_PERSISTENCE_LOCK`);
readers take neither, so a handler that changes several stores is seen half
way.

*Optimistic commits.* Slow work never holds a lock. It captures what it depends
on (session, base snapshot, fingerprints of project data, plan identity),
works, and at the commit compares the capture with the present. The
correctness of the planner is that these comparisons cover everything they
should.

*Invalidation.* A replaced account drops sources, analyses, selections and
plans; a committed refresh drops the API analyses, selections and plans; a
change of pack data or mappings drops analyses and plans; a change of cost
prices or decisions drops plans.

### 1.4 What is hard here

Interleavings of the commits, state read before an `await` and used after it,
partial failure of a replacement, a crash between two files, full caches,
timeouts and ambiguous answers of a non-idempotent create, calls that wait for
each other. `PROJECT.json` lists each under `hazards`, at the line where it
bites, with the properties that cover it.

## 2. Modules

| module | models |
|---|---|
| `PlanningSession` | the vault, the stores, the project and every handler that commits to them |
| `DraftValidation` | `DraftValidationService.validate` called from several threads, over time |
| `DraftPromise` | what that service promises per candidate (abstract; `DraftValidation` implements it) |
| `OzonClient` | `OzonClient.post_json` called from several threads |
| `PriceEnrichment` | the background worker that reads buyer prices, its cache and file |
| `EvidenceReads` | the read loops of the Ozon adapters against a vendor that pages oddly |
| `SourceSync` | full and smart refresh: windows, tails, backfill, reuse, comparison with the base |
| `EvidenceReconciliation` | joining and reconciling the rows an analysis starts from |
| `StockoutEpisodes` | stockout episodes, weekly signals, distorted recommendations, clean routes |
| `DemandEstimates` | the weekly rate of demand |
| `SupplyPlan` | need, feasibility, allocation and the shippable plan of one SKU |
| `WorkingPlan` | the manager's quantities over that plan (extends `SupplyPlan`) |
| `ShipmentOptions` | candidates per delivery method, Ozon's answers, their order |
| `EconomicsReports` | the economics handlers, advertising, finance and handoff stores |
| `FinanceReport` | accruals read page by page and the report of realized sales |
| `TargetPrice` | the search of the least price that meets a target |
| `MCPlanningSession`, `MCDraftValidation`, `MCServices`, `MCComputations` | constants and compositions for TLC |
| `Sums` | the sum of a function over a finite set |
| `PlanningSessionProofs` | types, sources and analyses of the current account; retention of the fallback, memory and disk, no lost evidence; pack data, decisions, export, revoked sessions |
| `DraftValidationProofs` | types, one draft per horizon, drafts kept, quotas, the step-by-step refinement of `DraftPromise` |
| `ServicesProofs` | `OzonClient`: types, attempts, pacing and cooldown; `PriceEnrichment`: types, prices of the account, what a finished enrichment shows; `EvidenceReads`: types, every row accounted for; the types of the three side by side |
| `EvidenceProofs` | `SourceSync`: types, exact histories and honest evidence; `EvidenceReconciliation`: types, independence of the order of rows |
| `WorkingPlanProofs` | `SupplyPlan`: the optimal allocation, the shippable plan; `WorkingPlan`: the fair selection; `ShipmentOptions`: types, grouping, the shared budget, the ranking |
| `EconomicsProofs` | `EconomicsReports`: types, stores of the cabinet, reports of one moment; `FinanceReport`: the report balances; `TargetPrice`: the least price; `DemandEstimates`: the monotone rate; `StockoutEpisodes`: types, the stable history |
| `ComputationsProofs` | the computations side by side: their types and safety properties |
| `FiniteSetFacts` | least counterexamples, the laws of sums, and what flattening a sequence of sequences gives, that the other proofs cite |

Operators marked "Wrong on purpose" are not part of the models: each is a
plausible bug in the definition that follows it, and `PROJECT.json` names the
property that must, and does, break when it takes that definition's place.

### 2.1 PlanningSession

One step is what the code does without letting anybody in who could tell the
difference. Setup is two (`SetupWrite`, `SetupInvalidate`), and so is the
commit of a refresh (`SyncActivate`, `SyncClear`), because readers do not take
the context lock; in between the lock is held, which is `ContextLockFree`
being false. Deleting pack data is two (`DeletePackSave`, `DeletePackClear`),
because it clears after the project lock is released, on a pool thread.
`LoopFree` says the event loop is not inside setup; `async` handlers need it.

| code | actions |
|---|---|
| `/api/ozon/credentials/{setup,unlock,lock}` | `SetupWrite`, `SetupInvalidate`, `SetupFailsEarly`, `SetupFailsLate`, `Unlock`, `Revoke` |
| `/api/ozon/sync`, `/sync/stream` | `SyncStart`, `SyncActivate`, `SyncClear`, `SyncEnd` |
| `/api/analysis`, `/analysis/stream` | `PrepareApi`, `PrepareFiles`, `Load`, `CommitAnalysis`, `EndRun` |
| `/api/shipment/plan` | `AskOzon`, `CommitPlan`, `EndCheck` |
| `/api/shipment/export` | `Exportable` (it changes nothing) |
| `/api/working-plan/*` | `EditPlan`, `SelectOzon`, `SelectCalculated` |
| cost prices, mappings, pack multiplicity | `PutCost`, `PutMappings`, `PutPack`, `DeletePackSave`, `DeletePackClear` |
| start of the process | `Restart` |

Abstractions. Snapshot identities (uuid4) are increasing numbers, so "last
inserted" is "greatest". The contents of the project are members of small
sets: two contents are equal exactly when the fingerprints the code compares
are. An edit may leave the override content as it was, since the code drops
the plans in that case too. `endpoint_quality` is a number per endpoint
(0..2), as in the code. A snapshot remembers which accounts its rows come from
(`rows`), because a smart refresh reuses rows of its base. Restart may happen
between any two steps, including inside setup. `SetupFailsEarly/Late` are the
two places where deleting a file can raise; the constant `UnlinkMayFail`
switches them on. Saving is atomic in the code (temporary file and replace)
and one assignment here.

### 2.2 DraftValidation

A section under `_state_lock` is one step; the Ozon calls between are steps of
their own. A call looks a candidate up (`Answered`, `Join`, `Miss`), looks a
second time under the lock and takes it (`Resume`, `Reserve`, `Limited`),
creates and polls (`SendCreate` ... `Timeslots`), publishes (`Publish`), and
wakes who joined (`Wake`). `Transition` is any lock, unlock or setup; `Revoked`
is `CREDENTIAL_CONTEXT_CHANGED` from the client. `posts` is history: what
happened at Ozon to each create, which the properties compare with what the
service remembers. Of the client the module keeps what matters here: creates
are sent one at a time and may leave long after their slot was reserved.
`cancelled` is not modelled, both callers leave it at its default. `reserved` is
history too: every create slot ever reserved, while `attempts` is the code's
list, which forgets slots. `BudgetKept` is about the former, so it says that
what the service forgets it no longer needs.

`DraftPromise` knows no calls, no cache and no table of flights: per candidate
it has the fate of the last create and since when, and `Create` is enabled only
after the rest that fate asks for (resume horizon, quarantine, cache lifetime).
`KeepsPromise` is `Promise!Spec` under the mapping `create <- Latest`, the last
entry of `posts`: every step of the service is a step of the promise or leaves
it alone. It holds for a cache with room for every candidate; section 4 shows
what happens otherwise.

### 2.3 OzonClient

Points of time are modelled as the ticks left until them, so time is unbounded
and the state space is finite. A call tries, is admitted or refused, sleeps
under the lock (`paced`), posts, is answered, and ends or sleeps without the
lock (`rest`) before the next attempt. `sinceAny`, `sinceStock`, `owed` and
`sent` are history: they record distances between POSTs and what Ozon asked
for, independently of the limits the code keeps. `Cancelled` may happen
wherever the code polls `check_cancelled`.

### 2.4 PriceEnrichment

| code | actions |
|---|---|
| `_refresh_response`: cancel, fetch, commit, start | `BeginRefresh`, `CommitRefresh`, `EndRefresh` |
| `OrderPriceEnrichment._run` | `WorkCheck`, `WorkTake`, `ReadAnswered`, `ReadFailed`, `ReadRevoked`, `WorkPublish`, `WorkRaised`, `WorkFinish` |
| `prioritize` | `Prioritize` |
| credentials | `LockOrUnlock`, `Replace` |
| start of the process | `RestartPrices` |

Several workers may be alive: a cancelled one learns it from the generation,
before its next request and again when it publishes. Generations count per
process, a restart begins at zero. The requests of a source come in
any order (`Requests`): what the rows are is not modelled. `Prioritize` is a
stable sort, stated as the rearrangement that keeps the order within the
preferred requests and within the others. The failures shown are a flag, not a
number; the circuit opens after one failure and a checkpoint is taken every second
price (3 and 25 in the code: the run has two prices).

### 2.5 Reading and reconciling evidence

`SourceSync`. `StartSync`, `ReadChannel`, `Backfill`, `HistoryRead`,
`ReadOthers`, `CommitSync` and `AbandonSync` follow `refresh_ozon_source`;
`NextDay` and `PostingChanges` are the world. Business days are numbers, weeks
are scaled (2 days in the run), and a posting changes only within the overlap
the code allows for. One refresh runs at a time; what overlapping refreshes do
to accounts and to the comparison is in `PlanningSession`. `sync.truth` is
history: Ozon's postings at the moment each channel was read.

`EvidenceReads`. One module for all adapters but that of the clusters, because
their loops differ only in how a row is judged (`Verdict`), in when a page ends
the read (`LastPage`) and in when it is refused (`GivesUp`). The vendor
(`ReadHonestPage`, `ReadOddPage`, `ReadFails`) may repeat cursors and send empty
pages to a reader with a cursor. An odd page has a row nobody asked for or too
large a total (`OddPages`), or it repeats a row, leaves one out, sends another in
its place, ends early or states too small a total (`SkewedPages`); every reader
may be sent every kind. The total of a bundle may be missing from any page, and
then nothing is counted (`Due`, `BundleStops`).

`received` and `skewed` are history: the vendor's rows in the pages taken, and
whether a page repeated, withheld or miscounted rows. They are needed because
most loops cannot tell. The list and the details of supply orders compare
identities; postings, stocks, the catalogue, local sale and bundles do not. The
catalogue, local sale and a bundle with a total compare counts, which a row
repeated and another left out satisfy; a posting sent twice is simply added
twice (`orders.py:454`), and one that is withheld is missed. So `AccountedFor`
says of every complete read that whatever was received is in the records or
reported, and that this is all the vendor holds, received once, where nothing
was skewed.

`EvidenceReconciliation`. `ReadStock`, `ReadSeller`, `ReadRecommendation`,
`ReadFact`, `ReadOrder` and `ReadPack` read one row of their source, in any
order; `Join` comes last. A row has the fields that are compared.

### 2.6 From evidence to a plan

`StockoutEpisodes` has one action, `AnalyseNextDay`: the analysis of a day
computes episodes, signals, distortions and clean routes anew from the orders
up to it, and the properties compare one day's result with the next. Shares are
cross-multiplied instead of divided. `DemandEstimates` (`Sell`, `Monday`) keeps
rates in twentieths of a unit, which is exact for medians, halves and caps.

| code | actions |
|---|---|
| `supply/feasibility.py`, `optimizer.py` | `Assess`, `Unallocated`, `Allocate` (one cluster each) |
| `supply/shippable_plan.py` | `Draft`, `ShipUnknownPack`, `ShipPacks` (one line each), `Publish` |
| `/api/working-plan/*`, `working_plan.py` | `Override`, `Reset`, `SetZero`, `ResetAll`, `SelectOzonLines`, `SelectModelLines`, `Expire`, `Recalculate` |
| `shipment/candidates.py` | `RefuseScope`, `FirstMethod`, `SkipMethod`, `GroupCluster`, `EndMethod`, `Merge` |
| `shipment/orchestration.py`, `ranking.py` | `ReceiveOffer`, `OptionRank` |

In `WorkingPlan` a handler is one action, since it runs under the project lock;
`PlanningSession` has the interleaving. In `ShipmentOptions` a cluster stands
for its lines, which enter and leave every step together, and the identifiers
of candidates, digests in the code, are in an arbitrary order that is chosen
when the candidates are final.

### 2.7 Economics

`EconomicsReports`. A handler is a list of steps (`Steps(kind)`): capture the
analysis and costs, take finance, load advertising, compare, answer; fetch and
put; parse and save. Each step is one critical section or one piece of work
between two; `PutCost`, `NewAnalysis`, `NewFilesAnalysis`, `DropAnalyses`,
`RemoveCampaign`, `WriteVault`, `ClearAccount`, `ClearFails` and `LockCabinet`
run in between. The store holds several analyses, of Ozon's evidence with the
account of the vault or of FILES with none; the newest is the current one.
`ClearAccount` ends a replacement and keeps the analyses of FILES
(`clear_api`). `ClearFails` ends it when the source file cannot be deleted,
which comes before any of these stores is cleared: finance, points and analyses
stay, and the history variable `leftover` remembers those of another account.
No handler compares the account of an analysis with that of the finance data
beside it, which `ReportsConsistent` says too. `FinanceReport` reads pages
(`FetchPage`, `FinanceFails`) and takes rows one by one (`TakeRow`, `NextPage`,
`EndDay`). `TargetPrice` has the search of `pricing.py` and, as the case of one
interval, that of `workspace.py`: `RefuseProduct`, `Enter`, `Double`, `Check`,
`Halve`, `Arrive`. Money is exact: the Decimal fractions are multiplied by their
common denominator.

## 3. Runs and bounds

Every module has one type invariant. The bounds are constants named in the
modules ("bound: ..."). `CHECK_DEADLOCK FALSE` everywhere: all work may be done
and all bounds reached, after which the program simply waits for requests that
the bounded model does not make.

| run | question | bounds and why they suffice |
|---|---|---|
| `accounts` | do sources and analyses follow the account of the vault, whoever commits last? | two accounts, four session generations, two sources, two analyses, one thread of each kind: an old and a new of everything, and a thread of the old session alive during the new one |
| `project` | is what can be exported computed from what is stored now? | one account; two contents of packs, costs and decisions; two analyses, one plan, a pack deletion between its two halves |
| `stores` | does the healthy fallback survive a full store, and does memory agree with the disk? | store of two, three snapshots, two endpoints, two overlapping refreshes, cleanup that may fail, a replaced account |
| `drafts_crossed` | does every call end? | two calls with the same two candidates in opposite orders, cache of one, two session changes, time stopped (no call waits for time) |
| `drafts_horizon` | one draft per horizon, budget, and does the service implement `DraftPromise`? | three calls for one candidate (symmetric), four points of time, windows of one and three ticks, two polls, two session changes |
| `services` | are pacing, cooldown and attempts kept; do prices follow the account and do workers and reads end? | see below |
| `computations` | is each computation exact, optimal, stable and independent of order? | see below |
| `overlap`, `mappings`, `failed_replacement`, `base`, `drafts_evicted` | section 4 | the smallest instance that has the behaviour |

Two runs are sums. `MCServices` and `MCComputations` put components side by
side that share no variable; the variable `part` says which one moves, the
others stay in one initial state. The reachable states are those of the
components added up, every property is about the component that moves, and
nothing is claimed about interactions: those that exist are in
`PlanningSession` and `DraftValidation`.

`services`:

| part | bounds and why they suffice |
|---|---|
| client | two calls, one cancellable read and one create; three attempts; Retry-After absent, acceptable and too long; two session changes; unbounded time |
| prices | two prices, one of them final; two accounts; four generations, so that an old worker, a new one and a full refresh of another account meet; two session changes |
| reads | up to three rows (two for plain batches) per endpoint out of all kinds its adapter tells apart; pages of two; one odd page of any kind, skewed ones included, on top of honest ones, so a total may be missing, wrong or contradicted and a row repeated, replaced or lost (the proof has any number of them) |

`computations`:

| part | bounds and why they suffice |
|---|---|
| sync | three postings in two channels, weeks of two days, a tail of one, history of at most three weeks, two days that follow each other, one failing endpoint or gap, one change of the catalogue: a base, a tail that meets it, and a refresh that fails in between |
| economics | one request of every kind against all changes, two cabinets, two advertising reports that overlap in days and products, one finance report, read before or after the accounts change; two analyses, of Ozon or of FILES, in a store of one, so that the second evicts the first under an open report; one assortment that lacks an advertised product; a removal that fails or not. Larger stores, where an analysis of FILES comes to light when the newer ones are cleared, are in the proof |
| finance | seven ledgers: sales, returns, adjustments, fees, advertising, unheard-of and contradictory lines; two days, up to three pages of two rows that may overlap |
| plan | three clusters; needs, capacities, profits, sites and stocks around each boundary; packs of 1 to 3 and unknown; the manager types 0, 2, 3, 4 |
| options | three clusters, three methods with other limits on clusters and volume, three candidates, handoff points known and unknown, answers with and without a time slot |
| stockouts | two regions; a calm time and up to three phases of other lengths in which deliveries come from here, partly or fully from there; windows of three days; five days of analysis across the end of a week |
| demand | histories of up to nine weeks, so that the formulas for 0, 1–3, 4–7 and 8 weeks all apply; sales around the ratios that decide the regime |
| price | routes with up to three tariff rows, with gaps and overlaps; two routes; margin and ROI; three tax systems; three doublings |
| reconcile | rows that repeat, disagree, lack a field or lie outside the catalogue, read in every order |

Properties, by what they are about:

* *Accounts.* `SourcesOfVault`, `AnalysesOnCurrentSource`,
  `SessionsNeverRevive`; `PricesOfAccount`: a price is kept, saved and shown for
  the account it was read for only; `StoresOfCabinet`: so are finance and
  handoff points, but for those that outlived a removal that failed.
* *Evidence.* `SourceNeverRegresses` (one refresh at a time), `FallbackKept`,
  `NewestIsOnDisk`; `HistoryExact`: a complete history is what Ozon had, each
  posting once; `EvidenceHonest`: complete evidence hides no quarantined posting
  and was asked for the catalogue it is kept with; `AccountedFor`: a read that
  counts as complete lost nothing it was sent, and nothing at all if the vendor
  neither repeated nor withheld rows; `OrderIndependent`: what rows
  disagree on stays unknown, whatever order they come in.
* *What can be exported.* `PackDataFresh`, `PlansMatchDecisions`,
  `ExportFaithful`.
* *Plans.* `AllocationOptimal`: no other division of the stock earns more;
  `PlanShippable`: whole packs within stock and capacity, and no pack stranded;
  `SelectionFair`: Ozon's quantities never take a SKU over its stock, nor a
  pack from a line that was chosen; `OptionsSound`: grouping loses no cluster,
  every usable method gets a candidate, the best option is first.
* *Estimates.* `HistoryStable`: the days already judged are not judged anew
  within a week, and a cleaned day stays clean; `RateMonotone`: selling more
  never lowers the rate.
* *Money.* `ReportBalances`: the report explains every amount booked, once;
  `ReportsConsistent`: a report that leaves shows one moment, and finance of the
  account of the vault; `TargetIsLeast`:
  the price meets the target and no lower one does.
* *Drafts.* `NoSecondDraft`, `OpenDraftsResumable`, `BudgetKept`,
  `KeepsPromise`, `CallsEnd`; `UnknownQuarantined` is checked where it fails.
* *Client.* `IntervalsKept`, `CooldownKept`, `NotRepeated`, `CallsEnd`.
* *Background work ends.* `PricesSettle`, `SettledIsComplete`, `EveryReadEnds`.

### Fairness

Only liveness needs fairness. In `drafts_crossed`, `CallsEnd` uses `FairSpec`:
weak fairness of the steps of each call's thread. The code justifies it because
a thread that can run keeps running, a `threading.Lock` held for finitely many
finite sections becomes free, and every transport call has a timeout below 60
seconds (`OzonClient` refuses a longer one). In `services`, `ThreadsRun` asks
for the same of the client's calls, and that time passes (`Tick`); of the price
worker (some worker that can step eventually does: a started thread keeps
running, and each of its requests ends by the client's timeout); and of a read,
which is a loop of one thread whose next page comes or whose request fails. No
fairness is assumed for the start of a call, for cancellation, for lock and
unlock, for a refresh, or for what Ozon answers. Weak fairness on the admission
lock is enough although the lock is not fair: other calls make finitely many
attempts, so the lock is eventually free for good.

## 4. Where the code departs from its promises

The first five are runs with the one violated property; `PROJECT.json` quotes
both sides of all.

* `overlap` (bug). A refresh is compared with the base it captured when it
  started. Of two overlapping refreshes the later commit replaces a better
  snapshot by a worse one it was never compared with.
* `base` (bug). A refresh captures session and base without the commit lock. If
  it starts between the vault write and the invalidation inside setup, a smart
  refresh of the new account reuses rows of the old account's snapshot.
* `failed_replacement` (bug). When a state file cannot be deleted, replacing
  the credentials stops before it clears analyses and plans. The vault has the
  new account, and the old account's plan is still exported, because export
  compares no account. (`EconomicsReports!ClearFails` is the same failure seen
  from the economics handlers: finance and handoff points stay as well.)
* `drafts_evicted` (bug). The answer cache evicts its oldest entry whatever
  its kind, an ambiguous create in quarantine included; the next validation of
  that candidate creates again.
* `mappings` (documentation). The design says that changing mappings marks the
  result as requiring recalculation; an analysis that loaded the old mappings
  and commits after the change is the current result.

Two more are stated in the modules and refuted by TLC on the instance of
`computations`, of which they are therefore not properties:

* `SourceSync!GoodRefreshShown` (bug). While a channel has fewer usable weeks
  than demand asks for, every smart refresh widens its window to the end of the
  backfill and then marks both order channels incomplete; a full refresh leaves
  them complete. The comparison with the base rejects the candidate, so for a
  seller with a short history a smart refresh that lost nothing never becomes
  the source.
* `SupplyPlan!UnknownNeedStaysUnknown` (documentation). A cluster whose need is
  unknown has the ceiling 0, is allocated 0 and enters the plan with a known
  quantity of 0, although the design says that missing evidence remains unknown
  and is never coerced to zero.

Two things follow for the other runs. `SourcesOfVault`,
`AnalysesOnCurrentSource` and `ExportFaithful` are claimed for cleanups that
succeed (`UnlinkMayFail = FALSE`); run `stores` and the theorems without that
assumption cover failing cleanups. `SourceNeverRegresses` is claimed for one
refresh at a time.

## 5. What is proved

The theorems hold for every value of the constants: any number of threads, any
contents, any store sizes and any bounds. They use the assumptions below, which
TLC evaluates in the runs, and what the table adds.

| module | assumptions | why the code justifies them |
|---|---|---|
| `PlanningSession` | `BoundsAssumption`, `ContentsAssumption` | sizes are naturals; 0 is a content |
| `DraftValidation` | `LimitsAssumption`, `WorkAssumption` | every quota's window is within the day after which a slot is forgotten; a call has candidates |
| `OzonClient` | `CallsAssumption`, `PacingAssumption` | intervals are naturals |
| `PriceEnrichment` | `PriceAssumption`, `NothingAssumption` | a source has finitely many prices; the absent value is no price |
| `EvidenceReads` | `ReadPageAssumption`, `ListingsAssumption` | `ListingOK`: a batch asks for SKUs and is answered about them, a posting has a status of the domain or an unknown one, the catalogue tells two products apart by their identity; nobody is asked for the odd page's stranger |
| `SourceSync` | `SyncAssumption` | weeks and bounds are naturals; the overlap (28 days) is not longer than a full window (84 days); there is a day, and a catalogue, to begin with |
| `EvidenceReconciliation` | `InputsAssumption` | the readers parse stock as non-negative integers and drop rows without the SKU or article they are about |
| `EconomicsReports` | `EconAssumption` | days and sizes are naturals |
| `SupplyPlan` | `ClustersAssumption`, `CasesAssumption`, `HorizonAssumption`, `UnknownAssumption` | `OfferTypeOK`: readers and contracts (`supply/contracts.py`) let no negative quantity and no empty pack through, an offer with a profit has a margin of the same sign |
| `WorkingPlan` | `QuantitiesAssumption`, `ManagedAssumption` | a typed quantity is a non-negative integer |
| `ShipmentOptions` | `OptionsAssumption`, `RequestsAssumption` | the contracts refuse a request without methods or with a method twice, and a limit below one; clusters, quantities, ranks and volumes are integers or `None`, and `None` is neither a warehouse nor a reason |
| `TargetPrice` | `RatesAssumption`, `ProductsAssumption`, `SearchAssumption` | `ProductTypeOK`: tariffs, costs, prices and targets are not negative, rates but the advertising rate are at most one, the buyout rate is positive |
| `DemandEstimates` | `WeeklyAssumption`, `NoRateAssumption` | units sold are naturals |
| `StockoutEpisodes` | `HistoriesAssumption`, `WindowAssumption`, `AnalysisAssumption` | units are naturals; thresholds and windows are validated as positive (`stockout_episodes.py:49-59`) |
| `FinanceReport` | `FinanceAssumption`, `LedgersAssumption`, `CostAssumption`, `DeliveredAssumption` | `AccrualOK`: `_money` reads every amount as a number or refuses the page; a line of a posting names a product |

| theorem | property | additional assumption |
|---|---|---|
| `PlanningSessionProofs!TypeCorrect` | `TypeOK` | |
| `SourcesAlwaysOfVault` | `SourcesOfVault` | cleanup succeeds |
| `AnalysesAlwaysCurrent` | `AnalysesOnCurrentSource` | cleanup succeeds |
| `FallbackAlwaysKept` | `FallbackKept` | |
| `NewestAlwaysOnDisk` | `NewestIsOnDisk` | `KeepSources > 1` |
| `SourceNeverLosesEvidence` | `SourceNeverRegresses` | `OneRefresh`, `KeepSources > 1` |
| `PackDataAlwaysFresh` | `PackDataFresh` | |
| `PlansAlwaysMatchDecisions` | `PlansMatchDecisions` | |
| `RevokedStaysRevoked` | `SessionsNeverRevive` | |
| `ExportAlwaysFaithful` | `ExportFaithful` | cleanup succeeds |
| `DraftValidationProofs!DraftTypeCorrect` | `TypeOK` | |
| `NoSecondDraftEver` | `NoSecondDraft` | |
| `OpenDraftsKept` | `OpenDraftsResumable` | |
| `CreateBudget` | `BudgetKept` | |
| `QuarantineKept` | `UnknownQuarantined` | `Roomy` |
| `PromiseImplemented` | `KeepsPromise` | `Roomy` |
| `ServicesProofs!TypeCorrect` | `TypeOK` | |
| `NeverRepeated` | `NotRepeated` | |
| `IntervalsAlwaysKept` | `IntervalsKept` | |
| `CooldownAlwaysKept` | `CooldownKept` | |
| `PriceTypesCorrect` | `PricesTypeOK` | |
| `PricesStayWithAccount` | `PricesOfAccount` | |
| `LastAnswerPublished` | `SettledIsComplete` | |
| `ReadTypesCorrect` | `ReadTypeOK` | |
| `EveryRowAccounted` | `AccountedFor`, for any number of odd pages | |
| `ServicesTypesCorrect` | `ServicesTypeOK` | |
| `EvidenceProofs!SyncTypesCorrect` | `SyncTypeOK` | |
| `HistoryIsExact` | `HistoryExact` | |
| `EvidenceIsHonest` | `EvidenceHonest` | |
| `EvidenceTypesCorrect` | `ReconcileTypeOK` | |
| `EvidenceOrderIndependent` | `OrderIndependent` | |
| `EconomicsProofs!EconTypesCorrect` | `EconTypeOK` | |
| `StoresKeptOfCabinet` | `StoresOfCabinet` | |
| `ReportsAreConsistent` | `ReportsConsistent` | |
| `FinanceTypeCorrect` | `FinanceTypeOK` | |
| `ReportAlwaysBalances` | `ReportBalances` | |
| `WorkingPlanProofs!GreedyIsOptimal`, `PlanStaysOptimal` | `AllocationOptimal` | |
| `PlanIsShippable` | `PlanShippable` | |
| `WorkTypeCorrect` | `WorkTypeOK` | |
| `SelectionIsFair` | `SelectionFair` | |
| `OptionTypesCorrect` | `OptionTypeOK` | |
| `OptionsAreSound` | `OptionsSound` | |
| `EconomicsProofs!PriceTypeCorrect` | `PriceTypeOK` | |
| `TargetIsTheLeast` | `TargetIsLeast` | |
| `DemandTypeCorrect` | `DemandTypeOK` | |
| `RateIsMonotone` | `RateMonotone` | |
| `StockTypesCorrect` | `StockTypeOK` | |
| `HistoryIsStable` | `HistoryStable` | |
| `ComputationsProofs!ComputationsTypesCorrect` | `ComputationsTypeOK` | |
| `ComputationsSound` | the safety properties of run `computations`, composed | |

*Cleanup succeeds* is `~UnlinkMayFail`. *`KeepSources > 1`* (the code: 3): with a
store of one, an unhealthy snapshot after a healthy one would be evicted at once
and memory would not hold what the disk does. *`OneRefresh`*: no two refreshes
overlap; run `overlap` shows what happens when they do. *`Roomy`*: the answer
cache has room for every candidate; run `drafts_evicted` shows what happens
otherwise. The other theorems about drafts hold for a cache of any size, and
those without "cleanup succeeds" also when deleting a file fails.

The arguments:

* *Accounts.* `SourcesOfVault` is inductive because a refresh activates its
  snapshot only under the context lock and only for an active session, and a
  replacement clears the store before it gives the lock back.
  `AnalysesOnCurrentSource` is inductive relative to it: from the activation of
  a source until the old analyses are gone the lock is held, and an analysis
  commits only when no handler holds it and its source is the newest.
* *Pack data.* `PackDataFresh` is inductive: a commit compares the packs a job
  captured with those of now, and every change of packs either clears with it
  or leaves a deletion pending.
* *Sessions.* A captured generation is never ahead of the vault
  (`SessionsOfPast`) and generations only grow, so once the two differ, or the
  session was locked, they never agree again.
* *Decisions and export.* `PlansMatchDecisions` needs that the analysis of every
  plan, and of every request waiting for Ozon, has been handed out before
  (`PlansOfIssuedApi`), so the analysis that is committed next cannot have a
  plan; and that a FIFO store keeps what it is given (`FifoPutKeeps`), so the
  new analysis is indeed the newest. `ExportFaithful` follows from
  `AnalysesOnCurrentSource`, `PackDataFresh` and `PlansOfIssuedApi`.
* *Store.* Snapshots have distinct identities that have been handed out, and the
  file holds at most one (`SourcesIdentified`). The snapshot put last has the
  greatest identity, so with room for two it is not what is evicted
  (`NewestNotEvicted`), and the last healthy one never is (`HealthyNotEvicted`).
  With one refresh, the base it compares with stays the newest snapshot of its
  session until it commits (`BaseIsNewest`), so what it compares with is what
  it replaces.
* *Drafts.* A call holds the flight of its candidate from the second look to
  the publication (`Held`), so whatever concerns a candidate is moved by one
  call. While it creates, no draft of the candidate is known (`Unremembered`);
  a draft that is known is the last create of the candidate and unresolved
  (`Known`). That gives `NoSecondDraft` without a word about the cache, which
  may evict anything. `BudgetKept` needs that the slots the service kept are
  the latest ones ever reserved and the others have left the longest window
  (`Suffix`).
* *Refinement.* What the promise asks for before a create has rested is either
  still to be published by the call that holds the flight, or cached, or old
  enough (`Kept`); only this needs a cache with room. Then a step that appends
  to `posts` is `Create` of the promise, one that ends the last entry is its
  end, a tick is a tick, and every other step leaves the mapped state alone.
* *Client.* Whoever sleeps towards the limits or waits for Ozon holds the lock
  (`Owned`), so nobody moves the limits meanwhile; the sleep left covers every
  limit, the limits cover what was promised (`Paced`). The attempts of a call
  count its POSTs (`AttemptsCounted`).
* *Prices.* A worker of the present generation works for what is published and
  for the account of the cache; an older worker can no longer store anything,
  because generations only count up and a restart, which begins again at zero,
  leaves no worker. So the cache, the file and what is shown change account
  together.
* *Reads.* A page is judged by a fold over its rows, and what it makes of them
  is unfolded row by row (`RowByRow`, `PageJudged`): every row is kept, reported
  or without interest, or the page is fatal (`RowsAccounted`), and in a list of
  supply orders each is one more (`ListCounted`). So whatever was received stays
  accounted for, whichever page comes next (`PageTaken`), and a row nobody asked
  for is fatal to all but the readers that pass over it. Where nothing was
  skewed, as many rows were fetched as the place of the read says and all up to
  it were received (`ReadingOK`), and the last page is at the end
  (`LastAnswers`). `ReadInv` joins the two.
* *Refresh.* A posting of a day that lies before the overlap of a later day
  cannot change any more. So the rows a smart refresh keeps are what a new
  reading would return (`KeptIsCurrent`), the tail supplies the rest, and the
  window is exact (`ReadingExact`); the overlap must lie within the window,
  which is the assumption above. That a channel is clean, and what reused
  evidence was asked for, are carried along with the source (`Clean`,
  `Linked`). Windows start on Mondays, so the weeks a smart refresh takes over
  are those of its source, and a backfill adds to them only while there are
  fewer than the longest window has (`Spanned`, `Covering`).
* *Reconciliation.* After any part of the rows, what is kept of a thing says
  exactly what those rows say of it together: nothing, the one value, or a
  mark when two differ (`Agreed`, `Named`, `Packed`, `Counted`). These
  statements mention no order. A product is joined after all other rows, when
  what its article means can no longer change (`Joined`).
* *Economics.* A session belongs to one account, because an account is replaced
  together with the session; what a request of an active session has taken or
  stores is of the account of the vault, or is among what a failed removal left
  (`JobOK`, `EconInv`): `leftover` is exactly what was of another account when
  the removal failed, and nothing of another account is stored later. A report
  whose analysis, costs or advertising changed is refused in the step that would
  answer.
* *Induction over data.* The prover has no induction rule for data. It is
  replaced by the least counterexample: a non-empty finite family of sets has a
  minimal member (`MinimalSubset`, from the well-foundedness of strict
  inclusion), a non-empty set of naturals a least one (`LeastNatural`). If a
  law fails of some set, take a minimal one it fails of, remove an element, and
  the law of the rest contradicts it. In this way `FiniteSetFacts` proves what
  the fold behind `Total` computes (`TotalIsSum`: removing one element removes its
  value), and from that how sums split, compare and regroup by key.
* *Allocation.* The loop leaves no gap (`Allocating`): what was handed out and
  what is left add up to the stock, every cluster already visited has its ceiling
  or nothing is left, and visited clusters come before the others. So at its end
  there is a worth `t` such that every cluster worth more has its ceiling, and
  every cluster worth less has nothing. For any other division `f`, each term of
  `(alloc - f) * (worth - t)` is then at least zero, and `alloc` hands out at
  least as much as `f`; summed, `alloc` is worth as much as `f`. A `t` below zero
  cannot occur, since eligible clusters have a profit and hence no negative margin.
* *Whole packs.* `Rounding` is the same statement for the second pass, in which a
  line may get more than its allocation: packs shipped and stock left add up, and
  a line visited reached its target or less than a pack is left, after which no
  line gets any.
* *Selection.* No action leaves a line with two sources (`NeverBoth`). The lines
  sooner than a line form a chain of initial segments, and `Spent` of a segment
  is the sum of what its lines were given and never exceeds the budget. Once a
  chosen line is short, less than a pack is left, and since chosen lines come
  first, every line of the model is after it and gets nothing.
* *Options.* A strict order arranges a finite set in one way, ascending
  (`ArrangedSorts`); every sorted list of the module is one. While a method is
  grouped, its clusters are dealt out among the queue, the groups and the
  diagnostics, each to exactly one (`Apart`), what has left the queue has been
  looked at (`Looked`), and nothing is yet said of later methods (`InHand`).
  After the first candidate of each method the budget takes the rest, so who has
  one keeps one (`MethodsOffered`). The ranking is a sequence of buckets: keys
  ascend between them, and within one the candidates that need a handoff point
  trade places among themselves, which keeps the others where they were; places
  in the flattened sequence follow from places in buckets (`SortedOf`).
* *Price.* Between two bounds of tariffs all fees are constant, so within one
  interval profit less the requirement is linear in the price, up to the maximum
  with zero in the tax base, and what failed at its first price and is met later
  stays met (`MetStaysMet`). That makes bisection sound, and the search keeps its
  bracket (`TargetInv`): no price of an earlier interval meets the target, none
  below `low` does, and `high` does while it halves.
* *Demand.* `Nth` is an order statistic: a larger element never lowers it, and by
  no more than to the next (`Nth` is between the values it was taken from). The
  regimes are then compared pairwise: the rate after the change is at least the
  rate before, whichever way the confirmation of the trend went.
* *Stockouts.* Candidates are merged in a total order, and the groups this leaves
  cover the candidates and lie at least a day apart, so an episode has one start.
  Which windows exist depends on the orders and the axis alone; an analysis a day
  later has all completed windows of the earlier one, and none is new within
  the same week (`HistoryIsStable`).
* *Money.* Every line of an accrual is taken apart such that its revenue less its
  proceeds is its expense, an accrual leaves its rest as an expense, and the
  accruals taken so far (`seen`) are those delivered, once, in spite of overlapping
  pages (`BooksInv`, `DayInv`). At the end of the last day `seen` is the ledger.
  Summing the lines by product (`TotalByKey`) gives the report.

## 6. What is only model-checked, and what is not modelled

Only model-checked, with the reason:

* Liveness (`CallsEnd`, `PricesSettle`, `EveryReadEnds`): fairness and `ENABLED`
  are outside the reach of the proof system. Every safety invariant and action
  property of the runs is a theorem, under the assumptions of section 5.

What the models assume of the world:

* Two accruals of one day with the same identity (`accrual_id`, else
  `type_id`) are the same accrual (`finance.py:175` takes them for one).
* Every posting has a day on which it counts, and it changes only within the
  overlap that a smart refresh reads again; a later change is not seen by
  design.
* Prices, quantities and rates are small integers. The code's Decimal has at
  least 28 digits, and nothing it computes here comes near that.

Not modelled, and why:

* The frontend: browser state and rendering; its requests are the handlers.
* Diagnostics and the transport comparison: read-only probes for support.
* Cryptography, JSON and xlsx encodings, the parsers of uploaded files and of
  single fields, error texts, logging, security headers, host filtering and the
  launcher: no control that other components can observe.
* The assembly of what the user reads from an analysis, summaries, the money
  lost to stockouts, flows and the confidence of a route: sums and texts over
  data whose origin is modelled.
* Vault reset and cancellation of a draft validation: no caller uses them.
* `clear_api` as two steps (rebuilding a dictionary while another thread puts),
  and `evidence()` of the price enrichment, which reads two values in two lock
  sections for display: recorded as hazards.
* What the Seller API does, beyond the answers the code tells apart.

## 7. Plan

In this order; finished parts are marked.

1. `PlanningSession` with its runs and proofs. *Done.*
2. `DraftValidation` with its runs. *Done.*
3. `OzonClient` with its run and proofs. *Done.*
4. `DraftPromise` and that `DraftValidation` implements it. *Done.* A
   composition of drafts with the client's pacing, for what reaches Ozon per
   window, is left: no document promises anything about it.
5. `PriceEnrichment` and its liveness. *Done.*
6. Reading Ozon: `SourceSync`, `EvidenceReads`, `EvidenceReconciliation`.
   *Done.*
7. `WorkingPlan` over `SupplyPlan`. *Done.*
8. `ShipmentOptions`. *Done.*
9. `StockoutEpisodes` and `DemandEstimates`. *Done;* flows and the confidence of
   routes are left.
10. `EconomicsReports`, `FinanceReport`, `TargetPrice`. *Done;* summaries are
    left.

Theorems to add, the most important first:

* How `SourceSync` refines the refresh of `PlanningSession` (qualities as the image
  of the evidence).
