---------------------------- MODULE EconomicsReports ----------------------------
(***************************************************************************)
(* The economics handlers of the API: reports, daily series, exports, the  *)
(* period and buyout reports, loading of finance and of handoff points,    *)
(* and the import of advertising costs.  Each reads its inputs in several  *)
(* critical sections, works outside the locks, and compares what it read   *)
(* with what is stored now before it answers.                              *)
(***************************************************************************)
EXTENDS Naturals, Sequences, FiniteSets

CONSTANTS
    Jobs,             \* requests in progress
    Cabinets,         \* Ozon accounts
    CostContents,     \* contents of the saved cost prices
    Assortments,      \* sets of products an analysis may have
    AdReports,        \* parsed reports: records of campaign, from, to, skus, spend
    NoInput,          \* nothing: no analysis, nothing read
    FinanceRoom,      \* capacity of FINANCE_STORE, 3 in the code
    AnalysisRoom,     \* capacity of ANALYSIS_STORE, 3 in the code
    MaxAnalysis,      \* bound: analyses committed
    MaxFinance,       \* bound: finance snapshots stored
    MaxTransitions    \* bound: unlock-session transitions

VARIABLES
    cabinet,      \* the vault: its account, the session, whether it is unlocked
    replacing,    \* a credential setup holds the context lock: written, not cleared
    analyses,     \* ANALYSIS_STORE: number, account and products of each;
                  \* one made of FILES has no account
    costs,        \* cost prices in the project file
    ads,          \* advertising.json
    finances,     \* FINANCE_STORE, oldest first
    points,       \* HANDOFF_STORE: the accounts its points were read for
    job,          \* by request: what it has read and where it is
    issued,       \* bound counters: analyses, finance snapshots
    leftover      \* history: what a removal that failed left of other accounts

econInputs == <<analyses, costs, ads>>
econVars == <<cabinet, replacing, econInputs, finances, points, job, issued, leftover>>

-----------------------------------------------------------------------------
\* What the handlers do one after the other: "open" captures the newest
\* analysis and the cost prices, "take" a finance snapshot of the account,
\* "ads" loads advertising, "compare" and "answer" look again, "fetch" asks
\* Ozon, "put" stores for the account, "parse" reads the uploads and "save"
\* merges them.
Steps(kind) ==
    CASE kind = "workspace" -> <<"open", "ads", "answer">>
      [] kind = "export"    -> <<"open", "ads", "compare", "answer">>
      [] kind = "series"    -> <<"open", "answer">>
      [] kind = "buyout"    -> <<"open", "take", "answer">>
      [] kind = "period"    -> <<"take", "open", "ads", "compare", "answer">>
      [] kind = "finance"   -> <<"fetch", "put">>
      [] kind = "points"    -> <<"fetch", "put">>
      [] kind = "import"    -> <<"open", "parse", "save">>

Kinds == {"workspace", "export", "series", "buyout", "period", "finance", "points", "import"}
OfAccount == {"buyout", "period", "finance", "points"}   \* these capture the session

ASSUME EconAssumption ==
    /\ NoInput \notin Kinds
    /\ \A report \in AdReports : report.from \in Nat /\ report.to \in Nat
    /\ {FinanceRoom, AnalysisRoom, MaxAnalysis, MaxFinance, MaxTransitions} \subseteq Nat

NoJob == [steps |-> <<>>, kind |-> NoInput, account |-> NoInput, session |-> 0,
          analysis |-> NoInput, costs |-> NoInput, ads |-> NoInput, finance |-> NoInput]
AtStep(j, label) == job[j].steps # <<>> /\ Head(job[j].steps) = label
Next1(j) == [job[j] EXCEPT !.steps = Tail(@)]
Refuse(j) == job' = [job EXCEPT ![j] = NoJob]

\* ANALYSIS_STORE: the newest, put, and what clear_api keeps.
Newest == {a \in analyses : \A b \in analyses : b.id <= a.id}
analysis == IF Newest = {} THEN NoInput ELSE CHOOSE a \in Newest : TRUE
WithAnalysis(a) ==
    LET all == analyses \cup {a}
    IN IF Cardinality(all) > AnalysisRoom
       THEN all \ {x \in all : \A y \in all : x.id <= y.id} ELSE all
FilesOnly == {a \in analyses : a.account = NoInput}

\* is_context_active
JobActive(j) == cabinet.unlocked /\ cabinet.session = job[j].session

\* Wrong on purpose: the session is not asked when data is stored.
StoredUnasked(j) == ~replacing
\* commit_active_credential_context: with the context lock, in an active session.
Committable(j) == ~replacing /\ JobActive(j)

\* Wrong on purpose: advertising is not compared.
CurrentButAds(j) == analysis = job[j].analysis /\ job[j].costs \in {NoInput, costs}
\* _economics_report_is_current, for the inputs this handler has read.
Current(j) ==
    /\ analysis = job[j].analysis
    /\ job[j].costs \in {NoInput, costs}
    /\ job[j].ads \in {NoInput, ads}
-----------------------------------------------------------------------------
(* Advertising.                                                            *)

\* A report has a row for each of its products and each day of its period.
AdRows(report, skus) ==
    [campaign : {report.campaign}, sku : report.skus \cap skus,
     day : report.from..report.to, spend : {report.spend}]

InPeriod(row, report) == row.day >= report.from /\ row.day <= report.to

\* apply_report: nothing without a known product; otherwise the campaign's days
\* of the period are replaced.  days is a bag of rows: [row -> count].
ApplyReport(data, report, skus) ==
    LET incoming == AdRows(report, skus)
        retained == {row \in DOMAIN data.days :
                        ~(row.campaign = report.campaign /\ InPeriod(row, report))}
        count(row) == (IF row \in retained THEN data.days[row] ELSE 0)
                      + (IF row \in incoming THEN 1 ELSE 0)
        days == [row \in retained \cup incoming |-> count(row)]
    IN IF incoming = {} \/ days = data.days THEN data
       ELSE [days |-> days, campaigns |-> data.campaigns \cup {report.campaign}]

\* advertising_remove
WithoutCampaign(data, campaign) ==
    LET kept == {row \in DOMAIN data.days : row.campaign # campaign}
    IN [days |-> [row \in kept |-> data.days[row]], campaigns |-> data.campaigns \ {campaign}]

\* What load_advertising accepts: each campaign, product and day once, and
\* exactly the campaigns that have days.
Loadable(data) ==
    /\ \A row \in DOMAIN data.days : data.days[row] = 1
    /\ \A r, s \in DOMAIN data.days :
           r.campaign = s.campaign /\ r.sku = s.sku /\ r.day = s.day => r = s
    /\ data.campaigns = {row.campaign : row \in DOMAIN data.days}
-----------------------------------------------------------------------------
(* The handlers.                                                           *)

\* The request arrives; those about the account need an unlocked vault.
Ask(j, kind) ==
    /\ job[j] = NoJob
    /\ kind \in OfAccount => cabinet.unlocked
    /\ job' = [job EXCEPT ![j] =
           [NoJob EXCEPT !.steps = Steps(kind), !.kind = kind,
                         !.account = IF kind \in OfAccount THEN cabinet.account ELSE NoInput,
                         !.session = cabinet.session]]
    /\ UNCHANGED <<cabinet, replacing, econInputs, finances, points, issued, leftover>>

\* The newest analysis, which the request names, and the project with it.
OpenAnalysis(j) ==
    /\ AtStep(j, "open")
    /\ IF analysis = NoInput THEN Refuse(j)
       ELSE job' = [job EXCEPT ![j] =
                [Next1(j) EXCEPT !.analysis = analysis,
                    !.costs = IF job[j].kind \in {"workspace", "export", "period"}
                              THEN costs ELSE NoInput]]
    /\ UNCHANGED <<cabinet, replacing, econInputs, finances, points, issued, leftover>>

TakenFrom(j, snapshot) == snapshot.account = job[j].account

\* A finance snapshot the request names; without one of the account it ends.
TakeFinance(j) ==
    /\ AtStep(j, "take")
    /\ \/ \E i \in DOMAIN finances :
              /\ TakenFrom(j, finances[i])
              /\ job' = [job EXCEPT ![j] = [Next1(j) EXCEPT !.finance = finances[i]]]
       \/ Refuse(j)
    /\ UNCHANGED <<cabinet, replacing, econInputs, finances, points, issued, leftover>>

LoadAds(j) ==
    /\ AtStep(j, "ads")
    /\ job' = [job EXCEPT ![j] = [Next1(j) EXCEPT !.ads = ads]]
    /\ UNCHANGED <<cabinet, replacing, econInputs, finances, points, issued, leftover>>

Compare(j) ==
    /\ AtStep(j, "compare")
    /\ IF Current(j) THEN job' = [job EXCEPT ![j] = Next1(j)] ELSE Refuse(j)
    /\ UNCHANGED <<cabinet, replacing, econInputs, finances, points, issued, leftover>>

\* The answer is what a job without steps has read.
AnswerReport(j) ==
    /\ AtStep(j, "answer")
    /\ job[j].kind \in OfAccount => ~replacing
    /\ IF Current(j) /\ (job[j].kind \in OfAccount => Committable(j))
       THEN job' = [job EXCEPT ![j] = Next1(j)] ELSE Refuse(j)
    /\ UNCHANGED <<cabinet, replacing, econInputs, finances, points, issued, leftover>>

\* Ozon answers, fails, refuses a revoked session, or the client went away.
Fetch(j) ==
    /\ AtStep(j, "fetch")
    /\ \/ job' = [job EXCEPT ![j] = Next1(j)]
       \/ Refuse(j)
    /\ UNCHANGED <<cabinet, replacing, econInputs, finances, points, issued, leftover>>

PutFetched(j) ==
    /\ AtStep(j, "put") /\ ~replacing
    /\ IF ~Committable(j) THEN UNCHANGED <<finances, points, issued>>
       ELSE IF job[j].kind = "points"
       THEN /\ points' = points \cup {job[j].account}
            /\ UNCHANGED <<finances, issued>>
       ELSE /\ issued.finance < MaxFinance
            /\ issued' = [issued EXCEPT !.finance = @ + 1]
            /\ finances' = LET all == Append(finances, [id |-> issued.finance + 1,
                                                        account |-> job[j].account])
                           IN IF Len(all) > FinanceRoom THEN Tail(all) ELSE all
            /\ UNCHANGED points
    /\ Refuse(j)
    /\ UNCHANGED <<cabinet, replacing, econInputs, leftover>>

\* The uploads are read and parsed without a lock; a broken one is left out.
Parse(j) ==
    /\ AtStep(j, "parse")
    /\ job' = [job EXCEPT ![j] = Next1(j)]
    /\ UNCHANGED <<cabinet, replacing, econInputs, finances, points, issued, leftover>>

SaveAds(j, reports) ==
    /\ AtStep(j, "save")
    /\ ads' = IF analysis # job[j].analysis THEN ads
              ELSE LET first == IF reports = <<>> THEN ads
                                ELSE ApplyReport(ads, reports[1], analysis.skus)
                   IN IF Len(reports) < 2 THEN first
                      ELSE ApplyReport(first, reports[2], analysis.skus)
    /\ Refuse(j)
    /\ UNCHANGED <<cabinet, replacing, analyses, costs, finances, points, issued, leftover>>

\* The client reads the answer.
AnswerRead(j) ==
    /\ job[j] # NoJob /\ job[j].steps = <<>>
    /\ Refuse(j)
    /\ UNCHANGED <<cabinet, replacing, econInputs, finances, points, issued, leftover>>

\* The other handlers that change what reports are made of.
RemoveCampaign(campaign) ==
    /\ analysis # NoInput
    /\ campaign \in ads.campaigns
    /\ ads' = WithoutCampaign(ads, campaign)
    /\ UNCHANGED <<cabinet, replacing, analyses, costs, finances, points, job, issued, leftover>>

PutCost(content) ==
    /\ content # costs
    /\ costs' = content
    /\ UNCHANGED <<cabinet, replacing, analyses, ads, finances, points, job, issued, leftover>>

\* commit_analysis_snapshot_if_current: of the account of the vault, with the
\* context lock, or of FILES, without it.
CommitAnalysis(account, skus) ==
    /\ issued.analysis < MaxAnalysis
    /\ issued' = [issued EXCEPT !.analysis = @ + 1]
    /\ analyses' = WithAnalysis([id |-> issued.analysis + 1, account |-> account, skus |-> skus])
    /\ UNCHANGED <<cabinet, replacing, costs, ads, finances, points, job, leftover>>
NewAnalysis(skus) == ~replacing /\ CommitAnalysis(cabinet.account, skus)
NewFilesAnalysis(skus) == CommitAnalysis(NoInput, skus)

\* Mappings, packs or the project change; a refreshed source is activated.
DropAnalyses ==
    /\ analyses # {}
    /\ \/ analyses' = {}
       \/ ~replacing /\ cabinet.unlocked /\ analyses' = FilesOnly
    /\ UNCHANGED <<cabinet, replacing, costs, ads, finances, points, job, issued, leftover>>

\* ozon_credentials_setup: the vault, then what is of the account before.
WriteVault(account) ==
    /\ ~replacing /\ cabinet.session < MaxTransitions
    /\ cabinet' = [account |-> account, session |-> cabinet.session + 1, unlocked |-> TRUE]
    /\ replacing' = TRUE
    /\ UNCHANGED <<econInputs, finances, points, job, issued, leftover>>

ClearAccount ==
    /\ replacing
    /\ replacing' = FALSE
    /\ finances' = <<>> /\ points' = {} /\ analyses' = FilesOnly
    /\ leftover' = {}
    /\ UNCHANGED <<cabinet, costs, ads, job, issued>>

\* A file cannot be deleted: the setup ends before a store is cleared.
Foreign == {finances[i] : i \in {k \in DOMAIN finances : finances[k].account # cabinet.account}}
           \cup (points \ {cabinet.account})
           \cup {a \in analyses : a.account \notin {NoInput, cabinet.account}}
ClearFails ==
    /\ replacing
    /\ replacing' = FALSE
    /\ leftover' = Foreign
    /\ UNCHANGED <<cabinet, econInputs, finances, points, job, issued>>

LockCabinet ==
    /\ ~replacing /\ cabinet.session < MaxTransitions
    /\ cabinet' = [cabinet EXCEPT !.session = @ + 1, !.unlocked = ~@]
    /\ UNCHANGED <<replacing, econInputs, finances, points, job, issued, leftover>>
-----------------------------------------------------------------------------
EconInit ==
    /\ cabinet \in [account : Cabinets, session : {0}, unlocked : {TRUE}]
    /\ replacing = FALSE /\ analyses = {} /\ leftover = {}
    /\ costs \in CostContents
    /\ ads = [days |-> [row \in {} |-> 0], campaigns |-> {}]
    /\ finances = <<>> /\ points = {}
    /\ job = [j \in Jobs |-> NoJob]
    /\ issued = [analysis |-> 0, finance |-> 0]

JobStep(j) ==
    \/ \E kind \in Kinds : Ask(j, kind)
    \/ OpenAnalysis(j) \/ TakeFinance(j) \/ LoadAds(j) \/ Compare(j) \/ AnswerReport(j)
    \/ Fetch(j) \/ PutFetched(j) \/ Parse(j) \/ AnswerRead(j)
    \/ \E first, second \in AdReports :
           SaveAds(j, <<first, second>>) \/ SaveAds(j, <<first>>)

EconNext ==
    \/ \E j \in Jobs : JobStep(j)
    \/ \E report \in AdReports : RemoveCampaign(report.campaign)
    \/ \E content \in CostContents : PutCost(content)
    \/ \E skus \in Assortments : NewAnalysis(skus) \/ NewFilesAnalysis(skus)
    \/ \E account \in Cabinets : WriteVault(account)
    \/ DropAnalyses \/ ClearAccount \/ ClearFails \/ LockCabinet

EconSpec == EconInit /\ [][EconNext]_econVars
-----------------------------------------------------------------------------
\* The saved advertising can be loaded again, whatever overlapping reports were
\* imported and removed.
AdvertisingLoadable == Loadable(ads)

\* The types; a job only holds steps of its handler.
EconTypeOK ==
    /\ cabinet \in [account : Cabinets, session : 0..MaxTransitions, unlocked : BOOLEAN]
    /\ replacing \in BOOLEAN /\ costs \in CostContents
    /\ \A a \in analyses : a.skus \in Assortments
    /\ Len(finances) <= FinanceRoom /\ points \subseteq Cabinets
    /\ \A j \in Jobs : Len(job[j].steps) <= 5
    /\ AdvertisingLoadable

\* The step in which a handler answers with a report.
Answering(j) ==
    /\ AtStep(j, "answer")
    /\ job'[j].kind = job[j].kind /\ job'[j].steps = <<>>

\* A report that leaves shows one moment, the present one: its analysis, cost
\* prices and advertising are those stored now, although it read them at
\* different times.  Finance in it is of the account of the vault, whose
\* session was not revoked since the request; the analysis beside it is of
\* that account too, unless it was made of FILES or outlived a replacement
\* whose removal failed (nothing compares the two accounts).
ReportsConsistent ==
    [][\A j \in Jobs : Answering(j) =>
          /\ job[j].analysis = analysis
          /\ job[j].costs \in {NoInput, costs} /\ job[j].ads \in {NoInput, ads}
          /\ job[j].finance # NoInput =>
                 /\ job[j].finance.account = cabinet.account
                 /\ cabinet.session = job[j].session
                 /\ \/ job[j].analysis.account \in {NoInput, cabinet.account}
                    \/ job[j].analysis \in leftover]_econVars

\* Finance and handoff points are of the account of the vault, whatever was
\* being loaded while the credentials were replaced; only what was stored
\* before a removal that failed may be of another account.
StoresOfCabinet ==
    ~replacing => /\ \A i \in DOMAIN finances :
                         finances[i].account = cabinet.account \/ finances[i] \in leftover
                  /\ points \subseteq {cabinet.account} \cup leftover

=============================================================================
