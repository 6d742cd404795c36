---------------------------- MODULE EconomicsProofs ----------------------------
(***************************************************************************)
(* Theorems about EconomicsReports, for any requests, accounts, uploads and*)
(* analyses; about FinanceReport, for any bookings and paging of them; and *)
(* about what prices and demand are computed from.  The price found is the *)
(* least one, for every product, tariff and rate; the estimate of demand   *)
(* follows sales, and the stockouts of completed weeks stay what they were,*)
(* for every history.                                                      *)
(***************************************************************************)
EXTENDS EconomicsReports, FinanceReport, TargetPrice, DemandEstimates, StockoutEpisodes,
        SequenceTheorems, FiniteSetFacts

-----------------------------------------------------------------------------
(* EconomicsReports.  A session belongs to one account, because an account is*)
(* replaced with the session; so what a request of an active session has   *)
(* taken, and what it stores, is of the account of the vault, and so are   *)
(* the analyses once a replacement has cleared them, those of FILES aside. *)
(* A removal that fails names what it leaves of other accounts, and nothing*)
(* is added to that.  An imported report takes the days of its campaign    *)
(* and period from whatever was there before it adds its own, which keeps  *)
(* every day single.                                                       *)

Labels == {"open", "take", "ads", "compare", "answer", "fetch", "put", "parse", "save"}
Analyses == [id : Nat, account : Cabinets \cup {NoInput}, skus : Assortments]
Snapshots == [id : Nat, account : Cabinets]
Campaigns == {report.campaign : report \in AdReports}
AdRow ==
    [campaign : Campaigns, sku : UNION {report.skus : report \in AdReports}, day : Nat,
     spend : {report.spend : report \in AdReports}]
AdData == [days : UNION {[table -> {1}] : table \in SUBSET AdRow}, campaigns : SUBSET Campaigns]
JobType ==
    [steps : Seq(Labels), kind : Kinds \cup {NoInput}, account : Cabinets \cup {NoInput},
     session : 0..MaxTransitions, analysis : Analyses \cup {NoInput},
     costs : CostContents \cup {NoInput}, ads : AdData \cup {NoInput},
     finance : Snapshots \cup {NoInput}]

\* What a handler that is still to do these steps can rely on: finance is taken
\* and stored for an account, and the answer is the last step, made after an
\* analysis was opened.
RefreshPlanned(steps, kind, opened) ==
    /\ Len(steps) <= 5
    /\ \A i \in 1..Len(steps) :
           /\ steps[i] = "take" => kind \in {"buyout", "period"}
           /\ steps[i] = "put" => kind \in {"finance", "points"}
           /\ steps[i] = "answer" /\ opened = NoInput => \E k \in 1..i : steps[k] = "open"

\* A request: the account it works for is that of its session.
JobOK(r) ==
    /\ r \in JobType /\ (r.steps # <<>> => r # NoJob)
    /\ r # NoJob =>
        /\ r.kind \in Kinds /\ r.session <= cabinet.session
        /\ r.kind \in OfAccount =>
               /\ r.account \in Cabinets
               /\ r.session = cabinet.session => r.account = cabinet.account
        /\ r.finance # NoInput => r.kind \in OfAccount /\ r.finance.account = r.account
        /\ RefreshPlanned(r.steps, r.kind, r.analysis)

AnalysesOfCabinet ==
    ~replacing => \A a \in analyses : a.account \in {NoInput, cabinet.account} \/ a \in leftover

EconTypes ==
    /\ cabinet \in [account : Cabinets, session : 0..MaxTransitions, unlocked : BOOLEAN]
    /\ replacing \in BOOLEAN /\ costs \in CostContents
    /\ analyses \subseteq Analyses
    /\ ads \in AdData /\ Loadable(ads)
    /\ finances \in Seq(Snapshots) /\ Len(finances) <= FinanceRoom
    /\ points \subseteq Cabinets
    /\ DOMAIN job = Jobs
    /\ issued \in [analysis : Nat, finance : Nat]

EconInv ==
    /\ EconTypes
    /\ \A j \in Jobs : JobOK(job[j])
    /\ AnalysesOfCabinet /\ StoresOfCabinet

-----------------------------------------------------------------------------
(* Advertising.                                                            *)

\* An imported report leaves each day of a product and campaign single.
LEMMA ApplyReportFacts ==
    ASSUME NEW data \in AdData, Loadable(data), NEW report \in AdReports, NEW skus
    PROVE  ApplyReport(data, report, skus) \in AdData /\ Loadable(ApplyReport(data, report, skus))
<1> DEFINE incoming == AdRows(report, skus)
           retained == {row \in DOMAIN data.days :
                           ~(row.campaign = report.campaign /\ InPeriod(row, report))}
           count(row) == (IF row \in retained THEN data.days[row] ELSE 0)
                         + (IF row \in incoming THEN 1 ELSE 0)
           days == [row \in retained \cup incoming |-> count(row)]
           merged == [days |-> days, campaigns |-> data.campaigns \cup {report.campaign}]
<1>1. /\ DOMAIN data.days \subseteq AdRow /\ data.campaigns \subseteq Campaigns
      /\ \A row \in DOMAIN data.days : data.days[row] = 1
      /\ data.campaigns = {row.campaign : row \in DOMAIN data.days}
      /\ \A r, s \in DOMAIN data.days :
             r.campaign = s.campaign /\ r.sku = s.sku /\ r.day = s.day => r = s
  BY DEF AdData, Loadable
<1>2. report.from \in Nat /\ report.to \in Nat
  BY EconAssumption
<1>3. incoming \subseteq AdRow
  BY <1>2 DEF AdRows, AdRow, Campaigns
<1>4. \A row \in incoming : row.campaign = report.campaign /\ InPeriod(row, report)
  BY <1>2 DEF AdRows, InPeriod
<1>5. \A r, s \in incoming : r.sku = s.sku /\ r.day = s.day => r = s
  BY DEF AdRows
<1> HIDE DEF incoming
<1>6. \A row \in retained \cup incoming : count(row) = 1
  BY <1>1, <1>4
<1>7. \A r, s \in retained \cup incoming :
        r.campaign = s.campaign /\ r.sku = s.sku /\ r.day = s.day => r = s
  BY <1>1, <1>4, <1>5 DEF InPeriod
<1>8. retained \cup incoming \in SUBSET AdRow
  BY <1>1, <1>3
<1>9. incoming # {} => data.campaigns \cup {report.campaign}
                          = {row.campaign : row \in retained \cup incoming}
  BY <1>1, <1>4
<1>10. days \in [retained \cup incoming -> {1}]
  BY <1>6
<1>11. data.campaigns \cup {report.campaign} \subseteq Campaigns
  BY <1>1 DEF Campaigns
<1> HIDE DEF retained, count
<1>12. merged \in AdData
  BY <1>8, <1>10, <1>11 DEF AdData
<1>13. incoming # {} => Loadable(merged)
  <2>1. DOMAIN merged.days = retained \cup incoming
        /\ merged.campaigns = data.campaigns \cup {report.campaign}
        /\ \A row \in retained \cup incoming : merged.days[row] = 1
    BY <1>6
  <2> QED
    BY <1>7, <1>9, <2>1 DEF Loadable
<1>14. ApplyReport(data, report, skus) = IF incoming = {} \/ days = data.days THEN data ELSE merged
  BY DEF ApplyReport, incoming, retained, count
<1> QED
  BY <1>12, <1>13, <1>14

LEMMA WithoutCampaignFacts ==
    ASSUME NEW data \in AdData, Loadable(data), NEW campaign
    PROVE  WithoutCampaign(data, campaign) \in AdData /\ Loadable(WithoutCampaign(data, campaign))
<1> DEFINE left == {row \in DOMAIN data.days : row.campaign # campaign}
           days == [row \in left |-> data.days[row]]
           rest == [days |-> days, campaigns |-> data.campaigns \ {campaign}]
<1>1. /\ DOMAIN data.days \subseteq AdRow /\ data.campaigns \subseteq Campaigns
      /\ \A row \in DOMAIN data.days : data.days[row] = 1
      /\ data.campaigns = {row.campaign : row \in DOMAIN data.days}
      /\ \A r, s \in DOMAIN data.days :
             r.campaign = s.campaign /\ r.sku = s.sku /\ r.day = s.day => r = s
  BY DEF AdData, Loadable
<1>2. /\ left \in SUBSET AdRow /\ days \in [left -> {1}]
      /\ data.campaigns \ {campaign} \subseteq Campaigns
  BY <1>1
<1>3. data.campaigns \ {campaign} = {row.campaign : row \in left}
  BY <1>1
<1>4. \A r, s \in left : r.campaign = s.campaign /\ r.sku = s.sku /\ r.day = s.day => r = s
  BY <1>1
<1>5. WithoutCampaign(data, campaign) = rest
  BY DEF WithoutCampaign
<1> HIDE DEF left, days
<1>6. rest \in AdData
  BY <1>2 DEF AdData
<1>7. Loadable(rest)
  BY <1>2, <1>3, <1>4 DEF Loadable
<1> QED
  BY <1>5, <1>6, <1>7

-----------------------------------------------------------------------------
(* The steps of a handler.                                                 *)

\* The analysis is opened with the first or the second step.
OpensFirst(s, kind) ==
    /\ Len(s) \in 1..5
    /\ s[1] = "open" \/ (Len(s) >= 2 /\ s[1] = "take" /\ s[2] = "open")
    /\ \A i \in 1..Len(s) : s[i] # "put" /\ (s[i] = "take" => kind \in {"buyout", "period"})

LEMMA OpenEarly ==
    ASSUME NEW s \in Seq(Labels), NEW kind, OpensFirst(s, kind)
    PROVE  RefreshPlanned(s, kind, NoInput)
<1>1. ASSUME NEW i \in 1..Len(s), s[i] = "answer"
      PROVE  \E k \in 1..i : s[k] = "open"
  <2>1. CASE s[1] = "open"
    BY <2>1
  <2>2. CASE s[1] = "take" /\ s[2] = "open"
    <3>1. i # 1
      BY <1>1, <2>2
    <3>2. 2 \in 1..i
      BY <3>1
    <3> QED
      BY <2>2, <3>2
  <2> QED
    BY <2>1, <2>2 DEF OpensFirst
<1> QED
  BY <1>1 DEF RefreshPlanned, OpensFirst

\* Every handler opens before it answers, and so on.
LEMMA StepsPlanned ==
    ASSUME NEW kind \in Kinds
    PROVE  /\ Steps(kind) \in Seq(Labels) /\ Steps(kind) # <<>>
           /\ RefreshPlanned(Steps(kind), kind, NoInput)
<1>1. CASE kind = "workspace"
  <2>1. Steps(kind) = <<"open", "ads", "answer">>
    BY <1>1 DEF Steps
  <2>2. /\ Steps(kind) \in Seq(Labels) /\ Steps(kind) # <<>> /\ Len(Steps(kind)) = 3
        /\ Steps(kind)[1] = "open" /\ Steps(kind)[2] = "ads" /\ Steps(kind)[3] = "answer"
    BY <2>1 DEF Labels
  <2>3. OpensFirst(Steps(kind), kind)
    BY <1>1, <2>2 DEF OpensFirst
  <2> QED
    BY <2>2, <2>3, OpenEarly
<1>2. CASE kind = "export"
  <2>1. Steps(kind) = <<"open", "ads", "compare", "answer">>
    BY <1>2 DEF Steps
  <2>2. /\ Steps(kind) \in Seq(Labels) /\ Steps(kind) # <<>> /\ Len(Steps(kind)) = 4
        /\ Steps(kind)[1] = "open" /\ Steps(kind)[2] = "ads" /\ Steps(kind)[3] = "compare"
        /\ Steps(kind)[4] = "answer"
    BY <2>1 DEF Labels
  <2>3. OpensFirst(Steps(kind), kind)
    BY <1>2, <2>2 DEF OpensFirst
  <2> QED
    BY <2>2, <2>3, OpenEarly
<1>3. CASE kind = "series"
  <2>1. Steps(kind) = <<"open", "answer">>
    BY <1>3 DEF Steps
  <2>2. /\ Steps(kind) \in Seq(Labels) /\ Steps(kind) # <<>> /\ Len(Steps(kind)) = 2
        /\ Steps(kind)[1] = "open" /\ Steps(kind)[2] = "answer"
    BY <2>1 DEF Labels
  <2>3. OpensFirst(Steps(kind), kind)
    BY <1>3, <2>2 DEF OpensFirst
  <2> QED
    BY <2>2, <2>3, OpenEarly
<1>4. CASE kind = "buyout"
  <2>1. Steps(kind) = <<"open", "take", "answer">>
    BY <1>4 DEF Steps
  <2>2. /\ Steps(kind) \in Seq(Labels) /\ Steps(kind) # <<>> /\ Len(Steps(kind)) = 3
        /\ Steps(kind)[1] = "open" /\ Steps(kind)[2] = "take" /\ Steps(kind)[3] = "answer"
    BY <2>1 DEF Labels
  <2>3. OpensFirst(Steps(kind), kind)
    BY <1>4, <2>2 DEF OpensFirst
  <2> QED
    BY <2>2, <2>3, OpenEarly
<1>5. CASE kind = "period"
  <2>1. Steps(kind) = <<"take", "open", "ads", "compare", "answer">>
    BY <1>5 DEF Steps
  <2>2. /\ Steps(kind) \in Seq(Labels) /\ Steps(kind) # <<>> /\ Len(Steps(kind)) = 5
        /\ Steps(kind)[1] = "take" /\ Steps(kind)[2] = "open" /\ Steps(kind)[3] = "ads"
        /\ Steps(kind)[4] = "compare" /\ Steps(kind)[5] = "answer"
    BY <2>1 DEF Labels
  <2>3. OpensFirst(Steps(kind), kind)
    BY <1>5, <2>2 DEF OpensFirst
  <2> QED
    BY <2>2, <2>3, OpenEarly
<1>6. CASE kind = "finance"
  <2>1. Steps(kind) = <<"fetch", "put">>
    BY <1>6 DEF Steps
  <2>2. /\ Steps(kind) \in Seq(Labels) /\ Steps(kind) # <<>> /\ Len(Steps(kind)) = 2
        /\ Steps(kind)[1] = "fetch" /\ Steps(kind)[2] = "put"
    BY <2>1 DEF Labels
  <2> QED
    BY <1>6, <2>2 DEF RefreshPlanned
<1>7. CASE kind = "points"
  <2>1. Steps(kind) = <<"fetch", "put">>
    BY <1>7 DEF Steps
  <2>2. /\ Steps(kind) \in Seq(Labels) /\ Steps(kind) # <<>> /\ Len(Steps(kind)) = 2
        /\ Steps(kind)[1] = "fetch" /\ Steps(kind)[2] = "put"
    BY <2>1 DEF Labels
  <2> QED
    BY <1>7, <2>2 DEF RefreshPlanned
<1>8. CASE kind = "import"
  <2>1. Steps(kind) = <<"open", "parse", "save">>
    BY <1>8 DEF Steps
  <2>2. /\ Steps(kind) \in Seq(Labels) /\ Steps(kind) # <<>> /\ Len(Steps(kind)) = 3
        /\ Steps(kind)[1] = "open" /\ Steps(kind)[2] = "parse" /\ Steps(kind)[3] = "save"
    BY <2>1 DEF Labels
  <2>3. OpensFirst(Steps(kind), kind)
    BY <1>8, <2>2 DEF OpensFirst
  <2> QED
    BY <2>2, <2>3, OpenEarly
<1> QED
  BY <1>1, <1>2, <1>3, <1>4, <1>5, <1>6, <1>7, <1>8 DEF Kinds

\* What is planned stays so when the first step is done, if that opens the
\* analysis when it is to.
LEMMA TailPlanned ==
    ASSUME NEW s \in Seq(Labels), s # <<>>, NEW kind, NEW before, NEW after,
           RefreshPlanned(s, kind, before), after = NoInput => before = NoInput /\ Head(s) # "open"
    PROVE  Tail(s) \in Seq(Labels) /\ RefreshPlanned(Tail(s), kind, after)
<1>1. /\ Tail(s) \in Seq(Labels) /\ Len(Tail(s)) = Len(s) - 1 /\ Len(s) \in Nat /\ Len(s) > 0
      /\ Head(s) = s[1] /\ \A i \in 1..Len(Tail(s)) : Tail(s)[i] = s[i + 1]
  BY HeadTailProperties, LenProperties
<1>2. \A i \in 1..Len(Tail(s)) : i + 1 \in 1..Len(s)
  BY <1>1
<1>3. ASSUME NEW i \in 1..Len(Tail(s)), Tail(s)[i] = "answer", after = NoInput
      PROVE  \E k \in 1..i : Tail(s)[k] = "open"
  <2>1. s[i + 1] = "answer" /\ i + 1 \in 1..Len(s)
    BY <1>1, <1>2, <1>3
  <2>2. PICK k \in 1..(i + 1) : s[k] = "open"
    BY <1>3, <2>1 DEF RefreshPlanned
  <2>3. k # 1 /\ k # i + 1
    BY <1>1, <1>3, <2>1, <2>2
  <2>4. k - 1 \in 1..i /\ k - 1 \in 1..Len(Tail(s)) /\ (k - 1) + 1 = k
    BY <1>1, <2>2, <2>3
  <2>5. Tail(s)[k - 1] = "open"
    BY <1>1, <2>2, <2>4
  <2> QED
    BY <2>4, <2>5
<1> QED
  BY <1>1, <1>2, <1>3 DEF RefreshPlanned

\* A request that did its next step; what it took is of its account.
LEMMA NextJob ==
    ASSUME NEW r, JobOK(r), r.steps # <<>>, NEW n \in JobType,
           n.steps = Tail(r.steps), n.kind = r.kind, n.account = r.account,
           n.session = r.session,
           n.finance = r.finance \/ (r.kind \in OfAccount /\ n.finance.account = r.account),
           n.analysis = NoInput => r.analysis = NoInput /\ Head(r.steps) # "open"
    PROVE  JobOK(n)
<1>1. /\ r \in JobType /\ r # NoJob /\ r.kind \in Kinds /\ r.session <= cabinet.session
      /\ r.kind \in OfAccount =>
             r.account \in Cabinets /\ (r.session = cabinet.session => r.account = cabinet.account)
      /\ r.finance # NoInput => r.kind \in OfAccount /\ r.finance.account = r.account
      /\ RefreshPlanned(r.steps, r.kind, r.analysis)
  BY DEF JobOK
<1>2. r.steps \in Seq(Labels)
  BY <1>1 DEF JobType
<1>3. RefreshPlanned(n.steps, n.kind, n.analysis)
  BY <1>1, <1>2, TailPlanned
<1>4. n.steps # <<>> => n # NoJob
  <2>1. NoJob.steps = <<>>
    BY DEF NoJob
  <2> QED
    BY <2>1
<1> QED
  BY <1>1, <1>3, <1>4 DEF JobOK

\* Nothing but one request changed.
LEMMA JobOnly ==
    ASSUME EconInv, NEW j \in Jobs, NEW n, JobOK(n), job' = [job EXCEPT ![j] = n],
           UNCHANGED <<cabinet, replacing, econInputs, finances, points, issued, leftover>>
    PROVE  EconInv'
<1>1. DOMAIN job = Jobs /\ DOMAIN job' = Jobs
  BY DEF EconInv, EconTypes
<1>2. \A k \in Jobs : job'[k] = IF k = j THEN n ELSE job[k]
  BY <1>1
<1>3. \A k \in Jobs : JobOK(job'[k])
  BY <1>2 DEF EconInv
<1>4. (\A k \in Jobs : JobOK(job[k]))'
  BY <1>3 DEF JobOK
<1>5. EconTypes' /\ AnalysesOfCabinet' /\ StoresOfCabinet'
  BY <1>1 DEF EconInv, EconTypes, AnalysesOfCabinet, StoresOfCabinet, econInputs
<1> QED
  BY <1>4, <1>5 DEF EconInv

LEMMA NoJobOK == EconInv => JobOK(NoJob)
<1>1. <<>> \in Seq(Labels) /\ 0 \in 0..MaxTransitions
  BY EmptySeq, EconAssumption
<1>2. NoJob \in JobType
  BY <1>1 DEF NoJob, JobType
<1> QED
  BY <1>2 DEF JobOK, NoJob

LEMMA AskStep ==
    ASSUME EconInv, NEW j \in Jobs, NEW kind \in Kinds, Ask(j, kind)
    PROVE  EconInv'
<1> DEFINE account == IF kind \in OfAccount THEN cabinet.account ELSE NoInput
           n == [NoJob EXCEPT !.steps = Steps(kind), !.kind = kind, !.account = account,
                              !.session = cabinet.session]
<1>1. cabinet.account \in Cabinets /\ cabinet.session \in 0..MaxTransitions
  BY DEF EconInv, EconTypes
<1>2. account \in Cabinets \cup {NoInput} /\ (kind \in OfAccount => account = cabinet.account)
  BY <1>1
<1>3. job' = [job EXCEPT ![j] = n]
  BY DEF Ask
<1> HIDE DEF account
<1>4. NoJob \in [steps : {<<>>}, kind : {NoInput}, account : {NoInput}, session : {0},
                 analysis : {NoInput}, costs : {NoInput}, ads : {NoInput}, finance : {NoInput}]
  BY DEF NoJob
<1>5. n \in [steps : {Steps(kind)}, kind : {kind}, account : {account},
             session : {cabinet.session}, analysis : {NoInput}, costs : {NoInput},
             ads : {NoInput}, finance : {NoInput}]
  BY <1>4
<1> HIDE DEF n
<1>6. /\ n.steps = Steps(kind) /\ n.kind = kind /\ n.account = account
      /\ n.session = cabinet.session /\ n.analysis = NoInput /\ n.finance = NoInput
  BY <1>5
<1>7. n \in JobType
  <2>1. Steps(kind) \in Seq(Labels)
    BY StepsPlanned
  <2> QED
    BY <1>1, <1>2, <1>5, <2>1 DEF JobType
<1>8. n # NoJob /\ cabinet.session <= cabinet.session
  BY <1>1, <1>6, EconAssumption DEF NoJob
<1>9. JobOK(n)
  BY <1>1, <1>2, <1>6, <1>7, <1>8, StepsPlanned DEF JobOK
<1> QED
  BY <1>3, <1>9, JobOnly DEF Ask

\* What a handler at one of its steps is known to be.
LEMMA AtStepFacts ==
    ASSUME EconInv, NEW j \in Jobs, NEW label, AtStep(j, label)
    PROVE  /\ JobOK(job[j]) /\ job[j] \in JobType /\ job[j] # NoJob
           /\ job[j].steps \in Seq(Labels) /\ job[j].steps # <<>> /\ Head(job[j].steps) = label
           /\ Tail(job[j].steps) \in Seq(Labels) /\ 1 \in 1..Len(job[j].steps)
           /\ job[j].steps[1] = label
<1>1. /\ JobOK(job[j]) /\ job[j] \in JobType /\ job[j] # NoJob
      /\ job[j].steps # <<>> /\ Head(job[j].steps) = label
  BY DEF EconInv, AtStep, JobOK
<1>2. job[j].steps \in Seq(Labels)
  BY <1>1 DEF JobType
<1>3. /\ Tail(job[j].steps) \in Seq(Labels) /\ Len(job[j].steps) \in Nat
      /\ Len(job[j].steps) > 0 /\ job[j].steps[1] = label
  BY <1>1, <1>2, HeadTailProperties, LenProperties
<1> QED
  BY <1>1, <1>2, <1>3

\* The next step, other than opening.
LEMMA PlainNext ==
    ASSUME EconInv, NEW j \in Jobs, NEW label, AtStep(j, label), label # "open",
           UNCHANGED <<cabinet, replacing, econInputs, finances, points, issued, leftover>>,
           NEW n, job' = [job EXCEPT ![j] = n],
           \/ n = Next1(j)
           \/ n = [Next1(j) EXCEPT !.ads = ads]
           \/ \E snapshot \in Snapshots :
                  /\ n = [Next1(j) EXCEPT !.finance = snapshot]
                  /\ job[j].kind \in OfAccount /\ snapshot.account = job[j].account
    PROVE  EconInv'
<1>1. /\ JobOK(job[j]) /\ job[j] \in JobType
      /\ job[j].steps # <<>> /\ Head(job[j].steps) = label
      /\ Tail(job[j].steps) \in Seq(Labels)
  BY AtStepFacts
<1>2. /\ Next1(j) \in JobType /\ Next1(j).steps = Tail(job[j].steps)
      /\ Next1(j).kind = job[j].kind /\ Next1(j).account = job[j].account
      /\ Next1(j).session = job[j].session /\ Next1(j).finance = job[j].finance
      /\ Next1(j).analysis = job[j].analysis
  BY ZenonT(30), <1>1 DEF Next1, JobType
<1>3. ads \in AdData
  BY DEF EconInv, EconTypes
<1>4. /\ n \in JobType /\ n.steps = Tail(job[j].steps) /\ n.kind = job[j].kind
      /\ n.account = job[j].account /\ n.session = job[j].session
      /\ n.analysis = job[j].analysis
      /\ \/ n.finance = job[j].finance
         \/ job[j].kind \in OfAccount /\ n.finance.account = job[j].account
  <2>1. CASE n = Next1(j)
    BY <1>2, <2>1
  <2>2. CASE n = [Next1(j) EXCEPT !.ads = ads]
    BY <1>2, <1>3, <2>2 DEF JobType
  <2>3. CASE \E snapshot \in Snapshots :
               /\ n = [Next1(j) EXCEPT !.finance = snapshot]
               /\ job[j].kind \in OfAccount /\ snapshot.account = job[j].account
    BY <1>2, <2>3 DEF JobType
  <2> QED
    BY <2>1, <2>2, <2>3
<1>5. JobOK(n)
  BY <1>1, <1>4, NextJob
<1> QED
  BY <1>5, JobOnly

\* The newest analysis is one of those stored, if there is one.
LEMMA NewestStored == analysis = NoInput \/ analysis \in analyses
BY DEF analysis, Newest

LEMMA OpenStep ==
    ASSUME EconInv, NEW j \in Jobs, OpenAnalysis(j), analysis # NoInput
    PROVE  EconInv'
<1> DEFINE price == IF job[j].kind \in {"workspace", "export", "period"} THEN costs ELSE NoInput
           n == [Next1(j) EXCEPT !.analysis = analysis, !.costs = price]
<1>1. /\ JobOK(job[j]) /\ job[j] \in JobType
      /\ job[j].steps # <<>> /\ Tail(job[j].steps) \in Seq(Labels)
  BY AtStepFacts DEF OpenAnalysis
<1>2. analysis \in Analyses /\ price \in CostContents \cup {NoInput}
  BY NewestStored DEF EconInv, EconTypes
<1>3. job' = [job EXCEPT ![j] = n]
  BY DEF OpenAnalysis
<1> HIDE DEF price
<1>4. /\ Next1(j) \in JobType /\ Next1(j).steps = Tail(job[j].steps)
      /\ Next1(j).kind = job[j].kind /\ Next1(j).account = job[j].account
      /\ Next1(j).session = job[j].session /\ Next1(j).finance = job[j].finance
  BY <1>1 DEF Next1, JobType
<1>5. /\ n \in JobType /\ n.steps = Tail(job[j].steps) /\ n.kind = job[j].kind
      /\ n.account = job[j].account /\ n.session = job[j].session
      /\ n.finance = job[j].finance /\ n.analysis # NoInput
  BY <1>2, <1>4 DEF JobType
<1> HIDE DEF n
<1>6. JobOK(n)
  BY <1>1, <1>5, NextJob
<1> QED
  BY <1>3, <1>6, JobOnly DEF OpenAnalysis

LEMMA RefuseStep ==
    ASSUME EconInv, NEW j \in Jobs, Refuse(j),
           UNCHANGED <<cabinet, replacing, econInputs, finances, points, issued, leftover>>
    PROVE  EconInv'
BY NoJobOK, JobOnly DEF Refuse

\* The handlers at the steps that change nothing but what they hold.
LEMMA HandlerStep ==
    ASSUME EconInv, NEW j \in Jobs,
           \/ OpenAnalysis(j) \/ TakeFinance(j) \/ LoadAds(j) \/ Compare(j) \/ AnswerReport(j)
           \/ Fetch(j) \/ Parse(j) \/ AnswerRead(j)
    PROVE  EconInv'
<1>1. UNCHANGED <<cabinet, replacing, econInputs, finances, points, issued, leftover>>
  BY DEF OpenAnalysis, TakeFinance, LoadAds, Compare, AnswerReport, Fetch, Parse, AnswerRead
<1>2. CASE Refuse(j)
  BY <1>1, <1>2, RefuseStep
<1>3. CASE OpenAnalysis(j)
  BY ZenonT(30), <1>1, <1>2, <1>3, OpenStep DEF OpenAnalysis
<1>4. CASE TakeFinance(j) /\ ~Refuse(j)
  <2>1. PICK i \in DOMAIN finances :
          /\ TakenFrom(j, finances[i])
          /\ job' = [job EXCEPT ![j] = [Next1(j) EXCEPT !.finance = finances[i]]]
    BY <1>4 DEF TakeFinance
  <2>2. finances[i] \in Snapshots
    BY ElementOfSeq, LenProperties DEF EconInv, EconTypes
  <2>3. /\ AtStep(j, "take") /\ 1 \in 1..Len(job[j].steps) /\ job[j].steps[1] = "take"
        /\ JobOK(job[j]) /\ job[j] # NoJob
    BY <1>4, AtStepFacts DEF TakeFinance
  <2>4. job[j].kind \in OfAccount
    BY <2>3 DEF JobOK, RefreshPlanned, OfAccount
  <2> DEFINE n == [Next1(j) EXCEPT !.finance = finances[i]]
  <2>5. n = [Next1(j) EXCEPT !.finance = finances[i]] /\ job' = [job EXCEPT ![j] = n]
    BY <2>1
  <2> HIDE DEF n
  <2> QED
    BY <1>1, <2>1, <2>2, <2>3, <2>4, <2>5, PlainNext DEF TakenFrom
<1>5. CASE LoadAds(j)
  BY <1>1, <1>5, PlainNext DEF LoadAds
<1>6. CASE ~Refuse(j) /\ (Compare(j) \/ AnswerReport(j) \/ Fetch(j) \/ Parse(j) \/ AnswerRead(j))
  <2>1. job' = [job EXCEPT ![j] = Next1(j)]
    BY <1>6 DEF Compare, AnswerReport, Fetch, Parse, AnswerRead
  <2>2. \/ AtStep(j, "compare") \/ AtStep(j, "answer") \/ AtStep(j, "fetch")
        \/ AtStep(j, "parse")
    BY <1>6 DEF Compare, AnswerReport, Fetch, Parse, AnswerRead
  <2> QED
    BY <1>1, <2>1, <2>2, PlainNext
<1> QED
  BY <1>2, <1>3, <1>4, <1>5, <1>6

\* The jobs stay as they were when one is refused and the vault is not touched.
LEMMA JobsAfterRefusal ==
    ASSUME EconInv, NEW j \in Jobs, Refuse(j), UNCHANGED cabinet
    PROVE  (\A k \in Jobs : JobOK(job[k]))' /\ DOMAIN job' = Jobs
<1>1. DOMAIN job = Jobs /\ DOMAIN job' = Jobs
  BY DEF EconInv, EconTypes, Refuse
<1>2. \A k \in Jobs : job'[k] = IF k = j THEN NoJob ELSE job[k]
  BY <1>1 DEF Refuse
<1>3. \A k \in Jobs : JobOK(job'[k])
  BY <1>2, NoJobOK DEF EconInv
<1> QED
  BY <1>1, <1>3 DEF JobOK

\* Storing keeps at most as many snapshots as there is room for.
WithStored(snapshot) ==
    LET all == Append(finances, snapshot) IN IF Len(all) > FinanceRoom THEN Tail(all) ELSE all

LEMMA StoredFacts ==
    ASSUME finances \in Seq(Snapshots), Len(finances) <= FinanceRoom, NEW snapshot \in Snapshots,
           NEW kept, kept = WithStored(snapshot)
    PROVE  /\ kept \in Seq(Snapshots) /\ Len(kept) <= FinanceRoom
           /\ \A i \in DOMAIN kept :
                 kept[i] = snapshot \/ \E k \in DOMAIN finances : kept[i] = finances[k]
<1> DEFINE all == Append(finances, snapshot)
<1>1. /\ all \in Seq(Snapshots) /\ all # <<>> /\ Len(finances) \in Nat
      /\ Len(all) = Len(finances) + 1 /\ all[Len(finances) + 1] = snapshot
      /\ \A i \in 1..Len(finances) : all[i] = finances[i]
  BY AppendProperties, LenProperties
<1>2. DOMAIN finances = 1..Len(finances) /\ FinanceRoom \in Nat
  BY LenProperties, EconAssumption
<1> HIDE DEF all
<1>3. \A i \in 1..Len(all) : all[i] = snapshot \/ \E k \in DOMAIN finances : all[i] = finances[k]
  BY <1>1, <1>2
<1>4. CASE Len(all) > FinanceRoom
  <2>1. /\ Tail(all) \in Seq(Snapshots) /\ Len(Tail(all)) = Len(all) - 1
        /\ \A i \in 1..Len(Tail(all)) : Tail(all)[i] = all[i + 1]
    BY <1>1, HeadTailProperties
  <2>2. DOMAIN Tail(all) = 1..Len(Tail(all))
    BY <2>1, LenProperties
  <2>3. \A i \in 1..Len(Tail(all)) : i + 1 \in 1..Len(all)
    BY <1>1, <2>1
  <2>4. kept = Tail(all)
    BY <1>4 DEF all, WithStored
  <2> QED
    BY <1>1, <1>2, <1>3, <2>1, <2>2, <2>3, <2>4
<1>5. CASE ~(Len(all) > FinanceRoom)
  <2>1. kept = all
    BY <1>5 DEF all, WithStored
  <2>2. DOMAIN all = 1..Len(all)
    BY <1>1, LenProperties
  <2> QED
    BY <1>1, <1>2, <1>3, <1>5, <2>1, <2>2
<1> QED
  BY <1>4, <1>5

\* What was loaded is stored for the account of its request, if the session is
\* still that of the request.
LEMMA PutStep ==
    ASSUME EconInv, NEW j \in Jobs, PutFetched(j)
    PROVE  EconInv'
<1>1. UNCHANGED <<cabinet, replacing, econInputs, leftover>> /\ Refuse(j) /\ ~replacing
  BY DEF PutFetched
<1>2. (\A k \in Jobs : JobOK(job[k]))' /\ DOMAIN job' = Jobs
  BY <1>1, JobsAfterRefusal
<1>3. AnalysesOfCabinet'
  BY <1>1 DEF EconInv, AnalysesOfCabinet, econInputs
<1>4. /\ job[j].steps[1] = "put" /\ 1 \in 1..Len(job[j].steps) /\ JobOK(job[j]) /\ job[j] # NoJob
  BY AtStepFacts DEF PutFetched
<1>5. job[j].kind \in OfAccount
  BY <1>4 DEF JobOK, RefreshPlanned, OfAccount
<1>6. /\ job[j].account \in Cabinets
      /\ job[j].session = cabinet.session => job[j].account = cabinet.account
  BY <1>4, <1>5 DEF JobOK
<1>7. EconTypes /\ StoresOfCabinet
  BY DEF EconInv
<1>8. /\ finances' \in Seq(Snapshots) /\ Len(finances') <= FinanceRoom /\ points' \subseteq Cabinets
      /\ issued' \in [analysis : Nat, finance : Nat]
      /\ StoresOfCabinet'
  <2>1. CASE ~Committable(j)
    BY <1>1, <1>7, <2>1 DEF PutFetched, EconTypes, StoresOfCabinet
  <2>2. CASE Committable(j)
    <3>1. job[j].account = cabinet.account
      BY <1>6, <2>2 DEF Committable, JobActive
    <3>2. CASE job[j].kind = "points"
      <4>1. points' = points \cup {job[j].account} /\ UNCHANGED <<finances, issued>>
        BY <2>2, <3>2 DEF PutFetched
      <4> QED
        BY <1>1, <1>6, <1>7, <3>1, <4>1 DEF EconTypes, StoresOfCabinet
    <3>3. CASE job[j].kind # "points"
      <4> DEFINE snapshot == [id |-> issued.finance + 1, account |-> job[j].account]
      <4>1. /\ issued' = [issued EXCEPT !.finance = @ + 1] /\ UNCHANGED points
            /\ finances' = WithStored(snapshot)
        BY <2>2, <3>3 DEF PutFetched, WithStored
      <4>2. snapshot \in Snapshots /\ snapshot.account = cabinet.account
            /\ issued' \in [analysis : Nat, finance : Nat]
        BY <1>6, <1>7, <3>1, <4>1 DEF EconTypes, Snapshots
      <4> HIDE DEF snapshot
      <4>3. /\ finances' \in Seq(Snapshots) /\ Len(finances') <= FinanceRoom
            /\ \A i \in DOMAIN finances' :
                   finances'[i] = snapshot \/ \E k \in DOMAIN finances : finances'[i] = finances[k]
        BY <1>7, <4>1, <4>2, StoredFacts DEF EconTypes
      <4>4. StoresOfCabinet'
        BY <1>1, <1>7, <4>1, <4>2, <4>3 DEF StoresOfCabinet
      <4> QED
        BY <1>7, <4>1, <4>2, <4>3, <4>4 DEF EconTypes
    <3> QED
      BY <3>2, <3>3
  <2> QED
    BY <2>1, <2>2
<1>9. EconTypes'
  BY <1>1, <1>2, <1>7, <1>8 DEF EconTypes, econInputs
<1> QED
  BY <1>2, <1>3, <1>8, <1>9 DEF EconInv

\* Only the advertising changed, and it can be loaded.
LEMMA AdsOnly ==
    ASSUME EconInv, ads' \in AdData, Loadable(ads'), DOMAIN job' = Jobs,
           (\A k \in Jobs : JobOK(job[k]))',
           UNCHANGED <<cabinet, replacing, analyses, costs, finances, points, issued, leftover>>
    PROVE  EconInv'
<1>1. EconTypes' /\ AnalysesOfCabinet' /\ StoresOfCabinet'
  BY DEF EconInv, EconTypes, AnalysesOfCabinet, StoresOfCabinet, Loadable
<1> QED
  BY <1>1 DEF EconInv

LEMMA SaveStep ==
    ASSUME EconInv, NEW j \in Jobs, NEW first \in AdReports, NEW second \in AdReports,
           SaveAds(j, <<first, second>>) \/ SaveAds(j, <<first>>)
    PROVE  EconInv'
<1>1. ads \in AdData /\ Loadable(ads)
  BY DEF EconInv, EconTypes
<1> DEFINE once == ApplyReport(ads, first, analysis.skus)
           twice == ApplyReport(once, second, analysis.skus)
<1>2. once \in AdData /\ Loadable(once)
  BY <1>1, ApplyReportFacts
<1> HIDE DEF once
<1>3. twice \in AdData /\ Loadable(twice)
  BY <1>2, ApplyReportFacts
<1>4. ads' = ads \/ ads' = once \/ ads' = twice
  <2>1. CASE SaveAds(j, <<first, second>>)
    BY <2>1 DEF SaveAds, once
  <2>2. CASE SaveAds(j, <<first>>)
    BY <2>2 DEF SaveAds, once
  <2> QED
    BY <2>1, <2>2
<1> HIDE DEF twice
<1>5. UNCHANGED <<cabinet, replacing, analyses, costs, finances, points, issued, leftover>> /\ Refuse(j)
  BY DEF SaveAds
<1>6. (\A k \in Jobs : JobOK(job[k]))' /\ DOMAIN job' = Jobs
  BY <1>5, JobsAfterRefusal
<1> QED
  BY <1>1, <1>2, <1>3, <1>4, <1>5, <1>6, AdsOnly

\* The jobs stay as they were when the vault is as it was.
LEMMA JobsStay ==
    ASSUME EconInv, UNCHANGED <<cabinet, job>>
    PROVE  (\A k \in Jobs : JobOK(job[k]))' /\ DOMAIN job' = Jobs
BY DEF EconInv, EconTypes, JobOK

\* A session that begins is of no request yet.
LEMMA JobsOutdated ==
    ASSUME EconInv, UNCHANGED job, cabinet'.session = cabinet.session + 1
    PROVE  (\A k \in Jobs : JobOK(job[k]))' /\ DOMAIN job' = Jobs
<1>1. cabinet.session \in Nat
  BY EconAssumption DEF EconInv, EconTypes
<1>2. DOMAIN job' = Jobs
  BY DEF EconInv, EconTypes
<1>3. ASSUME NEW k \in Jobs
      PROVE  JobOK(job[k])'
  <2>1. JobOK(job[k])
    BY DEF EconInv
  <2>2. job[k].session \in Nat
    BY <2>1, EconAssumption DEF JobOK, JobType
  <2> QED
    BY <1>1, <2>1, <2>2 DEF JobOK
<1> QED
  BY <1>2, <1>3

LEMMA CommitStep ==
    ASSUME EconInv, NEW skus \in Assortments, NewAnalysis(skus) \/ NewFilesAnalysis(skus)
    PROVE  EconInv'
<1>1. PICK account \in Cabinets \cup {NoInput} :
        CommitAnalysis(account, skus) /\ (account = NoInput \/ account = cabinet.account)
  <2>1. cabinet.account \in Cabinets
    BY DEF EconInv, EconTypes
  <2> QED
    BY <2>1 DEF NewAnalysis, NewFilesAnalysis
<1> DEFINE a == [id |-> issued.analysis + 1, account |-> account, skus |-> skus]
<1>2. /\ analyses' = WithAnalysis(a) /\ issued' = [issued EXCEPT !.analysis = @ + 1]
      /\ UNCHANGED <<cabinet, replacing, costs, ads, finances, points, job, leftover>>
  BY <1>1 DEF CommitAnalysis
<1>3. a \in Analyses /\ a.account = account /\ issued' \in [analysis : Nat, finance : Nat]
  BY <1>2 DEF Analyses, EconInv, EconTypes
<1> HIDE DEF a
<1>4. analyses' \subseteq analyses \cup {a}
  BY <1>2 DEF WithAnalysis
<1>5. (\A k \in Jobs : JobOK(job[k]))' /\ DOMAIN job' = Jobs
  BY <1>2, JobsStay
<1>6. AnalysesOfCabinet'
  BY <1>1, <1>2, <1>3, <1>4 DEF EconInv, AnalysesOfCabinet
<1>7. StoresOfCabinet'
  BY <1>2 DEF EconInv, StoresOfCabinet
<1>8. EconTypes'
  BY <1>2, <1>3, <1>4, <1>5 DEF EconInv, EconTypes
<1> QED
  BY <1>5, <1>6, <1>7, <1>8 DEF EconInv

\* A removal: of everything the account of the vault does not own, or it fails
\* and says what is left of that.
LEMMA RemovalStep ==
    ASSUME EconInv, ClearAccount \/ ClearFails
    PROVE  EconInv'
<1>1. (\A k \in Jobs : JobOK(job[k]))' /\ DOMAIN job' = Jobs
  BY JobsStay DEF ClearAccount, ClearFails
<1>2. CASE ClearAccount
  <2>1. <<>> \in Seq(Snapshots) /\ Len(<<>>) <= FinanceRoom /\ DOMAIN <<>> = {}
    BY EmptySeq, EconAssumption
  <2>2. /\ finances' = <<>> /\ points' = {} /\ analyses' = FilesOnly /\ replacing' = FALSE
        /\ UNCHANGED <<cabinet, costs, ads, job, issued>>
    BY <1>2 DEF ClearAccount
  <2>3. analyses' \subseteq analyses /\ \A a \in analyses' : a.account = NoInput
    BY <2>2 DEF FilesOnly
  <2>4. AnalysesOfCabinet' /\ StoresOfCabinet'
    BY <2>1, <2>2, <2>3 DEF AnalysesOfCabinet, StoresOfCabinet
  <2>5. EconTypes'
    BY <1>1, <2>1, <2>2, <2>3 DEF EconInv, EconTypes
  <2> QED
    BY <1>1, <2>4, <2>5 DEF EconInv
<1>3. CASE ClearFails
  <2>1. /\ leftover' = Foreign /\ replacing' = FALSE
        /\ UNCHANGED <<cabinet, econInputs, finances, points, job, issued>>
    BY <1>3 DEF ClearFails
  <2>2. /\ \A i \in DOMAIN finances : finances[i].account = cabinet.account \/ finances[i] \in Foreign
        /\ points \subseteq {cabinet.account} \cup Foreign
        /\ \A a \in analyses : a.account \in {NoInput, cabinet.account} \/ a \in Foreign
    BY DEF Foreign
  <2>3. AnalysesOfCabinet' /\ StoresOfCabinet'
    BY <2>1, <2>2 DEF AnalysesOfCabinet, StoresOfCabinet, econInputs
  <2>4. EconTypes'
    BY <1>1, <2>1 DEF EconInv, EconTypes, econInputs
  <2> QED
    BY <1>1, <2>3, <2>4 DEF EconInv
<1> QED
  BY <1>2, <1>3

LEMMA StoreStep ==
    ASSUME EconInv,
           \/ \E report \in AdReports : RemoveCampaign(report.campaign)
           \/ \E content \in CostContents : PutCost(content)
           \/ DropAnalyses
    PROVE  EconInv'
<1>1. (\A k \in Jobs : JobOK(job[k]))' /\ DOMAIN job' = Jobs
  BY JobsStay DEF RemoveCampaign, PutCost, DropAnalyses
<1>2. CASE \E report \in AdReports : RemoveCampaign(report.campaign)
  <2>1. PICK report \in AdReports : RemoveCampaign(report.campaign)
    BY <1>2
  <2>2. ads' = WithoutCampaign(ads, report.campaign) /\ ads \in AdData /\ Loadable(ads)
    BY <2>1 DEF RemoveCampaign, EconInv, EconTypes
  <2>3. ads' \in AdData /\ Loadable(ads')
    BY <2>2, WithoutCampaignFacts
  <2> QED
    BY <1>1, <2>1, <2>3, AdsOnly DEF RemoveCampaign
<1>3. CASE \E content \in CostContents : PutCost(content)
  BY <1>1, <1>3 DEF PutCost, EconInv, EconTypes, AnalysesOfCabinet, StoresOfCabinet
<1>4. CASE DropAnalyses
  <2>1. /\ analyses' \subseteq analyses
        /\ UNCHANGED <<cabinet, replacing, costs, ads, finances, points, job, issued, leftover>>
    BY <1>4 DEF DropAnalyses, FilesOnly
  <2>2. AnalysesOfCabinet' /\ StoresOfCabinet'
    BY <2>1 DEF EconInv, AnalysesOfCabinet, StoresOfCabinet
  <2>3. EconTypes'
    BY <1>1, <2>1 DEF EconInv, EconTypes
  <2> QED
    BY <1>1, <2>2, <2>3 DEF EconInv
<1> QED
  BY <1>2, <1>3, <1>4

LEMMA VaultStep ==
    ASSUME EconInv, (\E account \in Cabinets : WriteVault(account)) \/ LockCabinet
    PROVE  EconInv'
<1>1. /\ cabinet.session \in 0..MaxTransitions /\ cabinet.session < MaxTransitions
      /\ cabinet.account \in Cabinets
      /\ cabinet \in [account : Cabinets, session : 0..MaxTransitions, unlocked : BOOLEAN]
      /\ replacing \in BOOLEAN
      /\ UNCHANGED <<econInputs, finances, points, job, issued, leftover>>
  BY DEF EconInv, EconTypes, WriteVault, LockCabinet
<1>2. cabinet.session + 1 \in 0..MaxTransitions /\ (~cabinet.unlocked) \in BOOLEAN
  BY <1>1, EconAssumption
<1>3. /\ cabinet' \in [account : Cabinets, session : 0..MaxTransitions, unlocked : BOOLEAN]
      /\ cabinet'.session = cabinet.session + 1 /\ replacing' \in BOOLEAN
      /\ replacing' \/ (~replacing /\ cabinet'.account = cabinet.account)
  <2>1. CASE \E account \in Cabinets : WriteVault(account)
    BY <1>2, <2>1 DEF WriteVault
  <2>2. CASE LockCabinet
    <3>1. cabinet' = [cabinet EXCEPT !.session = cabinet.session + 1,
                                     !.unlocked = ~cabinet.unlocked]
          /\ ~replacing /\ UNCHANGED replacing
      BY <2>2 DEF LockCabinet
    <3> QED
      BY <1>1, <1>2, <3>1
  <2> QED
    BY <2>1, <2>2
<1>4. (\A k \in Jobs : JobOK(job[k]))' /\ DOMAIN job' = Jobs
  BY <1>1, <1>3, JobsOutdated
<1>5. AnalysesOfCabinet' /\ StoresOfCabinet'
  BY <1>1, <1>3 DEF EconInv, AnalysesOfCabinet, StoresOfCabinet, econInputs
<1>6. EconTypes'
  BY <1>1, <1>3, <1>4 DEF EconInv, EconTypes, econInputs
<1> QED
  BY <1>4, <1>5, <1>6 DEF EconInv

LEMMA EconInitInv ==
    ASSUME EconInit
    PROVE  EconInv
<1>1. /\ <<>> \in Seq(Snapshots) /\ Len(<<>>) = 0 /\ 0 \in 0..MaxTransitions /\ 0 <= FinanceRoom
      /\ DOMAIN <<>> = {}
  BY EmptySeq, EconAssumption
<1>2. cabinet \in [account : Cabinets, session : 0..MaxTransitions, unlocked : BOOLEAN]
      /\ cabinet.session = 0
  BY <1>1 DEF EconInit
<1>3. ads \in AdData /\ Loadable(ads)
  <2> DEFINE none == [row \in {} |-> 0]
  <2>1. none \in [{} -> {1}] /\ DOMAIN none = {} /\ {} \in SUBSET AdRow
    OBVIOUS
  <2>2. ads = [days |-> none, campaigns |-> {}]
    BY DEF EconInit
  <2> HIDE DEF none
  <2>3. ads.days = none /\ ads.campaigns = {}
    BY <2>2
  <2>4. ads \in AdData
    BY <2>1, <2>2 DEF AdData
  <2> QED
    BY <2>1, <2>3, <2>4 DEF Loadable
<1>4. JobOK(NoJob)
  <2>1. <<>> \in Seq(Labels)
    BY EmptySeq
  <2>2. NoJob \in JobType
    BY <1>1, <2>1 DEF NoJob, JobType
  <2> QED
    BY <2>2 DEF JobOK, NoJob
<1>5. \A j \in Jobs : JobOK(job[j])
  BY <1>4 DEF EconInit
<1>6. AnalysesOfCabinet /\ StoresOfCabinet
  BY <1>1 DEF EconInit, AnalysesOfCabinet, StoresOfCabinet
<1>7. EconTypes
  BY <1>1, <1>2, <1>3 DEF EconInit, EconTypes
<1> QED
  BY <1>5, <1>6, <1>7 DEF EconInv

LEMMA EconStep ==
    ASSUME EconInv, [EconNext]_econVars
    PROVE  EconInv'
<1>1. CASE UNCHANGED econVars
  BY <1>1 DEF econVars, econInputs, EconInv, EconTypes, JobOK, AnalysesOfCabinet, StoresOfCabinet
<1>2. CASE \E j \in Jobs : JobStep(j)
  <2>1. PICK j \in Jobs : JobStep(j)
    BY <1>2
  <2>2. CASE \E kind \in Kinds : Ask(j, kind)
    BY <2>2, AskStep
  <2>3. CASE \/ OpenAnalysis(j) \/ TakeFinance(j) \/ LoadAds(j) \/ Compare(j)
             \/ AnswerReport(j) \/ Fetch(j) \/ Parse(j) \/ AnswerRead(j)
    BY <2>3, HandlerStep
  <2>4. CASE PutFetched(j)
    BY <2>4, PutStep
  <2>5. CASE \E first, second \in AdReports :
               SaveAds(j, <<first, second>>) \/ SaveAds(j, <<first>>)
    BY <2>5, SaveStep
  <2> QED
    BY <2>1, <2>2, <2>3, <2>4, <2>5 DEF JobStep
<1>3. CASE \/ \E report \in AdReports : RemoveCampaign(report.campaign)
           \/ \E content \in CostContents : PutCost(content)
           \/ DropAnalyses
  BY <1>3, StoreStep
<1>4. CASE (\E account \in Cabinets : WriteVault(account)) \/ LockCabinet
  BY <1>4, VaultStep
<1>5. CASE \E skus \in Assortments : NewAnalysis(skus) \/ NewFilesAnalysis(skus)
  BY <1>5, CommitStep
<1>6. CASE ClearAccount \/ ClearFails
  BY <1>6, RemovalStep
<1> QED
  BY <1>1, <1>2, <1>3, <1>4, <1>5, <1>6 DEF EconNext

\* A handler that answers has just compared what it holds with what is stored.
LEMMA AnsweringFacts ==
    ASSUME EconInv, [EconNext]_econVars, NEW j \in Jobs, Answering(j)
    PROVE  AnswerReport(j) /\ Current(j) /\ (job[j].kind \in OfAccount => Committable(j))
<1>1. /\ JobOK(job[j]) /\ job[j] # NoJob /\ job[j].steps # <<>>
      /\ Head(job[j].steps) = "answer"
  BY AtStepFacts DEF Answering
<1>2. job[j].kind \in Kinds /\ NoJob.kind = NoInput
  BY <1>1 DEF JobOK, NoJob
<1>3. job'[j] # NoJob /\ job'[j].steps = <<>>
  BY <1>2, EconAssumption DEF Answering
<1>4. job'[j] # job[j]
  BY <1>1, <1>3
<1>5. DOMAIN job = Jobs
  BY DEF EconInv, EconTypes
<1>6. PICK k \in Jobs : JobStep(k)
  BY <1>4 DEF EconNext, econVars, RemoveCampaign, PutCost, NewAnalysis, NewFilesAnalysis,
     CommitAnalysis, WriteVault, DropAnalyses, ClearAccount, ClearFails, LockCabinet
<1>7. k = j
  <2>1. \E n : job' = [job EXCEPT ![k] = n]
    BY ZenonT(30), <1>6 DEF JobStep, Ask, OpenAnalysis, TakeFinance, LoadAds, Compare, AnswerReport, Fetch,
       PutFetched, Parse, AnswerRead, SaveAds, Refuse
  <2> QED
    BY <1>4, <1>5, <2>1
<1>8. ~Refuse(j)
  BY <1>3, <1>5 DEF Refuse
<1>9. AnswerReport(j)
  BY ZenonT(30), <1>1, <1>6, <1>7, <1>8 DEF JobStep, Ask, OpenAnalysis, TakeFinance, LoadAds, Compare, Fetch,
     PutFetched, Parse, AnswerRead, SaveAds, AtStep
<1> QED
  BY <1>8, <1>9 DEF AnswerReport

LEMMA ReportStep ==
    ASSUME EconInv, [EconNext]_econVars, NEW j \in Jobs, Answering(j)
    PROVE  /\ job[j].analysis = analysis
           /\ job[j].costs \in {NoInput, costs} /\ job[j].ads \in {NoInput, ads}
           /\ job[j].finance # NoInput =>
                  /\ job[j].finance.account = cabinet.account
                  /\ cabinet.session = job[j].session
                  /\ \/ job[j].analysis.account \in {NoInput, cabinet.account}
                     \/ job[j].analysis \in leftover
<1>1. AnswerReport(j) /\ Current(j) /\ (job[j].kind \in OfAccount => Committable(j))
  BY AnsweringFacts
<1>2. /\ JobOK(job[j]) /\ job[j] # NoJob /\ 1 \in 1..Len(job[j].steps)
      /\ job[j].steps[1] = "answer"
  BY AtStepFacts DEF Answering
<1>3. job[j].analysis # NoInput
  <2>1. job[j].analysis = NoInput => \E k \in 1..1 : job[j].steps[k] = "open"
    BY <1>2 DEF JobOK, RefreshPlanned
  <2>2. \A k \in 1..1 : k = 1
    OBVIOUS
  <2> QED
    BY <1>2, <2>1, <2>2
<1>4. ASSUME job[j].finance # NoInput
      PROVE  /\ job[j].finance.account = cabinet.account
             /\ cabinet.session = job[j].session
             /\ \/ job[j].analysis.account \in {NoInput, cabinet.account}
                \/ job[j].analysis \in leftover
  <2>1. job[j].kind \in OfAccount /\ job[j].finance.account = job[j].account
    BY <1>2, <1>4 DEF JobOK
  <2>2. ~replacing /\ cabinet.session = job[j].session
    BY <1>1, <2>1 DEF Committable, JobActive
  <2>3. job[j].account = cabinet.account
    BY <1>2, <2>1, <2>2 DEF JobOK
  <2>4. job[j].analysis.account \in {NoInput, cabinet.account} \/ job[j].analysis \in leftover
    BY <1>1, <1>3, <2>2, NewestStored DEF Current, EconInv, AnalysesOfCabinet
  <2> QED
    BY <2>1, <2>2, <2>3, <2>4
<1> QED
  BY <1>1, <1>4 DEF Current

-----------------------------------------------------------------------------
(* The theorems.                                                           *)

\* In every state the requests of the active session, the stores and the
\* analyses are of one account, but for FILES and what a failed removal left,
\* and handlers do their steps in order.
THEOREM EconInvAlways == EconSpec => []EconInv
<1>1. EconInit => EconInv
  BY EconInitInv
<1>2. EconInv /\ [EconNext]_econVars => EconInv'
  BY EconStep
<1> QED
  BY <1>1, <1>2, PTL DEF EconSpec

\* The types of the handlers' state; the saved advertising can be loaded again,
\* whatever overlapping reports were imported and removed.
THEOREM EconTypesCorrect == EconSpec => []EconTypeOK
<1>1. EconInv => EconTypeOK
  <2> SUFFICES ASSUME EconInv
               PROVE  EconTypeOK
    OBVIOUS
  <2>1. \A a \in analyses : a.skus \in Assortments
    BY DEF EconInv, EconTypes, Analyses
  <2>2. ASSUME NEW j \in Jobs
        PROVE  Len(job[j].steps) <= 5
    <3>1. JobOK(job[j])
      BY DEF EconInv
    <3>2. CASE job[j] = NoJob
      BY <3>2 DEF NoJob
    <3>3. CASE job[j] # NoJob
      BY <3>1, <3>3 DEF JobOK, RefreshPlanned
    <3> QED
      BY <3>2, <3>3
  <2> QED
    BY <2>1, <2>2 DEF EconInv, EconTypes, EconTypeOK, AdvertisingLoadable
<1> QED
  BY <1>1, EconInvAlways, PTL

\* Finance and handoff points are of the account of the vault, whatever was
\* being loaded while the credentials were replaced; only what was stored
\* before a removal that failed may be of another account, however many fail.
THEOREM StoresKeptOfCabinet == EconSpec => []StoresOfCabinet
<1>1. EconInv => StoresOfCabinet
  BY DEF EconInv
<1> QED
  BY <1>1, EconInvAlways, PTL

\* A report that leaves was computed from what is stored at that moment;
\* finance in it is of the account of an unrevoked session, and so is the
\* analysis beside it, unless it is of FILES or a failed removal left it.
THEOREM ReportsAreConsistent == EconSpec => ReportsConsistent
<1>1. EconInv /\ [EconNext]_econVars =>
        [\A j \in Jobs : Answering(j) =>
            /\ job[j].analysis = analysis
            /\ job[j].costs \in {NoInput, costs} /\ job[j].ads \in {NoInput, ads}
            /\ job[j].finance # NoInput =>
                   /\ job[j].finance.account = cabinet.account
                   /\ cabinet.session = job[j].session
                   /\ \/ job[j].analysis.account \in {NoInput, cabinet.account}
                      \/ job[j].analysis \in leftover]_econVars
  BY ReportStep
<1> QED
  BY <1>1, EconInvAlways, PTL DEF EconSpec, ReportsConsistent

-----------------------------------------------------------------------------
(* FinanceReport.  What an accrual adds to the report balances (Balanced): *)
(* its products less its common expenses are its amount, and so it is for  *)
(* the expenses of each SKU.  Lines that balance balance together, so the  *)
(* report balances with the sum of the accruals taken (BooksInv); and when *)
(* the reading ends these are all there are, each once (DayInv).           *)

-----------------------------------------------------------------------------
(* Sums over sequences.                                                     *)

\* The sum of the weights of a sequence's elements.
Weight(w, t) == Total([i \in DOMAIN t |-> w[t[i]]], DOMAIN t)

LEMMA WeightType ==
    ASSUME NEW S, NEW w \in [S -> Int], NEW t \in Seq(S)
    PROVE  /\ IsFiniteSet(DOMAIN t) /\ DOMAIN t = 1..Len(t) /\ Len(t) \in Nat
           /\ \A i \in DOMAIN t : w[t[i]] \in Int
           /\ Weight(w, t) \in Int
<1>1. DOMAIN t = 1..Len(t) /\ Len(t) \in Nat /\ \A i \in DOMAIN t : t[i] \in S
  OBVIOUS
<1>2. IsFiniteSet(DOMAIN t)
  BY <1>1, FS_Interval
<1> DEFINE f == [i \in DOMAIN t |-> w[t[i]]]
<1>3. \A i \in DOMAIN t : w[t[i]] \in Int /\ f[i] \in Int
  BY <1>1
<1>4. Total(f, DOMAIN t) \in Int
  <2> HIDE DEF f
  <2> QED
    BY <1>2, <1>3, TotalType
<1> QED
  BY <1>1, <1>2, <1>3, <1>4 DEF Weight

LEMMA WeightOfEmpty == ASSUME NEW w PROVE Weight(w, <<>>) = 0
BY TotalOfNothing DEF Weight

LEMMA WeightOfConcat ==
    ASSUME NEW S, NEW w \in [S -> Int], NEW s \in Seq(S), NEW t \in Seq(S)
    PROVE  Weight(w, s \o t) = Weight(w, s) + Weight(w, t)
<1> DEFINE m == Len(s)
           n == Len(t)
           f == [i \in DOMAIN (s \o t) |-> w[(s \o t)[i]]]
           g == [i \in DOMAIN s |-> w[s[i]]]
           h == [i \in DOMAIN t |-> w[t[i]]]
           Q == {k \in 0..n : Total(f, 1..(m + k)) # Total(g, 1..m) + Total(h, 1..k)}
<1>1. /\ m \in Nat /\ n \in Nat /\ DOMAIN s = 1..m /\ DOMAIN t = 1..n
      /\ DOMAIN (s \o t) = 1..(m + n)
      /\ \A i \in 1..m : (s \o t)[i] = s[i] /\ s[i] \in S
      /\ \A i \in 1..n : (s \o t)[m + i] = t[i] /\ t[i] \in S
  OBVIOUS
<1>2. /\ \A i \in 1..m : f[i] = g[i] /\ g[i] \in Int
      /\ \A i \in 1..n : f[m + i] = h[i] /\ h[i] \in Int
  BY <1>1
<1>3. \A i \in 1..(m + n) : f[i] \in Int
  <2> TAKE i \in 1..(m + n)
  <2>1. CASE i \in 1..m
    BY <1>2, <2>1
  <2>2. CASE i \notin 1..m
    <3>1. i - m \in 1..n /\ i = m + (i - m)
      BY <1>1, <2>2
    <3> QED
      BY <1>2, <3>1
  <2> QED
    BY <2>1, <2>2
<1> HIDE DEF f, g, h, m, n
<1>4. Q = {}
  <2> SUFFICES ASSUME Q # {}
               PROVE  FALSE
    OBVIOUS
  <2>1. PICK k \in Q : \A y \in Q : k <= y
    <3>1. Q \subseteq Nat
      BY <1>1
    <3> HIDE DEF Q
    <3> QED
      BY <3>1, LeastNatural
  <2>2. k \in 0..n /\ Total(f, 1..(m + k)) # Total(g, 1..m) + Total(h, 1..k)
    BY <2>1
  <2>3. k # 0 => k - 1 \in 0..n /\ k - 1 \notin Q
    <3>1. k \in Int /\ k - 1 < k
      BY <1>1, <2>2
    <3>2. k # 0 => k - 1 \in 0..n
      BY <1>1, <2>2
    <3> HIDE DEF Q
    <3> QED
      BY <2>1, <3>1, <3>2
  <2>4. IsFiniteSet(1..m)
    <3>1. 1 \in Int /\ m \in Int
      BY <1>1
    <3> QED
      BY <3>1, FS_Interval
  <2>5. Total(g, 1..m) \in Int
    BY <1>2, <2>4, TotalType
  <2>6. CASE k = 0
    <3>1. Total(f, 1..m) = Total(g, 1..m)
      BY <1>2, <2>4, TotalSame
    <3>2. 1..(m + k) = 1..m /\ 1..k = {}
      BY <1>1, <2>6
    <3> QED
      BY <2>2, <2>5, <3>1, <3>2, TotalOfNothing
  <2>7. CASE k # 0
    <3>1. k - 1 \in 0..n /\ k \in 1..n /\ m + k \in Nat \ {0} /\ k \in Nat \ {0}
      BY <1>1, <2>2, <2>7
    <3>2. Total(f, 1..(m + (k - 1))) = Total(g, 1..m) + Total(h, 1..(k - 1))
      BY <2>3, <2>7, <3>1
    <3>3. /\ Total(f, 1..(m + k)) = f[m + k] + Total(f, 1..((m + k) - 1))
          /\ f[m + k] \in Int /\ Total(f, 1..((m + k) - 1)) \in Int
      <4>1. \A i \in 1..(m + k) : f[i] \in Int
        BY <1>1, <1>3, <3>1
      <4> QED
        BY <3>1, <4>1, TotalUpTo
    <3>4. /\ Total(h, 1..k) = h[k] + Total(h, 1..(k - 1))
          /\ h[k] \in Int /\ Total(h, 1..(k - 1)) \in Int
      <4>1. \A i \in 1..k : h[i] \in Int
        BY <1>1, <1>2, <3>1
      <4> QED
        BY <3>1, <4>1, TotalUpTo
    <3>5. f[m + k] = h[k] /\ (m + k) - 1 = m + (k - 1)
      BY <1>1, <1>2, <3>1
    <3> QED
      BY <2>2, <2>5, <3>2, <3>3, <3>4, <3>5
  <2> QED
    BY <2>6, <2>7
<1>5. Total(f, 1..(m + n)) = Total(g, 1..m) + Total(h, 1..n)
  BY <1>1, <1>4
<1> QED
  BY <1>1, <1>5 DEF Weight, f, g, h

-----------------------------------------------------------------------------
(* What an accrual adds to the report balances.                             *)

Money == Int \cup {Missing}
ProductLine == [sku : Skus, quantity : Money, revenue : Money, net : Int]
ExpenseLine == [sku : Skus \cup {Missing}, amount : Int]

NetOfAll == [l \in ProductLine |-> l.net]
NetFor(s) == [l \in ProductLine |-> IF l.sku = s THEN l.net ELSE 0]
RevenueFor(s) == [l \in ProductLine |-> IF l.sku = s THEN Value(l.revenue) ELSE 0]
UnknownFor(s) == [l \in ProductLine |-> IF l.sku = s /\ l.revenue = Missing THEN 1 ELSE 0]
AmountFor(s) == [e \in ExpenseLine |-> IF e.sku = s THEN e.amount ELSE 0]

\* Products and expenses that explain an amount, for every SKU without a line
\* of unknown revenue.
SkuBalances(ps, es, s) ==
    Weight(UnknownFor(s), ps) = 0 =>
        Weight(RevenueFor(s), ps) = Weight(NetFor(s), ps) + Weight(AmountFor(s), es)
Balanced(ps, es, amount) ==
    /\ ps \in Seq(ProductLine) /\ es \in Seq(ExpenseLine) /\ amount \in Int
    /\ Weight(NetOfAll, ps) = amount + Weight(AmountFor(Missing), es)
    /\ \A s \in Skus : SkuBalances(ps, es, s)

LEMMA WeightTypes ==
    /\ NetOfAll \in [ProductLine -> Int]
    /\ \A s : /\ NetFor(s) \in [ProductLine -> Int]
              /\ RevenueFor(s) \in [ProductLine -> Int]
              /\ UnknownFor(s) \in [ProductLine -> {0, 1}]
              /\ UnknownFor(s) \in [ProductLine -> Int]
              /\ AmountFor(s) \in [ExpenseLine -> Int]
<1>1. NetOfAll \in [ProductLine -> Int]
  BY DEF NetOfAll, ProductLine
<1>2. ASSUME NEW s
      PROVE  /\ NetFor(s) \in [ProductLine -> Int]
             /\ RevenueFor(s) \in [ProductLine -> Int]
  BY DEF NetFor, RevenueFor, ProductLine, Money, Value
<1>3. ASSUME NEW s
      PROVE  /\ UnknownFor(s) \in [ProductLine -> {0, 1}]
             /\ UnknownFor(s) \in [ProductLine -> Int]
  BY DEF UnknownFor
<1>4. ASSUME NEW s
      PROVE  AmountFor(s) \in [ExpenseLine -> Int]
  BY DEF AmountFor, ExpenseLine
<1> QED
  BY <1>1, <1>2, <1>3, <1>4

LEMMA UnknownIsNatural ==
    ASSUME NEW ps \in Seq(ProductLine), NEW s
    PROVE  Weight(UnknownFor(s), ps) \in Nat
<1> DEFINE u == [i \in DOMAIN ps |-> UnknownFor(s)[ps[i]]]
           z == [i \in DOMAIN ps |-> 0]
<1>1. IsFiniteSet(DOMAIN ps) /\ Weight(UnknownFor(s), ps) \in Int
  BY WeightTypes, WeightType
<1>2. \A i \in DOMAIN ps : u[i] \in {0, 1} /\ z[i] = 0
  <2>1. \A i \in DOMAIN ps : ps[i] \in ProductLine
    OBVIOUS
  <2> QED
    BY <2>1, WeightTypes
<1> HIDE DEF u, z
<1>3. \A i \in DOMAIN ps : z[i] \in Int /\ u[i] \in Int /\ z[i] <= u[i]
  BY <1>2
<1>4. Total(z, DOMAIN ps) <= Total(u, DOMAIN ps)
  BY <1>1, <1>3, TotalLess
<1>5. Total(z, DOMAIN ps) = 0
  BY <1>1, <1>2, TotalOfZeros
<1> QED
  BY <1>1, <1>4, <1>5 DEF Weight, u

LEMMA NothingBalances == Balanced(<<>>, <<>>, 0)
BY WeightOfEmpty DEF Balanced, SkuBalances

LEMMA BalanceAdds ==
    ASSUME NEW ps, NEW es, NEW m, Balanced(ps, es, m), NEW qs, NEW fs, NEW n, Balanced(qs, fs, n)
    PROVE  Balanced(ps \o qs, es \o fs, m + n)
<1>1. /\ ps \in Seq(ProductLine) /\ qs \in Seq(ProductLine)
      /\ es \in Seq(ExpenseLine) /\ fs \in Seq(ExpenseLine) /\ m \in Int /\ n \in Int
  BY DEF Balanced
<1>2. /\ ps \o qs \in Seq(ProductLine) /\ es \o fs \in Seq(ExpenseLine) /\ m + n \in Int
  BY <1>1
<1>3. ASSUME NEW w \in [ProductLine -> Int]
      PROVE  /\ Weight(w, ps \o qs) = Weight(w, ps) + Weight(w, qs)
             /\ Weight(w, ps) \in Int /\ Weight(w, qs) \in Int
  BY <1>1, WeightOfConcat, WeightType
<1>4. ASSUME NEW w \in [ExpenseLine -> Int]
      PROVE  /\ Weight(w, es \o fs) = Weight(w, es) + Weight(w, fs)
             /\ Weight(w, es) \in Int /\ Weight(w, fs) \in Int
  BY <1>1, WeightOfConcat, WeightType
<1>5. Weight(NetOfAll, ps \o qs) = (m + n) + Weight(AmountFor(Missing), es \o fs)
  <2>1. /\ Weight(NetOfAll, ps \o qs) = Weight(NetOfAll, ps) + Weight(NetOfAll, qs)
        /\ Weight(AmountFor(Missing), es \o fs)
             = Weight(AmountFor(Missing), es) + Weight(AmountFor(Missing), fs)
        /\ Weight(AmountFor(Missing), es) \in Int /\ Weight(AmountFor(Missing), fs) \in Int
    BY <1>3, <1>4, WeightTypes
  <2>2. /\ Weight(NetOfAll, ps) = m + Weight(AmountFor(Missing), es)
        /\ Weight(NetOfAll, qs) = n + Weight(AmountFor(Missing), fs)
    BY DEF Balanced
  <2> QED
    BY <1>1, <2>1, <2>2
<1>6. ASSUME NEW s \in Skus
      PROVE  SkuBalances(ps \o qs, es \o fs, s)
  <2> SUFFICES ASSUME Weight(UnknownFor(s), ps \o qs) = 0
               PROVE  Weight(RevenueFor(s), ps \o qs)
                        = Weight(NetFor(s), ps \o qs) + Weight(AmountFor(s), es \o fs)
    BY DEF SkuBalances
  <2>1. Weight(UnknownFor(s), ps) = 0 /\ Weight(UnknownFor(s), qs) = 0
    <3>1. Weight(UnknownFor(s), ps) \in Nat /\ Weight(UnknownFor(s), qs) \in Nat
      BY <1>1, UnknownIsNatural
    <3>2. Weight(UnknownFor(s), ps) + Weight(UnknownFor(s), qs) = 0
      BY <1>3, WeightTypes
    <3> QED
      BY <3>1, <3>2
  <2>2. /\ Weight(RevenueFor(s), ps) = Weight(NetFor(s), ps) + Weight(AmountFor(s), es)
        /\ Weight(RevenueFor(s), qs) = Weight(NetFor(s), qs) + Weight(AmountFor(s), fs)
    BY <2>1 DEF Balanced, SkuBalances
  <2>3. /\ Weight(RevenueFor(s), ps \o qs) = Weight(RevenueFor(s), ps) + Weight(RevenueFor(s), qs)
        /\ Weight(NetFor(s), ps \o qs) = Weight(NetFor(s), ps) + Weight(NetFor(s), qs)
        /\ Weight(AmountFor(s), es \o fs) = Weight(AmountFor(s), es) + Weight(AmountFor(s), fs)
    BY <1>3, <1>4, WeightTypes
  <2>4. /\ Weight(NetFor(s), ps) \in Int /\ Weight(NetFor(s), qs) \in Int
        /\ Weight(AmountFor(s), es) \in Int /\ Weight(AmountFor(s), fs) \in Int
    BY <1>3, <1>4, WeightTypes
  <2> QED
    BY <2>2, <2>3, <2>4
<1> QED
  BY <1>2, <1>5, <1>6 DEF Balanced

\* The weight of a single line.
LEMMA WeightOfOne ==
    ASSUME NEW S, NEW w \in [S -> Int], NEW x \in S
    PROVE  Weight(w, <<x>>) = w[x]
<1> DEFINE t == <<x>>
           f == [i \in DOMAIN t |-> w[t[i]]]
<1>1. DOMAIN t = 1..1 /\ 1..(1 - 1) = {} /\ t[1] = x
  OBVIOUS
<1> HIDE DEF t
<1>2. f[1] = w[x]
  BY <1>1
<1>3. \A i \in 1..1 : f[i] \in Int
  BY <1>1, <1>2
<1> HIDE DEF f
<1>4. Total(f, 1..1) = f[1] + Total(f, 1..(1 - 1)) /\ f[1] \in Int
  <2>1. 1 \in Nat \ {0}
    OBVIOUS
  <2> QED
    BY <1>3, <2>1, TotalUpTo, Zenon
<1>5. Total(f, 1..1) = f[1]
  BY <1>1, <1>4, TotalOfNothing
<1>6. Total(f, DOMAIN t) = w[x]
  BY <1>1, <1>2, <1>5
<1> QED
  BY <1>6 DEF Weight, f, t

LEMMA ExpenseWeight ==
    ASSUME NEW s \in Skus \cup {Missing}, NEW m \in Int
    PROVE  /\ Expense(s, m) \in Seq(ExpenseLine)
           /\ \A x : Weight(AmountFor(x), Expense(s, m)) = IF s = x THEN m ELSE 0
<1> DEFINE e == [sku |-> s, amount |-> m]
<1>1. e \in ExpenseLine
  BY DEF ExpenseLine
<1>2. Expense(s, m) = <<e>>
  BY DEF Expense
<1>3. ASSUME NEW x
      PROVE  Weight(AmountFor(x), <<e>>) = IF s = x THEN m ELSE 0
  <2>1. AmountFor(x)[e] = IF s = x THEN m ELSE 0
    BY <1>1 DEF AmountFor
  <2>2. AmountFor(x) \in [ExpenseLine -> Int]
    BY WeightTypes
  <2> HIDE DEF e
  <2> QED
    BY <1>1, <2>1, <2>2, WeightOfOne
<1> HIDE DEF e
<1>4. <<e>> \in Seq(ExpenseLine)
  BY <1>1
<1> QED
  BY <1>2, <1>3, <1>4

LEMMA ProductWeight ==
    ASSUME NEW p \in ProductLine
    PROVE  /\ <<p>> \in Seq(ProductLine)
           /\ Weight(NetOfAll, <<p>>) = p.net
           /\ \A s : /\ Weight(NetFor(s), <<p>>) = IF p.sku = s THEN p.net ELSE 0
                     /\ Weight(RevenueFor(s), <<p>>) = IF p.sku = s THEN Value(p.revenue) ELSE 0
                     /\ Weight(UnknownFor(s), <<p>>)
                          = IF p.sku = s /\ p.revenue = Missing THEN 1 ELSE 0
<1>1. <<p>> \in Seq(ProductLine)
  OBVIOUS
<1>2. Weight(NetOfAll, <<p>>) = NetOfAll[p]
  BY WeightTypes, WeightOfOne
<1>3. ASSUME NEW s
      PROVE  /\ Weight(NetFor(s), <<p>>) = NetFor(s)[p]
             /\ Weight(RevenueFor(s), <<p>>) = RevenueFor(s)[p]
             /\ Weight(UnknownFor(s), <<p>>) = UnknownFor(s)[p]
  <2>1. /\ NetFor(s) \in [ProductLine -> Int] /\ RevenueFor(s) \in [ProductLine -> Int]
        /\ UnknownFor(s) \in [ProductLine -> Int]
    BY WeightTypes
  <2> QED
    BY <2>1, WeightOfOne
<1>4. NetOfAll[p] = p.net
  BY DEF NetOfAll
<1>5. ASSUME NEW s
      PROVE  /\ NetFor(s)[p] = IF p.sku = s THEN p.net ELSE 0
             /\ RevenueFor(s)[p] = IF p.sku = s THEN Value(p.revenue) ELSE 0
             /\ UnknownFor(s)[p] = IF p.sku = s /\ p.revenue = Missing THEN 1 ELSE 0
  BY DEF NetFor, RevenueFor, UnknownFor
<1> QED
  BY <1>1, <1>2, <1>3, <1>4, <1>5

PostingLine == [sku : Skus, sale : Money, commission : Money, delivery : Money,
                price : Money, seller : Money, posting : BOOLEAN]
FeeLine == [sku : Skus \cup {Missing}, amount : Int]

LEMMA ValueType == ASSUME NEW x \in Money PROVE Value(x) \in Int /\ Abs(Value(x)) \in Nat
BY DEF Value, Money, Abs

LEMMA QuantityType ==
    ASSUME NEW l \in PostingLine
    PROVE  Quantity(l) \in Money /\ Revenue(l) \in Money /\ Net(l) \in Int
<1>1. /\ l.sku \in Skus /\ l.sale \in Money /\ l.commission \in Money /\ l.delivery \in Money
      /\ l.price \in Money /\ l.seller \in Money
  BY DEF PostingLine
<1>2. Delivered[l.sku] \in Money
  BY <1>1, DeliveredAssumption DEF Money
<1>3. Whole(l) => Abs(l.sale) \div Abs(l.price) \in Int
  <2> SUFFICES ASSUME Whole(l)
               PROVE  Abs(l.sale) \div Abs(l.price) \in Int
    OBVIOUS
  <2>1. l.sale \in Int /\ l.price \in Int /\ l.price # 0
    BY <1>1 DEF Whole, Value, Money
  <2>2. Abs(l.sale) \in Nat /\ Abs(l.price) \in Nat /\ Abs(l.price) > 0
    BY <2>1 DEF Abs
  <2> QED
    BY <2>2
<1>4. Quantity(l) \in Money
  <2> DEFINE u == Abs(l.sale) \div Abs(l.price)
  <2>1. Whole(l) => u \in Int /\ -u \in Int
    BY <1>3
  <2>2. Quantity(l) \in {0, Missing, u, -u, Delivered[l.sku]}
                /\ (Quantity(l) \in {u, -u} => Whole(l) \/ Quantity(l) \in {0, Missing, Delivered[l.sku]})
    <3> HIDE DEF u
    <3> QED
      BY DEF Quantity, u
  <2> HIDE DEF u
  <2> QED
    BY <1>2, <2>1, <2>2 DEF Money
<1>5. Revenue(l) \in Money
  <2> DEFINE a == Abs(Value(l.seller))
             q == Quantity(l)
  <2>1. a \in Int
    BY <1>1, ValueType
  <2>2. q # Missing => q \in Int
    BY <1>4 DEF Money
  <2>3. Revenue(l) = Missing \/ (q # Missing /\ Revenue(l) = a * q)
    BY DEF Revenue
  <2> HIDE DEF a, q
  <2> QED
    BY <2>1, <2>2, <2>3 DEF Money
<1>6. Net(l) \in Int
  BY <1>1, ValueType DEF Net
<1> QED
  BY <1>4, <1>5, <1>6

LEMMA PostingBalances ==
    ASSUME NEW a, a.category = "POSTING", NEW l \in PostingLine
    PROVE  Balanced(ProductOf(a, l), ExpensesOf(a, l), AmountOf(a, l))
<1> DEFINE p == [sku |-> l.sku, quantity |-> Quantity(l), revenue |-> Revenue(l), net |-> Net(l)]
           r == Revenue(l)
           sale == Value(l.sale)
           fee == Value(l.commission)
           way == Value(l.delivery)
           e1 == IF r = Missing THEN <<>> ELSE Expense(l.sku, r - sale - fee)
           e2 == IF way = 0 THEN <<>> ELSE Expense(l.sku, -l.delivery)
<1>1. /\ l.sku \in Skus /\ l.sku # Missing /\ sale \in Int /\ fee \in Int /\ way \in Int
      /\ way # 0 => l.delivery = way
  BY ValueType, FinanceAssumption DEF PostingLine, Value
<1>2. r \in Money /\ Quantity(l) \in Money /\ Net(l) \in Int
  BY QuantityType
<1>3. p \in ProductLine /\ p.sku = l.sku /\ p.revenue = r /\ p.net = Net(l)
  BY <1>1, <1>2 DEF ProductLine
<1>4. /\ ProductOf(a, l) = <<p>> /\ ExpensesOf(a, l) = e1 \o e2 /\ AmountOf(a, l) = Net(l)
      /\ Net(l) = sale + fee + way
  BY DEF ProductOf, ExpensesOf, AmountOf, Net
<1>5. /\ e1 \in Seq(ExpenseLine)
      /\ \A x : Weight(AmountFor(x), e1)
                  = IF r # Missing /\ l.sku = x THEN r - sale - fee ELSE 0
  <2>1. CASE r = Missing
    <3>1. e1 = <<>>
      BY <2>1
    <3> HIDE DEF e1, r, sale, fee
    <3> QED
      BY <2>1, <3>1, WeightOfEmpty
  <2>2. CASE r # Missing
    <3> DEFINE m == r - sale - fee
    <3>1. m \in Int /\ l.sku \in Skus \cup {Missing}
      BY <1>1, <1>2, <2>2 DEF Money
    <3>2. e1 = Expense(l.sku, m)
      BY <2>2
    <3> HIDE DEF m, e1, r
    <3>3. /\ Expense(l.sku, m) \in Seq(ExpenseLine)
          /\ \A x : Weight(AmountFor(x), Expense(l.sku, m)) = IF l.sku = x THEN m ELSE 0
      BY <3>1, ExpenseWeight
    <3>4. /\ e1 \in Seq(ExpenseLine)
          /\ \A x : Weight(AmountFor(x), e1) = IF r # Missing /\ l.sku = x THEN m ELSE 0
      BY <2>2, <3>2, <3>3
    <3> QED
      BY <3>4 DEF m
  <2> QED
    BY <2>1, <2>2
<1>6. /\ e2 \in Seq(ExpenseLine)
      /\ \A x : Weight(AmountFor(x), e2) = IF l.sku = x THEN -way ELSE 0
  <2>1. CASE way = 0
    <3>1. e2 = <<>>
      BY <2>1
    <3> HIDE DEF e1, e2, p, r, sale, fee, way
    <3>2. \A x : (IF l.sku = x THEN -way ELSE 0) = 0
      <4>1. \A k \in Int : -k = 0 - k
        OBVIOUS
      <4>2. -way = 0 - way
        BY <1>1, <4>1
      <4>3. -way = 0
        BY <2>1, <4>2
      <4> QED
        BY <4>3
    <3> QED
      BY <3>1, <3>2, WeightOfEmpty
  <2>2. CASE way # 0
    <3>1. -way \in Int /\ l.sku \in Skus \cup {Missing}
      BY <1>1
    <3>2. e2 = Expense(l.sku, -way)
      BY <1>1, <2>2
    <3> DEFINE m == -way
    <3> HIDE DEF e2, way
    <3>3. m \in Int /\ e2 = Expense(l.sku, m)
      BY <3>1, <3>2
    <3> HIDE DEF m
    <3>4. /\ e2 \in Seq(ExpenseLine)
          /\ \A x : Weight(AmountFor(x), e2) = IF l.sku = x THEN m ELSE 0
      BY <3>1, <3>3, ExpenseWeight
    <3> QED
      BY <3>4 DEF m
  <2> QED
    BY <2>1, <2>2
<1> HIDE DEF p, r, sale, fee, way, e1, e2
<1>7. ASSUME NEW x
      PROVE  Weight(AmountFor(x), e1 \o e2)
               = IF l.sku # x THEN 0 ELSE IF r = Missing THEN -way ELSE (r - sale - fee) - way
  <2>1. Weight(AmountFor(x), e1 \o e2) = Weight(AmountFor(x), e1) + Weight(AmountFor(x), e2)
    <3>1. AmountFor(x) \in [ExpenseLine -> Int]
      BY WeightTypes
    <3> QED
      BY <1>5, <1>6, <3>1, WeightOfConcat
  <2>2. r # Missing => r \in Int
    BY <1>2 DEF Money
  <2> QED
    BY <1>1, <1>5, <1>6, <2>1, <2>2
<1>8. e1 \o e2 \in Seq(ExpenseLine) /\ <<p>> \in Seq(ProductLine)
  BY <1>3, <1>5, <1>6
<1>9. Weight(NetOfAll, <<p>>) = Net(l) + Weight(AmountFor(Missing), e1 \o e2)
  <2>1. Weight(NetOfAll, <<p>>) = Net(l)
    BY <1>3, ProductWeight
  <2>2. Weight(AmountFor(Missing), e1 \o e2) = 0
    BY <1>1, <1>7
  <2> QED
    BY <1>2, <2>1, <2>2
<1>10. ASSUME NEW s \in Skus
       PROVE  SkuBalances(<<p>>, e1 \o e2, s)
  <2>1. /\ Weight(NetFor(s), <<p>>) = IF l.sku = s THEN Net(l) ELSE 0
        /\ Weight(RevenueFor(s), <<p>>) = IF l.sku = s THEN Value(r) ELSE 0
        /\ Weight(UnknownFor(s), <<p>>) = IF l.sku = s /\ r = Missing THEN 1 ELSE 0
    BY <1>3, ProductWeight
  <2>2. CASE l.sku # s
    <3>1. Weight(AmountFor(s), e1 \o e2) = 0
      BY <1>7, <2>2
    <3> QED
      BY <2>1, <2>2, <3>1 DEF SkuBalances
  <2>3. CASE l.sku = s /\ r = Missing
    BY <2>1, <2>3 DEF SkuBalances
  <2>4. CASE l.sku = s /\ r # Missing
    <3>1. Weight(AmountFor(s), e1 \o e2) = (r - sale - fee) - way
      BY <1>7, <2>4
    <3>2. r \in Int /\ Value(r) = r
      BY <1>2, <2>4 DEF Money, Value
    <3>3. r = Net(l) + ((r - sale - fee) - way)
      BY <1>1, <1>4, <3>2
    <3> QED
      BY <2>1, <2>4, <3>1, <3>2, <3>3 DEF SkuBalances
  <2> QED
    BY <2>2, <2>3, <2>4
<1> QED
  BY <1>2, <1>4, <1>8, <1>9, <1>10 DEF Balanced

LEMMA FeeBalances ==
    ASSUME NEW a, a.category # "POSTING", NEW l \in FeeLine
    PROVE  Balanced(ProductOf(a, l), ExpensesOf(a, l), AmountOf(a, l))
<1> DEFINE m == l.amount
           p == [sku |-> l.sku, quantity |-> 0, revenue |-> 0, net |-> m]
           es == Expense(l.sku, -m)
<1>1. l.sku \in Skus \cup {Missing} /\ m \in Int /\ -m \in Int /\ Missing \notin Skus
  BY FinanceAssumption DEF FeeLine
<1>2. /\ ProductOf(a, l) = IF l.sku = Missing THEN <<>> ELSE <<p>>
      /\ ExpensesOf(a, l) = es /\ AmountOf(a, l) = m
  BY DEF ProductOf, ExpensesOf, AmountOf
<1>3. /\ es \in Seq(ExpenseLine)
      /\ \A x : Weight(AmountFor(x), es) = IF l.sku = x THEN -m ELSE 0
  BY <1>1, ExpenseWeight
<1>4. CASE l.sku = Missing
  <2> HIDE DEF m, p, es
  <2>1. \A w : Weight(w, <<>>) = 0
    BY WeightOfEmpty
  <2>2. Weight(AmountFor(Missing), es) = -m /\ \A s \in Skus : Weight(AmountFor(s), es) = 0
    BY <1>1, <1>3, <1>4
  <2>3. 0 = m + (-m)
    BY <1>1
  <2> QED
    BY <1>1, <1>2, <1>3, <1>4, <2>1, <2>2, <2>3 DEF Balanced, SkuBalances
<1>5. CASE l.sku # Missing
  <2>1. p \in ProductLine /\ p.sku = l.sku /\ p.revenue = 0 /\ p.net = m
    BY <1>1, <1>5 DEF ProductLine, Money
  <2> HIDE DEF m, p, es
  <2>2. Weight(AmountFor(Missing), es) = 0 /\ m = m + 0
    BY <1>1, <1>3, <1>5
  <2>3. <<p>> \in Seq(ProductLine) /\ Weight(NetOfAll, <<p>>) = m
    BY <2>1, ProductWeight
  <2>4. ASSUME NEW s \in Skus
        PROVE  SkuBalances(<<p>>, es, s)
    <3>1. Value(0) = 0
      BY FinanceAssumption DEF Value
    <3>2. /\ Weight(NetFor(s), <<p>>) = IF l.sku = s THEN m ELSE 0
          /\ Weight(RevenueFor(s), <<p>>) = 0
      BY <2>1, <3>1, ProductWeight
    <3>3. Weight(AmountFor(s), es) = IF l.sku = s THEN -m ELSE 0
      BY <1>3
    <3>4. 0 = m + (-m)
      BY <1>1
    <3> QED
      BY <3>2, <3>3, <3>4 DEF SkuBalances
  <2> QED
    BY <1>1, <1>2, <1>3, <1>5, <2>2, <2>3, <2>4 DEF Balanced
<1> QED
  BY <1>4, <1>5

\* Lines that balance one by one balance together.
LEMMA LinesBalance ==
    ASSUME NEW n \in Nat, NEW ps, NEW es, NEW f, DOMAIN ps = 1..n, DOMAIN es = 1..n,
           Len(ps) = n, Len(es) = n, n = 0 => ps = <<>> /\ es = <<>>,
           \A i \in 1..n : Balanced(ps[i], es[i], f[i])
    PROVE  Balanced(FlattenSeq(ps), FlattenSeq(es), Total(f, 1..n))
<1>1. CASE n = 0
  <2>1. FlattenSeq(ps) = <<>> /\ FlattenSeq(es) = <<>> /\ 1..n = {}
    BY <1>1 DEF FlattenSeq
  <2> QED
    BY <2>1, TotalOfNothing, NothingBalances
<1>2. CASE n # 0
  <2> DEFINE p == Flat(ps, n)
             e == Flat(es, n)
             OK(i) == Balanced(p[i], e[i], Total(f, 1..i))
             Q == {i \in 1..n : ~OK(i)}
  <2>1. FlatTo(p, ps, n) /\ FlatTo(e, es, n)
    BY FlatExists
  <2>2. \A i \in 1..n : f[i] \in Int
    BY DEF Balanced
  <2> HIDE DEF p, e
  <2>3. p[1] = ps[1] /\ e[1] = es[1]
    BY <1>2, <2>1 DEF FlatTo
  <2>4. \A i \in 1..n : i # 1 => p[i] = p[i-1] \o ps[i] /\ e[i] = e[i-1] \o es[i]
    BY <2>1 DEF FlatTo
  <2>5. ASSUME NEW i \in 1..n
        PROVE  Total(f, 1..i) = f[i] + Total(f, 1..(i - 1)) /\ Total(f, 1..(i - 1)) \in Int
    <3>1. i \in Nat \ {0} /\ \A j \in 1..i : f[j] \in Int
      BY <2>2
    <3> QED
      BY <3>1, TotalUpTo
  <2>6. Q = {}
    <3> SUFFICES ASSUME Q # {}
                 PROVE  FALSE
      OBVIOUS
    <3>1. PICK i \in Q : \A y \in Q : i <= y
      <4>1. Q \subseteq Nat
        OBVIOUS
      <4> HIDE DEF Q
      <4> QED
        BY <4>1, LeastNatural
    <3>2. i \in 1..n /\ ~OK(i) /\ Balanced(ps[i], es[i], f[i])
      OBVIOUS
    <3>3. CASE i = 1
      <4>1. 1..(1 - 1) = {} /\ 1 \in 1..n
        BY <3>2, <3>3
      <4>2. Total(f, 1..1) = f[1]
        <5>1. Total(f, 1..1) = f[1] + Total(f, 1..(1 - 1))
          BY <2>5, <4>1, Zenon
        <5>2. f[1] \in Int
          BY <2>2, <4>1
        <5> QED
          BY <4>1, <5>1, <5>2, TotalOfNothing
      <4> QED
        BY <2>3, <3>2, <3>3, <4>2
    <3>4. CASE i # 1
      <4>1. i - 1 \in 1..n /\ ~(i <= i - 1)
        BY <3>2, <3>4
      <4>2. OK(i - 1)
        <5>1. i - 1 \notin Q
          <6> HIDE DEF Q
          <6> QED
            BY <3>1, <4>1
        <5> QED
          BY <4>1, <5>1
      <4>3. Balanced(p[i - 1] \o ps[i], e[i - 1] \o es[i], Total(f, 1..(i - 1)) + f[i])
        BY <3>2, <4>2, BalanceAdds
      <4>4. Total(f, 1..(i - 1)) + f[i] = Total(f, 1..i)
        BY <2>2, <2>5, <3>2
      <4> QED
        BY <2>4, <3>2, <3>4, <4>3, <4>4
    <3> QED
      BY <3>3, <3>4
  <2>7. OK(n)
    <3>1. n \in 1..n
      BY <1>2
    <3> QED
      BY <2>6, <3>1
  <2>8. FlattenSeq(ps) = p[n] /\ FlattenSeq(es) = e[n]
    BY <1>2, FlattenIsFlat DEF p, e
  <2> QED
    BY <2>7, <2>8
<1> QED
  BY <1>1, <1>2

\* An accrual is explained by what it adds, the difference included.
LEMMA AccrualBalances ==
    ASSUME NEW a, AccrualOK(a)
    PROVE  Balanced(ProductsOf(a), AllExpensesOf(a), a.total)
<1> DEFINE n == Len(a.lines)
           ps == [i \in DOMAIN a.lines |-> ProductOf(a, a.lines[i])]
           es == [i \in DOMAIN a.lines |-> ExpensesOf(a, a.lines[i])]
           f == [i \in DOMAIN a.lines |-> AmountOf(a, a.lines[i])]
<1>1. a.lines \in Seq(PostingLine) \/ a.lines \in Seq(FeeLine)
  BY DEF AccrualOK, PostingLine, FeeLine, Money
<1>2. DOMAIN a.lines = 1..n /\ n \in Nat
  BY <1>1
<1>3. \A i \in 1..n : Balanced(ps[i], es[i], f[i])
  <2>1. CASE a.category = "POSTING"
    <3>1. a.lines \in Seq(PostingLine)
      BY <2>1 DEF AccrualOK, PostingLine, Money
    <3>2. \A i \in 1..n : a.lines[i] \in PostingLine
      BY <3>1
    <3> QED
      BY <1>2, <2>1, <3>2, PostingBalances
  <2>2. CASE a.category # "POSTING"
    <3>1. a.lines \in Seq(FeeLine)
      BY <2>2 DEF AccrualOK, FeeLine
    <3>2. \A i \in 1..n : a.lines[i] \in FeeLine
      BY <3>1
    <3> QED
      BY <1>2, <2>2, <3>2, FeeBalances
  <2> QED
    BY <2>1, <2>2
<1>4. /\ DOMAIN ps = 1..n /\ DOMAIN es = 1..n /\ Len(ps) = n /\ Len(es) = n
      /\ n = 0 => ps = <<>> /\ es = <<>>
  BY <1>2
<1>5. ProductsOf(a) = FlattenSeq(ps) /\ AllExpensesOf(a) = FlattenSeq(es) \o Difference(a)
  BY DEF ProductsOf, AllExpensesOf
<1>6. Nested(a) = Total(f, 1..n)
  BY <1>2 DEF Nested
<1>7. Balanced(FlattenSeq(ps), FlattenSeq(es), Nested(a))
  <2> HIDE DEF ps, es, f, n
  <2> QED
    BY <1>2, <1>3, <1>4, <1>6, LinesBalance
<1>8. Nested(a) \in Int /\ a.total \in Int
  BY <1>7 DEF Balanced, AccrualOK
<1> DEFINE d == a.total - Nested(a)
<1>9. Balanced(<<>>, Difference(a), d)
  <2>1. CASE a.total = Nested(a)
    <3>1. d = 0 /\ Difference(a) = <<>>
      BY <1>8, <2>1 DEF Difference
    <3> HIDE DEF d
    <3> QED
      BY <3>1, NothingBalances
  <2>2. CASE a.total # Nested(a)
    <3> DEFINE m == Nested(a) - a.total
    <3>1. Difference(a) = Expense(Missing, m)
      BY <2>2 DEF Difference
    <3>2. m \in Int /\ d \in Int /\ 0 = d + m /\ Missing \in Skus \cup {Missing}
      BY <1>8
    <3> HIDE DEF m, d
    <3>3. /\ Difference(a) \in Seq(ExpenseLine) /\ Weight(AmountFor(Missing), Difference(a)) = m
          /\ \A s \in Skus : Weight(AmountFor(s), Difference(a)) = 0
      BY <3>1, <3>2, ExpenseWeight, FinanceAssumption
    <3>4. \A w : Weight(w, <<>>) = 0
      BY WeightOfEmpty
    <3>5. <<>> \in Seq(ProductLine)
      OBVIOUS
    <3> QED
      BY <3>2, <3>3, <3>4, <3>5 DEF Balanced, SkuBalances
  <2> QED
    BY <2>1, <2>2
<1>10. Balanced(FlattenSeq(ps) \o <<>>, FlattenSeq(es) \o Difference(a), Nested(a) + d)
  <2> HIDE DEF ps, es, d
  <2> QED
    BY <1>7, <1>9, BalanceAdds
<1>11. FlattenSeq(ps) \o <<>> = FlattenSeq(ps)
  <2>1. FlattenSeq(ps) \in Seq(ProductLine)
    BY <1>7 DEF Balanced
  <2> HIDE DEF ps
  <2> QED
    BY <2>1
<1>12. Nested(a) + d = a.total
  BY <1>8
<1> HIDE DEF ps, es, d
<1> QED
  BY <1>5, <1>10, <1>11, <1>12

-----------------------------------------------------------------------------
(* The pages and the report of what they brought.                           *)

Untaken == (taken + 1)..Len(rows)
ReportRow == ledger \cup {[a EXCEPT !.total = @ + 1] : a \in ledger}
\* A row that the adapter refuses.
Bad(a) == a.day # day \/ Twin(a) \ {a} # {}
TotalOf(S) == Total([a \in S |-> a.total], S)

PagesInv ==
    /\ ledger \in Ledgers /\ delivered \subseteq Of(day)
    /\ day \in 1..Days /\ page \in 1..MaxPages
    /\ position \in {LastCursor} \cup used /\ used \subseteq 1..MaxPages
    /\ next \in {Missing, LastCursor} \cup 1..MaxPages
    /\ rows \in Seq(ReportRow) /\ Len(rows) <= MaxRows /\ taken \in 0..Len(rows)
    /\ verdict \in {"reading", "done", "refused"}
BooksInv ==
    /\ seen \subseteq ledger
    /\ Balanced(products, expenses, TotalOf(seen))
\* While it reads, nothing of an earlier day is missing, and what was delivered
\* is taken or waits to be; a page that does not end the day honestly still has
\* a row that is refused.
DayInv ==
    /\ \A a \in ledger : a.day < day => a \in seen
    /\ \A a \in delivered : a \in seen \/ (next # Missing /\ \E i \in Untaken : rows[i] = a)
    /\ \A i \in Untaken : rows[i] \in Of(day) \/ Bad(rows[i])
    /\ next = LastCursor => delivered = Of(day) \/ \E i \in Untaken : Bad(rows[i])
FinanceInv ==
    /\ PagesInv
    /\ BooksInv
    /\ verdict = "reading" => DayInv
    /\ verdict = "done" => seen = ledger

USE DEF place, received, booked, LastCursor

LEMMA FinanceStart == FinanceInit => FinanceInv
<1> SUFFICES ASSUME FinanceInit
             PROVE  FinanceInv
  OBVIOUS
<1>1. PagesInv
  BY FinanceAssumption DEF FinanceInit, PagesInv, Of
<1>2. BooksInv
  <2>1. TotalOf({}) = 0
    BY TotalOfNothing DEF TotalOf
  <2> QED
    BY <2>1, NothingBalances DEF FinanceInit, BooksInv
<1>3. DayInv
  <2>1. \A a \in ledger : a.day >= 1
    BY LedgersAssumption DEF FinanceInit, AccrualOK
  <2>2. 0 + 1 > Len(<<>>) /\ Untaken = {}
    BY DEF FinanceInit, Untaken
  <2>3. \A a \in ledger : ~(a.day < day)
    BY <2>1, LedgersAssumption DEF FinanceInit, AccrualOK
  <2> QED
    BY <2>2, <2>3, FinanceAssumption DEF FinanceInit, DayInv
<1> QED
  BY <1>1, <1>2, <1>3 DEF FinanceInit, FinanceInv

LEMMA LedgerFacts ==
    ASSUME PagesInv
    PROVE  /\ IsFiniteSet(ledger) /\ \A a \in ledger : AccrualOK(a)
           /\ \A a \in ledger : a.day \in 1..Days /\ a.total \in Int
BY LedgersAssumption DEF PagesInv, AccrualOK

LEMMA RejectKeeps ==
    ASSUME FinanceInv, Reject
    PROVE  FinanceInv'
<1>1. PagesInv'
  BY DEF FinanceInv, Reject, PagesInv, Of, ReportRow
<1>2. BooksInv'
  BY DEF FinanceInv, Reject, BooksInv
<1> QED
  BY <1>1, <1>2 DEF FinanceInv, Reject

LEMMA HonestKeeps ==
    ASSUME FinanceInv, FetchPage(HonestPage)
    PROVE  FinanceInv'
<1> USE DEF FetchPage
<1>0. PICK k \in 0..MaxRows : \E r \in [1..k -> Of(day)] :
        /\ rows' = r /\ delivered' = delivered \cup Range(r)
        /\ \/ delivered' = Of(day) /\ next' = LastCursor
           \/ delivered' # Of(day) /\ k > 0 /\ next' = page
  BY DEF HonestPage
<1>1. PICK r \in [1..k -> Of(day)] :
        /\ rows' = r /\ delivered' = delivered \cup Range(r)
        /\ \/ delivered' = Of(day) /\ next' = LastCursor
           \/ delivered' # Of(day) /\ k > 0 /\ next' = page
  BY <1>0
<1>2. /\ PagesInv /\ BooksInv /\ DayInv /\ next = Missing
  BY DEF FinanceInv
<1>3. UNCHANGED <<ledger, day, page, position, used, seen, products, expenses, verdict>>
  OBVIOUS
<1>4. k \in Nat /\ r \in Seq(Of(day)) /\ Len(r) = k /\ DOMAIN r = 1..k
  BY FinanceAssumption
<1>5. Of(day) \subseteq ledger /\ Of(day)' = Of(day)
  BY <1>3 DEF Of
<1>6. PagesInv'
  <2>1. rows' \in Seq(ReportRow)' /\ Len(rows') <= MaxRows /\ taken' \in 0..Len(rows')
    BY <1>1, <1>3, <1>4, <1>5 DEF ReportRow
  <2>2. delivered' \subseteq Of(day)'
    BY <1>1, <1>2, <1>5 DEF PagesInv, Range
  <2>3. next' \in {Missing, LastCursor} \cup 1..MaxPages
    BY <1>1, <1>2 DEF PagesInv
  <2> QED
    BY <1>2, <1>3, <2>1, <2>2, <2>3 DEF PagesInv
<1>7. BooksInv'
  BY <1>2, <1>3 DEF BooksInv
<1>8. DayInv'
  <2>1. Untaken' = 1..k
    BY <1>1, <1>4 DEF Untaken
  <2>2. next' # Missing
    BY <1>1, <1>2, FinanceAssumption DEF PagesInv
  <2>3. \A a \in delivered' : a \in seen' \/ \E i \in Untaken' : rows'[i] = a
    <3>1. \A a \in delivered : a \in seen
      BY <1>2 DEF DayInv
    <3>2. \A a \in Range(r) : \E i \in 1..k : r[i] = a
      BY <1>4 DEF Range
    <3> QED
      BY <1>1, <1>3, <2>1, <3>1, <3>2
  <2>4. \A i \in Untaken' : rows'[i] \in Of(day)'
    BY <1>1, <1>5, <2>1
  <2>5. next' = LastCursor => delivered' = Of(day)'
    BY <1>1, <1>2, <1>5 DEF PagesInv
  <2>6. \A a \in ledger' : a.day < day' => a \in seen'
    BY <1>2, <1>3 DEF DayInv
  <2> QED
    BY <2>2, <2>3, <2>4, <2>5, <2>6 DEF DayInv
<1> QED
  BY <1>3, <1>6, <1>7, <1>8 DEF FinanceInv

\* A row again with another amount is refused, for the first is in the report.
LEMMA ChangedIsBad ==
    ASSUME PagesInv, NEW a \in seen, seen \subseteq ledger
    PROVE  Bad([a EXCEPT !.total = @ + 1])
<1> DEFINE b == [a EXCEPT !.total = @ + 1]
<1>1. a.total \in Int /\ a = [day |-> a.day, id |-> a.id, category |-> a.category,
                             total |-> a.total, lines |-> a.lines]
  BY LedgersAssumption DEF PagesInv, AccrualOK
<1>2. b.total = a.total + 1 /\ b.day = a.day /\ b.id = a.id
  BY <1>1
<1>3. a # b
  BY <1>1, <1>2
<1>4. a \in Twin(b) \ {b}
  BY <1>2, <1>3 DEF Twin
<1> QED
  BY <1>4 DEF Bad

LEMMA OddKeeps ==
    ASSUME FinanceInv, FetchPage(OddPage)
    PROVE  FinanceInv'
<1> USE DEF FetchPage
<1>1. /\ PagesInv /\ BooksInv /\ DayInv /\ next = Missing
  BY DEF FinanceInv
<1>2. UNCHANGED <<ledger, day, page, position, used, seen, products, expenses, verdict, delivered>>
      /\ taken' = 0
  BY DEF OddPage
<1>3. delivered \subseteq seen /\ delivered \subseteq Of(day) /\ seen \subseteq ledger
  BY <1>1 DEF DayInv, PagesInv, BooksInv
<1>4. Of(day)' = Of(day) /\ ReportRow' = ReportRow /\ \A b : Bad(b)' = Bad(b)
  BY <1>2 DEF Of, ReportRow, Bad, Twin
<1>5. MaxRows \in Nat /\ 1 <= MaxRows /\ MaxPages \in Nat /\ LastCursor # Missing
      /\ page \in 1..MaxPages
  BY <1>1, FinanceAssumption DEF PagesInv
<1>6. ASSUME NEW b, rows' = <<b>>, b \in ReportRow, next' \in {LastCursor} \cup used,
             b \in Of(day) \/ Bad(b), next' = LastCursor => Bad(b)
      PROVE  FinanceInv'
  <2>1. Len(rows') = 1 /\ rows'[1] = b /\ rows' \in Seq(ReportRow)
    BY <1>6
  <2>2. Untaken' = {1}
    <3>1. (0 + 1)..1 = {1}
      OBVIOUS
    <3> QED
      BY <1>2, <2>1, <3>1 DEF Untaken
  <2>3. PagesInv'
    <3>1. /\ rows' \in Seq(ReportRow)' /\ Len(rows') <= MaxRows /\ taken' \in 0..Len(rows')
          /\ next' \in {Missing, LastCursor} \cup 1..MaxPages
      BY <1>1, <1>2, <1>4, <1>5, <1>6, <2>1 DEF PagesInv
    <3> QED
      BY <1>1, <1>2, <1>4, <3>1 DEF PagesInv
  <2>4. BooksInv'
    BY <1>1, <1>2 DEF BooksInv
  <2>5. DayInv'
    <3>1. \A a \in ledger' : a.day < day' => a \in seen'
      BY <1>1, <1>2 DEF DayInv
    <3>2. \A a \in delivered' : a \in seen'
      BY <1>2, <1>3
    <3>3. \A i \in Untaken' : (rows[i] \in Of(day) \/ Bad(rows[i]))'
      BY <1>2, <1>4, <1>6, <2>1, <2>2 DEF Bad, Twin
    <3>4. next' = LastCursor => \E i \in Untaken' : Bad(rows[i])'
      BY <1>2, <1>6, <2>1, <2>2 DEF Bad, Twin
    <3> QED
      BY <3>1, <3>2, <3>3, <3>4 DEF DayInv
  <2> QED
    BY <1>2, <2>3, <2>4, <2>5 DEF FinanceInv
<1>7. CASE \E a \in ledger \ Of(day) : rows' = <<a>> /\ next' = LastCursor
  <2> PICK a \in ledger \ Of(day) : rows' = <<a>> /\ next' = LastCursor
    BY <1>7
  <2>1. Bad(a)
    BY DEF Of, Bad
  <2>2. a \in ReportRow
    BY DEF ReportRow
  <2> QED
    BY <1>6, <2>1, <2>2
<1>8. CASE \E a \in delivered : rows' = <<[a EXCEPT !.total = @ + 1]>> /\ next' = LastCursor
  <2> PICK a \in delivered : rows' = <<[a EXCEPT !.total = @ + 1]>> /\ next' = LastCursor
    BY <1>8
  <2> DEFINE b == [a EXCEPT !.total = @ + 1]
  <2>1. a \in seen /\ a \in ledger
    BY <1>3
  <2>2. Bad(b)
    BY <1>1, <1>3, <2>1, ChangedIsBad
  <2>3. b \in ReportRow
    BY <2>1 DEF ReportRow
  <2>4. rows' = <<b>> /\ next' = LastCursor
    OBVIOUS
  <2> HIDE DEF b
  <2> QED
    BY <1>6, <2>2, <2>3, <2>4
<1>9. CASE \E c \in used, a \in delivered : rows' = <<a>> /\ next' = c
  <2> PICK c \in used, a \in delivered : rows' = <<a>> /\ next' = c
    BY <1>9
  <2>1. a \in Of(day) /\ a \in ReportRow
    BY <1>3 DEF ReportRow
  <2>2. next' \in used /\ next' # LastCursor
    BY <1>1 DEF PagesInv
  <2> QED
    BY <1>6, <2>1, <2>2
<1>10. CASE rows' = <<>> /\ next' = page
  <2>1. Untaken' = {}
    BY <1>2, <1>10 DEF Untaken
  <2>2. PagesInv'
    BY <1>1, <1>2, <1>4, <1>5, <1>10 DEF PagesInv
  <2>3. BooksInv'
    BY <1>1, <1>2 DEF BooksInv
  <2>4. DayInv'
    <3>1. \A a \in ledger' : a.day < day' => a \in seen'
      BY <1>1, <1>2 DEF DayInv
    <3>2. \A a \in delivered' : a \in seen'
      BY <1>2, <1>3
    <3>3. next' # LastCursor
      BY <1>1, <1>10 DEF PagesInv
    <3> QED
      BY <2>1, <3>1, <3>2, <3>3 DEF DayInv
  <2> QED
    BY <1>2, <2>2, <2>3, <2>4 DEF FinanceInv
<1> QED
  BY <1>7, <1>8, <1>9, <1>10 DEF OddPage

LEMMA TotalGrows ==
    ASSUME NEW S, IsFiniteSet(S), NEW a, a \notin S, \A x \in S \cup {a} : x.total \in Int
    PROVE  TotalOf(S \cup {a}) = TotalOf(S) + a.total
<1> DEFINE T == S \cup {a}
           f == [x \in T |-> x.total]
           g == [x \in S |-> x.total]
<1>1. IsFiniteSet(T) /\ a \in T /\ T \ {a} = S
  BY FS_AddElement
<1>2. /\ \A x \in T : f[x] \in Int
      /\ \A x \in S : f[x] \in Int /\ f[x] = g[x]
      /\ f[a] = a.total
  OBVIOUS
<1> HIDE DEF T, f, g
<1>3. Total(f, T) = f[a] + Total(f, S)
  BY <1>1, <1>2, TotalWithout
<1>4. Total(f, S) = Total(g, S)
  BY <1>2, TotalSame
<1>5. Total(f, S) \in Int /\ f[a] \in Int
  BY <1>1, <1>2, TotalType
<1>6. Total(f, T) = Total(g, S) + a.total
  BY <1>2, <1>3, <1>4, <1>5
<1> QED
  BY <1>6 DEF TotalOf, T, f, g

LEMMA TakeKeeps ==
    ASSUME FinanceInv, TakeRow
    PROVE  FinanceInv'
<1> DEFINE a == rows[taken + 1]
<1>1. /\ PagesInv /\ BooksInv /\ DayInv /\ next # Missing /\ verdict = "reading"
      /\ taken < Len(rows)
  BY DEF FinanceInv, TakeRow
<1>2. CASE Reject
  BY <1>2, RejectKeeps
<1>3. CASE ~Reject
  <2>1. /\ a.day = day /\ Twin(a) \ {a} = {} /\ taken' = taken + 1
        /\ UNCHANGED <<ledger, day, page, position, used, delivered, rows, next, verdict>>
        /\ \/ a \in seen /\ UNCHANGED <<seen, products, expenses>>
           \/ /\ a \notin seen /\ seen' = seen \cup {a}
              /\ products' = products \o ProductsOf(a)
              /\ expenses' = expenses \o AllExpensesOf(a)
    BY <1>3 DEF TakeRow
  <2>2. /\ Len(rows) \in Nat /\ taken \in Nat /\ taken + 1 \in Untaken
        /\ Untaken' = Untaken \ {taken + 1}
    <3>1. Len(rows) \in Nat /\ taken \in Nat
      BY <1>1 DEF PagesInv
    <3>2. Untaken' = ((taken + 1) + 1)..Len(rows)
      BY <2>1 DEF Untaken
    <3>3. \A m, n \in Nat : m < n => /\ m + 1 \in (m + 1)..n
                                    /\ ((m + 1) + 1)..n = ((m + 1)..n) \ {m + 1}
      OBVIOUS
    <3>4. /\ taken + 1 \in (taken + 1)..Len(rows)
          /\ ((taken + 1) + 1)..Len(rows) = ((taken + 1)..Len(rows)) \ {taken + 1}
      BY <1>1, <3>1, <3>3
    <3> QED
      BY <3>1, <3>2, <3>4 DEF Untaken
  <2>3. ~Bad(a)
    BY <2>1 DEF Bad
  <2>4. a \in Of(day) /\ a \in ledger
    BY <1>1, <2>2, <2>3 DEF DayInv, Of
  <2>5. PagesInv'
    <3>1. taken' \in 0..Len(rows')
      BY <1>1, <2>1, <2>2
    <3>2. ReportRow' = ReportRow /\ Of(day)' = Of(day)
      BY <2>1 DEF ReportRow, Of
    <3> HIDE DEF a
    <3> QED
      BY <1>1, <2>1, <3>1, <3>2 DEF PagesInv
  <2>6. seen \subseteq seen' /\ a \in seen'
    BY <2>1
  <2>7. BooksInv'
    <3>1. CASE a \in seen
      BY <1>1, <2>1, <3>1 DEF BooksInv
    <3>2. CASE a \notin seen
      <4> HIDE DEF a
      <4>1. AccrualOK(a) /\ IsFiniteSet(seen) /\ \A x \in seen \cup {a} : x.total \in Int
        <5>1. seen \subseteq ledger
          BY <1>1 DEF BooksInv
        <5> QED
          BY <1>1, <2>4, <5>1, LedgerFacts, FS_Subset
      <4>2. TotalOf(seen \cup {a}) = TotalOf(seen) + a.total
        BY <3>2, <4>1, TotalGrows
      <4>3. Balanced(products \o ProductsOf(a), expenses \o AllExpensesOf(a), TotalOf(seen) + a.total)
        BY <1>1, <4>1, AccrualBalances, BalanceAdds DEF BooksInv
      <4>4. Balanced(products', expenses', TotalOf(seen'))
        BY <2>1, <3>2, <4>2, <4>3
      <4>5. TotalOf(seen)' = TotalOf(seen')
        BY DEF TotalOf
      <4>6. Balanced(products, expenses, TotalOf(seen))'
        BY <4>4, <4>5 DEF Balanced, SkuBalances
      <4> QED
        BY <1>1, <2>1, <2>4, <3>2, <4>6 DEF BooksInv
    <3> QED
      BY <3>1, <3>2
  <2>8. \A b : Bad(b) => Bad(b)'
    BY <2>1, <2>6 DEF Bad, Twin
  <2>9. DayInv'
    <3>1. \A b \in ledger' : b.day < day' => b \in seen'
      BY <1>1, <2>1, <2>6 DEF DayInv
    <3>2. \A b \in delivered : b \in seen' \/ \E i \in Untaken' : rows[i] = b
      BY <1>1, <2>2, <2>6 DEF DayInv
    <3>3. \A i \in Untaken' : rows[i] \in Of(day) \/ Bad(rows[i])
      BY <1>1, <2>2 DEF DayInv
    <3>4. next = LastCursor => delivered = Of(day) \/ \E i \in Untaken' : Bad(rows[i])
      BY <1>1, <2>2, <2>3 DEF DayInv
    <3>5. \A i : Bad(rows[i]) => Bad(rows[i])'
      BY <2>1, <2>8 DEF Bad, Twin
    <3>6. Of(day)' = Of(day)
      BY <2>1 DEF Of
    <3>7. /\ \A i \in Untaken' : (rows[i] \in Of(day) \/ Bad(rows[i]))'
          /\ next' = LastCursor => delivered' = Of(day)' \/ \E i \in Untaken' : Bad(rows[i])'
          /\ \A b \in delivered' : b \in seen' \/ (next' # Missing /\ \E i \in Untaken' : rows'[i] = b)
      <4> HIDE DEF a
      <4> QED
        BY <1>1, <2>1, <3>2, <3>3, <3>4, <3>5, <3>6
    <3> QED
      BY <3>1, <3>7 DEF DayInv
  <2> QED
    BY <1>1, <2>1, <2>5, <2>7, <2>9 DEF FinanceInv
<1> QED
  BY <1>2, <1>3

LEMMA NextPageKeeps ==
    ASSUME FinanceInv, NextPage
    PROVE  FinanceInv'
<1>1. /\ PagesInv /\ BooksInv /\ DayInv /\ verdict = "reading" /\ taken = Len(rows)
      /\ next \notin {Missing, LastCursor}
  BY DEF FinanceInv, NextPage
<1>2. CASE Reject
  BY <1>2, RejectKeeps
<1>3. CASE ~Reject
  <2>1. /\ page # MaxPages /\ page' = page + 1 /\ position' = next /\ used' = used \cup {next}
        /\ next' = Missing
        /\ UNCHANGED <<ledger, day, delivered, rows, taken, seen, products, expenses, verdict>>
    BY <1>3 DEF NextPage
  <2>2. page \in 1..MaxPages /\ next \in 1..MaxPages /\ MaxPages \in Nat /\ Missing # LastCursor
    BY <1>1, FinanceAssumption DEF PagesInv
  <2>3. page' \in 1..MaxPages
    BY <2>1, <2>2
  <2>4. ReportRow' = ReportRow /\ Of(day)' = Of(day)
    BY <2>1 DEF ReportRow, Of
  <2>5. PagesInv'
    BY <1>1, <2>1, <2>2, <2>3, <2>4 DEF PagesInv
  <2>6. BooksInv'
    BY <1>1, <2>1 DEF BooksInv
  <2>7. Untaken = {} /\ Untaken' = {}
    <3>1. Len(rows) \in Nat
      BY <1>1 DEF PagesInv
    <3>2. (Len(rows) + 1)..Len(rows) = {}
      BY <3>1
    <3> QED
      BY <1>1, <2>1, <3>2 DEF Untaken
  <2>8. DayInv'
    <3>1. \A b \in delivered : b \in seen
      BY <1>1, <2>7 DEF DayInv
    <3>2. \A b \in ledger' : b.day < day' => b \in seen'
      BY <1>1, <2>1 DEF DayInv
    <3> QED
      BY <2>1, <2>2, <2>7, <3>1, <3>2 DEF DayInv
  <2> QED
    BY <1>1, <2>1, <2>5, <2>6, <2>8 DEF FinanceInv
<1> QED
  BY <1>2, <1>3

LEMMA EndDayKeeps ==
    ASSUME FinanceInv, EndDay
    PROVE  FinanceInv'
<1>1. /\ PagesInv /\ BooksInv /\ DayInv /\ verdict = "reading" /\ taken = Len(rows)
      /\ next = LastCursor /\ UNCHANGED <<ledger, seen, products, expenses>>
  BY DEF FinanceInv, EndDay
<1>2. Untaken = {} /\ Len(rows) \in Nat
  <2>1. Len(rows) \in Nat
    BY <1>1 DEF PagesInv
  <2>2. (Len(rows) + 1)..Len(rows) = {}
    BY <2>1
  <2> QED
    BY <1>1, <2>1, <2>2 DEF Untaken
<1>3. Of(day) \subseteq seen
  BY <1>1, <1>2 DEF DayInv
<1>4. \A a \in ledger : a.day <= day => a \in seen
  <2>1. \A a \in ledger : a.day \in Int /\ day \in Int
    BY <1>1, LedgerFacts DEF PagesInv
  <2>2. \A a \in ledger : a.day < day => a \in seen
    BY <1>1 DEF DayInv
  <2>3. \A a \in ledger : a.day = day => a \in seen
    BY <1>3 DEF Of
  <2> QED
    BY <2>1, <2>2, <2>3
<1>5. BooksInv'
  BY <1>1 DEF BooksInv
<1>6. day \in 1..Days /\ Days \in Nat /\ MaxPages \in Nat \ {0} /\ MaxRows \in Nat
      /\ Missing # LastCursor
  BY <1>1, FinanceAssumption DEF PagesInv
<1>7. CASE day = Days
  <2>1. verdict' = "done"
        /\ UNCHANGED <<day, page, position, used, delivered, rows, next, taken>>
    BY <1>7 DEF EndDay
  <2>2. PagesInv'
    BY <1>1, <2>1 DEF PagesInv, Of, ReportRow
  <2>3. \A a \in ledger : a.day <= Days
    BY <1>1, <1>6, LedgerFacts
  <2>4. seen' = ledger'
    BY <1>1, <1>4, <1>7, <2>3 DEF BooksInv
  <2> QED
    BY <1>5, <2>1, <2>2, <2>4 DEF FinanceInv
<1>8. CASE day # Days
  <2>1. /\ day' = day + 1 /\ page' = 1 /\ position' = LastCursor /\ used' = {}
        /\ delivered' = {} /\ rows' = <<>> /\ next' = Missing /\ taken' = 0 /\ verdict' = verdict
    BY <1>8 DEF EndDay
  <2>2. PagesInv'
    BY <1>1, <1>6, <1>8, <2>1 DEF PagesInv
  <2>3. Untaken' = {}
    BY <2>1 DEF Untaken
  <2>4. \A a \in ledger : a.day < day + 1 => a.day <= day
    BY <1>1, <1>6, LedgerFacts
  <2>5. DayInv'
    BY <1>1, <1>4, <1>6, <2>1, <2>3, <2>4 DEF DayInv
  <2> QED
    BY <1>1, <1>5, <2>1, <2>2, <2>5 DEF FinanceInv
<1> QED
  BY <1>7, <1>8

-----------------------------------------------------------------------------
(* The report.                                                              *)

LEMMA SumsOfReport ==
    ASSUME products \in Seq(ProductLine), expenses \in Seq(ExpenseLine)
    PROVE  /\ Total([i \in DOMAIN products |-> products[i].net], DOMAIN products)
                = Weight(NetOfAll, products)
           /\ \A x : Booked(x) = Weight(AmountFor(x), expenses)
           /\ \A s : NetOf(s) = Weight(NetFor(s), products)
           /\ \A s : RevenueOf(s) = Weight(RevenueFor(s), products)
           /\ \A s : RevenueKnown(s) => Weight(UnknownFor(s), products) = 0
           /\ \A s : UnitsOf(s) \in Int
<1> DEFINE T == DOMAIN products
<1>1. IsFiniteSet(T) /\ \A i \in T : products[i] \in ProductLine
  BY WeightTypes, WeightType
<1>2. \A l \in ProductLine : l.quantity \in Money /\ l.revenue \in Money /\ l.net \in Int
  BY DEF ProductLine
<1>3. Total([i \in T |-> products[i].net], T) = Weight(NetOfAll, products)
  <2>1. \A i \in T : products[i].net = NetOfAll[products[i]]
    BY <1>1 DEF NetOfAll
  <2>2. [i \in T |-> products[i].net] = [i \in T |-> NetOfAll[products[i]]]
    BY <2>1
  <2> QED
    BY <2>2 DEF Weight
<1>4. ASSUME NEW x
      PROVE  Booked(x) = Weight(AmountFor(x), expenses)
  <2> DEFINE own == {i \in DOMAIN expenses : expenses[i].sku = x}
             f == [i \in own |-> expenses[i].amount]
             g == [i \in DOMAIN expenses |-> AmountFor(x)[expenses[i]]]
  <2>1. IsFiniteSet(DOMAIN expenses) /\ \A i \in DOMAIN expenses : expenses[i] \in ExpenseLine
    <3>1. AmountFor(x) \in [ExpenseLine -> Int]
      BY WeightTypes
    <3>2. IsFiniteSet(DOMAIN expenses)
      BY <3>1, WeightType
    <3> QED
      BY <3>2
  <2>2. \A e \in ExpenseLine : AmountFor(x)[e] = IF e.sku = x THEN e.amount ELSE 0
    BY DEF AmountFor
  <2>3. \A i \in DOMAIN expenses : g[i] \in Int /\ g[i] = IF i \in own THEN f[i] ELSE 0
    BY <2>1, <2>2 DEF ExpenseLine
  <2>4. own \subseteq DOMAIN expenses
    OBVIOUS
  <2> HIDE DEF own, f, g
  <2>5. Total(f, own) = Total(g, DOMAIN expenses)
    BY <2>1, <2>3, <2>4, TotalOfPart
  <2> QED
    BY <2>5 DEF Booked, Weight, own, f, g
<1>5. ASSUME NEW s
      PROVE  NetOf(s) = Weight(NetFor(s), products)
  <2> DEFINE own == LinesOf(s)
             f == [i \in own |-> products[i].net]
             g == [i \in T |-> NetFor(s)[products[i]]]
  <2>1. \A l \in ProductLine : NetFor(s)[l] = IF l.sku = s THEN l.net ELSE 0
    BY DEF NetFor
  <2>2. \A i \in T : g[i] \in Int /\ g[i] = IF i \in own THEN f[i] ELSE 0
    BY <1>1, <1>2, <2>1 DEF LinesOf
  <2>3. own \subseteq T
    BY DEF LinesOf
  <2> HIDE DEF own, f, g
  <2>4. Total(f, own) = Total(g, T)
    BY <1>1, <2>2, <2>3, TotalOfPart
  <2> QED
    BY <2>4 DEF NetOf, Weight, own, f, g
<1>6. ASSUME NEW s
      PROVE  RevenueOf(s) = Weight(RevenueFor(s), products)
  <2> DEFINE own == LinesOf(s)
             f == [i \in own |-> Value(products[i].revenue)]
             g == [i \in T |-> RevenueFor(s)[products[i]]]
  <2>1. \A l \in ProductLine : RevenueFor(s)[l] = IF l.sku = s THEN Value(l.revenue) ELSE 0
    BY DEF RevenueFor
  <2>2. \A l \in ProductLine : Value(l.revenue) \in Int
    BY <1>2, ValueType
  <2>3. \A i \in T : g[i] \in Int /\ g[i] = IF i \in own THEN f[i] ELSE 0
    BY <1>1, <2>1, <2>2 DEF LinesOf
  <2>4. own \subseteq T
    BY DEF LinesOf
  <2> HIDE DEF own, f, g
  <2>5. Total(f, own) = Total(g, T)
    BY <1>1, <2>3, <2>4, TotalOfPart
  <2> QED
    BY <2>5 DEF RevenueOf, Weight, own, f, g
<1>7. ASSUME NEW s, RevenueKnown(s)
      PROVE  Weight(UnknownFor(s), products) = 0
  <2> DEFINE g == [i \in T |-> UnknownFor(s)[products[i]]]
  <2>1. \A l \in ProductLine : UnknownFor(s)[l] = IF l.sku = s /\ l.revenue = Missing THEN 1 ELSE 0
    BY DEF UnknownFor
  <2>2. \A i \in T : g[i] = 0
    BY <1>1, <1>7, <2>1 DEF RevenueKnown, LinesOf
  <2> HIDE DEF g
  <2>3. Total(g, T) = 0
    BY <1>1, <2>2, TotalOfZeros
  <2> QED
    BY <2>3 DEF Weight, g
<1>8. ASSUME NEW s
      PROVE  UnitsOf(s) \in Int
  <2> DEFINE own == LinesOf(s)
             f == [i \in own |-> Value(products[i].quantity)]
  <2>1. \A l \in ProductLine : Value(l.quantity) \in Int
    BY <1>2, ValueType
  <2>2. own \subseteq T
    BY DEF LinesOf
  <2>3. \A i \in own : f[i] \in Int
    BY <1>1, <2>1, <2>2
  <2>4. IsFiniteSet(own)
    BY <1>1, <2>2, FS_Subset
  <2> HIDE DEF own, f
  <2>5. Total(f, own) \in Int
    BY <2>3, <2>4, TotalType
  <2> QED
    BY <2>5 DEF UnitsOf, own, f
<1> QED
  BY <1>3, <1>4, <1>5, <1>6, <1>7, <1>8

\* The proceeds of the report, product by product.
LEMMA ProceedsBySku ==
    ASSUME products \in Seq(ProductLine)
    PROVE  /\ IsFiniteSet(Reported) /\ Reported \subseteq Skus
           /\ \A s \in Reported : NetOf(s) \in Int
           /\ Total([s \in Reported |-> NetOf(s)], Reported)
                = Total([i \in DOMAIN products |-> products[i].net], DOMAIN products)
<1> DEFINE T == DOMAIN products
           key == [i \in T |-> products[i].sku]
           f == [i \in T |-> products[i].net]
           g == [s \in Reported |-> NetOf(s)]
<1>1. IsFiniteSet(T) /\ \A i \in T : products[i] \in ProductLine
  BY WeightTypes, WeightType
<1>2. \A i \in T : f[i] \in Int /\ f[i] = products[i].net /\ key[i] \in Skus
                   /\ key[i] = products[i].sku
  BY <1>1 DEF ProductLine
<1>3. Reported = {key[i] : i \in T}
  BY DEF Reported
<1> HIDE DEF key
<1>4. IsFiniteSet(Reported)
  BY <1>1, <1>3, ImageIsFinite
<1>5. Reported \subseteq Skus
  BY <1>2, <1>3
<1>6. ASSUME NEW s
      PROVE  NetOf(s) = Total(f, {i \in T : key[i] = s}) /\ NetOf(s) \in Int
  <2> DEFINE own == LinesOf(s)
             h == [i \in own |-> products[i].net]
  <2>1. own = {i \in T : key[i] = s} /\ own \subseteq T
    BY <1>2 DEF LinesOf
  <2>2. \A i \in own : h[i] \in Int /\ h[i] = f[i]
    BY <1>2, <2>1
  <2>3. IsFiniteSet(own)
    BY <1>1, <2>1, FS_Subset
  <2> HIDE DEF own, h, f
  <2>4. Total(h, own) = Total(f, own) /\ Total(h, own) \in Int
    BY <2>2, <2>3, TotalSame, TotalType
  <2>5. NetOf(s) = Total(h, own)
    BY DEF NetOf, own, h
  <2> QED
    BY <2>1, <2>4, <2>5
<1> DEFINE part == [s \in Reported |-> {i \in T : key[i] = s}]
<1>7. \A s \in Reported : g[s] = Total(f, part[s])
  BY <1>6
<1>8. (\A i \in T : f[i] \in Int) /\ PartsByKey(part, key, T, Reported)
  BY <1>2, <1>3 DEF PartsByKey
<1>9. Total(g, Reported) = Total(f, T)
  <2> HIDE DEF T, f, g, part
  <2> QED
    BY <1>1, <1>4, <1>7, <1>8, TotalByKey
<1> QED
  BY <1>4, <1>5, <1>6, <1>9 DEF f, g

LEMMA CostType ==
    ASSUME products \in Seq(ProductLine), expenses \in Seq(ExpenseLine), NEW s \in Costed
    PROVE  CostTotal(s) \in Int
<1>1. s \in Skus /\ UnitsOf(s) \in Int /\ CostTotal(s) # Missing
  BY ProceedsBySku, SumsOfReport DEF Costed
<1>2. Cost[s] # Missing => Cost[s] \in Int
  BY <1>1, CostAssumption
<1> DEFINE u == UnitsOf(s)
           c == Cost[s]
<1>3. CostTotal(s) \in {Missing, 0} \/ (c # Missing /\ CostTotal(s) = c * u)
  BY DEF CostTotal
<1> HIDE DEF u, c
<1>4. c # Missing => c * u \in Int
  BY <1>1, <1>2 DEF u, c
<1> QED
  BY <1>1, <1>3, <1>4

LEMMA BalancedReport == FinanceInv => ReportBalances
<1> SUFFICES ASSUME FinanceInv, verdict = "done"
             PROVE  ReportBalances
  BY DEF ReportBalances
<1> DEFINE total == Total([a \in ledger |-> a.total], ledger)
           cost == Total([s \in Reported |-> CostTotal(s)], Reported)
           net == Total([i \in DOMAIN products |-> products[i].net], DOMAIN products)
<1>1. /\ products \in Seq(ProductLine) /\ expenses \in Seq(ExpenseLine) /\ total \in Int
      /\ Weight(NetOfAll, products) = total + Weight(AmountFor(Missing), expenses)
      /\ \A s \in Skus : SkuBalances(products, expenses, s)
  BY DEF FinanceInv, BooksInv, Balanced, TotalOf
<1>2. \A x : Booked(x) = Weight(AmountFor(x), expenses) /\ Booked(x) \in Int
  <2>1. \A x : Booked(x) = Weight(AmountFor(x), expenses)
    BY <1>1, SumsOfReport
  <2>2. ASSUME NEW x
        PROVE  Weight(AmountFor(x), expenses) \in Int
    <3>1. AmountFor(x) \in [ExpenseLine -> Int]
      BY WeightTypes
    <3> QED
      BY <1>1, <3>1, WeightType
  <2> QED
    BY <2>1, <2>2
<1>3. net = Weight(NetOfAll, products)
  BY <1>1, SumsOfReport
<1> HIDE DEF total, cost, net
<1>4. Common \in Int /\ net = total + Common /\ net \in Int
  <2>1. Common = Weight(AmountFor(Missing), expenses) /\ Common \in Int
    BY <1>2 DEF Common
  <2>2. net = total + Common
    BY <1>1, <1>3, <2>1
  <2> QED
    BY <1>1, <2>1, <2>2
<1>5. net - Common = total
  BY <1>1, <1>4
<1>6. ASSUME NEW s \in Reported, RevenueKnown(s)
      PROVE  RevenueOf(s) - NetOf(s) = Booked(s)
  <2>1. s \in Skus /\ NetOf(s) \in Int
    BY <1>1, ProceedsBySku
  <2>2. Weight(UnknownFor(s), products) = 0
    BY <1>1, <1>6, SumsOfReport
  <2>3. /\ NetOf(s) = Weight(NetFor(s), products)
        /\ RevenueOf(s) = Weight(RevenueFor(s), products)
    BY <1>1, SumsOfReport
  <2>4. RevenueOf(s) = NetOf(s) + Booked(s)
    BY <1>1, <1>2, <2>1, <2>2, <2>3 DEF SkuBalances
  <2> QED
    BY <1>2, <2>1, <2>4
<1>7. ASSUME Costed = Reported
      PROVE  ProfitAfterExpenses = total - cost
  <2> DEFINE u == [s \in Reported |-> NetOf(s)]
             v == [s \in Reported |-> CostTotal(s)]
             w == [s \in Reported |-> NetOf(s) - CostTotal(s)]
  <2>1. IsFiniteSet(Reported) /\ Total(u, Reported) = net
    BY <1>1, ProceedsBySku DEF net
  <2>2. \A s \in Reported : u[s] \in Int /\ v[s] \in Int /\ w[s] = u[s] - v[s]
    BY <1>1, <1>7, ProceedsBySku, CostType
  <2>3. ProfitBeforeCommon = Total(w, Reported)
    BY <1>7 DEF ProfitBeforeCommon
  <2> HIDE DEF u, v, w
  <2>4. Total(w, Reported) = Total(u, Reported) - Total(v, Reported) /\ Total(v, Reported) \in Int
    BY <2>1, <2>2, TotalOfDifferences, TotalType
  <2>5. cost = Total(v, Reported)
    BY DEF cost, v
  <2>6. ProfitBeforeCommon = net - cost /\ cost \in Int
    BY <2>1, <2>3, <2>4, <2>5
  <2> QED
    BY <1>1, <1>4, <2>6 DEF ProfitAfterExpenses
<1> QED
  BY <1>5, <1>6, <1>7 DEF ReportBalances, total, cost, net

LEMMA FinanceStays == FinanceInv /\ [FinanceStep]_financeVars => FinanceInv'
<1> SUFFICES ASSUME FinanceInv, [FinanceStep]_financeVars
             PROVE  FinanceInv'
  OBVIOUS
<1>1. CASE FetchPage(HonestPage)
  BY <1>1, HonestKeeps
<1>2. CASE FetchPage(OddPage)
  BY <1>2, OddKeeps
<1>3. CASE FinanceFails
  BY <1>3, RejectKeeps DEF FinanceFails
<1>4. CASE TakeRow
  BY <1>4, TakeKeeps
<1>5. CASE NextPage
  BY <1>5, NextPageKeeps
<1>6. CASE EndDay
  BY <1>6, EndDayKeeps
<1>7. CASE UNCHANGED financeVars
  <2>1. PagesInv'
    BY <1>7 DEF FinanceInv, financeVars, PagesInv, Of, ReportRow
  <2>2. BooksInv'
    BY <1>7 DEF FinanceInv, financeVars, BooksInv
  <2>3. DayInv => DayInv'
    BY <1>7 DEF financeVars, DayInv, Of, Untaken, Bad, Twin
  <2> QED
    BY <1>7, <2>1, <2>2, <2>3 DEF FinanceInv, financeVars
<1> QED
  BY <1>1, <1>2, <1>3, <1>4, <1>5, <1>6, <1>7 DEF FinanceStep

\* Of every period and every paging of it: what was delivered is in the report,
\* once, and every amount of it is in a product line or an expense.
THEOREM FinanceInvariant == FinanceSpec => []FinanceInv
<1>1. FinanceInit => FinanceInv
  BY FinanceStart
<1>2. FinanceInv /\ [FinanceStep]_financeVars => FinanceInv'
  BY FinanceStays
<1> QED
  BY <1>1, <1>2, PTL DEF FinanceSpec

\* The types of fetch_finance: the paging stays within its limits, and only
\* SKUs are reported.
THEOREM FinanceTypeCorrect == FinanceSpec => []FinanceTypeOK
<1>1. FinanceInv => FinanceTypeOK
  <2> SUFFICES ASSUME FinanceInv
               PROVE  FinanceTypeOK
    OBVIOUS
  <2>1. PagesInv /\ products \in Seq(ProductLine)
    BY DEF FinanceInv, BooksInv, Balanced
  <2>2. Reported \subseteq Skus
    BY <2>1, ProceedsBySku
  <2> QED
    BY <2>1, <2>2 DEF FinanceTypeOK, PagesInv
<1> QED
  BY <1>1, FinanceInvariant, PTL

\* The report of buyouts balances: proceeds less common expenses are all that
\* was booked in the period, and so is the profit before the cost of the units.
THEOREM ReportAlwaysBalances == FinanceSpec => []ReportBalances
BY BalancedReport, FinanceInvariant, PTL

-----------------------------------------------------------------------------
(* TargetPrice.  A tariff changes only where an interval starts, so inside *)
(* an interval the profit of a route is that of a fixed fee.  There it may *)
(* fall as well as rise with the price: what bisection needs is that, once *)
(* the first price of an interval falls short and a later one meets the    *)
(* target, every price after that meets it (MetStaysMet).                  *)

-----------------------------------------------------------------------------
(* Intervals.                                                               *)

\* c lies in the interval that starts at x.
InInterval(p, x, c) == x <= c /\ \A s \in Later(p, x) : c < s

LEMMA RowFields ==
    ASSUME NEW p \in Products, NEW i \in DOMAIN p.rows, NEW row \in p.rows[i]
    PROVE  row.low \in Nat \cup {NotKnown} /\ row.high \in Nat \cup {NotKnown} /\ row.fee \in Nat
<1> DEFINE Row == [low : Nat \cup {NotKnown}, high : Nat \cup {NotKnown}, fee : Nat]
<1>1. p.rows \in Seq(SUBSET Row)
  BY ProductsAssumption DEF ProductTypeOK
<1>2. p.rows[i] \in SUBSET Row
  <2> HIDE DEF Row
  <2> QED
    BY <1>1
<1> QED
  BY <1>2

LEMMA StartsArePrices ==
    ASSUME NEW p \in Products
    PROVE  Starts(p) \subseteq Nat \ {0}
<1> SUFFICES ASSUME NEW b \in Bounds(p) \ {NotKnown}
             PROVE  Greater(1, Cents(b)) \in Nat \ {0}
  BY DEF Starts
<1>1. b \in Nat
  <2>1. PICK i \in DOMAIN p.rows : \E row \in p.rows[i] : b \in {row.low, row.high}
    BY DEF Bounds
  <2> QED
    BY <2>1, RowFields
<1> QED
  BY <1>1 DEF Greater, Cents

\* No bound of a tariff lies inside an interval.
LEMMA NoBoundInside ==
    ASSUME NEW p \in Products, NEW x \in Starts(p), NEW c \in Nat, InInterval(p, x, c),
           NEW b \in Bounds(p), b \in Nat
    PROVE  b <= 2 * c <=> b <= 2 * x
<1>1. x \in Nat /\ x >= 1 /\ x <= c
  BY StartsArePrices DEF InInterval
<1>2. Greater(1, Cents(b)) \in Starts(p)
  BY SearchAssumption DEF Starts
<1>3. CASE Greater(1, Cents(b)) <= x
  BY <1>1, <1>3 DEF Greater, Cents
<1>4. CASE Greater(1, Cents(b)) > x
  <2>1. c < Greater(1, Cents(b))
    BY <1>2, <1>4 DEF InInterval, Later
  <2>2. c < Cents(b)
    BY <1>1, <2>1 DEF Greater, Cents
  <2> QED
    BY <1>1, <2>2 DEF Cents
<1>5. Greater(1, Cents(b)) \in Nat
  BY DEF Greater, Cents
<1> QED
  BY <1>1, <1>3, <1>4, <1>5

\* The tariff of a route is the same in the whole interval.
LEMMA SameTariff ==
    ASSUME NEW p \in Products, NEW x \in Starts(p), NEW c \in Nat, InInterval(p, x, c),
           NEW i \in DOMAIN p.rows
    PROVE  /\ FeeKnown(p, i, c) <=> FeeKnown(p, i, x)
           /\ Logistics(p, i, c) = Logistics(p, i, x)
<1>1. x \in Nat
  BY StartsArePrices
<1>2. ASSUME NEW row \in p.rows[i]
      PROVE  Within(row, c) <=> Within(row, x)
  <2>1. row.low \in Bounds(p) /\ row.high \in Bounds(p)
    BY DEF Bounds
  <2>2. row.low # NotKnown => (row.low <= 2 * c <=> row.low <= 2 * x)
    BY <2>1, RowFields, NoBoundInside
  <2>3. row.high # NotKnown => row.high \in Nat /\ (row.high <= 2 * c <=> row.high <= 2 * x)
    BY <2>1, RowFields, NoBoundInside
  <2>4. row.high # NotKnown => (2 * c < row.high <=> 2 * x < row.high)
    BY <1>1, <2>3
  <2> QED
    BY <2>2, <2>4 DEF Within
<1>3. Fitting(p, i, c) = Fitting(p, i, x)
  BY <1>2 DEF Fitting
<1>4. FeeKnown(p, i, c) <=> FeeKnown(p, i, x)
  BY <1>3 DEF FeeKnown
<1>5. Fee(p, i, c) = Fee(p, i, x)
  BY <1>3, Zenon DEF Fee
<1> QED
  BY <1>4, <1>5 DEF Logistics

-----------------------------------------------------------------------------
(* Profit inside an interval.                                               *)

\* What a kopek of price brings before tax, and what does not depend on the price.
Slope(p) == (One - p.commission - Acquiring - Drr) * Buyout * (One + Vat)
            - (One - CoInvest) * Buyout * Vat
Burden(p, i, c) == One * (One + Vat) * Logistics(p, i, c) + p.cost * Scale
Gain(p, i, c) == c * Slope(p) - Burden(p, i, c)

\* The base of the tax on income, and the slope and intercept of what is required.
Base == (One - CoInvest) * Buyout * One
Growth(p) == IF p.goal = "margin" THEN Scale * p.target ELSE 0
Floor(p) == IF p.goal = "margin" THEN 0 ELSE Scale * p.target * p.cost

LEMMA RateFacts ==
    /\ One \in Nat /\ One >= 1 /\ Buyout \in Nat /\ Buyout >= 1 /\ Buyout <= One
    /\ Acquiring \in Nat /\ Vat \in Nat /\ Drr \in Nat
    /\ CoInvest \in Nat /\ CoInvest <= One
    /\ IncomeTax \in Nat /\ IncomeTax <= One
BY RatesAssumption

LEMMA NatProduct == \A a, b \in Nat : a * b \in Nat
OBVIOUS

LEMMA ScaleFacts == Scale \in Nat /\ Base \in Nat
<1>1. Buyout * One \in Nat /\ One + Vat \in Nat /\ One - CoInvest \in Nat
  BY RateFacts, NatProduct
<1>2. (One - CoInvest) * Buyout \in Nat
  BY <1>1, RateFacts, NatProduct
<1> QED
  BY <1>1, <1>2, RateFacts, NatProduct DEF Scale, Base

LEMMA ProductFields ==
    ASSUME NEW p \in Products, p.cost # NotKnown
    PROVE  p.cost \in Nat /\ p.target \in Nat /\ p.logistics \in Nat /\ p.commission \in Nat
BY ProductsAssumption, RatesAssumption DEF ProductTypeOK

LEMMA LogisticsType ==
    ASSUME NEW p \in Products, NEW i \in DOMAIN p.rows, NEW c \in Nat, FeeKnown(p, i, c)
    PROVE  Logistics(p, i, c) \in Nat
<1>1. CASE Priced(p)
  <2>1. Fitting(p, i, c) # {}
    BY <1>1, FS_EmptySet DEF FeeKnown
  <2>2. Fee(p, i, c) \in Nat
    <3>1. (CHOOSE row \in Fitting(p, i, c) : TRUE) \in Fitting(p, i, c)
      BY <2>1
    <3> QED
      BY <3>1, RowFields DEF Fee, Fitting
  <2>3. Fee(p, i, c) + FixedFee \in Nat /\ One - Buyout \in Nat
    BY <2>2, RateFacts, SearchAssumption
  <2>4. One * (Fee(p, i, c) + FixedFee) \in Nat /\ (One - Buyout) * Fee(p, i, c) \in Nat
    BY <2>2, <2>3, RateFacts, NatProduct
  <2> QED
    BY <1>1, <2>4 DEF Logistics
<1>2. CASE ~Priced(p)
  <2>1. p.logistics \in Nat
    BY ProductsAssumption DEF ProductTypeOK
  <2> QED
    BY <1>2, <2>1, RateFacts, NatProduct DEF Logistics
<1> QED
  BY <1>1, <1>2

LEMMA MoneyTypes ==
    ASSUME NEW p \in Products, p.cost # NotKnown
    PROVE  Slope(p) \in Int /\ Growth(p) \in Nat /\ Floor(p) \in Nat
<1>1. Slope(p) \in Int
  BY ProductFields, RateFacts DEF Slope
<1>2. Scale * p.target \in Nat
  BY ScaleFacts, ProductFields, NatProduct
<1>3. Scale * p.target * p.cost \in Nat
  BY <1>2, ProductFields, NatProduct
<1> QED
  BY <1>1, <1>2, <1>3 DEF Growth, Floor

LEMMA RequiredIs ==
    ASSUME NEW p \in Products, p.cost # NotKnown, NEW c \in Nat
    PROVE  Required(p, c) = c * Growth(p) + Floor(p)
<1>1. Scale \in Nat /\ p.target \in Nat /\ p.cost \in Nat
  BY ScaleFacts, ProductFields
<1> HIDE DEF Scale
<1>2. CASE p.goal = "margin"
  BY <1>1, <1>2 DEF Required, Growth, Floor
<1>3. CASE p.goal # "margin"
  BY <1>1, <1>3 DEF Required, Growth, Floor
<1> QED
  BY <1>2, <1>3

LEMMA GainIs ==
    ASSUME NEW p \in Products, p.cost # NotKnown, NEW i \in DOMAIN p.rows, NEW c \in Nat,
           FeeKnown(p, i, c)
    PROVE  /\ Burden(p, i, c) \in Int
           /\ Payout(p, i, c) - VatOf(c) - p.cost * Scale = Gain(p, i, c)
           /\ Payout(p, i, c) - p.cost * Scale - VatOf(c) = Gain(p, i, c)
           /\ Realization(c) - VatOf(c) = c * Base
<1>1. Logistics(p, i, c) \in Nat
  BY LogisticsType
<1>2. Scale \in Nat /\ p.cost \in Nat /\ p.commission \in Nat
  BY ScaleFacts, ProductFields
<1>3. PICK l \in Nat : l = Logistics(p, i, c)
  BY <1>1
<1>4. PICK s \in Nat : s = p.cost * Scale
  BY <1>2, NatProduct
<1>5. PICK m \in Nat : m = p.commission
  BY <1>2
<1>6. Payout(p, i, c) = c * (One - m - Acquiring - Drr) * Buyout * (One + Vat) - One * (One + Vat) * l
  BY <1>3, <1>5 DEF Payout
<1>7. Burden(p, i, c) = One * (One + Vat) * l + s
  BY <1>3, <1>4 DEF Burden
<1>8. Slope(p) = (One - m - Acquiring - Drr) * Buyout * (One + Vat) - (One - CoInvest) * Buyout * Vat
  BY <1>5 DEF Slope
<1>9. c * Slope(p) = c * (One - m - Acquiring - Drr) * Buyout * (One + Vat) - VatOf(c)
  BY <1>8, RateFacts DEF VatOf
<1>10. VatOf(c) \in Int /\ One * (One + Vat) * l \in Int
       /\ c * (One - m - Acquiring - Drr) * Buyout * (One + Vat) \in Int
  BY RateFacts DEF VatOf
<1>11. Realization(c) - VatOf(c) = c * Base
  BY RateFacts DEF Realization, VatOf, Base
<1>12. Payout(p, i, c) - VatOf(c) - s = Gain(p, i, c) /\ Payout(p, i, c) - s - VatOf(c) = Gain(p, i, c)
  <2> HIDE DEF VatOf
  <2> QED
    BY <1>6, <1>7, <1>9, <1>10 DEF Gain
<1> QED
  BY <1>4, <1>7, <1>10, <1>11, <1>12

\* Inside an interval a route that is short at the first price and not at a
\* later one gains with the price, after tax, at least what is required of it.
LEMMA GainRises ==
    ASSUME NEW S \in Int, NEW r \in Nat, NEW q \in Nat, NEW k \in Nat,
           NEW x \in Nat, NEW c \in Nat, x < c,
           NEW B \in Int, NEW P \in Int, NEW Q \in Int,
           P < x * r + q, Q >= c * r + q,
           c * S - B >= 0 => Q = k * (c * S - B), c * S - B < 0 => Q < 0,
           x * S - B >= 0 => P = k * (x * S - B)
    PROVE  S >= 0 /\ k * S >= r
<1> DEFINE gx == x * S - B
           gc == c * S - B
           d == c - x
<1>1. gx \in Int /\ gc \in Int /\ d \in Nat /\ d > 0 /\ gc = gx + d * S
  OBVIOUS
<1>2. c * r \in Nat /\ x * r \in Nat /\ c * r = x * r + d * r /\ d * r \in Nat
  OBVIOUS
<1>3. gc >= 0 /\ Q = k * gc
  BY <1>2
<1>4. k * gc = k * gx + d * (k * S) /\ k * gx \in Int /\ k * S \in Int /\ d * (k * S) \in Int
  BY <1>1
<1>5. gx >= 0 => k * gx < x * r + q
  OBVIOUS
<1> HIDE DEF gx, gc, d
<1>6. gx < 0 => k * gx <= 0
  BY <1>1
<1>7. d * (k * S) >= d * r
  BY <1>1, <1>2, <1>3, <1>4, <1>5, <1>6
<1>8. k * S >= r
  BY <1>1, <1>4, <1>7
<1>9. S >= 0
  <2> SUFFICES ASSUME S < 0
               PROVE  FALSE
    OBVIOUS
  <2>1. d * S <= 0 /\ d * S \in Int
    BY <1>1
  <2>2. gx >= gc /\ gx >= 0
    BY <1>1, <1>3, <2>1
  <2>3. k * gx >= k * gc /\ k * gc \in Int
    <3>1. PICK e \in Nat : gx = gc + e
      <4>1. gx - gc \in Nat /\ gx = gc + (gx - gc)
        BY <1>1, <2>2
      <4> QED
        BY <4>1
    <3>2. k * gx = k * gc + k * e /\ k * e \in Nat /\ k * gc \in Int
      BY <1>1, <3>1
    <3> QED
      BY <1>4, <3>2
  <2> QED
    BY <1>2, <1>3, <1>4, <1>5, <2>2, <2>3
<1> QED
  BY <1>8, <1>9

\* What profit is, by the tax system.
LEMMA ProfitIs ==
    ASSUME NEW p \in Products, p.cost # NotKnown, NEW i \in DOMAIN p.rows, NEW c \in Nat,
           FeeKnown(p, i, c)
    PROVE  /\ Gain(p, i, c) \in Int /\ Profit(p, i, c) \in Int
           /\ p.tax = "usn_income" =>
                Profit(p, i, c) = c * (One * Slope(p) - Base * IncomeTax) - One * Burden(p, i, c)
           /\ p.tax = "usn_income_minus_expenses" /\ Gain(p, i, c) >= 0 =>
                Profit(p, i, c) = (One - IncomeTax) * Gain(p, i, c)
           /\ p.tax = "usn_income_minus_expenses" /\ Gain(p, i, c) < 0 =>
                Profit(p, i, c) < 0
<1>1. PICK S \in Int : S = Slope(p)
  BY MoneyTypes
<1>2. PICK B \in Int : B = Burden(p, i, c)
  BY GainIs
<1>3. PICK V \in Nat : V = Base
  BY ScaleFacts
<1>4. Gain(p, i, c) = c * S - B /\ Gain(p, i, c) \in Int
  BY <1>1, <1>2 DEF Gain
<1>5. Profit(p, i, c) = One * (c * S - B) - Greater(0, TaxBase(p, i, c) * IncomeTax)
  BY <1>4, GainIs, Zenon DEF Profit
<1>6. TaxBase(p, i, c) = IF p.tax = "usn_income" THEN c * V ELSE c * S - B
  BY <1>3, <1>4, GainIs DEF TaxBase
<1>7. CASE p.tax = "usn_income"
  <2>1. c * V * IncomeTax \in Nat
    BY RateFacts, NatProduct
  <2>2. Profit(p, i, c) = One * (c * S - B) - c * V * IncomeTax
    BY <1>5, <1>6, <1>7, <2>1 DEF Greater
  <2>3. Profit(p, i, c) = c * (One * S - V * IncomeTax) - One * B /\ Profit(p, i, c) \in Int
    BY <2>2, RateFacts
  <2> QED
    BY <1>1, <1>2, <1>3, <1>4, <1>7, <2>3
<1>8. CASE p.tax # "usn_income"
  <2>1. PICK g \in Int : g = c * S - B
    OBVIOUS
  <2>2. Profit(p, i, c) = One * g - Greater(0, g * IncomeTax)
    BY <1>5, <1>6, <1>8, <2>1
  <2>3. One * g \in Int /\ g * IncomeTax \in Int
    BY RateFacts
  <2>4. Profit(p, i, c) \in Int
    BY <2>2, <2>3 DEF Greater
  <2>5. g >= 0 => Profit(p, i, c) = (One - IncomeTax) * g
    <3>1. g >= 0 => g * IncomeTax >= 0
      BY RateFacts
    <3>2. (One - IncomeTax) * g = One * g - g * IncomeTax
      BY RateFacts
    <3> QED
      BY <2>2, <2>3, <3>1, <3>2 DEF Greater
  <2>6. g < 0 => Profit(p, i, c) < 0
    <3>1. g < 0 => g * IncomeTax <= 0 /\ One * g < 0
      BY RateFacts
    <3> QED
      BY <2>2, <2>3, <3>1 DEF Greater
  <2> QED
    BY <1>4, <1>8, <2>1, <2>4, <2>5, <2>6
<1> QED
  BY <1>7, <1>8

-----------------------------------------------------------------------------
LEMMA FailingFacts ==
    ASSUME NEW p \in Products, NEW c
    PROVE  /\ Meets(p, c) => \A i \in DOMAIN p.rows :
                                FeeKnown(p, i, c) /\ ~(Profit(p, i, c) < Required(p, c))
           /\ Status(p, c) = "short" => \E i \in DOMAIN p.rows :
                                FeeKnown(p, i, c) /\ Profit(p, i, c) < Required(p, c)
           /\ Status(p, c) = "unknown" /\ p.tax \in {"usn_income", "usn_income_minus_expenses"} =>
                \E i \in DOMAIN p.rows : ~FeeKnown(p, i, c)
           /\ Status(p, c) \in {"met", "short", "unknown"}
<1>1. Failing(p, c) # {} => Min(Failing(p, c)) \in Failing(p, c)
  <2>1. Failing(p, c) \subseteq Nat
    <3>1. DOMAIN p.rows \subseteq Nat
      <4> DEFINE Rows == SUBSET [low : Nat \cup {NotKnown}, high : Nat \cup {NotKnown}, fee : Nat]
      <4>1. p.rows \in Seq(Rows)
        BY ProductsAssumption DEF ProductTypeOK
      <4> HIDE DEF Rows
      <4> QED
        BY <4>1
    <3> QED
      BY <3>1 DEF Failing
  <2> QED
    BY <2>1, LeastNatural
<1>2. Status(p, c) \in {"met", "short", "unknown"}
  BY DEF Status
<1>3. ASSUME Meets(p, c), NEW i \in DOMAIN p.rows
      PROVE  FeeKnown(p, i, c) /\ ~(Profit(p, i, c) < Required(p, c))
  <2>1. Failing(p, c) = {}
    BY <1>3 DEF Meets, Status
  <2> QED
    BY <2>1 DEF Failing
<1>4. ASSUME Status(p, c) = "short"
      PROVE  \E i \in DOMAIN p.rows : FeeKnown(p, i, c) /\ Profit(p, i, c) < Required(p, c)
  <2>1. Failing(p, c) # {} /\ FeeKnown(p, Min(Failing(p, c)), c)
    BY <1>4 DEF Status
  <2>2. Min(Failing(p, c)) \in Failing(p, c)
    BY <1>1, <2>1
  <2> QED
    BY <2>1, <2>2 DEF Failing
<1>5. ASSUME Status(p, c) = "unknown", p.tax \in {"usn_income", "usn_income_minus_expenses"}
      PROVE  \E i \in DOMAIN p.rows : ~FeeKnown(p, i, c)
  <2>1. Failing(p, c) # {} /\ ~FeeKnown(p, Min(Failing(p, c)), c)
    BY <1>5 DEF Status
  <2>2. Min(Failing(p, c)) \in Failing(p, c)
    BY <1>1, <2>1
  <2> QED
    BY <2>1, <2>2 DEF Failing
<1> QED
  BY <1>2, <1>3, <1>4, <1>5

\* Where the first price is unknown, so is the interval.
LEMMA UnknownStays ==
    ASSUME NEW p \in Products, NEW x \in Starts(p), Status(p, x) = "unknown",
           NEW c \in Nat, InInterval(p, x, c)
    PROVE  ~Meets(p, c)
<1>1. CASE p.tax \notin {"usn_income", "usn_income_minus_expenses"}
  BY <1>1 DEF Meets, Status
<1>2. CASE p.tax \in {"usn_income", "usn_income_minus_expenses"}
  <2>1. PICK i \in DOMAIN p.rows : ~FeeKnown(p, i, x)
    BY <1>2, FailingFacts
  <2>2. ~FeeKnown(p, i, c)
    BY <2>1, SameTariff
  <2> QED
    BY <2>2, FailingFacts
<1> QED
  BY <1>1, <1>2

\* Where the first price falls short, prices that meet the target are a final
\* segment of the interval.
LEMMA MetStaysMet ==
    ASSUME NEW p \in Products, p.cost # NotKnown, NEW x \in Starts(p), Status(p, x) = "short",
           NEW c \in Nat, NEW z \in Nat, x < c, c <= z, InInterval(p, x, z), Meets(p, c)
    PROVE  Meets(p, z)
<1>1. x \in Nat /\ InInterval(p, x, c) /\ InInterval(p, x, x)
  BY StartsArePrices DEF InInterval, Later
<1>2. p.tax \in {"usn_income", "usn_income_minus_expenses"}
  BY DEF Meets, Status
<1>3. PICK i \in DOMAIN p.rows : FeeKnown(p, i, x) /\ Profit(p, i, x) < Required(p, x)
  BY FailingFacts
<1>4. PICK S \in Int : S = Slope(p)
  BY MoneyTypes
<1>5. PICK r \in Nat : r = Growth(p)
  BY MoneyTypes
<1>6. PICK q \in Nat : q = Floor(p)
  BY MoneyTypes
<1>7. \A y \in Nat : Required(p, y) = y * r + q
  BY <1>5, <1>6, RequiredIs
<1>8. ASSUME NEW j \in DOMAIN p.rows
      PROVE  /\ FeeKnown(p, j, c) /\ FeeKnown(p, j, z) /\ FeeKnown(p, j, x)
             /\ Burden(p, j, c) \in Int /\ Burden(p, j, z) = Burden(p, j, c)
             /\ Burden(p, j, x) = Burden(p, j, c)
             /\ Profit(p, j, c) >= c * r + q
  <2>1. FeeKnown(p, j, c) /\ ~(Profit(p, j, c) < Required(p, c))
    BY FailingFacts
  <2>2. FeeKnown(p, j, x) /\ FeeKnown(p, j, z)
    BY <1>1, <2>1, SameTariff
  <2>3. Logistics(p, j, z) = Logistics(p, j, c) /\ Logistics(p, j, x) = Logistics(p, j, c)
    BY <1>1, SameTariff
  <2>4. Burden(p, j, c) \in Int /\ Burden(p, j, z) = Burden(p, j, c)
        /\ Burden(p, j, x) = Burden(p, j, c)
    BY <2>1, <2>3, GainIs DEF Burden
  <2>5. Profit(p, j, c) \in Int /\ c * r + q \in Int
    BY <2>1, ProfitIs
  <2>6. Profit(p, j, c) >= c * r + q
    BY <1>7, <2>1, <2>5
  <2> QED
    BY <2>1, <2>2, <2>4, <2>6
<1>9. Profit(p, i, x) < x * r + q /\ Profit(p, i, x) \in Int
  BY <1>1, <1>3, <1>7, ProfitIs
<1>10. ASSUME NEW j \in DOMAIN p.rows
       PROVE  Profit(p, j, z) \in Int /\ Profit(p, j, z) >= z * r + q
  <2>1. Profit(p, i, c) \in Int /\ Profit(p, j, c) \in Int /\ Profit(p, j, z) \in Int
    BY <1>8, ProfitIs
  <2>2. PICK A \in Int : A = Burden(p, i, c)
    BY <1>8
  <2>3. PICK B \in Int : B = Burden(p, j, c)
    BY <1>8
  <2>4. z * r = c * r + (z - c) * r /\ (z - c) * r \in Nat /\ c * r \in Nat
    OBVIOUS
  <2>5. Profit(p, i, c) >= c * r + q /\ Profit(p, j, c) >= c * r + q
    BY <1>8
  <2>6. CASE p.tax = "usn_income"
    <3>1. PICK W \in Int : W = One * S - Base * IncomeTax
      BY RateFacts, ScaleFacts
    <3>2. One * A \in Int /\ One * B \in Int
      BY RateFacts
    <3>3. Profit(p, i, x) = x * W - One * A /\ Profit(p, i, c) = c * W - One * A
      BY <1>1, <1>4, <1>8, <2>2, <2>6, <3>1, ProfitIs
    <3>4. Profit(p, j, c) = c * W - One * B /\ Profit(p, j, z) = z * W - One * B
      BY <1>4, <1>8, <2>3, <2>6, <3>1, ProfitIs
    <3>5. c * W = x * W + (c - x) * W /\ c * r = x * r + (c - x) * r
          /\ z * W = c * W + (z - c) * W
      BY <1>1
    <3>6. (c - x) * W \in Int /\ (c - x) * r \in Int /\ (z - c) * W \in Int
          /\ x * W \in Int /\ c * W \in Int /\ x * r \in Int
      BY <1>1
    <3>7. (c - x) * W > (c - x) * r
      BY <1>9, <2>1, <2>5, <3>2, <3>3, <3>5, <3>6
    <3>8. W >= r
      BY <1>1, <3>7
    <3>9. (z - c) * W >= (z - c) * r
      BY <3>8
    <3> QED
      BY <2>1, <2>4, <2>5, <3>2, <3>4, <3>5, <3>6, <3>9
  <2>7. CASE p.tax = "usn_income_minus_expenses"
    <3>1. PICK k \in Nat : k = One - IncomeTax
      BY RateFacts
    <3>2. Gain(p, i, x) = x * S - A /\ Gain(p, i, c) = c * S - A
          /\ Gain(p, j, c) = c * S - B /\ Gain(p, j, z) = z * S - B
      BY <1>4, <1>8, <2>2, <2>3 DEF Gain
    <3>3. /\ x * S - A >= 0 => Profit(p, i, x) = k * (x * S - A)
          /\ c * S - A >= 0 => Profit(p, i, c) = k * (c * S - A)
          /\ c * S - A < 0 => Profit(p, i, c) < 0
      BY <1>1, <1>3, <1>8, <2>7, <3>1, <3>2, ProfitIs
    <3>4. /\ c * S - B >= 0 => Profit(p, j, c) = k * (c * S - B)
          /\ c * S - B < 0 => Profit(p, j, c) < 0
          /\ z * S - B >= 0 => Profit(p, j, z) = k * (z * S - B)
      BY <1>8, <2>7, <3>1, <3>2, ProfitIs
    <3>5. S >= 0 /\ k * S >= r
      BY <1>1, <1>9, <2>1, <2>5, <3>3, GainRises
    <3>6. c * S - B >= 0 /\ Profit(p, j, c) = k * (c * S - B)
      BY <2>1, <2>4, <2>5, <3>4
    <3>7. z * S = c * S + (z - c) * S /\ (z - c) * S \in Nat
      BY <3>5
    <3>8. z * S - B >= 0 /\ z * S - B = (c * S - B) + (z - c) * S
      BY <3>6, <3>7
    <3>9. Profit(p, j, z) = k * (c * S - B) + (z - c) * (k * S)
      BY <3>4, <3>8
    <3>10. (z - c) * (k * S) >= (z - c) * r
      BY <3>5
    <3> QED
      BY <2>1, <2>4, <2>5, <3>6, <3>9, <3>10
  <2> QED
    BY <1>2, <2>6, <2>7
<1>11. \A j \in DOMAIN p.rows : FeeKnown(p, j, z) /\ ~(Profit(p, j, z) < Required(p, z))
  <2> SUFFICES ASSUME NEW j \in DOMAIN p.rows
               PROVE  FeeKnown(p, j, z) /\ ~(Profit(p, j, z) < Required(p, z))
    OBVIOUS
  <2>1. Required(p, z) = z * r + q /\ z * r + q \in Int
    BY <1>7
  <2> QED
    BY <1>8, <1>10, <2>1
<1>12. Failing(p, z) = {}
  BY <1>11 DEF Failing
<1> QED
  BY <1>2, <1>12 DEF Meets, Status

-----------------------------------------------------------------------------
(* The search.                                                              *)

\* What holds between the steps: no price before the interval meets the
\* target, and inside it the bisection keeps prices that do not below `low`
\* and one that does at `high`.
Falls(c) == ~Meets(product, c)
Bracket ==
    /\ from <= search.low /\ search.low <= search.high
    /\ InInterval(product, from, search.high) /\ Meets(product, search.high)
    /\ \A c \in from..(search.low - 1) : Falls(c)
SearchType == [step : {"enter", "double", "check", "halve", "done"}, low : Nat \ {0},
               high : Nat \ {0}, tries : 0..Doublings]
TargetInv ==
    /\ product \in Products /\ search \in SearchType
    /\ from \in Starts(product) /\ target \in Nat \cup {NotKnown}
    /\ search.step # "done" => target = NotKnown /\ \A c \in 1..(from - 1) : Falls(c)
    /\ search.step = "enter" => search = Opening
    /\ search.step \in {"double", "check", "halve"} =>
           ~Unpriceable(product) /\ Status(product, from) = "short"
    /\ search.step \in {"double", "check"} => search.low = from
    /\ search.step = "double" => Later(product, from) = {}
    /\ search.step = "check" =>
           Later(product, from) # {} /\ search.high = Min(Later(product, from)) - 1
    /\ search.step = "halve" => Bracket
    /\ TargetIsLeast

LEMMA SearchStarts == PriceInit => TargetInv
<1> SUFFICES ASSUME PriceInit
             PROVE  TargetInv
  OBVIOUS
<1> USE SearchAssumption
<1>1. product \in Products /\ search = Opening /\ from = 1 /\ target = NotKnown
  BY DEF PriceInit
<1>2. from \in Starts(product)
  BY <1>1 DEF Starts
<1>3. search \in SearchType /\ search.step = "enter"
  BY <1>1 DEF Opening, SearchType
<1>4. \A c \in 1..(from - 1) : Falls(c)
  BY <1>1
<1>5. TargetIsLeast
  BY <1>3 DEF TargetIsLeast
<1> QED
  BY <1>1, <1>2, <1>3, <1>4, <1>5 DEF TargetInv

\* The next interval begins at the first later start.
LEMMA NextStart ==
    ASSUME NEW p \in Products, NEW x \in Starts(p), Later(p, x) # {}
    PROVE  /\ Min(Later(p, x)) \in Starts(p) /\ Min(Later(p, x)) \in Nat
           /\ Min(Later(p, x)) > x
           /\ \A s \in Later(p, x) : Min(Later(p, x)) <= s
<1>1. Later(p, x) \subseteq Nat
  BY StartsArePrices DEF Later
<1>2. Min(Later(p, x)) \in Later(p, x) /\ \A s \in Later(p, x) : Min(Later(p, x)) <= s
  BY <1>1, LeastNatural
<1> QED
  BY <1>1, <1>2 DEF Later

\* An interval is left only when no price in it meets the target.
LEMMA Leaving ==
    ASSUME TargetInv, search.step # "done", NextInterval,
           \A c \in Nat : from <= c /\ InInterval(product, from, c)
               /\ (Later(product, from) = {} => c <= search.high) => Falls(c)
    PROVE  TargetInv'
<1> USE SearchAssumption
<1>1. /\ product \in Products /\ from \in Starts(product) /\ search \in SearchType
      /\ target = NotKnown
      /\ \A c \in 1..(from - 1) : Falls(c)
  BY DEF TargetInv
<1>2. from \in Nat /\ from >= 1
  BY <1>1, StartsArePrices
<1>3. product' = product /\ target' = NotKnown
  BY <1>1 DEF NextInterval
<1>4. CASE Later(product, from) = {}
  <2>1. search' = [search EXCEPT !.step = "done"] /\ from' = from
    BY <1>4 DEF NextInterval
  <2>2. search' \in SearchType /\ search'.step = "done" /\ search'.high = search.high
    BY <1>1, <2>1 DEF SearchType
  <2>3. \A c \in 1..search.high : Falls(c)
    <3> SUFFICES ASSUME NEW c \in 1..search.high
                 PROVE  Falls(c)
      OBVIOUS
    <3>0. search.high \in Nat
      BY <1>1 DEF SearchType
    <3>1. CASE c < from
      BY <1>1, <1>2, <3>0, <3>1
    <3>2. CASE c >= from
      <4>1. InInterval(product, from, c)
        BY <1>2, <1>4, <3>0, <3>2 DEF InInterval
      <4> QED
        BY <1>2, <3>0, <3>2, <4>1
    <3> QED
      BY <1>2, <3>0, <3>1, <3>2
  <2>4. TargetIsLeast'
    BY <1>3, <2>2, <2>3 DEF TargetIsLeast, Falls
  <2>5. from' \in Starts(product)' /\ product' \in Products
    BY <1>1, <1>3, <2>1
  <2> QED
    BY <1>3, <2>2, <2>4, <2>5 DEF TargetInv
<1>5. CASE Later(product, from) # {}
  <2> DEFINE m == Min(Later(product, from))
  <2>1. search' = Opening /\ from' = m
    BY <1>5 DEF NextInterval
  <2>2. m \in Starts(product) /\ m \in Nat /\ m > from /\ \A s \in Later(product, from) : m <= s
    BY <1>1, <1>5, NextStart
  <2>3. search' \in SearchType /\ search'.step = "enter"
    BY <2>1 DEF Opening, SearchType
  <2> HIDE DEF m
  <2>4. \A c \in 1..(m - 1) : Falls(c)
    <3> SUFFICES ASSUME NEW c \in 1..(m - 1)
                 PROVE  Falls(c)
      OBVIOUS
    <3>1. CASE c < from
      BY <1>1, <1>2, <3>1
    <3>2. CASE c >= from
      <4>1. \A s \in Later(product, from) : s \in Nat
        BY <1>1, StartsArePrices DEF Later
      <4>2. InInterval(product, from, c)
        BY <1>2, <2>2, <3>2, <4>1 DEF InInterval
      <4> QED
        BY <1>2, <1>5, <2>2, <3>2, <4>2
    <3> QED
      BY <1>2, <2>2, <3>1, <3>2
  <2>5. (\A c \in 1..(from - 1) : Falls(c))'
    BY <1>3, <2>1, <2>4 DEF Falls
  <2>6. TargetIsLeast'
    BY <2>3 DEF TargetIsLeast
  <2>7. from' \in Starts(product)' /\ product' \in Products /\ search' = Opening'
    BY <1>1, <1>3, <2>1, <2>2 DEF Opening
  <2> QED
    BY <1>3, <2>3, <2>5, <2>6, <2>7 DEF TargetInv
<1> QED
  BY <1>4, <1>5

\* A price that is proposed is the first that meets the target.
LEMMA Finding ==
    ASSUME TargetInv, NEW c \in Nat \ {0}, Found(c), Meets(product, c),
           \A d \in 1..(c - 1) : Falls(d)
    PROVE  TargetInv'
<1>1. product' = product /\ from' = from /\ target' = c
      /\ search' = [search EXCEPT !.step = "done"]
  BY DEF Found
<1>2. product \in Products /\ from \in Starts(product) /\ search \in SearchType
  BY DEF TargetInv
<1>3. search' \in SearchType /\ search'.step = "done"
  BY <1>1, <1>2 DEF SearchType
<1>4. target' # NotKnown
  BY <1>1, SearchAssumption
<1>5. Meets(product', target') /\ \A d \in 1..(target' - 1) : ~Meets(product', d)
  BY <1>1 DEF Falls
<1>6. TargetIsLeast'
  BY <1>4, <1>5 DEF TargetIsLeast
<1>7. from' \in Starts(product)' /\ product' \in Products /\ target' \in Nat
  BY <1>1, <1>2
<1> QED
  BY <1>3, <1>6, <1>7 DEF TargetInv

\* What the steps inside an interval need to know.
LEMMA InSearch ==
    ASSUME TargetInv
    PROVE  /\ product \in Products /\ from \in Starts(product) /\ from \in Nat /\ from >= 1
           /\ search \in SearchType /\ search.low \in Nat /\ search.low >= 1
           /\ search.high \in Nat /\ search.high >= 1 /\ search.tries \in 0..Doublings
           /\ ~Unpriceable(product) => product.cost # NotKnown
BY StartsArePrices DEF TargetInv, SearchType, Unpriceable

LEMMA FirstUpperType ==
    ASSUME NEW p \in Products, ~Unpriceable(p), NEW x \in Nat \ {0}
    PROVE  FirstUpper(p, x) \in Nat \ {0}
<1> USE SearchAssumption
<1>1. p.cost \in Nat /\ p.price \in Nat \cup {NotKnown} /\ (~Priced(p) => p.price \in Nat)
  BY ProductsAssumption DEF ProductTypeOK, Unpriceable
<1>2. OrZero(p.price) \in Nat /\ OrZero(p.cost) \in Nat
  BY <1>1 DEF OrZero
<1>3. Greater(OrZero(p.price), OrZero(p.cost)) \in Nat
  BY <1>2 DEF Greater
<1>4. Greater(100, Greater(OrZero(p.price), OrZero(p.cost))) \in Nat
  BY <1>3 DEF Greater
<1>5. Greater(x + 1, Greater(100, Greater(OrZero(p.price), OrZero(p.cost)))) \in Nat \ {0}
  BY <1>4 DEF Greater
<1>6. ~Priced(p) => Greater(1, p.price) \in Nat \ {0}
  BY <1>1 DEF Greater
<1> QED
  BY <1>5, <1>6 DEF FirstUpper

\* The steps of the search.
LEMMA StepRefuse == TargetInv /\ RefuseProduct => TargetInv'
<1> SUFFICES ASSUME TargetInv, RefuseProduct
             PROVE  TargetInv'
  OBVIOUS
<1>1. search.step = "enter" /\ Unpriceable(product)
      /\ search' = [search EXCEPT !.step = "done"]
      /\ product' = product /\ from' = from /\ target' = target
  BY DEF RefuseProduct
<1>2. product \in Products /\ from \in Starts(product) /\ search \in SearchType
      /\ target \in Nat \cup {NotKnown}
  BY DEF TargetInv
<1>3. search' \in SearchType /\ search'.step = "done"
  BY <1>1, <1>2 DEF SearchType
<1>4. TargetIsLeast'
  BY <1>1 DEF TargetIsLeast
<1>5. from' \in Starts(product)' /\ product' \in Products /\ target' \in Nat \cup {NotKnown}
  BY <1>1, <1>2
<1> QED
  BY <1>3, <1>4, <1>5 DEF TargetInv

LEMMA StepEnter == TargetInv /\ Enter => TargetInv'
<1> SUFFICES ASSUME TargetInv, Enter
             PROVE  TargetInv'
  OBVIOUS
<1> USE SearchAssumption
<1>1. search.step = "enter" /\ ~Unpriceable(product)
  BY DEF Enter
<1>2. search = Opening /\ target = NotKnown /\ \A c \in 1..(from - 1) : Falls(c)
  BY <1>1 DEF TargetInv
<1>3. search.high = 1
  BY <1>2 DEF Opening
<1>4. CASE Status(product, from) = "met"
  <2>1. Meets(product, from)
    BY <1>4 DEF Meets
  <2>2. Found(from)
    BY <1>4, <2>1 DEF Enter
  <2> QED
    BY <1>2, <2>1, <2>2, InSearch, Finding
<1>5. CASE Status(product, from) = "unknown"
  <2>1. NextInterval
    BY <1>5 DEF Enter, Meets
  <2>2. \A c \in Nat : InInterval(product, from, c) => Falls(c)
    BY <1>5, InSearch, UnknownStays DEF Falls
  <2> QED
    BY <1>1, <2>1, <2>2, Leaving
<1>6. CASE Status(product, from) = "short"
  <2>1. /\ search' = IF Later(product, from) # {}
                     THEN [step |-> "check", low |-> from, tries |-> 0,
                           high |-> Min(Later(product, from)) - 1]
                     ELSE [step |-> "double", low |-> from, tries |-> 0,
                           high |-> FirstUpper(product, from)]
        /\ product' = product /\ from' = from /\ target' = target
    BY <1>6 DEF Enter, Meets
  <2>2. product' \in Products /\ from' \in Starts(product)' /\ target' = NotKnown
    BY <1>2, <2>1, InSearch
  <2>3. (\A c \in 1..(from - 1) : Falls(c))'
    BY <1>2, <2>1 DEF Falls
  <2>4. ~Unpriceable(product)' /\ Status(product, from)' = "short"
    BY <1>1, <1>6, <2>1
  <2>5. CASE Later(product, from) # {}
    <3> DEFINE m == Min(Later(product, from)) - 1
    <3>1. m \in Nat \ {0}
      BY <2>5, InSearch, NextStart
    <3>2. search' = [step |-> "check", low |-> from, tries |-> 0, high |-> m]
      BY <2>1, <2>5
    <3>3. Later(product, from)' # {} /\ m = Min(Later(product, from))' - 1
      BY <2>1, <2>5
    <3> HIDE DEF m
    <3>4. search' \in SearchType /\ search'.step = "check" /\ search'.low = from'
          /\ search'.high = m
      BY <2>1, <3>1, <3>2, InSearch DEF SearchType
    <3>5. TargetIsLeast'
      BY <3>4 DEF TargetIsLeast
    <3> QED
      BY <2>2, <2>3, <2>4, <3>3, <3>4, <3>5 DEF TargetInv
  <2>6. CASE Later(product, from) = {}
    <3> DEFINE u == FirstUpper(product, from)
    <3>1. u \in Nat \ {0}
      BY <1>1, InSearch, FirstUpperType
    <3>2. search' = [step |-> "double", low |-> from, tries |-> 0, high |-> u]
      BY <2>1, <2>6
    <3>3. Later(product, from)' = {}
      BY <2>1, <2>6
    <3> HIDE DEF u
    <3>4. search' \in SearchType /\ search'.step = "double" /\ search'.low = from'
      BY <2>1, <3>1, <3>2, InSearch DEF SearchType
    <3>5. TargetIsLeast'
      BY <3>4 DEF TargetIsLeast
    <3> QED
      BY <2>2, <2>3, <2>4, <3>3, <3>4, <3>5 DEF TargetInv
  <2> QED
    BY <2>5, <2>6
<1> QED
  BY <1>4, <1>5, <1>6, InSearch, FailingFacts

\* The bisection begins: the upper price of the interval meets the target.
LEMMA Bisecting ==
    ASSUME TargetInv, search.step \in {"double", "check"},
           search' = [search EXCEPT !.step = "halve"], UNCHANGED <<product, from, target>>,
           Meets(product, search.high), InInterval(product, from, search.high)
    PROVE  TargetInv'
<1>1. product \in Products /\ from \in Starts(product) /\ target = NotKnown
      /\ search \in SearchType /\ search.low = from
      /\ ~Unpriceable(product) /\ Status(product, from) = "short"
      /\ \A c \in 1..(from - 1) : Falls(c)
  BY DEF TargetInv
<1>2. from <= search.high
  BY DEF InInterval
<1>3. search' \in SearchType /\ search'.step = "halve" /\ search'.low = from
      /\ search'.high = search.high
  BY <1>1 DEF SearchType
<1>4. \A c \in from..(from - 1) : Falls(c)
  BY InSearch
<1>5. Bracket'
  <2>1. from' <= search'.low /\ search'.low <= search'.high
    BY <1>2, <1>3, InSearch
  <2>2. InInterval(product', from', search'.high) /\ Meets(product', search'.high)
    BY <1>3
  <2>3. \A c \in from'..(search'.low - 1) : ~Meets(product', c)
    BY <1>3, <1>4 DEF Falls
  <2> QED
    BY <2>1, <2>2, <2>3 DEF Bracket, Falls
<1>6. (\A c \in 1..(from - 1) : Falls(c))'
  BY <1>1 DEF Falls
<1>7. TargetIsLeast'
  BY <1>3 DEF TargetIsLeast
<1>8. product' \in Products /\ from' \in Starts(product)' /\ target' = NotKnown
      /\ ~Unpriceable(product)' /\ Status(product, from)' = "short"
  BY <1>1
<1> QED
  BY <1>3, <1>5, <1>6, <1>7, <1>8 DEF TargetInv

LEMMA StepDouble == TargetInv /\ Double => TargetInv'
<1> SUFFICES ASSUME TargetInv, Double
             PROVE  TargetInv'
  OBVIOUS
<1>1. search.step = "double"
  BY DEF Double
<1>2. Later(product, from) = {} /\ target = NotKnown /\ search.low = from
      /\ ~Unpriceable(product) /\ Status(product, from) = "short"
      /\ \A c \in 1..(from - 1) : Falls(c)
  BY <1>1 DEF TargetInv
<1>3. \A c \in Nat : from <= c => InInterval(product, from, c)
  BY <1>2 DEF InInterval
<1>4. CASE Meets(product, search.high)
  <2>1. search' = [search EXCEPT !.step = "halve"] /\ UNCHANGED <<product, from, target>>
    BY <1>4 DEF Double
  <2>2. search.high >= from
    <3> SUFFICES ASSUME search.high < from
                 PROVE  FALSE
      BY InSearch
    <3>1. search.high \in 1..(from - 1)
      BY InSearch
    <3> QED
      BY <1>2, <1>4, <3>1 DEF Falls
  <2>3. InInterval(product, from, search.high)
    BY <1>3, <2>2, InSearch
  <2> QED
    BY <1>1, <1>4, <2>1, <2>3, Bisecting
<1>5. CASE ~Meets(product, search.high) /\ NextInterval
  <2>1. ASSUME NEW c \in Nat, from <= c, c <= search.high
        PROVE  Falls(c)
    <3>1. CASE c = from
      BY <1>2, <3>1 DEF Falls, Meets
    <3>2. CASE from < c
      <4>1. InInterval(product, from, search.high)
        BY <1>3, <2>1, InSearch
      <4> QED
        BY <1>2, <1>5, <2>1, <3>2, <4>1, InSearch, MetStaysMet DEF Falls
    <3> QED
      BY <2>1, <3>1, <3>2, InSearch
  <2> QED
    BY <1>1, <1>2, <1>5, <2>1, Leaving
<1>6. CASE /\ search.tries < IF Priced(product) THEN Doublings - 1 ELSE Doublings
           /\ search' = [search EXCEPT !.high = 2 * @, !.tries = @ + 1]
           /\ UNCHANGED <<product, from, target>>
  <2>1. search.tries + 1 \in 0..Doublings
    BY <1>6, InSearch, SearchAssumption
  <2>2. 2 * search.high \in Nat \ {0}
    BY InSearch
  <2>3. search' \in SearchType /\ search'.step = "double" /\ search'.low = from'
    BY <1>1, <1>2, <1>6, <2>1, <2>2, InSearch DEF SearchType
  <2>4. (\A c \in 1..(from - 1) : Falls(c))'
    BY <1>2, <1>6 DEF Falls
  <2>5. TargetIsLeast'
    BY <2>3 DEF TargetIsLeast
  <2>6. product' \in Products /\ from' \in Starts(product)' /\ target' = NotKnown
        /\ ~Unpriceable(product)' /\ Status(product, from)' = "short"
        /\ Later(product, from)' = {}
    BY <1>2, <1>6, InSearch
  <2> QED
    BY <2>3, <2>4, <2>5, <2>6 DEF TargetInv
<1> QED
  BY <1>4, <1>5, <1>6 DEF Double

LEMMA StepCheck == TargetInv /\ Check => TargetInv'
<1> SUFFICES ASSUME TargetInv, Check
             PROVE  TargetInv'
  OBVIOUS
<1>1. search.step = "check"
  BY DEF Check
<1>2. Later(product, from) # {} /\ search.high = Min(Later(product, from)) - 1
      /\ search.low = from /\ ~Unpriceable(product) /\ Status(product, from) = "short"
  BY <1>1 DEF TargetInv
<1>3. /\ Min(Later(product, from)) \in Later(product, from)
      /\ Min(Later(product, from)) \in Nat /\ Min(Later(product, from)) > from
      /\ \A s \in Later(product, from) : Min(Later(product, from)) <= s /\ s \in Nat
  BY <1>2, InSearch, NextStart, StartsArePrices DEF Later
<1>4. InInterval(product, from, search.high) /\ search.high >= search.low
  BY <1>2, <1>3, InSearch DEF InInterval
<1>5. CASE Meets(product, search.high)
  BY <1>1, <1>4, <1>5, InSearch, Bisecting DEF Check
<1>6. CASE ~Meets(product, search.high)
  <2>1. NextInterval
    BY <1>6 DEF Check
  <2>2. ASSUME NEW c \in Nat, from <= c, InInterval(product, from, c)
        PROVE  Falls(c)
    <3>1. CASE c = from
      BY <1>2, <3>1 DEF Falls, Meets
    <3>2. CASE from < c
      <4>1. c <= search.high
        BY <1>2, <1>3, <2>2 DEF InInterval
      <4> QED
        BY <1>2, <1>4, <1>6, <3>2, <4>1, InSearch, MetStaysMet DEF Falls
    <3> QED
      BY <2>2, <3>1, <3>2, InSearch
  <2> QED
    BY <1>1, <2>1, <2>2, Leaving
<1> QED
  BY <1>5, <1>6

LEMMA StepHalve == TargetInv /\ Halve => TargetInv'
<1> SUFFICES ASSUME TargetInv, Halve
             PROVE  TargetInv'
  OBVIOUS
<1>1. search.step = "halve" /\ search.low < search.high
      /\ product' = product /\ from' = from /\ target' = target
  BY DEF Halve
<1>2. Bracket /\ target = NotKnown /\ ~Unpriceable(product) /\ Status(product, from) = "short"
      /\ \A c \in 1..(from - 1) : Falls(c)
  BY <1>1 DEF TargetInv
<1> DEFINE mid == (search.low + search.high) \div 2
<1>3. mid \in Nat /\ search.low <= mid /\ mid < search.high /\ mid >= 1
  BY <1>1, InSearch
<1>4. from <= search.low /\ InInterval(product, from, search.high)
      /\ Meets(product, search.high) /\ \A c \in from..(search.low - 1) : Falls(c)
  BY <1>2 DEF Bracket
<1>5. search' = IF Meets(product, mid) THEN [search EXCEPT !.high = mid]
                ELSE [search EXCEPT !.low = mid + 1]
  BY DEF Halve
<1> HIDE DEF mid
<1>6. InInterval(product, from, mid)
  BY <1>3, <1>4, InSearch, StartsArePrices DEF InInterval, Later
<1>7. search' \in SearchType /\ search'.step = "halve" /\ Bracket'
  <2>1. CASE Meets(product, mid)
    <3>1. search' \in SearchType /\ search'.step = "halve" /\ search'.low = search.low
          /\ search'.high = mid
      BY <1>1, <1>3, <1>5, <2>1, InSearch DEF SearchType
    <3> QED
      BY <1>1, <1>3, <1>4, <1>6, <2>1, <3>1 DEF Bracket, Falls
  <2>2. CASE ~Meets(product, mid)
    <3>1. search' \in SearchType /\ search'.step = "halve" /\ search'.low = mid + 1
          /\ search'.high = search.high
      BY <1>1, <1>3, <1>5, <2>2, InSearch DEF SearchType
    <3>2. ASSUME NEW c \in from..mid
          PROVE  ~Meets(product, c)
      <4>1. c \in Nat /\ from <= c /\ c <= mid
        BY <1>3, InSearch
      <4>2. CASE c = from
        BY <1>2, <4>2 DEF Meets
      <4>3. CASE from < c
        BY <1>2, <1>3, <1>6, <2>2, <4>1, <4>3, InSearch, MetStaysMet
      <4> QED
        BY <4>1, <4>2, <4>3, InSearch
    <3>3. from <= mid + 1 /\ mid + 1 <= search.high /\ mid + 1 - 1 = mid
      BY <1>3, <1>4, InSearch
    <3>4. from' <= search'.low /\ search'.low <= search'.high
      BY <1>1, <3>1, <3>3
    <3>5. InInterval(product', from', search'.high) /\ Meets(product', search'.high)
      BY <1>1, <1>4, <3>1
    <3>6. \A c \in from'..(search'.low - 1) : ~Meets(product', c)
      <4>1. search'.low - 1 = mid /\ from' = from /\ product' = product
        BY <1>1, <1>3, <3>1
      <4> QED
        BY <3>2, <4>1
    <3> QED
      BY <3>1, <3>4, <3>5, <3>6 DEF Bracket, Falls
  <2> QED
    BY <2>1, <2>2
<1>8. (\A c \in 1..(from - 1) : Falls(c))'
  BY <1>1, <1>2 DEF Falls
<1>9. TargetIsLeast'
  BY <1>7 DEF TargetIsLeast
<1>10. product' \in Products /\ from' \in Starts(product)' /\ target' = NotKnown
       /\ ~Unpriceable(product)' /\ Status(product, from)' = "short"
  BY <1>1, <1>2, InSearch
<1> QED
  BY <1>7, <1>8, <1>9, <1>10 DEF TargetInv

LEMMA StepArrive == TargetInv /\ Arrive => TargetInv'
<1> SUFFICES ASSUME TargetInv, Arrive
             PROVE  TargetInv'
  OBVIOUS
<1>1. search.step = "halve" /\ search.low = search.high /\ Found(search.high)
  BY DEF Arrive
<1>2. Bracket /\ \A c \in 1..(from - 1) : Falls(c)
  BY <1>1 DEF TargetInv
<1>3. \A d \in 1..(search.high - 1) : Falls(d)
  <2> SUFFICES ASSUME NEW d \in 1..(search.high - 1)
               PROVE  Falls(d)
    OBVIOUS
  <2>1. CASE d < from
    BY <1>2, <2>1, InSearch
  <2>2. CASE d >= from
    BY <1>1, <1>2, <2>2, InSearch DEF Bracket
  <2> QED
    BY <2>1, <2>2, InSearch
<1> QED
  BY <1>1, <1>2, <1>3, InSearch, Finding DEF Bracket

LEMMA SearchStepInv == TargetInv /\ [PriceStep]_priceVars => TargetInv'
<1> SUFFICES ASSUME TargetInv, [PriceStep]_priceVars
             PROVE  TargetInv'
  OBVIOUS
<1>1. CASE UNCHANGED priceVars
  <2>1. product' = product /\ search' = search /\ from' = from /\ target' = target
    BY <1>1 DEF priceVars
  <2>2. TargetIsLeast'
    BY <2>1 DEF TargetInv, TargetIsLeast
  <2>3. search.step = "halve" => Bracket'
    BY <2>1 DEF TargetInv, Bracket, Falls
  <2>4. search.step # "done" => target' = NotKnown /\ (\A c \in 1..(from - 1) : Falls(c))'
    BY <2>1 DEF TargetInv, Falls
  <2> QED
    BY <2>1, <2>2, <2>3, <2>4 DEF TargetInv
<1>2. CASE PriceStep
  BY <1>2, StepRefuse, StepEnter, StepDouble, StepCheck, StepHalve, StepArrive DEF PriceStep
<1> QED
  BY <1>1, <1>2

\* The search of a target price keeps its bracket (economics/pricing.py:_target).
THEOREM TargetInvariant == PriceSpec => []TargetInv
<1>1. PriceInit => TargetInv
  BY SearchStarts
<1>2. TargetInv /\ [PriceStep]_priceVars => TargetInv'
  BY SearchStepInv
<1> QED
  BY <1>1, <1>2, PTL DEF PriceSpec

\* Type correctness of the search.
THEOREM PriceTypeCorrect == PriceSpec => []PriceTypeOK
<1>1. TargetInv => PriceTypeOK
  BY DEF TargetInv, PriceTypeOK, SearchType
<1> QED
  BY <1>1, TargetInvariant, PTL

\* For every product, tariff, rate and number of doublings: the price proposed
\* meets the target on every route and no lower price does, and without one no
\* price up to the last tried meets it (economics/pricing.py:_target,
\* economics/workspace.py:_target_price).
THEOREM TargetIsTheLeast == PriceSpec => []TargetIsLeast
<1>1. TargetInv => TargetIsLeast
  BY DEF TargetInv
<1> QED
  BY <1>1, TargetInvariant, PTL

-----------------------------------------------------------------------------
(* DemandEstimates.  The estimate is monotone in every week's sales because*)
(* each of its order statistics is.                                        *)

-----------------------------------------------------------------------------
(* Order statistics.                                                        *)

Below(s, v) == {i \in DOMAIN s : s[i] < v}
UpTo(s, v) == {i \in DOMAIN s : s[i] <= v}

LEMMA CountFacts ==
    ASSUME NEW s \in Seq(Nat), NEW v \in Nat
    PROVE  /\ IsFiniteSet(Below(s, v)) /\ IsFiniteSet(UpTo(s, v))
           /\ Cardinality(Below(s, v)) \in Nat /\ Cardinality(UpTo(s, v)) \in Nat
<1>1. IsFiniteSet(DOMAIN s)
  <2>1. DOMAIN s = 1..Len(s) /\ Len(s) \in Nat
    OBVIOUS
  <2> QED
    BY <2>1, FS_Interval
<1>2. IsFiniteSet(Below(s, v)) /\ IsFiniteSet(UpTo(s, v))
  BY <1>1, FS_Subset DEF Below, UpTo
<1> QED
  BY <1>2, FS_CardinalityType

LEMMA NthExists ==
    ASSUME NEW s \in Seq(Nat), NEW k \in 1..Len(s)
    PROVE  /\ Nth(s, k) \in Range(s) /\ Nth(s, k) \in Nat
           /\ Cardinality(Below(s, Nth(s, k))) < k
           /\ Cardinality(UpTo(s, Nth(s, k))) >= k
<1> DEFINE V == {v \in Range(s) : Cardinality(UpTo(s, v)) >= k}
<1>0. DOMAIN s = 1..Len(s) /\ Len(s) \in Nat /\ (\A i \in DOMAIN s : s[i] \in Nat)
      /\ k \in Nat /\ 1 \in DOMAIN s
  OBVIOUS
<1>1. Range(s) \subseteq Nat /\ Range(s) # {} /\ DOMAIN s = 1..Len(s) /\ Len(s) \in Nat
  BY <1>0 DEF Range
<1>2. IsFiniteSet(DOMAIN s) /\ Cardinality(DOMAIN s) = Len(s)
  BY SMTT(30), <1>1, FS_Interval
<1>3. IsFiniteSet(Range(s))
  <2>1. Range(s) = {s[i] : i \in DOMAIN s}
    BY DEF Range
  <2> QED
    BY <1>2, <2>1, ImageIsFinite
<1>4. V # {} /\ V \subseteq Nat
  <2>1. Max(Range(s)) \in Range(s) /\ \A v \in Range(s) : Max(Range(s)) >= v
    BY <1>1, <1>3, GreatestNatural
  <2>2. \A i \in DOMAIN s : s[i] \in Range(s)
    BY DEF Range
  <2>3. UpTo(s, Max(Range(s))) = DOMAIN s
    BY <1>1, <2>1, <2>2 DEF UpTo
  <2>4. Max(Range(s)) \in V
    BY <1>1, <1>2, <2>1, <2>3
  <2> QED
    BY <1>1, <2>4
<1> DEFINE v == Min(V)
<1>5. v \in V /\ v \in Nat /\ \A u \in V : v <= u
  BY <1>4, LeastNatural
<1>6. Cardinality(Below(s, v)) < k
  <2> HIDE DEF v
  <2>1. CASE Below(s, v) = {}
    BY <2>1, FS_EmptySet
  <2>2. CASE Below(s, v) # {}
    <3> DEFINE W == {s[i] : i \in Below(s, v)}
    <3>1. W \subseteq Nat /\ W # {} /\ W \subseteq Range(s)
      BY <2>2 DEF Below, Range
    <3>2. IsFiniteSet(W)
      BY <1>5, CountFacts, ImageIsFinite
    <3>3. PICK u \in W : \A w \in W : u >= w
      BY <3>1, <3>2, GreatestNatural
    <3>4. u \in Nat /\ u < v /\ u \in Range(s)
      BY <3>1, <3>3 DEF Below
    <3>5. Below(s, v) = UpTo(s, u)
      <4>1. ASSUME NEW i \in Below(s, v) PROVE i \in UpTo(s, u)
        BY <3>3 DEF Below, UpTo
      <4>2. ASSUME NEW i \in UpTo(s, u) PROVE i \in Below(s, v)
        BY <1>5, <3>4 DEF Below, UpTo
      <4> QED
        BY <4>1, <4>2
    <3>6. u \notin V
      BY <1>5, <3>4
    <3>7. ~(Cardinality(UpTo(s, u)) >= k)
      BY <3>4, <3>6
    <3> QED
      BY <1>1, <3>4, <3>5, <3>7, CountFacts
  <2> QED
    BY <2>1, <2>2
<1>7. \E u \in Range(s) : /\ Cardinality({i \in DOMAIN s : s[i] < u}) < k
                          /\ Cardinality({i \in DOMAIN s : s[i] <= u}) >= k
  <2> HIDE DEF v
  <2> QED
    BY <1>5, <1>6 DEF Below, UpTo
<1>8. /\ Nth(s, k) \in Range(s)
      /\ Cardinality({i \in DOMAIN s : s[i] < Nth(s, k)}) < k
      /\ Cardinality({i \in DOMAIN s : s[i] <= Nth(s, k)}) >= k
  BY <1>7, Zenon DEF Nth
<1> QED
  BY <1>1, <1>8 DEF Below, UpTo

\* A sequence that is larger everywhere has larger order statistics, and later
\* ones are larger.
LEMMA NthMonotone ==
    ASSUME NEW s \in Seq(Nat), NEW t \in Seq(Nat), Len(t) = Len(s),
           \A i \in 1..Len(s) : s[i] <= t[i],
           NEW j \in 1..Len(s), NEW k \in 1..Len(s), j <= k
    PROVE  Nth(s, j) <= Nth(t, k)
<1>1. /\ Nth(s, j) \in Nat /\ Cardinality(Below(s, Nth(s, j))) < j
      /\ Nth(t, k) \in Nat /\ Cardinality(UpTo(t, Nth(t, k))) >= k
  BY NthExists
<1> SUFFICES ASSUME Nth(t, k) < Nth(s, j)
             PROVE  FALSE
  BY <1>1
<1>2. UpTo(t, Nth(t, k)) \subseteq Below(s, Nth(s, j))
  <2>1. DOMAIN t = 1..Len(s) /\ DOMAIN s = 1..Len(s)
        /\ \A i \in 1..Len(s) : s[i] \in Nat /\ t[i] \in Nat
    BY SMTT(30)
  <2> SUFFICES ASSUME NEW i \in UpTo(t, Nth(t, k))
               PROVE  i \in Below(s, Nth(s, j))
    OBVIOUS
  <2>2. i \in 1..Len(s) /\ t[i] <= Nth(t, k)
    BY <2>1 DEF UpTo
  <2>3. s[i] \in Nat /\ t[i] \in Nat /\ s[i] <= t[i]
    BY <2>1, <2>2
  <2>4. s[i] < Nth(s, j)
    BY SMTT(30), <1>1, <2>2, <2>3
  <2> QED
    BY <2>1, <2>2, <2>4 DEF Below
<1>3. Cardinality(UpTo(t, Nth(t, k))) <= Cardinality(Below(s, Nth(s, j)))
  BY <1>1, <1>2, CountFacts, FS_Subset
<1>4. /\ Cardinality(UpTo(t, Nth(t, k))) \in Nat
      /\ Cardinality(Below(s, Nth(s, j))) \in Nat
  BY <1>1, CountFacts
<1>5. j \in Int /\ k \in Int
  OBVIOUS
<1> QED
  BY <1>1, <1>3, <1>4, <1>5

\* An element that stays above, or below, an order statistic does not move it.
LEMMA NthStays ==
    ASSUME NEW s \in Seq(Nat), NEW k \in 1..Len(s), NEW n \in 1..Len(s), NEW x \in Nat,
           NEW v \in Nat, v = Nth(s, k) \/ v = Nth([s EXCEPT ![n] = x], k),
           (s[n] < v /\ x < v) \/ (s[n] > v /\ x > v)
    PROVE  Nth([s EXCEPT ![n] = x], k) = Nth(s, k)
<1> DEFINE t == [s EXCEPT ![n] = x]
<1>1. t \in Seq(Nat) /\ Len(t) = Len(s) /\ DOMAIN t = DOMAIN s /\ DOMAIN s = 1..Len(s)
      /\ t[n] = x /\ \A i \in 1..Len(s) : i # n => t[i] = s[i]
  OBVIOUS
<1> HIDE DEF t
<1>2. Below(s, v) = Below(t, v) /\ UpTo(s, v) = UpTo(t, v)
  <2>1. DOMAIN t = 1..Len(s) /\ DOMAIN s = 1..Len(s)
        /\ \A i \in 1..Len(s) : s[i] \in Nat /\ t[i] \in Nat
    BY SMTT(30), <1>1
  <2>2. ASSUME NEW i \in 1..Len(s)
        PROVE  (s[i] < v <=> t[i] < v) /\ (s[i] <= v <=> t[i] <= v)
    <3>1. CASE i = n
      <4>1. s[n] \in Nat /\ t[n] = x
        BY SMTT(30), <1>1
      <4> QED
        BY SMTT(30), <3>1, <4>1
    <3>2. CASE i # n
      BY <1>1, <3>2
    <3> QED
      BY <3>1, <3>2
  <2> QED
    BY <2>1, <2>2 DEF Below, UpTo
<1>3. /\ Nth(s, k) \in Nat /\ Nth(t, k) \in Nat
      /\ Cardinality(Below(s, Nth(s, k))) < k /\ Cardinality(UpTo(s, Nth(s, k))) >= k
      /\ Cardinality(Below(t, Nth(t, k))) < k /\ Cardinality(UpTo(t, Nth(t, k))) >= k
  BY <1>1, NthExists
<1>4. Cardinality(Below(s, v)) < k /\ Cardinality(UpTo(s, v)) >= k
      /\ Cardinality(Below(t, v)) < k /\ Cardinality(UpTo(t, v)) >= k
  BY <1>2, <1>3 DEF t
<1>5. ASSUME NEW w \in Nat, NEW r \in {s, t},
             Cardinality(Below(r, w)) < k, Cardinality(UpTo(r, w)) >= k
      PROVE  w = v
  <2>0. r \in Seq(Nat) /\ Cardinality(Below(r, v)) < k /\ Cardinality(UpTo(r, v)) >= k
    BY <1>1, <1>4
  <2>1. CASE w < v
    <3>1. UpTo(r, w) \subseteq Below(r, v)
      BY <2>0, <2>1 DEF UpTo, Below
    <3>2. Cardinality(UpTo(r, w)) <= Cardinality(Below(r, v))
      BY <2>0, <3>1, CountFacts, FS_Subset
    <3>3. Cardinality(UpTo(r, w)) \in Nat /\ Cardinality(Below(r, v)) \in Nat
          /\ Cardinality(UpTo(r, v)) \in Nat /\ Cardinality(Below(r, w)) \in Nat
      BY <2>0, CountFacts
    <3>4. k \in Int
      OBVIOUS
    <3> QED
      BY <1>5, <2>0, <3>2, <3>3, <3>4
  <2>2. CASE v < w
    <3>1. UpTo(r, v) \subseteq Below(r, w)
      BY SMTT(30), <2>0, <2>2 DEF UpTo, Below
    <3>2. Cardinality(UpTo(r, v)) <= Cardinality(Below(r, w))
      BY <2>0, <3>1, CountFacts, FS_Subset
    <3>3. Cardinality(UpTo(r, w)) \in Nat /\ Cardinality(Below(r, v)) \in Nat
          /\ Cardinality(UpTo(r, v)) \in Nat /\ Cardinality(Below(r, w)) \in Nat
      BY <2>0, CountFacts
    <3>4. k \in Int
      OBVIOUS
    <3> QED
      BY <1>5, <2>0, <3>2, <3>3, <3>4
  <2> QED
    BY <2>1, <2>2
<1>6. Nth(s, k) = v /\ Nth(t, k) = v
  BY <1>3, <1>5
<1> QED
  BY <1>6 DEF t

\* An element above one order statistic is not below the next.
LEMMA NthNext ==
    ASSUME NEW s \in Seq(Nat), NEW k \in Nat, k \in 1..Len(s), k + 1 \in 1..Len(s),
           NEW n \in 1..Len(s), s[n] > Nth(s, k)
    PROVE  s[n] >= Nth(s, k + 1)
<1> DEFINE v == Nth(s, k)
           w == Nth(s, k + 1)
<1>1. v \in Nat /\ w \in Nat /\ Cardinality(UpTo(s, v)) >= k /\ Cardinality(Below(s, w)) < k + 1
  BY NthExists
<1>2. s[n] \in Nat /\ n \in DOMAIN s
  OBVIOUS
<1> SUFFICES ASSUME s[n] < w
             PROVE  FALSE
  BY <1>1, <1>2
<1> HIDE DEF v, w
<1>3. s[n] > v
  BY DEF v
<1>4. n \notin UpTo(s, v)
  BY <1>1, <1>2, <1>3 DEF UpTo
<1>5. UpTo(s, v) \cup {n} \subseteq Below(s, w)
  BY SMTT(30), <1>1, <1>2, <1>3 DEF UpTo, Below
<1>6. Cardinality(UpTo(s, v) \cup {n}) = Cardinality(UpTo(s, v)) + 1
  BY <1>1, <1>4, CountFacts, FS_AddElement
<1>7. Cardinality(UpTo(s, v) \cup {n}) <= Cardinality(Below(s, w))
  BY <1>1, <1>5, CountFacts, FS_Subset
<1>8. Cardinality(UpTo(s, v)) \in Nat /\ Cardinality(Below(s, w)) \in Nat
  BY <1>1, CountFacts
<1> QED
  BY <1>1, <1>6, <1>7, <1>8

-----------------------------------------------------------------------------
(* The rate as a function of the two middle weeks and the latest.           *)

LEMMA TrendBounds ==
    ASSUME NEW m1 \in Nat, NEW a \in Nat, NEW b \in Nat, NEW l \in Nat
    PROVE  /\ RateOf(a + b, Regime(m1, a + b), l) \in Nat
           /\ \E v \in {a, b, l} : 20 * v <= RateOf(a + b, Regime(m1, a + b), l)
           /\ \E v \in {a, b, l} : RateOf(a + b, Regime(m1, a + b), l) <= 20 * v
<1> DEFINE r == RateOf(a + b, Regime(m1, a + b), l)
           m == a + b
<1>1. r \in Int /\ (r = 10 * m \/ (11 * m < 20 * l /\ 10 * m <= r /\ r <= 5 * m + 10 * l)
                    \/ (9 * m > 20 * l /\ r <= 10 * m /\ r >= 5 * m + 10 * l))
  BY DEF RateOf, Confirmed, Between, Regime
<1> HIDE DEF r
<1>2. r \in Nat
  BY <1>1
<1>3. 20 * a <= r \/ 20 * b <= r \/ 20 * l <= r
  BY <1>1
<1>4. r <= 20 * a \/ r <= 20 * b \/ r <= 20 * l
  BY <1>1
<1> QED
  BY <1>2, <1>3, <1>4 DEF r

LEMMA TrendMonotone ==
    ASSUME NEW m1 \in Nat, NEW a \in Nat, NEW b \in Nat, NEW l \in Nat,
           NEW A \in Nat, NEW B \in Nat, NEW L \in Nat,
           a <= b, A <= B, a <= A, b <= B, l < L,
           l > a => A = a /\ l >= b, l > b => B = b,
           L > A => L >= B, L < A => A = a, L < B => B = b
    PROVE  RateOf(a + b, Regime(m1, a + b), l) <= RateOf(A + B, Regime(m1, A + B), L)
<1> DEFINE m == a + b
           M == A + B
           r == RateOf(m, Regime(m1, m), l)
           R == RateOf(M, Regime(m1, M), L)
<1>1. m <= M /\ m \in Nat /\ M \in Nat
  OBVIOUS
<1>2. CASE Regime(m1, m) = "growth" /\ 20 * l > 11 * m
  <2>1. Regime(m1, M) = "growth"
    BY <1>1, <1>2 DEF Regime
  <2>2. 20 * L > 11 * M
    BY <1>2
  <2> QED
    BY <1>1, <1>2, <2>1, <2>2 DEF RateOf, Confirmed, Between
<1>3. CASE Regime(m1, m) = "growth" /\ ~(20 * l > 11 * m)
  <2>1. Regime(m1, M) = "growth"
    BY <1>1, <1>3 DEF Regime
  <2> QED
    BY <1>1, <1>3, <2>1 DEF RateOf, Confirmed, Between
<1>4. CASE Regime(m1, m) = "decline" /\ 20 * l < 9 * m
  BY <1>1, <1>4 DEF RateOf, Confirmed, Between, Regime
<1>5. CASE Regime(m1, m) = "decline" /\ ~(20 * l < 9 * m)
  <2>1. ~(20 * L < 9 * M)
    BY <1>5
  <2> QED
    BY <1>1, <1>5, <2>1 DEF RateOf, Confirmed, Between, Regime
<1>6. CASE Regime(m1, m) \in {"stable", "transition"}
  <2>1. Regime(m1, M) # "decline"
    BY <1>1, <1>6 DEF Regime
  <2> QED
    BY <1>1, <1>6, <2>1 DEF RateOf, Confirmed, Between
<1>7. Regime(m1, m) \in {"growth", "decline", "stable", "transition"}
  BY DEF Regime
<1> QED
  BY <1>2, <1>3, <1>4, <1>5, <1>6, <1>7

-----------------------------------------------------------------------------
(* The estimate of a series.                                                *)

\* The weeks the rate is made from.
Made(s) == {20 * s[i] : i \in {j \in 1..Len(s) : j > Len(s) - 4 \/ Len(s) < 8}}

LEMMA MedianFacts ==
    ASSUME NEW s \in Seq(Nat), s # <<>>
    PROVE  /\ (Len(s) + 1) \div 2 \in 1..Len(s) /\ (Len(s) \div 2) + 1 \in 1..Len(s)
           /\ (Len(s) + 1) \div 2 <= (Len(s) \div 2) + 1
           /\ Median2(s) = Nth(s, (Len(s) + 1) \div 2) + Nth(s, (Len(s) \div 2) + 1)
           /\ Median2(s) \in Nat
<1>1. Len(s) \in Nat /\ Len(s) >= 1
  OBVIOUS
<1>2. (Len(s) + 1) \div 2 \in 1..Len(s) /\ (Len(s) \div 2) + 1 \in 1..Len(s)
      /\ (Len(s) + 1) \div 2 <= (Len(s) \div 2) + 1
  BY <1>1
<1>3. Median2(s) = Nth(s, (Len(s) + 1) \div 2) + Nth(s, (Len(s) \div 2) + 1)
  BY DEF Median2
<1>4. Nth(s, (Len(s) + 1) \div 2) \in Nat /\ Nth(s, (Len(s) \div 2) + 1) \in Nat
  BY <1>2, NthExists
<1> QED
  BY <1>2, <1>3, <1>4

\* The parts of a series of eight weeks or more.
Older(s) == SubSeq(s, Len(s) - 7, Len(s) - 4)
Younger(s) == SubSeq(s, Len(s) - 3, Len(s))

LEMMA Halves ==
    ASSUME NEW s \in Seq(Nat), Len(s) >= 8
    PROVE  /\ Older(s) \in Seq(Nat) /\ Len(Older(s)) = 4
           /\ Younger(s) \in Seq(Nat) /\ Len(Younger(s)) = 4
           /\ \A i \in 1..4 : Younger(s)[i] = s[Len(s) - 4 + i]
           /\ \A i \in 1..4 : Older(s)[i] = s[Len(s) - 8 + i]
<1>1. Len(s) \in Nat /\ DOMAIN s = 1..Len(s) /\ \A i \in 1..Len(s) : s[i] \in Nat
  OBVIOUS
<1>2. /\ Len(s) - 7 \in Int /\ Len(s) - 4 \in Int /\ Len(s) - 3 \in Int /\ Len(s) \in Int
      /\ \A i \in (Len(s) - 7)..(Len(s) - 4) : s[i] \in Nat
      /\ \A i \in (Len(s) - 3)..Len(s) : s[i] \in Nat
      /\ Len(s) - 7 <= Len(s) - 4 /\ (Len(s) - 4) - (Len(s) - 7) + 1 = 4
      /\ Len(s) - 3 <= Len(s) /\ Len(s) - (Len(s) - 3) + 1 = 4
      /\ \A i \in 1..4 : (Len(s) - 7) + i - 1 = Len(s) - 8 + i /\ (Len(s) - 3) + i - 1 = Len(s) - 4 + i
  BY <1>1
<1>3. /\ Older(s) \in Seq(Nat) /\ Len(Older(s)) = 4
      /\ \A i \in 1..4 : Older(s)[i] = s[(Len(s) - 7) + i - 1]
  <2> DEFINE m == Len(s) - 7
             n == Len(s) - 4
  <2> HIDE DEF m, n
  <2>1. m \in Int /\ n \in Int /\ (\A i \in m..n : s[i] \in Nat) /\ m <= n /\ n - m + 1 = 4
    BY <1>2 DEF m, n
  <2>2. /\ SubSeq(s, m, n) \in Seq(Nat) /\ Len(SubSeq(s, m, n)) = 4
        /\ \A i \in 1..4 : SubSeq(s, m, n)[i] = s[m + i - 1]
    BY <2>1, SubSeqProperties
  <2> QED
    BY <2>2 DEF Older, m, n
<1>4. /\ Younger(s) \in Seq(Nat) /\ Len(Younger(s)) = 4
      /\ \A i \in 1..4 : Younger(s)[i] = s[(Len(s) - 3) + i - 1]
  <2> DEFINE m == Len(s) - 3
             n == Len(s)
  <2> HIDE DEF m, n
  <2>1. m \in Int /\ n \in Int /\ (\A i \in m..n : s[i] \in Nat) /\ m <= n /\ n - m + 1 = 4
    BY <1>2 DEF m, n
  <2>2. /\ SubSeq(s, m, n) \in Seq(Nat) /\ Len(SubSeq(s, m, n)) = 4
        /\ \A i \in 1..4 : SubSeq(s, m, n)[i] = s[m + i - 1]
    BY <2>1, SubSeqProperties
  <2> QED
    BY <2>2 DEF Younger, m, n
<1> QED
  BY <1>2, <1>3, <1>4

LEMMA FullModelIs ==
    ASSUME NEW s \in Seq(Nat), Len(s) >= 8
    PROVE  EstimateOf(s).rate =
             LET m2 == Nth(Younger(s), 2) + Nth(Younger(s), 3)
             IN RateOf(m2, Regime(Median2(Older(s)), m2), s[Len(s)])
<1>1. Median2(Younger(s)) = Nth(Younger(s), 2) + Nth(Younger(s), 3)
  <2>1. Len(Younger(s)) = 4
    BY Halves
  <2>2. (4 + 1) \div 2 = 2 /\ (4 \div 2) + 1 = 3
    OBVIOUS
  <2> QED
    BY <2>1, <2>2 DEF Median2
<1>2. FullModel(s) = Trend(Median2(Older(s)), Median2(Younger(s)), s[Len(s)])
  <2> DEFINE E == {Trend(m1, m2, s[Len(s)]) : m1 \in {Median2(Older(s))}, m2 \in {Median2(Younger(s))}}
  <2>1. E = {Trend(Median2(Older(s)), Median2(Younger(s)), s[Len(s)])}
    OBVIOUS
  <2>2. FullModel(s) = CHOOSE e \in E : TRUE
    BY DEF FullModel, Older, Younger
  <2> HIDE DEF E
  <2> QED
    BY <2>1, <2>2
<1>3. EstimateOf(s) = FullModel(s)
  BY DEF EstimateOf
<1> QED
  BY <1>1, <1>2, <1>3 DEF Trend

LEMMA MadeFacts ==
    ASSUME NEW s \in Seq(Nat), s # <<>>
    PROVE  /\ Made(s) \subseteq Nat /\ IsFiniteSet(Made(s)) /\ 20 * s[Len(s)] \in Made(s)
<1>1. Len(s) \in Nat /\ Len(s) >= 1 /\ \A i \in 1..Len(s) : s[i] \in Nat
  OBVIOUS
<1> DEFINE D == {j \in 1..Len(s) : j > Len(s) - 4 \/ Len(s) < 8}
           f == [i \in D |-> 20 * s[i]]
<1>2. IsFiniteSet(D)
  <2>1. IsFiniteSet(1..Len(s)) /\ D \in SUBSET (1..Len(s))
    BY <1>1, FS_Interval
  <2> HIDE DEF D
  <2> QED
    BY <2>1, FS_Subset
<1>3. Made(s) = {f[i] : i \in D}
  BY DEF Made
<1>4. IsFiniteSet(Made(s))
  <2> HIDE DEF f, D
  <2> QED
    BY <1>2, <1>3, ImageIsFinite
<1>5. Made(s) \subseteq Nat
  BY <1>1 DEF Made
<1>6. 20 * s[Len(s)] \in Made(s)
  BY <1>1 DEF Made
<1> QED
  BY <1>4, <1>5, <1>6

\* The rate lies between the worst and the best of the weeks it is made from.
LEMMA EstimateBounds ==
    ASSUME NEW s \in Seq(Nat), s # <<>>
    PROVE  /\ EstimateOf(s).rate \in Nat
           /\ Min(Made(s)) <= EstimateOf(s).rate /\ EstimateOf(s).rate <= Max(Made(s))
<1> DEFINE r == EstimateOf(s).rate
<1>1. Len(s) \in Nat /\ Len(s) >= 1 /\ \A i \in 1..Len(s) : s[i] \in Nat
  OBVIOUS
<1>2. r \in Nat /\ (\E v \in Made(s) : v <= r) /\ (\E v \in Made(s) : r <= v)
  <2>1. CASE Len(s) < 8
    <3> DEFINE a == Nth(s, (Len(s) + 1) \div 2)
               b == Nth(s, (Len(s) \div 2) + 1)
    <3>1. r = 10 * (a + b)
      BY <2>1, MedianFacts DEF EstimateOf
    <3>2. a \in Range(s) /\ b \in Range(s) /\ a \in Nat /\ b \in Nat
      BY MedianFacts, NthExists
    <3> HIDE DEF a, b
    <3>3. \A v \in Range(s) : 20 * v \in Made(s)
      BY <1>1, <2>1 DEF Range, Made
    <3>4. 20 * a \in Made(s) /\ 20 * b \in Made(s)
      BY <3>2, <3>3
    <3> HIDE DEF r
    <3>5. r \in Nat /\ (20 * a <= r \/ 20 * b <= r) /\ (r <= 20 * a \/ r <= 20 * b)
      BY <3>1, <3>2
    <3> QED
      BY <3>4, <3>5
  <2>2. CASE Len(s) >= 8
    <3> DEFINE a == Nth(Younger(s), 2)
               b == Nth(Younger(s), 3)
               l == s[Len(s)]
               m1 == Median2(Older(s))
    <3>0. Older(s) # <<>> /\ 2 \in 1..Len(Younger(s)) /\ 3 \in 1..Len(Younger(s))
      <4>1. Len(Older(s)) = 4 /\ Len(Younger(s)) = 4
        BY <2>2, Halves
      <4>2. Older(s) # <<>>
        <5> SUFFICES ASSUME Older(s) = <<>>
                     PROVE  FALSE
          OBVIOUS
        <5> QED
          BY <4>1
      <4>3. 2 \in 1..Len(Younger(s)) /\ 3 \in 1..Len(Younger(s))
        BY <4>1
      <4> QED
        BY <4>2, <4>3
    <3>1. r = RateOf(a + b, Regime(m1, a + b), l)
      BY <2>2, FullModelIs
    <3>2. a \in Range(Younger(s)) /\ b \in Range(Younger(s)) /\ a \in Nat /\ b \in Nat
          /\ l \in Nat
      BY <1>1, <2>2, <3>0, Halves, NthExists
    <3>3. m1 \in Nat
      BY <2>2, <3>0, Halves, MedianFacts
    <3>4. \A v \in Range(Younger(s)) : 20 * v \in Made(s)
      <4> SUFFICES ASSUME NEW v \in Range(Younger(s))
                   PROVE  20 * v \in Made(s)
        OBVIOUS
      <4>1. PICK i \in 1..4 : v = Younger(s)[i]
        <5>1. Younger(s) \in Seq(Nat) /\ Len(Younger(s)) = 4
          BY <2>2, Halves
        <5>2. DOMAIN Younger(s) = 1..4
          BY <5>1
        <5> QED
          BY <5>2 DEF Range
      <4>2. v = s[Len(s) - 4 + i]
        BY <2>2, <4>1, Halves
      <4>3. Len(s) - 4 + i \in 1..Len(s) /\ Len(s) - 4 + i > Len(s) - 4
        BY <1>1, <2>2
      <4> QED
        BY <4>2, <4>3 DEF Made
    <3> HIDE DEF a, b, l, m1, r
    <3>5. r \in Nat /\ (\E v \in {a, b, l} : 20 * v <= r) /\ (\E v \in {a, b, l} : r <= 20 * v)
      BY <3>1, <3>2, <3>3, TrendBounds
    <3>6. \A v \in {a, b, l} : 20 * v \in Made(s)
      BY <3>2, <3>4, MadeFacts DEF l
    <3> QED
      BY <3>5, <3>6
  <2> QED
    BY <1>1, <2>1, <2>2
<1>3. \A v \in Made(s) : v \in Nat /\ Min(Made(s)) <= v /\ v <= Max(Made(s))
      /\ Min(Made(s)) \in Nat /\ Max(Made(s)) \in Nat
  BY MadeFacts, LeastNatural, GreatestNatural
<1> HIDE DEF r
<1>4. Min(Made(s)) <= r /\ r <= Max(Made(s))
  BY <1>2, <1>3
<1> QED
  BY <1>2, <1>4 DEF r

\* A larger last week does not lower the rate.
LEMMA EstimateMonotone ==
    ASSUME NEW s \in Seq(Nat), s # <<>>, NEW q \in Nat, q > s[Len(s)]
    PROVE  EstimateOf([s EXCEPT ![Len(s)] = q]).rate >= EstimateOf(s).rate
<1> DEFINE n == Len(s)
           t == [s EXCEPT ![n] = q]
<1>1. n \in Nat /\ n >= 1 /\ DOMAIN s = 1..n /\ \A i \in 1..n : s[i] \in Nat
  OBVIOUS
<1>2. t \in Seq(Nat) /\ Len(t) = n /\ t # <<>> /\ t[n] = q
      /\ \A i \in 1..n : i # n => t[i] = s[i]
  <2>1. t \in Seq(Nat) /\ Len(t) = n
    OBVIOUS
  <2>2. t[n] = q /\ \A i \in 1..n : i # n => t[i] = s[i]
    <3>1. n \in DOMAIN s /\ 1..n = DOMAIN s
      BY <1>1
    <3> HIDE DEF n
    <3>2. t[n] = q
      BY <3>1
    <3>3. \A i \in DOMAIN s : i # n => t[i] = s[i]
      BY <3>1
    <3> QED
      BY <3>1, <3>2, <3>3
  <2>3. t # <<>>
    BY <1>1, <2>1
  <2> QED
    BY ZenonT(30), <2>1, <2>2, <2>3
<1> HIDE DEF t
<1>3. CASE n < 8
  <2> DEFINE j == (n + 1) \div 2
             k == (n \div 2) + 1
  <2>1. EstimateOf(s).rate = 10 * (Nth(s, j) + Nth(s, k))
        /\ EstimateOf(t).rate = 10 * (Nth(t, j) + Nth(t, k))
    BY <1>2, <1>3, MedianFacts DEF EstimateOf
  <2>2. j \in 1..n /\ k \in 1..n
    BY MedianFacts
  <2>3. ASSUME NEW i \in 1..n
        PROVE  s[i] <= t[i]
    <3>1. s[i] \in Nat /\ s[n] \in Nat /\ s[n] < q
      BY <1>1
    <3> HIDE DEF n
    <3> QED
      BY SMTT(30), <1>2, <3>1
  <2>4. /\ Nth(s, j) \in Nat /\ Nth(t, j) \in Nat /\ Nth(s, j) <= Nth(t, j)
        /\ Nth(s, k) \in Nat /\ Nth(t, k) \in Nat /\ Nth(s, k) <= Nth(t, k)
    <3> HIDE DEF j, k
    <3>1. j <= j /\ k <= k
      BY <1>1, <2>2
    <3> QED
      BY <1>2, <2>2, <2>3, <3>1, NthExists, NthMonotone
  <2> HIDE DEF j, k
  <2> QED
    BY <2>1, <2>4 DEF t
<1>4. CASE n >= 8
  <2> DEFINE y == Younger(s)
             z == Younger(t)
             a == Nth(y, 2)
             b == Nth(y, 3)
             A == Nth(z, 2)
             B == Nth(z, 3)
             l == s[n]
             m1 == Median2(Older(s))
  <2>1. /\ y \in Seq(Nat) /\ Len(y) = 4 /\ z \in Seq(Nat) /\ Len(z) = 4
        /\ \A i \in 1..4 : y[i] = s[n - 4 + i] /\ z[i] = t[n - 4 + i]
    <3>1. Len(s) >= 8 /\ Len(t) >= 8
      BY <1>2, <1>4
    <3>2. \A i \in 1..4 : Younger(s)[i] = s[Len(s) - 4 + i]
      BY <3>1, Halves
    <3>3. \A i \in 1..4 : Younger(t)[i] = t[Len(t) - 4 + i]
      BY <1>2, <3>1, Halves
    <3> QED
      BY <1>2, <3>1, <3>2, <3>3, Halves
  <2>2. Older(t) = Older(s)
    <3>1. /\ Older(s) \in Seq(Nat) /\ Len(Older(s)) = 4 /\ Older(t) \in Seq(Nat) /\ Len(Older(t)) = 4
          /\ \A i \in 1..4 : Older(s)[i] = s[n - 8 + i] /\ Older(t)[i] = t[n - 8 + i]
      <4>1. Len(s) >= 8 /\ Len(t) >= 8
        BY <1>2, <1>4
      <4>2. \A i \in 1..4 : Older(s)[i] = s[Len(s) - 8 + i]
        BY <4>1, Halves
      <4>3. \A i \in 1..4 : Older(t)[i] = t[Len(t) - 8 + i]
        BY <1>2, <4>1, Halves
      <4> QED
        BY <1>2, <4>1, <4>2, <4>3, Halves
    <3>2. ASSUME NEW i \in 1..4
          PROVE  Older(s)[i] = Older(t)[i]
      <4>1. n - 8 + i \in 1..n /\ n - 8 + i # n
        BY <1>1, <1>4
      <4> HIDE DEF n
      <4> QED
        BY <1>2, <3>1, <4>1
    <3>3. DOMAIN Older(s) = 1..4 /\ DOMAIN Older(t) = 1..4
      BY <3>1
    <3>4. Older(s) = [i \in 1..4 |-> Older(s)[i]] /\ Older(t) = [i \in 1..4 |-> Older(t)[i]]
      BY <3>1, <3>3
    <3> QED
      BY <3>2, <3>4
  <2>3. y[4] = l /\ z[4] = q /\ z = [y EXCEPT ![4] = q]
    <3>1. n - 4 + 4 = n
      BY <1>1
    <3>2. y[4] = l /\ z[4] = q
      <4>1. y[4] = s[n - 4 + 4] /\ z[4] = t[n - 4 + 4]
        BY <2>1
      <4> QED
        BY <1>2, <3>1, <4>1
    <3>3. ASSUME NEW i \in 1..4, i # 4
          PROVE  z[i] = y[i]
      <4>1. n - 4 + i \in 1..n /\ n - 4 + i # n
        BY <1>1, <1>4, <3>3
      <4> HIDE DEF n, y, z
      <4> QED
        BY <1>2, <2>1, <4>1
    <3> HIDE DEF y, z, l
    <3> QED
      BY SMTT(30), <2>1, <3>2, <3>3
  <2>4. EstimateOf(s).rate = RateOf(a + b, Regime(m1, a + b), l)
        /\ EstimateOf(t).rate = RateOf(A + B, Regime(m1, A + B), q)
    BY <1>2, <1>4, <2>2, FullModelIs
  <2>5. m1 \in Nat
    <3>1. Older(s) \in Seq(Nat) /\ Older(s) # <<>>
      BY <1>4, Halves
    <3> QED
      BY <3>1, MedianFacts
  <2>6. l \in Nat /\ l < q
    BY <1>1
  <2> HIDE DEF y, z, n, l, m1
  <2>7. \A i \in 1..4 : y[i] <= z[i]
    BY <2>1, <2>3, <2>6
  <2>8. 2 \in 1..Len(y) /\ 3 \in 1..Len(y) /\ 4 \in 1..Len(y) /\ 2 + 1 = 3
    BY <2>1
  <2>9. a \in Nat /\ b \in Nat /\ A \in Nat /\ B \in Nat
    BY <2>1, <2>8, NthExists
  <2>10. a <= b /\ A <= B /\ a <= A /\ b <= B
    <3>1. (\A i \in 1..Len(y) : y[i] <= y[i]) /\ (\A i \in 1..Len(z) : z[i] <= z[i])
      <4>1. ASSUME NEW x \in Seq(Nat)
            PROVE  \A i \in 1..Len(x) : x[i] <= x[i]
        OBVIOUS
      <4> QED
        BY <2>1, <4>1
    <3>2. 2 <= 3 /\ 2 <= 2 /\ 3 <= 3
      OBVIOUS
    <3> QED
      BY <2>1, <2>7, <2>8, <3>1, <3>2, NthMonotone
  <2>11. (l > a => l >= b) /\ (q > A => q >= B)
    <3>1. ASSUME NEW x \in Seq(Nat), Len(x) = 4
          PROVE  x[4] > Nth(x, 2) => x[4] >= Nth(x, 3)
      <4>1. 2 \in Nat /\ 2 \in 1..Len(x) /\ 2 + 1 \in 1..Len(x) /\ 4 \in 1..Len(x) /\ 2 + 1 = 3
        BY <3>1
      <4> HIDE DEF n
      <4> QED
        BY <4>1, NthNext
    <3>2. y[4] = l /\ z[4] = q /\ y \in Seq(Nat) /\ z \in Seq(Nat) /\ Len(y) = 4 /\ Len(z) = 4
      BY <2>1, <2>3
    <3>3. y[4] > Nth(y, 2) => y[4] >= Nth(y, 3)
      BY <3>1, <3>2
    <3>4. z[4] > Nth(z, 2) => z[4] >= Nth(z, 3)
      BY <3>1, <3>2
    <3> QED
      BY <3>2, <3>3, <3>4
  <2>12. (l > a => A = a) /\ (l > b => B = b) /\ (q < A => A = a) /\ (q < B => B = b)
    <3>1. ASSUME NEW k \in {2, 3}
          PROVE  (l > Nth(y, k) => Nth(z, k) = Nth(y, k)) /\ (q < Nth(z, k) => Nth(z, k) = Nth(y, k))
      <4>1. k \in 1..Len(y) /\ Nth(y, k) \in Nat /\ Nth(z, k) \in Nat
        BY <2>1, <2>8, NthExists
      <4>2. CASE l > Nth(y, k)
        <5>1. q > Nth(y, k)
          BY <2>6, <4>1, <4>2
        <5> QED
          <6>1. y[4] > Nth(y, k) /\ q > Nth(y, k) /\ 4 \in 1..Len(y)
            BY <2>3, <2>8, <4>2, <5>1
          <6>2. Nth([y EXCEPT ![4] = q], k) = Nth(y, k)
            BY <2>1, <4>1, <6>1, NthStays
          <6>3. ~(q < Nth(z, k))
            BY <2>3, <2>6, <4>1, <5>1, <6>2
          <6> QED
            BY <2>3, <6>2
      <4>3. CASE q < Nth(z, k)
        <5>1. l < Nth(z, k)
          BY <2>6, <4>1, <4>3
        <5> QED
          <6>1. y[4] < Nth([y EXCEPT ![4] = q], k) /\ q < Nth([y EXCEPT ![4] = q], k)
                /\ 4 \in 1..Len(y) /\ Nth([y EXCEPT ![4] = q], k) \in Nat
            BY <2>3, <2>8, <4>1, <4>3, <5>1
          <6>2. Nth([y EXCEPT ![4] = q], k) = Nth(y, k)
            BY ZenonT(30), <2>1, <4>1, <6>1, NthStays
          <6> QED
            BY <2>3, <6>2
      <4> QED
        BY <4>2, <4>3
    <3> QED
      BY <3>1
  <2> HIDE DEF a, b, A, B
  <2>13. RateOf(a + b, Regime(m1, a + b), l) <= RateOf(A + B, Regime(m1, A + B), q)
    BY <2>5, <2>6, <2>9, <2>10, <2>11, <2>12, TrendMonotone
  <2>14. EstimateOf(s).rate \in Nat /\ EstimateOf(t).rate \in Nat
    BY <1>2, EstimateBounds
  <2> QED
    BY <2>4, <2>13, <2>14 DEF t, n
<1> QED
  BY <1>1, <1>3, <1>4

-----------------------------------------------------------------------------
(* The analyses.                                                            *)

DemandInv ==
    /\ sold \in Seq(WeeklySales \cup {0}) /\ Len(sold) <= LongestHistory
    /\ running \in WeeklySales \cup {0} /\ lag \in Lags \cup {0}
    /\ estimate = Estimate([sold |-> sold, lag |-> lag])

LEMMA SeriesType ==
    ASSUME NEW h, h.sold \in Seq(Nat)
    PROVE  Series(h) \in Seq(Nat)
<1>1. CASE Weeks(h) = {}
  BY <1>1 DEF Series
<1>2. CASE Weeks(h) # {}
  <2>1. Weeks(h) \subseteq 1..Len(h.sold) /\ Len(h.sold) \in Nat
    BY DEF Weeks, CompleteWeeks
  <2>2. IsFiniteSet(Weeks(h)) /\ Weeks(h) \subseteq Nat
    <3>1. IsFiniteSet(1..Len(h.sold)) /\ Weeks(h) \in SUBSET (1..Len(h.sold))
      BY SMTT(30), <2>1, FS_Interval
    <3>2. IsFiniteSet(Weeks(h))
      BY <3>1, FS_Subset
    <3> QED
      BY <2>1, <3>2
  <2>3. Min(Weeks(h)) \in Weeks(h) /\ Max(Weeks(h)) \in Weeks(h)
    BY <1>2, <2>2, LeastNatural, GreatestNatural
  <2>4. Min(Weeks(h)) \in 1..Len(h.sold) /\ Max(Weeks(h)) \in 1..Len(h.sold)
    BY <2>1, <2>3
  <2>5. Series(h) = SubSeq(h.sold, Min(Weeks(h)), Max(Weeks(h)))
    BY <1>2 DEF Series
  <2>6. ASSUME NEW x \in 1..Len(h.sold), NEW z \in 1..Len(h.sold)
        PROVE  SubSeq(h.sold, x, z) \in Seq(Nat)
    OBVIOUS
  <2> QED
    BY <2>4, <2>5, <2>6
<1> QED
  BY <1>1, <1>2

LEMMA EstimateIs ==
    ASSUME NEW h, h.sold \in Seq(Nat)
    PROVE  /\ Sold(h) = {} => Estimate(h) = [rate |-> NoRate, regime |-> "none", trusted |-> FALSE]
           /\ Sold(h) # {} =>
                Estimate(h) = [rate |-> EstimateOf(Series(h)).rate, trusted |-> UpToDate(h),
                               regime |-> IF UpToDate(h) THEN EstimateOf(Series(h)).regime
                                          ELSE "incomplete"]
<1> DEFINE E == {[rate |-> e.rate, trusted |-> UpToDate(h),
                  regime |-> IF UpToDate(h) THEN e.regime ELSE "incomplete"]
                    : e \in {EstimateOf(s) : s \in {Series(h)}}}
           x == [rate |-> EstimateOf(Series(h)).rate, trusted |-> UpToDate(h),
                 regime |-> IF UpToDate(h) THEN EstimateOf(Series(h)).regime ELSE "incomplete"]
<1>1. E = {x}
  OBVIOUS
<1>2. Sold(h) # {} => Estimate(h) = CHOOSE r \in E : TRUE
  BY DEF Estimate
<1>3. Sold(h) = {} => Estimate(h) = [rate |-> NoRate, regime |-> "none", trusted |-> FALSE]
  BY DEF Estimate
<1>4. (CHOOSE r \in E : TRUE) = x
  <2> HIDE DEF E, x
  <2> QED
    BY <1>1
<1> QED
  BY <1>2, <1>3, <1>4

LEMMA RegimeType ==
    ASSUME NEW s \in Seq(Nat)
    PROVE  EstimateOf(s).regime \in {"incomplete", "transition", "growth", "stable", "decline"}
<1>1. CASE Len(s) < 8 \/ s = <<>>
  BY <1>1 DEF EstimateOf
<1>2. CASE Len(s) >= 8 /\ s # <<>>
  <2> DEFINE E == {Trend(m1, m2, s[Len(s)]) : m1 \in {Median2(Older(s))}, m2 \in {Median2(Younger(s))}}
  <2>1. EstimateOf(s) = CHOOSE e \in E : TRUE
    BY <1>2 DEF EstimateOf, FullModel, Older, Younger
  <2>2. ASSUME NEW m1, NEW m2
        PROVE  Trend(m1, m2, s[Len(s)]).regime \in {"transition", "growth", "stable", "decline"}
    BY DEF Trend, Regime
  <2>3. E = {Trend(Median2(Older(s)), Median2(Younger(s)), s[Len(s)])}
    OBVIOUS
  <2> HIDE DEF E
  <2>4. EstimateOf(s) = Trend(Median2(Older(s)), Median2(Younger(s)), s[Len(s)])
    BY <2>1, <2>3
  <2> QED
    BY <2>2, <2>4
<1>3. Len(s) \in Nat
  OBVIOUS
<1> QED
  BY <1>1, <1>2, <1>3

LEMMA DemandStarts == DemandInit => DemandInv
BY WeeklyAssumption DEF DemandInit, DemandInv

LEMMA DemandStepInv == DemandInv /\ [DemandStep]_demandVars => DemandInv'
<1> SUFFICES ASSUME DemandInv, [DemandStep]_demandVars
             PROVE  DemandInv'
  OBVIOUS
<1> USE WeeklyAssumption
<1>1. ASSUME NEW x \in WeeklySales, Sell(x)
      PROVE  DemandInv'
  <2>1. sold' = sold /\ lag' = lag /\ running' = x
        /\ estimate' = Estimate([sold |-> sold, lag |-> lag])
    BY <1>1 DEF Sell, Analyse
  <2> QED
    BY <2>1 DEF DemandInv
<1>2. ASSUME NEW l \in Lags, Monday(l)
      PROVE  DemandInv'
  <2>1. sold' = Append(sold, running) /\ lag' = l /\ running' = 0
        /\ estimate' = Estimate([sold |-> Append(sold, running), lag |-> l])
    BY SMTT(30), <1>2 DEF Monday, Analyse
  <2>2. Append(sold, running) \in Seq(WeeklySales \cup {0})
        /\ Len(Append(sold, running)) = Len(sold) + 1 /\ Len(sold) \in Nat
    BY DEF DemandInv
  <2>3. Len(sold) + 1 <= LongestHistory
    BY <1>2, <2>2 DEF Monday
  <2>4. estimate' = Estimate([sold |-> sold', lag |-> lag'])
    BY <2>1
  <2> QED
    BY <2>1, <2>2, <2>3, <2>4 DEF DemandInv
<1>3. CASE UNCHANGED demandVars
  BY <1>3 DEF demandVars, DemandInv
<1> QED
  BY <1>1, <1>2, <1>3 DEF DemandStep

\* Every estimate is that of the history it was made from
\* (analytics/demand_estimate.py).
LEMMA DemandInvariant == DemandSpec => []DemandInv
<1>1. DemandInit => DemandInv
  BY DemandStarts
<1>2. DemandInv /\ [DemandStep]_demandVars => DemandInv'
  BY DemandStepInv
<1> QED
  BY <1>1, <1>2, PTL DEF DemandSpec

LEMMA SoldType ==
    ASSUME DemandInv
    PROVE  sold \in Seq(Nat)
<1>1. sold \in Seq(WeeklySales \cup {0}) /\ WeeklySales \cup {0} \subseteq Nat
  BY WeeklyAssumption DEF DemandInv
<1>2. Len(sold) \in Nat /\ sold \in [1..Len(sold) -> WeeklySales \cup {0}]
  BY <1>1
<1>3. sold \in [1..Len(sold) -> Nat]
  BY <1>1, <1>2
<1> QED
  BY <1>2, <1>3

LEMMA DemandTypes == DemandInv => DemandTypeOK
<1> SUFFICES ASSUME DemandInv
             PROVE  DemandTypeOK
  OBVIOUS
<1> DEFINE h == [sold |-> sold, lag |-> lag]
<1>1. sold \in Seq(Nat) /\ h.sold \in Seq(Nat)
  BY SoldType
<1>2. Range(sold) \subseteq WeeklySales \cup {0}
  BY DEF DemandInv, Range
<1>3. estimate = Estimate(h)
  BY DEF DemandInv
<1>4. Series(h) \in Seq(Nat)
  BY <1>1, SeriesType
<1>5. EstimateOf(Series(h)).rate \in Nat \cup {NoRate}
  <2>1. CASE Series(h) = <<>>
    BY <2>1 DEF EstimateOf
  <2>2. CASE Series(h) # <<>>
    BY <1>4, <2>2, EstimateBounds
  <2> QED
    BY <2>1, <2>2
<1>6. EstimateOf(Series(h)).regime \in {"incomplete", "transition", "growth", "stable", "decline"}
  BY <1>4, RegimeType
<1>7. UpToDate(h) \in BOOLEAN
  BY DEF UpToDate
<1>8. /\ estimate.rate \in Nat \cup {NoRate} /\ estimate.trusted \in BOOLEAN
      /\ estimate.regime \in {"none", "incomplete", "transition", "growth", "stable", "decline"}
  <2>1. CASE Sold(h) = {}
    <3>1. estimate = [rate |-> NoRate, regime |-> "none", trusted |-> FALSE]
      BY <1>1, <1>3, <2>1, EstimateIs
    <3> QED
      BY <3>1
  <2>2. CASE Sold(h) # {}
    <3>1. estimate = [rate |-> EstimateOf(Series(h)).rate, trusted |-> UpToDate(h),
                      regime |-> IF UpToDate(h) THEN EstimateOf(Series(h)).regime ELSE "incomplete"]
      BY <1>1, <1>3, <2>2, EstimateIs
    <3> HIDE DEF h
    <3> QED
      BY <1>5, <1>6, <1>7, <3>1
  <2> QED
    BY <2>1, <2>2
<1> QED
  BY <1>2, <1>8 DEF DemandInv, DemandTypeOK

\* Type correctness of the estimates.
THEOREM DemandTypeCorrect == DemandSpec => []DemandTypeOK
BY DemandInvariant, DemandTypes, PTL

LEMMA DemandMonotone == DemandInv => RateMonotone
<1> SUFFICES ASSUME DemandInv
             PROVE  RateMonotone
  OBVIOUS
<1> DEFINE h == [sold |-> sold, lag |-> lag]
           s == Series(h)
<1>1. h.sold \in Seq(Nat) /\ estimate = Estimate(h)
  BY SoldType DEF DemandInv
<1>2. s \in Seq(Nat)
  BY <1>1, SeriesType
<1>3. SUFFICES ASSUME estimate.rate # NoRate
               PROVE  /\ Min(Made(s)) <= estimate.rate /\ estimate.rate <= Max(Made(s))
                      /\ \A q \in WeeklySales : q > s[Len(s)] =>
                           EstimateOf([s EXCEPT ![Len(s)] = q]).rate >= estimate.rate
  BY DEF RateMonotone, Made
<1>4. Sold(h) # {}
  <2> HIDE DEF h
  <2> QED
    BY <1>1, <1>3, EstimateIs
<1>5. estimate.rate = EstimateOf(s).rate
  BY <1>1, <1>4, EstimateIs
<1>6. s # <<>>
  <2> HIDE DEF s, h
  <2> QED
    BY <1>3, <1>5 DEF EstimateOf
<1> HIDE DEF s, h
<1>7. Min(Made(s)) <= estimate.rate /\ estimate.rate <= Max(Made(s))
  BY <1>2, <1>5, <1>6, EstimateBounds
<1>8. \A q \in WeeklySales : q > s[Len(s)] =>
          EstimateOf([s EXCEPT ![Len(s)] = q]).rate >= estimate.rate
  BY <1>2, <1>5, <1>6, EstimateMonotone, WeeklyAssumption
<1> QED
  BY <1>7, <1>8

\* For every history: a larger last week never lowers the rate, whatever it does
\* to the medians, the regime and the confirmation of the trend, and the rate
\* stays within the weeks it was made from (analytics/demand_estimate.py).
THEOREM RateIsMonotone == DemandSpec => []RateMonotone
BY DemandInvariant, DemandMonotone, PTL

-----------------------------------------------------------------------------
(* StockoutEpisodes.  Candidates are merged in a total order, so that the  *)
(* groups cover all of them and lie a day apart; a window depends on the   *)
(* orders alone, and a later analysis has all completed windows of an      *)
(* earlier one.                                                            *)

\* Candidates of episodes: distinct ends, and days that are affected.
Mergeable(C) ==
    /\ IsFiniteSet(C)
    /\ \A c \in C : /\ c.ends \in Nat /\ c.affected \subseteq Nat
                    /\ IsFiniteSet(c.affected) /\ c.affected # {}
    /\ \A c, d \in C : c.ends = d.ends => c = d

LEMMA DaysOf ==
    ASSUME NEW C, Mergeable(C), NEW c \in C
    PROVE  /\ c.ends \in Nat
           /\ Min(c.affected) \in c.affected /\ Min(c.affected) \in Nat
           /\ Max(c.affected) \in c.affected /\ Max(c.affected) \in Nat
           /\ \A d \in c.affected : Min(c.affected) <= d /\ d <= Max(c.affected)
<1>1. c.ends \in Nat /\ c.affected \subseteq Nat /\ IsFiniteSet(c.affected) /\ c.affected # {}
  BY DEF Mergeable
<1> DEFINE D == c.affected
<1> HIDE DEF D
<1>2. D \subseteq Nat /\ IsFiniteSet(D) /\ D # {}
  BY <1>1 DEF D
<1>3. /\ Min(D) \in D /\ \A d \in D : Min(D) <= d
      /\ Max(D) \in D /\ \A d \in D : Max(D) >= d
  BY <1>2, LeastNatural, GreatestNatural
<1> QED
  BY <1>1, <1>2, <1>3 DEF D

\* The order of merging is a total order of the candidates.
LEMMA AheadIsOrder ==
    ASSUME NEW C, Mergeable(C), NEW c \in C, NEW d \in C
    PROVE  /\ Ahead(c, d) => Min(c.affected) <= Min(d.affected) /\ ~Ahead(d, c) /\ c # d
           /\ c # d => Ahead(c, d) \/ Ahead(d, c)
           /\ \A e \in C : Ahead(c, d) /\ Ahead(d, e) => Ahead(c, e)
<1>1. \A x \in C : x.ends \in Nat /\ Min(x.affected) \in Nat
  BY DaysOf
<1>2. c.ends = d.ends => c = d
  BY DEF Mergeable
<1> QED
  BY <1>1, <1>2 DEF Ahead

\* Of some candidates one is merged first, and one last.
LEMMA FirstAndLast ==
    ASSUME NEW C, Mergeable(C), NEW S, S \subseteq C, S # {}
    PROVE  /\ \E c \in S : \A d \in S \ {c} : Ahead(c, d)
           /\ \E c \in S : \A d \in S \ {c} : Ahead(d, c)
<1>1. IsFiniteSet(S)
  BY FS_Subset DEF Mergeable
<1> DEFINE R == {p \in S \X S : p[1] = p[2] \/ Ahead(p[1], p[2])}
           Q == {p \in S \X S : p[1] = p[2] \/ Ahead(p[2], p[1])}
<1>2. \A x, y \in S : x = y \/ Ahead(x, y) \/ Ahead(y, x)
  BY AheadIsOrder
<1>3. \A x, y, z \in S : Ahead(x, y) /\ Ahead(y, z) => Ahead(x, z)
  BY AheadIsOrder
<1>4. /\ \A x, y \in S : <<x, y>> \in R \/ <<y, x>> \in R
      /\ \A x, y, z \in S : <<x, y>> \in R /\ <<y, z>> \in R => <<x, z>> \in R
  BY <1>2, <1>3
<1>5. /\ \A x, y \in S : <<x, y>> \in Q \/ <<y, x>> \in Q
      /\ \A x, y, z \in S : <<x, y>> \in Q /\ <<y, z>> \in Q => <<x, z>> \in Q
  BY <1>2, <1>3
<1>6. PICK c \in S : \A d \in S : <<c, d>> \in R
  <2> HIDE DEF R
  <2> QED
    BY <1>1, <1>4, FirstElement
<1>7. PICK d \in S : \A e \in S : <<d, e>> \in Q
  <2> HIDE DEF Q
  <2> QED
    BY <1>1, <1>5, FirstElement
<1>8. \A e \in S \ {c} : Ahead(c, e)
  BY <1>6
<1>9. \A e \in S \ {d} : Ahead(e, d)
  BY <1>7
<1> QED
  BY <1>8, <1>9

\* Every candidate is merged into a group, and groups hold candidates only.
LEMMA GroupsCover ==
    ASSUME NEW C, Mergeable(C)
    PROVE  /\ \A g \in Groups(C) : g \subseteq C /\ g # {}
           /\ UNION Groups(C) = C
<1>1. \A g \in Groups(C) : g \subseteq C /\ g # {}
  BY DEF Groups, GroupOf
<1>2. ASSUME NEW c \in C
      PROVE  \E g \in Groups(C) : c \in g
  <2> DEFINE upto == {d \in C : Ahead(d, c)} \cup {c}
             openers == {d \in upto : Opens(d, C)}
  <2>1. upto \subseteq C /\ upto # {}
    OBVIOUS
  <2>2. PICK f \in upto : \A d \in upto \ {f} : Ahead(f, d)
    <3> HIDE DEF upto
    <3> QED
      BY <2>1, FirstAndLast
  <2>3. {d \in C : Ahead(d, f)} = {}
    <3> SUFFICES ASSUME NEW d \in C, Ahead(d, f)
                 PROVE  FALSE
      OBVIOUS
    <3>1. f \in C /\ ~Ahead(f, d) /\ d # f
      BY <2>1, AheadIsOrder
    <3>2. d \notin upto
      BY <2>2, <3>1
    <3>3. f # c => Ahead(f, c)
      BY <2>2
    <3>4. Ahead(d, c)
      BY <3>1, <3>3, AheadIsOrder
    <3> QED
      BY <3>2, <3>4
  <2>4. Opens(f, C)
    BY <2>3 DEF Opens
  <2>5. openers # {} /\ openers \subseteq C
    BY <2>1, <2>2, <2>4
  <2>6. PICK o \in openers : \A d \in openers \ {o} : Ahead(d, o)
    <3> HIDE DEF openers
    <3> QED
      BY <2>5, FirstAndLast
  <2>7. o \in C /\ Opens(o, C) /\ (o = c \/ Ahead(o, c))
    BY <2>1
  <2>8. ASSUME NEW e \in C, Opens(e, C), Ahead(o, e), o # c
        PROVE  Ahead(c, e)
    <3>1. e \notin openers
      BY <2>6, <2>7, <2>8, AheadIsOrder
    <3>2. e # c /\ ~Ahead(e, c)
      BY <2>8, <3>1
    <3> QED
      BY <3>2, AheadIsOrder
  <2>9. c \in GroupOf(o, C)
    BY <2>7, <2>8 DEF GroupOf
  <2> QED
    BY <2>7, <2>9 DEF Groups
<1> QED
  BY <1>1, <1>2

\* The affected days of a group are finitely many naturals.
LEMMA GroupDays ==
    ASSUME NEW C, Mergeable(C), NEW g, g \subseteq C, g # {}
    PROVE  AffectedBy(g) \subseteq Nat /\ IsFiniteSet(AffectedBy(g)) /\ AffectedBy(g) # {}
<1>1. IsFiniteSet(g)
  BY FS_Subset DEF Mergeable
<1> DEFINE D == [c \in g |-> c.affected]
           days == {D[c] : c \in g}
<1>2. IsFiniteSet(days)
  BY <1>1, ImageIsFinite
<1>3. \A d \in days : IsFiniteSet(d) /\ d \subseteq Nat /\ d # {}
  BY DEF Mergeable
<1>4. AffectedBy(g) = UNION days
  BY DEF AffectedBy
<1>5. days # {}
  OBVIOUS
<1> HIDE DEF days
<1>6. IsFiniteSet(UNION days)
  BY <1>2, <1>3, FS_UNION
<1> QED
  BY <1>3, <1>4, <1>5, <1>6

\* Two groups are at least a day apart.
LEMMA GroupsApart ==
    ASSUME NEW C, Mergeable(C), NEW a \in C, Opens(a, C), NEW b \in C, Opens(b, C), Ahead(a, b)
    PROVE  Max(AffectedBy(GroupOf(a, C))) + 1 < Min(AffectedBy(GroupOf(b, C)))
<1> DEFINE g == GroupOf(a, C)
           h == GroupOf(b, C)
<1>1. g \subseteq C /\ h \subseteq C /\ a \in g /\ b \in h
  BY DEF GroupOf
<1>2. \A c \in g : Ahead(c, b)
  BY DEF GroupOf
<1>3. \A c \in h : Min(c.affected) >= Min(b.affected)
  <2>1. Min(b.affected) \in Nat
    BY DaysOf
  <2> QED
    BY <2>1, AheadIsOrder, DaysOf DEF GroupOf
<1> HIDE DEF g, h
<1>4. \A c \in g : Max(c.affected) + 1 < Min(b.affected)
  BY <1>1, <1>2 DEF Opens
<1>5. AffectedBy(g) \subseteq Nat /\ IsFiniteSet(AffectedBy(g)) /\ AffectedBy(g) # {}
  BY <1>1, GroupDays
<1>6. AffectedBy(h) \subseteq Nat /\ IsFiniteSet(AffectedBy(h)) /\ AffectedBy(h) # {}
  BY <1>1, GroupDays
<1>7. Max(AffectedBy(g)) \in AffectedBy(g) /\ Min(AffectedBy(h)) \in AffectedBy(h)
  BY <1>5, <1>6, LeastNatural, GreatestNatural
<1>8. PICK c \in g : Max(AffectedBy(g)) \in c.affected
  BY <1>7 DEF AffectedBy
<1>9. PICK d \in h : Min(AffectedBy(h)) \in d.affected
  BY <1>7 DEF AffectedBy
<1>10. Max(AffectedBy(g)) <= Max(c.affected) /\ Max(c.affected) \in Nat
  BY <1>1, <1>8, DaysOf
<1>11. Min(d.affected) <= Min(AffectedBy(h)) /\ Min(d.affected) \in Nat
  BY <1>1, <1>9, DaysOf
<1>12. Min(b.affected) \in Nat /\ Min(d.affected) >= Min(b.affected)
  BY <1>3, DaysOf
<1>13. Max(AffectedBy(g)) \in Nat /\ Min(AffectedBy(h)) \in Nat
  BY <1>5, <1>6, <1>7
<1> QED
  BY <1>4, <1>10, <1>11, <1>12, <1>13 DEF g, h

-----------------------------------------------------------------------------
(* What an analysis finds.                                                 *)

SeriesFact(t) ==
    /\ SeriesStart(t) \in 1..(asOf + 1)
    /\ \A x \in orders : x.to = t /\ Demand(x) /\ x.day \in 1..asOf => SeriesStart(t) <= x.day
    /\ SeriesStart(t) <= asOf =>
         \E x \in orders : x.to = t /\ Demand(x) /\ x.day \in 1..asOf /\ SeriesStart(t) = x.day

SeriesFacts == asOf \in Nat => \A t : SeriesFact(t)

LEMMA SeriesStartIs == SeriesFacts
<1> SUFFICES ASSUME asOf \in Nat, NEW t
             PROVE  SeriesFact(t)
  BY DEF SeriesFacts
<1> DEFINE S == {x.day : x \in {y \in orders : y.to = t /\ Demand(y) /\ y.day \in 1..asOf}}
                \cup {asOf + 1}
<1>1. S \subseteq 1..(asOf + 1) /\ S # {}
  OBVIOUS
<1>2. SeriesStart(t) = Min(S)
  BY DEF SeriesStart
<1>3. Min(S) \in S /\ \A y \in S : Min(S) <= y
  <2>1. S \subseteq Nat
    BY <1>1
  <2> HIDE DEF S
  <2> QED
    BY <1>1, <2>1, LeastNatural
<1>4. SeriesStart(t) <= asOf => SeriesStart(t) # asOf + 1
  BY <1>1, <1>2, <1>3
<1> QED
  BY <1>1, <1>2, <1>3, <1>4 DEF SeriesFact

\* The ends of windows of a scope, and their candidates.
EndsOf(t, scope) == {e \in Ends(t) : EpisodeScope(e) = scope}

LEMMA CandidatesAre ==
    ASSUME NEW t, NEW scope
    PROVE  EpisodeCandidates(t, scope)
             = {c \in {EpisodeCandidate(t, e) : e \in EndsOf(t, scope)} :
                  Cardinality(c.affected) >= MinAffected}
BY DEF EpisodeCandidates, EndsOf

LEMMA EndsType ==
    ASSUME asOf \in Nat, NEW t, NEW scope
    PROVE  /\ IsFiniteSet(EndsOf(t, scope))
           /\ \A e \in EndsOf(t, scope) : /\ e \in 1..asOf /\ e - Window + 1 >= 1
                                          /\ SeriesStart(t) + 2 * Window - 1 <= e
<1>1. SeriesStart(t) \in 1..(asOf + 1) /\ Window \in Nat \ {0}
  BY SeriesStartIs, WindowAssumption DEF SeriesFacts, SeriesFact
<1>2. \A e \in Ends(t) : /\ e \in 1..asOf /\ e - Window + 1 >= 1
                         /\ SeriesStart(t) + 2 * Window - 1 <= e
  BY <1>1 DEF Ends
<1>3. IsFiniteSet(1..asOf)
  BY FS_Interval
<1>4. EndsOf(t, scope) \subseteq 1..asOf
  BY <1>2 DEF EndsOf
<1> QED
  BY <1>2, <1>3, <1>4, FS_Subset DEF EndsOf

LEMMA CandidateType ==
    ASSUME asOf \in Nat, NEW t, NEW scope, NEW e \in EndsOf(t, scope)
    PROVE  LET c == EpisodeCandidate(t, e)
           IN /\ c.ends = e /\ c.affected \subseteq 1..asOf /\ IsFiniteSet(c.affected)
              /\ c.donors \subseteq Regions \ {t}
<1> DEFINE O == (e - Window + 1)..e
<1>1. O \subseteq 1..asOf /\ IsFiniteSet(1..asOf)
  <2>1. e \in 1..asOf /\ e - Window + 1 >= 1 /\ Window \in Nat
    BY EndsType, WindowAssumption
  <2>2. IsFiniteSet(1..asOf)
    BY FS_Interval
  <2> QED
    BY <2>1, <2>2
<1>2. EpisodeCandidate(t, e).affected \subseteq O
  BY DEF EpisodeCandidate
<1>3. /\ EpisodeCandidate(t, e).ends = e
      /\ EpisodeCandidate(t, e).donors \subseteq Regions \ {t}
  BY DEF EpisodeCandidate, Donors
<1> HIDE DEF O
<1> QED
  BY <1>1, <1>2, <1>3, FS_Subset

LEMMA CandidatesMergeable ==
    ASSUME asOf \in Nat, NEW t, NEW scope
    PROVE  /\ Mergeable(EpisodeCandidates(t, scope))
           /\ \A c \in EpisodeCandidates(t, scope) :
                /\ c.affected \subseteq 1..asOf /\ c.donors \subseteq Regions \ {t}
                /\ Cardinality(c.affected) >= MinAffected
<1> DEFINE C == EpisodeCandidates(t, scope)
           f == [e \in EndsOf(t, scope) |-> EpisodeCandidate(t, e)]
           all == {f[e] : e \in EndsOf(t, scope)}
<1>1. \A c \in C : c \in all /\ Cardinality(c.affected) >= MinAffected
  BY CandidatesAre
<1>2. IsFiniteSet(all)
  BY EndsType, ImageIsFinite
<1>3. \A c \in all : c.ends \in EndsOf(t, scope) /\ c = f[c.ends]
  BY CandidateType
<1>4. \A c \in all : /\ c.affected \subseteq 1..asOf /\ IsFiniteSet(c.affected)
                     /\ c.donors \subseteq Regions \ {t} /\ c.ends \in Nat
  BY CandidateType, EndsType
<1> HIDE DEF all, C, f
<1>5. IsFiniteSet(C)
  BY <1>1, <1>2, FS_Subset
<1>6. \A c \in C : c.affected # {}
  BY <1>1, FS_EmptySet, WindowAssumption
<1>7. \A c, d \in C : c.ends = d.ends => c = d
  BY <1>1, <1>3
<1>8. \A c \in C : c.affected \subseteq Nat
  BY <1>1, <1>4
<1>9. Mergeable(C)
  BY <1>1, <1>4, <1>5, <1>6, <1>7, <1>8 DEF Mergeable
<1> QED
  BY <1>1, <1>4, <1>9 DEF C

\* The groups a reported episode comes from.
LEMMA EpisodeFrom ==
    ASSUME NEW e \in Episodes
    PROVE  \E t \in Regions, s \in {"historical", "operational"} :
             /\ e \in EpisodesOf(t, s, EpisodeCandidates(t, s))
             /\ \E g \in Groups(EpisodeCandidates(t, s)) :
                  e = [place |-> t, scope |-> s, affected |-> AffectedBy(g),
                       donors |-> UNION {c.donors : c \in g}]
<1>1. PICK t \in Regions, s \in {"historical", "operational"} :
         e \in UNION {EpisodesOf(t, s, C) : C \in {EpisodeCandidates(t, s)}}
  BY DEF Episodes
<1>2. e \in EpisodesOf(t, s, EpisodeCandidates(t, s))
  BY <1>1
<1> QED
  BY <1>2 DEF EpisodesOf

\* Which episodes are reported, and their place and scope.
EpisodeFacts ==
    /\ \A e : e \in Episodes => \E t \in Regions, s \in {"historical", "operational"} :
                                 e \in EpisodesOf(t, s, EpisodeCandidates(t, s))
    /\ \A t \in Regions : EpisodesOf(t, "historical", EpisodeCandidates(t, "historical")) \subseteq Episodes

LEMMA EpisodesAre == EpisodeFacts
<1>1. \A e : e \in Episodes => \E t \in Regions, s \in {"historical", "operational"} :
                                 e \in EpisodesOf(t, s, EpisodeCandidates(t, s))
  <2> SUFFICES ASSUME NEW e \in Episodes
               PROVE  \E t \in Regions, s \in {"historical", "operational"} :
                        e \in EpisodesOf(t, s, EpisodeCandidates(t, s))
    OBVIOUS
  <2> QED
    BY EpisodeFrom
<1>2. ASSUME NEW t \in Regions
      PROVE  EpisodesOf(t, "historical", EpisodeCandidates(t, "historical")) \subseteq Episodes
  <2> DEFINE E == EpisodesOf(t, "historical", EpisodeCandidates(t, "historical"))
             U(p, s) == UNION {EpisodesOf(p, s, C) : C \in {EpisodeCandidates(p, s)}}
  <2>1. U(t, "historical") = E
    OBVIOUS
  <2>2. Episodes = UNION {U(p, s) : p \in Regions, s \in {"historical", "operational"}}
    BY DEF Episodes
  <2>3. U(t, "historical") \in {U(p, s) : p \in Regions, s \in {"historical", "operational"}}
    <3> HIDE DEF U
    <3> QED
      OBVIOUS
  <2> HIDE DEF U, E
  <2> QED
    BY <2>1, <2>2, <2>3 DEF E
<1> QED
  BY <1>1, <1>2 DEF EpisodeFacts

LEMMA EpisodeMarks ==
    ASSUME NEW t, NEW s, NEW C, NEW e \in EpisodesOf(t, s, C)
    PROVE  e.place = t /\ e.scope = s
BY DEF EpisodesOf

\* The historical episodes of a place come from its historical windows.
LEMMA HistoricalAre ==
    ASSUME NEW t \in Regions, NEW e
    PROVE  e \in Episodes /\ e.place = t /\ e.scope = "historical"
             <=> e \in EpisodesOf(t, "historical", EpisodeCandidates(t, "historical"))
<1>1. ASSUME e \in Episodes, e.place = t, e.scope = "historical"
      PROVE  e \in EpisodesOf(t, "historical", EpisodeCandidates(t, "historical"))
  <2>1. PICK p \in Regions, s \in {"historical", "operational"} :
           e \in EpisodesOf(p, s, EpisodeCandidates(p, s))
    BY <1>1, EpisodesAre DEF EpisodeFacts
  <2>2. p = t /\ s = "historical"
    BY <1>1, <2>1, EpisodeMarks
  <2> QED
    BY <2>1, <2>2
<1>2. ASSUME e \in EpisodesOf(t, "historical", EpisodeCandidates(t, "historical"))
      PROVE  e \in Episodes /\ e.place = t /\ e.scope = "historical"
  BY <1>2, EpisodesAre, EpisodeMarks DEF EpisodeFacts
<1> QED
  BY <1>1, <1>2

LEMMA EpisodeTyped ==
    ASSUME asOf \in Nat, NEW e \in Episodes
    PROVE  /\ e.place \in Regions /\ e.donors \subseteq Regions \ {e.place}
           /\ e.affected \subseteq 1..asOf /\ e.scope \in {"historical", "operational"}
           /\ Cardinality(e.affected) >= MinAffected
<1>1. PICK t \in Regions, s \in {"historical", "operational"} :
         \E g \in Groups(EpisodeCandidates(t, s)) :
            e = [place |-> t, scope |-> s, affected |-> AffectedBy(g),
                 donors |-> UNION {c.donors : c \in g}]
  BY EpisodeFrom
<1> DEFINE C == EpisodeCandidates(t, s)
<1>2. PICK g \in Groups(C) : e = [place |-> t, scope |-> s, affected |-> AffectedBy(g),
                                  donors |-> UNION {c.donors : c \in g}]
  BY <1>1
<1>3. Mergeable(C) /\ \A c \in C : /\ c.affected \subseteq 1..asOf
                                   /\ c.donors \subseteq Regions \ {t}
                                   /\ Cardinality(c.affected) >= MinAffected
  BY CandidatesMergeable
<1> HIDE DEF C
<1>4. g \subseteq C /\ g # {}
  BY <1>3, GroupsCover
<1>5. AffectedBy(g) \subseteq 1..asOf
  BY <1>3, <1>4 DEF AffectedBy
<1>6. Cardinality(AffectedBy(g)) >= MinAffected
  <2>1. PICK c \in g : TRUE
    BY <1>4
  <2>2. c.affected \subseteq AffectedBy(g) /\ IsFiniteSet(AffectedBy(g))
    BY <1>3, <1>4, GroupDays DEF AffectedBy
  <2>3. Cardinality(c.affected) <= Cardinality(AffectedBy(g)) /\ IsFiniteSet(c.affected)
    BY <2>2, FS_Subset
  <2>4. Cardinality(AffectedBy(g)) \in Nat /\ Cardinality(c.affected) \in Nat
    BY <2>2, <2>3, FS_CardinalityType
  <2> QED
    BY <1>3, <1>4, <2>3, <2>4, WindowAssumption
<1> QED
  BY <1>1, <1>2, <1>3, <1>4, <1>5, <1>6

LEMMA EpisodesStandApart ==
    ASSUME asOf \in Nat, NEW e \in Episodes, NEW f \in Episodes,
           e # f, e.place = f.place, e.scope = f.scope
    PROVE  \/ Max(e.affected) + 1 < Min(f.affected)
           \/ Max(f.affected) + 1 < Min(e.affected)
<1> DEFINE C == EpisodeCandidates(e.place, e.scope)
<1>1. PICK g \in Groups(C) : e.affected = AffectedBy(g) /\ e.donors = UNION {c.donors : c \in g}
        /\ e = [place |-> e.place, scope |-> e.scope, affected |-> AffectedBy(g),
                donors |-> UNION {c.donors : c \in g}]
  BY EpisodeFrom
<1>2. PICK h \in Groups(C) : f.affected = AffectedBy(h) /\ f.donors = UNION {c.donors : c \in h}
        /\ f = [place |-> e.place, scope |-> e.scope, affected |-> AffectedBy(h),
                donors |-> UNION {c.donors : c \in h}]
  BY EpisodeFrom
<1>3. Mergeable(C)
  BY CandidatesMergeable
<1> HIDE DEF C
<1>4. PICK a \in C : Opens(a, C) /\ g = GroupOf(a, C)
  BY DEF Groups
<1>5. PICK b \in C : Opens(b, C) /\ h = GroupOf(b, C)
  BY DEF Groups
<1>6. a # b
  BY <1>1, <1>2, <1>4, <1>5
<1>7. Ahead(a, b) \/ Ahead(b, a)
  BY <1>3, <1>6, AheadIsOrder
<1> QED
  BY <1>1, <1>2, <1>3, <1>4, <1>5, <1>7, GroupsApart

-----------------------------------------------------------------------------
(* One analysis and the next.                                              *)

\* What a window shows depends on the orders alone.
LEMMA SameWindows ==
    ASSUME UNCHANGED orders
    PROVE  /\ \A o, t, D : DeliveredIn(o, t, D)' = DeliveredIn(o, t, D)
           /\ \A t, B, O : Donors(t, B, O)' = Donors(t, B, O)
           /\ \A t, B, O, n : Shifted(t, B, O, n)' <=> Shifted(t, B, O, n)
           /\ \A t, e : EpisodeCandidate(t, e)' = EpisodeCandidate(t, e)
<1>1. /\ \A o, t, D : DeliveredIn(o, t, D)' = DeliveredIn(o, t, D)
      /\ \A t, D : WantedIn(t, D)' = WantedIn(t, D)
      /\ \A t, D : FulfilledIn(t, D)' = FulfilledIn(t, D)
  BY DEF DeliveredIn, WantedIn, FulfilledIn
<1>2. \A o, t, B, O : Risen(o, t, B, O)' <=> Risen(o, t, B, O)
  BY <1>1 DEF Risen
<1>3. \A t, B, O : Donors(t, B, O)' = Donors(t, B, O)
  BY <1>2 DEF Donors
<1>4. \A t, B, O, n : Shifted(t, B, O, n)' <=> Shifted(t, B, O, n)
  BY <1>1, <1>3 DEF Shifted
<1>5. \A t, B, d : Contaminated(t, B, d)' <=> Contaminated(t, B, d)
  BY <1>1, <1>2 DEF Contaminated
<1>6. \A t, e : EpisodeCandidate(t, e)' = EpisodeCandidate(t, e)
  BY <1>3, <1>4, <1>5 DEF EpisodeCandidate
<1> QED
  BY <1>1, <1>3, <1>4, <1>6

\* A later analysis has all completed windows of an earlier one, and in the same
\* week it has no other.
LEMMA EndsGrow ==
    ASSUME asOf \in Nat, asOf' \in Nat, asOf <= asOf', UNCHANGED orders, NEW t
    PROVE  /\ EndsOf(t, "historical") \subseteq EndsOf(t, "historical")'
           /\ 0 < asOf /\ WeekOf(asOf') = WeekOf(asOf) =>
                EndsOf(t, "historical")' = EndsOf(t, "historical")
<1> DEFINE H == EndsOf(t, "historical")
           start == SeriesStart(t)
<1>0. Window \in Nat \ {0}
  BY WindowAssumption
<1>a. SeriesFact(t) /\ SeriesFact(t)'
  <2>1. SeriesFacts'
    BY SeriesStartIs, PTL
  <2> QED
    BY <2>1, SeriesStartIs DEF SeriesFacts
<1>1. /\ start \in 1..(asOf + 1) /\ start' \in 1..(asOf' + 1)
      /\ start <= asOf => start' <= start
  <2> HIDE DEF start
  <2> QED
    BY <1>a DEF start, SeriesFact
<1>2. start' <= asOf => start <= start'
  BY <1>a DEF SeriesFact
<1>3. \A e : /\ e \in H <=> /\ e \in (start + 2 * Window - 1)..asOf
                            /\ e <= 7 * WeekOf(asOf)
             /\ e \in H' <=> /\ e \in (start' + 2 * Window - 1)..asOf'
                             /\ e <= 7 * WeekOf(asOf')
  BY DEF EndsOf, Ends, EpisodeScope, LastSunday
<1>4. /\ WeekOf(asOf) \in Int /\ WeekOf(asOf') \in Int
      /\ WeekOf(asOf) <= WeekOf(asOf') /\ 7 * WeekOf(asOf) < asOf + 1
      /\ 0 < asOf => 7 * WeekOf(asOf) < asOf
  BY DEF WeekOf
<1> HIDE DEF H, start
<1>5. ASSUME NEW e \in H
      PROVE  e \in H'
  BY <1>0, <1>1, <1>3, <1>4, <1>5
<1>6. ASSUME 0 < asOf, WeekOf(asOf') = WeekOf(asOf), NEW e \in H'
      PROVE  e \in H
  <2>1. /\ e \in Int /\ start' + 2 * Window - 1 <= e /\ e <= 7 * WeekOf(asOf)
    BY <1>0, <1>1, <1>3, <1>6
  <2>2. start' <= asOf
    <3>0. PICK w \in Int : w = WeekOf(asOf)
      BY <1>4
    <3>1. e < asOf
      <4>1. w \in Int /\ 7 * w < asOf /\ e <= 7 * w /\ e \in Int
        BY <1>4, <1>6, <2>1, <3>0
      <4> QED
        BY <4>1
    <3>2. PICK n \in Nat : n = start'
      BY <1>1
    <3>3. n + 2 * Window - 1 <= e /\ e \in Int
      BY <2>1, <3>2
    <3>4. n <= asOf
      BY <1>0, <3>1, <3>3
    <3> QED
      BY <3>2, <3>4
  <2> QED
    BY <1>0, <1>1, <1>2, <1>3, <1>4, <1>6, <2>1, <2>2
<1> QED
  BY <1>5, <1>6 DEF H

LEMMA CandidatesGrow ==
    ASSUME asOf \in Nat, asOf' \in Nat, asOf <= asOf', UNCHANGED orders, NEW t
    PROVE  /\ EpisodeCandidates(t, "historical") \subseteq EpisodeCandidates(t, "historical")'
           /\ 0 < asOf /\ WeekOf(asOf') = WeekOf(asOf) =>
                EpisodeCandidates(t, "historical")' = EpisodeCandidates(t, "historical")
<1>1. EpisodeCandidates(t, "historical")'
         = {c \in {EpisodeCandidate(t, e) : e \in EndsOf(t, "historical")'} :
              Cardinality(c.affected) >= MinAffected}
  <2>1. EpisodeCandidates(t, "historical")'
         = {c \in {EpisodeCandidate(t, e)' : e \in EndsOf(t, "historical")'} :
              Cardinality(c.affected) >= MinAffected}
    BY DEF EpisodeCandidates, EndsOf
  <2> QED
    BY <2>1, SameWindows
<1>2. EpisodeCandidates(t, "historical")
         = {c \in {EpisodeCandidate(t, e) : e \in EndsOf(t, "historical")} :
              Cardinality(c.affected) >= MinAffected}
  BY CandidatesAre
<1>3. /\ EndsOf(t, "historical") \subseteq EndsOf(t, "historical")'
      /\ 0 < asOf /\ WeekOf(asOf') = WeekOf(asOf) =>
                EndsOf(t, "historical")' = EndsOf(t, "historical")
  BY EndsGrow
<1> QED
  BY <1>1, <1>2, <1>3

\* What is historical, signalled and clean in one week stays so in the week.
LEMMA SameWeek ==
    ASSUME asOf \in Nat \ {0}, asOf' \in Nat, asOf <= asOf', UNCHANGED orders,
           WeekOf(asOf') = WeekOf(asOf)
    PROVE  /\ {e \in Episodes' : e.scope = "historical"} = {e \in Episodes : e.scope = "historical"}
           /\ Signals' = Signals /\ Distorted' = Distorted
           /\ CleanRoutes(Episodes)' = CleanRoutes(Episodes)
<1>1. \A t : EpisodeCandidates(t, "historical")' = EpisodeCandidates(t, "historical")
  BY CandidatesGrow
<1>2. ASSUME NEW e, e.scope = "historical"
      PROVE  e \in Episodes' <=> e \in Episodes
  <2>1. EpisodeFacts /\ EpisodeFacts'
    <3>1. EpisodeFacts'
      BY EpisodesAre, PTL
    <3> QED
      BY <3>1, EpisodesAre
  <2>2. ASSUME e \in Episodes
        PROVE  e \in Episodes'
    <3>1. PICK t \in Regions, s \in {"historical", "operational"} :
             e \in EpisodesOf(t, s, EpisodeCandidates(t, s))
      BY <2>1, <2>2 DEF EpisodeFacts
    <3>2. s = "historical"
      BY <1>2, <3>1, EpisodeMarks
    <3>3. e \in EpisodesOf(t, "historical", EpisodeCandidates(t, "historical")')
      BY <1>1, <3>1, <3>2
    <3>4. EpisodesOf(t, "historical", EpisodeCandidates(t, "historical")') \subseteq Episodes'
      BY <2>1 DEF EpisodeFacts
    <3> QED
      BY <3>3, <3>4
  <2>3. ASSUME e \in Episodes'
        PROVE  e \in Episodes
    <3>1. PICK t \in Regions, s \in {"historical", "operational"} :
             e \in EpisodesOf(t, s, EpisodeCandidates(t, s)')
      BY <2>1, <2>3 DEF EpisodeFacts
    <3>2. s = "historical"
      BY <1>2, <3>1, EpisodeMarks
    <3> QED
      BY <1>1, <2>1, <3>1, <3>2 DEF EpisodeFacts
  <2> QED
    BY <2>2, <2>3
<1>4. {e \in Episodes' : e.scope = "historical"} = {e \in Episodes : e.scope = "historical"}
  BY <1>2
<1>5. \A t : WeeksShifted(t)' = WeeksShifted(t)
  BY SameWindows DEF WeeksShifted
<1>6. Signals' = Signals
  BY <1>5, SameWindows DEF Signals
<1>7. Distorted' = Distorted
  BY <1>6, SameWindows DEF Distorted
<1>8. \A t : Cleaned(Episodes', t) = Cleaned(Episodes, t)
  BY <1>4 DEF Cleaned
<1>9. LastSunday' = LastSunday
  BY DEF LastSunday
<1>10. CleanRoutes(Episodes)' = CleanRoutes(Episodes)
  BY <1>8, <1>9, SameWindows DEF CleanRoutes
<1> QED
  BY <1>4, <1>6, <1>7, <1>10

\* The days that are cleaned are those of all candidates.
LEMMA CleanedIs ==
    ASSUME asOf \in Nat, NEW t \in Regions
    PROVE  Cleaned(Episodes, t) = UNION {c.affected : c \in EpisodeCandidates(t, "historical")}
<1> DEFINE C == EpisodeCandidates(t, "historical")
<1>1. Mergeable(C)
  BY CandidatesMergeable
<1>2. \A e : e \in Episodes /\ e.place = t /\ e.scope = "historical"
               <=> e \in EpisodesOf(t, "historical", C)
  <2> TAKE e
  <2> QED
    BY HistoricalAre
<1> HIDE DEF C
<1>3. Cleaned(Episodes, t) = UNION {AffectedBy(g) : g \in Groups(C)}
  <2>1. Cleaned(Episodes, t) = UNION {e.affected : e \in EpisodesOf(t, "historical", C)}
    BY <1>2 DEF Cleaned
  <2>2. ASSUME NEW g \in Groups(C)
        PROVE  \E e \in EpisodesOf(t, "historical", C) : e.affected = AffectedBy(g)
    <3> DEFINE e == [place |-> t, scope |-> "historical", affected |-> AffectedBy(g),
                     donors |-> UNION {c.donors : c \in g}]
    <3>1. e \in EpisodesOf(t, "historical", C)
      BY DEF EpisodesOf
    <3>2. e.affected = AffectedBy(g)
      OBVIOUS
    <3> HIDE DEF e
    <3> QED
      BY <3>1, <3>2
  <2>3. \A e \in EpisodesOf(t, "historical", C) : \E g \in Groups(C) : e.affected = AffectedBy(g)
    BY DEF EpisodesOf
  <2> DEFINE E == EpisodesOf(t, "historical", C)
             shown == UNION {e.affected : e \in E}
             found == UNION {AffectedBy(g) : g \in Groups(C)}
  <2>4. \A d \in shown : d \in found
    <3> SUFFICES ASSUME NEW e \in E, NEW d \in e.affected
                 PROVE  d \in found
      OBVIOUS
    <3> QED
      BY <2>3
  <2>5. \A d \in found : d \in shown
    <3> SUFFICES ASSUME NEW g \in Groups(C), NEW d \in AffectedBy(g)
                 PROVE  d \in shown
      OBVIOUS
    <3> QED
      BY <2>2
  <2>6. shown = found
    <3> HIDE DEF shown, found
    <3> QED
      BY <2>4, <2>5
  <2> QED
    BY <2>1, <2>6
<1>4. UNION Groups(C) = C
  BY <1>1, GroupsCover
<1>5. UNION {AffectedBy(g) : g \in Groups(C)} = UNION {c.affected : c \in C}
  BY <1>4 DEF AffectedBy
<1> QED
  BY <1>3, <1>5 DEF C

CleanedFacts == asOf \in Nat => \A t \in Regions :
    Cleaned(Episodes, t) = UNION {c.affected : c \in EpisodeCandidates(t, "historical")}

LEMMA AllCleaned == CleanedFacts
BY CleanedIs DEF CleanedFacts

LEMMA CleanedStays ==
    ASSUME asOf \in Nat, asOf' \in Nat, asOf <= asOf', UNCHANGED orders, NEW t \in Regions
    PROVE  Cleaned(Episodes, t) \subseteq Cleaned(Episodes', t)
<1>1. CleanedFacts /\ CleanedFacts'
  <2>1. CleanedFacts'
    BY AllCleaned, PTL
  <2> QED
    BY <2>1, AllCleaned
<1>2. CleanedFacts'
  BY <1>1
<1>3. EpisodeCandidates(t, "historical") \subseteq EpisodeCandidates(t, "historical")'
  BY CandidatesGrow
<1>4. Cleaned(Episodes, t) = UNION {c.affected : c \in EpisodeCandidates(t, "historical")}
  BY <1>1 DEF CleanedFacts
<1>5. Cleaned(Episodes', t) = UNION {c.affected : c \in EpisodeCandidates(t, "historical")'}
  BY <1>2 DEF CleanedFacts, Cleaned
<1> QED
  BY <1>3, <1>4, <1>5

-----------------------------------------------------------------------------
(* The theorems.                                                           *)

\* What is shown is what the analysis of the day finds.
StockInv ==
    /\ orders \in Histories /\ asOf \in Nat /\ asOf <= LastAnalysis
    /\ asOf = 0 => /\ episodes = {} /\ signals = {} /\ distorted = [o \in Regions |-> {}]
                   /\ clean = [r \in Routes |-> 0]
    /\ asOf # 0 => /\ episodes = Episodes /\ signals = Signals /\ distorted = Distorted
                   /\ clean = CleanRoutes(Episodes)

LEMMA StockStarts == StockInit => StockInv
BY AnalysisAssumption DEF StockInit, StockInv

LEMMA StockStep ==
    ASSUME StockInv, [AnalyseNextDay]_stockVars
    PROVE  StockInv'
<1>1. CASE UNCHANGED stockVars
  <2>1. Episodes' = Episodes
    <3>1. orders' = orders /\ asOf' = asOf
      BY <1>1 DEF stockVars
    <3>2. \A t : SeriesStart(t)' = SeriesStart(t)
      BY <3>1 DEF SeriesStart
    <3>3. \A t, s : EndsOf(t, s)' = EndsOf(t, s)
      BY <3>1, <3>2 DEF EndsOf, Ends, EpisodeScope, LastSunday
    <3>4. \A t, e : EpisodeCandidate(t, e)' = EpisodeCandidate(t, e)
      BY <3>1, SameWindows
    <3>5. \A t, s : EpisodeCandidates(t, s)' = EpisodeCandidates(t, s)
      <4> TAKE t, s
      <4>1. EpisodeCandidates(t, s)' = {c \in {EpisodeCandidate(t, e)' : e \in EndsOf(t, s)'} :
                                          Cardinality(c.affected) >= MinAffected}
        BY DEF EpisodeCandidates, EndsOf
      <4>2. EpisodeCandidates(t, s)' = {c \in {EpisodeCandidate(t, e) : e \in EndsOf(t, s)} :
                                          Cardinality(c.affected) >= MinAffected}
        BY <3>3, <3>4, <4>1
      <4> QED
        BY <4>2, CandidatesAre
    <3> QED
      BY <3>5 DEF Episodes
  <2>2. Signals' = Signals /\ Distorted' = Distorted /\ CleanRoutes(Episodes)' = CleanRoutes(Episodes)
    BY <1>1, <2>1 DEF Signals, Distorted, CleanRoutes, WeeksShifted, Shifted, Donors, Risen, FulfilledIn,
         DeliveredIn, WantedIn, Cleaned, LastSunday, stockVars
  <2> QED
    BY <1>1, <2>1, <2>2 DEF StockInv, stockVars
<1>2. CASE AnalyseNextDay
  <2>1. asOf' \in Nat /\ asOf' # 0 /\ asOf' <= LastAnalysis
    BY <1>2, AnalysisAssumption DEF AnalyseNextDay, StockInv
  <2>2. episodes' = Episodes' /\ CleanRoutes(episodes)' = CleanRoutes(Episodes)'
    BY <1>2 DEF AnalyseNextDay, CleanRoutes, Cleaned
  <2> QED
    BY <1>2, <2>1, <2>2 DEF AnalyseNextDay, StockInv
<1> QED
  BY <1>1, <1>2

LEMMA StockInvAlways == StockSpec => []StockInv
<1>1. StockInit => StockInv
  BY StockStarts
<1>2. StockInv /\ [AnalyseNextDay]_stockVars => StockInv'
  BY StockStep
<1> QED
  BY <1>1, <1>2, PTL DEF StockSpec

\* Counts of orders are numbers: the orders are finite.
LEMMA UnitsCounted ==
    ASSUME StockInv, NEW o, NEW t, NEW D
    PROVE  DeliveredIn(o, t, D) \in Nat
<1> DEFINE S == {x \in orders : x.day \in D /\ x.from = o /\ x.to = t /\ Fulfilled(x)}
<1>1. IsFiniteSet(orders) /\ S \subseteq orders
  BY HistoriesAssumption DEF StockInv
<1>2. DeliveredIn(o, t, D) = Cardinality(S)
  BY DEF DeliveredIn
<1> HIDE DEF S
<1> QED
  BY <1>1, <1>2, FS_Subset, FS_CardinalityType

LEMMA StockTyped ==
    ASSUME StockInv
    PROVE  StockTypeOK
<1>0. asOf \in Nat /\ asOf \in 0..LastAnalysis
  BY AnalysisAssumption DEF StockInv
<1>1. CASE asOf = 0
  <2>1. episodes = {} /\ signals = {} /\ distorted = [o \in Regions |-> {}]
        /\ clean = [r \in Routes |-> 0]
    BY <1>1 DEF StockInv
  <2> QED
    BY <1>0, <2>1 DEF StockTypeOK, EpisodesApart
<1>2. CASE asOf # 0
  <2>0. episodes = Episodes /\ signals = Signals /\ distorted = Distorted
        /\ clean = CleanRoutes(Episodes)
    BY <1>2 DEF StockInv
  <2>1. \A e \in Episodes :
          /\ e.place \in Regions /\ e.donors \subseteq Regions \ {e.place}
          /\ e.affected \subseteq 1..asOf /\ e.scope \in {"historical", "operational"}
          /\ Cardinality(e.affected) >= MinAffected
    BY <1>0, EpisodeTyped
  <2>2. \A e, f \in Episodes : e # f /\ e.place = f.place /\ e.scope = f.scope =>
              \/ Max(e.affected) + 1 < Min(f.affected)
              \/ Max(f.affected) + 1 < Min(e.affected)
    BY <1>0, EpisodesStandApart
  <2>3. \A s \in Signals : s.place \in Regions /\ s.donors \subseteq Regions
    BY DEF Signals, Donors
  <2>4. Distorted \in [Regions -> SUBSET Regions]
    BY <2>3 DEF Distorted
  <2>5. CleanRoutes(Episodes) \in [Routes -> Nat]
    BY UnitsCounted DEF CleanRoutes
  <2>6. EpisodesApart
    BY <2>0, <2>1, <2>2 DEF EpisodesApart
  <2> QED
    BY <1>0, <2>0, <2>1, <2>3, <2>4, <2>5, <2>6 DEF StockTypeOK
<1> QED
  BY <1>1, <1>2

\* The findings of an analysis have their types, and two episodes of a place and
\* scope neither overlap nor touch (stockout_episodes.py merges until none does).
THEOREM StockTypesCorrect == StockSpec => []StockTypeOK
<1>1. StockInv => StockTypeOK
  BY StockTyped
<1> QED
  BY <1>1, StockInvAlways, PTL

HistoryStep ==
    /\ asOf > 0 /\ WeekOf(asOf') = WeekOf(asOf) =>
          /\ Historical' = Historical
          /\ <<signals, distorted>>' = <<signals, distorted>>
          /\ clean' = clean
    /\ \A t \in Regions : Cleaned(episodes, t) \subseteq Cleaned(episodes', t)

LEMMA HistoryStays ==
    ASSUME StockInv, AnalyseNextDay
    PROVE  HistoryStep
<1>0. asOf \in Nat /\ asOf' \in Nat /\ asOf' # 0 /\ asOf <= asOf' /\ UNCHANGED orders
  BY AnalysisAssumption DEF StockInv, AnalyseNextDay
<1>1. episodes' = Episodes' /\ signals' = Signals' /\ distorted' = Distorted'
      /\ clean' = CleanRoutes(Episodes)'
  <2>1. CleanRoutes(episodes)' = CleanRoutes(Episodes)'
    BY DEF AnalyseNextDay, CleanRoutes, Cleaned
  <2> QED
    BY <2>1 DEF AnalyseNextDay
<1>2. ASSUME asOf > 0, WeekOf(asOf') = WeekOf(asOf)
      PROVE  Historical' = Historical /\ signals' = signals /\ distorted' = distorted
             /\ clean' = clean
  <2>1. asOf # 0
    BY <1>0, <1>2
  <2>2. episodes = Episodes /\ signals = Signals /\ distorted = Distorted
        /\ clean = CleanRoutes(Episodes)
    BY <2>1 DEF StockInv
  <2>3. asOf \in Nat \ {0}
    BY <1>0, <2>1
  <2>4. /\ {e \in Episodes' : e.scope = "historical"} = {e \in Episodes : e.scope = "historical"}
        /\ Signals' = Signals /\ Distorted' = Distorted
        /\ CleanRoutes(Episodes)' = CleanRoutes(Episodes)
    BY <1>0, <1>2, <2>3, SameWeek
  <2>5. Historical' = Historical
    BY <1>1, <2>2, <2>4 DEF Historical
  <2> QED
    BY <1>1, <2>2, <2>4, <2>5
<1>3. ASSUME NEW t \in Regions
      PROVE  Cleaned(episodes, t) \subseteq Cleaned(episodes', t)
  <2>1. CASE asOf = 0
    BY <2>1 DEF StockInv, Cleaned
  <2>2. CASE asOf # 0
    <3>1. episodes = Episodes
      BY <2>2 DEF StockInv
    <3>2. Cleaned(Episodes, t) \subseteq Cleaned(Episodes', t)
      BY <1>0, CleanedStays
    <3> QED
      BY <1>1, <3>1, <3>2
  <2> QED
    BY <2>1, <2>2
<1> QED
  BY <1>2, <1>3 DEF HistoryStep

\* An analysis later in the week changes neither the historical episodes nor what
\* follows from them, and no later analysis gives a cleaned day back
\* (stockout_episodes.py decides a scope by the completed weeks, clean_routes.py
\* cleans the historical episodes only).
THEOREM HistoryIsStable == StockSpec => HistoryStable
<1>1. StockInv /\ [AnalyseNextDay]_stockVars => [HistoryStep]_stockVars
  BY HistoryStays
<1>2. HistoryStable <=> [][HistoryStep]_stockVars
  BY DEF HistoryStable, HistoryStep
<1> QED
  BY <1>1, <1>2, StockInvAlways, PTL DEF StockSpec

=============================================================================
