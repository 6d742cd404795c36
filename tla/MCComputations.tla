---------------------------- MODULE MCComputations ----------------------------
(***************************************************************************)
(* What a decision is computed from and how, on small instances.  A        *)
(* behaviour moves one computation and leaves the others as they are at    *)
(* the start: the states are those of each, side by side.                  *)
(***************************************************************************)
EXTENDS SourceSync, EconomicsReports, FinanceReport, WorkingPlan, ShipmentOptions,
        StockoutEpisodes, DemandEstimates, TargetPrice, EvidenceReconciliation

CONSTANTS j1, c1, c2, p1, p2

VARIABLE part    \* the computation that moves

-----------------------------------------------------------------------------
(* SourceSync: postings of three days and two channels.                     *)
Accepted(c, d) == [channel |-> c, day |-> d]
ThreePostings == {Accepted("fbo", 3), Accepted("fbo", 5), Accepted("fbs", 6)}
AtFirst == [p \in ThreePostings |->
    CASE p.day = 3 -> "fulfilled" [] p.day = 5 -> "open" [] p.day = 6 -> "absent"]
Lifetimes == [clusters |-> 1, seller_warehouses |-> 1, product_attributes |-> 2,
              placement_zones |-> 1]

(* EconomicsReports: one request, two advertising reports that overlap.     *)
OneJob == {j1}
TwoCabinets == {c1, c2}
OneAssortment == {{p1}}    \* p2 is a product the analyses do not have
TwoContents == {1, 2}
Report(f, t, s, m) == [campaign |-> 1, from |-> f, to |-> t, skus |-> s, spend |-> m]
TwoReports == {Report(1, 2, {p1}, 1), Report(2, 2, {p1, p2}, 2)}

(* FinanceReport: sales, a return, fees and odd lines, of two products.     *)

Sku(s, sale, com, del, price, seller, post) ==
    [sku |-> s, sale |-> sale, commission |-> com, delivery |-> del, price |-> price,
     seller |-> seller, posting |-> post]
Accrual(d, i, c, t, l) == [day |-> d, id |-> i, category |-> c, total |-> t, lines |-> l]
Charge(s, m) == [sku |-> s, amount |-> m]
Bought == Accrual(1, "sale", "POSTING", 70,
    <<Sku("s", 100, -20, -10, 50, 60, TRUE), Sku("t", 0, 5, Missing, 0, Missing, TRUE)>>)
Returned == Accrual(1, "back", "POSTING", -43, <<Sku("s", -50, 10, -3, 50, 60, TRUE)>>)
Unclear == Accrual(2, "odd", "POSTING", 35,
    <<Sku("t", 45, -9, 0, 40, 40, FALSE), Sku("s", Missing, 0, -1, Missing, Missing, TRUE)>>)
Adjusted == Accrual(2, "adj", "POSTING", 35,
    <<Sku("t", 45, -9, 0, 40, 40, TRUE), Sku("s", 0, 2, -1, 30, 60, TRUE),
      Sku("s", 0, 0, -1, Missing, 0, TRUE)>>)
Storage == Accrual(2, "fees", "ITEM", -9, <<Charge("s", -4), Charge("t", -6)>>)
Advertising == Accrual(1, "ads", "NON_ITEM", -7, <<Charge(Missing, -7)>>)
Unheard == Accrual(1, "new", "OTHER", 3, <<>>)
SomeLedgers == {{}, {Bought, Returned}, {Bought, Advertising, Storage}, {Bought, Unheard, Unclear},
    {Adjusted, Storage, Returned}, {Advertising, Adjusted}, {Returned, Storage, Advertising}}
OneCost == [s \in {"s", "t"} |-> IF s = "s" THEN 20 ELSE Missing]
OnePosting == [s \in {"s", "t"} |-> IF s = "t" THEN 1 ELSE Missing]

-----------------------------------------------------------------------------
(* WorkingPlan: offers of clusters for one product, some with site limits.  *)

Site(w, st, max) == [site |-> w, state |-> st, max |-> max]
Open == {Site(1, "allowed", Unlimited)}
SiteMenu == {
    {Site(1, "allowed", 2), Site(2, "allowed", 3)}, {Site(1, "prohibited", Unknown)},
    {Site(1, "allowed", Unlimited), Site(1, "prohibited", Unlimited), Site(2, "allowed", 1)},
    {Site(1, "allowed", 0), Site(2, "unknown", Unknown)}}
Offer(rate, fbo, ozon, sites, profit, margin, rank) ==
    [rate |-> rate, fbo |-> fbo, inbound |-> 0, ozon |-> ozon, sites |-> sites,
     profit |-> profit, margin |-> margin, roi |-> margin, route |-> rank, demand |-> 1,
     distortion |-> 0, doubt |-> TRUE, packed |-> TRUE]
PlannedOffers ==
    {Offer(3, 0, 1, s, 2, 3, 1) : s \in SiteMenu}
    \cup {Offer(3, 0, 1, Open, 1, 3, 1), Offer(2, 0, 1, Open, 3, 1, 1),
          Offer(1, 0, 1, Open, 2, 3, 2), Offer(2, 2, 1, Open, 2, 2, 1),
          Offer(2, 0, 1, Open, Unknown, Unknown, 1)}
Product(n, pack, live, family, objective) ==
    [stock |-> n, pack |-> pack, live |-> live, family |-> family, objective |-> objective]
PlannedProducts ==
    {Product(n, p, FALSE, "calculated", "max_profit") : n \in {2, 4, 5}, p \in 1..3}
    \cup {Product(5, 2, FALSE, "calculated", "max_margin"),
          Product(4, Unknown, FALSE, "calculated", "max_margin"),
          Product(4, 2, FALSE, "safe", "max_margin")}
LiveOffers == {Offer(3, 0, 3, Open, 2, 3, 1), Offer(1, 0, 4, Open, 1, 2, 2),
    Offer(Unknown, 0, 1, Open, 2, 2, 1), Offer(2, 0, Unknown, Open, 2, 2, 1)}
LiveProducts == {Product(n, 2, TRUE, "calculated", "max_margin") : n \in {Unknown, 5}}
ManagedCases ==
    [offer : [{1, 2} -> LiveOffers], sku : LiveProducts]
    \cup [offer : [{2} -> {Offer(3, 0, 3, Open, 2, 3, 1)}],
          sku : {Product(3, p, TRUE, "calculated", "max_margin") : p \in {3, Unknown}}]
SomeCases == [offer : [Clusters -> PlannedOffers], sku : PlannedProducts] \cup ManagedCases
OneThreshold == [profit |-> 1, margin |-> 1, roi |-> 1]

-----------------------------------------------------------------------------
(* ShipmentOptions: three clusters, of which two have the same cargo class. *)

PlanLine(q, r, v, z) == [qty |-> q, rank |-> r, volume |-> v, zone |-> z, blocked |-> FALSE]
Usual == [c \in 1..3 |-> CASE c = 1 -> PlanLine(2, 2, 3, "small")
                          [] c = 2 -> PlanLine(2, 1, 2, "oversize")
                          [] c = 3 -> PlanLine(1, Absent, 2, "small")]
PlanLines == {Usual,
    [Usual EXCEPT ![2] = PlanLine(3, 1, 9, "small")],
    [Usual EXCEPT ![1] = PlanLine(2, 2, Absent, "unknown"), ![2].blocked = TRUE],
    [Usual EXCEPT ![1] = PlanLine(2, 2, 2, "small"), ![2] = PlanLine(2, Absent, 6, "small"),
                  ![3] = PlanLine(1, 3, 2, "small")],
    [Usual EXCEPT ![1] = PlanLine(0, 2, 3, "small"), ![2] = PlanLine(Absent, 2, 3, "small"),
                  ![2].blocked = TRUE]}
SomeRequests ==
    [line : PlanLines, selected : {{1, 2, 3}, {1, 3}},
     methods : {<<"pvz", "direct">>, <<"direct", "sc">>, <<"pvz", "sc">>, <<"sc", "direct", "pvz">>},
     preferred : {2}, max : {3}, warehouse : {7}, active : {{7}}, points : {<<5, 4>>},
     known : {{4, 5}}]
    \cup
    [line : {Usual}, selected : {{1, 2, 3}}, methods : {<<"pvz", "direct">>, <<"sc">>},
     preferred : {2}, max : {3}, warehouse : {Absent, 7}, active : {{}, {7, 8}, {8}},
     points : {<<>>, <<4>>, <<4, 6>>}, known : {{4, 5}}]
SomeRules == [direct |-> [clusters |-> 1, volume |-> Absent, crossdock |-> FALSE],
              pvz |-> [clusters |-> 2, volume |-> 5, crossdock |-> TRUE],
              sc |-> [clusters |-> 3, volume |-> Absent, crossdock |-> TRUE]]

-----------------------------------------------------------------------------
(* StockoutEpisodes: a calm time, then up to three phases in which demand   *)
(* is delivered here, partly or fully from the other region.               *)

HereAndThere == {"here", "there"}
Phases == {"calm", "mixed", "short"}
Lengths == {l \in {5, 6, 8, 11} \X (1..4) \X {1, 3, 5} : l[1] + l[2] + l[3] < 17}
Origin(x, n) == IF x = "calm" \/ (x = "mixed" /\ n = 1) THEN "here" ELSE "there"
Delivery(d, o, t, l, n) == [day |-> d, from |-> o, to |-> t, life |-> l, unit |-> n]
Background ==
    {Delivery(0, "there", "here", "fulfilled", 1), Delivery(12, "here", "here", "cancelled", 9),
     Delivery(13, "here", "here", "in_progress", 8)}
    \cup {Delivery(d, "there", "there", "fulfilled", 1) : d \in 1..17}
PhaseAt(l, d) == CASE d <= l[1] -> 0
                   [] d \in (l[1] + 1)..(l[1] + l[2]) -> 1
                   [] d \in (l[1] + l[2] + 1)..(l[1] + l[2] + l[3]) -> 2
                   [] d > l[1] + l[2] + l[3] -> 3
History(k, l) == Background \cup
    {Delivery(d, Origin(k[PhaseAt(l, d)], n), "here", "fulfilled", n) : d \in 1..17, n \in 1..2}
SomeHistories ==
    {{}} \cup {History(k, l) : l \in Lengths,
        k \in {x \in [0..3 -> Phases] : x[0] = "calm" /\ \A i \in 0..2 : x[i] # x[i + 1]}}

(* DemandEstimates.                                                        *)
SomeSales == {0, 10, 12}

-----------------------------------------------------------------------------
(* TargetPrice: routes whose fee jumps at price limits, and an average.     *)

Tariff(l, h, f) == [low |-> l, high |-> h, fee |-> f]
Routes1 == {{Tariff(NotKnown, NotKnown, 3)}, {Tariff(NotKnown, 121, 8), Tariff(121, NotKnown, 2)},
    {Tariff(0, 120, 2), Tariff(120, 180, 60), Tariff(180, NotKnown, 9)},
    {Tariff(0, 120, 2)}, {Tariff(40, 100, 2), Tariff(80, NotKnown, 20)}}
Goods(method, routes, fee, costs_, prices_, taxes) ==
    [method : {method}, rows : routes, logistics : {fee}, cost : costs_, price : prices_,
     goal : {"margin", "roi"}, target : {0, 2}, tax : taxes, commission : {1, 7}]
SomeProducts ==
    Goods("routes", {<<r>> : r \in Routes1} \cup (Routes1 \X Routes1), 0, {0, 25}, {NotKnown},
          {"usn_income", "usn_income_minus_expenses"})
    \cup Goods("average", {<<{}>>}, 6, {NotKnown, 0, 25}, {NotKnown, 9, 300},
               {"usn_income", "usn_income_minus_expenses", "osno"})

-----------------------------------------------------------------------------
(* EvidenceReconciliation: rows that repeat, disagree or lack a part.       *)

Evidence(k, s, a, l, o, w, v, u) == [kind |-> k, sku |-> s, article |-> a, label |-> l,
    origin |-> o, warehouse |-> w, value |-> v, units |-> u]
Stock(s, a, l, w, v, u) == Evidence("stock", s, a, l, None, w, v, u)
Seller(s, u) == Evidence("seller", s, None, None, None, None, None, u)
Advice(s, l, v, i) == Evidence("ozon", s, None, l, None, i, v, None)
Fact(s, a) == Evidence("fact", s, a, None, None, None, None, None)
Ordered(s, a, l, o) == Evidence("order", s, a, l, o, None, None, None)
Pack(a, v, i) == Evidence("pack", None, a, None, None, i, v, None)
Unitka(s, a) == Evidence("unitka", s, a, None, None, None, None, None)
Nothing == [mode |-> "files", catalog |-> None, complete |-> {}, rows |-> {}]
SomeInputs ==
    {Nothing,
     [mode |-> "files", catalog |-> None, complete |-> {1, 2}, rows |->
        {Stock(1, "a", "N", "w1", 5, 3), Stock(1, "a", "north", "w2", 6, 0),
         Stock(1, "a", "N", "w3", 5, 3), Stock(2, "b", "S", "w1", 4, None),
         Stock(2, "a", "S", "w4", None, 2),
         Ordered(2, "c", "S", "X"), Ordered(1, "c", "N", "N"), Ordered(2, "b", "X", "S"),
         Unitka(None, "a"), Unitka(None, "b"), Unitka(None, "c"), Unitka(1, None)}],
     [mode |-> "api", catalog |-> {1, 2}, complete |-> {1}, rows |->
        {Stock(1, "a", "N", "w1", 7, 0), Stock(3, "a", "S", "w1", 5, 3),
         Seller(1, 4), Seller(1, 0), Seller(3, 4),
         Advice(1, "N", 5, "r1"), Advice(1, "N", 6, "r2"), Advice(1, "N", 5, "r3"),
         Fact(1, "a"), Fact(2, "b"), Ordered(2, "d", "north", "S"), Ordered(3, "b", "S", "S"),
         Unitka(None, "a"), Unitka(None, "d"), Unitka(None, "e")}],
     [mode |-> "api", catalog |-> {1, 2}, complete |-> {1, 2}, rows |->
        {Seller(1, 4), Seller(1, 5), Seller(2, 0), Fact(1, "a"), Fact(2, "a"),
         Pack("a", 6, "r1"), Pack("a", 12, "r2"), Pack("a", 6, "r3"), Pack("b", 6, "r1"), Pack("b", 6, "r2"),
         Pack("c", None, "r1"), Pack("c", 4, "r2"), Advice(2, "S", 0, "r1"), Unitka(None, "a")}]}
SomeLabels == [x \in {"north", "X"} |-> IF x = "north" THEN "N" ELSE "gone"]

-----------------------------------------------------------------------------
\* One account and one cost to begin with.
EconStart ==
    /\ cabinet \in [account : {c1}, session : {0}, unlocked : {TRUE}] /\ costs = 1
    /\ EconInit

\* Initial states of the computations that rest.
FinanceRests == ledger = {} /\ FinanceInit
WorkRests ==
    /\ \E k \in {CHOOSE k \in ManagedCases : TRUE} : offer = k.offer /\ sku = k.sku
    /\ WorkInit
OptionRests == request = (CHOOSE r \in SomeRequests : TRUE) /\ OptionInit
StockRests == orders = {} /\ StockInit
PriceRests == product = (CHOOSE p \in SomeProducts : TRUE) /\ PriceInit
ReconcileRests == input = Nothing /\ ReconcileInit

MCInit ==
    /\ SyncInit /\ EconStart /\ DemandInit
    /\ \/ /\ part \in {"sync", "economics", "demand"}
          /\ FinanceRests /\ WorkRests /\ OptionRests /\ StockRests
          /\ PriceRests /\ ReconcileRests
       \/ /\ part = "finance"
          /\ WorkRests /\ OptionRests /\ StockRests /\ PriceRests
          /\ ReconcileRests /\ FinanceInit
       \/ /\ part = "plan"
          /\ FinanceRests /\ OptionRests /\ StockRests /\ PriceRests
          /\ ReconcileRests /\ WorkInit
       \/ /\ part = "options"
          /\ FinanceRests /\ WorkRests /\ StockRests /\ PriceRests
          /\ ReconcileRests /\ OptionInit
       \/ /\ part = "stockouts"
          /\ FinanceRests /\ WorkRests /\ OptionRests /\ PriceRests
          /\ ReconcileRests /\ StockInit
       \/ /\ part = "price"
          /\ FinanceRests /\ WorkRests /\ OptionRests /\ StockRests
          /\ ReconcileRests /\ PriceInit
       \/ /\ part = "reconcile"
          /\ FinanceRests /\ WorkRests /\ OptionRests /\ StockRests
          /\ PriceRests /\ ReconcileInit

MCNext ==
    /\ UNCHANGED part
    /\ IF part = "sync" THEN SyncNext ELSE UNCHANGED syncVars
    /\ IF part = "economics" THEN EconNext ELSE UNCHANGED econVars
    /\ IF part = "finance" THEN FinanceStep ELSE UNCHANGED financeVars
    /\ IF part = "plan" THEN WorkStep ELSE UNCHANGED workVars
    /\ IF part = "options" THEN OptionStep ELSE UNCHANGED optionVars
    /\ IF part = "stockouts" THEN AnalyseNextDay ELSE UNCHANGED stockVars
    /\ IF part = "demand" THEN DemandStep ELSE UNCHANGED demandVars
    /\ IF part = "price" THEN PriceStep ELSE UNCHANGED priceVars
    /\ IF part = "reconcile" THEN ReconcileStep ELSE UNCHANGED evidenceVars

MCSpec ==
    /\ MCInit
    /\ [][MCNext]_<<part, syncVars, econVars, financeVars, workVars, optionVars, stockVars,
                   demandVars, priceVars, evidenceVars>>

-----------------------------------------------------------------------------
\* The type invariant of the computation that moves.
ComputationsTypeOK ==
    /\ part = "sync" => SyncTypeOK
    /\ part = "economics" => EconTypeOK
    /\ part = "finance" => FinanceTypeOK
    /\ part = "plan" => WorkTypeOK
    /\ part = "options" => OptionTypeOK
    /\ part = "stockouts" => StockTypeOK
    /\ part = "demand" => DemandTypeOK
    /\ part = "price" => PriceTypeOK
    /\ part = "reconcile" => ReconcileTypeOK

=============================================================================
