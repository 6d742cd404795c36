--------------------------- MODULE FinanceReport ----------------------------
(***************************************************************************)
(* The report of realized sales.                                           *)
(*                                                                         *)
(* ozon/adapters/finance.py reads the accruals of a period day by day and  *)
(* page by page, and splits each into amounts of products and expenses;    *)
(* economics/buyouts.py builds the report of these.  Pages may overlap.    *)
(* Amounts are integers; a description decides a category, and categories  *)
(* are left out except that of advertising.                                *)
(***************************************************************************)
EXTENDS Integers, FiniteSets, Sequences, SequencesExt, Sums

CONSTANTS
    Ledgers,        \* sets of accruals [day, id, category, total, lines]; id is the
                    \* accrual's or, without one, its type's.  A line of a POSTING is
                    \* [sku, sale, commission, delivery, price, seller, posting], of
                    \* any other category [sku, amount]
    Skus, Cost,     \* Cost[s]: loaded cost of s, or Missing
    Delivered,      \* Delivered[s]: units of s in its posting, or Missing
    Days,           \* the period is 1..Days
    MaxPages,       \* pages read of one day (200 in the code)
    MaxRows,        \* bound: rows of a page
    Missing         \* an absent field; an expense of no SKU; an unknown quantity

\* What the readers of the finance answers let through.
AccrualOK(a) ==
    /\ a = [day |-> a.day, id |-> a.id, category |-> a.category, total |-> a.total,
            lines |-> a.lines]
    /\ a.day \in 1..Days /\ a.total \in Int
    /\ IF a.category = "POSTING"
       THEN LET money == Int \cup {Missing}
            IN a.lines \in Seq([sku : Skus, sale : money, commission : money, delivery : money,
                                price : money, seller : money, posting : BOOLEAN])
       ELSE a.lines \in Seq([sku : Skus \cup {Missing}, amount : Int])

ASSUME FinanceAssumption == /\ Days \in Nat \ {0} /\ MaxPages \in Nat \ {0}
                            /\ MaxRows \in Nat \ {0}
                            /\ Missing \notin Int /\ Missing \notin Skus
ASSUME LedgersAssumption == \A l \in Ledgers : IsFiniteSet(l) /\ \A a \in l : AccrualOK(a)
ASSUME CostAssumption == Cost \in [Skus -> Nat \cup {Missing}]
ASSUME DeliveredAssumption == Delivered \in [Skus -> Nat \cup {Missing}]

VARIABLES
    ledger,         \* what Ozon has booked
    delivered,      \* accruals of the day that a page has brought
    day, page,      \* the page of the day that is read or processed
    position, used, \* its position, and those used before on this day
    rows, next,     \* the rows it came with and the position after it, Missing
                    \* before it is read
    taken,          \* how many of the rows are processed
    seen,           \* accruals taken into the report
    products,       \* product lines [sku, quantity, revenue, net]
    expenses,       \* expenses [sku, amount]
    verdict         \* "reading", "done" or "refused"

place == <<day, page, position, used>>
received == <<delivered, rows, next>>
booked == <<seen, products, expenses>>
financeVars == <<ledger, place, received, taken, booked, verdict>>

LastCursor == 0                             \* the empty position

Value(x) == IF x = Missing THEN 0 ELSE x
Abs(x) == IF x < 0 THEN -x ELSE x
Of(d) == {a \in ledger : a.day = d}

-----------------------------------------------------------------------------
(* The quantity a posting line stands for: a whole multiple of the price;   *)
(* else, for a sale, what the posting says; an adjustment has none.         *)

Inherits(l) == l.price = 0 /\ Value(l.commission) > 0
NoUnits(l) == l.sale = 0 /\ (l.seller = 0 \/ Value(l.price) > 0)
Ambiguous(l) == Value(l.sale) = 0 /\ ~NoUnits(l) /\ (l.sale = Missing \/ ~Inherits(l))
Whole(l) == /\ Value(l.price) # 0
            /\ Abs(Value(l.sale)) % Abs(l.price) = 0 /\ Value(l.sale) # 0

NeedsPosting(l) == ~NoUnits(l) /\ ~Ambiguous(l) /\ ~Whole(l) /\ Value(l.sale) >= 0 /\ l.posting
Quantity(l) ==
    IF NoUnits(l) THEN 0
    ELSE IF Ambiguous(l) THEN Missing
    ELSE IF Whole(l) THEN LET units == Abs(l.sale) \div Abs(l.price)
                          IN IF l.sale > 0 THEN units ELSE -units
    ELSE IF NeedsPosting(l) THEN Delivered[l.sku] ELSE Missing

Revenue(l) == LET q == Quantity(l)
              IN IF q = Missing \/ (q # 0 /\ Value(l.seller) = 0) THEN Missing
                 ELSE Abs(Value(l.seller)) * q
Net(l) == Value(l.sale) + Value(l.commission) + Value(l.delivery)

-----------------------------------------------------------------------------
(* What an accrual adds to the report.                                      *)

ProductOf(a, l) ==
    IF a.category = "POSTING"
    THEN <<[sku |-> l.sku, quantity |-> Quantity(l), revenue |-> Revenue(l), net |-> Net(l)]>>
    ELSE IF l.sku = Missing THEN <<>>
    ELSE <<[sku |-> l.sku, quantity |-> 0, revenue |-> 0, net |-> l.amount]>>

Expense(sku, amount) == <<[sku |-> sku, amount |-> amount]>>
ExpensesOf(a, l) ==
    IF a.category # "POSTING" THEN Expense(l.sku, -l.amount)
    ELSE (IF Revenue(l) = Missing THEN <<>>
          ELSE Expense(l.sku, Revenue(l) - Value(l.sale) - Value(l.commission)))
         \o (IF Value(l.delivery) = 0 THEN <<>> ELSE Expense(l.sku, -l.delivery))

AmountOf(a, l) == IF a.category = "POSTING" THEN Net(l) ELSE l.amount
Nested(a) == Total([i \in DOMAIN a.lines |-> AmountOf(a, a.lines[i])], DOMAIN a.lines)

(* What the total has beyond its parts is an expense of its own.            *)
Difference(a) == IF a.total = Nested(a) THEN <<>> ELSE Expense(Missing, Nested(a) - a.total)

ProductsOf(a) == FlattenSeq([i \in DOMAIN a.lines |-> ProductOf(a, a.lines[i])])
AllExpensesOf(a) == FlattenSeq([i \in DOMAIN a.lines |-> ExpensesOf(a, a.lines[i])])
                    \o Difference(a)

-----------------------------------------------------------------------------
FinanceInit ==
    /\ ledger \in Ledgers
    /\ day = 1 /\ page = 1 /\ position = LastCursor /\ used = {}
    /\ delivered = {} /\ rows = <<>> /\ next = Missing /\ taken = 0
    /\ seen = {} /\ products = <<>> /\ expenses = <<>>
    /\ verdict = "reading"

Reject == /\ verdict' = "refused"
          /\ UNCHANGED <<ledger, place, received, taken, booked>>

(* Ozon answers a page: rows of the day, some perhaps delivered before, and  *)
(* the empty position with the last of them.                                *)
HonestPage ==
    \E k \in 0..MaxRows : \E r \in [1..k -> Of(day)] :
        /\ rows' = r /\ delivered' = delivered \cup Range(r)
        /\ \/ delivered' = Of(day) /\ next' = LastCursor
           \/ delivered' # Of(day) /\ k > 0 /\ next' = page

(* Or one that is not: a row of another day, a row again with another       *)
(* amount, a position that does not advance, or one without rows.           *)
OddPage ==
    /\ UNCHANGED delivered
    /\ \/ \E a \in ledger \ Of(day) : rows' = <<a>> /\ next' = LastCursor
       \/ \E a \in delivered : rows' = <<[a EXCEPT !.total = @ + 1]>> /\ next' = LastCursor
       \/ \E c \in used, a \in delivered : rows' = <<a>> /\ next' = c
       \/ rows' = <<>> /\ next' = page

FetchPage(Page) ==
    /\ verdict = "reading" /\ next = Missing
    /\ Page
    /\ taken' = 0
    /\ UNCHANGED <<ledger, place, booked, verdict>>

(* The read is cancelled, or a request fails, also that of a posting.       *)
FinanceFails == verdict = "reading" /\ Reject

(* The next row.  One that is known is skipped, or refused when it differs. *)
Twin(a) == {b \in seen : b.day = a.day /\ b.id = a.id}
\* Wrong on purpose: a row that is known is booked again.
TakeRowAgain ==
    /\ verdict = "reading" /\ next # Missing /\ taken < Len(rows)
    /\ LET a == rows[taken + 1]
       IN IF a.day # day \/ Twin(a) \ {a} # {} THEN Reject
          ELSE /\ taken' = taken + 1
               /\ seen' = seen \cup {a}
               /\ products' = products \o ProductsOf(a)
               /\ expenses' = expenses \o AllExpensesOf(a)
               /\ UNCHANGED <<ledger, place, received, verdict>>
TakeRow ==
    /\ verdict = "reading" /\ next # Missing /\ taken < Len(rows)
    /\ LET a == rows[taken + 1]
       IN IF a.day # day \/ Twin(a) \ {a} # {} THEN Reject
          ELSE /\ taken' = taken + 1
               /\ IF a \in seen THEN UNCHANGED booked
                  ELSE /\ seen' = seen \cup {a}
                       /\ products' = products \o ProductsOf(a)
                       /\ expenses' = expenses \o AllExpensesOf(a)
               /\ UNCHANGED <<ledger, place, received, verdict>>

(* All rows are processed: the next page, the next day, or the end.         *)
NextPage ==
    /\ verdict = "reading" /\ next \notin {Missing, LastCursor} /\ taken = Len(rows)
    /\ IF rows = <<>> \/ next \in used \/ page = MaxPages
       THEN Reject
       ELSE /\ page' = page + 1 /\ position' = next /\ used' = used \cup {next}
            /\ next' = Missing
            /\ UNCHANGED <<ledger, day, delivered, rows, taken, booked, verdict>>

EndDay ==
    /\ verdict = "reading" /\ next = LastCursor /\ taken = Len(rows)
    /\ IF day = Days
       THEN verdict' = "done" /\ UNCHANGED <<place, received, taken>>
       ELSE /\ day' = day + 1 /\ page' = 1 /\ position' = LastCursor /\ used' = {}
            /\ delivered' = {} /\ rows' = <<>> /\ next' = Missing /\ taken' = 0
            /\ UNCHANGED verdict
    /\ UNCHANGED <<ledger, booked>>

FinanceStep == \/ FetchPage(HonestPage) \/ FetchPage(OddPage) \/ FinanceFails
               \/ TakeRow \/ NextPage \/ EndDay
FinanceSpec == FinanceInit /\ [][FinanceStep]_financeVars

-----------------------------------------------------------------------------
(* The report of what was read.                                             *)

LinesOf(s) == {i \in DOMAIN products : products[i].sku = s}
QuantityKnown(s) == \A i \in LinesOf(s) : products[i].quantity # Missing
RevenueKnown(s) == \A i \in LinesOf(s) : products[i].revenue # Missing
UnitsOf(s) == Total([i \in LinesOf(s) |-> Value(products[i].quantity)], LinesOf(s))
RevenueOf(s) == Total([i \in LinesOf(s) |-> Value(products[i].revenue)], LinesOf(s))
NetOf(s) == Total([i \in LinesOf(s) |-> products[i].net], LinesOf(s))
Booked(s) == LET own == {i \in DOMAIN expenses : expenses[i].sku = s}
             IN Total([i \in own |-> expenses[i].amount], own)

(* A product with fees alone needs no cost; an unknown quantity does not    *)
(* become zero.                                                             *)
CostTotal(s) == IF ~QuantityKnown(s) THEN Missing
                ELSE IF Cost[s] # Missing THEN Cost[s] * UnitsOf(s)
                ELSE IF UnitsOf(s) = 0 THEN 0 ELSE Missing

Reported == {products[i].sku : i \in DOMAIN products}
Costed == {s \in Reported : CostTotal(s) # Missing}
Common == Booked(Missing)
ProfitBeforeCommon == Total([s \in Costed |-> NetOf(s) - CostTotal(s)], Costed)
ProfitAfterExpenses == ProfitBeforeCommon - Common

-----------------------------------------------------------------------------
(* Type invariant. *)
FinanceTypeOK ==
    /\ day \in 1..Days /\ page \in 1..MaxPages
    /\ position \in {LastCursor} \cup used /\ used \subseteq 1..MaxPages
    /\ taken \in 0..Len(rows) /\ Len(rows) <= MaxRows
    /\ Reported \subseteq Skus
    /\ verdict \in {"reading", "done", "refused"}

(* The report accounts for every amount Ozon booked in the period, once:    *)
(* what overlapping pages repeat is not counted twice, and what no line of  *)
(* an accrual explains is an expense.  What a product's revenue exceeds its *)
(* proceeds by is the sum of its expenses; and when every product is        *)
(* complete, the profit is all that was booked less the cost of the units.  *)
ReportBalances ==
    verdict = "done" =>
        LET total == Total([a \in ledger |-> a.total], ledger)
            cost == Total([s \in Reported |-> CostTotal(s)], Reported)
        IN /\ Total([i \in DOMAIN products |-> products[i].net], DOMAIN products) - Common = total
           /\ \A s \in Reported : RevenueKnown(s) => RevenueOf(s) - NetOf(s) = Booked(s)
           /\ Costed = Reported => ProfitAfterExpenses = total - cost
=============================================================================
