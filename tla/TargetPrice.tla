---------------------------- MODULE TargetPrice -----------------------------
(***************************************************************************)
(* The price at which one product reaches the seller's target.             *)
(*                                                                         *)
(* economics/pricing.py asks for the least price that meets the target on  *)
(* every route.  The logistics fee of a route is looked up in a tariff     *)
(* that may change with the price, so that the profit jumps at the price   *)
(* bounds of the tariff rows; the search goes through the intervals        *)
(* between them, and inside one doubles and then bisects.                  *)
(* economics/workspace.py searches one interval with fixed logistics.      *)
(*                                                                         *)
(* Prices and fees are kopeks, price bounds of tariffs half kopeks (they   *)
(* need not lie on the currency grid), rates parts of One.  Money is       *)
(* compared exactly, multiplied by its common denominator.                 *)
(***************************************************************************)
EXTENDS Integers, FiniteSets, FiniteSetsExt, Sequences

CONSTANTS
    Products,       \* products to price: [method, rows, logistics, cost, price, goal,
                    \* target, tax, commission], where method is "routes" or "average"
                    \* and rows a sequence: the tariff rows of each route, in its order
    One,            \* a rate of 1
    Acquiring, Drr, Vat, IncomeTax, CoInvest, Buyout,    \* rates of the settings
    FixedFee,       \* fixed FBO fee
    Doublings,      \* doublings of the upper price (40 in the code)
    NotKnown        \* a missing cost or price; no bound; no target price

ASSUME RatesAssumption ==
    /\ One \in Nat \ {0} /\ Buyout \in 1..One
    /\ {Acquiring, Vat, IncomeTax, CoInvest} \subseteq 0..One /\ Drr \in Nat
\* What the readers of the workbooks and of the request let through.
ProductTypeOK(p) ==
    /\ p.method \in {"routes", "average"}
    /\ p.rows \in Seq(SUBSET [low : Nat \cup {NotKnown}, high : Nat \cup {NotKnown}, fee : Nat])
    /\ {p.cost, p.price} \subseteq Nat \cup {NotKnown}
    /\ {p.logistics, p.target} \subseteq Nat /\ p.commission \in 0..One

ASSUME ProductsAssumption == \A p \in Products : ProductTypeOK(p)
ASSUME SearchAssumption == Doublings \in Nat \ {0} /\ FixedFee \in Nat /\ NotKnown \notin Nat

VARIABLES
    product,        \* the product that is priced
    search,         \* [step, low, high, tries], in the interval that begins at `from`
    from,           \* the first price of that interval
    target          \* the price found, or NotKnown

priceVars == <<product, search, from, target>>

Greater(a, b) == IF a >= b THEN a ELSE b
Cents(bound) == (bound + 1) \div 2                  \* rounded up to a kopek
Priced(p) == p.method = "routes"

-----------------------------------------------------------------------------
(* The logistics of route i at price c, times Buyout.                       *)

Within(row, c) == /\ row.low = NotKnown \/ row.low <= 2 * c
                  /\ row.high = NotKnown \/ 2 * c < row.high

(* Exactly one row must fit: none is missing, two are ambiguous.            *)
Fitting(p, i, c) == {row \in p.rows[i] : Within(row, c)}
FeeKnown(p, i, c) == ~Priced(p) \/ Cardinality(Fitting(p, i, c)) = 1
Fee(p, i, c) == (CHOOSE row \in Fitting(p, i, c) : TRUE).fee

(* A parcel that is not bought travels back, at the tariff.                 *)
Logistics(p, i, c) ==
    IF Priced(p)
    THEN One * (Fee(p, i, c) + FixedFee) + (One - Buyout) * Fee(p, i, c)
    ELSE Buyout * p.logistics

(* Profit of a unit sold at c, times Scale * One.                           *)
Scale == Buyout * One * (One + Vat)
Realization(c) == c * (One - CoInvest) * Buyout * (One + Vat)
VatOf(c) == c * (One - CoInvest) * Buyout * Vat
Payout(p, i, c) == c * (One - p.commission - Acquiring - Drr) * Buyout * (One + Vat)
                   - One * (One + Vat) * Logistics(p, i, c)
TaxBase(p, i, c) == IF p.tax = "usn_income" THEN Realization(c) - VatOf(c)
                    ELSE Payout(p, i, c) - p.cost * Scale - VatOf(c)
Profit(p, i, c) == One * (Payout(p, i, c) - VatOf(c) - p.cost * Scale)
                   - Greater(0, TaxBase(p, i, c) * IncomeTax)
Required(p, c) == Scale * p.target * (IF p.goal = "margin" THEN c ELSE p.cost)

(* Routes are tried in order; the first that fails decides.                 *)
Failing(p, c) == {i \in DOMAIN p.rows : ~FeeKnown(p, i, c) \/ Profit(p, i, c) < Required(p, c)}
Status(p, c) == IF p.tax \notin {"usn_income", "usn_income_minus_expenses"} THEN "unknown"
                ELSE IF Failing(p, c) = {} THEN "met"
                ELSE IF FeeKnown(p, Min(Failing(p, c)), c) THEN "short" ELSE "unknown"
Meets(p, c) == Status(p, c) = "met"

-----------------------------------------------------------------------------
(* The intervals.                                                           *)

Bounds(p) == UNION {{row.low, row.high} : row \in UNION {p.rows[i] : i \in DOMAIN p.rows}}
\* Wrong on purpose: only the lower bounds of rows are boundaries.
StartsOfRows(p) ==
    {1} \cup {Greater(1, Cents(row.low)) :
                row \in {r \in UNION {p.rows[i] : i \in DOMAIN p.rows} : r.low # NotKnown}}
Starts(p) == {1} \cup {Greater(1, Cents(b)) : b \in Bounds(p) \ {NotKnown}}
Later(p, c) == {s \in Starts(p) : s > c}

OrZero(x) == IF x = NotKnown THEN 0 ELSE x
FirstUpper(p, low) ==
    IF Priced(p) THEN Greater(low + 1, Greater(100, Greater(OrZero(p.price), OrZero(p.cost))))
    ELSE Greater(1, p.price)

(* When nothing is searched at all.                                         *)
Unpriceable(p) ==
    \/ p.cost = NotKnown
    \/ Len(p.rows) = 0
    \/ p.cost = 0 /\ (p.goal = "roi" \/ ~Priced(p))
    \/ ~Priced(p) /\ p.price = NotKnown

-----------------------------------------------------------------------------
Opening == [step |-> "enter", low |-> 1, high |-> 1, tries |-> 0]

PriceInit ==
    /\ product \in Products
    /\ search = Opening /\ from = 1
    /\ target = NotKnown

Found(c) == /\ target' = c
            /\ search' = [search EXCEPT !.step = "done"]
            /\ UNCHANGED <<product, from>>

(* The interval is given up; the search ends after the last.                *)
NextInterval ==
    /\ UNCHANGED <<product, target>>
    /\ IF Later(product, from) = {}
       THEN search' = [search EXCEPT !.step = "done"] /\ UNCHANGED from
       ELSE search' = Opening /\ from' = Min(Later(product, from))

RefuseProduct ==
    /\ search.step = "enter" /\ Unpriceable(product)
    /\ search' = [search EXCEPT !.step = "done"]
    /\ UNCHANGED <<product, from, target>>

(* The first price of an interval; a tariff unknown there is unknown in the *)
(* whole interval.                                                          *)
Enter ==
    /\ search.step = "enter" /\ ~Unpriceable(product)
    /\ CASE Meets(product, from) -> Found(from)
         [] Status(product, from) = "unknown" -> NextInterval
         [] Status(product, from) = "short" ->
              /\ search' = IF Later(product, from) # {}
                           THEN [step |-> "check", low |-> from, tries |-> 0,
                                 high |-> Min(Later(product, from)) - 1]
                           ELSE [step |-> "double", low |-> from, tries |-> 0,
                                 high |-> FirstUpper(product, from)]
              /\ UNCHANGED <<product, from, target>>

(* The last interval has no end: its upper price is doubled until it meets  *)
(* the target.  The search over routes does not look at the last doubling.  *)
Double ==
    /\ search.step = "double"
    /\ IF Meets(product, search.high)
       THEN /\ search' = [search EXCEPT !.step = "halve"]
            /\ UNCHANGED <<product, from, target>>
       ELSE IF search.tries < IF Priced(product) THEN Doublings - 1 ELSE Doublings
            THEN /\ search' = [search EXCEPT !.high = 2 * @, !.tries = @ + 1]
                 /\ UNCHANGED <<product, from, target>>
            ELSE NextInterval

Check ==
    /\ search.step = "check"
    /\ IF search.high < search.low \/ ~Meets(product, search.high)
       THEN NextInterval
       ELSE /\ search' = [search EXCEPT !.step = "halve"]
            /\ UNCHANGED <<product, from, target>>

Halve ==
    /\ search.step = "halve" /\ search.low < search.high
    /\ LET mid == (search.low + search.high) \div 2
       IN search' = IF Meets(product, mid) THEN [search EXCEPT !.high = mid]
                    ELSE [search EXCEPT !.low = mid + 1]
    /\ UNCHANGED <<product, from, target>>

Arrive == /\ search.step = "halve" /\ search.low = search.high
          /\ Found(search.high)

PriceStep == RefuseProduct \/ Enter \/ Double \/ Check \/ Halve \/ Arrive
PriceSpec == PriceInit /\ [][PriceStep]_priceVars

-----------------------------------------------------------------------------
(* Type invariant. *)
PriceTypeOK ==
    /\ search.step \in {"enter", "double", "check", "halve", "done"}
    /\ search.low \in Nat \ {0} /\ search.high \in Nat /\ search.tries \in 0..Doublings
    /\ from \in Starts(product)
    /\ target \in Nat \cup {NotKnown}

(* The price that is proposed meets the target on every route, and no lower *)
(* price does, although the profit jumps down as well as up where a tariff  *)
(* changes.  Without a proposal no price up to the last that was tried      *)
(* meets it.                                                                *)
TargetIsLeast ==
    search.step = "done" /\ ~Unpriceable(product) =>
        IF target = NotKnown
        THEN \A c \in 1..search.high : ~Meets(product, c)
        ELSE Meets(product, target) /\ \A c \in 1..(target - 1) : ~Meets(product, c)
=============================================================================
