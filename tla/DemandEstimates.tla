-------------------------- MODULE DemandEstimates ---------------------------
(***************************************************************************)
(* The weekly rate of demand of one SKU at one destination, estimated by   *)
(* analytics/demand_estimate.py from the completed weeks which the order   *)
(* history covers.  Week w has the days 7w-6..7w; the analysis is made in  *)
(* week Len(sold) + 1, whose orders are `running`.                         *)
(*                                                                         *)
(* Rates are kept in twentieths of a unit, which is exact: medians need    *)
(* halves, half of the difference quarters, the caps tenths of a half.     *)
(***************************************************************************)
EXTENDS Integers, FiniteSets, FiniteSetsExt, Sequences, Functions

CONSTANTS
    WeeklySales,    \* units sold in a week
    CoveredFrom,    \* first day the order history is known to cover
    Lags,           \* days the history may end before the completed weeks do
    LongestHistory, \* bound: completed weeks
    NoRate          \* no estimate

ASSUME WeeklyAssumption == /\ WeeklySales \subseteq Nat /\ CoveredFrom \in Nat
                           /\ Lags \subseteq Nat /\ LongestHistory \in Nat
ASSUME NoRateAssumption == NoRate \notin Nat

VARIABLES
    sold,       \* units sold in each completed week
    running,    \* units sold in the running week
    lag,        \* the history covers all but the last lag days of the weeks
    estimate    \* [rate, regime, trusted] of the latest analysis

demandVars == <<sold, running, lag, estimate>>

-----------------------------------------------------------------------------
(* The history h: the units sold in its weeks, and the days it ends early. *)
CoveredTo(h) == 7 * Len(h.sold) - h.lag
CompleteWeeks(h) == {w \in DOMAIN h.sold : 7 * w - 6 >= CoveredFrom /\ 7 * w <= CoveredTo(h)}
UpToDate(h) == Len(h.sold) > 0 /\ Len(h.sold) \in CompleteWeeks(h)

(* The series starts with the first week in which anything was sold, be it  *)
(* covered or not; weeks without orders after it count as zero.             *)
Sold(h) == {w \in DOMAIN h.sold : h.sold[w] > 0}
Weeks(h) == {w \in CompleteWeeks(h) : \E first \in Sold(h) : first <= w}
Series(h) == LET weeks == Weeks(h)
             IN IF weeks = {} THEN <<>> ELSE SubSeq(h.sold, Min(weeks), Max(weeks))

(* The k-th smallest of a sequence, and twice its median.                   *)
Nth(s, k) == CHOOSE v \in Range(s) :
                /\ Cardinality({i \in DOMAIN s : s[i] < v}) < k
                /\ Cardinality({i \in DOMAIN s : s[i] <= v}) >= k
Median2(s) == LET n == Len(s) IN Nth(s, (n + 1) \div 2) + Nth(s, (n \div 2) + 1)

Between(low, x, high) == IF x < low THEN low ELSE IF x > high THEN high ELSE x

(* Ratios are compared exactly: m1 and m2 are twice the medians.            *)
Regime(m1, m2) == IF m1 = 0 /\ m2 > 0 THEN "transition"
                  ELSE IF 10 * m2 > 11 * m1 THEN "growth"
                  ELSE IF 10 * m2 < 9 * m1 THEN "decline"
                  ELSE "stable"
Confirmed(regime, m2, latest) == \/ regime = "growth" /\ 20 * latest > 11 * m2
                                 \/ regime = "decline" /\ 20 * latest < 9 * m2

(* The model of the last eight weeks: the median of the younger four, moved *)
(* towards the latest week by at most a fifth when the trend is confirmed.  *)
RateOf(m2, regime, latest) ==
    IF Confirmed(regime, m2, latest)
    THEN 10 * m2 + Between(-2 * m2, 10 * latest - 5 * m2, 2 * m2)
    ELSE 10 * m2

Trend(m1, m2, latest) == [rate |-> RateOf(m2, Regime(m1, m2), latest),
                          regime |-> Regime(m1, m2)]

\* Wrong on purpose: the older and the younger half are swapped.
FullModelSwapped(s) ==
    LET n == Len(s)
    IN CHOOSE e \in {Trend(m1, m2, s[n]) : m1 \in {Median2(SubSeq(s, n - 3, n))},
                                           m2 \in {Median2(SubSeq(s, n - 7, n - 4))}} : TRUE
(* The sets of one element give each median a name once it is computed.     *)
FullModel(s) ==
    LET n == Len(s)
    IN CHOOSE e \in {Trend(m1, m2, s[n]) : m1 \in {Median2(SubSeq(s, n - 7, n - 4))},
                                           m2 \in {Median2(SubSeq(s, n - 3, n))}} : TRUE

EstimateOf(s) == IF s = <<>> THEN [rate |-> NoRate, regime |-> "incomplete"]
                 ELSE IF Len(s) < 8 THEN [rate |-> 10 * Median2(s), regime |-> "incomplete"]
                 ELSE FullModel(s)

(* A history that does not reach the last completed week is not trusted,    *)
(* whatever the rate; a place where nothing was sold has no estimate.       *)
Estimate(h) ==
    IF Sold(h) = {} THEN [rate |-> NoRate, regime |-> "none", trusted |-> FALSE]
    ELSE CHOOSE r \in {[rate |-> e.rate, trusted |-> UpToDate(h),
                        regime |-> IF UpToDate(h) THEN e.regime ELSE "incomplete"]
                         : e \in {EstimateOf(s) : s \in {Series(h)}}} : TRUE

-----------------------------------------------------------------------------
DemandInit ==
    /\ sold = <<>> /\ running = 0 /\ lag = 0
    /\ estimate = Estimate([sold |-> <<>>, lag |-> 0])

Analyse(h) == sold' = h.sold /\ lag' = h.lag /\ estimate' = Estimate(h)

(* Orders of the running week come in, and the analysis is repeated.        *)
Sell(q) ==
    /\ running = 0 /\ q > 0 /\ Len(sold) < LongestHistory
    /\ running' = q
    /\ Analyse([sold |-> sold, lag |-> lag])

(* A week is complete; the history that is loaded next may end early.       *)
Monday(l) ==
    /\ Len(sold) < LongestHistory
    /\ running' = 0
    /\ \E h \in {[sold |-> Append(sold, running), lag |-> l]} : Analyse(h)

DemandStep == (\E q \in WeeklySales : Sell(q)) \/ (\E l \in Lags : Monday(l))
DemandSpec == DemandInit /\ [][DemandStep]_demandVars

-----------------------------------------------------------------------------
(* Type invariant. *)
DemandTypeOK ==
    /\ Range(sold) \subseteq WeeklySales \cup {0} /\ Len(sold) <= LongestHistory
    /\ running \in WeeklySales \cup {0} /\ lag \in Lags \cup {0}
    /\ estimate.rate \in Nat \cup {NoRate} /\ estimate.trusted \in BOOLEAN
    /\ estimate.regime \in {"none", "incomplete", "transition", "growth", "stable", "decline"}

(* The forecast follows sales: a larger last week never lowers the rate,    *)
(* although it can move the median, change the regime and undo the          *)
(* confirmation of a trend; and the rate stays within the best and the      *)
(* worst of the weeks it was made from, without what the running week sold. *)
RateMonotone ==
    \A s \in {Series([sold |-> sold, lag |-> lag])} : estimate.rate # NoRate =>
        LET n == Len(s)
            made == {20 * s[i] : i \in {j \in 1..n : j > n - 4 \/ n < 8}}
        IN /\ Min(made) <= estimate.rate /\ estimate.rate <= Max(made)
           /\ \A q \in WeeklySales :
                q > s[n] => EstimateOf([s EXCEPT ![n] = q]).rate >= estimate.rate
=============================================================================
