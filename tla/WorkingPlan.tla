---------------------------- MODULE WorkingPlan ----------------------------
(***************************************************************************)
(* The manager's working quantities over the shippable plan of one SKU     *)
(* (working_plan.py and the /api/working-plan handlers): overrides by hand, *)
(* lines where Ozon's own recommendation is selected instead of the model's *)
(* quantity, and the working plan materialised from both.  Overrides live   *)
(* in the project file and outlive an analysis; selections belong to one    *)
(* analysis and to a recommendation that is not older than 24 hours.        *)
(*                                                                         *)
(* Each handler runs under the project lock from the re-check of its base   *)
(* to the answer, so it is one action; PlanningSession has the interleaving *)
(* of handlers and analyses.                                                *)
(***************************************************************************)
EXTENDS SupplyPlan

CONSTANTS
    Quantities,     \* what the manager may type
    Managed         \* the cases whose plans the manager works on (a bound)

ASSUME QuantitiesAssumption == Quantities \subseteq Nat
ASSUME ManagedAssumption == Managed \subseteq Cases

VARIABLES
    manual,         \* manual[c]: the override of c, or Unknown
    base,           \* base[c]: the system quantity an override was made against
    selected,       \* lines where Ozon's recommendation is selected
    fresh           \* the recommendation is at most 24 hours old

editVars == <<manual, base, selected, fresh>>
workVars == <<planVars, editVars>>

-----------------------------------------------------------------------------
(* ozon_choice_reason: why Ozon's quantity may be chosen for a line.  The   *)
(* record o.doubt says that the demand estimate is of low confidence or the *)
(* row carries a stockout or distortion signal; o.packed that volume, zone  *)
(* and article are known.                                                   *)
Choosable(c) ==
    LET o == offer[c]
    IN /\ sku.live /\ fresh
       /\ o.doubt
       /\ Known(o.ozon)
       /\ Known(sku.stock) /\ Known(sku.pack) /\ o.packed
       /\ Profitable(o)

ChosenNow == {c \in selected \cap Places : Choosable(c)}
Manual(c) == c \in Places /\ Known(manual[c])

(* Lines in the order in which they may take stock: the chosen ones first,  *)
(* then by priority of the allocation, then by identifier.                  *)
NoRank == 1000000
Rank(c) == IF c \in EligibleClusters /\ Known(sku.stock)
           THEN 1 + Cardinality({d \in EligibleClusters \ {c} : Before(d, c)})
           ELSE NoRank
Turn(c) == <<IF c \in ChosenNow THEN 0 ELSE 1, Rank(c), c>>
Sooner(c, d) == LexLess(Turn(c), Turn(d))

RoundUp(q, pack) == CeilDiv(q, pack) * pack
Requested(c) == IF c \in ChosenNow THEN offer[c].ozon ELSE ship[c]
Wanted(c) == LET q == IF c \in ChosenNow THEN RoundUp(offer[c].ozon, sku.pack) ELSE ship[c]
             IN IF Known(sku.pack) /\ Known(PackCapacity(offer[c]))
                THEN Least(q, PackCapacity(offer[c])) ELSE q

Committed == Total(manual, {c \in Places : Manual(c)})
\* Wrong on purpose: quantities typed by hand are not kept back.
BudgetForAll == IF Known(sku.stock) THEN sku.stock ELSE 0
Budget == LET free == (IF Known(sku.stock) THEN sku.stock ELSE 0) - Committed
          IN IF free > 0 THEN free ELSE 0

(* What the line c takes when r units of the budget are left.               *)
Taken(c, r) == IF Manual(c) \/ ~Known(Requested(c)) THEN 0
               ELSE Least(Wanted(c), IF Known(sku.pack) THEN RoundDown(r, sku.pack) ELSE r)

(* The distribution loop over the lines in their order: Spent[S] is what    *)
(* the lines S took when they were the first of them.                       *)
LastLine(S) == CHOOSE c \in S : \A d \in S \ {c} : Sooner(d, c)
Spent[S \in SUBSET Places] ==
    IF S = {} THEN 0
    ELSE LET c == LastLine(S)
             earlier == Spent[S \ {c}]
         IN earlier + Taken(c, Budget - earlier)
Given(c) == Taken(c, Budget - Spent[{d \in Places : Sooner(d, c)}])

(* materialize_working_plan: the working quantity of a line.                *)
Working(c) ==
    IF Manual(c) THEN manual[c]
    ELSE IF ChosenNow = {} \/ ~Known(Requested(c)) THEN ship[c]
    ELSE Given(c)

WorkingTotal == Total([c \in Places |-> Working(c)], {c \in Places : Known(Working(c))})
StockExceeded == Known(sku.stock) /\ WorkingTotal > sku.stock

Blocked(c) ==
    LET q == Working(c)
    IN \/ StockExceeded
       \/ ~Known(sku.pack) /\ (IF Known(q) THEN q > 0 ELSE alloc[c] > 0)
       \/ /\ Known(q) /\ q > 0 /\ Known(sku.pack)
          /\ \/ q % sku.pack # 0
             \/ Known(PackCapacity(offer[c])) /\ q > PackCapacity(offer[c])

-----------------------------------------------------------------------------
WorkInit ==
    /\ PlanInit
    /\ manual = [c \in Clusters |-> Unknown]
    /\ base = [c \in Clusters |-> Unknown]
    /\ selected = {}
    /\ fresh = TRUE

Ready == stage = "planned" /\ [offer |-> offer, sku |-> sku] \in Managed
Valid(q) == q = 0 \/ (Known(sku.pack) /\ q % sku.pack = 0)

ForgetManual(S) ==
    /\ manual' = [c \in Clusters |-> IF c \in S THEN Unknown ELSE manual[c]]
    /\ base' = [c \in Clusters |-> IF c \in S THEN Unknown ELSE base[c]]

(* PUT /override: typing the system quantity removes the override.          *)
Override(c, q) ==
    /\ Ready /\ c \in Places /\ Valid(q)
    /\ IF q = ship[c] THEN ForgetManual({c})
       ELSE /\ manual' = [manual EXCEPT ![c] = q]
            /\ base' = [base EXCEPT ![c] = ship[c]]
    /\ selected' = selected \ {c}
    /\ UNCHANGED <<planVars, fresh>>

(* POST /reset and /bulk with reset_to_system.                              *)
Reset(S) ==
    /\ Ready /\ S \subseteq Places
    /\ ForgetManual(S)
    /\ selected' = selected \ S
    /\ UNCHANGED <<planVars, fresh>>

(* POST /bulk with set_zero.                                                *)
SetZero(S) ==
    /\ Ready /\ S \subseteq Places
    /\ LET zero == {c \in S : ship[c] # 0}
       IN /\ manual' = [c \in Clusters |-> IF c \in zero THEN 0
                                           ELSE IF c \in S THEN Unknown ELSE manual[c]]
          /\ base' = [c \in Clusters |-> IF c \in zero THEN ship[c]
                                         ELSE IF c \in S THEN Unknown ELSE base[c]]
    /\ selected' = selected \ S
    /\ UNCHANGED <<planVars, fresh>>

(* POST /reset-all also forgets overrides of clusters this plan lacks.      *)
ResetAll ==
    /\ Ready
    /\ ForgetManual(Clusters)
    /\ selected' = {}
    /\ UNCHANGED <<planVars, fresh>>

(* POST /source and /source/bulk with OZON: the rows that may be chosen     *)
(* lose their overrides; a single row that may not is an error.             *)
SelectOzonLines(S) ==
    LET accepted == {c \in S \cap Places : Choosable(c)}
    IN /\ Ready /\ (accepted # {} \/ Cardinality(S) > 1)
       /\ selected' = selected \cup accepted
       /\ ForgetManual(accepted)
       /\ UNCHANGED <<planVars, fresh>>

(* The same handlers with CALCULATED.                                       *)
SelectModelLines(S) ==
    /\ Ready /\ S \subseteq Places
    /\ selected' = selected \ S
    /\ UNCHANGED <<planVars, manual, base, fresh>>

(* 24 hours pass.                                                           *)
Expire ==
    /\ Ready /\ fresh
    /\ fresh' = FALSE
    /\ UNCHANGED <<planVars, manual, base, selected>>

(* A new analysis is stored: its plan is built again, with a new            *)
(* recommendation, no selection, and the overrides of the project.          *)
Recalculate(k) ==
    /\ Ready /\ k \in Managed
    /\ offer' = k.offer /\ sku' = k.sku
    /\ stage' = "assess" /\ rest' = {} /\ left' = 0
    /\ alloc' = [c \in DOMAIN k.offer |-> 0]
    /\ ship' = [c \in DOMAIN k.offer |-> Unknown]
    /\ selected' = {} /\ fresh' = TRUE
    /\ UNCHANGED <<manual, base>>

Edit ==
    \/ \E c \in Clusters, q \in Quantities : Override(c, q)
    \/ \E S \in SUBSET Places \ {{}} :
           Reset(S) \/ SetZero(S) \/ SelectOzonLines(S) \/ SelectModelLines(S)
    \/ ResetAll \/ Expire
    \/ \E k \in Managed : Recalculate(k)

WorkStep == (PlanStep /\ UNCHANGED editVars) \/ Edit
WorkSpec == WorkInit /\ [][WorkStep]_workVars

-----------------------------------------------------------------------------
(* Type invariant. *)
WorkTypeOK ==
    /\ PlanTypeOK
    /\ manual \in [Clusters -> Quantities \cup {0, Unknown}]
    /\ base \in [Clusters -> Nat \cup {Unknown}]
    /\ selected \subseteq Clusters
    /\ fresh \in BOOLEAN

(* Whatever was typed, selected, reset and recalculated before: no line has *)
(* both a quantity by hand and Ozon's; choosing Ozon's quantity for some    *)
(* lines never takes the SKU over the stock that the quantities by hand     *)
(* leave, and a chosen line is short only when less than a pack is left,    *)
(* in which case no line of the model got any (materialize_working_plan).   *)
SelectionFair ==
    /\ selected \cap {c \in Clusters : Known(manual[c])} = {}
    /\ Ready /\ ChosenNow # {} =>
          /\ Committed <= sku.stock => WorkingTotal <= sku.stock
          /\ \A c \in ChosenNow :
                 LET full == RoundUp(offer[c].ozon, sku.pack)
                 IN /\ Working(c) <= full /\ Working(c) % sku.pack = 0
                    /\ Working(c) < full =>
                          /\ Budget - Spent[Places] < sku.pack
                          /\ \A d \in Places : d \notin ChosenNow /\ ~Manual(d)
                                 /\ Known(Working(d)) => Working(d) = 0
=============================================================================
