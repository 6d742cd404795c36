----------------------------- MODULE SupplyPlan -----------------------------
(***************************************************************************)
(* How one SKU gets from evidence to whole packs per destination cluster:  *)
(* need.py, feasibility.py and placement.py assess the clusters,           *)
(* optimizer.py hands out the seller's stock cluster by cluster in order   *)
(* of priority, facts.py and shippable_plan.py round the allocation to     *)
(* packs and spend the stock a second time, in the same order.  Each loop  *)
(* of the code is a loop of actions here, one action per iteration.        *)
(*                                                                         *)
(* Cluster identifiers are integers because ties are broken by them.       *)
(* Profits, margins and thresholds are whole numbers; the Decimal context  *)
(* (40 digits) never rounds products of such numbers.                      *)
(***************************************************************************)
EXTENDS Integers, FiniteSets, FiniteSetsExt, Sums

CONSTANTS
    Clusters,      \* all destination clusters
    Cases,         \* evidence an analysis may start from: [offer, sku], where
                   \* offer[c] is the evidence of the SKU in cluster c and sku
                   \* what is known of the SKU itself
    HorizonDays,   \* planning horizon of the scenario, in days
    Thresholds,    \* [profit, margin, roi]: the optimizer's minima
    Unlimited,     \* a restriction row that allows any quantity
    Unknown        \* Python's None

\* What the readers of the inputs and the contracts let through: quantities
\* are not negative, and the margin, profit over price, has the sign of the
\* profit.
OfferTypeOK(o) ==
    /\ {o.rate, o.fbo, o.inbound, o.ozon} \subseteq Nat \cup {Unknown}
    /\ {o.profit, o.margin, o.roi} \subseteq Int \cup {Unknown}
    /\ {o.profit, o.margin} \subseteq Int /\ o.profit > 0 => o.margin >= 0
    /\ {o.route, o.demand, o.distortion} \subseteq Int
    /\ IsFiniteSet(o.sites)
    /\ \A r \in o.sites : r.max \in Nat \cup {Unlimited, Unknown}

ASSUME ClustersAssumption == Clusters \subseteq Int /\ IsFiniteSet(Clusters)
ASSUME CasesAssumption ==
    \A k \in Cases : /\ k = [offer |-> k.offer, sku |-> k.sku]
                     /\ DOMAIN k.offer \subseteq Clusters
                     /\ \A c \in DOMAIN k.offer : OfferTypeOK(k.offer[c])
                     /\ k.sku.stock \in Nat \cup {Unknown}
                     /\ k.sku.pack \in (Nat \ {0}) \cup {Unknown}
ASSUME HorizonAssumption == HorizonDays \in Nat \ {0}
ASSUME UnknownAssumption == Unknown \notin Int /\ Unlimited \notin Int /\ Unknown # Unlimited

VARIABLES
    offer,     \* offer[c]: the evidence of cluster c
    sku,       \* [stock, pack, live, family, objective]; live: API mode,
               \* where Ozon itself is asked about capacity later
    stage,     \* "assess", "allocate", "round", "planned"
    rest,      \* clusters the current loop has still to visit
    left,      \* stock the current loop has not handed out
    alloc,     \* alloc[c]: analytical quantity the optimizer gave to c
    ship       \* ship[c]: whole packs the plan sends to c, or Unknown

planVars == <<offer, sku, stage, rest, left, alloc, ship>>

Places == DOMAIN offer     \* the destinations of this SKU
Known(v) == v # Unknown
Least(a, b) == IF a <= b THEN a ELSE b
CeilDiv(a, b) == -((-a) \div b)

-----------------------------------------------------------------------------
(* Need: the demand forecast over the horizon minus what is on the way.    *)

NeedBlocked(o) == ~Known(o.rate) \/ ~Known(o.fbo) \/ ~Known(o.inbound)

Need(o) == IF NeedBlocked(o) THEN Unknown
           ELSE LET raw == CeilDiv(o.rate * HorizonDays - 7 * (o.fbo + o.inbound), 7)
                IN IF raw > 0 THEN raw ELSE 0

(* Physical feasibility.  o.sites is the set of restriction rows            *)
(* [site, state, max], where max is a quantity, Unlimited or Unknown.       *)
StatesAt(o, w) == {r.state : r \in {x \in o.sites : x.site = w}}
EligibleSites(o) == {r \in o.sites : StatesAt(o, r.site) = {"allowed"}}
Maxima(rows) == {r.max : r \in rows} \ {Unknown, Unlimited}

Allowed(o) == sku.live \/ EligibleSites(o) # {}
Ceiling(o) == IF sku.live THEN Unknown
              ELSE IF EligibleSites(o) = {} THEN 0
              ELSE IF Maxima(EligibleSites(o)) = {} THEN Unknown
              ELSE Min(Maxima(EligibleSites(o)))

(* The most the optimizer may give to a cluster by itself.  A cluster that  *)
(* Ozon recommends nothing for enters the comparison with a recommendation  *)
(* of zero.                                                                 *)
Recommended(o) == IF Known(o.ozon) THEN o.ozon ELSE 0
Cap(o) == IF ~Allowed(o) \/ ~Known(Need(o)) THEN 0
          ELSE Min({Need(o)}
                   \cup (IF sku.family = "safe" THEN {Recommended(o)} ELSE {})
                   \cup ({Ceiling(o)} \ {Unknown}))

Profitable(o) ==
    /\ Known(o.profit) /\ Known(o.margin) /\ Known(o.roi)
    /\ o.profit > 0
    /\ o.profit >= Thresholds.profit
    /\ o.margin >= Thresholds.margin
    /\ o.roi >= Thresholds.roi

Eligible(o) == Cap(o) > 0 /\ Profitable(o)

(* The stable sorts of the optimizer, most significant key first.           *)
Worth(o) == IF sku.objective = "max_profit" THEN o.profit ELSE o.margin
\* Wrong on purpose: the objective is sorted like the identifiers, ascending.
KeyAscending(c) == <<Worth(offer[c]), -offer[c].route, -offer[c].demand,
                     offer[c].distortion, -Need(offer[c]), c>>
Key(c) == <<-Worth(offer[c]), -offer[c].route, -offer[c].demand,
            offer[c].distortion, -Need(offer[c]), c>>
LexLess(s, t) == \E i \in DOMAIN s : /\ \A j \in 1..(i - 1) : s[j] = t[j]
                                     /\ s[i] < t[i]
Before(c, d) == LexLess(Key(c), Key(d))
First(S) == CHOOSE c \in S : \A d \in S \ {c} : Before(c, d)
EligibleClusters == {c \in Places : Eligible(offer[c])}

-----------------------------------------------------------------------------
(* Whole packs.                                                             *)

RoundDown(q, pack) == (q \div pack) * pack
NearestPack(q, pack) ==
    LET lower == RoundDown(q, pack)
    IN IF q = lower \/ q - lower < lower + pack - q THEN lower ELSE lower + pack

(* The capacity of a cluster: the roomiest allowed warehouse, never a sum.  *)
AllowedRows(o) == {r \in o.sites : r.state = "allowed"}
Capacity(o) ==
    LET max == {r.max : r \in AllowedRows(o)}
    IN IF sku.live \/ Unlimited \in max \/ max \subseteq {Unknown} THEN Unknown
       ELSE IF Unknown \in max /\ Maxima(AllowedRows(o)) = {0} THEN Unknown
       ELSE Max(Maxima(AllowedRows(o)))
PackCapacity(o) == IF Known(Capacity(o)) THEN RoundDown(Capacity(o), sku.pack) ELSE Unknown

Rounded(c) == IF alloc[c] = 0 THEN 0
              ELSE IF ~Known(sku.pack) THEN Unknown
              ELSE NearestPack(alloc[c], sku.pack)

-----------------------------------------------------------------------------
PlanInit ==
    /\ \E k \in Cases : offer = k.offer /\ sku = k.sku
    /\ stage = "assess"
    /\ rest = {} /\ left = 0
    /\ alloc = [c \in Places |-> 0]
    /\ ship = [c \in Places |-> Unknown]

(* Assess every cluster and start handing out the stock.                    *)
Assess ==
    /\ stage = "assess" /\ Known(sku.stock)
    /\ stage' = "allocate"
    /\ rest' = EligibleClusters
    /\ left' = sku.stock
    /\ UNCHANGED <<offer, sku, alloc, ship>>

(* Without evidence of the seller's stock nothing is allocated: a need known *)
(* to be zero still is a line of zero, every other line is unknown.         *)
Unallocated ==
    /\ stage = "assess" /\ ~Known(sku.stock)
    /\ stage' = "planned"
    /\ ship' = [c \in Places |-> IF Need(offer[c]) = 0 THEN 0 ELSE Unknown]
    /\ UNCHANGED <<offer, sku, rest, left, alloc>>

(* One iteration of the allocation loop.                                    *)
Allocate ==
    /\ stage = "allocate" /\ rest # {}
    /\ LET c == First(rest)
           q == Least(left, Cap(offer[c]))
       IN /\ alloc' = [alloc EXCEPT ![c] = q]
          /\ left' = left - q
          /\ rest' = rest \ {c}
    /\ UNCHANGED <<offer, sku, stage, ship>>

(* The allocation becomes drafts of lines: what was allocated nothing ships *)
(* nothing, the positive lines wait for their turn.                         *)
Draft ==
    /\ stage = "allocate" /\ rest = {} /\ sku.family = "calculated"
    /\ stage' = "round"
    /\ rest' = {c \in Places : alloc[c] > 0}
    /\ left' = sku.stock
    /\ ship' = [c \in Places |-> IF alloc[c] = 0 THEN 0 ELSE Unknown]
    /\ UNCHANGED <<offer, sku, alloc>>

(* One iteration of the rounding loop.  A line whose pack is unknown keeps  *)
(* its analytical quantity of the stock back, and stays unknown.            *)
ShipUnknownPack ==
    /\ stage = "round" /\ rest # {} /\ ~Known(sku.pack)
    /\ LET c == First(rest)
       IN /\ left' = left - Least(left, alloc[c])
          /\ rest' = rest \ {c}
    /\ UNCHANGED <<offer, sku, stage, alloc, ship>>

\* Wrong on purpose: the stock is spent to the last unit, not to the last pack.
PacksOfTarget(c) == Min({Rounded(c), left}
                        \cup ({PackCapacity(offer[c])} \ {Unknown}))
Packs(c) == Min({Rounded(c), RoundDown(left, sku.pack)}
                \cup ({PackCapacity(offer[c])} \ {Unknown}))

ShipPacks ==
    /\ stage = "round" /\ rest # {} /\ Known(sku.pack)
    /\ LET c == First(rest)
       IN /\ ship' = [ship EXCEPT ![c] = Packs(c)]
          /\ left' = left - Packs(c)
          /\ rest' = rest \ {c}
    /\ UNCHANGED <<offer, sku, stage, alloc>>

Publish ==
    /\ stage = "round" /\ rest = {}
    /\ stage' = "planned"
    /\ UNCHANGED <<offer, sku, rest, left, alloc, ship>>

PlanStep == Assess \/ Unallocated \/ Allocate \/ Draft \/ ShipUnknownPack \/ ShipPacks \/ Publish
PlanSpec == PlanInit /\ [][PlanStep]_planVars
-----------------------------------------------------------------------------
Allocated == stage = "allocate" /\ rest = {}
Planned == stage = "planned" /\ Known(sku.stock)
Target(c) == Min({Rounded(c)} \cup ({PackCapacity(offer[c])} \ {Unknown}))

(* Type invariant. *)
PlanTypeOK ==
    /\ [offer |-> offer, sku |-> sku] \in Cases
    /\ stage \in {"assess", "allocate", "round", "planned"}
    /\ rest \subseteq Places
    /\ left \in Nat
    /\ alloc \in [Places -> Nat]
    /\ ship \in [Places -> Nat \cup {Unknown}]

(* The greedy loop of optimize_allocations is as good as any other way to   *)
(* hand the stock to eligible clusters within their ceilings: no division   *)
(* has a larger total of the objective (profit, or margin, per unit).       *)
AllocationOptimal ==
    Allocated =>
        LET caps == {Cap(offer[c]) : c \in Places} \cup {0}
            value(f) == Total([c \in EligibleClusters |-> f[c] * Worth(offer[c])], EligibleClusters)
        IN \A f \in [EligibleClusters -> 0..Max(caps)] :
             /\ \A c \in EligibleClusters : f[c] <= Cap(offer[c])
             /\ Total(f, EligibleClusters) <= sku.stock
             => value(f) <= value(alloc)

(* No line that falls short of its target leaves a whole pack unused, and  *)
(* none after it in priority gets any.                                     *)
NoPackStranded ==
    Planned /\ Known(sku.pack) =>
        \A c \in Places : alloc[c] > 0 /\ ship[c] < Target(c) =>
            /\ left < sku.pack
            /\ \A d \in Places : alloc[d] > 0 /\ Before(c, d) => ship[d] = 0

(* What ShippablePlan and ShippableLine refuse to be built from, and what   *)
(* the second pass over the stock is for: lines in whole packs, within the  *)
(* stock and the physical capacity, although rounding may have raised each  *)
(* line over its allocation, and no pack left stranded.                     *)
PlanShippable ==
    Planned =>
        /\ Total(ship, {c \in Places : Known(ship[c])}) <= sku.stock
        /\ \A c \in Places : Known(ship[c]) /\ ship[c] > 0 =>
               /\ ship[c] % sku.pack = 0
               /\ ship[c] <= Target(c)
               /\ Eligible(offer[c])
        /\ NoPackStranded

(* "Missing evidence remains unknown; it is never coerced to zero": a       *)
(* cluster whose need is unknown has no known quantity in the plan.         *)
UnknownNeedStaysUnknown ==
    stage = "planned" =>
        \A c \in Places : ~Known(Need(offer[c])) => ~Known(ship[c])
=============================================================================
