----------------------- MODULE EvidenceReconciliation -----------------------
(***************************************************************************)
(* Before an analysis the rows of its sources are put together: labels are *)
(* resolved to the clusters of the tariffs, rows outside the catalog are   *)
(* left out, and what several rows say about one thing is reconciled.      *)
(* Each source is read row by row; in which order its rows come is up to   *)
(* the report or the vendor.                                               *)
(***************************************************************************)
EXTENDS Integers, FiniteSets

CONSTANTS
    Inputs,         \* inputs [mode, rows, catalog, complete]: mode is "api" or "files",
                    \* catalog a set of SKUs or None, complete the SKUs whose seller
                    \* stock is complete
    Tariffed,       \* labels of clusters that the tariffs name
    ManualLabels,   \* the manual mappings, a function on labels
    None            \* an absent field

\* Stock figures are counts, a recommendation is about a product and a pack
\* multiple about an article: the readers leave out every other row.
ASSUME InputsAssumption ==
    /\ None \notin Tariffed
    /\ \A i \in Inputs :
          /\ IsFiniteSet(i.rows)
          /\ \A r \in i.rows :
                /\ r.units \in Nat \cup {None}
                /\ r.kind \in {"stock", "ozon"} => r.sku # None
                /\ r.kind = "pack" => r.article # None

(* A row is [kind, sku, article, label, origin, warehouse, value, units]:   *)
(* "stock"  availability: recommended quantity (value), FBS units           *)
(* "seller" operational seller stock: FBS units                             *)
(* "ozon"   a recommendation of the API: cluster (label), quantity (value)  *)
(* "fact"   a product of the catalog: article and SKU                       *)
(* "order"  article and SKU, destination (label) and origin                 *)
(* "pack"   pack multiple (value) of an article, None when it is unknown    *)
(* "unitka" a product's economics, by SKU or by article                     *)

VARIABLES
    input,          \* the input that is read
    pending,        \* its rows not yet read
    recommended,    \* recommended[<<sku, cluster>>]: a function on what is known
    contradicted,   \* recommendations that rows disagree on
    located,        \* located[w]: the clusters rows put warehouse w in
    units,          \* units[s]: the FBS stock figures of s
    primary,        \* primary[a]: the SKU of article a in the current evidence
    primaryConflicts,
    fallback,       \* fallback[a]: its SKUs in the orders
    packs,          \* packs[a]: the pack multiple of a, None when unknown or disputed
    keptOrders,     \* the orders that are kept: [sku, to, from]
    joined          \* products of the unitka that got a SKU: [article, sku]

recVars == <<recommended, contradicted>>
articleVars == <<primary, primaryConflicts>>
evidenceVars == <<input, pending, recVars, located, units, articleVars, fallback,
                  packs, keptOrders, joined>>

Put(f, k, v) == [x \in DOMAIN f \cup {k} |-> IF x = k THEN v ELSE f[x]]
AddTo(f, k, v) == Put(f, k, {v} \cup IF k \in DOMAIN f THEN f[k] ELSE {})
Empty == [x \in {} |-> {}]

-----------------------------------------------------------------------------
(* A manual mapping to a cluster the tariffs do not name is not used.       *)
Resolved(label) ==
    IF label \in DOMAIN ManualLabels /\ ManualLabels[label] \in Tariffed THEN ManualLabels[label]
    ELSE IF label \in Tariffed THEN label ELSE None

InCatalog(r) == input.catalog = None \/ r.sku \in input.catalog

(* Two rows that disagree leave the recommendation unknown for good.        *)
\* Wrong on purpose: a third row revives a disputed recommendation.
RecommendAnew(k, q) ==
    IF k \in DOMAIN recommended /\ recommended[k] # q
    THEN /\ contradicted' = contradicted \cup {k}
         /\ recommended' = [x \in DOMAIN recommended \ {k} |-> recommended[x]]
    ELSE recommended' = Put(recommended, k, q) /\ UNCHANGED contradicted
Recommend(k, q) ==
    IF k \in DOMAIN recommended /\ recommended[k] # q
    THEN /\ contradicted' = contradicted \cup {k}
         /\ recommended' = [x \in DOMAIN recommended \ {k} |-> recommended[x]]
    ELSE /\ recommended' = IF k \in contradicted THEN recommended ELSE Put(recommended, k, q)
         /\ UNCHANGED contradicted

NameArticle(r) ==
    IF r.article = None THEN UNCHANGED articleVars
    ELSE IF r.article \in DOMAIN primary /\ primary[r.article] # r.sku
    THEN /\ primaryConflicts' = primaryConflicts \cup {r.article}
         /\ UNCHANGED primary
    ELSE primary' = Put(primary, r.article, r.sku) /\ UNCHANGED primaryConflicts

CountUnits(r) == units' = IF r.units = None THEN units ELSE AddTo(units, r.sku, r.units)

-----------------------------------------------------------------------------
ReconcileInit ==
    /\ input \in Inputs
    /\ pending = input.rows
    /\ recommended = Empty /\ contradicted = {}
    /\ located = Empty /\ units = Empty
    /\ primary = Empty /\ primaryConflicts = {} /\ fallback = Empty
    /\ packs = Empty /\ keptOrders = {} /\ joined = {}

Read(r, kind) == /\ r \in pending /\ r.kind = kind
                 /\ pending' = pending \ {r}
                 /\ UNCHANGED input
Left(r) == UNCHANGED <<recVars, located, units, articleVars, fallback, packs, keptOrders, joined>>

(* Seller stock counts although the cluster of the row is not resolved.  In *)
(* API mode the recommendations come from the API alone.                    *)
ReadStock(r) ==
    /\ Read(r, "stock")
    /\ LET c == Resolved(r.label)
       IN IF ~InCatalog(r) THEN Left(r)
          ELSE /\ CountUnits(r)
               /\ IF c = None THEN UNCHANGED <<recVars, located, articleVars>>
                  ELSE /\ IF r.value = None \/ input.mode = "api" THEN UNCHANGED recVars
                          ELSE Recommend(<<r.sku, c>>, r.value)
                       /\ located' = AddTo(located, r.warehouse, c)
                       /\ NameArticle(r)
               /\ UNCHANGED <<fallback, packs, keptOrders, joined>>

ReadSeller(r) ==
    /\ Read(r, "seller")
    /\ IF InCatalog(r) THEN CountUnits(r) ELSE UNCHANGED units
    /\ UNCHANGED <<recVars, located, articleVars, fallback, packs, keptOrders, joined>>

ReadRecommendation(r) ==
    /\ Read(r, "ozon")
    /\ IF input.mode = "api" THEN Recommend(<<r.sku, r.label>>, r.value) ELSE UNCHANGED recVars
    /\ UNCHANGED <<located, units, articleVars, fallback, packs, keptOrders, joined>>

ReadFact(r) ==
    /\ Read(r, "fact")
    /\ NameArticle(r)
    /\ UNCHANGED <<recVars, located, units, fallback, packs, keptOrders, joined>>

(* Without a destination an order is lost; without an origin it is demand   *)
(* but no route.                                                            *)
ReadOrder(r) ==
    /\ Read(r, "order")
    /\ IF ~InCatalog(r) \/ Resolved(r.label) = None THEN UNCHANGED <<fallback, keptOrders>>
       ELSE /\ keptOrders' = keptOrders \cup {[sku |-> r.sku, to |-> Resolved(r.label),
                                       from |-> Resolved(r.origin)]}
            /\ fallback' = IF r.article = None THEN fallback
                           ELSE AddTo(fallback, r.article, r.sku)
    /\ UNCHANGED <<recVars, located, units, articleVars, packs, joined>>

ReadPack(r) ==
    /\ Read(r, "pack")
    /\ packs' = Put(packs, r.article,
                    IF r.article \notin DOMAIN packs \/ packs[r.article] = r.value
                    THEN r.value ELSE None)
    /\ UNCHANGED <<recVars, located, units, articleVars, fallback, keptOrders, joined>>

(* The economics are joined when everything else is read.                   *)
SkusOf(r) ==
    IF r.sku # None THEN {r.sku}
    ELSE IF r.article \in primaryConflicts THEN {}
    ELSE IF r.article \in DOMAIN primary THEN {primary[r.article]}
    ELSE IF r.article \in DOMAIN fallback THEN fallback[r.article] ELSE {}

Join(r) ==
    /\ Read(r, "unitka")
    /\ \A x \in pending : x.kind = "unitka"
    /\ joined' = joined \cup {[article |-> r.article, sku |-> s] :
                                s \in {x \in SkusOf(r) : /\ SkusOf(r) = {x}
                                                         /\ InCatalog([sku |-> x])}}
    /\ UNCHANGED <<recVars, located, units, articleVars, fallback, packs, keptOrders>>

ReconcileStep == \E r \in pending :
    \/ ReadStock(r) \/ ReadSeller(r) \/ ReadRecommendation(r) \/ ReadFact(r)
    \/ ReadOrder(r) \/ ReadPack(r) \/ Join(r)
ReconcileSpec == ReconcileInit /\ [][ReconcileStep]_evidenceVars

-----------------------------------------------------------------------------
(* What the analysis takes from the reconciled evidence.                    *)

BadWarehouses == {w \in DOMAIN located : Cardinality(located[w]) > 1}

(* The seller's stock: the one positive figure, or a zero all agree on.     *)
Positive(s) == {n \in units[s] : n > 0}
SellerStock(s) ==
    IF s \notin input.complete \/ s \notin DOMAIN units THEN None
    ELSE IF Positive(s) = {} THEN 0
    ELSE IF Cardinality(Positive(s)) > 1 THEN None
    ELSE CHOOSE n \in Positive(s) : TRUE

-----------------------------------------------------------------------------
Done(kind) == {r \in input.rows \ pending : r.kind = kind}
KnownSkus == {r.sku : r \in {x \in input.rows : x.sku # None}}
Articles == {r.article : r \in {x \in input.rows : x.article # None}}

(* Type invariant. *)
ReconcileTypeOK ==
    /\ pending \subseteq input.rows
    /\ DOMAIN recommended \cap contradicted = {}
    /\ \A k \in DOMAIN recommended \cup contradicted : k[1] \in KnownSkus
    /\ DOMAIN primary \cup DOMAIN fallback \cup DOMAIN packs \subseteq Articles
    /\ \A o \in keptOrders : o.to \in Tariffed /\ o.from \in Tariffed \cup {None}

(* What rows recommend for k.                                               *)
Recommendations(k) ==
    IF input.mode = "api"
    THEN {r.value : r \in {x \in Done("ozon") : <<x.sku, x.label>> = k}}
    ELSE {r.value : r \in {x \in Done("stock") : /\ InCatalog(x) /\ x.value # None
                                                 /\ <<x.sku, Resolved(x.label)>> = k}}
NamesOf(a) == {r.sku : r \in {x \in Done("fact") : x.article = a}
                       \cup {x \in Done("stock") : x.article = a /\ InCatalog(x)
                                                   /\ Resolved(x.label) # None}}
PacksOf(a) == {r.value : r \in {x \in Done("pack") : x.article = a}}

(* The evidence does not depend on the order of the rows, nor on how often  *)
(* one is repeated: a quantity, a pack multiple or the SKU of an article is *)
(* known exactly when all rows that speak of it agree, and what rows        *)
(* disagree on stays unknown, whatever comes later.  A product is joined    *)
(* to no SKU but the only one its article can mean.                         *)
OrderIndependent ==
    /\ \A k \in KnownSkus \X Tariffed :
          /\ k \in contradicted <=> Cardinality(Recommendations(k)) > 1
          /\ k \in DOMAIN recommended <=> Cardinality(Recommendations(k)) = 1
          /\ k \in DOMAIN recommended => Recommendations(k) = {recommended[k]}
    /\ \A a \in Articles :
          /\ a \in primaryConflicts <=> Cardinality(NamesOf(a)) > 1
          /\ a \in DOMAIN packs /\ packs[a] # None => PacksOf(a) = {packs[a]}
          /\ Cardinality(PacksOf(a)) = 1 => PacksOf(a) = {packs[a]}
    /\ \A j \in joined, s \in KnownSkus :
          s \in NamesOf(j.article) =>
              s = j.sku \/ \E r \in input.rows : r.kind = "unitka" /\ r.sku = j.sku
    /\ \A s \in DOMAIN units : SellerStock(s) # None =>
          \A r \in Done("stock") \cup Done("seller") :
              r.sku = s /\ InCatalog(r) /\ r.units # None => r.units \in {0, SellerStock(s)}
=============================================================================
