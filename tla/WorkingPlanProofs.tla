--------------------------- MODULE WorkingPlanProofs ---------------------------
(***************************************************************************)
(* What holds of a SKU's allocation, of its shippable plan and of the      *)
(* manager's work on it for every value of the constants: any number of    *)
(* clusters, any stock, pack, ceilings and economics.                      *)
(*                                                                         *)
(* The sums are folds over finite sets, and the loops of the working plan  *)
(* a recursive function of the lines visited: both are reasoned about by a *)
(* least counterexample (FiniteSetFacts).                                  *)
(***************************************************************************)
EXTENDS WorkingPlan, ShipmentOptions, SequenceTheorems, FiniteSetFacts

-----------------------------------------------------------------------------
(* The order of priority.                                                  *)

LEMMA IntervalsOfOrder ==
    /\ 1..0 = {} /\ 1..1 = {1} /\ 1..2 = {1, 2} /\ 1..3 = {1, 2, 3}
    /\ 1..4 = {1, 2, 3, 4} /\ 1..5 = {1, 2, 3, 4, 5} /\ 1..6 = {1, 2, 3, 4, 5, 6}
OBVIOUS

\* LexLess of keys with six components, written out.
LEMMA LexLessOfSix ==
    ASSUME NEW a1, NEW a2, NEW a3, NEW a4, NEW a5, NEW a6,
           NEW b1, NEW b2, NEW b3, NEW b4, NEW b5, NEW b6
    PROVE  LexLess(<<a1, a2, a3, a4, a5, a6>>, <<b1, b2, b3, b4, b5, b6>>) <=>
               \/ a1 < b1
               \/ a1 = b1 /\ a2 < b2
               \/ a1 = b1 /\ a2 = b2 /\ a3 < b3
               \/ a1 = b1 /\ a2 = b2 /\ a3 = b3 /\ a4 < b4
               \/ a1 = b1 /\ a2 = b2 /\ a3 = b3 /\ a4 = b4 /\ a5 < b5
               \/ a1 = b1 /\ a2 = b2 /\ a3 = b3 /\ a4 = b4 /\ a5 = b5 /\ a6 < b6
<1> DEFINE s == <<a1, a2, a3, a4, a5, a6>>
           t == <<b1, b2, b3, b4, b5, b6>>
           Less(i) == (\A j \in 1..(i - 1) : s[j] = t[j]) /\ s[i] < t[i]
<1>1. DOMAIN s = {1, 2, 3, 4, 5, 6}
  BY IntervalsOfOrder
<1>2. /\ s[1] = a1 /\ s[2] = a2 /\ s[3] = a3 /\ s[4] = a4 /\ s[5] = a5 /\ s[6] = a6
      /\ t[1] = b1 /\ t[2] = b2 /\ t[3] = b3 /\ t[4] = b4 /\ t[5] = b5 /\ t[6] = b6
  OBVIOUS
<1>3. LexLess(s, t) <=> \E i \in {1, 2, 3, 4, 5, 6} : Less(i)
  BY <1>1 DEF LexLess
<1> HIDE DEF s, t
<1>4. /\ Less(1) <=> s[1] < t[1]
      /\ Less(2) <=> s[1] = t[1] /\ s[2] < t[2]
      /\ Less(3) <=> s[1] = t[1] /\ s[2] = t[2] /\ s[3] < t[3]
      /\ Less(4) <=> s[1] = t[1] /\ s[2] = t[2] /\ s[3] = t[3] /\ s[4] < t[4]
      /\ Less(5) <=> s[1] = t[1] /\ s[2] = t[2] /\ s[3] = t[3] /\ s[4] = t[4] /\ s[5] < t[5]
      /\ Less(6) <=> s[1] = t[1] /\ s[2] = t[2] /\ s[3] = t[3] /\ s[4] = t[4] /\ s[5] = t[5]
                     /\ s[6] < t[6]
  BY IntervalsOfOrder
<1> HIDE DEF Less
<1>5. LexLess(s, t) <=> Less(1) \/ Less(2) \/ Less(3) \/ Less(4) \/ Less(5) \/ Less(6)
  BY <1>3
<1>6. LexLess(s, t) <=>
               \/ a1 < b1
               \/ a1 = b1 /\ a2 < b2
               \/ a1 = b1 /\ a2 = b2 /\ a3 < b3
               \/ a1 = b1 /\ a2 = b2 /\ a3 = b3 /\ a4 < b4
               \/ a1 = b1 /\ a2 = b2 /\ a3 = b3 /\ a4 = b4 /\ a5 < b5
               \/ a1 = b1 /\ a2 = b2 /\ a3 = b3 /\ a4 = b4 /\ a5 = b5 /\ a6 < b6
  BY <1>2, <1>4, <1>5, Zenon
<1> QED
  BY <1>6 DEF s, t

\* What the contracts say of an offer of this SKU.
LEMMA OfferTyped ==
    ASSUME PlanTypeOK
    PROVE  /\ IsFiniteSet(Places) /\ Places \subseteq Int /\ Places \subseteq Clusters
           /\ sku.stock \in Nat \cup {Unknown} /\ sku.pack \in (Nat \ {0}) \cup {Unknown}
           /\ \A c \in Places : OfferTypeOK(offer[c])
<1> DEFINE k == [offer |-> offer, sku |-> sku]
<1>1. k \in Cases /\ k.offer = offer /\ k.sku = sku
  BY DEF PlanTypeOK
<1>2. Places \subseteq Clusters
  BY <1>1, CasesAssumption DEF Places
<1> QED
  BY <1>1, <1>2, CasesAssumption, ClustersAssumption, FS_Subset DEF Places

LEMMA FiniteMaxima ==
    ASSUME NEW rows, IsFiniteSet(rows)
    PROVE  IsFiniteSet(Maxima(rows))
<1> DEFINE max == [r \in rows |-> r.max]
           image == {r.max : r \in rows}
<1>1. max \in Surjection(rows, image)
  BY DEF Surjection
<1>2. IsFiniteSet(image)
  BY <1>1, FS_Surjection
<1> QED
  BY <1>2, FS_Subset DEF Maxima

LEMMA NeedType ==
    ASSUME NEW o, OfferTypeOK(o), Known(Need(o))
    PROVE  Need(o) \in Nat
<1> DEFINE demand == o.rate * HorizonDays
           raw == CeilDiv(demand - 7 * (o.fbo + o.inbound), 7)
<1>1. /\ o.rate \in Nat /\ o.fbo \in Nat /\ o.inbound \in Nat
      /\ Need(o) = IF raw > 0 THEN raw ELSE 0
  BY DEF Need, NeedBlocked, Known, OfferTypeOK
<1>2. demand \in Int
  BY <1>1, HorizonAssumption
<1> HIDE DEF demand
<1>3. raw \in Int
  BY <1>1, <1>2 DEF CeilDiv
<1> HIDE DEF raw
<1> QED
  BY <1>1, <1>3

LEMMA CeilingType ==
    ASSUME NEW o, OfferTypeOK(o)
    PROVE  Ceiling(o) \in Nat \cup {Unknown}
<1>1. Maxima(EligibleSites(o)) \subseteq Nat
  BY DEF Maxima, EligibleSites, OfferTypeOK
<1>2. Maxima(EligibleSites(o)) # {} => Min(Maxima(EligibleSites(o))) \in Nat
  BY <1>1, LeastNatural
<1> QED
  BY <1>2 DEF Ceiling

LEMMA CapType ==
    ASSUME NEW o, OfferTypeOK(o)
    PROVE  /\ Cap(o) \in Nat
           /\ Cap(o) > 0 => Known(Need(o))
<1>1. CASE ~Allowed(o) \/ ~Known(Need(o))
  BY <1>1 DEF Cap
<1>2. CASE Allowed(o) /\ Known(Need(o))
  <2> DEFINE caps == {Need(o)} \cup (IF sku.family = "safe" THEN {Recommended(o)} ELSE {})
                     \cup ({Ceiling(o)} \ {Unknown})
  <2>1. Cap(o) = Min(caps)
    BY <1>2 DEF Cap
  <2>2. Recommended(o) \in Nat
    BY DEF Recommended, Known, OfferTypeOK
  <2>3. caps \subseteq Nat /\ caps # {}
    BY <1>2, <2>2, NeedType, CeilingType
  <2> HIDE DEF caps
  <2> QED
    BY <1>2, <2>1, <2>3, LeastNatural
<1> QED
  BY <1>1, <1>2

LEMMA EligibleTyped ==
    ASSUME PlanTypeOK, NEW c \in EligibleClusters
    PROVE  /\ c \in Places /\ c \in Int /\ OfferTypeOK(offer[c])
           /\ Need(offer[c]) \in Nat /\ Worth(offer[c]) \in Nat
           /\ Cap(offer[c]) \in Nat /\ Cap(offer[c]) > 0
<1>1. c \in Places /\ Eligible(offer[c])
  BY DEF EligibleClusters
<1>2. c \in Int /\ OfferTypeOK(offer[c])
  BY <1>1, OfferTyped
<1>3. Cap(offer[c]) > 0 /\ Profitable(offer[c])
  BY <1>1 DEF Eligible
<1>4. Cap(offer[c]) \in Nat /\ Known(Need(offer[c]))
  BY <1>2, <1>3, CapType
<1>5. Need(offer[c]) \in Nat
  BY <1>2, <1>4, NeedType
<1>6. Worth(offer[c]) \in Nat
  BY <1>2, <1>3 DEF Worth, Profitable, Known, OfferTypeOK
<1> QED
  BY <1>1, <1>2, <1>3, <1>4, <1>5, <1>6

\* The comparison of two clusters by the six keys.
Outranks(w, r, m, s, n, c, w_, r_, m_, s_, n_, c_) ==
    \/ w > w_
    \/ w = w_ /\ r > r_
    \/ w = w_ /\ r = r_ /\ m > m_
    \/ w = w_ /\ r = r_ /\ m = m_ /\ s < s_
    \/ w = w_ /\ r = r_ /\ m = m_ /\ s = s_ /\ n > n_
    \/ w = w_ /\ r = r_ /\ m = m_ /\ s = s_ /\ n = n_ /\ c < c_

LEMMA BeforeMeans ==
    ASSUME PlanTypeOK, NEW c \in EligibleClusters, NEW d \in EligibleClusters
    PROVE  /\ Worth(offer[c]) \in Int /\ Need(offer[c]) \in Int /\ c \in Int
           /\ offer[c].route \in Int /\ offer[c].demand \in Int /\ offer[c].distortion \in Int
           /\ Before(c, d) <=>
                 Outranks(Worth(offer[c]), offer[c].route, offer[c].demand,
                          offer[c].distortion, Need(offer[c]), c,
                          Worth(offer[d]), offer[d].route, offer[d].demand,
                          offer[d].distortion, Need(offer[d]), d)
<1>1. \A e \in {c, d} : /\ Worth(offer[e]) \in Int /\ Need(offer[e]) \in Int /\ e \in Int
                        /\ offer[e].route \in Int /\ offer[e].demand \in Int
                        /\ offer[e].distortion \in Int
  BY EligibleTyped DEF OfferTypeOK
<1>2. \A x, y \in Int : (-x < -y <=> x > y) /\ (-x = -y <=> x = y)
  OBVIOUS
<1>3. /\ -Worth(offer[c]) < -Worth(offer[d]) <=> Worth(offer[c]) > Worth(offer[d])
      /\ -Worth(offer[c]) = -Worth(offer[d]) <=> Worth(offer[c]) = Worth(offer[d])
      /\ -Need(offer[c]) < -Need(offer[d]) <=> Need(offer[c]) > Need(offer[d])
      /\ -Need(offer[c]) = -Need(offer[d]) <=> Need(offer[c]) = Need(offer[d])
      /\ -offer[c].route < -offer[d].route <=> offer[c].route > offer[d].route
      /\ -offer[c].route = -offer[d].route <=> offer[c].route = offer[d].route
      /\ -offer[c].demand < -offer[d].demand <=> offer[c].demand > offer[d].demand
      /\ -offer[c].demand = -offer[d].demand <=> offer[c].demand = offer[d].demand
  BY <1>1, <1>2
<1> DEFINE o == offer[c]
           p == offer[d]
<1>4. Before(c, d) <=>
         \/ -Worth(o) < -Worth(p)
         \/ -Worth(o) = -Worth(p) /\ -o.route < -p.route
         \/ -Worth(o) = -Worth(p) /\ -o.route = -p.route /\ -o.demand < -p.demand
         \/ -Worth(o) = -Worth(p) /\ -o.route = -p.route /\ -o.demand = -p.demand
            /\ o.distortion < p.distortion
         \/ -Worth(o) = -Worth(p) /\ -o.route = -p.route /\ -o.demand = -p.demand
            /\ o.distortion = p.distortion /\ -Need(o) < -Need(p)
         \/ -Worth(o) = -Worth(p) /\ -o.route = -p.route /\ -o.demand = -p.demand
            /\ o.distortion = p.distortion /\ -Need(o) = -Need(p) /\ c < d
  BY LexLessOfSix DEF Before, Key
<1> QED
  BY <1>1, <1>3, <1>4, Zenon DEF Outranks

\* Before is a strict total order of the eligible clusters: the identifier
\* breaks every tie.  It never goes from a smaller objective to a larger one.
LEMMA BeforeIsTotal ==
    ASSUME PlanTypeOK, NEW c \in EligibleClusters, NEW d \in EligibleClusters
    PROVE  /\ Before(c, d) => ~Before(d, c) /\ c # d
           /\ c # d => Before(c, d) \/ Before(d, c)
           /\ Before(c, d) => Worth(offer[c]) >= Worth(offer[d])
<1> DEFINE O(x, y) == Outranks(Worth(offer[x]), offer[x].route, offer[x].demand,
                               offer[x].distortion, Need(offer[x]), x,
                               Worth(offer[y]), offer[y].route, offer[y].demand,
                               offer[y].distortion, Need(offer[y]), y)
<1>1. (Before(c, d) <=> O(c, d)) /\ (Before(d, c) <=> O(d, c))
  BY BeforeMeans
<1>2. \A x \in {c, d} : /\ Worth(offer[x]) \in Int /\ Need(offer[x]) \in Int /\ x \in Int
                        /\ offer[x].route \in Int /\ offer[x].demand \in Int
                        /\ offer[x].distortion \in Int
  BY BeforeMeans
<1>3. O(c, d) => ~O(d, c)
  BY <1>2 DEF Outranks
<1>4. O(c, d) => Worth(offer[c]) >= Worth(offer[d])
  BY <1>2 DEF Outranks
<1>5. c # d => O(c, d) \/ O(d, c)
  BY <1>2 DEF Outranks
<1> HIDE DEF O
<1> QED
  BY <1>1, <1>3, <1>4, <1>5, Zenon

LEMMA BeforeIsTransitive ==
    ASSUME PlanTypeOK, NEW c \in EligibleClusters, NEW d \in EligibleClusters,
           NEW e \in EligibleClusters, Before(c, d), Before(d, e)
    PROVE  Before(c, e)
<1> DEFINE O(x, y) == Outranks(Worth(offer[x]), offer[x].route, offer[x].demand,
                               offer[x].distortion, Need(offer[x]), x,
                               Worth(offer[y]), offer[y].route, offer[y].demand,
                               offer[y].distortion, Need(offer[y]), y)
<1>1. (Before(c, d) <=> O(c, d)) /\ (Before(d, e) <=> O(d, e)) /\ (Before(c, e) <=> O(c, e))
  BY BeforeMeans
<1>2. \A x \in {c, d, e} : /\ Worth(offer[x]) \in Int /\ Need(offer[x]) \in Int /\ x \in Int
                           /\ offer[x].route \in Int /\ offer[x].demand \in Int
                           /\ offer[x].distortion \in Int
  BY BeforeMeans
<1>3. O(c, d) /\ O(d, e) => O(c, e)
  BY <1>2 DEF Outranks
<1> HIDE DEF O
<1> QED
  BY <1>1, <1>3, Zenon

\* The cluster the loops take next is the first of those left.
LEMMA FirstIsFirst ==
    ASSUME PlanTypeOK, NEW S, S \subseteq EligibleClusters, S # {}
    PROVE  /\ First(S) \in S
           /\ \A d \in S \ {First(S)} : Before(First(S), d)
<1> DEFINE R == {p \in S \X S : p[1] = p[2] \/ Before(p[1], p[2])}
<1>1. \A x, y \in S : <<x, y>> \in R \/ <<y, x>> \in R
  BY BeforeIsTotal
<1>2. \A x, y, z \in S : <<x, y>> \in R /\ <<y, z>> \in R => <<x, z>> \in R
  BY BeforeIsTransitive
<1>3. IsFiniteSet(S)
  <2>1. S \subseteq Places
    BY DEF EligibleClusters
  <2> QED
    BY <2>1, OfferTyped, FS_Subset
<1>4. PICK x \in S : \A y \in S : <<x, y>> \in R
  <2> HIDE DEF R
  <2> QED
    BY <1>1, <1>2, <1>3, FirstElement
<1>5. \A d \in S \ {x} : Before(x, d)
  BY <1>4
<1> QED
  BY <1>5 DEF First

-----------------------------------------------------------------------------
(* Whole packs.                                                            *)

LEMMA Division ==
    ASSUME NEW q \in Nat, NEW p \in Nat, p > 0
    PROVE  /\ q \div p \in Nat /\ q % p \in Nat /\ q % p < p
           /\ q = p * (q \div p) + (q % p)
<1>1. q = p * (q \div p) + (q % p) /\ q \div p \in Int
  OBVIOUS
<1>2. q % p \in 0..(p - 1)
  OBVIOUS
<1>3. q \div p \in Nat
  OBVIOUS
<1> QED
  BY <1>1, <1>2, <1>3

LEMMA WholePacks ==
    ASSUME NEW k \in Nat, NEW p \in Nat \ {0}
    PROVE  k * p \in Nat /\ (k * p) % p = 0
<1>1. k * p \in Nat
  OBVIOUS
<1>2. /\ (k * p) \div p \in Nat /\ (k * p) % p \in Nat /\ (k * p) % p < p
      /\ k * p = p * ((k * p) \div p) + ((k * p) % p)
  BY <1>1, Division
<1> DEFINE r == (k * p) % p
           m == (k * p) \div p
<1>4. r = p * (k - m)
  BY <1>2
<1> HIDE DEF r, m
<1>5. r \in Int /\ m \in Int /\ 0 <= r /\ r < p
  BY <1>2 DEF r, m
<1>6. k - m < 1
  <2> SUFFICES ASSUME k - m >= 1
               PROVE  FALSE
    BY <1>5
  <2>1. p * (k - m) >= p
    BY <1>5
  <2> QED
    BY <1>4, <1>5, <2>1
<1>7. k - m > -1
  <2> SUFFICES ASSUME k - m <= -1
               PROVE  FALSE
    BY <1>5
  <2>1. p * (k - m) <= -p
    BY <1>5
  <2> QED
    BY <1>4, <1>5, <2>1
<1>8. k - m = 0
  BY <1>5, <1>6, <1>7
<1> QED
  BY <1>1, <1>4, <1>5, <1>8 DEF r

LEMMA RoundDownFacts ==
    ASSUME NEW q \in Nat, NEW p \in Nat \ {0}
    PROVE  /\ RoundDown(q, p) \in Nat /\ RoundDown(q, p) % p = 0
           /\ RoundDown(q, p) <= q /\ q - RoundDown(q, p) < p
           /\ q < p => RoundDown(q, p) = 0
<1>1. /\ q \div p \in Nat /\ q % p \in Nat /\ q % p < p
      /\ q = p * (q \div p) + (q % p)
  BY Division
<1>2. RoundDown(q, p) \in Nat /\ RoundDown(q, p) % p = 0
  BY <1>1, WholePacks DEF RoundDown
<1>3. RoundDown(q, p) = q - (q % p)
  BY <1>1 DEF RoundDown
<1>4. q < p => q \div p = 0
  <2> SUFFICES ASSUME q < p, q \div p >= 1
               PROVE  FALSE
    BY <1>1
  <2>1. p * (q \div p) >= p
    BY <1>1
  <2> QED
    BY <1>1, <2>1
<1>5. q < p => RoundDown(q, p) = 0
  <2>1. 0 * p = 0
    OBVIOUS
  <2> QED
    BY <1>4, <2>1, Zenon DEF RoundDown
<1> QED
  BY <1>1, <1>2, <1>3, <1>5

LEMMA NearestPackFacts ==
    ASSUME NEW q \in Nat, NEW p \in Nat \ {0}
    PROVE  NearestPack(q, p) \in Nat /\ NearestPack(q, p) % p = 0
<1>1. RoundDown(q, p) \in Nat /\ RoundDown(q, p) % p = 0
  BY RoundDownFacts
<1>2. q \div p \in Nat
  OBVIOUS
<1>3. RoundDown(q, p) + p = (q \div p + 1) * p
  BY <1>2 DEF RoundDown
<1>4. q \div p + 1 \in Nat
  BY <1>2
<1>5. RoundDown(q, p) + p \in Nat /\ (RoundDown(q, p) + p) % p = 0
  BY <1>3, <1>4, WholePacks, Zenon
<1> QED
  BY <1>1, <1>5 DEF NearestPack

LEMMA CapacityType ==
    ASSUME NEW o, OfferTypeOK(o)
    PROVE  Capacity(o) \in Nat \cup {Unknown}
<1> DEFINE max == {r.max : r \in AllowedRows(o)}
<1>1. CASE sku.live \/ Unlimited \in max \/ max \subseteq {Unknown}
  BY <1>1 DEF Capacity
<1>2. CASE ~(sku.live \/ Unlimited \in max \/ max \subseteq {Unknown})
  <2>1. AllowedRows(o) \subseteq o.sites /\ IsFiniteSet(AllowedRows(o))
    BY FS_Subset DEF AllowedRows, OfferTypeOK
  <2>2. Maxima(AllowedRows(o)) \subseteq Nat
    BY <2>1 DEF Maxima, OfferTypeOK
  <2>3. Maxima(AllowedRows(o)) # {}
    BY <1>2 DEF Maxima
  <2>4. Max(Maxima(AllowedRows(o))) \in Nat
    BY <2>1, <2>2, <2>3, FiniteMaxima, GreatestNatural
  <2> QED
    BY <1>2, <2>4 DEF Capacity
<1> QED
  BY <1>1, <1>2

LEMMA PackCapacityFacts ==
    ASSUME PlanTypeOK, Known(sku.pack), NEW c \in Places, Known(PackCapacity(offer[c]))
    PROVE  PackCapacity(offer[c]) \in Nat /\ PackCapacity(offer[c]) % sku.pack = 0
<1>1. sku.pack \in Nat \ {0} /\ OfferTypeOK(offer[c])
  BY OfferTyped DEF Known
<1>2. Capacity(offer[c]) \in Nat
  BY <1>1, CapacityType DEF PackCapacity, Known
<1>3. PackCapacity(offer[c]) = RoundDown(Capacity(offer[c]), sku.pack)
  BY <1>2, UnknownAssumption DEF PackCapacity, Known
<1> QED
  BY <1>1, <1>2, <1>3, RoundDownFacts

\* What a line aims at, and what it takes of the stock: the smaller of the
\* target and of the whole packs that are left.
LEMMA TargetFacts ==
    ASSUME PlanTypeOK, Known(sku.pack), NEW c \in Places
    PROVE  /\ sku.pack \in Nat \ {0}
           /\ Target(c) \in Nat /\ Target(c) % sku.pack = 0
           /\ Packs(c) = Least(Target(c), RoundDown(left, sku.pack))
<1> DEFINE room == {PackCapacity(offer[c])} \ {Unknown}
           down == RoundDown(left, sku.pack)
<1>1. sku.pack \in Nat \ {0} /\ alloc[c] \in Nat /\ left \in Nat
  BY OfferTyped DEF Known, PlanTypeOK
<1>2. 0 % sku.pack = 0
  BY <1>1
<1>3. Rounded(c) \in Nat /\ Rounded(c) % sku.pack = 0
  BY <1>1, <1>2, NearestPackFacts DEF Rounded
<1>4. down \in Nat
  BY <1>1, RoundDownFacts
<1>5. \A x \in room : x \in Nat /\ x % sku.pack = 0
  BY PackCapacityFacts DEF Known
<1>6. room = {} \/ \E x : room = {x}
  OBVIOUS
<1> HIDE DEF room, down
<1>7. {Rounded(c)} \cup room \subseteq Nat /\ {Rounded(c), down} \cup room \subseteq Nat
  BY <1>3, <1>4, <1>5
<1>8. /\ Target(c) \in {Rounded(c)} \cup room
      /\ \A y \in {Rounded(c)} \cup room : Target(c) <= y
  BY <1>7, LeastNatural DEF Target, room
<1>9. /\ Packs(c) \in {Rounded(c), down} \cup room
      /\ \A y \in {Rounded(c), down} \cup room : Packs(c) <= y
  BY <1>7, LeastNatural DEF Packs, room, down
<1>10. Target(c) \in Nat /\ Target(c) % sku.pack = 0
  BY <1>3, <1>5, <1>8
<1>11. Packs(c) = Least(Target(c), down)
  BY <1>3, <1>4, <1>5, <1>8, <1>9 DEF Least
<1> QED
  BY <1>1, <1>10, <1>11 DEF down

LEMMA PacksFacts ==
    ASSUME PlanTypeOK, Known(sku.pack), NEW c \in Places
    PROVE  /\ Packs(c) \in Nat /\ Packs(c) % sku.pack = 0
           /\ Packs(c) <= Target(c) /\ Packs(c) <= left
           /\ Packs(c) < Target(c) => left - Packs(c) < sku.pack
           /\ left < sku.pack => Packs(c) = 0
<1> DEFINE down == RoundDown(left, sku.pack)
<1>1. left \in Nat
  BY DEF PlanTypeOK
<1>2. /\ sku.pack \in Nat \ {0} /\ Target(c) \in Nat /\ Target(c) % sku.pack = 0
      /\ Packs(c) = Least(Target(c), down)
  BY TargetFacts
<1>3. /\ down \in Nat /\ down % sku.pack = 0 /\ down <= left /\ left - down < sku.pack
      /\ left < sku.pack => down = 0
  BY <1>1, <1>2, RoundDownFacts
<1> HIDE DEF down
<1> QED
  BY <1>1, <1>2, <1>3 DEF Least

-----------------------------------------------------------------------------
(* The inductive invariant of the two loops.                               *)

Beginning ==
    /\ stage = "assess" =>
           /\ rest = {} /\ left = 0
           /\ alloc = [c \in Places |-> 0] /\ ship = [c \in Places |-> Unknown]
    /\ stage \in {"allocate", "round"} => Known(sku.stock)

\* Nothing is allocated but to eligible clusters and within their ceilings.
WithinCaps ==
    \A c \in Places : /\ alloc[c] > 0 => c \in EligibleClusters
                      /\ c \in EligibleClusters => alloc[c] <= Cap(offer[c])

\* The allocation loop: who was visited comes before who was not, and a
\* cluster that is short of its ceiling has found the stock exhausted.
Allocating ==
    stage = "allocate" =>
        /\ rest \subseteq EligibleClusters
        /\ \A c \in rest : alloc[c] = 0
        /\ left + Total(alloc, EligibleClusters) = sku.stock
        /\ \A c \in EligibleClusters \ rest :
               /\ \A d \in rest : Before(c, d)
               /\ alloc[c] < Cap(offer[c]) =>
                      /\ left = 0
                      /\ \A d \in EligibleClusters \ rest : Before(c, d) => alloc[d] = 0

KnownLines == {c \in Places : Known(ship[c])}
Shared == {c \in Places : alloc[c] > 0}

\* The rounding loop, and what it leaves.
Rounding ==
    stage \in {"round", "planned"} /\ Known(sku.stock) =>
        /\ stage = "planned" => rest = {}
        /\ rest \subseteq Shared
        /\ Total(ship, KnownLines) + left <= sku.stock
        /\ \A c \in Places \ Shared : ship[c] = 0
        /\ \A c \in Shared : Known(ship[c]) <=> Known(sku.pack) /\ c \notin rest
        /\ Known(sku.pack) => \A c \in Shared \ rest :
               /\ ship[c] % sku.pack = 0
               /\ ship[c] <= Target(c)
               /\ \A d \in rest : Before(c, d)
               /\ ship[c] < Target(c) =>
                      /\ left < sku.pack
                      /\ \A d \in Shared \ rest : Before(c, d) => ship[d] = 0

PlanInv == PlanTypeOK /\ Beginning /\ WithinCaps /\ Allocating /\ Rounding

\* What the evidence determines stays when the evidence stays.
LEMMA SameEvidence ==
    ASSUME UNCHANGED <<offer, sku>>
    PROVE  /\ Places' = Places /\ EligibleClusters' = EligibleClusters
           /\ \A c : Cap(offer[c])' = Cap(offer[c])
           /\ \A c, d : Before(c, d)' <=> Before(c, d)
<1>1. Places' = Places
  BY DEF Places
<1>2. \A c : Cap(offer[c])' = Cap(offer[c])
  BY DEF Cap, Allowed, Ceiling, Recommended
<1>3. EligibleClusters' = EligibleClusters
  BY <1>1, <1>2 DEF EligibleClusters, Eligible
<1>4. \A c, d : Before(c, d)' <=> Before(c, d)
  BY DEF Before, Key, Worth
<1> QED
  BY <1>1, <1>2, <1>3, <1>4

LEMMA SameTargets ==
    ASSUME UNCHANGED <<offer, sku, alloc>>
    PROVE  \A c : Target(c)' = Target(c)
BY DEF Target, Rounded, PackCapacity, Capacity

\* The first state of a plan, and the state an analysis starts a new one in.
LEMMA PlanStarts ==
    PlanInit => PlanInv
<1> SUFFICES ASSUME PlanInit
             PROVE  PlanInv
  OBVIOUS
<1>1. PICK k \in Cases : offer = k.offer /\ sku = k.sku
  BY DEF PlanInit
<1>2. [offer |-> offer, sku |-> sku] \in Cases
  BY <1>1, CasesAssumption
<1>3. PlanTypeOK
  BY <1>2 DEF PlanInit, PlanTypeOK
<1>4. \A c \in EligibleClusters : Cap(offer[c]) \in Nat
  BY <1>3, EligibleTyped
<1>5. WithinCaps
  BY <1>4 DEF WithinCaps, PlanInit, EligibleClusters
<1> QED
  BY <1>3, <1>5 DEF PlanInv, Beginning, Allocating, Rounding, PlanInit

LEMMA CapsTyped ==
    PlanTypeOK => \A c \in EligibleClusters : Cap(offer[c]) \in Nat
BY EligibleTyped

LEMMA PlanRestarts ==
    ASSUME NEW k \in Managed, Recalculate(k)
    PROVE  PlanInv'
<1>1. [offer |-> offer, sku |-> sku]' \in Cases
  BY CasesAssumption, ManagedAssumption DEF Recalculate
<1>2. PlanTypeOK'
  BY <1>1 DEF Recalculate, PlanTypeOK, Places
<1>3. (\A c \in EligibleClusters : Cap(offer[c]) \in Nat)'
  BY <1>2, CapsTyped, PTL
<1>4. WithinCaps'
  BY <1>3 DEF WithinCaps, Recalculate, EligibleClusters, Places
<1> QED
  BY <1>2, <1>4 DEF PlanInv, Beginning, Allocating, Rounding, Recalculate, Places

\* The positive allocations are of eligible clusters.
LEMMA SharedEligible ==
    ASSUME PlanTypeOK, WithinCaps
    PROVE  /\ Shared \subseteq EligibleClusters /\ EligibleClusters \subseteq Places
           /\ IsFiniteSet(EligibleClusters) /\ IsFiniteSet(KnownLines)
<1>1. EligibleClusters \subseteq Places /\ KnownLines \subseteq Places
  BY DEF EligibleClusters, KnownLines
<1>2. Shared \subseteq EligibleClusters
  BY DEF Shared, WithinCaps
<1> QED
  BY <1>1, <1>2, OfferTyped, FS_Subset

\* The sums of the next state are over its functions and its sets.
LEMMA TotalsPrimed ==
    /\ Total(alloc, EligibleClusters)' = Total(alloc', EligibleClusters')
    /\ Total(ship, KnownLines)' = Total(ship', KnownLines')
BY DEF Total, MapThenSumSet, MapThenFoldSet

LEMMA AssessStep ==
    ASSUME PlanInv, Assess
    PROVE  PlanInv'
<1>1. /\ Places' = Places /\ EligibleClusters' = EligibleClusters
      /\ \A c : Cap(offer[c])' = Cap(offer[c])
  BY SameEvidence DEF Assess
<1>2. PlanTypeOK /\ WithinCaps /\ sku.stock \in Nat /\ alloc = [c \in Places |-> 0]
  BY OfferTyped DEF PlanInv, Beginning, Assess, Known
<1>3. EligibleClusters \subseteq Places
  BY DEF EligibleClusters
<1>4. PlanTypeOK'
  BY <1>1, <1>2, <1>3 DEF PlanTypeOK, Assess
<1>5. WithinCaps'
  BY <1>1, <1>2 DEF WithinCaps, Assess
<1>6. Total(alloc, EligibleClusters) = 0
  BY <1>2, <1>3, SharedEligible, TotalOfZeros
<1>7. Total(alloc, EligibleClusters)' = 0
  BY <1>1, <1>6, TotalsPrimed DEF Assess
<1>8. Allocating'
  BY <1>1, <1>2, <1>3, <1>7 DEF Allocating, Assess
<1>9. Beginning' /\ Rounding'
  BY DEF Beginning, Rounding, Assess
<1> QED
  BY <1>4, <1>5, <1>8, <1>9 DEF PlanInv

LEMMA UnallocatedStep ==
    ASSUME PlanInv, Unallocated
    PROVE  PlanInv'
<1>1. /\ Places' = Places /\ EligibleClusters' = EligibleClusters
      /\ \A c : Cap(offer[c])' = Cap(offer[c])
  BY SameEvidence DEF Unallocated
<1>2. PlanTypeOK'
  BY <1>1 DEF PlanInv, PlanTypeOK, Unallocated
<1>3. WithinCaps'
  BY <1>1 DEF PlanInv, WithinCaps, Unallocated
<1>4. Beginning' /\ Allocating' /\ Rounding'
  BY DEF Beginning, Allocating, Rounding, Unallocated, Known
<1> QED
  BY <1>2, <1>3, <1>4 DEF PlanInv

LEMMA AllocateStep ==
    ASSUME PlanInv, Allocate
    PROVE  PlanInv'
<1> DEFINE c == First(rest)
           q == Least(left, Cap(offer[c]))
<1>1. /\ stage = "allocate" /\ rest # {} /\ alloc' = [alloc EXCEPT ![c] = q]
      /\ left' = left - q /\ rest' = rest \ {c}
      /\ UNCHANGED <<offer, sku, stage, ship>>
  BY DEF Allocate
<1>2. PlanTypeOK /\ WithinCaps /\ Allocating /\ Beginning
  BY DEF PlanInv
<1>3. /\ rest \subseteq EligibleClusters
      /\ \A d \in rest : alloc[d] = 0
      /\ left + Total(alloc, EligibleClusters) = sku.stock
  BY <1>1, <1>2 DEF Allocating
<1>4. /\ c \in rest /\ \A d \in rest \ {c} : Before(c, d)
  BY <1>1, <1>2, <1>3, FirstIsFirst
<1>5. c \in EligibleClusters /\ c \in Places /\ Cap(offer[c]) \in Nat
  BY <1>2, <1>3, <1>4, EligibleTyped
<1>6. left \in Nat /\ alloc \in [Places -> Nat]
  BY <1>2 DEF PlanTypeOK
<1>7. /\ q \in Nat /\ q <= left /\ q <= Cap(offer[c])
      /\ q < Cap(offer[c]) => q = left
  BY <1>5, <1>6 DEF Least
<1> HIDE DEF c, q
<1>8. /\ alloc' \in [Places -> Nat] /\ alloc'[c] = q
      /\ \A d \in Places \ {c} : alloc'[d] = alloc[d]
  BY <1>1, <1>5, <1>6, <1>7
<1>9. /\ Places' = Places /\ EligibleClusters' = EligibleClusters
      /\ \A d : Cap(offer[d])' = Cap(offer[d])
      /\ \A d, e : Before(d, e)' <=> Before(d, e)
  BY <1>1, SameEvidence
<1>10. /\ IsFiniteSet(EligibleClusters) /\ EligibleClusters \subseteq Places
  BY <1>2, SharedEligible
<1>11. PlanTypeOK'
  BY <1>1, <1>2, <1>6, <1>7, <1>8, <1>9 DEF PlanTypeOK
<1>12. WithinCaps'
  BY <1>2, <1>5, <1>7, <1>8, <1>9 DEF WithinCaps
<1>13. (left + Total(alloc, EligibleClusters) = sku.stock)'
  <2> DEFINE E == EligibleClusters \ {c}
  <2>1. \A d \in EligibleClusters : alloc[d] \in Int /\ alloc'[d] \in Int
    BY <1>6, <1>8, <1>10
  <2>2. IsFiniteSet(E) /\ \A d \in E : alloc[d] = alloc'[d]
    BY <1>8, <1>10, FS_Subset
  <2>3. Total(alloc, EligibleClusters) = alloc[c] + Total(alloc, E)
    BY <1>5, <1>10, <2>1, TotalWithout
  <2>4. Total(alloc', EligibleClusters) = q + Total(alloc', E)
    BY <1>5, <1>8, <1>10, <2>1, TotalWithout
  <2>5. Total(alloc, E) = Total(alloc', E) /\ Total(alloc, E) \in Int
    BY <2>1, <2>2, TotalSame, TotalType
  <2>6. left' + Total(alloc', EligibleClusters) = sku.stock
    BY <1>1, <1>3, <1>4, <1>6, <1>7, <2>3, <2>4, <2>5
  <2>7. Total(alloc, EligibleClusters)' = Total(alloc', EligibleClusters)
    BY <1>9, TotalsPrimed
  <2> QED
    BY <1>1, <2>6, <2>7
<1>14. ASSUME NEW x \in EligibleClusters \ rest'
       PROVE  /\ \A d \in rest' : Before(x, d)
              /\ alloc'[x] < Cap(offer[x]) =>
                    /\ left' = 0
                    /\ \A d \in EligibleClusters \ rest' : Before(x, d) => alloc'[d] = 0
  <2>1. CASE x = c
    <3>1. \A d \in EligibleClusters \ rest' : d # c => Before(d, c)
      BY <1>1, <1>2, <1>4 DEF Allocating
    <3>2. \A d \in EligibleClusters \ rest' : ~Before(c, d)
      BY <1>2, <1>5, <3>1, BeforeIsTotal
    <3> QED
      BY <1>1, <1>4, <1>6, <1>7, <1>8, <2>1, <3>2
  <2>2. CASE x # c
    <3>1. x \in EligibleClusters \ rest /\ x \in Places /\ alloc'[x] = alloc[x]
      BY <1>1, <1>8, <1>10, <2>2
    <3>2. /\ \A d \in rest : Before(x, d)
          /\ alloc[x] < Cap(offer[x]) =>
                /\ left = 0
                /\ \A d \in EligibleClusters \ rest : Before(x, d) => alloc[d] = 0
      BY <1>1, <1>2, <3>1 DEF Allocating
    <3>3. left = 0 => q = 0 /\ left' = 0
      BY <1>1, <1>7
    <3>4. \A d \in EligibleClusters \ rest' : d = c \/ (d \in EligibleClusters \ rest /\ alloc'[d] = alloc[d])
      BY <1>1, <1>8, <1>10
    <3> QED
      BY <1>1, <1>8, <3>1, <3>2, <3>3, <3>4
  <2> QED
    BY <2>1, <2>2
<1>15. Allocating'
  <2>1. \A d \in rest' : alloc'[d] = 0
    BY <1>1, <1>3, <1>8, <1>10
  <2> QED
    BY <1>1, <1>3, <1>9, <1>13, <1>14, <2>1 DEF Allocating
<1>16. Beginning' /\ Rounding'
  BY <1>1, <1>2 DEF Beginning, Rounding, Known
<1> QED
  BY <1>11, <1>12, <1>15, <1>16 DEF PlanInv

LEMMA DraftStep ==
    ASSUME PlanInv, Draft
    PROVE  PlanInv'
<1>1. /\ Places' = Places /\ EligibleClusters' = EligibleClusters
      /\ \A c : Cap(offer[c])' = Cap(offer[c])
  BY SameEvidence DEF Draft
<1>2. /\ PlanTypeOK /\ WithinCaps /\ sku.stock \in Nat
      /\ alloc \in [Places -> Nat]
  BY OfferTyped DEF PlanInv, Beginning, PlanTypeOK, Draft, Known
<1>3. Shared' = Shared /\ rest' = Shared /\ Shared \subseteq Places
  BY <1>1 DEF Shared, Draft
<1>4. \A c \in Places : /\ c \in Shared => ship'[c] = Unknown
                        /\ c \notin Shared => ship'[c] = 0
  BY <1>2 DEF Draft, Shared
<1>5. PlanTypeOK'
  BY <1>1, <1>2, <1>3 DEF PlanTypeOK, Draft
<1>6. WithinCaps'
  BY <1>1, <1>2 DEF WithinCaps, Draft
<1>7. KnownLines' = Places \ Shared
  BY <1>1, <1>4, UnknownAssumption DEF KnownLines, Known
<1>8. Total(ship, KnownLines)' = 0
  <2>1. IsFiniteSet(Places \ Shared)
    BY <1>2, OfferTyped, FS_Subset
  <2> QED
    BY <1>4, <1>7, <2>1, TotalsPrimed, TotalOfZeros
<1>9. sku' = sku /\ left' = sku.stock /\ stage' = "round"
  BY DEF Draft
<1>10. Rounding'
  <2>1. /\ rest' \subseteq Shared' /\ Shared' \ rest' = {}
        /\ \A c \in Places' \ Shared' : ship'[c] = 0
        /\ \A c \in Shared' : c \in rest' /\ ~Known(ship[c])'
    BY <1>1, <1>3, <1>4 DEF Known
  <2>2. (Total(ship, KnownLines) + left <= sku.stock)'
    BY <1>2, <1>8, <1>9
  <2> QED
    BY <1>9, <2>1, <2>2 DEF Rounding
<1>11. Beginning' /\ Allocating'
  BY <1>2, <1>9, UnknownAssumption DEF Beginning, Allocating, Known
<1> QED
  BY <1>5, <1>6, <1>10, <1>11 DEF PlanInv

\* What the two loops of the second pass have at hand.
LEMMA RoundingNow ==
    ASSUME PlanInv, stage = "round", rest # {}
    PROVE  LET c == First(rest) IN
           /\ c \in rest /\ c \in Shared /\ c \in Places /\ rest \subseteq Shared
           /\ Shared \subseteq EligibleClusters
           /\ \A d \in rest \ {c} : Before(c, d)
           /\ alloc \in [Places -> Nat] /\ ship \in [Places -> Nat \cup {Unknown}] /\ left \in Nat
           /\ sku.stock \in Nat
           /\ ~Known(ship[c])
<1> DEFINE c == First(rest)
<1>1. PlanTypeOK /\ WithinCaps /\ Beginning /\ Rounding
  BY DEF PlanInv
<1>2. Known(sku.stock)
  BY <1>1 DEF Beginning
<1>3. rest \subseteq Shared /\ Shared \subseteq EligibleClusters /\ EligibleClusters \subseteq Places
  BY <1>1, <1>2, SharedEligible DEF Rounding
<1>4. c \in rest /\ \A d \in rest \ {c} : Before(c, d)
  BY <1>1, <1>3, FirstIsFirst
<1>5. ~Known(ship[c])
  BY <1>1, <1>2, <1>3, <1>4 DEF Rounding
<1>6. /\ alloc \in [Places -> Nat] /\ ship \in [Places -> Nat \cup {Unknown}] /\ left \in Nat
      /\ sku.stock \in Nat
  BY <1>1, <1>2, OfferTyped DEF PlanTypeOK, Known
<1> HIDE DEF c
<1> QED
  BY <1>3, <1>4, <1>5, <1>6 DEF c

LEMMA ShipUnknownPackStep ==
    ASSUME PlanInv, ShipUnknownPack
    PROVE  PlanInv'
<1> DEFINE c == First(rest)
<1>1. /\ c \in rest /\ c \in Shared /\ c \in Places /\ rest \subseteq Shared
      /\ alloc \in [Places -> Nat] /\ left \in Nat /\ sku.stock \in Nat
      /\ ship \in [Places -> Nat \cup {Unknown}]
      /\ ~Known(sku.pack) /\ stage = "round"
      /\ left' = left - Least(left, alloc[c]) /\ rest' = rest \ {c}
      /\ UNCHANGED <<offer, sku, stage, alloc, ship>>
  BY RoundingNow DEF ShipUnknownPack
<1> HIDE DEF c
<1>2. left' \in Nat /\ left' <= left
  BY <1>1 DEF Least
<1>3. /\ Places' = Places /\ EligibleClusters' = EligibleClusters
      /\ \A d : Cap(offer[d])' = Cap(offer[d])
  BY <1>1, SameEvidence
<1>4. Shared' = Shared /\ KnownLines' = KnownLines
  BY <1>1, <1>3 DEF Shared, KnownLines, Known
<1>5. PlanTypeOK /\ WithinCaps /\ Beginning /\ Rounding
  BY DEF PlanInv
<1>6. PlanTypeOK'
  BY <1>1, <1>2, <1>3, <1>5 DEF PlanTypeOK
<1>7. WithinCaps'
  BY <1>1, <1>3, <1>5 DEF WithinCaps
<1>8. (Total(ship, KnownLines) + left <= sku.stock)'
  <2>1. Total(ship, KnownLines) \in Int
    <3>1. \A d \in KnownLines : ship[d] \in Int
      BY <1>1 DEF KnownLines, Known
    <3> QED
      BY <1>5, <3>1, SharedEligible, TotalType
  <2>2. Total(ship, KnownLines) + left <= sku.stock
    BY <1>1, <1>5, UnknownAssumption DEF Rounding, Known
  <2>3. Total(ship, KnownLines)' = Total(ship, KnownLines)
    BY <1>1, <1>4, TotalsPrimed
  <2> HIDE DEF Rounding
  <2> QED
    BY <1>1, <1>2, <2>1, <2>2, <2>3
<1>9. Rounding'
  <2>1. /\ \A d \in Places \ Shared : ship[d] = 0
        /\ \A d \in Shared : ~Known(ship[d])
    BY <1>1, <1>5, UnknownAssumption DEF Rounding, Known
  <2>2. /\ \A d \in Places' \ Shared' : ship'[d] = 0
        /\ \A d \in Shared' : ~Known(ship[d])'
        /\ ~Known(sku.pack)'
        /\ rest' \subseteq Shared'
    BY <1>1, <1>3, <1>4, <2>1 DEF Known
  <2> QED
    BY <1>1, <1>8, <2>2 DEF Rounding
<1>10. Beginning' /\ Allocating'
  BY <1>1, <1>5 DEF Beginning, Allocating, Known
<1> QED
  BY <1>6, <1>7, <1>9, <1>10 DEF PlanInv

LEMMA ShipPacksStep ==
    ASSUME PlanInv, ShipPacks
    PROVE  PlanInv'
<1> DEFINE c == First(rest)
           q == Packs(c)
<1>1. /\ c \in rest /\ c \in Shared /\ c \in Places /\ rest \subseteq Shared
      /\ Shared \subseteq EligibleClusters
      /\ \A d \in rest \ {c} : Before(c, d)
      /\ alloc \in [Places -> Nat] /\ left \in Nat /\ sku.stock \in Nat
      /\ ship \in [Places -> Nat \cup {Unknown}] /\ ~Known(ship[c])
      /\ Known(sku.pack) /\ stage = "round"
      /\ ship' = [ship EXCEPT ![c] = q] /\ left' = left - q /\ rest' = rest \ {c}
      /\ UNCHANGED <<offer, sku, stage, alloc>>
  BY RoundingNow DEF ShipPacks
<1>2. PlanTypeOK /\ WithinCaps /\ Beginning /\ Rounding
  BY DEF PlanInv
<1>3. /\ q \in Nat /\ q % sku.pack = 0 /\ q <= Target(c) /\ q <= left
      /\ q < Target(c) => left - q < sku.pack
      /\ left < sku.pack => q = 0
  <2> HIDE DEF c
  <2> QED
    BY <1>1, <1>2, PacksFacts
<1> HIDE DEF c, q
<1>4. /\ Places' = Places /\ EligibleClusters' = EligibleClusters
      /\ \A d : Cap(offer[d])' = Cap(offer[d])
      /\ \A d, e : Before(d, e)' <=> Before(d, e)
      /\ \A d : Target(d)' = Target(d)
  BY <1>1, SameEvidence, SameTargets
<1>5. /\ ship' \in [Places -> Nat \cup {Unknown}] /\ ship'[c] = q /\ Known(ship'[c])
      /\ \A d \in Places \ {c} : ship'[d] = ship[d]
  BY <1>1, <1>3, UnknownAssumption DEF Known
<1>6. Shared' = Shared /\ KnownLines' = KnownLines \cup {c} /\ c \notin KnownLines
  BY <1>1, <1>4, <1>5 DEF Shared, KnownLines, Known
<1>7. PlanTypeOK'
  BY <1>1, <1>2, <1>3, <1>4, <1>5 DEF PlanTypeOK
<1>8. WithinCaps'
  BY <1>1, <1>2, <1>4 DEF WithinCaps
<1>9. (Total(ship, KnownLines) + left <= sku.stock)'
  <2>1. IsFiniteSet(KnownLines) /\ IsFiniteSet(KnownLines \cup {c})
    BY <1>2, SharedEligible, FS_AddElement
  <2>2. \A d \in KnownLines : ship[d] \in Int /\ ship'[d] = ship[d]
    BY <1>1, <1>5, <1>6 DEF KnownLines, Known
  <2>3. \A d \in KnownLines \cup {c} : ship'[d] \in Int
    BY <1>3, <1>5, <2>2
  <2>4. Total(ship', KnownLines \cup {c}) = ship'[c] + Total(ship', (KnownLines \cup {c}) \ {c})
    BY <2>1, <2>3, TotalWithout
  <2>5. (KnownLines \cup {c}) \ {c} = KnownLines
    BY <1>6
  <2>6. Total(ship, KnownLines) = Total(ship', KnownLines) /\ Total(ship, KnownLines) \in Int
    BY <2>1, <2>2, TotalSame, TotalType
  <2>7. Total(ship, KnownLines) + left <= sku.stock
    BY <1>1, <1>2, UnknownAssumption DEF Rounding, Known
  <2>8. Total(ship', KnownLines') = q + Total(ship, KnownLines)
    BY <1>5, <1>6, <2>4, <2>5, <2>6
  <2>9. Total(ship', KnownLines') + left' <= sku.stock
    BY <1>1, <1>3, <2>6, <2>7, <2>8
  <2> QED
    BY <1>1, <2>9, TotalsPrimed
<1>10. ASSUME NEW x \in Shared \ rest'
       PROVE  /\ Known(ship'[x])
              /\ ship'[x] % sku.pack = 0
              /\ ship'[x] <= Target(x)
              /\ \A d \in rest' : Before(x, d)
              /\ ship'[x] < Target(x) =>
                    /\ left' < sku.pack
                    /\ \A d \in Shared \ rest' : Before(x, d) => ship'[d] = 0
  <2>1. \A d \in Shared \ rest : /\ Known(ship[d]) /\ ship[d] % sku.pack = 0 /\ ship[d] <= Target(d)
                                 /\ \A e \in rest : Before(d, e)
                                 /\ ship[d] < Target(d) =>
                                       /\ left < sku.pack
                                       /\ \A e \in Shared \ rest : Before(d, e) => ship[e] = 0
    BY <1>1, <1>2, UnknownAssumption DEF Rounding, Known
  <2>2. CASE x = c
    <3>1. \A d \in Shared \ rest' : d # c => Before(d, c)
      BY <1>1, <2>1
    <3>2. \A d \in Shared \ rest' : ~Before(c, d)
      BY <1>1, <1>2, <3>1, BeforeIsTotal
    <3> QED
      BY <1>1, <1>3, <1>5, <2>2, <3>2
  <2>3. CASE x # c
    <3>1. x \in Shared \ rest /\ x \in Places /\ ship'[x] = ship[x]
      BY <1>1, <1>5, <2>3 DEF Shared
    <3>2. left < sku.pack => left' < sku.pack /\ q = 0
      BY <1>1, <1>3
    <3>3. \A d \in Shared \ rest' : d = c \/ (d \in Shared \ rest /\ ship'[d] = ship[d])
      BY <1>1, <1>5 DEF Shared
    <3> QED
      BY <1>1, <1>5, <2>1, <3>1, <3>2, <3>3
  <2> QED
    BY <2>2, <2>3
<1>11. Rounding'
  <2>1. \A d \in Places \ Shared : ship[d] = 0
    BY <1>1, <1>2, UnknownAssumption DEF Rounding, Known
  <2>2. \A d \in Places' \ Shared' : ship'[d] = 0
    BY <1>1, <1>4, <1>5, <1>6, <2>1
  <2>3. \A d \in Shared \ {c} : d \in rest => ~Known(ship[d])
    BY <1>1, <1>2, UnknownAssumption DEF Rounding, Known
  <2>4. \A d \in Shared : d \in rest' => ~Known(ship'[d])
    BY <1>1, <1>5, <2>3 DEF Shared
  <2>5. \A d \in Shared' : Known(ship[d])' <=> Known(sku.pack)' /\ d \notin rest'
    BY <1>1, <1>6, <1>10, <2>4 DEF Known
  <2>6. \A d \in Shared' \ rest' :
           /\ (ship[d] % sku.pack = 0)' /\ (ship[d] <= Target(d))'
           /\ \A e \in rest' : Before(d, e)'
           /\ (ship[d] < Target(d))' => /\ (left < sku.pack)'
                                        /\ \A e \in Shared' \ rest' : Before(d, e)' => (ship[e])' = 0
    BY <1>1, <1>4, <1>6, <1>10
  <2>7. rest' \subseteq Shared' /\ stage' # "planned"
    BY <1>1, <1>6
  <2> QED
    BY <1>9, <2>2, <2>5, <2>6, <2>7 DEF Rounding
<1>12. Beginning' /\ Allocating'
  BY <1>1, <1>2 DEF Beginning, Allocating, Known
<1> QED
  BY <1>7, <1>8, <1>11, <1>12 DEF PlanInv

\* Nothing but the stage changes, and only in the last action.
LEMMA StandingStep ==
    ASSUME PlanInv, UNCHANGED planVars \/ Publish
    PROVE  PlanInv'
<1>1. UNCHANGED <<offer, sku, rest, left, alloc, ship>>
  BY DEF planVars, Publish
<1>2. /\ Places' = Places /\ EligibleClusters' = EligibleClusters
      /\ \A d : Cap(offer[d])' = Cap(offer[d])
      /\ \A d, e : Before(d, e)' <=> Before(d, e)
      /\ \A d : Target(d)' = Target(d)
  BY <1>1, SameEvidence, SameTargets
<1>3. /\ stage' = stage \/ (stage = "round" /\ rest = {} /\ stage' = "planned")
      /\ PlanTypeOK /\ WithinCaps /\ Beginning /\ Allocating /\ Rounding
  BY DEF planVars, Publish, PlanInv
<1>4. Shared' = Shared /\ KnownLines' = KnownLines
  BY <1>1, <1>2 DEF Shared, KnownLines, Known
<1>5. /\ Total(alloc, EligibleClusters)' = Total(alloc, EligibleClusters)
      /\ Total(ship, KnownLines)' = Total(ship, KnownLines)
  BY <1>1, <1>2, <1>4, TotalsPrimed
<1>6. PlanTypeOK' /\ WithinCaps' /\ Beginning'
  BY <1>1, <1>2, <1>3 DEF PlanTypeOK, WithinCaps, Beginning, Known
<1>7. Allocating'
  BY <1>1, <1>2, <1>3, <1>5 DEF Allocating
<1>8. Rounding'
  BY <1>1, <1>2, <1>3, <1>4, <1>5 DEF Rounding, Known
<1> QED
  BY <1>6, <1>7, <1>8 DEF PlanInv

-----------------------------------------------------------------------------
(* What the invariant means.                                               *)

LEMMA InvShippable ==
    PlanInv => PlanShippable
<1> SUFFICES ASSUME PlanInv, Planned
             PROVE  PlanShippable
  BY DEF PlanShippable
<1>1. /\ PlanTypeOK /\ WithinCaps /\ stage = "planned" /\ Known(sku.stock) /\ sku.stock \in Nat
      /\ left \in Nat /\ ship \in [Places -> Nat \cup {Unknown}] /\ alloc \in [Places -> Nat]
  BY OfferTyped DEF PlanInv, Planned, PlanTypeOK, Known
<1>2. /\ rest = {} /\ Total(ship, KnownLines) + left <= sku.stock
      /\ \A c \in Places \ Shared : ship[c] = 0
      /\ \A c \in Shared : Known(ship[c]) <=> Known(sku.pack)
      /\ Known(sku.pack) => \A c \in Shared :
            /\ ship[c] % sku.pack = 0
            /\ ship[c] <= Target(c)
            /\ ship[c] < Target(c) =>
                   /\ left < sku.pack
                   /\ \A d \in Shared : Before(c, d) => ship[d] = 0
  BY <1>1 DEF PlanInv, Rounding
<1>3. Total(ship, {c \in Places : Known(ship[c])}) <= sku.stock
  <2>1. IsFiniteSet(KnownLines) /\ \A c \in KnownLines : ship[c] \in Int
    BY <1>1, SharedEligible DEF KnownLines, Known
  <2>2. Total(ship, KnownLines) \in Int
    BY <2>1, TotalType
  <2>3. Total(ship, KnownLines) <= sku.stock
    BY <1>1, <1>2, <2>2
  <2> QED
    BY <2>3 DEF KnownLines
<1>4. ASSUME NEW c \in Places, Known(ship[c]) /\ ship[c] > 0
      PROVE  ship[c] % sku.pack = 0 /\ ship[c] <= Target(c) /\ Eligible(offer[c])
  <2>1. c \in Shared
    BY <1>2, <1>4
  <2>2. Known(sku.pack)
    BY <1>2, <1>4, <2>1
  <2>3. c \in EligibleClusters
    BY <1>1, <2>1, SharedEligible
  <2> QED
    BY <1>2, <2>1, <2>2, <2>3 DEF EligibleClusters
<1>5. NoPackStranded
  BY <1>2 DEF NoPackStranded, Shared
<1> QED
  BY <1>3, <1>4, <1>5 DEF PlanShippable

LEMMA InvOptimal ==
    PlanInv => AllocationOptimal
<1> DEFINE E == EligibleClusters
           W(c) == Worth(offer[c])
           caps == {Cap(offer[c]) : c \in Places} \cup {0}
           gain(f) == [c \in E |-> f[c] * W(c)]
<1> SUFFICES ASSUME PlanInv, Allocated,
                    NEW f \in [E -> 0..Max(caps)],
                    \A c \in E : f[c] <= Cap(offer[c]),
                    Total(f, E) <= sku.stock
             PROVE  Total(gain(f), E) <= Total(gain(alloc), E)
  BY DEF AllocationOptimal
<1>1. PlanTypeOK /\ WithinCaps /\ IsFiniteSet(E) /\ E \subseteq Places
  BY SharedEligible DEF PlanInv
<1>2. /\ left \in Nat /\ left + Total(alloc, E) = sku.stock
      /\ \A c \in E : alloc[c] < Cap(offer[c]) =>
             /\ left = 0
             /\ \A d \in E : Before(c, d) => alloc[d] = 0
  BY <1>1 DEF PlanInv, PlanTypeOK, Allocating, Allocated
<1>3. \A c \in E : /\ W(c) \in Nat /\ Cap(offer[c]) \in Nat
                   /\ alloc[c] \in Nat /\ alloc[c] <= Cap(offer[c])
  BY <1>1, EligibleTyped DEF WithinCaps, PlanTypeOK
<1>4. \A c \in E : f[c] \in Int /\ f[c] >= 0
  <2> DEFINE g == [c \in Places |-> Cap(offer[c])]
             image == {Cap(offer[c]) : c \in Places}
  <2>1. g \in Surjection(Places, image) /\ IsFiniteSet(Places)
    BY <1>1, OfferTyped DEF Surjection
  <2>2. IsFiniteSet(image) /\ image \subseteq Nat
    BY <1>1, <2>1, FS_Surjection, OfferTyped, CapType
  <2>3. IsFiniteSet(caps) /\ caps \subseteq Nat /\ caps # {}
    BY <2>2, FS_AddElement
  <2> HIDE DEF caps
  <2>4. Max(caps) \in Nat
    BY <2>3, GreatestNatural
  <2> QED
    BY <2>4
<1> HIDE DEF E, W
<1>5. \A c \in E : /\ gain(f)[c] = f[c] * W(c) /\ gain(f)[c] \in Int
                   /\ gain(alloc)[c] = alloc[c] * W(c) /\ gain(alloc)[c] \in Int
  BY <1>3, <1>4
<1> DEFINE short == {c \in E : alloc[c] < Cap(offer[c])}
<1>6. CASE short = {}
  <2>1. \A c \in E : f[c] <= alloc[c]
    BY <1>3, <1>4, <1>6
  <2>2. \A c \in E : f[c] * W(c) <= alloc[c] * W(c)
    BY <1>3, <1>4, <2>1
  <2> HIDE DEF gain
  <2> QED
    BY <1>1, <1>5, <2>2, TotalLess
<1>7. CASE short # {}
  <2> DEFINE s == First(short)
             w == W(s)
  <2>1. short \subseteq EligibleClusters
    BY DEF E
  <2>2. s \in short /\ \A d \in short \ {s} : Before(s, d)
    <3> HIDE DEF short
    <3> QED
      BY <1>1, <1>7, <2>1, FirstIsFirst
  <2> HIDE DEF s
  <2>3. /\ s \in E /\ s \in EligibleClusters /\ w \in Nat
        /\ left = 0 /\ \A d \in E : Before(s, d) => alloc[d] = 0
    BY <1>2, <1>3, <2>1, <2>2
  <2>4. ASSUME NEW c \in E
        PROVE  f[c] * W(c) + w * alloc[c] <= alloc[c] * W(c) + w * f[c]
    <3>1. f[c] \in Int /\ f[c] >= 0 /\ f[c] <= Cap(offer[c]) /\ alloc[c] \in Nat /\ W(c) \in Nat
      BY <1>3, <1>4
    <3>2. CASE c = s
      BY <2>3, <3>1, <3>2
    <3>3. CASE Before(s, c)
      <4>1. alloc[c] = 0 /\ W(c) <= w
        BY <1>1, <2>3, <3>3, BeforeIsTotal DEF E, W
      <4>2. f[c] * W(c) <= f[c] * w
        BY <2>3, <3>1, <4>1
      <4> HIDE DEF w
      <4>3. f[c] * w = w * f[c] /\ w * 0 = 0 /\ 0 * W(c) = 0
        BY <2>3, <3>1
      <4>4. f[c] * W(c) \in Int /\ f[c] * w \in Int
        BY <2>3, <3>1
      <4> QED
        BY <4>1, <4>2, <4>3, <4>4
    <3>4. CASE Before(c, s)
      <4>1. W(c) >= w /\ c # s /\ ~Before(s, c)
        BY <1>1, <2>3, <3>4, BeforeIsTotal DEF E, W
      <4>2. c \notin short
        BY <2>2, <4>1
      <4>3. f[c] <= alloc[c]
        BY <1>3, <3>1, <4>2
      <4> HIDE DEF w
      <4>4. (alloc[c] - f[c]) * (W(c) - w) >= 0
        BY <2>3, <3>1, <4>1, <4>3
      <4>5. (alloc[c] - f[c]) * (W(c) - w) =
               (alloc[c] * W(c) + w * f[c]) - (f[c] * W(c) + w * alloc[c])
        BY <2>3, <3>1
      <4>6. alloc[c] * W(c) + w * f[c] \in Int /\ f[c] * W(c) + w * alloc[c] \in Int
        BY <2>3, <3>1
      <4> QED
        BY <4>4, <4>5, <4>6
    <3> QED
      BY <1>1, <2>3, <3>2, <3>3, <3>4, BeforeIsTotal DEF E
  <2> DEFINE g == gain(f)
             h == gain(alloc)
  <2>5. \A c \in E : /\ {g[c], alloc[c], h[c], f[c]} \subseteq Int
                     /\ g[c] + w * alloc[c] <= h[c] + w * f[c]
    BY <1>3, <1>4, <1>5, <2>4
  <2> HIDE DEF g, h, w
  <2>0. w \in Int
    BY <2>3
  <2>6. Total(g, E) + w * Total(alloc, E) <= Total(h, E) + w * Total(f, E)
    BY <1>1, <2>0, <2>5, TotalsCompare, Zenon
  <2>7. {Total(g, E), Total(alloc, E), Total(h, E), Total(f, E)} \subseteq Int
    BY <1>1, <2>5, TotalType
  <2>8. Total(f, E) <= Total(alloc, E)
    BY <1>2, <2>3, <2>7
  <2>9. w * Total(f, E) <= w * Total(alloc, E)
    BY <2>3, <2>7, <2>8
  <2>10. w * Total(f, E) \in Int /\ w * Total(alloc, E) \in Int
    BY <2>3, <2>7
  <2>11. Total(g, E) <= Total(h, E)
    BY <2>6, <2>7, <2>9, <2>10
  <2> QED
    BY <2>11 DEF g, h
<1> QED
  BY <1>6, <1>7

-----------------------------------------------------------------------------
(* The theorems of the plan.                                               *)

LEMMA PlanStepInv ==
    PlanInv /\ [PlanStep]_planVars => PlanInv'
<1> SUFFICES ASSUME PlanInv, [PlanStep]_planVars
             PROVE  PlanInv'
  OBVIOUS
<1>1. CASE Assess
  BY <1>1, AssessStep
<1>2. CASE Unallocated
  BY <1>2, UnallocatedStep
<1>3. CASE Allocate
  BY <1>3, AllocateStep
<1>4. CASE Draft
  BY <1>4, DraftStep
<1>5. CASE ShipUnknownPack
  BY <1>5, ShipUnknownPackStep
<1>6. CASE ShipPacks
  BY <1>6, ShipPacksStep
<1>7. CASE Publish \/ UNCHANGED planVars
  BY <1>7, StandingStep
<1> QED
  BY <1>1, <1>2, <1>3, <1>4, <1>5, <1>6, <1>7 DEF PlanStep

\* The loops of one plan preserve what they need to know of the lines behind
\* and before them.
THEOREM PlanInvariant ==
    PlanSpec => []PlanInv
<1> QED
  BY PlanStarts, PlanStepInv, PTL DEF PlanSpec

\* optimize_allocations: whatever the evidence and the stock, no division of
\* the stock over the eligible clusters is worth more than the greedy one.
THEOREM GreedyIsOptimal ==
    PlanSpec => []AllocationOptimal
<1> QED
  BY PlanInvariant, InvOptimal, PTL

\* build_shippable_plan: whatever the evidence, the plan is one the contracts
\* of ShippablePlan and ShippableLine let through, and it strands no pack.
THEOREM PlanIsShippable ==
    PlanSpec => []PlanShippable
<1> QED
  BY PlanInvariant, InvShippable, PTL

-----------------------------------------------------------------------------
(* The working plan: the same invariant through every edit of the manager  *)
(* and every new analysis.                                                 *)

NeverBoth == selected \cap {c \in Clusters : Known(manual[c])} = {}
WorkInv == PlanInv /\ WorkTypeOK /\ NeverBoth

LEMMA WorkStarts ==
    WorkInit => WorkInv
<1> SUFFICES ASSUME WorkInit
             PROVE  WorkInv
  OBVIOUS
<1>1. PlanInv
  BY PlanStarts DEF WorkInit
<1>2. PlanTypeOK
  BY <1>1 DEF PlanInv
<1> QED
  BY <1>1, <1>2 DEF WorkInit, WorkInv, WorkTypeOK, NeverBoth

\* An edit leaves the plan alone or starts the plan of a new analysis.
LEMMA EditsAndPlan ==
    ASSUME WorkInv, [WorkStep]_workVars
    PROVE  PlanInv'
<1>1. \/ [PlanStep]_planVars
      \/ \E k \in Managed : Recalculate(k)
  BY DEF WorkStep, workVars, Edit, Override, Reset, SetZero, SelectOzonLines,
         SelectModelLines, ResetAll, Expire
<1>2. CASE [PlanStep]_planVars
  BY <1>2, PlanStepInv DEF WorkInv
<1>3. ASSUME NEW k \in Managed, Recalculate(k)
      PROVE  PlanInv'
  BY <1>3, PlanRestarts
<1> QED
  BY <1>1, <1>2, <1>3

LEMMA ForgetFacts ==
    ASSUME WorkInv, NEW S, ForgetManual(S)
    PROVE  /\ manual' \in [Clusters -> Quantities \cup {0, Unknown}]
           /\ base' \in [Clusters -> Nat \cup {Unknown}]
           /\ \A c \in Clusters : Known(manual'[c]) => c \notin S /\ manual'[c] = manual[c]
  BY DEF WorkInv, WorkTypeOK, ForgetManual, Known

LEMMA EditsKeepTypes ==
    ASSUME WorkInv, [WorkStep]_workVars
    PROVE  /\ manual' \in [Clusters -> Quantities \cup {0, Unknown}]
           /\ base' \in [Clusters -> Nat \cup {Unknown}]
           /\ selected' \subseteq Clusters
           /\ fresh' \in BOOLEAN
           /\ \A c \in selected' : ~Known(manual'[c])
<1>1. /\ manual \in [Clusters -> Quantities \cup {0, Unknown}]
      /\ base \in [Clusters -> Nat \cup {Unknown}]
      /\ selected \subseteq Clusters /\ fresh \in BOOLEAN
      /\ \A c \in selected : ~Known(manual[c])
      /\ PlanTypeOK
  BY DEF WorkInv, WorkTypeOK, NeverBoth
<1>0. Places \subseteq Clusters /\ ship \in [Places -> Nat \cup {Unknown}]
  <2>1. Places \subseteq Clusters
    BY <1>1, OfferTyped
  <2> QED
    BY <1>1, <2>1 DEF PlanTypeOK
<1>2. CASE (PlanStep /\ UNCHANGED editVars) \/ UNCHANGED workVars
  BY <1>0, <1>1, <1>2 DEF editVars, workVars
<1>3. ASSUME NEW c \in Clusters, NEW q \in Quantities, Override(c, q)
      PROVE  /\ manual' \in [Clusters -> Quantities \cup {0, Unknown}]
             /\ base' \in [Clusters -> Nat \cup {Unknown}]
             /\ selected' \subseteq Clusters
             /\ fresh' \in BOOLEAN
             /\ \A d \in selected' : ~Known(manual'[d])
  <2>1. selected' = selected \ {c} /\ fresh' = fresh
    BY <1>3 DEF Override
  <2>2. CASE q = ship[c]
    BY <1>0, <1>1, <1>3, <2>1, <2>2, ForgetFacts DEF Override
  <2>3. CASE q # ship[c]
    BY <1>0, <1>1, <1>3, <2>1, <2>3 DEF Override
  <2> QED
    BY <2>2, <2>3
<1>4. ASSUME NEW S \in SUBSET Places, Reset(S)
      PROVE  /\ manual' \in [Clusters -> Quantities \cup {0, Unknown}]
             /\ base' \in [Clusters -> Nat \cup {Unknown}]
             /\ selected' \subseteq Clusters
             /\ fresh' \in BOOLEAN
             /\ \A d \in selected' : ~Known(manual'[d])
  BY <1>0, <1>1, <1>4, ForgetFacts DEF Reset
<1>5. ASSUME NEW S \in SUBSET Places, SetZero(S)
      PROVE  /\ manual' \in [Clusters -> Quantities \cup {0, Unknown}]
             /\ base' \in [Clusters -> Nat \cup {Unknown}]
             /\ selected' \subseteq Clusters
             /\ fresh' \in BOOLEAN
             /\ \A d \in selected' : ~Known(manual'[d])
  <2> DEFINE zero == {c \in S : ship[c] # 0}
  <2>1. /\ manual' = [c \in Clusters |-> IF c \in zero THEN 0
                                         ELSE IF c \in S THEN Unknown ELSE manual[c]]
        /\ base' = [c \in Clusters |-> IF c \in zero THEN ship[c]
                                       ELSE IF c \in S THEN Unknown ELSE base[c]]
        /\ selected' = selected \ S /\ fresh' = fresh /\ zero \subseteq S
    BY <1>5 DEF SetZero
  <2> HIDE DEF zero
  <2> QED
    BY <1>0, <1>1, <2>1
<1>6. ASSUME NEW S \in SUBSET Places, SelectOzonLines(S)
      PROVE  /\ manual' \in [Clusters -> Quantities \cup {0, Unknown}]
             /\ base' \in [Clusters -> Nat \cup {Unknown}]
             /\ selected' \subseteq Clusters
             /\ fresh' \in BOOLEAN
             /\ \A d \in selected' : ~Known(manual'[d])
  <2> DEFINE accepted == {c \in S \cap Places : Choosable(c)}
  <2>1. /\ accepted \subseteq Places /\ selected' = selected \cup accepted
        /\ ForgetManual(accepted) /\ fresh' = fresh
    BY <1>6 DEF SelectOzonLines
  <2> HIDE DEF accepted
  <2> QED
    BY <1>0, <1>1, <2>1, ForgetFacts
<1>7. CASE ResetAll
  BY <1>0, <1>1, <1>7, ForgetFacts DEF ResetAll
<1>8. CASE Expire \/ (\E S \in SUBSET Places : SelectModelLines(S))
                  \/ (\E k \in Managed : Recalculate(k))
  BY <1>0, <1>1, <1>8 DEF Expire, SelectModelLines, Recalculate
<1> QED
  BY <1>2, <1>3, <1>4, <1>5, <1>6, <1>7, <1>8 DEF WorkStep, Edit

LEMMA WorkStepInv ==
    WorkInv /\ [WorkStep]_workVars => WorkInv'
<1> SUFFICES ASSUME WorkInv, [WorkStep]_workVars
             PROVE  WorkInv'
  OBVIOUS
<1>1. PlanInv'
  BY EditsAndPlan
<1>2. PlanTypeOK'
  BY <1>1 DEF PlanInv
<1>3. WorkTypeOK' /\ NeverBoth'
  BY <1>2, EditsKeepTypes DEF WorkTypeOK, NeverBoth, Known
<1> QED
  BY <1>1, <1>3 DEF WorkInv

\* Whatever the manager edits and whenever the analysis is renewed, the plan
\* keeps what its loops rely on and no line has both a quantity by hand and
\* Ozon's (the /api/working-plan handlers).
THEOREM WorkInvariant ==
    WorkSpec => []WorkInv
<1> QED
  BY WorkStarts, WorkStepInv, PTL DEF WorkSpec

-----------------------------------------------------------------------------
(* The distribution loop of the working plan.                              *)

LEMMA LexLessOfThree ==
    ASSUME NEW a1, NEW a2, NEW a3, NEW b1, NEW b2, NEW b3
    PROVE  LexLess(<<a1, a2, a3>>, <<b1, b2, b3>>) <=>
               \/ a1 < b1
               \/ a1 = b1 /\ a2 < b2
               \/ a1 = b1 /\ a2 = b2 /\ a3 < b3
<1> DEFINE s == <<a1, a2, a3>>
           t == <<b1, b2, b3>>
           Less(i) == (\A j \in 1..(i - 1) : s[j] = t[j]) /\ s[i] < t[i]
<1>1. DOMAIN s = {1, 2, 3}
  BY IntervalsOfOrder
<1>2. s[1] = a1 /\ s[2] = a2 /\ s[3] = a3 /\ t[1] = b1 /\ t[2] = b2 /\ t[3] = b3
  OBVIOUS
<1>3. LexLess(s, t) <=> \E i \in {1, 2, 3} : Less(i)
  BY <1>1 DEF LexLess
<1> HIDE DEF s, t
<1>4. /\ Less(1) <=> s[1] < t[1]
      /\ Less(2) <=> s[1] = t[1] /\ s[2] < t[2]
      /\ Less(3) <=> s[1] = t[1] /\ s[2] = t[2] /\ s[3] < t[3]
  BY IntervalsOfOrder
<1> HIDE DEF Less
<1>5. LexLess(s, t) <=> Less(1) \/ Less(2) \/ Less(3)
  BY <1>3
<1>6. LexLess(s, t) <=> \/ a1 < b1
                        \/ a1 = b1 /\ a2 < b2
                        \/ a1 = b1 /\ a2 = b2 /\ a3 < b3
  BY <1>2, <1>4, <1>5, Zenon
<1> QED
  BY <1>6 DEF s, t

LEMMA RankType ==
    ASSUME PlanTypeOK, NEW c \in Places
    PROVE  Rank(c) \in Int
<1>1. IsFiniteSet({d \in EligibleClusters \ {c} : Before(d, c)})
  BY OfferTyped, FS_Subset DEF EligibleClusters
<1> QED
  BY <1>1, FS_CardinalityType DEF Rank, NoRank

\* Sooner is a strict total order of the lines, with the chosen ones first.
LEMMA SoonerMeans ==
    ASSUME PlanTypeOK, NEW c \in Places, NEW d \in Places
    PROVE  Sooner(c, d) <=>
               \/ c \in ChosenNow /\ d \notin ChosenNow
               \/ /\ c \in ChosenNow <=> d \in ChosenNow
                  /\ Rank(c) < Rank(d) \/ (Rank(c) = Rank(d) /\ c < d)
<1> DEFINE t(x) == IF x \in ChosenNow THEN 0 ELSE 1
<1>1. Sooner(c, d) <=> \/ t(c) < t(d)
                       \/ t(c) = t(d) /\ Rank(c) < Rank(d)
                       \/ t(c) = t(d) /\ Rank(c) = Rank(d) /\ c < d
  BY LexLessOfThree DEF Sooner, Turn
<1>2. /\ t(c) < t(d) <=> c \in ChosenNow /\ d \notin ChosenNow
      /\ t(c) = t(d) <=> (c \in ChosenNow <=> d \in ChosenNow)
  OBVIOUS
<1> HIDE DEF t
<1> QED
  BY <1>1, <1>2

LEMMA SoonerIsTotal ==
    ASSUME PlanTypeOK, NEW c \in Places, NEW d \in Places, NEW e \in Places
    PROVE  /\ Sooner(c, d) => ~Sooner(d, c) /\ c # d
           /\ c # d => Sooner(c, d) \/ Sooner(d, c)
           /\ Sooner(c, d) /\ Sooner(d, e) => Sooner(c, e)
<1>1. \A x \in {c, d, e} : Rank(x) \in Int /\ x \in Int
  BY RankType, OfferTyped
<1>2. \A x, y \in {c, d, e} :
         Sooner(x, y) <=> \/ x \in ChosenNow /\ y \notin ChosenNow
                          \/ /\ x \in ChosenNow <=> y \in ChosenNow
                             /\ Rank(x) < Rank(y) \/ (Rank(x) = Rank(y) /\ x < y)
  BY SoonerMeans
<1> QED
  BY <1>1, <1>2

LEMMA LastIsLast ==
    ASSUME PlanTypeOK, NEW S, S \subseteq Places, S # {}
    PROVE  LastLine(S) \in S /\ \A d \in S \ {LastLine(S)} : Sooner(d, LastLine(S))
<1> DEFINE R == {p \in S \X S : p[1] = p[2] \/ Sooner(p[2], p[1])}
<1>1. \A x, y \in S : <<x, y>> \in R \/ <<y, x>> \in R
  BY SoonerIsTotal
<1>2. \A x, y, z \in S : <<x, y>> \in R /\ <<y, z>> \in R => <<x, z>> \in R
  BY SoonerIsTotal
<1>3. IsFiniteSet(S)
  BY OfferTyped, FS_Subset
<1>4. PICK x \in S : \A y \in S : <<x, y>> \in R
  <2> HIDE DEF R
  <2> QED
    BY <1>1, <1>2, <1>3, FirstElement
<1>5. \A d \in S \ {x} : Sooner(d, x)
  BY <1>4
<1> QED
  BY <1>5 DEF LastLine

\* One iteration of the loop, and the recursive equation of Spent.
After(c, spent) == spent + Taken(c, Budget - spent)
Spends(g, T) == g[T] = IF T = {} THEN 0 ELSE After(LastLine(T), g[T \ {LastLine(T)}])

LEMMA SpentExists ==
    ASSUME PlanTypeOK
    PROVE  \E g : /\ g = [T \in SUBSET Places |-> g[T]]
                  /\ \A T \in SUBSET Places : Spends(g, T)
<1> DEFINE P == Places
           UpTo(n) == {T \in SUBSET P : Cardinality(T) <= n}
           OK(n) == \E g : \A T \in UpTo(n) : Spends(g, T)
           Bad == {n \in Nat : ~OK(n)}
<1>1. \A T \in SUBSET P : IsFiniteSet(T) /\ Cardinality(T) \in Nat
  BY OfferTyped, FS_Subset, FS_CardinalityType
<1>2. \A T \in SUBSET P : T # {} => /\ T \ {LastLine(T)} \in SUBSET P
                                    /\ Cardinality(T \ {LastLine(T)}) = Cardinality(T) - 1
  BY <1>1, LastIsLast, FS_RemoveElement
<1>3. OK(Cardinality(P))
  <2> SUFFICES ASSUME Bad # {}
               PROVE  FALSE
    BY <1>1
  <2> DEFINE n == Min(Bad)
  <2>1. n \in Nat /\ ~OK(n) /\ \A m \in Nat : m < n => OK(m)
    <3>1. n \in Bad /\ \A y \in Bad : n <= y
      <4> HIDE DEF Bad
      <4>1. Bad \subseteq Nat
        BY DEF Bad
      <4> QED
        BY <4>1, LeastNatural
    <3> HIDE DEF n, OK
    <3> QED
      BY <3>1
  <2> HIDE DEF n
  <2>2. \E g : \A T \in UpTo(n) : Cardinality(T) < n => Spends(g, T)
    <3>1. CASE n = 0
      BY <1>1, <3>1
    <3>2. CASE n # 0
      <4>1. OK(n - 1)
        BY <2>1, <3>2
      <4>2. PICK g : \A T \in UpTo(n - 1) : Spends(g, T)
        BY <4>1
      <4>3. \A T \in UpTo(n) : Cardinality(T) < n => T \in UpTo(n - 1)
        BY <1>1, <2>1
      <4> QED
        BY <4>2, <4>3
    <3> QED
      BY <3>1, <3>2
  <2>3. PICK g : \A T \in UpTo(n) : Cardinality(T) < n => Spends(g, T)
    BY <2>2
  <2> DEFINE h == [T \in SUBSET P |-> IF Cardinality(T) < n THEN g[T]
                                      ELSE IF T = {} THEN 0 ELSE After(LastLine(T), g[T \ {LastLine(T)}])]
  <2>4. ASSUME NEW T \in UpTo(n)
        PROVE  Spends(h, T)
    <3>1. h[T] = IF T = {} THEN 0 ELSE After(LastLine(T), g[T \ {LastLine(T)}])
      BY <2>3 DEF Spends
    <3>2. T # {} => h[T \ {LastLine(T)}] = g[T \ {LastLine(T)}]
      BY <1>1, <1>2, <2>1
    <3> HIDE DEF h
    <3> QED
      BY <3>1, <3>2 DEF Spends
  <2> QED
    BY <2>1, <2>4
<1>4. PICK g : \A T \in UpTo(Cardinality(P)) : Spends(g, T)
  BY <1>3
<1>5. \A T \in SUBSET P : T \in UpTo(Cardinality(P))
  BY OfferTyped, FS_Subset
<1> DEFINE h == [T \in SUBSET P |-> g[T]]
<1>6. \A T \in SUBSET P : Spends(h, T)
  BY <1>2, <1>4, <1>5 DEF Spends
<1>7. h = [T \in SUBSET P |-> h[T]]
  OBVIOUS
<1> QED
  BY <1>6, <1>7

LEMMA SpentMeans ==
    ASSUME PlanTypeOK, NEW T \in SUBSET Places
    PROVE  Spends(Spent, T)
<1> DEFINE Eqn(g) == g = [S \in SUBSET Places |->
                            IF S = {} THEN 0
                            ELSE g[S \ {LastLine(S)}] + Taken(LastLine(S), Budget - g[S \ {LastLine(S)}])]
<1>1. PICK g : /\ g = [S \in SUBSET Places |-> g[S]]
               /\ \A S \in SUBSET Places : Spends(g, S)
  BY SpentExists
<1>2. [S \in SUBSET Places |-> g[S]] = [S \in SUBSET Places |->
                            IF S = {} THEN 0
                            ELSE g[S \ {LastLine(S)}] + Taken(LastLine(S), Budget - g[S \ {LastLine(S)}])]
  BY <1>1 DEF Spends, After
<1>3. Eqn(g)
  BY <1>1, <1>2
<1>4. Spent = CHOOSE f : Eqn(f)
  BY DEF Spent
<1>5. Eqn(Spent)
  <2> HIDE DEF Eqn
  <2> QED
    BY <1>3, <1>4
<1> QED
  BY <1>5 DEF Spends, After

LEMMA RoundUpFacts ==
    ASSUME NEW q \in Nat, NEW p \in Nat \ {0}
    PROVE  RoundUp(q, p) \in Nat /\ RoundUp(q, p) % p = 0
<1> DEFINE m == (-q) \div p
           r == (-q) % p
<1>1. m \in Int /\ r \in 0..(p - 1) /\ -q = p * m + r
  OBVIOUS
<1> HIDE DEF m, r
<1>2. m <= 0
  <2> SUFFICES ASSUME m >= 1
               PROVE  FALSE
    BY <1>1
  <2>1. p * m >= p
    BY <1>1
  <2>2. p * m \in Int
    BY <1>1
  <2> QED
    BY <1>1, <2>1, <2>2
<1>3. -m \in Nat
  BY <1>1, <1>2
<1>4. RoundUp(q, p) = (-m) * p
  BY DEF RoundUp, CeilDiv, m
<1> QED
  BY <1>3, <1>4, WholePacks

\* Ozon's quantity is only chosen where Ozon itself is asked about capacity,
\* with stock and pack known, and never for a line with a quantity by hand.
Choosing == WorkInv /\ Ready /\ ChosenNow # {}

LEMMA ChoosingNow ==
    ASSUME Choosing
    PROVE  /\ PlanTypeOK /\ IsFiniteSet(Places)
           /\ sku.stock \in Nat /\ sku.pack \in Nat \ {0} /\ Known(sku.pack)
           /\ \A c \in Places : ~Known(PackCapacity(offer[c]))
           /\ ship \in [Places -> Nat \cup {Unknown}]
           /\ \A c \in Places : Manual(c) => manual[c] \in Nat
           /\ \A c \in ChosenNow : c \in Places /\ ~Manual(c) /\ offer[c].ozon \in Nat
<1>1. PlanTypeOK /\ WorkTypeOK /\ NeverBoth
  BY DEF Choosing, WorkInv, WorkTypeOK
<1>2. /\ IsFiniteSet(Places) /\ Places \subseteq Clusters
      /\ sku.stock \in Nat \cup {Unknown} /\ sku.pack \in (Nat \ {0}) \cup {Unknown}
      /\ \A c \in Places : OfferTypeOK(offer[c])
  BY <1>1, OfferTyped
<1>3. sku.live /\ Known(sku.stock) /\ Known(sku.pack)
  BY DEF Choosing, ChosenNow, Choosable
<1>4. \A c \in Places : ~Known(PackCapacity(offer[c]))
  BY <1>3 DEF PackCapacity, Capacity, Known
<1>5. \A c \in Places : Manual(c) => manual[c] \in Nat
  <2>1. manual \in [Clusters -> Quantities \cup {0, Unknown}]
    BY <1>1 DEF WorkTypeOK
  <2>2. \A c \in Clusters : manual[c] \in Nat \cup {Unknown}
    <3>1. \A c \in Clusters : manual[c] \in Quantities \cup {0, Unknown}
      BY <2>1
    <3>2. ASSUME NEW q \in Quantities \cup {0, Unknown}
          PROVE  q \in Nat \cup {Unknown}
      BY QuantitiesAssumption
    <3> QED
      BY <3>1, <3>2
  <2> QED
    BY <1>2, <2>2 DEF Manual, Known
<1>6. ASSUME NEW c \in ChosenNow
      PROVE  c \in Places /\ ~Manual(c) /\ offer[c].ozon \in Nat
  <2>1. c \in Places /\ c \in selected /\ Known(offer[c].ozon)
    BY DEF ChosenNow, Choosable
  <2>2. OfferTypeOK(offer[c])
    BY <1>2, <2>1
  <2>3. offer[c].ozon \in Nat
    BY <2>1, <2>2 DEF OfferTypeOK, Known
  <2> QED
    BY <1>1, <1>2, <2>1, <2>3 DEF NeverBoth, Manual
<1>7. ship \in [Places -> Nat \cup {Unknown}]
  BY <1>1 DEF PlanTypeOK
<1> QED
  BY <1>1, <1>2, <1>3, <1>4, <1>5, <1>6, <1>7 DEF Known

LEMMA TakenFacts ==
    ASSUME Choosing, NEW c \in Places, NEW r \in Nat
    PROVE  /\ Taken(c, r) \in Nat /\ Taken(c, r) <= r
           /\ r < sku.pack => Taken(c, r) = 0
           /\ Manual(c) \/ ~Known(Requested(c)) => Taken(c, r) = 0
           /\ c \in ChosenNow =>
                  LET full == RoundUp(offer[c].ozon, sku.pack)
                  IN /\ full \in Nat
                     /\ Taken(c, r) <= full /\ Taken(c, r) % sku.pack = 0
                     /\ Taken(c, r) < full => r - Taken(c, r) < sku.pack
<1> DEFINE down == RoundDown(r, sku.pack)
           want == Wanted(c)
           full == RoundUp(offer[c].ozon, sku.pack)
<1>1. /\ sku.pack \in Nat \ {0} /\ Known(sku.pack) /\ ~Known(PackCapacity(offer[c]))
      /\ ship[c] \in Nat \cup {Unknown}
      /\ c \in ChosenNow => ~Manual(c) /\ offer[c].ozon \in Nat
  BY ChoosingNow
<1>2. down \in Nat /\ down % sku.pack = 0 /\ down <= r /\ r - down < sku.pack
      /\ (r < sku.pack => down = 0)
  BY <1>1, RoundDownFacts
<1>3. c \in ChosenNow => /\ want = full /\ full \in Nat /\ full % sku.pack = 0
                         /\ Requested(c) \in Nat
  BY <1>1, RoundUpFacts DEF Wanted, Requested
<1>4. c \notin ChosenNow => want = ship[c] /\ Requested(c) = ship[c]
  BY <1>1 DEF Wanted, Requested
<1>5. Taken(c, r) = IF Manual(c) \/ ~Known(Requested(c)) THEN 0 ELSE Least(want, down)
  BY <1>1 DEF Taken
<1> HIDE DEF down, want, full
<1>6. ~(Manual(c) \/ ~Known(Requested(c))) => want \in Nat
  BY <1>1, <1>3, <1>4 DEF Known
<1>7. c \in ChosenNow => Taken(c, r) = Least(full, down)
  BY <1>1, <1>3, <1>5, UnknownAssumption DEF Known
<1>8. /\ Taken(c, r) \in Nat /\ Taken(c, r) <= r
      /\ r < sku.pack => Taken(c, r) = 0
  BY <1>1, <1>2, <1>5, <1>6 DEF Least
<1>9. c \in ChosenNow => /\ full \in Nat
                         /\ Taken(c, r) <= full /\ Taken(c, r) % sku.pack = 0
                         /\ Taken(c, r) < full => r - Taken(c, r) < sku.pack
  BY <1>1, <1>2, <1>3, <1>7 DEF Least
<1> QED
  BY <1>5, <1>8, <1>9 DEF full

LEMMA BudgetFacts ==
    ASSUME Choosing
    PROVE  /\ Committed \in Int /\ Budget \in Nat
           /\ Committed <= sku.stock => Committed + Budget = sku.stock
<1>1. /\ IsFiniteSet(Places) /\ sku.stock \in Nat
      /\ \A c \in Places : Manual(c) => manual[c] \in Nat
  BY ChoosingNow
<1>2. Committed \in Int
  BY <1>1, FS_Subset, TotalType DEF Committed
<1>3. Known(sku.stock)
  BY <1>1, UnknownAssumption DEF Known
<1> QED
  BY <1>1, <1>2, <1>3 DEF Budget

\* The loop never spends more than the budget.
LEMMA SpentFacts ==
    ASSUME Choosing, NEW S \in SUBSET Places
    PROVE  Spent[S] \in Nat /\ Spent[S] <= Budget
<1> DEFINE OK(T) == Spent[T] \in Nat /\ Spent[T] <= Budget
           Q == {T \in SUBSET Places : ~OK(T)}
<1>1. SUFFICES ASSUME Q # {}
               PROVE  FALSE
  OBVIOUS
<1>2. PlanTypeOK /\ IsFiniteSet(Places) /\ Budget \in Nat
  BY ChoosingNow, BudgetFacts
<1>3. PICK T \in Q : \A U \in Q : U \subseteq T => U = T
  <2> HIDE DEF Q
  <2>1. Q \subseteq SUBSET Places
    BY DEF Q
  <2> QED
    BY <1>1, <1>2, <2>1, MinimalSubset
<1>4. T \in SUBSET Places /\ ~OK(T) /\ Spends(Spent, T)
  BY <1>2, SpentMeans
<1>5. T # {}
  BY <1>2, <1>4 DEF Spends
<1> DEFINE c == LastLine(T)
           u == T \ {c}
<1>6. c \in T /\ c \in Places
  BY <1>2, <1>4, <1>5, LastIsLast
<1>7. OK(u)
  BY <1>3, <1>6
<1>8. Spent[T] = Spent[u] + Taken(c, Budget - Spent[u])
  BY <1>4, <1>5 DEF Spends, After
<1> HIDE DEF c, u
<1>9. Budget - Spent[u] \in Nat
  BY <1>2, <1>7
<1>10. Taken(c, Budget - Spent[u]) \in Nat /\ Taken(c, Budget - Spent[u]) <= Budget - Spent[u]
  BY <1>6, <1>9, TakenFacts
<1> QED
  BY <1>2, <1>4, <1>7, <1>8, <1>10

\* The lines visited up to some moment, and the one visited last.
Segment(S) == S \subseteq Places /\ \A c \in S : \A d \in Places : Sooner(d, c) => d \in S
Sooners(c) == {d \in Places : Sooner(d, c)}

LEMMA SegmentStep ==
    ASSUME Choosing, NEW S, Segment(S), S # {}
    PROVE  LET c == LastLine(S) IN
           /\ c \in S /\ c \in Places
           /\ Sooners(c) = S \ {c} /\ Segment(S \ {c})
           /\ Spent[S] = Spent[S \ {c}] + Given(c)
           /\ Given(c) = Taken(c, Budget - Spent[S \ {c}])
<1> DEFINE c == LastLine(S)
<1>1. PlanTypeOK /\ S \subseteq Places
  BY ChoosingNow DEF Segment
<1>2. c \in S /\ \A d \in S \ {c} : Sooner(d, c)
  BY <1>1, LastIsLast
<1>3. Spends(Spent, S)
  BY <1>1, SpentMeans
<1>4. Spent[S] = Spent[S \ {c}] + Taken(c, Budget - Spent[S \ {c}])
  BY <1>3 DEF Spends, After
<1> HIDE DEF c
<1>5. Sooners(c) = S \ {c}
  BY <1>1, <1>2, SoonerIsTotal DEF Segment, Sooners
<1>6. Segment(S \ {c})
  BY <1>1, <1>2, SoonerIsTotal DEF Segment
<1>7. Given(c) = Taken(c, Budget - Spent[S \ {c}])
  BY <1>5 DEF Given, Sooners
<1> QED
  BY <1>1, <1>2, <1>4, <1>5, <1>6, <1>7 DEF c

LEMMA SoonersSegment ==
    ASSUME Choosing, NEW c \in Places
    PROVE  /\ Segment(Sooners(c)) /\ Segment(Sooners(c) \cup {c}) /\ c \notin Sooners(c)
           /\ Spent[Sooners(c) \cup {c}] = Spent[Sooners(c)] + Given(c)
           /\ Given(c) = Taken(c, Budget - Spent[Sooners(c)])
<1> DEFINE T == Sooners(c) \cup {c}
<1>1. PlanTypeOK
  BY ChoosingNow
<1>2. Segment(Sooners(c)) /\ Segment(T) /\ c \notin Sooners(c)
  BY <1>1, SoonerIsTotal DEF Segment, Sooners
<1>3. LastLine(T) = c
  <2>1. LastLine(T) \in T /\ \A d \in T \ {LastLine(T)} : Sooner(d, LastLine(T))
    BY <1>1, <1>2, LastIsLast DEF Segment
  <2> QED
    BY <1>1, <2>1, SoonerIsTotal DEF Sooners
<1>4. T \ {c} = Sooners(c)
  BY <1>2
<1>5. Spent[T] = Spent[T \ {c}] + Given(c) /\ Given(c) = Taken(c, Budget - Spent[T \ {c}])
  BY <1>2, <1>3, SegmentStep
<1> QED
  BY <1>2, <1>4, <1>5

LEMMA GivenFacts ==
    ASSUME Choosing, NEW c \in Places
    PROVE  /\ Given(c) \in Nat
           /\ Manual(c) \/ ~Known(Requested(c)) => Given(c) = 0
<1> DEFINE r == Budget - Spent[Sooners(c)]
<1>1. Given(c) = Taken(c, r) /\ r \in Nat
  <2>1. Sooners(c) \in SUBSET Places
    BY DEF Sooners
  <2>2. Spent[Sooners(c)] \in Nat /\ Spent[Sooners(c)] <= Budget /\ Budget \in Nat
    BY <2>1, SpentFacts, BudgetFacts
  <2>3. Given(c) = Taken(c, r)
    BY SoonersSegment
  <2> QED
    BY <2>2, <2>3
<1> HIDE DEF r
<1> QED
  BY <1>1, TakenFacts

\* What is spent only grows from line to line.
LEMMA SpentGrows ==
    ASSUME Choosing, NEW S, Segment(S), NEW T, Segment(T), S \subseteq T
    PROVE  Spent[S] <= Spent[T]
<1> DEFINE Q == {U \in SUBSET Places : Segment(U) /\ S \subseteq U /\ ~(Spent[S] <= Spent[U])}
<1>1. SUFFICES ASSUME Q # {}
               PROVE  FALSE
  BY DEF Segment
<1>2. PICK U \in Q : \A V \in Q : V \subseteq U => V = U
  <2> HIDE DEF Q
  <2>1. Q \subseteq SUBSET Places /\ IsFiniteSet(Places)
    BY ChoosingNow DEF Q
  <2> QED
    BY <1>1, <2>1, MinimalSubset
<1>3. U # S
  BY <1>2, SpentFacts
<1> DEFINE c == LastLine(U)
<1>4. /\ c \in U /\ c \in Places /\ Sooners(c) = U \ {c} /\ Segment(U \ {c})
      /\ Spent[U] = Spent[U \ {c}] + Given(c)
  BY <1>2, <1>3, SegmentStep
<1> HIDE DEF c
<1>5. c \notin S
  BY <1>2, <1>3, <1>4 DEF Segment, Sooners
<1>6. Spent[S] <= Spent[U \ {c}]
  BY <1>2, <1>4, <1>5
<1>7. Given(c) \in Nat /\ Spent[U \ {c}] \in Nat /\ Spent[S] \in Nat
  BY <1>2, <1>4, GivenFacts, SpentFacts DEF Segment
<1> QED
  BY <1>2, <1>4, <1>6, <1>7

\* The working quantities are those by hand and those of the loop.
LEMMA WorkingFacts ==
    ASSUME Choosing, NEW c \in Places
    PROVE  /\ Manual(c) => Working(c) = manual[c] /\ Working(c) \in Nat
           /\ ~Manual(c) /\ Known(Requested(c)) => Working(c) = Given(c) /\ Working(c) \in Nat
           /\ ~Manual(c) /\ ~Known(Requested(c)) => ~Known(Working(c))
           /\ c \in ChosenNow => Known(Requested(c))
<1>1. /\ Manual(c) => manual[c] \in Nat
      /\ c \in ChosenNow => offer[c].ozon \in Nat
  BY ChoosingNow
<1>2. Given(c) \in Nat
  BY GivenFacts
<1>3. c \in ChosenNow => Known(Requested(c))
  BY <1>1, UnknownAssumption DEF Requested, Known
<1>4. ~Manual(c) /\ ~Known(Requested(c)) => ~Known(Working(c))
  BY <1>3 DEF Requested, Working, Known
<1>5. ChosenNow # {}
  BY DEF Choosing
<1> QED
  BY <1>1, <1>2, <1>3, <1>4, <1>5 DEF Working

LEMMA WorkingBalance ==
    ASSUME Choosing
    PROVE  WorkingTotal = Committed + Spent[Places]
<1> DEFINE W == [c \in Places |-> Working(c)]
           K == {c \in Places : Known(Working(c))}
           M == {c \in Places : Manual(c)}
           OK(T) == Total(W, T \cap K) = Total(manual, T \cap M) + Spent[T]
           Q == {T \in SUBSET Places : Segment(T) /\ ~OK(T)}
<1>1. PlanTypeOK /\ IsFiniteSet(Places)
  BY ChoosingNow
<1>2. \A c \in Places : /\ c \in M => c \in K /\ W[c] = manual[c] /\ W[c] \in Nat /\ Given(c) = 0
                        /\ c \in K /\ c \notin M => W[c] = Given(c) /\ W[c] \in Nat
                        /\ c \notin K => Given(c) = 0
                        /\ Given(c) \in Nat
  <2> SUFFICES ASSUME NEW c \in Places
               PROVE  /\ Manual(c) => Known(Working(c)) /\ Working(c) = manual[c] /\ Working(c) \in Nat
                                      /\ Given(c) = 0
                      /\ Known(Working(c)) /\ ~Manual(c) => Working(c) = Given(c) /\ Working(c) \in Nat
                      /\ ~Known(Working(c)) => Given(c) = 0
                      /\ Given(c) \in Nat
    OBVIOUS
  <2>1. /\ Given(c) \in Nat
        /\ Manual(c) \/ ~Known(Requested(c)) => Given(c) = 0
    BY GivenFacts
  <2>2. Working(c) \in Nat => Known(Working(c))
    BY UnknownAssumption DEF Known
  <2> QED
    BY <2>1, <2>2, WorkingFacts
<1>3. ASSUME Q # {}
      PROVE  FALSE
  <2>1. PICK T \in Q : \A U \in Q : U \subseteq T => U = T
    <3> HIDE DEF Q
    <3>1. Q \subseteq SUBSET Places
      BY DEF Q
    <3> QED
      BY <1>1, <1>3, <3>1, MinimalSubset
  <2>2. T \in SUBSET Places /\ Segment(T) /\ ~OK(T) /\ IsFiniteSet(T)
    BY <1>1, <2>1, FS_Subset
  <2>3. T # {}
    <3> SUFFICES ASSUME T = {}
                 PROVE  OK(T)
      BY <2>2
    <3>1. Spent[T] = 0
      BY <1>1, SpentMeans DEF Spends
    <3>2. T \cap K = {} /\ T \cap M = {}
      OBVIOUS
    <3> HIDE DEF W, K, M
    <3> QED
      BY <3>1, <3>2, TotalOfNothing
  <2> DEFINE c == LastLine(T)
             u == T \ {c}
  <2>4. /\ c \in T /\ c \in Places /\ Segment(u)
        /\ Spent[T] = Spent[u] + Given(c)
    BY <2>2, <2>3, SegmentStep
  <2> HIDE DEF c
  <2>5. OK(u)
    BY <2>1, <2>2, <2>4
  <2>6. Spent[u] \in Nat /\ Given(c) \in Nat
    BY <1>2, <2>2, <2>4, SpentFacts
  <2>7. /\ c \in K => u \cap K = (T \cap K) \ {c} /\ c \in T \cap K
        /\ c \notin K => u \cap K = T \cap K
        /\ c \in M => u \cap M = (T \cap M) \ {c} /\ c \in T \cap M
        /\ c \notin M => u \cap M = T \cap M
    BY <2>4
  <2>8. /\ IsFiniteSet(T \cap K) /\ IsFiniteSet(T \cap M) /\ IsFiniteSet(u \cap K) /\ IsFiniteSet(u \cap M)
    BY <2>2, FS_Subset
  <2>9. /\ \A d \in T \cap K : W[d] \in Int
        /\ \A d \in T \cap M : manual[d] \in Int
    BY <1>2
  <2>0. /\ \A d \in u \cap K : W[d] \in Int
        /\ \A d \in u \cap M : manual[d] \in Int
    BY <1>2
  <2> HIDE DEF W, K, M, u
  <2>10. c \in K => Total(W, T \cap K) = W[c] + Total(W, u \cap K)
    BY <2>7, <2>8, <2>9, TotalWithout
  <2>11. c \in M => Total(manual, T \cap M) = manual[c] + Total(manual, u \cap M)
    BY <2>7, <2>8, <2>9, TotalWithout
  <2>12. Total(W, u \cap K) \in Int /\ Total(manual, u \cap M) \in Int
    BY <2>8, <2>0, TotalType
  <2> DEFINE a == Total(W, T \cap K)
             b == Total(manual, T \cap M)
             a_ == Total(W, u \cap K)
             b_ == Total(manual, u \cap M)
  <2>13. /\ a_ \in Int /\ b_ \in Int /\ a_ = b_ + Spent[u]
         /\ c \in K => a = W[c] + a_
         /\ c \notin K => a = a_
         /\ c \in M => b = manual[c] + b_
         /\ c \notin M => b = b_
    BY <2>5, <2>7, <2>10, <2>11, <2>12
  <2> HIDE DEF a, b, a_, b_
  <2>14. a = b + Spent[T]
    <3>1. /\ c \in M => c \in K /\ W[c] = manual[c] /\ W[c] \in Nat /\ Given(c) = 0
          /\ c \in K /\ c \notin M => W[c] = Given(c) /\ W[c] \in Nat
          /\ c \notin K => Given(c) = 0
      BY <1>2, <2>4
    <3> QED
      BY <2>4, <2>6, <2>13, <3>1
  <2> QED
    BY <2>2, <2>14 DEF a, b
<1>4. Segment(Places)
  BY DEF Segment
<1>5. OK(Places)
  BY <1>3, <1>4
<1>6. Places \cap K = K /\ Places \cap M = M
  OBVIOUS
<1> QED
  BY <1>5, <1>6 DEF WorkingTotal, Committed

LEMMA InvSelection ==
    WorkInv => SelectionFair
<1> SUFFICES ASSUME WorkInv
             PROVE  SelectionFair
  OBVIOUS
<1>1. selected \cap {c \in Clusters : Known(manual[c])} = {}
  BY DEF WorkInv, NeverBoth
<1>2. ASSUME Ready, ChosenNow # {}, Committed <= sku.stock
      PROVE  WorkingTotal <= sku.stock
  <2>1. Choosing
    BY <1>2 DEF Choosing
  <2>2. Spent[Places] \in Nat /\ Spent[Places] <= Budget
    BY <2>1, SpentFacts
  <2> QED
    BY <1>2, <2>1, <2>2, BudgetFacts, WorkingBalance, ChoosingNow
<1>3. ASSUME Ready, ChosenNow # {}, NEW c \in ChosenNow
      PROVE  LET full == RoundUp(offer[c].ozon, sku.pack)
             IN /\ Working(c) <= full /\ Working(c) % sku.pack = 0
                /\ Working(c) < full =>
                      /\ Budget - Spent[Places] < sku.pack
                      /\ \A d \in Places : d \notin ChosenNow /\ ~Manual(d)
                             /\ Known(Working(d)) => Working(d) = 0
  <2> DEFINE full == RoundUp(offer[c].ozon, sku.pack)
             room == Budget - Spent[Sooners(c)]
             T == Sooners(c) \cup {c}
  <2>1. Choosing
    BY <1>3 DEF Choosing
  <2>2. PlanTypeOK /\ c \in Places /\ ~Manual(c) /\ sku.pack \in Nat \ {0} /\ Budget \in Nat
    BY <2>1, ChoosingNow, BudgetFacts
  <2>3. Working(c) = Given(c)
    BY <2>1, <2>2, WorkingFacts
  <2>4. /\ Segment(T) /\ Spent[T] = Spent[Sooners(c)] + Given(c) /\ Given(c) = Taken(c, room)
    BY <2>1, <2>2, SoonersSegment
  <2>5. Sooners(c) \in SUBSET Places /\ T \in SUBSET Places
    BY <2>2 DEF Sooners
  <2>6. /\ Spent[Sooners(c)] \in Nat /\ Spent[Sooners(c)] <= Budget
        /\ Spent[T] \in Nat /\ Spent[T] <= Budget
    BY <2>1, <2>5, SpentFacts
  <2>7. room \in Nat
    BY <2>2, <2>6
  <2> HIDE DEF room, full
  <2>8. /\ full \in Nat /\ Taken(c, room) \in Nat
        /\ Taken(c, room) <= full /\ Taken(c, room) % sku.pack = 0
        /\ Taken(c, room) < full => room - Taken(c, room) < sku.pack
    BY <2>1, <2>2, <2>7, TakenFacts DEF full
  <2>9. Working(c) < full => Budget - Spent[T] < sku.pack
    BY <2>2, <2>3, <2>4, <2>6, <2>8 DEF room
  <2> HIDE DEF T
  <2>10. ASSUME NEW U, Segment(U), T \subseteq U, Working(c) < full
         PROVE  Spent[U] \in Nat /\ Budget - Spent[U] \in Nat /\ Budget - Spent[U] < sku.pack
    <3>1. Spent[T] <= Spent[U]
      BY <2>1, <2>4, <2>10, SpentGrows
    <3>2. Spent[U] \in Nat /\ Spent[U] <= Budget
      BY <2>1, <2>10, SpentFacts DEF Segment
    <3> QED
      BY <2>2, <2>6, <2>9, <2>10, <3>1, <3>2
  <2>11. Segment(Places)
    BY DEF Segment
  <2>12. Working(c) < full => Budget - Spent[Places] < sku.pack
    BY <2>5, <2>10, <2>11
  <2>13. ASSUME Working(c) < full, NEW d \in Places, d \notin ChosenNow, ~Manual(d), Known(Working(d))
         PROVE  Working(d) = 0
    <3>1. Known(Requested(d)) /\ Working(d) = Given(d)
      BY <2>1, <2>13, WorkingFacts
    <3>2. Sooner(c, d)
      BY <1>3, <2>2, <2>13, SoonerMeans
    <3>3. T \subseteq Sooners(d) /\ Segment(Sooners(d))
      <4>1. \A e \in Places : Sooner(e, c) => Sooner(e, d)
        BY <2>2, <3>2, SoonerIsTotal
      <4>2. T \subseteq Sooners(d)
        BY <2>2, <3>2, <4>1 DEF T, Sooners
      <4> QED
        BY <2>1, <4>2, SoonersSegment
    <3> DEFINE r == Budget - Spent[Sooners(d)]
    <3>4. r \in Nat /\ r < sku.pack
      BY <2>10, <2>13, <3>3
    <3>5. Given(d) = Taken(d, r)
      BY <2>1, SoonersSegment
    <3> HIDE DEF r
    <3> QED
      BY <2>1, <3>1, <3>4, <3>5, TakenFacts
  <2>14. Working(c) <= full /\ Working(c) % sku.pack = 0
    BY <2>3, <2>4, <2>8
  <2> QED
    BY <2>12, <2>13, <2>14 DEF full
<1> QED
  BY <1>1, <1>2, <1>3 DEF SelectionFair

\* The type of the working plan, whatever is edited and recalculated.
THEOREM WorkTypeCorrect ==
    WorkSpec => []WorkTypeOK
<1>1. WorkInv => WorkTypeOK
  BY DEF WorkInv
<1> QED
  BY <1>1, WorkInvariant, PTL

\* optimize_allocations and build_shippable_plan under the manager's edits: a
\* new analysis starts both again, and nothing else touches their result.
THEOREM PlanStaysOptimal ==
    WorkSpec => []AllocationOptimal /\ []PlanShippable
<1>1. WorkInv => AllocationOptimal /\ PlanShippable
  BY InvOptimal, InvShippable DEF WorkInv
<1> QED
  BY <1>1, WorkInvariant, PTL

\* materialize_working_plan and _select_ozon_source: after any sequence of
\* edits no line has two sources, the chosen lines stay within the stock that
\* the quantities by hand leave, and none is short while another line gets any.
THEOREM SelectionIsFair ==
    WorkSpec => []SelectionFair
<1> QED
  BY WorkInvariant, InvSelection, PTL

-----------------------------------------------------------------------------
(* Sets in order, and sequences one after the other.                       *)

StrictlyOrders(R, S) ==
    /\ \A x \in S : <<x, x>> \notin R
    /\ \A x, y \in S : x # y => <<x, y>> \in R \/ <<y, x>> \in R
    /\ \A x, y, z \in S : <<x, y>> \in R /\ <<y, z>> \in R => <<x, z>> \in R

\* A finite set has exactly one arrangement in a strict order: each element
\* stands once, after all that precede it.
LEMMA ArrangedSorts ==
    ASSUME NEW S, IsFiniteSet(S), NEW R, StrictlyOrders(R, S)
    PROVE  /\ Cardinality(S) \in Nat /\ Arranged(S, R) \in [1..Cardinality(S) -> S]
           /\ \A e \in S : \E n \in 1..Cardinality(S) : Arranged(S, R)[n] = e
           /\ \A m, n \in 1..Cardinality(S) :
                  m < n => <<Arranged(S, R)[m], Arranged(S, R)[n]>> \in R
<1> DEFINE N == Cardinality(S)
           below(e) == {d \in S : <<d, e>> \in R}
           rank == [e \in S |-> Cardinality(below(e)) + 1]
           s == Arranged(S, R)
<1>0. N \in Nat /\ IsFiniteSet(1..N) /\ Cardinality(1..N) = N
  <2>1. N \in Nat
    BY FS_CardinalityType
  <2>2. IsFiniteSet(1..N) /\ Cardinality(1..N) = IF 1 > N THEN 0 ELSE N - 1 + 1
    <3> HIDE DEF N
    <3> QED
      BY <2>1, FS_Interval
  <2> HIDE DEF N
  <2> QED
    BY <2>1, <2>2
<1>1. \A e \in S : /\ IsFiniteSet(below(e)) /\ Cardinality(below(e)) \in Nat
                   /\ Cardinality(below(e)) < N
  <2> TAKE e \in S
  <2>1. below(e) \in SUBSET S /\ below(e) # S
    BY DEF StrictlyOrders
  <2> HIDE DEF below
  <2>2. IsFiniteSet(below(e)) /\ Cardinality(below(e)) <= N /\ N # Cardinality(below(e))
    BY <2>1, FS_Subset
  <2>3. Cardinality(below(e)) \in Nat
    BY <2>2, FS_CardinalityType
  <2> HIDE DEF N
  <2> QED
    BY <1>0, <2>2, <2>3
<1>2. \A d, e \in S : <<d, e>> \in R => Cardinality(below(d)) < Cardinality(below(e))
  <2> SUFFICES ASSUME NEW d \in S, NEW e \in S, <<d, e>> \in R
               PROVE  Cardinality(below(d)) < Cardinality(below(e))
    OBVIOUS
  <2>1. below(d) \in SUBSET below(e) /\ below(d) # below(e)
    BY DEF StrictlyOrders
  <2> HIDE DEF below
  <2>2. Cardinality(below(d)) <= Cardinality(below(e)) /\ Cardinality(below(e)) # Cardinality(below(d))
    BY <1>1, <2>1, FS_Subset
  <2> QED
    BY <1>1, <2>2
<1> HIDE DEF N
<1>3. rank \in Injection(S, 1..N)
  <2>1. \A e \in S : Cardinality(below(e)) + 1 \in 1..N
    <3> HIDE DEF below
    <3> QED
      BY <1>0, <1>1
  <2>2. rank \in [S -> 1..N]
    <3> HIDE DEF below
    <3> QED
      BY <2>1
  <2>3. \A d, e \in S : rank[d] = rank[e] => d = e
    <3> SUFFICES ASSUME NEW d \in S, NEW e \in S, rank[d] = rank[e], d # e
                 PROVE  FALSE
      OBVIOUS
    <3>1. <<d, e>> \in R \/ <<e, d>> \in R
      BY DEF StrictlyOrders
    <3>2. rank[d] = Cardinality(below(d)) + 1 /\ rank[e] = Cardinality(below(e)) + 1
      OBVIOUS
    <3> HIDE DEF rank, below
    <3>3. Cardinality(below(d)) \in Nat /\ Cardinality(below(e)) \in Nat
      BY <1>1
    <3>4. Cardinality(below(d)) < Cardinality(below(e)) \/ Cardinality(below(e)) < Cardinality(below(d))
      BY <1>2, <3>1
    <3>5. Cardinality(below(d)) = Cardinality(below(e))
      <4>1. Cardinality(below(d)) + 1 = Cardinality(below(e)) + 1
        BY <3>2
      <4> QED
        BY <3>3, <4>1
    <3> QED
      BY <3>3, <3>4, <3>5
  <2> HIDE DEF rank
  <2> QED
    BY <2>2, <2>3 DEF Injection, IsInjective
<1>4. rank \in Surjection(S, 1..N)
  <2> HIDE DEF rank
  <2> QED
    BY <1>0, <1>3, FS_Injection DEF N
<1>5. \A n \in 1..N : \E e \in S : Cardinality(below(e)) = n - 1
  <2> TAKE n \in 1..N
  <2>1. PICK e \in S : rank[e] = n
    BY <1>4 DEF Surjection
  <2>2. Cardinality(below(e)) + 1 = n
    BY <2>1
  <2> HIDE DEF below, rank
  <2> QED
    BY <1>1, <2>2
<1>6. s = [n \in 1..N |-> CHOOSE e \in S : Cardinality(below(e)) = n - 1]
  BY DEF Arranged, N
<1>7. \A n \in 1..N : s[n] \in S /\ Cardinality(below(s[n])) = n - 1
  <2> HIDE DEF below, s
  <2> QED
    BY <1>5, <1>6
<1>8. s \in [1..N -> S]
  <2> HIDE DEF below, s
  <2> QED
    BY <1>6, <1>7
<1>9. \A e \in S : \E n \in 1..N : s[n] = e
  <2> TAKE e \in S
  <2> DEFINE n == Cardinality(below(e)) + 1
  <2>1. n \in 1..N
    <3> HIDE DEF below
    <3> QED
      BY <1>0, <1>1
  <2>2. s[n] \in S /\ Cardinality(below(s[n])) = n - 1
    <3> HIDE DEF n, s, below
    <3> QED
      BY <1>7, <2>1
  <2>3. rank[s[n]] = rank[e]
    <3> HIDE DEF below, s
    <3> QED
      BY <1>1, <2>2
  <2>4. s[n] = e
    <3> HIDE DEF rank, n, s
    <3> QED
      BY <1>3, <2>2, <2>3 DEF Injection, IsInjective
  <2> HIDE DEF n, s
  <2> QED
    BY <2>1, <2>4
<1>10. \A m, n \in 1..N : m < n => <<s[m], s[n]>> \in R
  <2> SUFFICES ASSUME NEW m \in 1..N, NEW n \in 1..N, m < n
               PROVE  <<s[m], s[n]>> \in R
    OBVIOUS
  <2> HIDE DEF below, s
  <2>1. /\ s[m] \in S /\ Cardinality(below(s[m])) = m - 1
        /\ s[n] \in S /\ Cardinality(below(s[n])) = n - 1
    BY <1>7
  <2>2. s[m] # s[n]
    BY <2>1
  <2>3. <<s[n], s[m]>> \notin R
    BY <1>2, <2>1
  <2> QED
    BY <2>1, <2>2, <2>3 DEF StrictlyOrders
<1> QED
  BY <1>0, <1>8, <1>9, <1>10 DEF N

\* What holds of a place if it holds of all before it, holds of all.
LEMMA NoFirstFailure ==
    ASSUME NEW N \in Nat, NEW Q, Q \subseteq 1..N,
           \A k \in 1..N : (\A j \in 1..(k - 1) : j \notin Q) => k \notin Q
    PROVE  Q = {}
<1>1. SUFFICES ASSUME Q # {}
               PROVE  FALSE
  OBVIOUS
<1>2. PICK k \in Q : \A y \in Q : k <= y
  <2>1. Q \subseteq Nat
    OBVIOUS
  <2> QED
    BY <1>1, <2>1, LeastNatural
<1>3. \A j \in 1..(k - 1) : ~(k <= j) /\ k \in 1..N
  OBVIOUS
<1> QED
  BY <1>2, <1>3

\* Where the sequences end that are put one after the other.
EndsAt(end, ss) ==
    /\ end \in [0..Len(ss) -> Nat] /\ end[0] = 0
    /\ \A n \in 1..Len(ss) : end[n] = end[n - 1] + Len(ss[n])

LEMMA EndsAscend ==
    ASSUME NEW T, NEW ss \in Seq(Seq(T)), NEW end, EndsAt(end, ss),
           NEW a \in 0..Len(ss), NEW b \in 0..Len(ss), a <= b
    PROVE  end[a] <= end[b] /\ end[a] \in Nat /\ end[b] \in Nat
<1>0. PICK N \in Nat : N = Len(ss)
  BY LenProperties
<1>1. \A n \in 0..N : end[n] \in Nat
  BY <1>0 DEF EndsAt
<1>2. \A n \in 1..N : end[n - 1] <= end[n]
  <2> TAKE n \in 1..N
  <2>1. ss[n] \in Seq(T)
    BY <1>0, ElementOfSeq
  <2>2. Len(ss[n]) \in Nat
    BY <2>1, LenProperties
  <2>3. end[n] = end[n - 1] + Len(ss[n]) /\ n - 1 \in 0..N
    BY <1>0 DEF EndsAt
  <2> QED
    BY <1>1, <2>2, <2>3
<1> DEFINE Q == {n \in 1..N : a <= n /\ ~(end[a] <= end[n])}
<1>3. ASSUME NEW k \in 1..N, \A j \in 1..(k - 1) : j \notin Q
      PROVE  k \notin Q
  <2> SUFFICES ASSUME a <= k
               PROVE  end[a] <= end[k]
    OBVIOUS
  <2>1. CASE k = a
    BY <1>0, <1>1, <2>1
  <2>2. CASE k - 1 = 0 /\ k # a
    <3>1. a = k - 1
      BY <1>0, <2>2
    <3> QED
      BY <1>2, <3>1
  <2>3. CASE k - 1 # 0 /\ k # a
    <3>1. k - 1 \in 1..(k - 1) /\ k - 1 \in 1..N /\ a <= k - 1
      BY <1>0, <2>3
    <3>2. end[a] <= end[k - 1]
      BY <1>3, <3>1
    <3>3. end[k - 1] <= end[k]
      BY <1>2
    <3>4. end[a] \in Nat /\ end[k - 1] \in Nat /\ end[k] \in Nat
      BY <1>0, <1>1, <3>1
    <3> QED
      BY <3>2, <3>3, <3>4
  <2> QED
    BY <2>1, <2>2, <2>3
<1>4. Q = {}
  <2>1. Q \subseteq 1..N
    OBVIOUS
  <2> HIDE DEF Q
  <2> QED
    BY <1>3, <2>1, NoFirstFailure
<1>5. CASE b = 0
  BY <1>0, <1>1, <1>5
<1>6. CASE b # 0
  <2>1. b \in 1..N
    BY <1>0, <1>6
  <2> QED
    BY <1>0, <1>1, <1>4, <2>1
<1> QED
  BY <1>5, <1>6

\* Every place up to the end lies in one of them.
LEMMA EndsCover ==
    ASSUME NEW T, NEW ss \in Seq(Seq(T)), NEW end, EndsAt(end, ss)
    PROVE  \A p \in 1..end[Len(ss)] :
               \E n \in 1..Len(ss) : \E m \in 1..Len(ss[n]) : p = end[n - 1] + m
<1> TAKE p \in 1..end[Len(ss)]
<1> DEFINE N == Len(ss)
           Q == {n \in 0..N : p <= end[n]}
<1>1. N \in Nat /\ (\A n \in 0..N : end[n] \in Nat) /\ end[0] = 0
  BY LenProperties DEF EndsAt
<1>2. PICK k \in Q : \A y \in Q : k <= y
  <2>1. Q \subseteq Nat /\ N \in Q
    BY <1>1
  <2> HIDE DEF Q
  <2> QED
    BY <2>1, LeastNatural
<1>3. k \in 0..N /\ p <= end[k] /\ p \in Nat \ {0}
  BY <1>1
<1>4. k \in 1..N /\ k - 1 \in 0..N /\ ~(k <= k - 1)
  BY <1>1, <1>3
<1>5. p > end[k - 1] /\ end[k - 1] \in Nat
  <2>1. k - 1 \notin Q
    <3> HIDE DEF Q
    <3> QED
      BY <1>2, <1>4
  <2> QED
    BY <1>1, <1>3, <1>4, <2>1
<1>6. end[k] = end[k - 1] + Len(ss[k]) /\ Len(ss[k]) \in Nat
  <2>1. ss[k] \in Seq(T)
    BY <1>4, ElementOfSeq
  <2> QED
    BY <1>4, <2>1, LenProperties DEF EndsAt
<1>7. p - end[k - 1] \in 1..Len(ss[k]) /\ p = end[k - 1] + (p - end[k - 1])
  BY <1>3, <1>5, <1>6
<1> QED
  BY <1>4, <1>7

LEMMA FlattenPlaces ==
    ASSUME NEW T, NEW ss \in Seq(Seq(T))
    PROVE  /\ FlattenSeq(ss) \in Seq(T)
           /\ \E end : /\ EndsAt(end, ss) /\ Len(FlattenSeq(ss)) = end[Len(ss)]
                       /\ \A n \in 1..Len(ss) : \A m \in 1..Len(ss[n]) :
                              FlattenSeq(ss)[end[n - 1] + m] = ss[n][m]
<1> DEFINE N == Len(ss)
<1>1. N \in Nat /\ \A i \in 1..N : ss[i] \in Seq(T)
  BY LenProperties, ElementOfSeq
<1>2. CASE N = 0
  <2>1. ss = <<>>
    BY <1>2, EmptySeq
  <2>2. FlattenSeq(ss) = <<>>
    BY <1>2, <2>1 DEF FlattenSeq
  <2> DEFINE end == [n \in 0..N |-> 0]
  <2>3. EndsAt(end, ss) /\ end[N] = 0
    BY <1>2 DEF EndsAt
  <2>4. \A n \in 1..N : FALSE
    BY <1>2
  <2> HIDE DEF end
  <2> QED
    BY <1>2, <2>2, <2>3, <2>4
<1>3. CASE N # 0
  <2> DEFINE g == Flat(ss, N)
             end == [n \in 0..N |-> IF n = 0 THEN 0 ELSE Len(g[n])]
             placed(i) == \A n \in 1..i : \A m \in 1..Len(ss[n]) : g[i][end[n - 1] + m] = ss[n][m]
  <2>1. FlatTo(g, ss, N)
    BY <1>1, FlatExists
  <2>2. FlattenSeq(ss) = g[N]
    BY <1>3, FlattenIsFlat
  <2> HIDE DEF g, N, placed
  <2>3. \A i \in 1..N : g[i] = IF i = 1 THEN ss[i] ELSE g[i-1] \o ss[i]
    BY <2>1 DEF FlatTo
  <2>4. \A i \in 1..N : /\ g[i] \in Seq(T) /\ Len(g[i]) \in Nat
                       /\ Len(g[i]) = (IF i = 1 THEN 0 ELSE Len(g[i - 1])) + Len(ss[i])
    <3> DEFINE Q == {i \in 1..N : g[i] \notin Seq(T)}
    <3>1. ASSUME NEW k \in 1..N, k # 1, g[k - 1] \in Seq(T)
          PROVE  g[k] \in Seq(T) /\ Len(g[k]) = Len(g[k - 1]) + Len(ss[k])
      <4>1. g[k] = g[k - 1] \o ss[k] /\ ss[k] \in Seq(T)
        BY <1>1, <2>3, <3>1
      <4>2. /\ g[k - 1] \o ss[k] \in Seq(T)
            /\ Len(g[k - 1] \o ss[k]) = Len(g[k - 1]) + Len(ss[k])
        BY <3>1, <4>1, ConcatProperties
      <4> QED
        BY <4>1, <4>2
    <3>2. ASSUME NEW k \in 1..N, \A j \in 1..(k - 1) : j \notin Q
          PROVE  k \notin Q
      <4>1. CASE k = 1
        BY <1>1, <2>3, <4>1
      <4>2. CASE k # 1
        <5>1. k - 1 \in 1..(k - 1) /\ k - 1 \in 1..N
          BY <1>1, <4>2
        <5> QED
          BY <3>1, <3>2, <4>2, <5>1
      <4> QED
        BY <4>1, <4>2
    <3>3. Q = {}
      <4>1. Q \subseteq 1..N
        OBVIOUS
      <4> HIDE DEF Q
      <4> QED
        BY <1>1, <3>2, <4>1, NoFirstFailure
    <3> TAKE i \in 1..N
    <3>4. g[i] \in Seq(T) /\ Len(g[i]) \in Nat
      BY <3>3, LenProperties
    <3>5. CASE i = 1
      BY <1>1, <2>3, <3>4, <3>5
    <3>6. CASE i # 1
      <4>1. i - 1 \in 1..N
        BY <1>1, <3>6
      <4> QED
        BY <3>1, <3>3, <3>4, <3>6, <4>1
    <3> QED
      BY <3>5, <3>6
  <2>5. end \in [0..N -> Nat] /\ end[0] = 0 /\ \A i \in 1..N : end[i] = Len(g[i])
    BY <1>1, <2>4
  <2> HIDE DEF end
  <2>6. \A i \in 1..N : end[i] = end[i - 1] + Len(ss[i])
    <3> TAKE i \in 1..N
    <3>1. CASE i = 1
      <4>1. end[i] = Len(g[i])
        BY <2>5
      <4>2. end[i - 1] = 0
        BY <2>5, <3>1
      <4>3. Len(g[i]) = 0 + Len(ss[i])
        BY <2>4, <3>1
      <4> QED
        BY <4>1, <4>2, <4>3
    <3>2. CASE i # 1
      <4>1. i - 1 \in 1..N
        BY <1>1, <3>2
      <4> QED
        BY <2>4, <2>5, <3>2, <4>1
    <3> QED
      BY <3>1, <3>2
  <2>7. EndsAt(end, ss)
    BY <2>5, <2>6 DEF EndsAt, N
  <2>8. ASSUME NEW k \in 1..N, k # 1 => placed(k - 1)
        PROVE  placed(k)
    <3>1. SUFFICES ASSUME NEW n \in 1..k, NEW m \in 1..Len(ss[n])
                   PROVE  g[k][end[n - 1] + m] = ss[n][m]
      BY DEF placed
    <3>2. n \in 1..N /\ n - 1 \in 0..N /\ k \in Nat /\ n \in Nat /\ n <= k
      BY <1>1
    <3>3. PICK e \in Nat : e = end[n - 1]
      BY <2>5, <3>2
    <3>4. PICK l \in Nat : l = Len(ss[n])
      BY <1>1, <3>2, LenProperties
    <3>5. end[n] = e + l
      BY <2>6, <3>2, <3>3, <3>4
    <3>6. m \in Nat /\ 1 <= m /\ m <= l
      BY <3>4
    <3>7. CASE k = 1
      <4>1. n = 1 /\ g[k] = ss[k] /\ e = 0
        BY <2>3, <2>5, <3>2, <3>3, <3>7
      <4> QED
        BY <3>3, <3>6, <3>7, <4>1
    <3>8. CASE k # 1
      <4>1. k - 1 \in 1..N /\ k - 1 \in 0..N /\ g[k] = g[k - 1] \o ss[k]
        <5>1. k - 1 \in 1..N /\ k - 1 \in 0..N
          BY <1>1, <3>8
        <5>2. g[k] = g[k - 1] \o ss[k]
          BY <2>3, <3>8
        <5> QED
          BY <5>1, <5>2
      <4>2. PICK a \in Nat : a = Len(g[k - 1]) /\ a = end[k - 1] /\ g[k - 1] \in Seq(T)
        BY <2>4, <2>5, <4>1
      <4>3. PICK b \in Nat : b = Len(ss[k]) /\ ss[k] \in Seq(T)
        BY <1>1, LenProperties
      <4>4. \A i \in 1..(a + b) : g[k][i] = IF i <= a THEN g[k - 1][i] ELSE ss[k][i - a]
        <5>1. \A i \in 1..(a + b) :
                 (g[k - 1] \o ss[k])[i] = IF i <= a THEN g[k - 1][i] ELSE ss[k][i - a]
          <6>1. \A i \in 1..(Len(g[k - 1]) + Len(ss[k])) : (g[k - 1] \o ss[k])[i]
                    = IF i <= Len(g[k - 1]) THEN g[k - 1][i] ELSE ss[k][i - Len(g[k - 1])]
            <7>1. g[k - 1] \in Seq(T) /\ ss[k] \in Seq(T)
              BY <4>2, <4>3
            <7> QED
              BY <7>1, ConcatProperties
          <6> QED
            BY <4>2, <4>3, <6>1
        <5> QED
          BY <4>1, <5>1
      <4>5. CASE n = k
        <5>1. e = a /\ l = b
          BY <3>3, <3>4, <4>2, <4>3, <4>5
        <5>2. e + m \in 1..(a + b) /\ ~(e + m <= a) /\ (e + m) - a = m
          BY <3>6, <5>1
        <5> QED
          BY <3>3, <4>4, <4>5, <5>2
      <4>6. CASE n # k
        <5>1. n \in 1..(k - 1) /\ n \in 0..N /\ n <= k - 1
          BY <3>2, <4>6
        <5>2. g[k - 1][e + m] = ss[n][m]
          BY <2>8, <3>3, <3>8, <5>1 DEF placed
        <5>3. e + l <= a
          <6>1. end[n] <= end[k - 1]
            BY <2>7, <4>1, <5>1, EndsAscend DEF N
          <6> QED
            BY <3>5, <4>2, <6>1
        <5>4. e + m \in 1..(a + b) /\ e + m <= a
          BY <3>6, <5>3
        <5> QED
          BY <3>3, <4>4, <5>2, <5>4
      <4> QED
        BY <4>5, <4>6
    <3> QED
      BY <3>7, <3>8
  <2>9. placed(N)
    <3> DEFINE Q == {i \in 1..N : ~placed(i)}
    <3>1. ASSUME NEW k \in 1..N, \A j \in 1..(k - 1) : j \notin Q
          PROVE  k \notin Q
      <4>1. k # 1 => k - 1 \in 1..(k - 1) /\ k - 1 \in 1..N
        BY <1>1
      <4>2. k # 1 => placed(k - 1)
        BY <3>1, <4>1
      <4> QED
        BY <2>8, <4>2
    <3>2. Q = {}
      <4>1. Q \subseteq 1..N
        OBVIOUS
      <4> HIDE DEF Q
      <4> QED
        BY <1>1, <3>1, <4>1, NoFirstFailure
    <3>3. N \in 1..N
      BY <1>1, <1>3
    <3> QED
      BY <3>2, <3>3
  <2>10. Len(g[N]) = end[N] /\ g[N] \in Seq(T)
    <3>1. N \in 1..N
      BY <1>1, <1>3
    <3> QED
      BY <2>4, <2>5, <3>1
  <2>11. \A n \in 1..N : \A m \in 1..Len(ss[n]) : g[N][end[n - 1] + m] = ss[n][m]
    BY <2>9 DEF placed
  <2>12. EndsAt(end, ss) /\ Len(FlattenSeq(ss)) = end[Len(ss)] /\ FlattenSeq(ss) \in Seq(T)
         /\ \A n \in 1..Len(ss) : \A m \in 1..Len(ss[n]) : FlattenSeq(ss)[end[n - 1] + m] = ss[n][m]
    BY <2>2, <2>7, <2>10, <2>11 DEF N
  <2> QED
    BY <2>12
<1> QED
  BY <1>2, <1>3

-----------------------------------------------------------------------------
(* The scope of a request, and its clusters in order.                      *)

\* What the definitions are of a request that is given.
ScopeOf(r) == {c \in r.selected \cap DOMAIN r.line : r.line[c].qty # Absent /\ r.line[c].qty > 0}

LEMMA ScopeFacts ==
    ASSUME request \in Requests
    PROVE  /\ Scope = ScopeOf(request) /\ IsFiniteSet(Scope) /\ Scope \subseteq Int /\ Absent \notin Scope
           /\ \A c \in Scope : /\ Line(c) = request.line[c] /\ Line(c).qty \in Int
                               /\ Line(c).rank \in Int \cup {Absent}
                               /\ Line(c).volume \in Int \cup {Absent}
<1>1. Scope = ScopeOf(request)
  BY DEF Scope, ScopeOf, Line
<1>2. /\ IsFiniteSet(request.selected) /\ DOMAIN request.line \subseteq Int
      /\ \A c \in DOMAIN request.line :
            {request.line[c].qty, request.line[c].rank, request.line[c].volume} \subseteq Int \cup {Absent}
  BY RequestsAssumption
<1>3. Scope \in SUBSET request.selected /\ Scope \subseteq DOMAIN request.line
      /\ \A c \in Scope : request.line[c].qty # Absent
  BY DEF Scope, Line
<1>4. IsFiniteSet(Scope)
  BY <1>2, <1>3, FS_Subset
<1> QED
  BY <1>1, <1>2, <1>3, <1>4, OptionsAssumption DEF Line

LEMMA RanksOrder ==
    ASSUME NEW a \in Int \cup {Absent}, NEW b \in Int \cup {Absent}, NEW c \in Int \cup {Absent}
    PROVE  /\ ~RankLess(a, a)
           /\ a = b \/ RankLess(a, b) \/ RankLess(b, a)
           /\ RankLess(a, b) /\ RankLess(b, c) => RankLess(a, c)
BY OptionsAssumption DEF RankLess

\* What an arrangement is as a sequence.
LEMMA ArrangedSequence ==
    ASSUME NEW S, IsFiniteSet(S), NEW R, StrictlyOrders(R, S)
    PROVE  /\ Arranged(S, R) \in Seq(S) /\ Len(Arranged(S, R)) = Cardinality(S)
           /\ ToSet(Arranged(S, R)) = S /\ IsInjective(Arranged(S, R))
<1> DEFINE s == Arranged(S, R)
<1>1. PICK n \in Nat : n = Cardinality(S)
  BY ArrangedSorts
<1>2. /\ s \in [1..n -> S] /\ \A e \in S : \E m \in 1..n : s[m] = e
      /\ \A l, m \in 1..n : l < m => <<s[l], s[m]>> \in R
  BY <1>1, ArrangedSorts
<1> HIDE DEF s
<1>3. s \in Seq(S) /\ Len(s) = n /\ DOMAIN s = 1..n
  BY <1>2
<1>4. ToSet(s) = S
  BY <1>2, <1>3 DEF ToSet
<1>5. IsInjective(s)
  <2> SUFFICES ASSUME NEW l \in 1..n, NEW m \in 1..n, s[l] = s[m], l # m
               PROVE  FALSE
    BY <1>3 DEF IsInjective
  <2>1. l < m \/ m < l
    OBVIOUS
  <2>2. <<s[l], s[l]>> \in R /\ s[l] \in S
    BY <1>2, <2>1
  <2> QED
    BY <2>2 DEF StrictlyOrders
<1> QED
  BY <1>1, <1>3, <1>4, <1>5 DEF s

LEMMA ClusterOrderSorts ==
    ASSUME request \in Requests
    PROVE  ClusterOrder \in Seq(Scope) /\ ToSet(ClusterOrder) = Scope /\ IsInjective(ClusterOrder)
<1> DEFINE before(c, d) == \/ RankLess(Line(c).rank, Line(d).rank)
                           \/ Line(c).rank = Line(d).rank /\ c < d
           R == {p \in Scope \X Scope : before(p[1], p[2])}
<1>1. ClusterOrder = Arranged(Scope, R)
  BY DEF ClusterOrder, InOrder
<1>2. IsFiniteSet(Scope) /\ \A c \in Scope : c \in Int /\ Line(c).rank \in Int \cup {Absent}
  BY ScopeFacts
<1>3. \A c, d \in Scope : <<c, d>> \in R <=> before(c, d)
  OBVIOUS
<1> HIDE DEF R
<1>4. StrictlyOrders(R, Scope)
  <2>1. \A c \in Scope : ~before(c, c)
    <3> TAKE c \in Scope
    <3>1. c \in Int /\ ~RankLess(Line(c).rank, Line(c).rank)
      BY <1>2, RanksOrder
    <3> QED
      BY <3>1
  <2>2. \A c, d \in Scope : c # d => before(c, d) \/ before(d, c)
    <3> TAKE c, d \in Scope
    <3>1. c \in Int /\ d \in Int /\ Line(c).rank \in Int \cup {Absent} /\ Line(d).rank \in Int \cup {Absent}
      BY <1>2
    <3>2. Line(c).rank = Line(d).rank \/ RankLess(Line(c).rank, Line(d).rank)
            \/ RankLess(Line(d).rank, Line(c).rank)
      BY <3>1, RanksOrder
    <3> QED
      BY <3>1, <3>2
  <2>3. \A c, d, e \in Scope : before(c, d) /\ before(d, e) => before(c, e)
    <3> TAKE c, d, e \in Scope
    <3>1. c \in Int /\ d \in Int /\ e \in Int
      BY <1>2
    <3>2. /\ Line(c).rank \in Int \cup {Absent} /\ Line(d).rank \in Int \cup {Absent}
          /\ Line(e).rank \in Int \cup {Absent}
      BY <1>2
    <3>3. RankLess(Line(c).rank, Line(d).rank) /\ RankLess(Line(d).rank, Line(e).rank)
            => RankLess(Line(c).rank, Line(e).rank)
      BY <3>2, RanksOrder
    <3> QED
      BY <3>1, <3>3
  <2> HIDE DEF before
  <2> QED
    BY <1>3, <2>1, <2>2, <2>3 DEF StrictlyOrders
<1> QED
  BY <1>1, <1>2, <1>4, ArrangedSequence

-----------------------------------------------------------------------------
(* Sequences as sets.                                                      *)

LEMMA AppendedSet ==
    ASSUME NEW T, NEW s \in Seq(T), NEW e \in T
    PROVE  ToSet(Append(s, e)) = ToSet(s) \cup {e}
<1> DEFINE t == Append(s, e)
<1>1. PICK n \in Nat : n = Len(s)
  BY LenProperties
<1>2. t \in Seq(T) /\ Len(t) = n + 1 /\ (\A i \in 1..n : t[i] = s[i]) /\ t[n + 1] = e
  BY <1>1, AppendProperties
<1>3. DOMAIN s = 1..n /\ DOMAIN t = 1..(n + 1)
  BY <1>1, <1>2, LenProperties
<1>4. 1..(n + 1) = (1..n) \cup {n + 1}
  BY <1>1
<1> HIDE DEF t
<1>5. ToSet(t) = {t[i] : i \in 1..n} \cup {t[n + 1]}
  BY <1>3, <1>4 DEF ToSet
<1>6. {t[i] : i \in 1..n} = ToSet(s)
  BY <1>2, <1>3 DEF ToSet
<1> QED
  BY <1>2, <1>5, <1>6 DEF t

LEMMA AppendedInjective ==
    ASSUME NEW T, NEW s \in Seq(T), NEW e \in T, IsInjective(s), e \notin ToSet(s)
    PROVE  IsInjective(Append(s, e))
<1> DEFINE t == Append(s, e)
<1>1. PICK n \in Nat : n = Len(s)
  BY LenProperties
<1>2. t \in Seq(T) /\ Len(t) = n + 1 /\ (\A i \in 1..n : t[i] = s[i]) /\ t[n + 1] = e
  BY <1>1, AppendProperties
<1>3. DOMAIN s = 1..n /\ DOMAIN t = 1..(n + 1)
  BY <1>1, <1>2, LenProperties
<1>4. \A i \in 1..n : s[i] # e
  BY <1>3 DEF ToSet
<1> HIDE DEF t
<1>5. \A i \in 1..(n + 1) : i \in 1..n \/ i = n + 1
  BY <1>1
<1> QED
  BY <1>2, <1>3, <1>4, <1>5 DEF t, IsInjective

LEMMA RestOfSet ==
    ASSUME NEW T, NEW s \in Seq(T), s # <<>>, IsInjective(s)
    PROVE  /\ Head(s) \in ToSet(s) /\ Head(s) \in T /\ Tail(s) \in Seq(T) /\ IsInjective(Tail(s))
           /\ ToSet(Tail(s)) = ToSet(s) \ {Head(s)}
<1> DEFINE t == Tail(s)
<1>1. PICK n \in Nat \ {0} : n = Len(s)
  BY EmptySeq
<1>2. /\ Head(s) \in T /\ Head(s) = s[1] /\ t \in Seq(T) /\ Len(t) = n - 1
      /\ \A i \in 1..(n - 1) : t[i] = s[i + 1]
  BY <1>1, HeadTailProperties
<1>3. DOMAIN s = 1..n /\ DOMAIN t = 1..(n - 1)
  BY <1>1, <1>2, LenProperties
<1> HIDE DEF t
<1>4. \A i, j \in 1..n : s[i] = s[j] => i = j
  BY <1>3 DEF IsInjective
<1>5. \A i \in 1..(n - 1) : i + 1 \in 1..n /\ i + 1 # 1
  BY <1>1
<1>6. \A i \in 1..n : i # 1 => i - 1 \in 1..(n - 1) /\ (i - 1) + 1 = i
  BY <1>1
<1>7. 1 \in 1..n
  BY <1>1
<1>8. IsInjective(t)
  BY <1>2, <1>3, <1>4, <1>5 DEF IsInjective
<1>9. ToSet(t) = ToSet(s) \ {s[1]}
  <2>1. ToSet(t) \subseteq ToSet(s) \ {s[1]}
    BY <1>2, <1>3, <1>4, <1>5, <1>7 DEF ToSet
  <2>2. ToSet(s) \ {s[1]} \subseteq ToSet(t)
    <3> SUFFICES ASSUME NEW i \in 1..n, s[i] # s[1]
                 PROVE  s[i] \in ToSet(t)
      BY <1>3 DEF ToSet
    <3>1. t[i - 1] = s[i] /\ i - 1 \in 1..(n - 1)
      BY <1>2, <1>6
    <3> QED
      BY <1>3, <3>1 DEF ToSet
  <2> QED
    BY <2>1, <2>2
<1> QED
  BY <1>2, <1>3, <1>7, <1>8, <1>9 DEF t, ToSet

LEMMA SetOfSequence ==
    ASSUME NEW T, NEW s \in Seq(T)
    PROVE  IsFiniteSet(ToSet(s)) /\ ToSet(s) \subseteq T /\ (s = <<>> <=> ToSet(s) = {})
<1>1. PICK n \in Nat : n = Len(s) /\ DOMAIN s = 1..n
  BY LenProperties
<1>2. IsFiniteSet(1..n)
  BY FS_Interval
<1>3. IsFiniteSet({s[i] : i \in 1..n})
  BY <1>2, ImageIsFinite
<1>4. ToSet(s) \subseteq T
  BY <1>1 DEF ToSet
<1>5. s = <<>> => ToSet(s) = {}
  BY DEF ToSet
<1>6. s # <<>> => s[1] \in ToSet(s)
  <2> SUFFICES ASSUME s # <<>>
               PROVE  s[1] \in ToSet(s)
    OBVIOUS
  <2>1. 1 \in 1..n
    BY <1>1, EmptySeq
  <2> QED
    BY <1>1, <2>1 DEF ToSet
<1> QED
  BY <1>1, <1>3, <1>4, <1>5, <1>6 DEF ToSet

-----------------------------------------------------------------------------
(* Grouping.  At any time the clusters of the scope are those still in the *)
(* queue, those of exactly one group, and those a diagnostic is about; a   *)
(* cluster leaves the queue into one of the others.                        *)

Said(said, m, c) == \E s \in said : s[2] = m /\ s[3] = c
Litres(r, g) == Total([c \in ToSet(g) |-> r.line[c].volume], ToSet(g))
Heavy(m, v) == Rules[m].volume # Absent /\ v > Rules[m].volume
SizeOf(r, m) == LeastOf(r.preferred, LeastOf(r.max, Rules[m].clusters))

\* The groups a method allows.
GroupsOf(r, m) ==
    {g \in Seq(ScopeOf(r)) :
        /\ IsInjective(g) /\ \A c \in ToSet(g) : r.line[c].volume \in Int
        /\ Len(g) \in 1..SizeOf(r, m) /\ ~Heavy(m, Litres(r, g))}

Apart(m, q, gs, said) ==
    /\ \A i, j \in DOMAIN gs : \A c \in ToSet(gs[i]) :
           c \notin ToSet(q) /\ ~Said(said, m, c) /\ (c \in ToSet(gs[j]) => i = j)
    /\ \A c \in ToSet(q) : ~Said(said, m, c)
Looked(r, m, q, gs, said) ==
    \A c \in ScopeOf(r) \ ToSet(q) : Said(said, m, c) \/ \E i \in DOMAIN gs : c \in ToSet(gs[i])

\* A cluster goes from the queue to one group,
LEMMA IntoGroup ==
    ASSUME NEW r, NEW m, NEW q, NEW gs, NEW said, NEW c, NEW q2, NEW gs2, NEW k,
           Apart(m, q, gs, said), c \in ToSet(q), ToSet(q2) = ToSet(q) \ {c},
           DOMAIN gs \subseteq DOMAIN gs2, k \in DOMAIN gs2,
           \A i \in DOMAIN gs2 : ToSet(gs2[i]) = (IF i \in DOMAIN gs THEN ToSet(gs[i]) ELSE {})
                                                 \cup (IF i = k THEN {c} ELSE {})
    PROVE  Apart(m, q2, gs2, said) /\ (Looked(r, m, q, gs, said) => Looked(r, m, q2, gs2, said))
<1>1. \A d \in ToSet(q2) : ~Said(said, m, d)
  BY DEF Apart
<1>2. ASSUME NEW i \in DOMAIN gs2, NEW j \in DOMAIN gs2, NEW d \in ToSet(gs2[i])
      PROVE  d \notin ToSet(q2) /\ ~Said(said, m, d) /\ (d \in ToSet(gs2[j]) => i = j)
  <2>1. CASE d = c
    <3>1. \A l \in DOMAIN gs : c \notin ToSet(gs[l])
      BY DEF Apart
    <3>2. i = k /\ (d \in ToSet(gs2[j]) => j = k)
      BY <2>1, <3>1
    <3> QED
      BY <2>1, <3>2 DEF Apart
  <2>2. CASE d # c
    <3>1. i \in DOMAIN gs /\ d \in ToSet(gs[i])
      BY <2>2
    <3>2. d \in ToSet(gs2[j]) => j \in DOMAIN gs /\ d \in ToSet(gs[j])
      BY <2>2
    <3> QED
      BY <3>1, <3>2 DEF Apart
  <2> QED
    BY <2>1, <2>2
<1>3. ASSUME Looked(r, m, q, gs, said), NEW d \in ScopeOf(r) \ ToSet(q2)
      PROVE  Said(said, m, d) \/ \E i \in DOMAIN gs2 : d \in ToSet(gs2[i])
  <2>1. CASE d = c
    <3>1. c \in ToSet(gs2[k])
      OBVIOUS
    <3> QED
      BY <2>1, <3>1
  <2>2. CASE d # c
    <3>1. d \in ScopeOf(r) \ ToSet(q)
      BY <2>2
    <3>2. \A i \in DOMAIN gs : d \in ToSet(gs[i]) => i \in DOMAIN gs2 /\ d \in ToSet(gs2[i])
      OBVIOUS
    <3> QED
      BY <1>3, <3>1, <3>2 DEF Looked
  <2> QED
    BY <2>1, <2>2
<1> QED
  BY <1>1, <1>2, <1>3 DEF Apart, Looked

\* or aside, with its reasons.
LEMMA SetAside ==
    ASSUME NEW r, NEW m, NEW q, NEW gs, NEW said, NEW c, NEW q2, NEW reasons, reasons # {},
           Apart(m, q, gs, said), c \in ToSet(q), ToSet(q2) = ToSet(q) \ {c}
    PROVE  LET more == said \cup {<<x, m, c>> : x \in reasons}
           IN Apart(m, q2, gs, more) /\ (Looked(r, m, q, gs, said) => Looked(r, m, q2, gs, more))
<1> DEFINE more == said \cup {<<x, m, c>> : x \in reasons}
<1>1. Said(more, m, c)
  <2>1. PICK x \in reasons : TRUE
    OBVIOUS
  <2>2. <<x, m, c>> \in more /\ <<x, m, c>>[2] = m /\ <<x, m, c>>[3] = c
    BY <2>1
  <2> HIDE DEF more
  <2> QED
    BY <2>2 DEF Said
<1>2. \A d : Said(said, m, d) => Said(more, m, d)
  BY DEF Said
<1>3. \A d : Said(more, m, d) => d = c \/ Said(said, m, d)
  BY DEF Said
<1> HIDE DEF more
<1>4. \A d \in ToSet(q2) : d # c /\ ~Said(said, m, d)
  BY DEF Apart
<1>5. \A i \in DOMAIN gs : c \notin ToSet(gs[i])
  BY DEF Apart
<1>6. Apart(m, q2, gs, more)
  <2>1. ASSUME NEW i \in DOMAIN gs, NEW j \in DOMAIN gs, NEW d \in ToSet(gs[i])
        PROVE  d \notin ToSet(q2) /\ ~Said(more, m, d) /\ (d \in ToSet(gs[j]) => i = j)
    <3>1. d \notin ToSet(q) /\ ~Said(said, m, d) /\ (d \in ToSet(gs[j]) => i = j)
      BY DEF Apart
    <3> QED
      BY <1>3, <1>5, <3>1
  <2> QED
    BY <1>3, <1>4, <2>1 DEF Apart
<1>7. Looked(r, m, q, gs, said) => Looked(r, m, q2, gs, more)
  BY <1>1, <1>2 DEF Looked
<1> QED
  BY <1>6, <1>7 DEF more

\* The volume of a group with one cluster more.
LEMMA LitresOfMore ==
    ASSUME NEW r, NEW T, NEW g \in Seq(T), NEW c \in T, c \notin ToSet(g),
           \A d \in ToSet(g) \cup {c} : r.line[d].volume \in Int
    PROVE  /\ Litres(r, Append(g, c)) = Litres(r, g) + r.line[c].volume /\ Litres(r, g) \in Int
<1> DEFINE S == ToSet(g) \cup {c}
           f == [d \in S |-> r.line[d].volume]
           h == [d \in ToSet(g) |-> r.line[d].volume]
<1>1. ToSet(Append(g, c)) = S /\ IsFiniteSet(ToSet(g)) /\ IsFiniteSet(S)
  BY AppendedSet, SetOfSequence, FS_AddElement
<1>2. Litres(r, Append(g, c)) = Total(f, S) /\ Litres(r, g) = Total(h, ToSet(g))
  BY <1>1 DEF Litres
<1>3. (\A d \in S : f[d] \in Int) /\ \A d \in ToSet(g) : h[d] \in Int /\ h[d] = f[d]
  OBVIOUS
<1>4. c \in S /\ f[c] = r.line[c].volume /\ f[c] \in Int /\ S \ {c} = ToSet(g)
  OBVIOUS
<1> HIDE DEF S, f, h
<1>5. Total(f, S) = f[c] + Total(f, ToSet(g))
  BY <1>1, <1>3, <1>4, TotalWithout
<1>6. Total(h, ToSet(g)) = Total(f, ToSet(g))
  BY <1>1, <1>3, TotalSame
<1>7. Total(h, ToSet(g)) \in Int
  BY <1>1, <1>3, TotalType
<1> QED
  BY <1>2, <1>4, <1>5, <1>6, <1>7

LEMMA LitresOfNone ==
    ASSUME NEW r
    PROVE  Litres(r, <<>>) = 0
<1>1. ToSet(<<>>) = {}
  BY DEF ToSet
<1> QED
  BY <1>1, TotalOfNothing DEF Litres

LEMMA SizePositive ==
    ASSUME NEW r \in Requests, NEW i \in DOMAIN r.methods
    PROVE  /\ r.methods[i] \in DOMAIN Rules /\ SizeOf(r, r.methods[i]) \in Nat \ {0}
           /\ Rules[r.methods[i]].volume \in Nat \cup {Absent}
<1>1. r.methods \in Seq(DOMAIN Rules) /\ r.preferred \in Nat \ {0} /\ r.max \in Nat \ {0}
  BY RequestsAssumption
<1>2. r.methods[i] \in DOMAIN Rules
  BY <1>1
<1>3. Rules[r.methods[i]].clusters \in Nat \ {0} /\ Rules[r.methods[i]].volume \in Nat \cup {Absent}
  BY <1>2, RequestsAssumption
<1> QED
  BY <1>1, <1>2, <1>3 DEF SizeOf, LeastOf

\* A group of one cluster that is light enough, and a group with room.
LEMMA GroupOfOne ==
    ASSUME NEW r \in Requests, NEW i \in DOMAIN r.methods, NEW c \in ScopeOf(r),
           r.line[c].volume \in Int, ~Heavy(r.methods[i], r.line[c].volume)
    PROVE  <<c>> \in GroupsOf(r, r.methods[i]) /\ ToSet(<<c>>) = {c}
<1>1. <<c>> = Append(<<>>, c) /\ <<>> \in Seq(ScopeOf(r)) /\ <<c>> \in Seq(ScopeOf(r)) /\ Len(<<c>>) = 1
  OBVIOUS
<1>2. ToSet(<<>>) = {} /\ IsInjective(<<>>)
  BY DEF ToSet, IsInjective
<1>3. ToSet(<<c>>) = {c}
  <2>1. DOMAIN <<c>> = {1} /\ <<c>>[1] = c
    OBVIOUS
  <2> QED
    BY <2>1 DEF ToSet
<1>4. IsInjective(<<c>>)
  BY <1>1, <1>2, AppendedInjective
<1>5. Litres(r, <<c>>) = r.line[c].volume
  <2>1. Litres(r, Append(<<>>, c)) = Litres(r, <<>>) + r.line[c].volume
    BY <1>1, <1>2, LitresOfMore
  <2> QED
    BY <1>1, <2>1, LitresOfNone
<1>6. Len(<<c>>) \in 1..SizeOf(r, r.methods[i])
  BY <1>1, SizePositive
<1> QED
  BY <1>1, <1>3, <1>4, <1>5, <1>6 DEF GroupsOf

LEMMA GroupWithRoom ==
    ASSUME NEW r \in Requests, NEW i \in DOMAIN r.methods, NEW g \in GroupsOf(r, r.methods[i]),
           NEW c \in ScopeOf(r), c \notin ToSet(g), r.line[c].volume \in Int,
           Len(g) < SizeOf(r, r.methods[i]), ~Heavy(r.methods[i], Litres(r, g) + r.line[c].volume)
    PROVE  /\ Append(g, c) \in GroupsOf(r, r.methods[i]) /\ ToSet(Append(g, c)) = ToSet(g) \cup {c}
<1>1. /\ g \in Seq(ScopeOf(r)) /\ IsInjective(g) /\ \A d \in ToSet(g) : r.line[d].volume \in Int
  BY DEF GroupsOf
<1>2. ToSet(Append(g, c)) = ToSet(g) \cup {c} /\ IsInjective(Append(g, c))
  BY <1>1, AppendedSet, AppendedInjective
<1>3. Litres(r, Append(g, c)) = Litres(r, g) + r.line[c].volume
  BY <1>1, LitresOfMore
<1>4. Append(g, c) \in Seq(ScopeOf(r)) /\ Len(Append(g, c)) \in 1..SizeOf(r, r.methods[i])
  <2>1. Append(g, c) \in Seq(ScopeOf(r)) /\ Len(Append(g, c)) = Len(g) + 1 /\ Len(g) \in Nat
    BY <1>1, AppendProperties, LenProperties
  <2> QED
    BY <2>1, SizePositive
<1> QED
  BY <1>1, <1>2, <1>3, <1>4 DEF GroupsOf

-----------------------------------------------------------------------------
(* The invariant of the shipment options.                                  *)

CandidatesOf(r) == [method : DOMAIN Rules, warehouse : r.active \cup {Absent},
                    point : ToSet(r.points) \cup {Absent}, clusters : Seq(ScopeOf(r))]
AnswersOf(r) == [failed : BOOLEAN, no : SUBSET ScopeOf(r), yes : SUBSET ScopeOf(r), slot : BOOLEAN]
ClosedOf(g, gs) == IF g = <<>> THEN gs ELSE Append(gs, g)

\* The method in hand: its groups, and no diagnostic about those that follow.
InHand(r, k, q, g, gs, said) ==
    /\ k \in DOMAIN r.methods /\ IsInjective(q)
    /\ g = <<>> \/ g \in GroupsOf(r, r.methods[k])
    /\ gs \in Seq(GroupsOf(r, r.methods[k]))
    /\ Apart(r.methods[k], q, ClosedOf(g, gs), said)
    /\ Looked(r, r.methods[k], q, ClosedOf(g, gs), said)
    /\ \A l \in DOMAIN r.methods : l > k => \A s \in said : s[2] # r.methods[l]

MethodsOffered(b, o) ==
    o # <<>> => /\ Len(o) <= MaxCandidates
                /\ Len(b) <= MaxCandidates =>
                       \A c \in ToSet(b) : \E x \in ToSet(o) : x.method = c[1].method

OptionShapes ==
    /\ request \in Requests
    /\ phase \in {"scope", "refused", "grouping", "merge", "asking", "ranked"}
    /\ at \in 0..Len(request.methods)
    /\ queue \in Seq(ScopeOf(request)) /\ group \in Seq(ScopeOf(request))
    /\ groups \in Seq(Seq(ScopeOf(request)))
    /\ built \in Seq(Seq(CandidatesOf(request)) \ {<<>>})
    /\ offers \in Seq(CandidatesOf(request)) /\ answers \in Seq(AnswersOf(request))
    /\ Len(answers) <= Len(offers) /\ ranking \in Seq(1..Len(offers))
OptionOrder ==
    /\ phase = "scope" => remarks = {}
    /\ phase # "grouping" => group = <<>> /\ groups = <<>>
    /\ phase \notin {"asking", "ranked"} => offers = <<>>
    /\ phase # "ranked" => ranking = <<>>
OptionGroups ==
    phase = "grouping" =>
        /\ InHand(request, at, queue, group, groups, remarks)
        /\ Impossible # Absent => group = <<>> /\ groups = <<>>
OptionOffered == MethodsOffered(built, offers)

LEMMA NoGroups ==
    ASSUME NEW r \in Requests, NEW k \in DOMAIN r.methods, NEW q \in Seq(ScopeOf(r)), IsInjective(q),
           ToSet(q) = ScopeOf(r), NEW said,
           \A l \in DOMAIN r.methods : l >= k => \A s \in said : s[2] # r.methods[l]
    PROVE  InHand(r, k, q, <<>>, <<>>, said)
<1>1. r.methods \in Seq(DOMAIN Rules)
  BY RequestsAssumption
<1>2. DOMAIN r.methods \subseteq Int
  BY <1>1
<1>3. \A c : ~Said(said, r.methods[k], c)
  BY <1>2 DEF Said
<1>4. ClosedOf(<<>>, <<>>) = <<>> /\ DOMAIN <<>> = {}
  BY DEF ClosedOf
<1>5. Apart(r.methods[k], q, <<>>, said) /\ Looked(r, r.methods[k], q, <<>>, said)
  BY <1>3, <1>4 DEF Apart, Looked
<1>6. \A l \in DOMAIN r.methods : l > k => l >= k
  BY <1>2
<1>7. <<>> \in Seq(GroupsOf(r, r.methods[k]))
  OBVIOUS
<1> QED
  BY <1>4, <1>5, <1>6, <1>7 DEF InHand

LEMMA NextMethodInHand ==
    ASSUME OptionShapes, phase = "grouping", OptionGroups, NextMethod,
           \A s \in remarks' : s \in remarks \/ s[2] = Method
    PROVE  /\ at' \in 0..Len(request.methods) /\ queue' \in Seq(ScopeOf(request))
           /\ phase' \in {"grouping", "merge"}
           /\ phase' = "grouping" => InHand(request, at', queue', <<>>, <<>>, remarks')
<1>1. request \in Requests /\ at \in DOMAIN request.methods
  BY DEF OptionShapes, OptionGroups, InHand
<1>2. request.methods \in Seq(DOMAIN Rules) /\ IsInjective(request.methods)
  BY <1>1, RequestsAssumption
<1>3. PICK n \in Nat : n = Len(request.methods) /\ DOMAIN request.methods = 1..n
  BY <1>2, LenProperties
<1>4. \A l \in 1..n : l > at => request.methods[l] # Method /\ \A s \in remarks : s[2] # request.methods[l]
  <2>1. \A l \in 1..n : l > at => \A s \in remarks : s[2] # request.methods[l]
    BY <1>3 DEF OptionGroups, InHand
  <2>2. \A l \in 1..n : l > at => request.methods[l] # request.methods[at]
    BY <1>1, <1>2, <1>3 DEF IsInjective
  <2> QED
    BY <2>1, <2>2 DEF Method
<1>5. \A l \in 1..n : l > at => \A s \in remarks' : s[2] # request.methods[l]
  BY <1>4
<1>6. CASE at < n
  <2>1. at' = at + 1 /\ queue' = ClusterOrder /\ phase' = "grouping"
    BY <1>3, <1>6 DEF NextMethod
  <2>2. at' \in 1..n /\ at' \in 0..n /\ \A l \in 1..n : l >= at' => l > at
    BY <1>1, <1>3, <1>6, <2>1
  <2>3. queue' \in Seq(ScopeOf(request)) /\ IsInjective(queue') /\ ToSet(queue') = ScopeOf(request)
    BY <1>1, <2>1, ClusterOrderSorts, ScopeFacts
  <2>4. InHand(request, at', queue', <<>>, <<>>, remarks')
    BY <1>1, <1>3, <1>5, <2>2, <2>3, NoGroups
  <2> QED
    BY <1>3, <2>1, <2>2, <2>3, <2>4
<1>7. CASE ~(at < n)
  <2>1. at' = at /\ queue' = <<>> /\ phase' = "merge"
    BY <1>3, <1>7 DEF NextMethod
  <2> QED
    BY <2>1 DEF OptionShapes
<1> QED
  BY <1>6, <1>7

\* The complete groups, the one in progress among them.
LEMMA ClosedGroups ==
    ASSUME NEW G, NEW g \in G \cup {<<>>}, NEW gs \in Seq(G)
    PROVE  /\ ClosedOf(g, gs) \in Seq(G)
           /\ ClosedOf(<<>>, gs) = gs
           /\ g # <<>> => ClosedOf(g, gs) = Append(gs, g)
BY AppendProperties DEF ClosedOf

\* One group more, or the last one with one cluster more.
LEMMA OneGroupMore ==
    ASSUME NEW gs, NEW G, gs \in Seq(G), NEW c, NEW g \in G, ToSet(g) = {c},
           NEW r, NEW m, NEW q, NEW said, NEW q2,
           Apart(m, q, gs, said), c \in ToSet(q), ToSet(q2) = ToSet(q) \ {c}
    PROVE  /\ Apart(m, q2, Append(gs, g), said)
           /\ Looked(r, m, q, gs, said) => Looked(r, m, q2, Append(gs, g), said)
<1> DEFINE t == Append(gs, g)
<1>1. PICK n \in Nat : n = Len(gs)
  BY LenProperties
<1>2. t \in Seq(G) /\ Len(t) = n + 1 /\ (\A i \in 1..n : t[i] = gs[i]) /\ t[n + 1] = g
  BY <1>1, AppendProperties
<1>3. DOMAIN gs = 1..n /\ DOMAIN t = 1..(n + 1)
  BY <1>1, <1>2, LenProperties
<1> HIDE DEF t
<1>4. \A i \in 1..(n + 1) : (i \in 1..n /\ i # n + 1) \/ (i = n + 1 /\ i \notin 1..n)
  BY <1>1
<1>5. \A i \in DOMAIN t : ToSet(t[i]) = (IF i \in DOMAIN gs THEN ToSet(gs[i]) ELSE {})
                                          \cup (IF i = n + 1 THEN {c} ELSE {})
  BY <1>2, <1>3, <1>4
<1>6. DOMAIN gs \subseteq DOMAIN t /\ n + 1 \in DOMAIN t
  BY <1>1, <1>3
<1>7. Apart(m, q2, t, said) /\ (Looked(r, m, q, gs, said) => Looked(r, m, q2, t, said))
  <2> DEFINE k == n + 1
  <2>1. /\ k \in DOMAIN t
        /\ \A i \in DOMAIN t : ToSet(t[i]) = (IF i \in DOMAIN gs THEN ToSet(gs[i]) ELSE {})
                                            \cup (IF i = k THEN {c} ELSE {})
    BY <1>5, <1>6
  <2>2. DOMAIN gs \subseteq DOMAIN t
    BY <1>6
  <2>3. Apart(m, q, gs, said) /\ c \in ToSet(q) /\ ToSet(q2) = ToSet(q) \ {c}
    OBVIOUS
  <2> HIDE DEF k
  <2> QED
    BY <2>1, <2>2, <2>3, IntoGroup, ZenonT(60)
<1> QED
  BY <1>7 DEF t

LEMMA LastGroupMore ==
    ASSUME NEW gs, NEW G, gs \in Seq(G), NEW c, NEW g \in G, NEW h \in G, ToSet(h) = ToSet(g) \cup {c},
           NEW r, NEW m, NEW q, NEW said, NEW q2,
           Apart(m, q, Append(gs, g), said), c \in ToSet(q), ToSet(q2) = ToSet(q) \ {c}
    PROVE  /\ Apart(m, q2, Append(gs, h), said)
           /\ Looked(r, m, q, Append(gs, g), said) => Looked(r, m, q2, Append(gs, h), said)
<1> DEFINE s == Append(gs, g)
           t == Append(gs, h)
<1>1. PICK n \in Nat : n = Len(gs)
  BY LenProperties
<1>2. /\ t \in Seq(G) /\ Len(t) = n + 1 /\ (\A i \in 1..n : t[i] = gs[i]) /\ t[n + 1] = h
      /\ s \in Seq(G) /\ Len(s) = n + 1 /\ (\A i \in 1..n : s[i] = gs[i]) /\ s[n + 1] = g
  BY <1>1, AppendProperties
<1>3. DOMAIN s = 1..(n + 1) /\ DOMAIN t = 1..(n + 1)
  BY <1>1, <1>2, LenProperties
<1>0. Apart(m, q, s, said)
  OBVIOUS
<1> HIDE DEF s, t
<1>4. \A i \in 1..(n + 1) : (i \in 1..n /\ i # n + 1) \/ (i = n + 1 /\ i \notin 1..n)
  BY <1>1
<1>5. \A i \in DOMAIN t : ToSet(t[i]) = (IF i \in DOMAIN s THEN ToSet(s[i]) ELSE {})
                                          \cup (IF i = n + 1 THEN {c} ELSE {})
  BY <1>2, <1>3, <1>4
<1>6. DOMAIN s \subseteq DOMAIN t /\ n + 1 \in DOMAIN t
  BY <1>1, <1>3
<1>7. Apart(m, q2, t, said) /\ (Looked(r, m, q, s, said) => Looked(r, m, q2, t, said))
  BY <1>0, <1>5, <1>6, IntoGroup
<1> QED
  BY <1>7 DEF s, t

LEMMA LaterMethods ==
    ASSUME NEW r \in Requests, NEW k \in DOMAIN r.methods, NEW l \in DOMAIN r.methods, l > k
    PROVE  r.methods[l] # r.methods[k]
<1>1. r.methods \in Seq(DOMAIN Rules) /\ IsInjective(r.methods)
  BY RequestsAssumption
<1>2. DOMAIN r.methods \subseteq Int
  BY <1>1
<1> QED
  BY <1>1, <1>2 DEF IsInjective

LEMMA GroupClusterKeeps ==
    ASSUME OptionShapes, OptionGroups, GroupCluster
    PROVE  /\ queue' \in Seq(ScopeOf(request)) /\ group' \in Seq(ScopeOf(request))
           /\ groups' \in Seq(Seq(ScopeOf(request)))
           /\ InHand(request, at, queue', group', groups', remarks')
<1> DEFINE m == request.methods[at]
           c == Head(queue)
           G == GroupsOf(request, m)
           T == ScopeOf(request)
           gs == ClosedOf(group, groups)
           v == request.line[c].volume
<1>1. /\ phase = "grouping" /\ queue # <<>> /\ queue' = Tail(queue)
      /\ group' = Placed(c).open /\ groups' = Placed(c).done
      /\ remarks' = remarks \cup {<<x, m, c>> : x \in Placed(c).said}
  BY DEF GroupCluster, Grouping, Method
<1>2. /\ request \in Requests /\ queue \in Seq(T) /\ at \in DOMAIN request.methods /\ IsInjective(queue)
      /\ group \in G \cup {<<>>} /\ groups \in Seq(G)
      /\ Apart(m, queue, gs, remarks) /\ Looked(request, m, queue, gs, remarks)
      /\ \A l \in DOMAIN request.methods : l > at => \A s \in remarks : s[2] # request.methods[l]
  BY <1>1 DEF OptionShapes, OptionGroups, InHand
<1>3. /\ c \in ToSet(queue) /\ c \in T /\ queue' \in Seq(T) /\ IsInjective(queue')
      /\ ToSet(queue') = ToSet(queue) \ {c}
  BY <1>1, <1>2, RestOfSet
<1>4. G \subseteq Seq(T) /\ <<>> \in Seq(T)
  BY DEF GroupsOf
<1>5. gs \in Seq(G) /\ ClosedOf(<<>>, groups) = groups /\ ClosedOf(<<>>, gs) = gs
      /\ (group # <<>> => gs = Append(groups, group)) /\ (group = <<>> => gs = groups)
  BY <1>2, ClosedGroups DEF ClosedOf
<1>6. c \in Scope /\ Line(c) = request.line[c] /\ v \in Int \cup {Absent}
  BY <1>2, <1>3, ScopeFacts
<1>7. \A l \in DOMAIN request.methods : l > at => \A s \in remarks' : s[2] # request.methods[l]
  <2>1. \A s \in remarks' : s \in remarks \/ s[2] = m
    BY <1>1
  <2> HIDE DEF m
  <2>2. \A l \in DOMAIN request.methods : l > at => request.methods[l] # m
    BY <1>2, LaterMethods DEF m
  <2> QED
    BY <1>2, <2>1, <2>2
<1>8. Closed = gs /\ Method = m /\ (\A w : OverVolume(w) <=> Heavy(m, w))
      /\ Volume(group) = Litres(request, group) /\ GroupSize = SizeOf(request, m)
  BY DEF Closed, ClosedOf, Method, OverVolume, Heavy, Rule, Volume, Line, Litres, GroupSize, SizeOf
<1>9. /\ group' \in G \cup {<<>>} /\ groups' \in Seq(G)
      /\ Apart(m, queue', ClosedOf(group', groups'), remarks')
      /\ Looked(request, m, queue', ClosedOf(group', groups'), remarks')
  <2> HIDE DEF m, T, gs, v, G, c
  <2>1. CASE ClusterReasons(c) # {}
    <3>1. group' = group /\ groups' = groups /\ remarks' = remarks \cup {<<x, m, c>> : x \in ClusterReasons(c)}
      BY <1>1, <2>1 DEF Placed
    <3>2. /\ Apart(m, queue', gs, remarks') /\ Looked(request, m, queue', gs, remarks')
      BY <1>2, <1>3, <2>1, <3>1, SetAside
    <3> QED
      BY <1>2, <3>1, <3>2 DEF gs
  <2>2. CASE ClusterReasons(c) = {} /\ OverVolume(Line(c).volume)
    <3> DEFINE why == {"PVZ_PRELIMINARY_VOLUME_LIMIT"}
    <3>1. group' = <<>> /\ groups' = gs /\ remarks' = remarks \cup {<<x, m, c>> : x \in why}
      BY <1>1, <1>8, <2>2 DEF Placed
    <3>2. why # {}
      OBVIOUS
    <3> HIDE DEF why
    <3>3. /\ Apart(m, queue', gs, remarks') /\ Looked(request, m, queue', gs, remarks')
      BY <1>2, <1>3, <3>1, <3>2, SetAside
    <3> QED
      BY <1>5, <3>1, <3>3
  <2>3. CASE ClusterReasons(c) = {} /\ ~OverVolume(Line(c).volume)
    <3>1. v \in Int /\ ~Heavy(m, v)
      <4>1. Line(c).volume # Absent
        BY <2>3 DEF ClusterReasons
      <4> QED
        BY <1>6, <1>8, <2>3, <4>1 DEF v
    <3>2. <<c>> \in G /\ ToSet(<<c>>) = {c} /\ <<c>> # <<>>
      BY <1>2, <1>3, <3>1, GroupOfOne DEF G, m, v, T
    <3>3. remarks' = remarks
      <4>1. Placed(c).said = {}
        BY <2>3 DEF Placed
      <4> QED
        BY <1>1, <4>1
    <3>4. CASE Full(c) \/ group = <<>>
      <4>1. group' = <<c>> /\ groups' = gs
        <5>1. CASE Full(c)
          BY <1>1, <1>8, <2>3, <5>1 DEF Placed
        <5>2. CASE ~Full(c)
          <6>1. group = <<>> /\ group' = Append(group, c) /\ groups' = groups
            BY <1>1, <2>3, <3>4, <5>2 DEF Placed
          <6> QED
            BY <1>5, <6>1
        <5> QED
          BY <5>1, <5>2
      <4>2. ClosedOf(group', groups') = Append(gs, <<c>>)
        BY <3>2, <4>1 DEF ClosedOf
      <4>3. Apart(m, queue', Append(gs, <<c>>), remarks) /\ Looked(request, m, queue', Append(gs, <<c>>), remarks)
        BY <1>2, <1>3, <1>5, <3>2, OneGroupMore
      <4> QED
        BY <1>5, <3>2, <3>3, <4>1, <4>2, <4>3
    <3>5. CASE ~(Full(c) \/ group = <<>>)
      <4> DEFINE h == Append(group, c)
      <4>1. group' = h /\ groups' = groups /\ group \in G /\ group # <<>> /\ gs = Append(groups, group)
        BY <1>1, <1>2, <1>5, <2>3, <3>5 DEF Placed
      <4>2. Len(group) < SizeOf(request, m) /\ ~Heavy(m, Litres(request, group) + v)
        <5>1. ~(Len(group) >= SizeOf(request, m)) /\ ~Heavy(m, Litres(request, group) + v)
          BY <1>6, <1>8, <3>5 DEF Full, v
        <5>2. Len(group) \in Nat /\ SizeOf(request, m) \in Int
          BY <1>2, <1>4, <4>1, SizePositive DEF m
        <5> QED
          BY <5>1, <5>2
      <4>3. c \notin ToSet(group)
        <5>1. PICK n \in Nat : n = Len(groups)
          BY <1>2, LenProperties
        <5>2. gs[n + 1] = group /\ Len(gs) = n + 1
          BY <1>2, <4>1, <5>1, AppendProperties
        <5>3. n + 1 \in DOMAIN gs
          BY <1>5, <5>1, <5>2
        <5> QED
          BY <1>2, <1>3, <5>2, <5>3 DEF Apart
      <4>4. h \in G /\ ToSet(h) = ToSet(group) \cup {c}
        BY <1>2, <1>3, <3>1, <4>1, <4>2, <4>3, GroupWithRoom DEF G, m, v, T
      <4>5. h # <<>>
        <5>1. ToSet(h) # {}
          BY <4>4
        <5> HIDE DEF h
        <5> QED
          BY <5>1 DEF ToSet
      <4> HIDE DEF h
      <4>6. ClosedOf(group', groups') = Append(groups, h)
        BY <4>1, <4>5 DEF ClosedOf
      <4>7. Apart(m, queue', Append(groups, h), remarks) /\ Looked(request, m, queue', Append(groups, h), remarks)
        <5>1. Apart(m, queue, Append(groups, group), remarks) /\ Looked(request, m, queue, Append(groups, group), remarks)
          BY <1>2, <4>1
        <5> QED
          BY <1>2, <1>3, <4>1, <4>4, <5>1, LastGroupMore
      <4> QED
        BY <1>2, <3>3, <4>1, <4>4, <4>6, <4>7
    <3> QED
      BY <3>4, <3>5
  <2> QED
    BY <2>1, <2>2, <2>3
<1>10. group' \in Seq(T) /\ groups' \in Seq(Seq(T))
  <2> HIDE DEF G, T
  <2>1. group' \in Seq(T)
    BY <1>4, <1>9
  <2>2. groups' \in Seq(G)
    BY <1>9
  <2>3. \A g \in G : g \in Seq(T)
    BY <1>4
  <2> QED
    BY <2>1, <2>2, <2>3
<1> QED
  BY <1>2, <1>3, <1>7, <1>9, <1>10 DEF InHand

-----------------------------------------------------------------------------
LEMMA GroupingIsComplete ==
    ASSUME OptionShapes, OptionGroups
    PROVE  GroupingComplete
<1> SUFFICES ASSUME phase = "grouping", queue = <<>>
             PROVE  /\ \A c \in Scope :
                           Cardinality({i \in DOMAIN Closed : c \in ToSet(Closed[i])})
                           + (IF \E r \in remarks : r[2] = Method /\ r[3] = c THEN 1 ELSE 0) = 1
                    /\ \A i \in DOMAIN Closed :
                           /\ Len(Closed[i]) \in 1..GroupSize
                           /\ ~OverVolume(Volume(Closed[i]))
  BY DEF GroupingComplete, Grouping
<1> DEFINE m == request.methods[at]
           G == GroupsOf(request, m)
           gs == ClosedOf(group, groups)
<1>1. /\ request \in Requests /\ gs \in Seq(G)
      /\ Apart(m, queue, gs, remarks) /\ Looked(request, m, queue, gs, remarks)
  BY ClosedGroups DEF OptionShapes, OptionGroups, InHand
<1>2. Closed = gs /\ Method = m
  BY DEF Closed, ClosedOf, Method
<1>3. \A cs : (OverVolume(Volume(cs)) <=> Heavy(m, Litres(request, cs))) /\ GroupSize = SizeOf(request, m)
  BY DEF Closed, ClosedOf, Method, OverVolume, Heavy, Rule, Volume, Line, Litres, GroupSize, SizeOf
<1> HIDE DEF gs
<1>4. ASSUME NEW i \in DOMAIN gs
      PROVE  Len(gs[i]) \in 1..GroupSize /\ ~OverVolume(Volume(gs[i]))
  <2>1. gs[i] \in G
    BY <1>1
  <2> QED
    BY <1>3, <2>1 DEF GroupsOf
<1> HIDE DEF m, G
<1>5. ASSUME NEW c \in Scope
      PROVE  Cardinality({i \in DOMAIN gs : c \in ToSet(gs[i])})
               + (IF \E r \in remarks : r[2] = m /\ r[3] = c THEN 1 ELSE 0) = 1
  <2> DEFINE I == {i \in DOMAIN gs : c \in ToSet(gs[i])}
  <2>1. c \in ScopeOf(request) /\ ToSet(queue) = {}
    BY <1>1, ScopeFacts DEF ToSet
  <2>2. Said(remarks, m, c) \/ \E i \in DOMAIN gs : c \in ToSet(gs[i])
    BY <1>1, <2>1 DEF Looked
  <2>3. CASE Said(remarks, m, c)
    <3>1. I = {}
      BY <1>1, <2>3 DEF Apart
    <3>2. \E r \in remarks : r[2] = m /\ r[3] = c
      BY <2>3 DEF Said
    <3>3. Cardinality(I) = 0
      <4> HIDE DEF I
      <4> QED
        BY <3>1, FS_EmptySet
    <3> QED
      BY <3>2, <3>3
  <2>4. CASE ~Said(remarks, m, c)
    <3>1. PICK k \in DOMAIN gs : c \in ToSet(gs[k])
      BY <2>2, <2>4
    <3>2. I = {k}
      BY <1>1, <3>1 DEF Apart
    <3>3. ~\E r \in remarks : r[2] = m /\ r[3] = c
      BY <2>4 DEF Said
    <3>4. Cardinality(I) = 1
      <4> HIDE DEF I
      <4> QED
        BY <3>2, FS_Singleton
    <3> QED
      BY <3>3, <3>4
  <2> QED
    BY <2>3, <2>4
<1> QED
  BY <1>2, <1>4, <1>5

-----------------------------------------------------------------------------
LEMMA PlacesOfProduct ==
    ASSUME NEW d \in Nat, NEW p \in Nat, NEW i \in 1..(d * p)
    PROVE  ((i - 1) \div p) + 1 \in 1..d /\ ((i - 1) % p) + 1 \in 1..p
<1>1. p > 0
  <2>1. p = 0 => d * p = 0
    OBVIOUS
  <2> QED
    BY <2>1
<1>2. PICK a \in Nat : a = d * p
  OBVIOUS
<1>3. i - 1 \in Nat /\ i - 1 < a
  BY <1>2
<1>4. PICK k \in Nat, l \in Nat : k = (i - 1) \div p /\ l = (i - 1) % p /\ l < p /\ i - 1 = p * k + l
  BY <1>1, <1>3, Division
<1>5. k < d
  <2> SUFFICES ASSUME k >= d
               PROVE  FALSE
    OBVIOUS
  <2>1. p * k = p * d + p * (k - d) /\ k - d \in Nat
    OBVIOUS
  <2>2. p * (k - d) >= 0
    BY <2>1
  <2>3. p * d = d * p
    OBVIOUS
  <2> QED
    BY <1>2, <1>3, <1>4, <2>1, <2>2, <2>3
<1> QED
  BY <1>4, <1>5

LEMMA MethodCandidatesType ==
    ASSUME OptionShapes, phase = "grouping", OptionGroups, Impossible = Absent
    PROVE  MethodCandidates \in Seq(CandidatesOf(request))
<1> DEFINE m == request.methods[at]
           gs == ClosedOf(group, groups)
           T == Seq(ScopeOf(request))
<1>1. /\ request \in Requests /\ gs \in Seq(GroupsOf(request, m)) /\ at \in DOMAIN request.methods
  BY ClosedGroups DEF OptionShapes, OptionGroups, InHand
<1>2. Closed = gs /\ Method = m
  BY DEF Closed, ClosedOf, Method
<1> HIDE DEF gs
<1>3. gs \in Seq(T) /\ Method \in DOMAIN Rules
  <2>1. GroupsOf(request, m) \subseteq T
    BY DEF GroupsOf
  <2> HIDE DEF T
  <2> QED
    BY <1>1, <1>2, <2>1, SizePositive
<1>4. PICK per \in Nat : per = Len(gs) /\ DOMAIN gs = 1..per
  BY <1>3, LenProperties
<1> HIDE DEF m, T
<1>5. request.points \in Seq(Int) /\ IsFiniteSet(request.active)
  BY <1>1, RequestsAssumption
<1> DEFINE P == ToSet(request.points) \cup {Absent}
<1>6. Destinations \in Seq(P)
  <2>1. request.points \in Seq(ToSet(request.points))
    BY <1>5 DEF ToSet
  <2>2. request.points \in Seq(P)
    BY <2>1
  <2>3. <<Absent>> \in Seq(P)
    OBVIOUS
  <2> HIDE DEF P
  <2> QED
    BY <2>2, <2>3 DEF Destinations
<1>7. PICK d \in Nat : d = Len(Destinations) /\ DOMAIN Destinations = 1..d
  BY <1>6, LenProperties
<1>8. Warehouse \in request.active \cup {Absent}
  <2>1. WarehouseReason = Absent
    BY DEF Impossible
  <2>2. CASE request.warehouse # Absent
    <3>1. ASSUME Rule.crossdock
          PROVE  request.warehouse \in request.active
      <4>2. "SELLER_WAREHOUSE_INVALID" # Absent
        BY OptionsAssumption
      <4>3. ~(~Rule.crossdock)
        BY <3>1
      <4> QED
        BY <2>1, <2>2, <4>2, <4>3 DEF WarehouseReason
    <3> QED
      BY <3>1 DEF Warehouse
  <2>3. CASE request.warehouse = Absent
    <3>1. Cardinality(request.active) = 1 => request.active # {}
      BY FS_EmptySet
    <3> QED
      BY <2>3, <3>1 DEF Warehouse
  <2> QED
    BY <2>2, <2>3
<1> HIDE DEF P
<1>9. PICK n \in Nat : n = LeastOf(MaxCandidates, d * per) /\ n <= d * per
  <2>1. d * per \in Nat /\ MaxCandidates \in Nat
    BY OptionsAssumption
  <2> QED
    BY <2>1 DEF LeastOf
<1>10. MethodCandidates = [i \in 1..n |-> [method |-> Method, warehouse |-> Warehouse,
                               point |-> Destinations[((i - 1) \div per) + 1],
                               clusters |-> gs[((i - 1) % per) + 1]]]
  BY <1>2, <1>4, <1>7, <1>9 DEF MethodCandidates
<1>11. ASSUME NEW i \in 1..n
       PROVE  [method |-> Method, warehouse |-> Warehouse,
               point |-> Destinations[((i - 1) \div per) + 1],
               clusters |-> gs[((i - 1) % per) + 1]] \in CandidatesOf(request)
  <2>1. i \in 1..(d * per)
    BY <1>9
  <2>2. ((i - 1) \div per) + 1 \in 1..d /\ ((i - 1) % per) + 1 \in 1..per
    BY <2>1, PlacesOfProduct
  <2>3. Destinations[((i - 1) \div per) + 1] \in P /\ gs[((i - 1) % per) + 1] \in T
    BY <1>3, <1>4, <1>6, <1>7, <2>2
  <2> QED
    BY <1>3, <1>8, <2>3 DEF CandidatesOf, P, T
<1> DEFINE e(i) == [method |-> Method, warehouse |-> Warehouse,
                    point |-> Destinations[((i - 1) \div per) + 1],
                    clusters |-> gs[((i - 1) % per) + 1]]
           C == CandidatesOf(request)
<1>12. MethodCandidates = [i \in 1..n |-> e(i)] /\ \A i \in 1..n : e(i) \in C
  BY <1>10, <1>11
<1> HIDE DEF e, C
<1>13. MethodCandidates \in Seq(C)
  BY <1>12
<1> QED
  BY <1>13 DEF C

-----------------------------------------------------------------------------
\* As many of the first elements as there is room for.
LEMMA UptoIsPrefix ==
    ASSUME NEW T, NEW s \in Seq(T), NEW n \in Nat
    PROVE  /\ Upto(n, s) \in Seq(T) /\ Len(Upto(n, s)) \in Nat /\ Len(Upto(n, s)) <= n
           /\ Len(s) <= n => Upto(n, s) = s
<1>1. PICK k \in Nat : k = Len(s)
  BY LenProperties
<1>2. PICK l \in Nat : l = LeastOf(n, k) /\ l <= n /\ l <= k /\ (k <= n => l = k)
  BY <1>1 DEF LeastOf
<1>3. Upto(n, s) = SubSeq(s, 1, l)
  BY <1>1, <1>2 DEF Upto
<1>4. \A i \in 1..l : s[i] \in T
  BY <1>1, <1>2
<1>5. Upto(n, s) \in Seq(T) /\ Len(Upto(n, s)) = l
  <2>1. SubSeq(s, 1, l) \in Seq(T) /\ Len(SubSeq(s, 1, l)) = l
    BY <1>1, <1>2, <1>4
  <2> QED
    BY <1>3, <2>1
<1>6. k <= n => SubSeq(s, 1, l) = s
  BY <1>1, <1>2
<1> QED
  BY <1>1, <1>2, <1>3, <1>5, <1>6

\* The places of a sequence in another order.
LEMMA ReorderedSet ==
    ASSUME NEW T, NEW s \in Seq(T), NEW order \in [DOMAIN s -> DOMAIN s], IsInjective(order)
    PROVE  LET t == [i \in DOMAIN s |-> s[order[i]]]
           IN t \in Seq(T) /\ Len(t) = Len(s) /\ ToSet(t) = ToSet(s)
<1> DEFINE t == [i \in DOMAIN s |-> s[order[i]]]
<1>1. PICK n \in Nat : n = Len(s) /\ DOMAIN s = 1..n
  BY LenProperties
<1>2. IsFiniteSet(1..n)
  BY <1>1, FS_Interval
<1>3. order \in Surjection(1..n, 1..n)
  <2>1. order \in Injection(1..n, 1..n)
    BY <1>1 DEF IsInjective, Injection, IsInjective
  <2> QED
    BY <1>2, <2>1, FS_Injection
<1>4. \A k \in 1..n : \E i \in 1..n : order[i] = k
  BY <1>3 DEF Surjection
<1>5. t \in Seq(T) /\ Len(t) = n /\ DOMAIN t = 1..n
  <2>1. \A i \in 1..n : s[order[i]] \in T
    BY <1>1
  <2> QED
    BY <1>1, <2>1
<1>6. \A i \in 1..n : t[i] = s[order[i]] /\ order[i] \in 1..n
  BY <1>1
<1> HIDE DEF t
<1>7. ToSet(t) = ToSet(s)
  BY <1>1, <1>4, <1>5, <1>6 DEF ToSet
<1> QED
  BY <1>1, <1>5, <1>7 DEF t

LEMMA MergeOffers ==
    ASSUME OptionShapes, Merge
    PROVE  offers' \in Seq(CandidatesOf(request)) /\ MethodsOffered(built, offers')
<1> DEFINE C == CandidatesOf(request)
           firsts == Upto(MaxCandidates, [i \in DOMAIN built |-> Head(built[i])])
           others == FlattenSeq([i \in DOMAIN built |-> Tail(built[i])])
           more == Upto(MaxCandidates - Len(firsts), others)
           heads == [i \in DOMAIN built |-> Head(built[i])]
           tails == [i \in DOMAIN built |-> Tail(built[i])]
<1>1. PICK n \in Nat : n = Len(built) /\ DOMAIN built = 1..n
  BY LenProperties DEF OptionShapes
<1>2. \A i \in 1..n : built[i] \in Seq(C) /\ built[i] # <<>>
  BY <1>1 DEF OptionShapes
<1>3. \A i \in 1..n : Head(built[i]) \in C /\ Head(built[i]) = built[i][1] /\ Tail(built[i]) \in Seq(C)
  <2> HIDE DEF C
  <2> QED
    BY <1>2, HeadTailProperties
<1>4. heads \in Seq(C) /\ Len(heads) = n /\ DOMAIN heads = 1..n /\ tails \in Seq(Seq(C))
  <2> HIDE DEF C
  <2> QED
    BY <1>1, <1>3
<1> HIDE DEF heads, tails, C
<1>5. /\ firsts \in Seq(C) /\ Len(firsts) \in Nat /\ Len(firsts) <= MaxCandidates
      /\ n <= MaxCandidates => firsts = heads
  BY <1>4, UptoIsPrefix, OptionsAssumption DEF heads
<1>6. others \in Seq(C)
  BY <1>4, FlattenPlaces DEF tails
<1> HIDE DEF firsts, others
<1>7. more \in Seq(C) /\ Len(more) \in Nat /\ Len(more) <= MaxCandidates - Len(firsts)
  <2>1. MaxCandidates - Len(firsts) \in Nat
    BY <1>5, OptionsAssumption
  <2> QED
    BY <1>6, <2>1, UptoIsPrefix
<1> HIDE DEF more
<1>8. Merged = firsts \o more
  BY DEF Merged, firsts, more, others
<1>9. Merged \in Seq(C) /\ Len(Merged) = Len(firsts) + Len(more) /\ \A i \in 1..Len(firsts) : Merged[i] = firsts[i]
  BY <1>5, <1>7, <1>8, ConcatProperties
<1>10. PICK order \in {p \in [DOMAIN Merged -> DOMAIN Merged] : IsInjective(p)} :
          offers' = [i \in DOMAIN Merged |-> Merged[order[i]]]
  BY DEF Merge
<1>11. offers' \in Seq(C) /\ Len(offers') = Len(Merged) /\ ToSet(offers') = ToSet(Merged)
  BY <1>9, <1>10, ReorderedSet
<1>12. Len(offers') <= MaxCandidates
  BY <1>5, <1>7, <1>9, <1>11, OptionsAssumption
<1>13. ASSUME n <= MaxCandidates, NEW i \in 1..n
       PROVE  \E x \in ToSet(offers') : x.method = built[i][1].method
  <2>1. firsts = heads /\ i \in 1..Len(firsts)
    BY <1>4, <1>5, <1>13
  <2>2. Merged[i] = built[i][1]
    BY <1>1, <1>3, <1>9, <2>1 DEF heads
  <2>3. i \in DOMAIN Merged
    BY <1>5, <1>7, <1>9, <2>1
  <2>4. Merged[i] \in ToSet(Merged)
    BY <2>3 DEF ToSet
  <2> QED
    BY <1>11, <2>2, <2>4
<1> QED
  BY <1>1, <1>11, <1>12, <1>13 DEF MethodsOffered, C, ToSet

-----------------------------------------------------------------------------
(* Counting places.                                                        *)

LEMMA ImageCardinality ==
    ASSUME NEW S, IsFiniteSet(S), NEW f, NEW T, \A x, y \in S : f[x] = f[y] => x = y,
           \A x \in S : f[x] \in T, \A y \in T : \E x \in S : y = f[x]
    PROVE  Cardinality(T) = Cardinality(S)
<1> DEFINE g == [x \in S |-> f[x]]
<1>1. g \in Surjection(S, T) /\ g \in Injection(S, T)
  BY DEF Surjection, Injection, IsInjective
<1> HIDE DEF g
<1> QED
  BY <1>1, FS_Surjection

LEMMA CountBefore ==
    ASSUME NEW n \in Nat, NEW f, \A x, y \in 1..n : f[x] = f[y] => x = y, NEW p \in 1..n, NEW T,
           \A x \in 1..n : x < p => f[x] \in T, \A y \in T : \E x \in 1..n : x < p /\ y = f[x]
    PROVE  Cardinality(T) = p - 1
<1> DEFINE I == 1..(p - 1)
<1>1. (\A x \in I : x \in 1..n /\ x < p) /\ (\A x \in 1..n : x < p => x \in I) /\ p - 1 \in Int
  OBVIOUS
<1>2. IsFiniteSet(I) /\ Cardinality(I) = p - 1
  <2>1. IsFiniteSet(I) /\ Cardinality(I) = IF 1 > p - 1 THEN 0 ELSE (p - 1) - 1 + 1
    BY <1>1, FS_Interval
  <2> QED
    BY <2>1
<1> HIDE DEF I
<1>3. \A x, y \in I : f[x] = f[y] => x = y
  BY <1>1
<1>4. (\A x \in I : f[x] \in T) /\ (\A y \in T : \E x \in I : y = f[x])
  BY <1>1
<1> QED
  BY <1>2, <1>3, <1>4, ImageCardinality

LEMMA PositionOfPlace ==
    ASSUME NEW T, NEW s \in Seq(T), IsInjective(s), NEW m \in DOMAIN s
    PROVE  Position(s, s[m]) = m
BY DEF Position, IsInjective

LEMMA PositionIsNatural ==
    ASSUME NEW T, NEW s \in Seq(T), NEW e
    PROVE  Position(s, e) \in Nat
<1>1. PICK n \in Nat : n = Len(s) /\ DOMAIN s = 1..n
  BY LenProperties
<1>2. CASE \E i \in DOMAIN s : s[i] = e
  <2>1. PICK i \in DOMAIN s : s[i] = e
    BY <1>2
  <2>2. (CHOOSE j \in DOMAIN s : s[j] = e) \in DOMAIN s
    BY <2>1
  <2> QED
    BY <1>1, <1>2, <2>2 DEF Position
<1>3. CASE ~\E i \in DOMAIN s : s[i] = e
  BY <1>1, <1>3 DEF Position
<1> QED
  BY <1>2, <1>3

\* Identifiers in their order.
LEMMA IdentifiersInOrder ==
    ASSUME NEW S, IsFiniteSet(S), S \subseteq Int
    PROVE  LET s == InOrder(S, ByIdentifier)
           IN /\ s \in Seq(S) /\ Len(s) = Cardinality(S) /\ ToSet(s) = S /\ IsInjective(s)
              /\ \A l, m \in DOMAIN s : l < m => s[l] < s[m]
              /\ \A m \in DOMAIN s : Cardinality({e \in S : e < s[m]}) = m - 1
<1> DEFINE R == {p \in S \X S : p[1] < p[2]}
           s == InOrder(S, ByIdentifier)
<1>1. s = Arranged(S, R)
  BY DEF InOrder, ByIdentifier
<1>2. \A d, e \in S : <<d, e>> \in R <=> d < e
  OBVIOUS
<1> HIDE DEF R, s
<1>3. StrictlyOrders(R, S)
  BY <1>2 DEF StrictlyOrders
<1>4. s \in Seq(S) /\ Len(s) = Cardinality(S) /\ ToSet(s) = S /\ IsInjective(s)
  BY <1>1, <1>3, ArrangedSequence
<1>5. PICK n \in Nat : n = Len(s) /\ DOMAIN s = 1..n
  BY <1>4, LenProperties
<1>6. \A l, m \in 1..n : l < m => s[l] < s[m]
  <2>1. \A l, m \in 1..n : l < m => <<s[l], s[m]>> \in R
    BY <1>1, <1>3, <1>4, <1>5, ArrangedSorts
  <2>2. \A l \in 1..n : s[l] \in S
    BY <1>4, <1>5
  <2> QED
    BY <1>2, <2>1, <2>2
<1>7. ASSUME NEW m \in 1..n
      PROVE  Cardinality({e \in S : e < s[m]}) = m - 1
  <2> DEFINE E == {e \in S : e < s[m]}
  <2>1. \A l \in 1..n : s[l] \in S
    BY <1>4, <1>5
  <2>2. \A l \in 1..n : s[l] \in Int
    BY <2>1
  <2>3. \A l \in 1..n : l < m => s[l] \in E
    BY <1>6, <2>1
  <2>4. ASSUME NEW e \in E
        PROVE  \E l \in 1..n : l < m /\ e = s[l]
    <3>1. PICK l \in 1..n : e = s[l]
      BY <1>4, <1>5 DEF ToSet
    <3>2. ~(m < l) /\ l # m
      BY <1>6, <2>2, <3>1
    <3> QED
      BY <3>1, <3>2
  <2>5. \A x, y \in 1..n : s[x] = s[y] => x = y
    BY <1>4, <1>5 DEF IsInjective
  <2> HIDE DEF E
  <2>6. Cardinality(E) = m - 1
    BY <2>3, <2>4, <2>5, CountBefore
  <2> QED
    BY <2>6 DEF E
<1> QED
  BY <1>4, <1>5, <1>6, <1>7 DEF s

\* The places of sequences put one after the other.
LEMMA PlacesInBlocks ==
    ASSUME NEW T, NEW ss \in Seq(Seq(T)), NEW end, EndsAt(end, ss),
           NEW a \in 1..Len(ss), NEW k \in 1..Len(ss[a]), NEW b \in 1..Len(ss), NEW l \in 1..Len(ss[b])
    PROVE  /\ end[a - 1] + k \in 1..end[Len(ss)]
           /\ a < b => end[a - 1] + k < end[b - 1] + l
           /\ a = b => (end[a - 1] + k < end[b - 1] + l <=> k < l)
<1>1. PICK n \in Nat : n = Len(ss)
  BY LenProperties
<1>2. ss[a] \in Seq(T) /\ Len(ss[a]) \in Nat /\ ss[b] \in Seq(T) /\ Len(ss[b]) \in Nat
  BY LenProperties
<1>3. a - 1 \in 0..n /\ b - 1 \in 0..n /\ a \in 0..n /\ n \in 0..n /\ a <= n /\ (a < b => a <= b - 1)
  BY <1>1
<1>4. end[a] = end[a - 1] + Len(ss[a])
  BY DEF EndsAt
<1>5. end[a] \in Nat /\ end[a - 1] \in Nat /\ end[b - 1] \in Nat /\ end[n] \in Nat
  BY <1>1, <1>3 DEF EndsAt
<1>6. end[a] <= end[n] /\ (a < b => end[a] <= end[b - 1])
  BY <1>1, <1>3, EndsAscend
<1>7. PICK x \in Nat, y \in Nat, u \in Nat, v \in Nat, w \in Nat :
        x = end[a - 1] /\ y = end[a] /\ u = end[b - 1] /\ v = end[n] /\ w = Len(ss[a])
  BY <1>2, <1>5
<1>0. y = x + w /\ y <= v /\ (a < b => y <= u) /\ k \in 1..w /\ l \in Nat \ {0}
  BY <1>1, <1>2, <1>4, <1>6, <1>7
<1>8. x + k \in 1..v
  BY <1>0
<1>9. a < b => x + k < u + l
  BY <1>0
<1>10. a = b => (x + k < u + l <=> k < l)
  <2>1. a = b => x = u
    BY <1>7
  <2>2. k \in Int /\ l \in Int
    OBVIOUS
  <2> QED
    BY <2>1, <2>2
<1> QED
  BY <1>1, <1>7, <1>8, <1>9, <1>10

-----------------------------------------------------------------------------
(* The keys of the buckets.                                                *)

Fours == {<<a, b, c, d>> : a \in Int, b \in Int, c \in Int, d \in Int}

LEMMA BeforeOfFour ==
    ASSUME NEW a1, NEW a2, NEW a3, NEW a4, NEW b1, NEW b2, NEW b3, NEW b4
    PROVE  OptionBefore(<<a1, a2, a3, a4>>, <<b1, b2, b3, b4>>) <=>
               \/ a1 < b1
               \/ a1 = b1 /\ a2 < b2
               \/ a1 = b1 /\ a2 = b2 /\ a3 < b3
               \/ a1 = b1 /\ a2 = b2 /\ a3 = b3 /\ a4 < b4
<1> DEFINE s == <<a1, a2, a3, a4>>
           t == <<b1, b2, b3, b4>>
           Less(i) == s[i] < t[i] /\ \A j \in 1..(i - 1) : s[j] = t[j]
<1>1. DOMAIN s = {1, 2, 3, 4}
  OBVIOUS
<1>2. /\ s[1] = a1 /\ s[2] = a2 /\ s[3] = a3 /\ s[4] = a4
      /\ t[1] = b1 /\ t[2] = b2 /\ t[3] = b3 /\ t[4] = b4
  OBVIOUS
<1>3. OptionBefore(s, t) <=> \E i \in {1, 2, 3, 4} : Less(i)
  BY <1>1 DEF OptionBefore
<1> HIDE DEF s, t
<1>4. /\ Less(1) <=> s[1] < t[1]
      /\ Less(2) <=> s[1] = t[1] /\ s[2] < t[2]
      /\ Less(3) <=> s[1] = t[1] /\ s[2] = t[2] /\ s[3] < t[3]
      /\ Less(4) <=> s[1] = t[1] /\ s[2] = t[2] /\ s[3] = t[3] /\ s[4] < t[4]
  <2>1. 1..(1 - 1) = {} /\ 1..(2 - 1) = {1} /\ 1..(3 - 1) = {1, 2} /\ 1..(4 - 1) = {1, 2, 3}
    OBVIOUS
  <2> QED
    BY <2>1
<1> HIDE DEF Less
<1>5. OptionBefore(s, t) <=> Less(1) \/ Less(2) \/ Less(3) \/ Less(4)
  BY <1>3
<1>6. OptionBefore(s, t) <=>
               \/ a1 < b1
               \/ a1 = b1 /\ a2 < b2
               \/ a1 = b1 /\ a2 = b2 /\ a3 < b3
               \/ a1 = b1 /\ a2 = b2 /\ a3 = b3 /\ a4 < b4
  BY <1>2, <1>4, <1>5, Zenon
<1> QED
  BY <1>6 DEF s, t

LEMMA BeforeOrders ==
    ASSUME NEW K, K \subseteq Fours
    PROVE  StrictlyOrders({p \in K \X K : OptionBefore(p[1], p[2])}, K)
<1> DEFINE R == {p \in K \X K : OptionBefore(p[1], p[2])}
<1>1. \A k, l \in K : <<k, l>> \in R <=> OptionBefore(k, l)
  OBVIOUS
<1>2. \A k \in K : ~OptionBefore(k, k)
  <2> TAKE k \in K
  <2>1. PICK a \in Int, b \in Int, c \in Int, d \in Int : k = <<a, b, c, d>>
    BY DEF Fours
  <2> QED
    BY <2>1, BeforeOfFour
<1>3. \A k, l \in K : k # l => OptionBefore(k, l) \/ OptionBefore(l, k)
  <2> TAKE k, l \in K
  <2>1. PICK a1 \in Int, a2 \in Int, a3 \in Int, a4 \in Int : k = <<a1, a2, a3, a4>>
    BY DEF Fours
  <2>2. PICK b1 \in Int, b2 \in Int, b3 \in Int, b4 \in Int : l = <<b1, b2, b3, b4>>
    BY DEF Fours
  <2> QED
    BY <2>1, <2>2, BeforeOfFour
<1>4. \A k, l, m \in K : OptionBefore(k, l) /\ OptionBefore(l, m) => OptionBefore(k, m)
  <2> TAKE k, l, m \in K
  <2>1. PICK a1 \in Int, a2 \in Int, a3 \in Int, a4 \in Int : k = <<a1, a2, a3, a4>>
    BY DEF Fours
  <2>2. PICK b1 \in Int, b2 \in Int, b3 \in Int, b4 \in Int : l = <<b1, b2, b3, b4>>
    BY DEF Fours
  <2>3. PICK c1 \in Int, c2 \in Int, c3 \in Int, c4 \in Int : m = <<c1, c2, c3, c4>>
    BY DEF Fours
  <2> QED
    BY <2>1, <2>2, <2>3, BeforeOfFour
<1> HIDE DEF R
<1>5. StrictlyOrders(R, K)
  BY <1>1, <1>2, <1>3, <1>4 DEF StrictlyOrders
<1> QED
  BY <1>5 DEF R

-----------------------------------------------------------------------------
(* One bucket.                                                             *)

LEMMA RankableFacts ==
    ASSUME OptionShapes
    PROVE  /\ IsFiniteSet(Rankable) /\ Rankable \subseteq 1..Len(answers)
           /\ 1..Len(answers) \subseteq 1..Len(offers) /\ Rankable \subseteq Int
<1>1. answers \in Seq(AnswersOf(request)) /\ offers \in Seq(CandidatesOf(request)) /\ Len(answers) <= Len(offers)
  BY DEF OptionShapes
<1>2. PICK n \in Nat, l \in Nat : n = Len(answers) /\ DOMAIN answers = 1..n /\ l = Len(offers)
  BY <1>1, LenProperties
<1>3. IsFiniteSet(1..n) /\ Rankable \in SUBSET (1..n)
  BY <1>2, FS_Interval DEF Rankable
<1>4. IsFiniteSet(Rankable)
  BY <1>3, FS_Subset
<1> QED
  BY <1>1, <1>2, <1>3, <1>4

LEMMA PreferredOrders ==
    ASSUME OptionShapes, NEW S, S \subseteq Int
    PROVE  StrictlyOrders({p \in S \X S : Preferred(p[1], p[2])}, S)
<1> DEFINE R == {p \in S \X S : Preferred(p[1], p[2])}
<1>1. \A i, j \in S : <<i, j>> \in R <=> Preferred(i, j)
  OBVIOUS
<1>2. \A i \in S : Preference(i) \in Nat
  <2>1. request.points \in Seq(Int)
    BY RequestsAssumption DEF OptionShapes
  <2> QED
    BY <2>1, PositionIsNatural DEF Preference
<1> HIDE DEF R
<1>3. StrictlyOrders(R, S)
  BY <1>1, <1>2 DEF StrictlyOrders, Preferred
<1> QED
  BY <1>3 DEF R

\* The identifiers order a bucket, and the seats of the options that have a
\* handoff point are filled in the order the seller prefers.
LEMMA BucketOrder ==
    ASSUME OptionShapes, NEW k
    PROVE  LET B == {i \in Rankable : RankKey(i) = k}
               f == InBucket(k)
           IN /\ f \in Seq(B) /\ ToSet(f) = B /\ IsInjective(f)
              /\ \A p, q \in DOMAIN f : p < q /\ Absent \notin {offers[f[p]].point, offers[f[q]].point}
                     => Preference(f[p]) <= Preference(f[q])
              /\ \A p \in DOMAIN f : offers[f[p]].point = Absent
                     => Cardinality({j \in B : j < f[p]}) = p - 1
<1> DEFINE B == {i \in Rankable : RankKey(i) = k}
           f == InBucket(k)
           b == InOrder(B, ByIdentifier)
           S == {p \in DOMAIN b : offers[b[p]].point # Absent}
           s == InOrder(S, ByIdentifier)
           G == {b[p] : p \in ToSet(s)}
           R == {p \in G \X G : Preferred(p[1], p[2])}
           g == InOrder(G, Preferred)
<1>1. IsFiniteSet(B) /\ B \subseteq Int
  <2>1. B \in SUBSET Rankable
    OBVIOUS
  <2> HIDE DEF B
  <2> QED
    BY <2>1, RankableFacts, FS_Subset
<1> HIDE DEF B
<1>2. b \in Seq(B) /\ Len(b) = Cardinality(B) /\ ToSet(b) = B /\ IsInjective(b)
      /\ (\A l, m \in DOMAIN b : l < m => b[l] < b[m])
      /\ \A m \in DOMAIN b : Cardinality({e \in B : e < b[m]}) = m - 1
  BY <1>1, IdentifiersInOrder
<1> HIDE DEF b
<1>3. PICK n \in Nat : n = Len(b) /\ DOMAIN b = 1..n
  BY <1>2, LenProperties
<1>4. S \subseteq 1..n /\ S \subseteq Int /\ IsFiniteSet(S)
  <2>1. S \in SUBSET (1..n)
    BY <1>3
  <2> HIDE DEF S
  <2>2. IsFiniteSet(1..n)
    BY FS_Interval
  <2>3. IsFiniteSet(S)
    BY <2>1, <2>2, FS_Subset
  <2> QED
    BY <2>1, <2>3
<1>0. \A p \in 1..n : p \in S <=> offers[b[p]].point # Absent
  BY <1>3
<1> HIDE DEF S
<1>5. s \in Seq(S) /\ Len(s) = Cardinality(S) /\ ToSet(s) = S /\ IsInjective(s)
      /\ \A l, m \in DOMAIN s : l < m => s[l] < s[m]
  BY <1>4, IdentifiersInOrder
<1> HIDE DEF s
<1>6. PICK c \in Nat : c = Len(s) /\ DOMAIN s = 1..c /\ c = Cardinality(S)
  BY <1>5, LenProperties
<1>7. (\A p \in S : b[p] \in G) /\ (\A e \in G : \E p \in S : e = b[p]) /\ \A x, y \in S : b[x] = b[y] => x = y
  BY <1>2, <1>3, <1>4, <1>5 DEF IsInjective
<1>8. G \subseteq B
  <2>1. \A p \in 1..n : b[p] \in B
    BY <1>2, <1>3
  <2> QED
    BY <1>4, <1>7, <2>1
<1>9. IsFiniteSet(G) /\ Cardinality(G) = c /\ G \subseteq Int
  <2>1. G \in SUBSET B
    BY <1>8
  <2> HIDE DEF G
  <2>2. IsFiniteSet(G)
    BY <1>1, <2>1, FS_Subset
  <2>3. Cardinality(G) = Cardinality(S)
    BY <1>4, <1>7, ImageCardinality
  <2> QED
    BY <1>1, <1>6, <2>1, <2>2, <2>3
<1> HIDE DEF G
<1>10. g = Arranged(G, R) /\ StrictlyOrders(R, G) /\ \A i, j \in G : <<i, j>> \in R <=> Preferred(i, j)
  BY <1>9, PreferredOrders DEF InOrder
<1> HIDE DEF g, R
<1>11. g \in Seq(G) /\ Len(g) = c /\ ToSet(g) = G /\ IsInjective(g) /\ DOMAIN g = 1..c
       /\ \A l, m \in 1..c : l < m => <<g[l], g[m]>> \in R
  BY <1>9, <1>10, ArrangedSequence, ArrangedSorts, LenProperties
<1>12. f = [p \in 1..n |-> IF p \in S THEN g[Position(s, p)] ELSE b[p]]
  BY <1>3, <1>5 DEF InBucket, B, b, S, s, G, g
<1> HIDE DEF f
<1> DEFINE seat(p) == Position(s, p)
<1>13. \A p \in S : seat(p) \in 1..c /\ s[seat(p)] = p
  <2> TAKE p \in S
  <2>1. PICK m \in 1..c : s[m] = p
    BY <1>5, <1>6 DEF ToSet
  <2>2. seat(p) = m
    BY <1>5, <1>6, <2>1, PositionOfPlace
  <2> QED
    BY <2>1, <2>2
<1>14. \A p, q \in S : p < q => seat(p) < seat(q)
  <2> TAKE p, q \in S
  <2>1. seat(p) \in 1..c /\ seat(q) \in 1..c /\ s[seat(p)] = p /\ s[seat(q)] = q /\ p \in Int /\ q \in Int
    BY <1>4, <1>13
  <2>2. seat(q) < seat(p) => q < p
    BY <1>5, <1>6, <2>1
  <2> HIDE DEF seat
  <2> QED
    BY <2>1, <2>2
<1>15. \A p \in S : f[p] = g[seat(p)] /\ f[p] \in G
  BY <1>4, <1>11, <1>12, <1>13
<1>16. \A p \in (1..n) \ S : f[p] = b[p] /\ b[p] \in B \ G
  <2> TAKE p \in (1..n) \ S
  <2>1. f[p] = b[p] /\ b[p] \in B
    BY <1>2, <1>3, <1>12
  <2>2. b[p] \notin G
    <3>1. \A q \in S : q \in 1..n /\ q # p
      BY <1>4
    <3>2. \A q \in S : b[q] # b[p]
      BY <1>2, <1>3, <3>1 DEF IsInjective
    <3> QED
      BY <1>7, <3>2
  <2> QED
    BY <2>1, <2>2
<1> HIDE DEF seat
<1>17. f \in Seq(B) /\ DOMAIN f = 1..n
  <2>1. \A p \in 1..n : f[p] \in B
    BY <1>8, <1>15, <1>16
  <2>2. DOMAIN f = 1..n /\ f = [p \in 1..n |-> f[p]]
    BY <1>12
  <2> QED
    BY <2>1, <2>2
<1>18. ToSet(f) = B
  <2>1. ToSet(f) \subseteq B
    BY <1>17 DEF ToSet
  <2>2. ASSUME NEW e \in B
        PROVE  \E p \in 1..n : f[p] = e
    <3>1. PICK p \in 1..n : b[p] = e
      BY <1>2, <1>3 DEF ToSet
    <3>2. CASE p \in S
      <4>1. e \in G
        BY <1>7, <3>1, <3>2
      <4>2. PICK m \in 1..c : g[m] = e
        BY <1>11, <4>1 DEF ToSet
      <4>3. s[m] \in S
        BY <1>5, <1>6
      <4>4. seat(s[m]) = m
        BY <1>5, <1>6, PositionOfPlace DEF seat
      <4> QED
        BY <1>4, <1>15, <4>2, <4>3, <4>4
    <3>3. CASE p \notin S
      BY <1>16, <3>1, <3>3
    <3> QED
      BY <3>2, <3>3
  <2> QED
    BY <1>17, <2>1, <2>2 DEF ToSet
<1>19. IsInjective(f)
  <2> SUFFICES ASSUME NEW p \in 1..n, NEW q \in 1..n, f[p] = f[q]
               PROVE  p = q
    BY <1>17 DEF IsInjective
  <2>1. CASE p \in S /\ q \in S
    <3>1. g[seat(p)] = g[seat(q)] /\ seat(p) \in 1..c /\ seat(q) \in 1..c
      BY <1>13, <1>15, <2>1 DEF seat
    <3>2. seat(p) = seat(q)
      BY <1>11, <3>1 DEF IsInjective
    <3> QED
      BY <1>13, <2>1, <3>2 DEF seat
  <2>2. CASE p \notin S /\ q \notin S
    BY <1>2, <1>3, <1>16, <2>2 DEF IsInjective
  <2>3. CASE p \in S /\ q \notin S
    BY <1>15, <1>16, <2>3
  <2>4. CASE p \notin S /\ q \in S
    BY <1>15, <1>16, <2>4
  <2> QED
    BY <2>1, <2>2, <2>3, <2>4
<1>20. \A p \in 1..n : p \in S <=> offers[f[p]].point # Absent
  <2> TAKE p \in 1..n
  <2>1. CASE p \in S
    <3>1. PICK q \in S : f[p] = b[q]
      BY <1>7, <1>15, <2>1
    <3> QED
      BY <1>0, <1>4, <2>1, <3>1
  <2>2. CASE p \notin S
    BY <1>0, <1>16, <2>2
  <2> QED
    BY <2>1, <2>2
<1>21. ASSUME NEW p \in 1..n, NEW q \in 1..n, p < q, Absent \notin {offers[f[p]].point, offers[f[q]].point}
       PROVE  Preference(f[p]) <= Preference(f[q])
  <2>1. p \in S /\ q \in S
    BY <1>20, <1>21
  <2>2. seat(p) < seat(q) /\ seat(p) \in 1..c /\ seat(q) \in 1..c
    BY <1>13, <1>14, <1>21, <2>1 DEF seat
  <2>3. <<f[p], f[q]>> \in R /\ f[p] \in G /\ f[q] \in G
    BY <1>11, <1>15, <2>1, <2>2
  <2>4. Preferred(f[p], f[q])
    BY <1>10, <2>3
  <2>5. Preference(f[p]) \in Nat /\ Preference(f[q]) \in Nat
    <3>1. request.points \in Seq(Int)
      BY RequestsAssumption DEF OptionShapes
    <3> QED
      BY <3>1, PositionIsNatural DEF Preference
  <2> QED
    BY <2>4, <2>5 DEF Preferred
<1>22. ASSUME NEW p \in 1..n, offers[f[p]].point = Absent
       PROVE  Cardinality({j \in B : j < f[p]}) = p - 1
  <2>1. f[p] = b[p]
    BY <1>16, <1>20, <1>22
  <2> QED
    BY <1>2, <1>3, <2>1
<1> QED
  BY <1>17, <1>18, <1>19, <1>21, <1>22 DEF f, B

-----------------------------------------------------------------------------
(* The ranking, of a request, offers and answers that are given.           *)

QtyOf(r, cs) == Total([c \in cs |-> r.line[c].qty], cs)
KeyOf(r, a, i) == <<IF a[i].slot THEN 0 ELSE 1, 0 - Cardinality(a[i].yes),
                    0 - QtyOf(r, a[i].yes), QtyOf(r, a[i].no)>>
RankableOf(a) == {i \in DOMAIN a : ~a[i].failed /\ a[i].yes # {}}
PreferenceOf(r, o, i) == Position(r.points, o[i].point)
EqualsOf(r, a, i) == {j \in RankableOf(a) : KeyOf(r, a, j) = KeyOf(r, a, i)}
SortedOf(r, o, a, s) ==
    /\ Len(s) = Cardinality(RankableOf(a)) /\ ToSet(s) = RankableOf(a)
    /\ \A p, q \in DOMAIN s :
           p < q => /\ ~OptionBefore(KeyOf(r, a, s[q]), KeyOf(r, a, s[p]))
                    /\ KeyOf(r, a, s[p]) = KeyOf(r, a, s[q])
                       /\ Absent \notin {o[s[p]].point, o[s[q]].point}
                           => PreferenceOf(r, o, s[p]) <= PreferenceOf(r, o, s[q])
    /\ \A i \in RankableOf(a) :
           o[i].point = Absent =>
               Cardinality({j \in EqualsOf(r, a, i) : j < i})
                 = Cardinality({j \in EqualsOf(r, a, i) : Position(s, j) < Position(s, i)})

LEMMA RankingOfState ==
    /\ RankableOf(answers) = Rankable
    /\ \A i : KeyOf(request, answers, i) = RankKey(i) /\ PreferenceOf(request, offers, i) = Preference(i)
    /\ BestFirst <=> (phase = "ranked" => SortedOf(request, offers, answers, ranking))
<1>1. RankableOf(answers) = Rankable
  BY DEF RankableOf, Rankable
<1>2. \A i : KeyOf(request, answers, i) = RankKey(i) /\ PreferenceOf(request, offers, i) = Preference(i)
  BY DEF KeyOf, RankKey, QtyOf, Units, Line, PreferenceOf, Preference
<1>3. \A i : EqualsOf(request, answers, i) = {j \in Rankable : RankKey(j) = RankKey(i)}
  BY <1>1, <1>2 DEF EqualsOf
<1>4. BestFirst <=> (phase = "ranked" => SortedOf(request, offers, answers, ranking))
  BY <1>1, <1>2, <1>3 DEF BestFirst, SortedOf
<1> QED
  BY <1>1, <1>2, <1>4

LEMMA RankKeysAreFours ==
    ASSUME OptionShapes, NEW i \in Rankable
    PROVE  RankKey(i) \in Fours
<1>1. i \in DOMAIN answers /\ answers \in Seq(AnswersOf(request)) /\ request \in Requests
  BY DEF Rankable, OptionShapes
<1>2. answers[i] \in AnswersOf(request)
  BY <1>1
<1>3. answers[i].yes \in SUBSET Scope /\ answers[i].no \in SUBSET Scope
  BY <1>1, <1>2, ScopeFacts DEF AnswersOf
<1>4. ASSUME NEW cs \in SUBSET Scope
      PROVE  Cardinality(cs) \in Int /\ Units(cs) \in Int
  <2>1. IsFiniteSet(cs) /\ \A c \in cs : Line(c).qty \in Int
    BY <1>1, ScopeFacts, FS_Subset
  <2> DEFINE f == [c \in cs |-> Line(c).qty]
  <2>2. \A c \in cs : f[c] \in Int
    BY <2>1
  <2> HIDE DEF f
  <2>3. Total(f, cs) \in Int
    BY <2>1, <2>2, TotalType
  <2>4. Cardinality(cs) \in Nat
    BY <2>1, FS_CardinalityType
  <2> QED
    BY <2>3, <2>4 DEF Units, f
<1>5. PICK a \in Int, b \in Int, c \in Int, d \in Int :
          /\ a = (IF answers[i].slot THEN 0 ELSE 1) /\ b = 0 - Cardinality(answers[i].yes)
          /\ c = 0 - Units(answers[i].yes) /\ d = Units(answers[i].no)
  <2>1. (IF answers[i].slot THEN 0 ELSE 1) \in Int
    OBVIOUS
  <2>2. 0 - Cardinality(answers[i].yes) \in Int /\ 0 - Units(answers[i].yes) \in Int /\ Units(answers[i].no) \in Int
    BY <1>3, <1>4
  <2> QED
    BY <2>1, <2>2
<1>6. RankKey(i) = <<a, b, c, d>>
  BY <1>5 DEF RankKey
<1> QED
  BY <1>6 DEF Fours

LEMMA RankedIsSorted ==
    ASSUME OptionShapes
    PROVE  /\ Ranked \in Seq(1..Len(offers))
           /\ SortedOf(request, offers, answers, Ranked)
<1> DEFINE K == {RankKey(i) : i \in Rankable}
           R == {p \in K \X K : OptionBefore(p[1], p[2])}
           keys == InOrder(K, OptionBefore)
           B(k) == {i \in Rankable : RankKey(i) = k}
           ss == [n \in DOMAIN keys |-> InBucket(keys[n])]
           s == FlattenSeq(ss)
<1>1. IsFiniteSet(Rankable) /\ Rankable \subseteq 1..Len(offers) /\ Rankable \subseteq Int
  BY RankableFacts
<1>2. (\A i \in Rankable : RankKey(i) \in K) /\ \A k \in K : \E i \in Rankable : RankKey(i) = k
  OBVIOUS
<1>3. IsFiniteSet(K) /\ K \subseteq Fours
  <2> DEFINE f == [i \in Rankable |-> RankKey(i)]
             F == {f[i] : i \in Rankable}
  <2>1. K = F
    OBVIOUS
  <2>2. IsFiniteSet(F)
    <3> HIDE DEF f
    <3> QED
      BY <1>1, ImageIsFinite
  <2> HIDE DEF F
  <2> QED
    BY <2>1, <2>2, RankKeysAreFours
<1> HIDE DEF K
<1>4. keys = Arranged(K, R) /\ StrictlyOrders(R, K) /\ \A k, l \in K : <<k, l>> \in R <=> OptionBefore(k, l)
  BY <1>3, BeforeOrders DEF InOrder
<1> HIDE DEF keys, R
<1>5. /\ keys \in Seq(K) /\ ToSet(keys) = K /\ IsInjective(keys) /\ Len(keys) = Cardinality(K)
      /\ \A l, m \in 1..Cardinality(K) : l < m => <<keys[l], keys[m]>> \in R
  BY <1>3, <1>4, ArrangedSequence, ArrangedSorts
<1>6. PICK N \in Nat : N = Len(keys) /\ DOMAIN keys = 1..N
  BY <1>5, LenProperties
<1>7. \A l, m \in 1..N : l < m => /\ keys[l] # keys[m] /\ OptionBefore(keys[l], keys[m])
                                  /\ ~OptionBefore(keys[m], keys[l])
  <2> TAKE l, m \in 1..N
  <2> SUFFICES ASSUME l < m
               PROVE  /\ keys[l] # keys[m] /\ OptionBefore(keys[l], keys[m])
                      /\ ~OptionBefore(keys[m], keys[l])
    OBVIOUS
  <2>1. keys[l] \in K /\ keys[m] \in K /\ <<keys[l], keys[m]>> \in R
    BY <1>5, <1>6
  <2>2. <<keys[m], keys[l]>> \notin R /\ keys[l] # keys[m]
    BY <1>4, <2>1 DEF StrictlyOrders
  <2> QED
    BY <1>4, <2>1, <2>2
<1>8. \A k \in K : ~OptionBefore(k, k)
  BY <1>4 DEF StrictlyOrders
<1>9. ASSUME NEW n \in 1..N
      PROVE  /\ ss[n] \in Seq(B(keys[n])) /\ ToSet(ss[n]) = B(keys[n]) /\ IsInjective(ss[n])
             /\ \A p, q \in DOMAIN ss[n] :
                    p < q /\ Absent \notin {offers[ss[n][p]].point, offers[ss[n][q]].point}
                        => Preference(ss[n][p]) <= Preference(ss[n][q])
             /\ \A p \in DOMAIN ss[n] : offers[ss[n][p]].point = Absent
                        => Cardinality({j \in B(keys[n]) : j < ss[n][p]}) = p - 1
  <2>1. ss[n] = InBucket(keys[n])
    BY <1>6
  <2> HIDE DEF ss
  <2> QED
    BY <2>1, BucketOrder
<1>10. ss \in Seq(Seq(Rankable)) /\ Len(ss) = N
  <2>1. \A n \in 1..N : ss[n] \in Seq(Rankable)
    <3> TAKE n \in 1..N
    <3>1. ss[n] \in Seq(B(keys[n])) /\ B(keys[n]) \subseteq Rankable
      BY <1>9
    <3> HIDE DEF ss, B
    <3> QED
      BY <3>1
  <2>2. ss = [n \in 1..N |-> ss[n]]
    BY <1>6
  <2> HIDE DEF ss
  <2>3. ss \in Seq(Seq(Rankable))
    BY <2>1, <2>2
  <2>4. Len(ss) = N
    BY <2>2
  <2> QED
    BY <2>3, <2>4
<1> HIDE DEF ss, s
<1>11. s \in Seq(Rankable)
  BY <1>10, FlattenPlaces DEF s
<1>12. PICK end : /\ EndsAt(end, ss) /\ Len(s) = end[Len(ss)]
                  /\ \A n \in 1..Len(ss) : \A m \in 1..Len(ss[n]) : s[end[n - 1] + m] = ss[n][m]
  BY <1>10, FlattenPlaces DEF s
<1>13. PICK L \in Nat : L = Len(s) /\ DOMAIN s = 1..L /\ L = end[N]
  BY <1>10, <1>11, <1>12, LenProperties
<1>14. \A n \in 1..N : DOMAIN ss[n] = 1..Len(ss[n]) /\ Len(ss[n]) \in Nat
  <2> TAKE n \in 1..N
  <2>1. ss[n] \in Seq(Rankable)
    BY <1>10
  <2> QED
    BY <2>1, LenProperties
\* The place at which the m-th of the n-th bucket stands.
<1> DEFINE At(n, m) == end[n - 1] + m
<1>15. \A n \in 1..N : \A m \in 1..Len(ss[n]) : At(n, m) \in 1..L /\ s[At(n, m)] = ss[n][m]
  <2> TAKE n \in 1..N
  <2> TAKE m \in 1..Len(ss[n])
  <2>1. At(n, m) \in 1..end[Len(ss)]
    BY <1>10, <1>12, PlacesInBlocks
  <2> QED
    BY <1>10, <1>12, <1>13, <2>1
<1>16. \A p \in 1..L : \E n \in 1..N : \E m \in 1..Len(ss[n]) : p = At(n, m)
  <2>1. ss \in Seq(Seq(Rankable)) /\ EndsAt(end, ss)
    BY <1>10, <1>12
  <2>2. \A p \in 1..end[Len(ss)] :
            \E n \in 1..Len(ss) : \E m \in 1..Len(ss[n]) : p = end[n - 1] + m
    BY <2>1, EndsCover
  <2>3. Len(ss) = N /\ end[N] = L
    BY <1>10, <1>13
  <2> QED
    BY <2>2, <2>3
<1>17. \A a, b \in 1..N : \A k \in 1..Len(ss[a]) : \A l \in 1..Len(ss[b]) :
           /\ a < b => At(a, k) < At(b, l)
           /\ a = b => (At(a, k) < At(b, l) <=> k < l)
  <2> TAKE a, b \in 1..N
  <2> TAKE k \in 1..Len(ss[a])
  <2> TAKE l \in 1..Len(ss[b])
  <2>1. a \in 1..Len(ss) /\ b \in 1..Len(ss)
    BY <1>10
  <2>2. /\ a < b => end[a - 1] + k < end[b - 1] + l
        /\ a = b => (end[a - 1] + k < end[b - 1] + l <=> k < l)
    <3>1. ss \in Seq(Seq(Rankable)) /\ EndsAt(end, ss)
      BY <1>10, <1>12
    <3> QED
      BY <2>1, <3>1, PlacesInBlocks
  <2> QED
    BY <2>2
<1>18. \A n \in 1..N : \A m \in 1..Len(ss[n]) : ss[n][m] \in Rankable /\ RankKey(ss[n][m]) = keys[n]
  <2> TAKE n \in 1..N
  <2> TAKE m \in 1..Len(ss[n])
  <2>1. ss[n] \in Seq(B(keys[n])) /\ m \in 1..Len(ss[n])
    BY <1>9
  <2>2. ss[n][m] \in B(keys[n])
    <3> HIDE DEF B
    <3> QED
      BY <2>1
  <2> QED
    BY <2>2
<1> HIDE DEF At
<1>19. \A a, b \in 1..N : \A k \in 1..Len(ss[a]) : \A l \in 1..Len(ss[b]) :
           At(a, k) < At(b, l) => a < b \/ (a = b /\ k < l)
  <2> TAKE a, b \in 1..N
  <2> TAKE k \in 1..Len(ss[a])
  <2> TAKE l \in 1..Len(ss[b])
  <2>1. At(a, k) \in Int /\ At(b, l) \in Int
    BY <1>15
  <2>2. a < b \/ a = b \/ b < a
    OBVIOUS
  <2>3. b < a => At(b, l) < At(a, k)
    BY <1>17
  <2>4. a = b => (At(a, k) < At(b, l) <=> k < l)
    BY <1>17
  <2> QED
    BY <2>1, <2>2, <2>3, <2>4
<1>20. IsInjective(s)
  <2> SUFFICES ASSUME NEW p \in 1..L, NEW q \in 1..L, s[p] = s[q]
               PROVE  p = q
    BY <1>13 DEF IsInjective
  <2>1. PICK a \in 1..N : \E k \in 1..Len(ss[a]) : p = At(a, k)
    BY <1>16
  <2>2. PICK k \in 1..Len(ss[a]) : p = At(a, k)
    BY <2>1
  <2>3. PICK b \in 1..N : \E l \in 1..Len(ss[b]) : q = At(b, l)
    BY <1>16
  <2>4. PICK l \in 1..Len(ss[b]) : q = At(b, l)
    BY <2>3
  <2>5. ss[a][k] = ss[b][l]
    BY <1>15, <2>2, <2>4
  <2>6. keys[a] = keys[b]
    BY <1>18, <2>5
  <2>7. a = b
    BY <1>5, <1>6, <2>6 DEF IsInjective
  <2>8. k = l
    <3>1. IsInjective(ss[a]) /\ k \in DOMAIN ss[a] /\ l \in DOMAIN ss[a]
      BY <1>9, <1>14, <2>7
    <3> QED
      BY <2>5, <2>7, <3>1 DEF IsInjective
  <2> QED
    BY <2>2, <2>4, <2>7, <2>8
<1>21. \A i \in Rankable : \E n \in 1..N : \E m \in 1..Len(ss[n]) : ss[n][m] = i
  <2> TAKE i \in Rankable
  <2>1. PICK n \in 1..N : keys[n] = RankKey(i)
    BY <1>2, <1>5, <1>6 DEF ToSet
  <2>2. i \in B(keys[n]) /\ ToSet(ss[n]) = B(keys[n])
    BY <1>9, <2>1
  <2>3. \E m \in DOMAIN ss[n] : ss[n][m] = i
    BY <2>2 DEF ToSet
  <2> QED
    BY <1>14, <2>3
<1>22. ToSet(s) = Rankable
  <2>1. ToSet(s) \subseteq Rankable
    BY <1>11, <1>13 DEF ToSet
  <2>2. ASSUME NEW i \in Rankable
        PROVE  \E p \in 1..L : s[p] = i
    <3>1. PICK n \in 1..N : \E m \in 1..Len(ss[n]) : ss[n][m] = i
      BY <1>21
    <3> QED
      BY <1>15, <3>1
  <2> QED
    BY <1>13, <2>1, <2>2 DEF ToSet
<1>23. L = Cardinality(Rankable)
  <2>1. \A x, y \in 1..L : s[x] = s[y] => x = y
    BY <1>13, <1>20 DEF IsInjective
  <2>2. (\A x \in 1..L : s[x] \in Rankable) /\ \A y \in Rankable : \E x \in 1..L : y = s[x]
    BY <1>13, <1>22 DEF ToSet
  <2>3. IsFiniteSet(1..L) /\ Cardinality(1..L) = L
    <3>1. IsFiniteSet(1..L) /\ Cardinality(1..L) = IF 1 > L THEN 0 ELSE L - 1 + 1
      BY FS_Interval
    <3> QED
      BY <3>1
  <2>4. Cardinality(Rankable) = Cardinality(1..L)
    BY <2>1, <2>2, <2>3, ImageCardinality
  <2> QED
    BY <2>3, <2>4
<1>24. ASSUME NEW p \in 1..L, NEW q \in 1..L, p < q
       PROVE  /\ ~OptionBefore(RankKey(s[q]), RankKey(s[p]))
              /\ RankKey(s[p]) = RankKey(s[q]) /\ Absent \notin {offers[s[p]].point, offers[s[q]].point}
                     => Preference(s[p]) <= Preference(s[q])
  <2>1. PICK a \in 1..N : \E k \in 1..Len(ss[a]) : p = At(a, k)
    BY <1>16
  <2>2. PICK k \in 1..Len(ss[a]) : p = At(a, k)
    BY <2>1
  <2>3. PICK b \in 1..N : \E l \in 1..Len(ss[b]) : q = At(b, l)
    BY <1>16
  <2>4. PICK l \in 1..Len(ss[b]) : q = At(b, l)
    BY <2>3
  <2>5. a < b \/ (a = b /\ k < l)
    BY <1>19, <1>24, <2>2, <2>4
  <2>6. s[p] = ss[a][k] /\ s[q] = ss[b][l] /\ RankKey(s[p]) = keys[a] /\ RankKey(s[q]) = keys[b]
    BY <1>15, <1>18, <2>2, <2>4
  <2>7. keys[a] \in K /\ keys[b] \in K
    BY <1>5, <1>6
  <2>8. CASE a < b
    BY <1>7, <2>6, <2>8
  <2>9. CASE a = b /\ k < l
    <3>1. ~OptionBefore(RankKey(s[q]), RankKey(s[p]))
      BY <1>8, <2>6, <2>7, <2>9
    <3>2. k \in DOMAIN ss[a] /\ l \in DOMAIN ss[a]
      BY <1>14, <2>9
    <3> QED
      BY <1>9, <2>6, <2>9, <3>1, <3>2
  <2> QED
    BY <2>5, <2>8, <2>9
<1>25. ASSUME NEW i \in Rankable, offers[i].point = Absent
       PROVE  LET E == {j \in Rankable : RankKey(j) = RankKey(i)}
              IN Cardinality({j \in E : j < i}) = Cardinality({j \in E : Position(s, j) < Position(s, i)})
  <2>1. PICK n \in 1..N : \E m \in 1..Len(ss[n]) : ss[n][m] = i
    BY <1>21
  <2>2. PICK m \in 1..Len(ss[n]) : ss[n][m] = i
    BY <2>1
  <2>3. RankKey(i) = keys[n] /\ m \in DOMAIN ss[n]
    BY <1>14, <1>18, <2>2
  <2> DEFINE E == B(keys[n])
             U == {j \in E : Position(s, j) < Position(s, i)}
             D == {j \in E : j < i}
  <2>4. Cardinality(D) = m - 1
    BY <1>9, <1>25, <2>2, <2>3
  <2>5. \A x \in 1..Len(ss[n]) : Position(s, ss[n][x]) = At(n, x)
    <3> TAKE x \in 1..Len(ss[n])
    <3>1. At(n, x) \in DOMAIN s /\ s[At(n, x)] = ss[n][x]
      BY <1>13, <1>15
    <3> QED
      BY <1>11, <1>20, <3>1, PositionOfPlace
  <2>6. \A x \in 1..Len(ss[n]) : Position(s, ss[n][x]) < Position(s, i) <=> x < m
    <3> TAKE x \in 1..Len(ss[n])
    <3>1. Position(s, ss[n][x]) = At(n, x) /\ Position(s, i) = At(n, m)
      BY <2>2, <2>5
    <3>2. At(n, x) < At(n, m) <=> x < m
      BY <1>17
    <3> QED
      BY <3>1, <3>2
  <2>7. ToSet(ss[n]) = E /\ IsInjective(ss[n]) /\ DOMAIN ss[n] = 1..Len(ss[n]) /\ Len(ss[n]) \in Nat
    BY <1>9, <1>14
  <2> HIDE DEF B
  <2>8. (\A x \in 1..Len(ss[n]) : ss[n][x] \in E) /\ \A e \in E : \E x \in 1..Len(ss[n]) : e = ss[n][x]
    BY <2>7 DEF ToSet
  <2>9. (\A x \in 1..Len(ss[n]) : x < m => ss[n][x] \in U)
        /\ \A y \in U : \E x \in 1..Len(ss[n]) : x < m /\ y = ss[n][x]
    BY <2>6, <2>8
  <2>10. \A x, y \in 1..Len(ss[n]) : ss[n][x] = ss[n][y] => x = y
    BY <2>7 DEF IsInjective
  <2> DEFINE t == ss[n]
  <2>13. PICK c \in Nat : c = Len(t)
    BY <2>7
  <2>14. /\ \A x, y \in 1..c : t[x] = t[y] => x = y
         /\ m \in 1..c /\ (\A x \in 1..c : x < m => t[x] \in U)
         /\ \A y \in U : \E x \in 1..c : x < m /\ y = t[x]
    BY <2>9, <2>10, <2>13
  <2> HIDE DEF U, t
  <2>11. Cardinality(U) = m - 1
    BY <2>14, CountBefore
  <2>12. Cardinality(D) = Cardinality(U)
    BY <2>4, <2>11
  <2> QED
    BY <2>3, <2>12 DEF U, B
<1>26. Ranked = s
  BY DEF Ranked, keys, K, ss, s
<1>27. s \in Seq(1..Len(offers))
  <2> DEFINE O == 1..Len(offers)
  <2>1. Rankable \subseteq O
    BY <1>1
  <2> HIDE DEF O
  <2>2. s \in Seq(O)
    BY <1>11, <2>1
  <2> QED
    BY <2>2 DEF O
<1>28. SortedOf(request, offers, answers, s)
  <2>1. \A i : EqualsOf(request, answers, i) = {j \in Rankable : RankKey(j) = RankKey(i)}
    BY RankingOfState DEF EqualsOf
  <2>2. Len(s) = Cardinality(RankableOf(answers)) /\ ToSet(s) = RankableOf(answers)
    BY <1>13, <1>22, <1>23, RankingOfState
  <2>3. \A p, q \in DOMAIN s :
           p < q => /\ ~OptionBefore(KeyOf(request, answers, s[q]), KeyOf(request, answers, s[p]))
                    /\ KeyOf(request, answers, s[p]) = KeyOf(request, answers, s[q])
                       /\ Absent \notin {offers[s[p]].point, offers[s[q]].point}
                           => PreferenceOf(request, offers, s[p]) <= PreferenceOf(request, offers, s[q])
    BY <1>13, <1>24, RankingOfState
  <2>4. ASSUME NEW i \in RankableOf(answers), offers[i].point = Absent
        PROVE  Cardinality({j \in EqualsOf(request, answers, i) : j < i})
                 = Cardinality({j \in EqualsOf(request, answers, i) : Position(s, j) < Position(s, i)})
    <3>1. i \in Rankable
      BY RankingOfState
    <3> QED
      BY <1>25, <2>1, <2>4, <3>1
  <2> QED
    BY <2>2, <2>3, <2>4 DEF SortedOf
<1> QED
  BY <1>26, <1>27, <1>28

OptionSorted == phase = "ranked" => SortedOf(request, offers, answers, ranking)
OptionInv == OptionShapes /\ OptionOrder /\ OptionGroups /\ OptionOffered /\ OptionSorted

LEMMA OptionInvInit ==
    ASSUME OptionInit
    PROVE  OptionInv
<1>1. OptionShapes
  <2>1. request.methods \in Seq(DOMAIN Rules)
    BY RequestsAssumption DEF OptionInit
  <2>2. 0 \in 0..Len(request.methods)
    BY <2>1, LenProperties
  <2>3. \A S : <<>> \in Seq(S)
    OBVIOUS
  <2> QED
    BY <2>2, <2>3 DEF OptionShapes, OptionInit
<1>2. OptionOrder /\ OptionGroups /\ OptionOffered /\ OptionSorted
  BY DEF OptionInit, OptionOrder, OptionGroups, OptionOffered, MethodsOffered, OptionSorted
<1> QED
  BY <1>1, <1>2 DEF OptionInv

LEMMA SameMethod ==
    ASSUME UNCHANGED <<request, at>>
    PROVE  Impossible' = Impossible
BY DEF Impossible, WarehouseReason, HandoffReason, Rule, Method

LEMMA OptionInvStep ==
    ASSUME OptionInv, [OptionStep]_optionVars
    PROVE  OptionInv'
<1>0. OptionShapes /\ OptionOrder /\ OptionGroups /\ OptionOffered /\ OptionSorted
  BY DEF OptionInv
<1>1. CASE RefuseScope
  <2>1. /\ phase = "scope" /\ phase' = "refused"
        /\ UNCHANGED <<request, at, queue, group, groups, built, offers, answers, ranking>>
    BY <1>1 DEF RefuseScope
  <2>2. OptionShapes'
    BY <1>0, <2>1 DEF OptionShapes
  <2>3. OptionOrder' /\ OptionGroups' /\ OptionOffered' /\ OptionSorted'
    BY <1>0, <2>1 DEF OptionOrder, OptionGroups, OptionOffered, OptionSorted
  <2> QED
    BY <2>2, <2>3 DEF OptionInv
<1>2. CASE FirstMethod
  <2>1. /\ phase = "scope" /\ phase' = "grouping" /\ at' = 1 /\ queue' = ClusterOrder
        /\ UNCHANGED <<request, group, groups, built, remarks, offers, answers, ranking>>
    BY <1>2 DEF FirstMethod
  <2>2. request \in Requests /\ remarks = {} /\ group = <<>> /\ groups = <<>>
    BY <1>0, <2>1 DEF OptionShapes, OptionOrder
  <2>3. queue' \in Seq(ScopeOf(request)) /\ IsInjective(queue') /\ ToSet(queue') = ScopeOf(request)
    BY <2>1, <2>2, ClusterOrderSorts, ScopeFacts
  <2>4. 1 \in DOMAIN request.methods /\ 1 \in 0..Len(request.methods)
    <3>1. request.methods \in Seq(DOMAIN Rules) /\ request.methods # <<>>
      BY <2>2, RequestsAssumption
    <3> QED
      BY <3>1, EmptySeq, LenProperties
  <2>5. InHand(request, 1, queue', <<>>, <<>>, remarks)
    BY <2>2, <2>3, <2>4, NoGroups
  <2>6. OptionShapes'
    BY <1>0, <2>1, <2>3, <2>4 DEF OptionShapes
  <2>7. OptionGroups'
    BY <2>1, <2>2, <2>5 DEF OptionGroups
  <2>8. OptionOrder' /\ OptionOffered' /\ OptionSorted'
    BY <1>0, <2>1 DEF OptionOrder, OptionOffered, OptionSorted
  <2> QED
    BY <2>6, <2>7, <2>8 DEF OptionInv
<1>3. CASE SkipMethod
  <2>1. /\ phase = "grouping" /\ Impossible # Absent /\ NextMethod
        /\ remarks' = remarks \cup {<<Impossible, Method, Absent>>}
        /\ UNCHANGED <<request, group, groups, built, offers, answers, ranking>>
    BY <1>3 DEF SkipMethod, Grouping
  <2>2. group = <<>> /\ groups = <<>>
    BY <1>0, <2>1 DEF OptionGroups
  <2>3. \A s \in remarks' : s \in remarks \/ s[2] = Method
    BY <2>1
  <2>4. /\ at' \in 0..Len(request.methods) /\ queue' \in Seq(ScopeOf(request))
        /\ phase' \in {"grouping", "merge"}
        /\ phase' = "grouping" => InHand(request, at', queue', <<>>, <<>>, remarks')
    BY <1>0, <2>1, <2>3, NextMethodInHand
  <2>5. OptionShapes'
    BY <1>0, <2>1, <2>4 DEF OptionShapes
  <2>6. OptionGroups'
    BY <2>1, <2>2, <2>4 DEF OptionGroups
  <2>7. OptionOrder' /\ OptionOffered' /\ OptionSorted'
    BY <1>0, <2>1, <2>2, <2>4 DEF OptionOrder, OptionOffered, OptionSorted
  <2> QED
    BY <2>5, <2>6, <2>7 DEF OptionInv
<1>4. CASE GroupCluster
  <2>1. /\ phase = "grouping" /\ Impossible = Absent
        /\ UNCHANGED <<request, phase, at, built, offers, answers, ranking>>
    BY <1>4 DEF GroupCluster, Grouping
  <2>2. /\ queue' \in Seq(ScopeOf(request)) /\ group' \in Seq(ScopeOf(request))
        /\ groups' \in Seq(Seq(ScopeOf(request)))
        /\ InHand(request, at, queue', group', groups', remarks')
    BY <1>0, <1>4, GroupClusterKeeps
  <2>3. OptionShapes'
    BY <1>0, <2>1, <2>2 DEF OptionShapes
  <2>4. OptionGroups'
    <3>1. Impossible' = Absent
      BY <2>1, SameMethod
    <3> QED
      BY <2>1, <2>2, <3>1 DEF OptionGroups
  <2>5. OptionOrder' /\ OptionOffered' /\ OptionSorted'
    BY <1>0, <2>1 DEF OptionOrder, OptionOffered, OptionSorted
  <2> QED
    BY <2>3, <2>4, <2>5 DEF OptionInv
<1>5. CASE EndMethod
  <2>1. /\ phase = "grouping" /\ Impossible = Absent /\ NextMethod
        /\ built' = IF MethodCandidates = <<>> THEN built ELSE Append(built, MethodCandidates)
        /\ group' = <<>> /\ groups' = <<>>
        /\ UNCHANGED <<request, remarks, offers, answers, ranking>>
    BY <1>5 DEF EndMethod, Grouping
  <2>2. \A s \in remarks' : s \in remarks \/ s[2] = Method
    BY <2>1
  <2>3. /\ at' \in 0..Len(request.methods) /\ queue' \in Seq(ScopeOf(request))
        /\ phase' \in {"grouping", "merge"}
        /\ phase' = "grouping" => InHand(request, at', queue', <<>>, <<>>, remarks')
    BY <1>0, <2>1, <2>2, NextMethodInHand
  <2>4. built' \in Seq(Seq(CandidatesOf(request)) \ {<<>>})
    <3> DEFINE C == Seq(CandidatesOf(request)) \ {<<>>}
    <3>1. built \in Seq(C)
      BY <1>0 DEF OptionShapes
    <3>2. MethodCandidates # <<>> => MethodCandidates \in C
      BY <1>0, <2>1, MethodCandidatesType
    <3> HIDE DEF C
    <3>3. built' \in Seq(C)
      BY <2>1, <3>1, <3>2
    <3> QED
      BY <3>3 DEF C
  <2>5. OptionShapes'
    BY <1>0, <2>1, <2>3, <2>4 DEF OptionShapes
  <2>6. OptionGroups'
    BY <2>1, <2>3 DEF OptionGroups
  <2>7. offers' = <<>> /\ OptionOffered'
    BY <1>0, <2>1 DEF OptionOrder, OptionOffered, MethodsOffered
  <2>8. OptionOrder' /\ OptionSorted'
    BY <1>0, <2>1, <2>3, <2>7 DEF OptionOrder, OptionSorted
  <2> QED
    BY <2>5, <2>6, <2>7, <2>8 DEF OptionInv
<1>6. CASE Merge
  <2>1. /\ phase = "merge" /\ phase' = "asking"
        /\ UNCHANGED <<request, at, queue, group, groups, built, remarks, answers, ranking>>
    BY <1>6 DEF Merge
  <2>2. offers' \in Seq(CandidatesOf(request)) /\ MethodsOffered(built, offers')
    BY <1>0, <1>6, MergeOffers
  <2>3. offers = <<>> /\ ranking = <<>>
    BY <1>0, <2>1 DEF OptionOrder
  <2>4. Len(answers) <= Len(offers')
    <3>1. Len(answers) <= 0
      BY <1>0, <2>3 DEF OptionShapes
    <3>2. Len(answers) \in Nat
      BY <1>0, LenProperties DEF OptionShapes
    <3>3. Len(offers') \in Nat
      BY <2>2, LenProperties
    <3> QED
      BY <3>1, <3>2, <3>3
  <2>5. <<>> \in Seq(1..Len(offers'))
    OBVIOUS
  <2>6. OptionShapes'
    BY <1>0, <2>1, <2>2, <2>3, <2>4, <2>5 DEF OptionShapes
  <2>7. OptionOrder' /\ OptionGroups' /\ OptionOffered' /\ OptionSorted'
    BY <1>0, <2>1, <2>2 DEF OptionOrder, OptionGroups, OptionOffered, OptionSorted
  <2> QED
    BY <2>6, <2>7 DEF OptionInv
<1>7. CASE ReceiveOffer
  <2>1. /\ phase = "asking" /\ Len(answers) < Len(offers)
        /\ UNCHANGED <<request, phase, at, queue, group, groups, built, remarks, offers, ranking>>
    BY <1>7 DEF ReceiveOffer
  <2>2. PICK a \in Answers(offers[Len(answers) + 1]) : answers' = Append(answers, a)
    BY <1>7 DEF ReceiveOffer
  <2>3. PICK n \in Nat, l \in Nat : n = Len(answers) /\ l = Len(offers) /\ DOMAIN offers = 1..l
    BY <1>0, LenProperties DEF OptionShapes
  <2>4. offers[n + 1] \in CandidatesOf(request)
    BY <1>0, <2>1, <2>3 DEF OptionShapes
  <2>5. a \in AnswersOf(request)
    <3> DEFINE T == ToSet(offers[n + 1].clusters)
    <3>1. offers[n + 1].clusters \in Seq(ScopeOf(request))
      BY <2>4 DEF CandidatesOf
    <3>2. T \subseteq ScopeOf(request)
      BY <3>1, SetOfSequence
    <3>3. \/ \E x \in SUBSET T, t \in BOOLEAN : a = [failed |-> FALSE, no |-> x, yes |-> T \ x, slot |-> t]
          \/ \E y \in {{}, T} : a = [failed |-> TRUE, no |-> {}, yes |-> y, slot |-> FALSE]
      BY <2>2, <2>3 DEF Answers
    <3> HIDE DEF T
    <3>4. CASE \E x \in SUBSET T, t \in BOOLEAN : a = [failed |-> FALSE, no |-> x, yes |-> T \ x, slot |-> t]
      BY <3>2, <3>4 DEF AnswersOf
    <3>5. CASE \E y \in {{}, T} : a = [failed |-> TRUE, no |-> {}, yes |-> y, slot |-> FALSE]
      BY <3>2, <3>5 DEF AnswersOf
    <3> QED
      BY <3>3, <3>4, <3>5
  <2>6. answers' \in Seq(AnswersOf(request)) /\ Len(answers') = n + 1
    BY <1>0, <2>2, <2>3, <2>5, AppendProperties DEF OptionShapes
  <2>7. OptionShapes'
    <3>1. Len(answers') <= Len(offers)
      BY <2>1, <2>3, <2>6
    <3> QED
      BY <1>0, <2>1, <2>6, <3>1 DEF OptionShapes
  <2>8. OptionOrder' /\ OptionGroups' /\ OptionOffered' /\ OptionSorted'
    BY <1>0, <2>1 DEF OptionOrder, OptionGroups, OptionOffered, OptionSorted
  <2> QED
    BY <2>7, <2>8 DEF OptionInv
<1>8. CASE OptionRank
  <2>1. /\ phase = "asking" /\ phase' = "ranked" /\ ranking' = Ranked
        /\ UNCHANGED <<request, at, queue, group, groups, built, remarks, offers, answers>>
    BY <1>8 DEF OptionRank
  <2>2. Ranked \in Seq(1..Len(offers)) /\ SortedOf(request, offers, answers, Ranked)
    BY <1>0, RankedIsSorted
  <2>3. OptionShapes'
    BY <1>0, <2>1, <2>2 DEF OptionShapes
  <2>4. OptionOrder' /\ OptionGroups' /\ OptionOffered' /\ OptionSorted'
    BY <1>0, <2>1, <2>2 DEF OptionOrder, OptionGroups, OptionOffered, OptionSorted
  <2> QED
    BY <2>3, <2>4 DEF OptionInv
<1>9. CASE UNCHANGED optionVars
  <2>1. UNCHANGED <<request, phase, at, queue, group, groups, built, remarks, offers, answers, ranking>>
    BY <1>9 DEF optionVars
  <2>2. OptionShapes'
    BY <1>0, <2>1 DEF OptionShapes
  <2>3. OptionOrder' /\ OptionGroups' /\ OptionOffered' /\ OptionSorted'
    BY <1>0, <2>1, SameMethod DEF OptionOrder, OptionGroups, OptionOffered, OptionSorted
  <2> QED
    BY <2>2, <2>3 DEF OptionInv
<1> QED
  BY <1>1, <1>2, <1>3, <1>4, <1>5, <1>6, <1>7, <1>8, <1>9 DEF OptionStep

LEMMA OptionInvHolds == OptionSpec => []OptionInv
<1>1. OptionInit => OptionInv
  BY OptionInvInit
<1>2. OptionInv /\ [OptionStep]_optionVars => OptionInv'
  BY OptionInvStep
<1> QED
  BY <1>1, <1>2, PTL DEF OptionSpec

(* Every variable of the shipment options keeps its type: the groups hold
   clusters of the scope, what is offered uses a method that has rules, a
   warehouse that is in use and a handoff point the seller named, and the
   ranking is of what was offered (candidates.py, ranking.py).             *)
THEOREM OptionTypesCorrect == OptionSpec => []OptionTypeOK
<1>1. OptionInv => OptionTypeOK
  <2> SUFFICES ASSUME OptionInv
               PROVE  OptionTypeOK
    OBVIOUS
  <2>1. OptionShapes /\ Scope = ScopeOf(request)
    BY ScopeFacts DEF OptionInv, OptionShapes
  <2>2. Candidates = CandidatesOf(request)
    BY <2>1 DEF Candidates, CandidatesOf
  <2>3. \A i \in DOMAIN groups : groups[i] \in Seq(ScopeOf(request))
    BY <2>1 DEF OptionShapes
  <2>4. DOMAIN offers = 1..Len(offers)
    BY <2>1, LenProperties DEF OptionShapes
  <2> QED
    BY <2>1, <2>2, <2>3, <2>4 DEF OptionTypeOK, OptionShapes
<1> QED
  BY <1>1, OptionInvHolds, PTL

(* From the plan to the ranking nothing is lost, starved or misplaced. *)
THEOREM OptionsAreSound == OptionSpec => []OptionsSound
<1>1. OptionInv => OptionsSound
  <2> SUFFICES ASSUME OptionInv
               PROVE  OptionsSound
    OBVIOUS
  <2>1. GroupingComplete
    BY GroupingIsComplete DEF OptionInv
  <2>2. EveryMethodOffered
    BY DEF OptionInv, OptionOffered, MethodsOffered, EveryMethodOffered
  <2>3. BestFirst
    BY RankingOfState DEF OptionInv, OptionSorted
  <2> QED
    BY <2>1, <2>2, <2>3 DEF OptionsSound
<1> QED
  BY <1>1, OptionInvHolds, PTL
=============================================================================
