--------------------------- MODULE ShipmentOptions ---------------------------
(***************************************************************************)
(* From the working plan to the ranked shipment options: candidates.py     *)
(* groups the selected clusters per delivery method within the method's    *)
(* limits and a budget of candidates, Ozon answers for each candidate, and *)
(* orchestration.py and ranking.py put the answers in order.               *)
(*                                                                         *)
(* The lines of one cluster enter and leave every step together, so a      *)
(* cluster stands for its lines, with their total quantity and volume.     *)
(* Candidate identifiers are digests: their order is arbitrary, and chosen *)
(* when the candidates are final.                                          *)
(***************************************************************************)
EXTENDS Integers, Sequences, FiniteSets, SequencesExt, Functions, Sums

CONSTANTS
    Requests,        \* shipment inputs and scenarios, see below
    Rules,           \* Rules[m] = [clusters, volume, crossdock] of METHOD_RULES
    MaxCandidates,   \* DEFAULT_MAX_CANDIDATES
    Absent           \* Python's None

ASSUME OptionsAssumption ==
    /\ MaxCandidates \in Nat \ {0} /\ Absent \notin Int
    /\ Absent \notin {"SELLER_WAREHOUSE_INVALID", "SELLER_WAREHOUSE_UNAVAILABLE",
                      "SELLER_WAREHOUSE_REQUIRED", "HANDOFF_POINT_REQUIRED",
                      "HANDOFF_POINT_UNRESOLVED"}

(* What the constructors of the contracts and of METHOD_RULES demand; a     *)
(* cluster's number is the place of its identifier among all.               *)
ASSUME RequestsAssumption ==
    /\ \A m \in DOMAIN Rules :
           /\ Rules[m].clusters \in Nat \ {0} /\ Rules[m].volume \in Nat \cup {Absent}
           /\ Rules[m].crossdock \in BOOLEAN
    /\ \A r \in Requests :
           /\ IsFiniteSet(r.selected) /\ DOMAIN r.line \subseteq Int
           /\ \A c \in DOMAIN r.line :
                  {r.line[c].qty, r.line[c].rank, r.line[c].volume} \subseteq Int \cup {Absent}
           /\ r.methods \in Seq(DOMAIN Rules) /\ r.methods # <<>> /\ IsInjective(r.methods)
           /\ r.preferred \in Nat \ {0} /\ r.max \in Nat \ {0}
           /\ r.points \in Seq(Int) /\ IsFiniteSet(r.active) /\ Absent \notin r.active

VARIABLES
    request,    \* [line, selected, methods, preferred, max, warehouse, active,
                \*  points, known]; line[c] = [qty, rank, volume, zone, blocked]
    phase,      \* "scope", "grouping", "merge", "asking", "ranked", "refused"
    at,         \* index of the method being worked on
    queue,      \* clusters of the method that are not grouped yet
    group,      \* the group that is being filled
    groups,     \* the groups of the method that are complete
    built,      \* candidates of each method finished so far
    remarks,    \* diagnostics <<code, method, cluster>>
    offers,     \* the final candidates, in the order of their identifiers
    answers,    \* answers[i]: Ozon's validation of offers[i]
    ranking     \* indices of the rankable answers, best first

optionVars == <<request, phase, at, queue, group, groups, built, remarks, offers, answers,
                ranking>>

Line(c) == request.line[c]
Volume(cs) == Total([c \in ToSet(cs) |-> Line(c).volume], ToSet(cs))
Position(s, e) == IF \E i \in DOMAIN s : s[i] = e
                  THEN CHOOSE i \in DOMAIN s : s[i] = e ELSE Len(s) + 1

(* A set in a total order of its elements: the n-th one has n - 1 before it. *)
Arranged(S, R) ==
    [n \in 1..Cardinality(S) |-> CHOOSE e \in S : Cardinality({d \in S : <<d, e>> \in R}) = n - 1]
InOrder(S, before(_, _)) == Arranged(S, {p \in S \X S : before(p[1], p[2])})

(* select_shipment_scope: positive working rows of the selected clusters.   *)
Scope == {c \in request.selected \cap DOMAIN request.line :
              Line(c).qty # Absent /\ Line(c).qty > 0}
ScopeRefused == Scope = {} \/ \E c \in Scope : Line(c).blocked

(* _cluster_order: by priority of the allocation, clusters without one last *)
RankLess(a, b) == IF a = b THEN FALSE ELSE a # Absent /\ (b = Absent \/ a < b)
ClusterOrder == InOrder(Scope, LAMBDA c, d :
                    \/ RankLess(Line(c).rank, Line(d).rank)
                    \/ Line(c).rank = Line(d).rank /\ c < d)

-----------------------------------------------------------------------------
Method == request.methods[at]
Rule == Rules[Method]

(* resolve_seller_warehouse and resolve_handoff_points, for cross-docking.  *)
Warehouse == IF ~Rule.crossdock THEN Absent
             ELSE IF request.warehouse # Absent THEN request.warehouse
             ELSE IF Cardinality(request.active) = 1
                  THEN CHOOSE w \in request.active : TRUE ELSE Absent
WarehouseReason ==
    IF ~Rule.crossdock THEN Absent
    ELSE IF request.warehouse # Absent
         THEN IF request.warehouse \in request.active THEN Absent
              ELSE "SELLER_WAREHOUSE_INVALID"
    ELSE IF request.active = {} THEN "SELLER_WAREHOUSE_UNAVAILABLE"
    ELSE IF Cardinality(request.active) > 1 THEN "SELLER_WAREHOUSE_REQUIRED" ELSE Absent
HandoffReason ==
    IF ~Rule.crossdock THEN Absent
    ELSE IF request.points = <<>> THEN "HANDOFF_POINT_REQUIRED"
    ELSE IF ToSet(request.points) \subseteq request.known THEN Absent
    ELSE "HANDOFF_POINT_UNRESOLVED"
Impossible == IF WarehouseReason # Absent THEN WarehouseReason ELSE HandoffReason
Destinations == IF Rule.crossdock THEN request.points ELSE <<Absent>>

(* placement_reason and the volume check of a cluster.                      *)
ClusterReasons(c) ==
    (IF Line(c).zone = "unknown" THEN {"PLACEMENT_ZONE_INCOMPLETE"} ELSE {})
    \cup (IF Line(c).zone = "oversize" /\ Method = "pvz"
          THEN {"PLACEMENT_ZONE_UNSUPPORTED"} ELSE {})
    \cup (IF Line(c).volume = Absent THEN {"MISSING_UNIT_VOLUME"} ELSE {})

LeastOf(a, b) == IF a < b THEN a ELSE b
GroupSize == LeastOf(request.preferred, LeastOf(request.max, Rule.clusters))
OverVolume(v) == Rule.volume # Absent /\ v > Rule.volume

-----------------------------------------------------------------------------
OptionInit ==
    /\ request \in Requests
    /\ phase = "scope" /\ at = 0
    /\ queue = <<>> /\ group = <<>> /\ groups = <<>>
    /\ built = <<>> /\ remarks = {} /\ offers = <<>> /\ answers = <<>>
    /\ ranking = <<>>

(* An empty scope ends the build; a blocked row ends it with an error.      *)
RefuseScope ==
    /\ phase = "scope" /\ ScopeRefused
    /\ phase' = "refused"
    /\ remarks' = {<<IF Scope = {} THEN "EMPTY_SHIPMENT_SCOPE"
                     ELSE "WORKING_PLAN_SCOPE_BLOCKED", Absent, Absent>>}
    /\ UNCHANGED <<request, at, queue, group, groups, built, offers, answers, ranking>>

FirstMethod ==
    /\ phase = "scope" /\ ~ScopeRefused
    /\ phase' = "grouping" /\ at' = 1 /\ queue' = ClusterOrder
    /\ UNCHANGED <<request, group, groups, built, remarks, offers, answers, ranking>>

Grouping == phase = "grouping"
NextMethod ==
    IF at < Len(request.methods)
    THEN at' = at + 1 /\ queue' = ClusterOrder /\ UNCHANGED phase
    ELSE phase' = "merge" /\ queue' = <<>> /\ UNCHANGED at

(* A method without its warehouse or handoff points is skipped.             *)
SkipMethod ==
    /\ Grouping /\ Impossible # Absent
    /\ remarks' = remarks \cup {<<Impossible, Method, Absent>>}
    /\ NextMethod
    /\ UNCHANGED <<request, group, groups, built, offers, answers, ranking>>

(* One cluster of the method: excluded with its reasons, blocked for its    *)
(* volume (which also closes the current group), or added to a group.       *)
Closed == IF group = <<>> THEN groups ELSE Append(groups, group)
Full(c) == group # <<>> /\ (Len(group) >= GroupSize
                            \/ OverVolume(Volume(group) + Line(c).volume))
(* Wrong on purpose: the group in progress is lost at an over-limit cluster *)
PlacedLossy(c) ==
    IF ClusterReasons(c) # {} THEN
        [open |-> group, done |-> groups, said |-> ClusterReasons(c)]
    ELSE IF OverVolume(Line(c).volume) THEN
        [open |-> <<>>, done |-> groups, said |-> {"PVZ_PRELIMINARY_VOLUME_LIMIT"}]
    ELSE IF Full(c) THEN [open |-> <<c>>, done |-> Closed, said |-> {}]
    ELSE [open |-> Append(group, c), done |-> groups, said |-> {}]

Placed(c) ==
    IF ClusterReasons(c) # {} THEN
        [open |-> group, done |-> groups, said |-> ClusterReasons(c)]
    ELSE IF OverVolume(Line(c).volume) THEN
        [open |-> <<>>, done |-> Closed, said |-> {"PVZ_PRELIMINARY_VOLUME_LIMIT"}]
    ELSE IF Full(c) THEN [open |-> <<c>>, done |-> Closed, said |-> {}]
    ELSE [open |-> Append(group, c), done |-> groups, said |-> {}]

GroupCluster ==
    /\ Grouping /\ Impossible = Absent /\ queue # <<>>
    /\ LET c == Head(queue)
           p == Placed(c)
       IN /\ group' = p.open
          /\ groups' = p.done
          /\ remarks' = remarks \cup {<<r, Method, c>> : r \in p.said}
    /\ queue' = Tail(queue)
    /\ UNCHANGED <<request, phase, at, built, offers, answers, ranking>>

(* The candidates of the method: every destination with every group, up to  *)
(* the budget; then the next method.                                        *)
MethodCandidates ==
    LET per == Len(Closed)
        n == LeastOf(MaxCandidates, Len(Destinations) * per)
    IN [i \in 1..n |-> [method |-> Method, warehouse |-> Warehouse,
                        point |-> Destinations[((i - 1) \div per) + 1],
                        clusters |-> Closed[((i - 1) % per) + 1]]]

EndMethod ==
    /\ Grouping /\ Impossible = Absent /\ queue = <<>>
    /\ built' = IF MethodCandidates = <<>> THEN built ELSE Append(built, MethodCandidates)
    /\ group' = <<>> /\ groups' = <<>>
    /\ NextMethod
    /\ UNCHANGED <<request, remarks, offers, answers, ranking>>

Upto(n, s) == SubSeq(s, 1, LeastOf(n, Len(s)))

(* One slot for every method first, the rest of the budget in their order.  *)
Merged ==
    LET firsts == Upto(MaxCandidates, [i \in DOMAIN built |-> Head(built[i])])
        others == FlattenSeq([i \in DOMAIN built |-> Tail(built[i])])
    IN firsts \o Upto(MaxCandidates - Len(firsts), others)

Merge ==
    /\ phase = "merge"
    /\ phase' = "asking"
    /\ \E order \in {p \in [DOMAIN Merged -> DOMAIN Merged] : IsInjective(p)} :
           offers' = [i \in DOMAIN Merged |-> Merged[order[i]]]
    /\ UNCHANGED <<request, at, queue, group, groups, built, remarks, answers, ranking>>

-----------------------------------------------------------------------------
(* Ozon's answer for a candidate.  Of a draft that succeeded, the clusters  *)
(* that are not rejected are accepted; a check that failed before its time  *)
(* slots were read may carry them too, but is not rankable.                 *)
Answers(o) ==
    {[failed |-> FALSE, no |-> n, yes |-> ToSet(o.clusters) \ n, slot |-> t] :
        n \in SUBSET ToSet(o.clusters), t \in BOOLEAN}
    \cup {[failed |-> TRUE, no |-> {}, yes |-> y, slot |-> FALSE] :
        y \in {{}, ToSet(o.clusters)}}

ReceiveOffer ==
    /\ phase = "asking" /\ Len(answers) < Len(offers)
    /\ \E a \in Answers(offers[Len(answers) + 1]) :
           /\ a.yes = {} => ~a.slot
           /\ answers' = Append(answers, a)
    /\ UNCHANGED <<request, phase, at, queue, group, groups, built, remarks, offers,
                   ranking>>

(* rank_outcomes: buckets of operationally equal options, best first; in a  *)
(* bucket the identifiers decide, and the user's order of the handoff       *)
(* points rearranges the options that have one among their own positions.   *)
Rankable == {i \in DOMAIN answers : ~answers[i].failed /\ answers[i].yes # {}}
Units(cs) == Total([c \in cs |-> Line(c).qty], cs)
RankKey(i) == <<IF answers[i].slot THEN 0 ELSE 1, 0 - Cardinality(answers[i].yes),
                0 - Units(answers[i].yes), Units(answers[i].no)>>
OptionBefore(k, l) == \E n \in DOMAIN k : k[n] < l[n] /\ \A o \in 1..(n - 1) : k[o] = l[o]

Preference(i) == Position(request.points, offers[i].point)
Preferred(i, j) == \/ Preference(i) < Preference(j)
                   \/ Preference(i) = Preference(j) /\ i < j
ByIdentifier(i, j) == i < j

InBucket(k) ==
    LET baseline == InOrder({i \in Rankable : RankKey(i) = k}, ByIdentifier)
        seats == InOrder({p \in DOMAIN baseline : offers[baseline[p]].point # Absent},
                              ByIdentifier)
        guests == InOrder({baseline[p] : p \in ToSet(seats)}, Preferred)
    IN [p \in DOMAIN baseline |-> IF p \in ToSet(seats)
                                  THEN guests[Position(seats, p)] ELSE baseline[p]]

Ranked ==
    LET keys == InOrder({RankKey(i) : i \in Rankable}, OptionBefore)
    IN FlattenSeq([n \in DOMAIN keys |-> InBucket(keys[n])])

OptionRank ==
    /\ phase = "asking" /\ Len(answers) = Len(offers)
    /\ phase' = "ranked"
    /\ ranking' = Ranked
    /\ UNCHANGED <<request, at, queue, group, groups, built, remarks, offers, answers>>

OptionStep == \/ RefuseScope \/ FirstMethod \/ SkipMethod \/ GroupCluster
              \/ EndMethod \/ Merge \/ ReceiveOffer \/ OptionRank
OptionSpec == OptionInit /\ [][OptionStep]_optionVars

-----------------------------------------------------------------------------
Candidates == [method : DOMAIN Rules, warehouse : request.active \cup {Absent},
               point : ToSet(request.points) \cup {Absent}, clusters : Seq(Scope)]

(* Type invariant of the shipment options.                                  *)
OptionTypeOK ==
    /\ request \in Requests
    /\ phase \in {"scope", "refused", "grouping", "merge", "asking", "ranked"}
    /\ at \in 0..Len(request.methods)
    /\ queue \in Seq(Scope) /\ group \in Seq(Scope)
    /\ \A i \in DOMAIN groups : groups[i] \in Seq(Scope)
    /\ offers \in Seq(Candidates)
    /\ ranking \in Seq(DOMAIN offers)

(* Grouping loses and repeats nothing: once all clusters of a method are    *)
(* looked at, each one of the scope is in exactly one group of the method,  *)
(* or a diagnostic says why not (never both), and every group keeps the     *)
(* method's limits.  The groups go into the candidates in the same step.    *)
GroupingComplete ==
    Grouping /\ Impossible = Absent /\ queue = <<>> =>
        /\ \A c \in Scope :
               Cardinality({i \in DOMAIN Closed : c \in ToSet(Closed[i])})
               + (IF \E r \in remarks : r[2] = Method /\ r[3] = c THEN 1 ELSE 0) = 1
        /\ \A i \in DOMAIN Closed :
               /\ Len(Closed[i]) \in 1..GroupSize
               /\ ~OverVolume(Volume(Closed[i]))

(* The budget is shared: no more candidates than the limit, and as long as  *)
(* there is room for all methods that can be used, each has a candidate     *)
(* that is put to Ozon, however many groups the earlier methods have.       *)
EveryMethodOffered ==
    offers # <<>> =>
        /\ Len(offers) <= MaxCandidates
        /\ Len(built) <= MaxCandidates =>
               \A b \in ToSet(built) : \E o \in ToSet(offers) : o.method = b[1].method

(* What the seller reads first: every rankable answer appears once, none    *)
(* stands below an answer that is worse for him, and among equal ones that  *)
(* need a handoff point the order is the one in which he named the points;  *)
(* a direct option keeps the place its identifier gives it.                 *)
BestFirst ==
    phase = "ranked" =>
        /\ Len(ranking) = Cardinality(Rankable) /\ ToSet(ranking) = Rankable
        /\ \A p, q \in DOMAIN ranking :
               LET i == ranking[p]
                   j == ranking[q]
               IN p < q => /\ ~OptionBefore(RankKey(j), RankKey(i))
                           /\ RankKey(i) = RankKey(j)
                              /\ Absent \notin {offers[i].point, offers[j].point}
                                  => Preference(i) <= Preference(j)
        /\ \A i \in Rankable :
               offers[i].point = Absent =>
                   LET equals == {j \in Rankable : RankKey(j) = RankKey(i)}
                   IN Cardinality({j \in equals : j < i})
                      = Cardinality({j \in equals : Position(ranking, j) < Position(ranking, i)})

(* From the plan to the ranking nothing is lost, starved or misplaced.      *)
OptionsSound == GroupingComplete /\ EveryMethodOffered /\ BestFirst
=============================================================================
