-------------------------- MODULE StockoutEpisodes --------------------------
(***************************************************************************)
(* When a cluster runs out of stock, its customers are served from other   *)
(* clusters, and the history of routes no longer shows where goods would   *)
(* come from in normal times.  analytics/stockout_episodes.py finds such   *)
(* episodes day by day, stockout.py and distortion.py week by week, and    *)
(* clean_routes.py takes the affected days out of the history.             *)
(*                                                                         *)
(* An order here is one ordered unit of one SKU.  Day 1 is a Monday; the   *)
(* analysis of a day sees the orders accepted up to that day.  Shares are  *)
(* compared by cross-multiplication, in percent.                           *)
(***************************************************************************)
EXTENDS Integers, FiniteSets, FiniteSetsExt

CONSTANTS
    Regions,        \* origins and destinations
    Histories,      \* sets of orders [day, from, to, life, unit]; day is 0 when
                    \* the order has no readable date, life is "fulfilled",
                    \* "in_progress" or "cancelled"
    FirstAnalysis,  \* bound: the first day that is analysed
    LastAnalysis,   \* bound: and the last
    Window,         \* days of the rolling window
    MinFulfilled,   \* units a window must have delivered
    MinWeekly,      \* units a week must have delivered
    MinAffected     \* days an episode must have contaminated

PriorLocal == 60    \* percent; the defaults of both Thresholds classes
LocalDrop == 30
Rise == 20
Retention == 60

ASSUME RegionsFinite == IsFiniteSet(Regions)
ASSUME HistoriesAssumption == \A h \in Histories : IsFiniteSet(h)
ASSUME WindowAssumption == Window \in Nat \ {0} /\ MinAffected \in Nat \ {0}
ASSUME AnalysisAssumption == FirstAnalysis \in Nat \ {0} /\ LastAnalysis \in Nat
                             /\ FirstAnalysis <= LastAnalysis

VARIABLES
    orders,     \* all orders, later ones included
    asOf,       \* day of the analysis
    episodes,   \* stockout episodes: [place, affected, scope, donors]
    signals,    \* weekly stockout signals: [place, week, donors]
    distorted,  \* distorted[o]: places o has stood in for
    clean       \* units per route after cleaning

stockVars == <<orders, asOf, episodes, signals, distorted, clean>>

Routes == Regions \X Regions
WeekOf(d) == (d - 1) \div 7
DaysOfWeek(w) == (7 * w + 1)..(7 * w + 7)
LastSunday == 7 * WeekOf(asOf)                       \* end of the completed weeks

-----------------------------------------------------------------------------
(* The daily facts, on a set D of days.  Cancelled orders are no demand and *)
(* only fulfilled ones show a route.                                        *)

Demand(x) == x.life # "cancelled"
Fulfilled(x) == x.life = "fulfilled"

WantedIn(t, D) == Cardinality({x \in orders : x.day \in D /\ x.to = t /\ Demand(x)})
FulfilledIn(t, D) == Cardinality({x \in orders : x.day \in D /\ x.to = t /\ Fulfilled(x)})
DeliveredIn(o, t, D) ==
    Cardinality({x \in orders : x.day \in D /\ x.from = o /\ x.to = t /\ Fulfilled(x)})

(* The series of a destination starts with its first dated order and ends   *)
(* with the analysis; orders dated later are left out.                      *)
SeriesStart(t) ==
    Min({x.day : x \in {y \in orders : y.to = t /\ Demand(y) /\ y.day \in 1..asOf}}
        \cup {asOf + 1})

-----------------------------------------------------------------------------
(* A shift of supply from the days B to the days O.                         *)

(* The share of o in the deliveries to t has risen by Rise.                 *)
Risen(o, t, B, O) ==
    LET b == FulfilledIn(t, B)
        n == FulfilledIn(t, O)
    IN 100 * (DeliveredIn(o, t, O) * b - DeliveredIn(o, t, B) * n) >= Rise * b * n

Donors(t, B, O) == {o \in Regions \ {t} : Risen(o, t, B, O)}

Shifted(t, B, O, least) ==
    LET b == FulfilledIn(t, B)
        n == FulfilledIn(t, O)
        bLocal == DeliveredIn(t, t, B)
        nLocal == DeliveredIn(t, t, O)
    IN /\ b >= least /\ n >= least
       /\ 100 * bLocal >= PriorLocal * b
       /\ 100 * (bLocal * n - nLocal * b) >= LocalDrop * b * n
       /\ WantedIn(t, B) > 0
       /\ 100 * WantedIn(t, O) >= Retention * WantedIn(t, B)
       /\ Donors(t, B, O) # {}

(* A day of O looks like the shortage itself.                               *)
Contaminated(t, B, d) ==
    LET b == FulfilledIn(t, B)
        n == FulfilledIn(t, {d})
    IN /\ n > 0
       /\ 100 * DeliveredIn(t, t, {d}) * b <= (100 * DeliveredIn(t, t, B) - LocalDrop * b) * n
       /\ \E o \in Regions \ {t} : Risen(o, t, B, {d})

-----------------------------------------------------------------------------
(* Episodes: rolling windows, merged while they touch.                      *)

\* Wrong on purpose: the running week belongs to the completed history.
ScopeOfDay(end) == IF end <= asOf THEN "historical" ELSE "operational"
EpisodeScope(end) == IF end <= LastSunday THEN "historical" ELSE "operational"

EpisodeCandidate(t, end) ==
    LET B == (end - 2 * Window + 1)..(end - Window)
        O == (end - Window + 1)..end
    IN [ends |-> end,
        affected |-> IF Shifted(t, B, O, MinFulfilled)
                     THEN {d \in O : Contaminated(t, B, d)} ELSE {},
        donors |-> Donors(t, B, O)]

Ends(t) == (SeriesStart(t) + 2 * Window - 1)..asOf
EpisodeCandidates(t, scope) ==
    {c \in {EpisodeCandidate(t, end) : end \in {e \in Ends(t) : EpisodeScope(e) = scope}} :
        Cardinality(c.affected) >= MinAffected}

(* The order in which the candidates are merged.                            *)
Ahead(c, d) == \/ Min(c.affected) < Min(d.affected)
               \/ Min(c.affected) = Min(d.affected) /\ c.ends < d.ends
AffectedBy(group) == UNION {c.affected : c \in group}

(* c starts an episode unless it touches what came before it.               *)
\* Wrong on purpose: episodes on adjacent days stay apart.
OpensUnlessOverlap(c, C) ==
    \A d \in {x \in C : Ahead(x, c)} : Max(d.affected) < Min(c.affected)
Opens(c, C) ==
    \A d \in {x \in C : Ahead(x, c)} : Max(d.affected) + 1 < Min(c.affected)

GroupOf(c, C) ==
    {c} \cup {d \in C : /\ Ahead(c, d)
                       /\ \A e \in C : Opens(e, C) /\ Ahead(c, e) => Ahead(d, e)}
Groups(C) == {GroupOf(c, C) : c \in {x \in C : Opens(x, C)}}

EpisodesOf(t, scope, C) ==
    {[place |-> t, scope |-> scope, affected |-> AffectedBy(g),
      donors |-> UNION {c.donors : c \in g}] : g \in Groups(C)}
Episodes ==
    UNION {UNION {EpisodesOf(t, s, C) : C \in {EpisodeCandidates(t, s)}} :
           t \in Regions, s \in {"historical", "operational"}}

-----------------------------------------------------------------------------
(* Weekly signals, and the donors whose recommendation they distort.        *)

WeeksShifted(t) ==
    {w \in 1..(WeekOf(asOf) - 1) : Shifted(t, DaysOfWeek(w - 1), DaysOfWeek(w), MinWeekly)}
Signals ==
    UNION {{[place |-> t, week |-> w, donors |-> Donors(t, DaysOfWeek(w - 1), DaysOfWeek(w))] :
                w \in WeeksShifted(t)} : t \in Regions}

Distorted ==
    [o \in Regions |->
        {s.place : s \in {x \in Signals : /\ o \in x.donors
                                          /\ DeliveredIn(o, x.place, DaysOfWeek(x.week)) > 0}}]

-----------------------------------------------------------------------------
(* Cleaning: affected days of historical episodes leave the history.        *)

Cleaned(E, t) == UNION {e.affected : e \in {x \in E : x.place = t /\ x.scope = "historical"}}

Observed == [r \in Routes |-> DeliveredIn(r[1], r[2], 1..LastSunday)]
CleanRoutes(E) ==
    [r \in Routes |-> DeliveredIn(r[1], r[2], (1..LastSunday) \ Cleaned(E, r[2]))]

-----------------------------------------------------------------------------
StockInit ==
    /\ orders \in Histories
    /\ asOf = 0                               \* nothing analysed yet
    /\ episodes = {} /\ signals = {}
    /\ distorted = [o \in Regions |-> {}]
    /\ clean = [r \in Routes |-> 0]

(* The first analysis, then that of every day that follows.                 *)
AnalyseNextDay ==
    /\ asOf < LastAnalysis
    /\ asOf' = IF asOf = 0 THEN FirstAnalysis ELSE asOf + 1
    /\ UNCHANGED orders
    /\ episodes' = Episodes'
    /\ signals' = Signals'
    /\ distorted' = Distorted'
    /\ clean' = CleanRoutes(episodes)'

StockSpec == StockInit /\ [][AnalyseNextDay]_stockVars

-----------------------------------------------------------------------------
Historical == {e \in episodes : e.scope = "historical"}

(* Episodes are whole: two episodes of a destination and scope neither      *)
(* overlap nor touch, so that no day is reported, or priced, twice; and the *)
(* days of an episode were affected at least as long as the thresholds ask. *)
EpisodesApart ==
    /\ \A e, f \in episodes :
          e # f /\ e.place = f.place /\ e.scope = f.scope =>
              \/ Max(e.affected) + 1 < Min(f.affected)
              \/ Max(f.affected) + 1 < Min(e.affected)
    /\ \A e \in episodes : Cardinality(e.affected) >= MinAffected

(* Type invariant. *)
StockTypeOK ==
    /\ asOf \in 0..LastAnalysis
    /\ \A e \in episodes : /\ e.place \in Regions /\ e.donors \subseteq Regions \ {e.place}
                           /\ e.affected \subseteq 1..asOf
                           /\ e.scope \in {"historical", "operational"}
    /\ \A s \in signals : s.place \in Regions /\ s.donors \subseteq Regions
    /\ distorted \in [Regions -> SUBSET Regions]
    /\ clean \in [Routes -> Nat]
    /\ EpisodesApart

(* The plan of a week does not depend on the day of the week it is computed *)
(* on: nothing the running week brings changes the historical episodes, the *)
(* signals or the clean routes.  And a day once cleaned stays cleaned.      *)
HistoryStable ==
    [][/\ asOf > 0 /\ WeekOf(asOf') = WeekOf(asOf) =>
              /\ Historical' = Historical
              /\ <<signals, distorted>>' = <<signals, distorted>>
              /\ clean' = clean
       /\ \A t \in Regions : Cleaned(episodes, t) \subseteq Cleaned(episodes', t)]_stockVars
=============================================================================
