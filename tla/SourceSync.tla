------------------------------ MODULE SourceSync ------------------------------
(***************************************************************************)
(* refresh_ozon_source: how one account's source snapshot is read from     *)
(* Ozon and merged with the snapshot before it.  A full refresh reads      *)
(* everything; a smart one reads, per order channel, only the tail of the  *)
(* history, and takes rarely changing evidence from its base while that is *)
(* fresh.  A candidate replaces its base unless it loses evidence.         *)
(*                                                                         *)
(* Time is counted in business days; weeks start at the multiples of Week. *)
(***************************************************************************)
EXTENDS Integers, FiniteSets, FiniteSetsExt

CONSTANTS
    Postings,       \* records [channel, day]: postings Ozon has, now or later
    InitialStates,  \* [Postings -> States]
    NoSource,       \* no snapshot, no refresh
    Week,           \* 7 in the code
    Overlap,        \* ORDER_REFRESH_OVERLAP_DAYS, 28
    NeedWeeks,      \* 8: usable completed weeks that demand asks for
    InitialWeeks, BackfillWeeks, MaxWeeks,   \* 12, 4, 52
    TTL,            \* days that evidence of an endpoint may be reused
    FirstDay, LastDay,   \* bounds of the calendar
    MaxCatalog,     \* bound: changes of the seller's catalogue
    MaxFaults       \* bound: endpoints that fail or answer with gaps

VARIABLES
    today,      \* source_business_date(now)
    postings,   \* Ozon's postings: [Postings -> States]
    catalog,    \* Ozon's product catalogue, by version
    source,     \* the newest snapshot
    sync,       \* the refresh that runs, or NoSource
    faults      \* bound counter

syncVars == <<today, postings, catalog, source, sync, faults>>

-----------------------------------------------------------------------------
Channels == {"fbo", "fbs"}
\* "open" postings are in progress; "fulfilled" ones count as demand; an
\* "unusable" one is quarantined: no cluster, an unknown status or no date.
States == {"absent", "open", "fulfilled", "unusable"}
Others == {"clusters", "seller_warehouses", "products", "product_prices",
           "product_attributes", "fbo_stock", "seller_stock", "inbound",
           "placement_zones"}
Endpoints == Channels \cup Others

ASSUME SyncAssumption ==
    /\ Postings \subseteq [channel : Channels, day : Nat]
    /\ InitialStates \in [Postings -> States]
    /\ {Week, InitialWeeks, BackfillWeeks} \subseteq Nat \ {0}
    /\ {Overlap, NeedWeeks, MaxWeeks, FirstDay, LastDay, MaxCatalog, MaxFaults} \subseteq Nat
    /\ InitialWeeks <= MaxWeeks /\ MaxWeeks * Week <= FirstDay
    /\ Overlap <= InitialWeeks * Week
    /\ FirstDay <= LastDay /\ MaxCatalog > 0
    /\ TTL \in [{"clusters", "seller_warehouses", "product_attributes",
                 "placement_zones"} -> Nat]

\* EndpointEvidence.  quality: 0 incomplete, 1 complete with rejected records,
\* 2 complete.  at: the day it was fetched.  legacy: order_prices_version is
\* behind.  catalog: the catalogue whose SKUs were asked for.
SyncEvidence(quality, legacy, version) ==
    [quality |-> quality, at |-> today, legacy |-> legacy, catalog |-> version]
NoEvidence == [name \in {} |-> {}]
Complete(evidence) == evidence.quality > 0

Row(p) == [posting |-> p, state |-> postings[p]]
WeekStart(day) == Week * (day \div Week)
-----------------------------------------------------------------------------
(* history.py                                                              *)

\* usable_completed_weeks
UsableWeeks(rows, asOf) ==
    {w \in {WeekStart(r.posting.day) : r \in {r \in rows : r.state = "fulfilled"}} :
         w < WeekStart(asOf)}

\* _smart_history_window: what next_backfill takes the present coverage for.
CoveredWeeks(asOf, from) ==
    Max({InitialWeeks, Min({MaxWeeks, (WeekStart(asOf) - from) \div Week})})

\* next_backfill
MoreWeeks(weeks) == Min({weeks + BackfillWeeks, MaxWeeks})
-----------------------------------------------------------------------------
(* fetch_postings for one channel, from a day to the day of the refresh.   *)
(* A fault is an error of the client, a repeated cursor, or rows whose     *)
(* buyer prices stay pending beyond the overlap.                           *)

InWindow(channel, from, to) ==
    {p \in Postings : p.channel = channel /\ p.day \in from..to}
Usable(from, to) ==
    {Row(p) : p \in {p \in Postings : p.day \in from..to
                                      /\ postings[p] \in {"open", "fulfilled"}}}
RowsOf(rows, channel) == {r \in rows : r.posting.channel = channel}
Quarantined(channel, from, to) ==
    \E p \in InWindow(channel, from, to) : postings[p] = "unusable"

\* Wrong on purpose: the tail starts at the present day, whatever the age of
\* the base.
TailFromToday(base) == today - Overlap
TailFrom(base) == base.to - Overlap

\* Wrong on purpose: quarantined postings do not make the old channel unsafe.
UnsafeIfIncomplete(evidence) == ~Complete(evidence)
Unsafe(evidence) == evidence.quality < 2

\* _refresh_order_history: where the reading of a channel starts.
ChannelStart(base, channel) ==
    IF Unsafe(base.evidence[channel]) \/ base.evidence[channel].legacy
    THEN base.from ELSE TailFrom(base)

\* Rows before the start of the reading come from the base.
Retained(base, channel, start) ==
    {r \in RowsOf(base.rows, channel) : r.posting.day < start}
-----------------------------------------------------------------------------
(* The other endpoints.                                                    *)

\* An endpoint is not asked without the complete answer of these.
Needs(name) ==
    CASE name \in {"product_prices", "product_attributes", "seller_stock",
                   "placement_zones"} -> {"products"}
      [] name = "fbo_stock" -> {"products", "clusters"}
      [] name = "inbound" -> {"clusters"}
      [] OTHER -> {}

CatalogSensitive == {"product_attributes", "placement_zones"}

\* _fresh_complete, and what a smart refresh asks of the reused data besides.
Reused(base, name, version) ==
    /\ name \in DOMAIN TTL
    /\ Complete(base.evidence[name])
    /\ today - base.evidence[name].at <= TTL[name]
    /\ name \in CatalogSensitive => base.catalog = version
    /\ name = "product_attributes" => base.named

\* source_refresh_regresses
Regresses(base, candidate) ==
    \E name \in Endpoints :
        candidate.evidence[name].quality < base.evidence[name].quality
-----------------------------------------------------------------------------
(* A refresh.                                                              *)

\* One refresh at a time: overlapping ones are in PlanningSession.  Without a
\* base every refresh is full.
StartSync(mode) ==
    /\ sync = NoSource
    /\ sync' =
         LET full == mode = "full" \/ source = NoSource
         IN [asOf |-> today, full |-> full, stage |-> "fbo", backfill |-> FALSE,
             from |-> IF full THEN WeekStart(today) - InitialWeeks * Week ELSE source.from,
             weeks |-> IF full THEN InitialWeeks ELSE CoveredWeeks(today, source.from),
             rows |-> {}, evidence |-> NoEvidence, catalog |-> 0, named |-> FALSE,
             truth |-> {}, quarantine |-> {}, faulty |-> FALSE]
    /\ UNCHANGED <<today, postings, catalog, source, faults>>

\* The fetch of one channel.  truth and quarantine are history: what Ozon had
\* in the whole window of the candidate when the channel was read.
ReadChannel(channel, failed, late) ==
    /\ sync # NoSource /\ sync.stage = channel
    /\ (failed \/ late) => faults < MaxFaults
    /\ ~(failed /\ late)
    /\ LET whole == sync.full \/ sync.backfill
           start == IF whole THEN sync.from ELSE ChannelStart(source, channel)
           kept == IF whole THEN {} ELSE Retained(source, channel, start)
           read == IF failed THEN {} ELSE RowsOf(Usable(start, sync.asOf), channel)
           quality == IF failed THEN 0
                      ELSE IF Quarantined(channel, start, sync.asOf) THEN 1 ELSE 2
       IN sync' = [sync EXCEPT
              !.stage = IF channel = "fbo" THEN "fbs" ELSE "weeks",
              !.rows = @ \cup kept \cup read,
              !.evidence = [name \in DOMAIN @ \cup {channel} |->
                  IF name = channel THEN SyncEvidence(quality, late, 0) ELSE @[name]],
              !.truth = @ \cup RowsOf(Usable(sync.from, sync.asOf), channel),
              !.quarantine = IF Quarantined(channel, sync.from, sync.asOf)
                             THEN @ \cup {channel} ELSE @,
              !.faulty = @ \/ failed]
    /\ faults' = IF failed \/ late THEN faults + 1 ELSE faults
    /\ UNCHANGED <<today, postings, catalog, source>>

OrdersComplete == \A channel \in Channels : Complete(sync.evidence[channel])
TooShort == OrdersComplete /\ Cardinality(UsableWeeks(sync.rows, sync.asOf)) < NeedWeeks

\* Too few weeks: both channels are read again over a longer window, and
\* neither is mixed with what was read before.
Backfill ==
    /\ sync # NoSource /\ sync.stage = "weeks"
    /\ TooShort /\ MoreWeeks(sync.weeks) # sync.weeks
    /\ sync' = [sync EXCEPT
           !.stage = "fbo", !.backfill = TRUE,
           !.weeks = MoreWeeks(@), !.from = @ - (MoreWeeks(sync.weeks) - sync.weeks) * Week,
           !.rows = {}, !.evidence = NoEvidence, !.truth = {}, !.quarantine = {}]
    /\ UNCHANGED <<today, postings, catalog, source, faults>>

\* The window cannot grow: a full refresh takes what there is, a smart one
\* reports both channels incomplete.
HistoryRead ==
    /\ sync # NoSource /\ sync.stage = "weeks"
    /\ ~(TooShort /\ MoreWeeks(sync.weeks) # sync.weeks)
    /\ sync' = [sync EXCEPT
           !.stage = "others",
           !.evidence = IF TooShort /\ ~sync.full
                        THEN [name \in DOMAIN @ |-> [@[name] EXCEPT !.quality = 0]] ELSE @]
    /\ UNCHANGED <<today, postings, catalog, source, faults>>

\* The rest of the endpoints, of which the given one may fail (0) or, when it
\* reports the quality of records, answer with gaps (1).
ReadOthers(weak, quality) ==
    /\ sync # NoSource /\ sync.stage = "others"
    /\ quality < 2 => faults < MaxFaults
    /\ quality = 1 => weak \notin {"clusters", "seller_warehouses", "products"}
    /\ LET answered(name) == IF name = weak THEN quality ELSE 2
           reused(name, version) == ~sync.full /\ Reused(source, name, version)
           version == IF answered("products") = 0 THEN 0 ELSE catalog
           usable(name) == answered(name) > 0 \/ reused(name, version)
           evidence(name) ==
               IF \E other \in Needs(name) : ~usable(other)
               THEN SyncEvidence(0, FALSE, version)
               ELSE IF reused(name, version) THEN source.evidence[name]
               ELSE SyncEvidence(answered(name), FALSE, version)
       IN \E named \in IF answered("product_attributes") = 2 THEN {TRUE} ELSE BOOLEAN :
          sync' = [sync EXCEPT
              !.stage = "commit",
              !.catalog = version,
              !.named = IF reused("product_attributes", version) THEN source.named
                        ELSE named /\ evidence("product_attributes").quality > 0,
              !.evidence = [name \in Endpoints |->
                  IF name \in Channels THEN @[name] ELSE evidence(name)],
              !.faulty = @ \/ quality < 2]
    /\ faults' = IF quality < 2 THEN faults + 1 ELSE faults
    /\ UNCHANGED <<today, postings, catalog, source>>

\* The commit of _refresh_response.
CommitSync ==
    /\ sync # NoSource /\ sync.stage = "commit"
    /\ LET candidate == [from |-> sync.from, to |-> sync.asOf, rows |-> sync.rows,
                         evidence |-> sync.evidence, catalog |-> sync.catalog,
                         named |-> sync.named]
       IN source' = IF source # NoSource /\ Regresses(source, candidate)
                    THEN source ELSE candidate
    /\ sync' = NoSource
    /\ UNCHANGED <<today, postings, catalog, faults>>

\* A cancelled request or a revoked session drops the candidate, at the
\* commit as just before it.
AbandonSync ==
    /\ sync # NoSource /\ sync.stage # "commit"
    /\ sync' = NoSource
    /\ UNCHANGED <<today, postings, catalog, source, faults>>
-----------------------------------------------------------------------------
(* Ozon.  A posting changes only within the overlap: this is what the      *)
(* overlap of the refreshes presumes.                                      *)

\* Between refreshes: a refresh keeps the day of its start.
NextDay ==
    /\ sync = NoSource /\ today < LastDay
    /\ today' = today + 1
    /\ catalog' \in {catalog, Min({catalog + 1, MaxCatalog})}
    /\ UNCHANGED <<postings, source, sync, faults>>

PostingChanges(p) ==
    /\ p.day <= today /\ p.day >= today - Overlap
    /\ postings[p] # "fulfilled"
    /\ \E state \in {"open", "fulfilled", "unusable"} \ {postings[p]} :
           postings' = [postings EXCEPT ![p] = state]
    /\ UNCHANGED <<today, catalog, source, sync, faults>>

-----------------------------------------------------------------------------
SyncInit ==
    /\ today = FirstDay /\ postings = InitialStates /\ catalog = 1
    /\ source = NoSource /\ sync = NoSource /\ faults = 0

SyncNext ==
    \/ \E mode \in {"smart", "full"} : StartSync(mode)
    \/ \E channel \in Channels, failed, late \in BOOLEAN : ReadChannel(channel, failed, late)
    \/ Backfill \/ HistoryRead
    \/ \E name \in Others, quality \in 0..2 : ReadOthers(name, quality)
    \/ CommitSync \/ AbandonSync
    \/ NextDay
    \/ \E p \in Postings : PostingChanges(p)

SyncSpec == SyncInit /\ [][SyncNext]_syncVars
-----------------------------------------------------------------------------
EvidenceType ==
    [quality : 0..2, at : FirstDay..LastDay, legacy : BOOLEAN, catalog : 0..MaxCatalog]

\* The types of the variables that are not Ozon's; the window of a snapshot is
\* no longer than the policy allows.
SyncTypeOK ==
    /\ today \in FirstDay..LastDay /\ postings \in [Postings -> States]
    /\ catalog \in 1..MaxCatalog /\ faults \in 0..MaxFaults
    /\ source # NoSource =>
           /\ source.evidence \in [Endpoints -> EvidenceType]
           /\ source.to - source.from < (MaxWeeks + 1) * Week + (LastDay - FirstDay)

Candidate == sync # NoSource /\ sync.stage = "commit"

\* Where a channel of a candidate is complete, its history is exactly what
\* Ozon had in the window when the channel was read, each posting once and in
\* its state then: nothing is lost or kept double where the retained rows and
\* the tail meet, whatever refreshes failed, were dropped or skipped days.
HistoryExact ==
    Candidate => \A channel \in Channels :
        Complete(sync.evidence[channel]) =>
            RowsOf(sync.rows, channel) = RowsOf(sync.truth, channel)

\* Evidence claims no more than the data holds.  Complete evidence without
\* rejected records hides no quarantined posting: a tail that is clean does not
\* clear the rest of the window.  What is reused was asked for the products the
\* snapshot lists, and nothing complete was read without the answers it needs.
EvidenceHonest ==
    Candidate =>
        /\ \A channel \in Channels :
               sync.evidence[channel].quality = 2 => channel \notin sync.quarantine
        /\ \A name \in Others :
               Complete(sync.evidence[name]) =>
                   /\ "products" \in Needs(name) => sync.evidence[name].catalog = sync.catalog
                   /\ \A other \in Needs(name) : Complete(sync.evidence[other])

CommitSyncGood ==
    /\ Candidate /\ sync' = NoSource
    /\ ~sync.faulty /\ sync.quarantine = {}
\* A refresh in which no request failed and no posting was quarantined loses
\* nothing and becomes the source.
GoodRefreshShown ==
    [][CommitSyncGood => source'.to = sync.asOf]_syncVars

=============================================================================
