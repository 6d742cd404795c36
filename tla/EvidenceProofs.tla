---------------------------- MODULE EvidenceProofs ----------------------------
(***************************************************************************)
(* Theorems about SourceSync, for any postings, calendar and policy; and   *)
(* about EvidenceReconciliation, for any inputs whose rows come in any order.*)
(***************************************************************************)
EXTENDS SourceSync, EvidenceReconciliation, FiniteSetTheorems, TLAPS

-----------------------------------------------------------------------------
(* SourceSync.  A posting older than the overlap does not change.  So of a *)
(* channel that was complete when a snapshot was read, the part before the *)
(* overlap is still what Ozon has (Settled), and still without quarantined *)
(* postings if it was (Clean); a tail that starts where that part ends makes*)
(* the whole window exact again.                                           *)

RowType == [posting : Postings, state : States]
SomeEvidence == [quality : 0..2, at : Nat, legacy : BOOLEAN, catalog : Nat]
EvidenceOf(names) == [names -> SomeEvidence]

\* What was read of a channel up to a day is still right before the overlap.
Settled(rows, channel, from, to) ==
    {r \in RowsOf(rows, channel) : r.posting.day < to - Overlap}
        = RowsOf(Usable(from, to - Overlap - 1), channel)
Clean(channel, from, to) == ~Quarantined(channel, from, to - Overlap - 1)

\* The history of a window that ends on a day, as far as channels were read.
Faithful(rows, evidence, names, from, to) ==
    /\ \A r \in rows : r.posting.channel \in names /\ r.posting.day >= from
    /\ \A channel \in Channels \cap names :
           /\ Complete(evidence[channel]) => Settled(rows, channel, from, to)
           /\ evidence[channel].quality = 2 => Clean(channel, from, to)

\* Nothing complete was read without what it needs.
Linked(evidence, version) ==
    \A name \in Others : Complete(evidence[name]) =>
        /\ "products" \in Needs(name) => evidence[name].catalog = version
        /\ \A other \in Needs(name) : Complete(evidence[other])

\* The newest snapshot.
SourceOK ==
    source # NoSource =>
        /\ source.from \in Int /\ source.to \in Nat /\ source.catalog \in Nat
        /\ source.named \in BOOLEAN
        /\ source.from <= source.to - Overlap /\ source.to <= today
        /\ source.rows \in SUBSET RowType /\ source.evidence \in EvidenceOf(Endpoints)
        /\ Faithful(source.rows, source.evidence, Channels, source.from, source.to)
        /\ Linked(source.evidence, source.catalog)

\* The endpoints a refresh has read at each stage.
Names(stage) ==
    CASE stage = "fbo" -> {}
      [] stage = "fbs" -> {"fbo"}
      [] stage \in {"weeks", "others"} -> Channels
      [] stage = "commit" -> Endpoints

SyncType ==
    [asOf : Nat, full : BOOLEAN, stage : {"fbo", "fbs", "weeks", "others", "commit"},
     backfill : BOOLEAN, from : Int, weeks : Nat, rows : SUBSET RowType,
     evidence : UNION {EvidenceOf(names) : names \in SUBSET Endpoints}, catalog : Nat,
     named : BOOLEAN, truth : SUBSET RowType, quarantine : SUBSET Channels,
     faulty : BOOLEAN]

\* A refresh that runs, by the snapshot it has so far.
RefreshOK(s) ==
    /\ s \in SyncType /\ s.evidence \in EvidenceOf(Names(s.stage))
    /\ s.asOf = today /\ s.from <= today - Overlap /\ s.weeks <= MaxWeeks
    /\ ~s.full => source # NoSource
    /\ ~s.full /\ ~s.backfill => s.from = source.from
    /\ Faithful(s.rows, s.evidence, Names(s.stage), s.from, today)
    /\ \A r \in s.truth : r.posting.channel \in Names(s.stage)
    /\ s.quarantine \subseteq Names(s.stage)
    /\ \A channel \in Channels \cap Names(s.stage) :
           /\ Complete(s.evidence[channel]) => RowsOf(s.rows, channel) = RowsOf(s.truth, channel)
           /\ s.evidence[channel].quality = 2 => channel \notin s.quarantine
    /\ s.stage = "commit" => Linked(s.evidence, s.catalog)
SyncOK == sync # NoSource => RefreshOK(sync)

SyncInv ==
    /\ today \in Nat /\ postings \in [Postings -> States] /\ catalog \in Nat
    /\ SourceOK /\ SyncOK

-----------------------------------------------------------------------------
(* Lemmas about the operators.                                             *)

LEMMA MinOfTwo ==
    ASSUME NEW a \in Int, NEW b \in Int
    PROVE  Min({a, b}) \in {a, b} /\ Min({a, b}) <= a /\ Min({a, b}) <= b
BY DEF Min

LEMMA MaxOfTwo ==
    ASSUME NEW a \in Int, NEW b \in Int
    PROVE  Max({a, b}) \in {a, b} /\ Max({a, b}) >= a /\ Max({a, b}) >= b
BY DEF Max

LEMMA SyncConstants ==
    /\ Week \in Nat \ {0} /\ Overlap \in Nat /\ InitialWeeks \in Nat \ {0}
    /\ BackfillWeeks \in Nat \ {0} /\ MaxWeeks \in Nat /\ FirstDay \in Nat /\ LastDay \in Nat
    /\ MaxCatalog \in Nat /\ InitialWeeks <= MaxWeeks /\ Overlap <= InitialWeeks * Week
    /\ InitialWeeks * Week \in Nat
    /\ \A p \in Postings : p.channel \in Channels /\ p.day \in Nat
BY SyncAssumption

LEMMA WeekStartFacts ==
    ASSUME NEW day \in Nat
    PROVE  WeekStart(day) \in Int /\ WeekStart(day) <= day
<1>1. Week * (day \div Week) \in Int /\ Week * (day \div Week) <= day
  BY SyncConstants
<1> QED
  BY <1>1 DEF WeekStart

\* The weeks that the present coverage is taken for, and those after a backfill.
LEMMA WeeksFacts ==
    /\ \A day \in Nat, from \in Int :
           CoveredWeeks(day, from) \in Nat /\ CoveredWeeks(day, from) <= MaxWeeks
    /\ \A weeks \in Nat : weeks <= MaxWeeks =>
           MoreWeeks(weeks) \in Nat /\ MoreWeeks(weeks) >= weeks /\ MoreWeeks(weeks) <= MaxWeeks
<1>1. ASSUME NEW day \in Nat, NEW from \in Int
      PROVE  CoveredWeeks(day, from) \in Nat /\ CoveredWeeks(day, from) <= MaxWeeks
  <2> DEFINE covered == (WeekStart(day) - from) \div Week
             most == Min({MaxWeeks, covered})
  <2>1. WeekStart(day) - from \in Int
    BY WeekStartFacts
  <2>2. covered \in Int
    BY <2>1, SyncConstants
  <2> HIDE DEF covered
  <2>3. most \in Int /\ most <= MaxWeeks
    BY <2>2, MinOfTwo, SyncConstants
  <2> HIDE DEF most
  <2>4. /\ Max({InitialWeeks, most}) \in {InitialWeeks, most}
        /\ Max({InitialWeeks, most}) >= InitialWeeks
    BY <2>3, MaxOfTwo, SyncConstants
  <2>5. CoveredWeeks(day, from) = Max({InitialWeeks, most})
    BY DEF CoveredWeeks, most, covered
  <2> QED
    BY <2>3, <2>4, <2>5, SyncConstants
<1>2. ASSUME NEW weeks \in Nat, weeks <= MaxWeeks
      PROVE  MoreWeeks(weeks) \in Nat /\ MoreWeeks(weeks) >= weeks /\ MoreWeeks(weeks) <= MaxWeeks
  <2>1. /\ weeks + BackfillWeeks \in Int /\ weeks <= weeks + BackfillWeeks /\ MaxWeeks \in Int
    BY SyncConstants
  <2>2. /\ MoreWeeks(weeks) \in {weeks + BackfillWeeks, MaxWeeks} /\ MoreWeeks(weeks) <= MaxWeeks
    BY <2>1, MinOfTwo DEF MoreWeeks
  <2> QED
    BY <1>2, <2>1, <2>2, SyncConstants
<1> QED
  BY <1>1, <1>2

\* A usable row is one of a posting of the window.
LEMMA UsableRows ==
    ASSUME NEW from, NEW to, NEW channel, NEW r
    PROVE  r \in RowsOf(Usable(from, to), channel) <=>
               \E p \in Postings :
                   /\ p.day \in from..to /\ p.channel = channel
                   /\ postings[p] \in {"open", "fulfilled"} /\ r = Row(p)
BY DEF RowsOf, Usable, Row

\* A window is read as its two parts are.
LEMMA TwoParts ==
    ASSUME NEW from \in Int, NEW start \in Int, NEW to \in Int, from <= start, start <= to + 1,
           NEW channel
    PROVE  /\ RowsOf(Usable(from, start - 1), channel) \cup RowsOf(Usable(start, to), channel)
                  = RowsOf(Usable(from, to), channel)
           /\ Quarantined(channel, from, to) <=>
                  \/ Quarantined(channel, from, start - 1) \/ Quarantined(channel, start, to)
<1>1. \A p \in Postings :
        p.day \in from..to <=> p.day \in from..(start - 1) \/ p.day \in start..to
  BY SyncConstants
<1>2. \A r : \/ r \in RowsOf(Usable(from, start - 1), channel)
             \/ r \in RowsOf(Usable(start, to), channel)
             <=> r \in RowsOf(Usable(from, to), channel)
  BY <1>1, UsableRows
<1>3. Quarantined(channel, from, to) <=>
        \/ Quarantined(channel, from, start - 1) \/ Quarantined(channel, start, to)
  BY <1>1 DEF Quarantined, InWindow
<1> QED
  BY <1>2, <1>3

\* The rows of a window before a day are those of the window up to it.
LEMMA EarlierPart ==
    ASSUME NEW from \in Int, NEW day \in Int, NEW to \in Int, day <= to + 1, NEW channel
    PROVE  \A r : r \in RowsOf(Usable(from, to), channel) /\ r.posting.day < day
                   <=> r \in RowsOf(Usable(from, day - 1), channel)
<1>1. \A p \in Postings : p.day \in from..to /\ p.day < day <=> p.day \in from..(day - 1)
  BY SyncConstants
<1>2. \A p \in Postings : Row(p).posting = p
  BY DEF Row
<1> QED
  BY <1>1, <1>2, UsableRows

\* Rows are of their channel and of the window.
LEMMA RowFacts ==
    ASSUME postings \in [Postings -> States], NEW from \in Int, NEW to \in Int, NEW channel
    PROVE  /\ RowsOf(Usable(from, to), channel) \subseteq RowType
           /\ \A r \in RowsOf(Usable(from, to), channel) :
                  r.posting.channel = channel /\ r.posting.day >= from
<1>1. \A p \in Postings : Row(p) \in RowType /\ Row(p).posting = p /\ p.day \in Nat
  BY SyncConstants DEF Row, RowType
<1>2. \A p \in Postings : p.day \in from..to => p.day >= from
  BY SyncConstants
<1> QED
  BY <1>1, <1>2, UsableRows

\* A posting that changes is not older than the overlap.
LEMMA OlderStay ==
    ASSUME SyncInv, NEW q \in Postings, PostingChanges(q),
           NEW channel, NEW from \in Int, NEW to \in Nat, to <= today
    PROVE  /\ RowsOf(Usable(from, to - Overlap - 1), channel)'
                  = RowsOf(Usable(from, to - Overlap - 1), channel)
           /\ Clean(channel, from, to)' <=> Clean(channel, from, to)
<1>1. q.day >= today - Overlap /\ today \in Nat /\ q.day \in Nat
  BY SyncConstants DEF PostingChanges, SyncInv
<1>2. \A p \in Postings : p # q => postings'[p] = postings[p]
  BY DEF PostingChanges, SyncInv
<1>3. \A p \in Postings : p.day \in from..(to - Overlap - 1) => p # q
  BY <1>1, SyncConstants
<1>4. \A p \in Postings : p.day \in from..(to - Overlap - 1) =>
        postings'[p] = postings[p] /\ Row(p)' = Row(p)
  BY <1>2, <1>3 DEF Row
<1>5. Usable(from, to - Overlap - 1)' = Usable(from, to - Overlap - 1)
  BY <1>4 DEF Usable
<1>6. Clean(channel, from, to)' <=> Clean(channel, from, to)
  BY <1>4 DEF Clean, Quarantined, InWindow
<1> QED
  BY <1>5, <1>6 DEF RowsOf

-----------------------------------------------------------------------------
(* The reading of a channel.                                               *)

Start(channel) ==
    IF sync.full \/ sync.backfill THEN sync.from ELSE ChannelStart(source, channel)
Kept(channel) ==
    IF sync.full \/ sync.backfill THEN {} ELSE Retained(source, channel, Start(channel))

\* What is kept is what a reading of the part before the start would return,
\* and that part hides no quarantined posting.
LEMMA KeptIsCurrent ==
    ASSUME SyncInv, sync # NoSource, NEW channel \in Channels
    PROVE  /\ Start(channel) \in Int
           /\ sync.from <= Start(channel) /\ Start(channel) <= today - Overlap
           /\ Kept(channel) = RowsOf(Usable(sync.from, Start(channel) - 1), channel)
           /\ ~Quarantined(channel, sync.from, Start(channel) - 1)
<1> DEFINE from == sync.from
<1>1. /\ from \in Int /\ from <= today - Overlap /\ today \in Nat
      /\ sync.full \in BOOLEAN /\ sync.backfill \in BOOLEAN
  BY DEF SyncInv, SyncOK, RefreshOK, SyncType
<1>2. RowsOf(Usable(from, from - 1), channel) = {} /\ ~Quarantined(channel, from, from - 1)
  <2>1. \A p \in Postings : ~(p.day \in from..(from - 1))
    BY <1>1, SyncConstants
  <2> QED
    BY <2>1, UsableRows DEF Quarantined, InWindow
<1>3. CASE sync.full \/ sync.backfill
  <2>1. Start(channel) = from /\ Kept(channel) = {}
    BY <1>3 DEF Start, Kept
  <2> QED
    BY <1>1, <1>2, <2>1
<1>4. CASE ~(sync.full \/ sync.backfill)
  <2>1. source # NoSource /\ from = source.from
    BY <1>4 DEF SyncInv, SyncOK, RefreshOK
  <2>2. /\ source.from \in Int /\ source.to \in Nat /\ source.from <= source.to - Overlap
        /\ source.to <= today /\ source.rows \in SUBSET RowType
        /\ \A r \in source.rows : r.posting.day >= source.from
        /\ source.evidence[channel].quality \in 0..2
        /\ Complete(source.evidence[channel]) =>
               Settled(source.rows, channel, source.from, source.to)
        /\ source.evidence[channel].quality = 2 => Clean(channel, source.from, source.to)
    BY <2>1 DEF SyncInv, SourceOK, Faithful, EvidenceOf, SomeEvidence, Endpoints
  <2>3. /\ Start(channel) = ChannelStart(source, channel)
        /\ Kept(channel) = Retained(source, channel, Start(channel))
    BY <1>4 DEF Start, Kept
  <2>4. CASE Unsafe(source.evidence[channel]) \/ source.evidence[channel].legacy
    <3>1. Start(channel) = from
      BY <2>1, <2>3, <2>4 DEF ChannelStart
    <3>2. \A r \in RowsOf(source.rows, channel) :
            r.posting.day \in Nat /\ r.posting.day >= from
      BY <2>1, <2>2, SyncConstants DEF RowsOf, RowType
    <3>3. Kept(channel) = {}
      BY <1>1, <2>3, <3>1, <3>2 DEF Retained
    <3> QED
      BY <1>1, <1>2, <3>1, <3>3
  <2>5. CASE ~(Unsafe(source.evidence[channel]) \/ source.evidence[channel].legacy)
    <3>1. Start(channel) = source.to - Overlap
      BY <2>3, <2>5 DEF ChannelStart, TailFrom
    <3>2. source.evidence[channel].quality = 2 /\ Complete(source.evidence[channel])
      BY <2>2, <2>5 DEF Unsafe, Complete
    <3>3. Kept(channel) = RowsOf(Usable(from, Start(channel) - 1), channel)
      BY <2>1, <2>2, <2>3, <3>1, <3>2 DEF Settled, Retained
    <3>4. ~Quarantined(channel, from, Start(channel) - 1)
      BY <2>1, <2>2, <3>1, <3>2 DEF Clean
    <3>5. Start(channel) \in Int /\ from <= Start(channel) /\ Start(channel) <= today - Overlap
      BY <1>1, <2>1, <2>2, <3>1, SyncConstants
    <3> QED
      BY <3>3, <3>4, <3>5
  <2> QED
    BY <2>4, <2>5
<1> QED
  BY <1>3, <1>4

\* What a reading that succeeds adds is all that Ozon has in the window.
LEMMA ReadingExact ==
    ASSUME SyncInv, sync # NoSource, NEW channel \in Channels
    PROVE  /\ Kept(channel) \cup RowsOf(Usable(Start(channel), today), channel)
                  = RowsOf(Usable(sync.from, today), channel)
           /\ {r \in RowsOf(Usable(sync.from, today), channel) : r.posting.day < today - Overlap}
                  = RowsOf(Usable(sync.from, today - Overlap - 1), channel)
           /\ ~Quarantined(channel, Start(channel), today) =>
                  ~Quarantined(channel, sync.from, today) /\ Clean(channel, sync.from, today)
<1> DEFINE from == sync.from
           start == Start(channel)
<1>1. /\ from \in Int /\ from <= today - Overlap /\ today \in Nat
      /\ today \in Int /\ today - Overlap \in Int
      /\ today - Overlap <= today + 1
  BY SyncConstants DEF SyncInv, SyncOK, RefreshOK, SyncType
<1>2. /\ start \in Int /\ from <= start /\ start <= today - Overlap
      /\ Kept(channel) = RowsOf(Usable(from, start - 1), channel)
      /\ ~Quarantined(channel, from, start - 1)
  BY KeptIsCurrent
<1> HIDE DEF from, start
<1>3. start <= today + 1
  BY <1>1, <1>2
<1>4. /\ RowsOf(Usable(from, start - 1), channel) \cup RowsOf(Usable(start, today), channel)
             = RowsOf(Usable(from, today), channel)
      /\ Quarantined(channel, from, today) <=>
             \/ Quarantined(channel, from, start - 1) \/ Quarantined(channel, start, today)
  BY <1>1, <1>2, <1>3, TwoParts, Zenon
<1>5. {r \in RowsOf(Usable(from, today), channel) : r.posting.day < today - Overlap}
          = RowsOf(Usable(from, today - Overlap - 1), channel)
  <2>1. \A r : r \in RowsOf(Usable(from, today), channel) /\ r.posting.day < today - Overlap
               <=> r \in RowsOf(Usable(from, today - Overlap - 1), channel)
    BY <1>1, EarlierPart, Zenon
  <2> QED
    BY <2>1
<1>6. Quarantined(channel, from, today) <=>
        \/ Quarantined(channel, from, today - Overlap - 1)
        \/ Quarantined(channel, today - Overlap, today)
  BY <1>1, TwoParts, Zenon
<1>7. ~Quarantined(channel, start, today) =>
        ~Quarantined(channel, from, today) /\ Clean(channel, from, today)
  BY <1>2, <1>4, <1>6, Zenon DEF Clean
<1>8. Kept(channel) \cup RowsOf(Usable(start, today), channel)
          = RowsOf(Usable(from, today), channel)
  BY <1>2, <1>4, Zenon
<1> QED
  BY <1>5, <1>7, <1>8 DEF from, start

-----------------------------------------------------------------------------
(* Every step keeps the invariant.                                         *)

LEMMA SourceStays ==
    ASSUME SyncInv, UNCHANGED <<today, postings, source>>
    PROVE  SourceOK'
BY DEF SyncInv, SourceOK, Faithful, Settled, Clean, RowsOf, Usable, Row, Quarantined, InWindow,
       Complete, Linked

\* A step that leaves Ozon's postings, the day and the source alone.
LEMMA RefreshStays ==
    ASSUME UNCHANGED <<today, postings, source>>, RefreshOK(sync')
    PROVE  SyncOK'
BY DEF SyncOK, RefreshOK, Faithful, Settled, Clean, RowsOf, Usable, Row, Quarantined, InWindow,
       Complete, Linked

LEMMA StartSyncKeeps ==
    ASSUME SyncInv, NEW mode, StartSync(mode)
    PROVE  SyncInv'
<1> DEFINE full == mode = "full" \/ source = NoSource
           from == IF full THEN WeekStart(today) - InitialWeeks * Week ELSE source.from
           weeks == IF full THEN InitialWeeks ELSE CoveredWeeks(today, source.from)
<1>1. /\ UNCHANGED <<today, postings, catalog, source>> /\ today \in Nat /\ full \in BOOLEAN
  BY DEF StartSync, SyncInv
<1>2. sync' = [asOf |-> today, full |-> full, stage |-> "fbo", backfill |-> FALSE,
               from |-> from, weeks |-> weeks, rows |-> {}, evidence |-> NoEvidence,
               catalog |-> 0, named |-> FALSE, truth |-> {}, quarantine |-> {},
               faulty |-> FALSE]
  BY DEF StartSync
<1>3. ~full => /\ source # NoSource /\ source.from \in Int /\ source.to \in Nat
               /\ source.from <= source.to - Overlap /\ source.to <= today
  BY DEF SyncInv, SourceOK
<1>4. from \in Int /\ from <= today - Overlap /\ weeks \in Nat /\ weeks <= MaxWeeks
  <2>1. CASE full
    <3>1. WeekStart(today) \in Int /\ WeekStart(today) <= today
      BY <1>1, WeekStartFacts
    <3> QED
      BY <1>1, <2>1, <3>1, SyncConstants
  <2>2. CASE ~full
    <3>1. weeks \in Nat /\ weeks <= MaxWeeks
      BY <1>1, <1>3, <2>2, WeeksFacts
    <3> QED
      BY <1>1, <1>3, <2>2, <3>1, SyncConstants
  <2> QED
    BY <2>1, <2>2
<1>5. ~full => source # NoSource /\ from = source.from
  BY <1>3
<1> HIDE DEF full, from, weeks
<1>6. NoEvidence \in EvidenceOf(Names("fbo"))
  BY DEF NoEvidence, EvidenceOf, Names
<1>7. sync' \in SyncType
  <2>1. NoEvidence \in UNION {EvidenceOf(names) : names \in SUBSET Endpoints}
    BY <1>6 DEF Names
  <2> QED
    BY <1>1, <1>2, <1>4, <2>1 DEF SyncType
<1>8. SyncOK'
  BY <1>1, <1>2, <1>4, <1>5, <1>6, <1>7 DEF SyncOK, RefreshOK, Names, Faithful
<1> QED
  BY <1>1, <1>8, SourceStays DEF SyncInv

LEMMA BackfillKeeps ==
    ASSUME SyncInv, Backfill
    PROVE  SyncInv'
<1> DEFINE weeks == MoreWeeks(sync.weeks)
           from == sync.from - (weeks - sync.weeks) * Week
<1>1. /\ UNCHANGED <<today, postings, catalog, source>> /\ today \in Nat
      /\ sync # NoSource /\ sync \in SyncType /\ sync.asOf = today
      /\ sync.from <= today - Overlap /\ sync.weeks <= MaxWeeks
      /\ ~sync.full => source # NoSource
  BY DEF Backfill, SyncInv, SyncOK, RefreshOK
<1>2. sync' = [sync EXCEPT
         !.stage = "fbo", !.backfill = TRUE, !.weeks = weeks, !.from = from,
         !.rows = {}, !.evidence = NoEvidence, !.truth = {}, !.quarantine = {}]
  BY DEF Backfill
<1>3. /\ sync.from \in Int /\ sync.weeks \in Nat
      /\ weeks \in Nat /\ weeks >= sync.weeks /\ weeks <= MaxWeeks
  BY <1>1, WeeksFacts DEF SyncType
<1>4. from \in Int /\ from <= today - Overlap
  <2> HIDE DEF weeks
  <2>1. (weeks - sync.weeks) * Week \in Nat
    BY <1>3, SyncConstants
  <2> QED
    BY <1>1, <1>3, <2>1, SyncConstants
<1> HIDE DEF weeks, from
<1>5. NoEvidence \in EvidenceOf(Names("fbo"))
  BY DEF NoEvidence, EvidenceOf, Names
<1>6. sync' \in SyncType /\ sync'.asOf = today /\ sync'.full = sync.full /\ sync'.stage = "fbo"
      /\ sync'.backfill = TRUE /\ sync'.weeks = weeks /\ sync'.from = from
      /\ sync'.rows = {} /\ sync'.evidence = NoEvidence /\ sync'.truth = {}
      /\ sync'.quarantine = {}
  <2>1. NoEvidence \in UNION {EvidenceOf(names) : names \in SUBSET Endpoints}
    BY <1>5 DEF Names
  <2> QED
    BY <1>1, <1>2, <1>3, <1>4, <2>1 DEF SyncType
<1>7. SyncOK'
  BY <1>1, <1>3, <1>4, <1>5, <1>6 DEF SyncOK, RefreshOK, Names, Faithful
<1> QED
  BY <1>1, <1>7, SourceStays DEF SyncInv

\* What a stage adds to the endpoints that were read.
LEMMA NamesFacts ==
    /\ Names("fbo") = {} /\ Names("fbs") = {"fbo"} /\ Names("weeks") = Channels
    /\ Names("others") = Channels /\ Names("commit") = Endpoints
    /\ Channels \subseteq Endpoints
BY DEF Names, Endpoints

LEMMA ReadChannelKeeps ==
    ASSUME SyncInv, NEW channel \in Channels, NEW failed \in BOOLEAN, NEW late \in BOOLEAN,
           ReadChannel(channel, failed, late)
    PROVE  SyncInv'
<1> DEFINE before == Names(sync.stage)
           next == IF channel = "fbo" THEN "fbs" ELSE "weeks"
           read == IF failed THEN {} ELSE RowsOf(Usable(Start(channel), today), channel)
           all == RowsOf(Usable(sync.from, today), channel)
           quality == IF failed THEN 0
                      ELSE IF Quarantined(channel, Start(channel), today) THEN 1 ELSE 2
           rows == sync.rows \cup Kept(channel) \cup read
           evidence == [name \in DOMAIN sync.evidence \cup {channel} |->
                           IF name = channel THEN SyncEvidence(quality, late, 0)
                           ELSE sync.evidence[name]]
           truth == sync.truth \cup all
           quarantine == IF Quarantined(channel, sync.from, today)
                         THEN sync.quarantine \cup {channel} ELSE sync.quarantine
           faulty == sync.faulty \/ failed
<1>1. /\ UNCHANGED <<today, postings, catalog, source>> /\ today \in Nat
      /\ sync # NoSource /\ sync \in SyncType /\ sync.asOf = today /\ sync.stage = channel
      /\ sync.from \in Int /\ sync.from <= today - Overlap /\ sync.weeks <= MaxWeeks
      /\ sync.evidence \in EvidenceOf(before) /\ postings \in [Postings -> States]
  BY DEF ReadChannel, SyncInv, SyncOK, RefreshOK, SyncType
<1>2. sync' = [sync EXCEPT !.stage = next, !.rows = rows, !.evidence = evidence,
                           !.truth = truth, !.quarantine = quarantine, !.faulty = faulty]
  BY <1>1 DEF ReadChannel, Start, Kept
<1>3. /\ channel \notin before /\ Names(next) = before \cup {channel}
      /\ before \subseteq Channels /\ next \in {"fbs", "weeks"}
  BY <1>1, NamesFacts DEF Channels
<1>4. /\ Start(channel) \in Int /\ sync.from <= Start(channel)
      /\ Kept(channel) = RowsOf(Usable(sync.from, Start(channel) - 1), channel)
  BY <1>1, KeptIsCurrent
<1>5. /\ Kept(channel) \subseteq RowType
      /\ \A r \in Kept(channel) : r.posting.channel = channel /\ r.posting.day >= sync.from
  BY <1>1, <1>4, RowFacts
<1>6. /\ all \subseteq RowType
      /\ \A r \in all : r.posting.channel = channel /\ r.posting.day >= sync.from
  BY <1>1, RowFacts
<1>7. /\ Kept(channel) \cup RowsOf(Usable(Start(channel), today), channel) = all
      /\ {r \in all : r.posting.day < today - Overlap}
             = RowsOf(Usable(sync.from, today - Overlap - 1), channel)
      /\ ~Quarantined(channel, Start(channel), today) =>
             ~Quarantined(channel, sync.from, today) /\ Clean(channel, sync.from, today)
  BY <1>1, ReadingExact
<1>8. /\ read \subseteq all /\ Kept(channel) \subseteq all /\ quality \in 0..2
      /\ quality > 0 => Kept(channel) \cup read = all
      /\ quality = 2 => ~Quarantined(channel, sync.from, today) /\ Clean(channel, sync.from, today)
  BY <1>7
<1> HIDE DEF before, next, read, all, quality
<1>9. \A r \in sync.rows : r.posting.channel \in before /\ r.posting.day >= sync.from
  BY <1>1 DEF SyncInv, SyncOK, RefreshOK, Faithful, before
<1>10. \A r \in sync.truth : r.posting.channel \in before
  BY <1>1 DEF SyncInv, SyncOK, RefreshOK, before
<1>11. /\ RowsOf(rows, channel) = Kept(channel) \cup read
       /\ RowsOf(truth, channel) = all
  BY <1>3, <1>6, <1>8, <1>9, <1>10 DEF RowsOf
<1>12. \A other \in before : /\ RowsOf(rows, other) = RowsOf(sync.rows, other)
                             /\ RowsOf(truth, other) = RowsOf(sync.truth, other)
  BY <1>3, <1>6, <1>8 DEF RowsOf
<1>13. /\ SyncEvidence(quality, late, 0) \in SomeEvidence
       /\ SyncEvidence(quality, late, 0).quality = quality
  BY <1>1, <1>8 DEF SyncEvidence, SomeEvidence
<1>14. /\ evidence \in EvidenceOf(Names(next))
       /\ evidence[channel].quality = quality
       /\ \A other \in before : evidence[other] = sync.evidence[other]
  <2>1. DOMAIN sync.evidence = before /\ \A other \in before : sync.evidence[other] \in SomeEvidence
    BY <1>1 DEF EvidenceOf
  <2> QED
    BY <1>3, <1>13, <2>1 DEF EvidenceOf
<1>15. /\ rows \in SUBSET RowType /\ truth \in SUBSET RowType
       /\ quarantine \in SUBSET Channels /\ quarantine \subseteq Names(next)
       /\ faulty \in BOOLEAN
  <2>1. sync.quarantine \subseteq before
    BY <1>1 DEF SyncInv, SyncOK, RefreshOK, before
  <2> QED
    BY <1>1, <1>3, <1>6, <1>8, <2>1 DEF SyncType
<1>16. /\ \A other \in before : other \in quarantine <=> other \in sync.quarantine
       /\ quality = 2 => channel \notin quarantine
  <2>1. sync.quarantine \subseteq before
    BY <1>1 DEF SyncInv, SyncOK, RefreshOK, before
  <2> QED
    BY <1>3, <1>8, <2>1
<1> HIDE DEF rows, evidence, truth, quarantine, faulty
<1>17. /\ sync' \in SyncType /\ sync'.stage = next /\ sync'.rows = rows
       /\ sync'.evidence = evidence /\ sync'.truth = truth /\ sync'.quarantine = quarantine
       /\ sync'.asOf = today /\ sync'.from = sync.from /\ sync'.weeks = sync.weeks
       /\ sync'.full = sync.full /\ sync'.backfill = sync.backfill
  <2>1. evidence \in UNION {EvidenceOf(names) : names \in SUBSET Endpoints}
    BY <1>3, <1>14, NamesFacts
  <2>2. next \in {"fbo", "fbs", "weeks", "others", "commit"}
    BY <1>3
  <2> QED
    BY <1>1, <1>2, <1>15, <2>1, <2>2 DEF SyncType
<1>18. \A r \in rows : r.posting.channel \in Names(next) /\ r.posting.day >= sync.from
  BY <1>3, <1>6, <1>8, <1>9 DEF rows
<1>19. \A r \in truth : r.posting.channel \in Names(next)
  BY <1>3, <1>6, <1>10 DEF truth
<1>20. ASSUME NEW other \in Channels \cap Names(next)
       PROVE  /\ Complete(evidence[other]) => Settled(rows, other, sync.from, today)
              /\ evidence[other].quality = 2 => Clean(other, sync.from, today)
              /\ Complete(evidence[other]) => RowsOf(rows, other) = RowsOf(truth, other)
              /\ evidence[other].quality = 2 => other \notin quarantine
  <2>1. CASE other = channel
    <3>1. Complete(evidence[channel]) => RowsOf(rows, channel) = all
      BY <1>8, <1>11, <1>14 DEF Complete
    <3>2. Complete(evidence[channel]) => Settled(rows, channel, sync.from, today)
      BY <1>7, <3>1 DEF Settled
    <3> QED
      BY <1>8, <1>11, <1>14, <1>16, <2>1, <3>1, <3>2
  <2>2. CASE other \in before
    <3>1. other \in Channels \cap Names(sync.stage)
      BY <2>2 DEF before
    <3>2. /\ Complete(sync.evidence[other]) => Settled(sync.rows, other, sync.from, today)
          /\ sync.evidence[other].quality = 2 => Clean(other, sync.from, today)
          /\ Complete(sync.evidence[other]) =>
                 RowsOf(sync.rows, other) = RowsOf(sync.truth, other)
          /\ sync.evidence[other].quality = 2 => other \notin sync.quarantine
      BY <1>1, <3>1 DEF SyncInv, SyncOK, RefreshOK, Faithful
    <3>3. Settled(sync.rows, other, sync.from, today) => Settled(rows, other, sync.from, today)
      BY <1>12, <2>2 DEF Settled
    <3> QED
      BY <1>12, <1>14, <1>16, <2>2, <3>2, <3>3
  <2> QED
    BY <1>3, <2>1, <2>2
<1>21. Faithful(rows, evidence, Names(next), sync.from, today)
  BY <1>18, <1>20 DEF Faithful
<1>22. ~sync.full => source # NoSource
  BY <1>1 DEF SyncInv, SyncOK, RefreshOK
<1>23. ~sync.full /\ ~sync.backfill => sync.from = source.from
  BY <1>1 DEF SyncInv, SyncOK, RefreshOK
<1>24. next # "commit"
  BY <1>3
<1>25. RefreshOK(sync')
  BY <1>1, <1>14, <1>15, <1>17, <1>19, <1>20, <1>21, <1>22, <1>23, <1>24 DEF RefreshOK
<1> QED
  BY <1>1, <1>25, SourceStays, RefreshStays DEF SyncInv

LEMMA HistoryReadKeeps ==
    ASSUME SyncInv, HistoryRead
    PROVE  SyncInv'
<1> DEFINE short == TooShort /\ ~sync.full
           evidence == IF short
                       THEN [name \in DOMAIN sync.evidence |->
                                [sync.evidence[name] EXCEPT !.quality = 0]]
                       ELSE sync.evidence
<1>1. /\ UNCHANGED <<today, postings, catalog, source>> /\ sync # NoSource
      /\ sync.stage = "weeks" /\ RefreshOK(sync)
  BY DEF HistoryRead, SyncInv, SyncOK
<1>2. sync' = [sync EXCEPT !.stage = "others", !.evidence = evidence]
  BY DEF HistoryRead
<1>3. sync \in SyncType /\ sync.evidence \in EvidenceOf(Channels)
  BY <1>1, NamesFacts DEF RefreshOK
<1>4. /\ evidence \in EvidenceOf(Channels)
      /\ \A channel \in Channels :
             \/ evidence[channel] = sync.evidence[channel]
             \/ evidence[channel].quality = 0
  BY <1>3 DEF EvidenceOf, SomeEvidence
<1> HIDE DEF evidence
<1>5. /\ sync' \in SyncType /\ sync'.stage = "others" /\ sync'.evidence = evidence
      /\ sync'.rows = sync.rows /\ sync'.truth = sync.truth
      /\ sync'.quarantine = sync.quarantine /\ sync'.asOf = sync.asOf
      /\ sync'.from = sync.from /\ sync'.weeks = sync.weeks
      /\ sync'.full = sync.full /\ sync'.backfill = sync.backfill
  <2>1. evidence \in UNION {EvidenceOf(names) : names \in SUBSET Endpoints}
    BY <1>4, NamesFacts
  <2> QED
    BY <1>2, <1>3, <2>1 DEF SyncType
<1>6. \A channel \in Channels :
        /\ Complete(evidence[channel]) => evidence[channel] = sync.evidence[channel]
        /\ evidence[channel].quality = 2 => evidence[channel] = sync.evidence[channel]
  BY <1>4 DEF Complete
<1>7. Faithful(sync.rows, evidence, Channels, sync.from, today)
  BY <1>1, <1>6, NamesFacts DEF RefreshOK, Faithful
<1>8. /\ \A r \in sync.truth : r.posting.channel \in Channels
      /\ sync.quarantine \subseteq Channels
      /\ \A channel \in Channels :
             /\ Complete(evidence[channel]) =>
                    RowsOf(sync.rows, channel) = RowsOf(sync.truth, channel)
             /\ evidence[channel].quality = 2 => channel \notin sync.quarantine
  BY <1>1, <1>6, NamesFacts DEF RefreshOK
<1>9. RefreshOK(sync')
  BY <1>1, <1>4, <1>5, <1>7, <1>8, NamesFacts DEF RefreshOK
<1> QED
  BY <1>1, <1>9, SourceStays, RefreshStays DEF SyncInv

LEMMA ReadOthersKeeps ==
    ASSUME SyncInv, NEW weak \in Others, NEW quality \in 0..2, ReadOthers(weak, quality)
    PROVE  SyncInv'
<1> DEFINE answered(name) == IF name = weak THEN quality ELSE 2
           version == IF answered("products") = 0 THEN 0 ELSE catalog
           reused(name) == ~sync.full /\ Reused(source, name, version)
           usable(name) == answered(name) > 0 \/ reused(name)
           found(name) ==
               IF \E other \in Needs(name) : ~usable(other)
               THEN SyncEvidence(0, FALSE, version)
               ELSE IF reused(name) THEN source.evidence[name]
               ELSE SyncEvidence(answered(name), FALSE, version)
           evidence == [name \in Endpoints |->
                           IF name \in Channels THEN sync.evidence[name] ELSE found(name)]
           faulty == sync.faulty \/ quality < 2
<1>1. /\ UNCHANGED <<today, postings, catalog, source>> /\ sync # NoSource
      /\ sync.stage = "others" /\ RefreshOK(sync) /\ today \in Nat /\ catalog \in Nat
  BY DEF ReadOthers, SyncInv, SyncOK
<1>2. PICK named :
        /\ named \in BOOLEAN
        /\ sync' = [sync EXCEPT
               !.stage = "commit", !.catalog = version,
               !.named = IF reused("product_attributes") THEN source.named
                         ELSE named /\ found("product_attributes").quality > 0,
               !.evidence = evidence, !.faulty = faulty]
  BY ZenonT(30) DEF ReadOthers
<1> DEFINE listed == IF reused("product_attributes") THEN source.named
                     ELSE named /\ found("product_attributes").quality > 0
<1>3. /\ sync \in SyncType /\ sync.evidence \in EvidenceOf(Channels)
      /\ \A name : reused(name) => source # NoSource
  BY <1>1, NamesFacts DEF RefreshOK
<1>4. source # NoSource => /\ source.evidence \in EvidenceOf(Endpoints)
                           /\ source.named \in BOOLEAN
                           /\ Linked(source.evidence, source.catalog)
  BY DEF SyncInv, SourceOK
<1>5. version \in Nat /\ \A name : answered(name) \in 0..2
  BY <1>1
<1> HIDE DEF answered, version
<1>6. \A q : SyncEvidence(q, FALSE, version).catalog = version
  BY DEF SyncEvidence
<1>7. \A name \in Others : found(name) \in SomeEvidence
  <2>1. \A name \in Others : reused(name) => source.evidence[name] \in SomeEvidence
    BY <1>3, <1>4 DEF EvidenceOf, Endpoints
  <2>2. /\ SyncEvidence(0, FALSE, version) \in SomeEvidence
        /\ \A name : SyncEvidence(answered(name), FALSE, version) \in SomeEvidence
    BY <1>1, <1>5 DEF SyncEvidence, SomeEvidence
  <2> QED
    BY <2>1, <2>2
<1>8. \A name \in Others : Complete(found(name)) <=>
        usable(name) /\ \A other \in Needs(name) : usable(other)
  <2>1. \A name : reused(name) => Complete(source.evidence[name])
    BY DEF Reused
  <2>2. /\ ~Complete(SyncEvidence(0, FALSE, version))
        /\ \A name : Complete(SyncEvidence(answered(name), FALSE, version)) <=> answered(name) > 0
    BY DEF Complete, SyncEvidence
  <2> QED
    BY <2>1, <2>2
<1>9. \A name \in Others : \A other \in Needs(name) :
        other \in Others /\ Needs(other) = {} /\ name \notin {"clusters", "products"}
  BY DEF Needs, Others
<1>10. ASSUME NEW name \in Others, Complete(found(name)), "products" \in Needs(name)
       PROVE  found(name).catalog = version
  <2>1. ~(\E other \in Needs(name) : ~usable(other))
    BY <1>8, <1>10
  <2>2. CASE reused(name)
    <3>1. /\ found(name) = source.evidence[name] /\ Complete(source.evidence[name])
          /\ name \in CatalogSensitive => source.catalog = version
      BY <2>1, <2>2 DEF Reused
    <3>2. name \in CatalogSensitive
      BY <1>10, <2>2, SyncAssumption DEF Reused, CatalogSensitive, Needs
    <3>3. source.evidence[name].catalog = source.catalog
      BY <1>3, <1>4, <1>10, <2>2, <3>1 DEF Linked
    <3> QED
      BY <3>1, <3>2, <3>3
  <2>3. CASE ~reused(name)
    BY <1>6, <2>1, <2>3
  <2> QED
    BY <2>2, <2>3
<1> HIDE DEF usable, reused, found
<1>11. /\ evidence \in EvidenceOf(Endpoints)
       /\ \A name \in Channels : evidence[name] = sync.evidence[name]
       /\ \A name \in Others : evidence[name] = found(name)
  <2>1. \A name \in Channels : sync.evidence[name] \in SomeEvidence /\ name \in Endpoints
    BY <1>3 DEF EvidenceOf, Endpoints
  <2>2. \A name \in Others : name \in Endpoints /\ name \notin Channels
    BY DEF Others, Channels, Endpoints
  <2>3. \A name \in Endpoints : name \in Channels \/ name \in Others
    BY DEF Endpoints
  <2> QED
    BY <1>7, <2>1, <2>2, <2>3 DEF EvidenceOf
<1> HIDE DEF evidence
<1>12. Linked(evidence, version)
  <2>1. \A name \in Others : Complete(evidence[name]) =>
          \A other \in Needs(name) : Complete(evidence[other])
    BY <1>8, <1>9, <1>11
  <2>2. \A name \in Others : Complete(evidence[name]) =>
          ("products" \in Needs(name) => evidence[name].catalog = version)
    BY <1>10, <1>11
  <2> QED
    BY <2>1, <2>2 DEF Linked
<1>13. listed \in BOOLEAN /\ faulty \in BOOLEAN
  BY <1>2, <1>3, <1>4 DEF SyncType
<1>14. sync' = [sync EXCEPT !.stage = "commit", !.catalog = version, !.named = listed,
                            !.evidence = evidence, !.faulty = faulty]
  BY <1>2
<1> HIDE DEF listed, faulty
<1>15. /\ sync' \in SyncType /\ sync'.stage = "commit" /\ sync'.evidence = evidence
       /\ sync'.catalog = version /\ sync'.rows = sync.rows /\ sync'.truth = sync.truth
       /\ sync'.quarantine = sync.quarantine /\ sync'.asOf = sync.asOf
       /\ sync'.from = sync.from /\ sync'.weeks = sync.weeks
       /\ sync'.full = sync.full /\ sync'.backfill = sync.backfill
  <2>1. evidence \in UNION {EvidenceOf(names) : names \in SUBSET Endpoints}
    BY <1>11
  <2> QED
    BY <1>3, <1>5, <1>13, <1>14, <2>1 DEF SyncType
<1>16. /\ Channels \cap Endpoints = Channels /\ Channels \cap Names(sync.stage) = Channels
       /\ Names(sync.stage) \subseteq Endpoints
  BY <1>1, NamesFacts
<1>17. Faithful(sync.rows, evidence, Endpoints, sync.from, today)
  BY <1>1, <1>11, <1>16 DEF RefreshOK, Faithful
<1>18. /\ \A r \in sync.truth : r.posting.channel \in Endpoints
       /\ sync.quarantine \subseteq Endpoints
       /\ \A channel \in Channels :
              /\ Complete(evidence[channel]) =>
                     RowsOf(sync.rows, channel) = RowsOf(sync.truth, channel)
              /\ evidence[channel].quality = 2 => channel \notin sync.quarantine
  BY <1>1, <1>11, <1>16 DEF RefreshOK
<1>19. RefreshOK(sync')
  BY <1>1, <1>11, <1>12, <1>15, <1>16, <1>17, <1>18, NamesFacts DEF RefreshOK
<1> QED
  BY <1>1, <1>19, SourceStays, RefreshStays DEF SyncInv

LEMMA CommitSyncKeeps ==
    ASSUME SyncInv, CommitSync
    PROVE  SyncInv'
<1> DEFINE candidate == [from |-> sync.from, to |-> sync.asOf, rows |-> sync.rows,
                         evidence |-> sync.evidence, catalog |-> sync.catalog,
                         named |-> sync.named]
<1>1. /\ UNCHANGED <<today, postings, catalog>> /\ sync' = NoSource
      /\ sync.stage = "commit" /\ RefreshOK(sync) /\ today \in Nat
  BY DEF CommitSync, SyncInv, SyncOK
<1>2. CASE UNCHANGED source
  BY <1>1, <1>2, SourceStays DEF SyncInv, SyncOK
<1>3. CASE source' = candidate
  <2>1. /\ source'.from = sync.from /\ source'.to = today /\ source'.rows = sync.rows
        /\ source'.evidence = sync.evidence /\ source'.catalog = sync.catalog
        /\ source'.named = sync.named
    BY <1>1, <1>3 DEF RefreshOK
  <2>2. /\ sync.from \in Int /\ sync.catalog \in Nat /\ sync.named \in BOOLEAN
        /\ sync.from <= today - Overlap /\ sync.rows \in SUBSET RowType
        /\ sync.evidence \in EvidenceOf(Endpoints) /\ Linked(sync.evidence, sync.catalog)
        /\ Channels \cap Names("commit") = Channels
    BY <1>1, NamesFacts DEF RefreshOK, SyncType
  <2>3. /\ \A r \in sync.rows : r.posting.channel \in Channels /\ r.posting.day >= sync.from
        /\ \A channel \in Channels :
               /\ Complete(sync.evidence[channel]) =>
                      Settled(sync.rows, channel, sync.from, today)
               /\ sync.evidence[channel].quality = 2 => Clean(channel, sync.from, today)
    BY <1>1, <2>2, SyncConstants DEF RefreshOK, Faithful, RowType
  <2>4. Faithful(source'.rows, source'.evidence, Channels, source'.from, source'.to)
    BY <2>1, <2>3 DEF Faithful
  <2>5. SourceOK'
    BY <1>1, <2>1, <2>2, <2>4
    DEF SourceOK, Faithful, Settled, Clean, RowsOf, Usable, Row, Quarantined, InWindow,
        Complete, Linked
  <2> QED
    BY <1>1, <2>5 DEF SyncInv, SyncOK
<1> QED
  BY <1>2, <1>3 DEF CommitSync

LEMMA AbandonSyncKeeps ==
    ASSUME SyncInv, AbandonSync
    PROVE  SyncInv'
<1>1. UNCHANGED <<today, postings, catalog, source>> /\ sync' = NoSource
  BY DEF AbandonSync
<1> QED
  BY <1>1, SourceStays DEF SyncInv, SyncOK

LEMMA NextDayKeeps ==
    ASSUME SyncInv, NextDay
    PROVE  SyncInv'
<1>1. /\ today' = today + 1 /\ UNCHANGED <<postings, source, sync>> /\ sync = NoSource
      /\ catalog' \in {catalog, Min({catalog + 1, MaxCatalog})}
      /\ today \in Nat /\ catalog \in Nat
  BY DEF NextDay, SyncInv
<1>2. catalog' \in Nat
  <2>1. catalog + 1 \in Int /\ MaxCatalog \in Int
    BY <1>1, SyncConstants
  <2>2. Min({catalog + 1, MaxCatalog}) \in {catalog + 1, MaxCatalog}
    BY <2>1, MinOfTwo
  <2> QED
    BY <1>1, <2>2, SyncConstants
<1>3. source # NoSource => source.to <= today'
  BY <1>1 DEF SyncInv, SourceOK
<1>4. SourceOK'
  BY <1>1, <1>3
  DEF SyncInv, SourceOK, Faithful, Settled, Clean, RowsOf, Usable, Row, Quarantined, InWindow,
      Complete, Linked
<1> QED
  BY <1>1, <1>2, <1>4 DEF SyncInv, SyncOK

\* A posting that changes leaves what was read before the overlap right.
LEMMA SnapshotStays ==
    ASSUME SyncInv, NEW q \in Postings, PostingChanges(q),
           NEW rows, NEW evidence, NEW names, NEW from \in Int, NEW to \in Nat, to <= today,
           Faithful(rows, evidence, names, from, to)
    PROVE  Faithful(rows, evidence, names, from, to)'
<1>1. ASSUME NEW channel
      PROVE  /\ Settled(rows, channel, from, to) => Settled(rows, channel, from, to)'
             /\ Clean(channel, from, to) => Clean(channel, from, to)'
  <2>1. /\ RowsOf(Usable(from, to - Overlap - 1), channel)'
                = RowsOf(Usable(from, to - Overlap - 1), channel)
        /\ Clean(channel, from, to)' <=> Clean(channel, from, to)
    BY OlderStay
  <2>2. RowsOf(rows, channel)' = RowsOf(rows, channel)
    BY DEF RowsOf
  <2> QED
    BY <2>1, <2>2 DEF Settled
<1> QED
  BY <1>1 DEF Faithful, Complete

LEMMA PostingChangesKeeps ==
    ASSUME SyncInv, NEW q \in Postings, PostingChanges(q)
    PROVE  SyncInv'
<1>1. /\ UNCHANGED <<today, catalog, source, sync>> /\ today \in Nat
      /\ postings' \in [Postings -> States]
  BY DEF PostingChanges, SyncInv, States
<1>2. SourceOK'
  BY <1>1, SnapshotStays DEF SyncInv, SourceOK
<1>3. SyncOK'
  <2>1. sync # NoSource =>
          /\ sync.from \in Int
          /\ Faithful(sync.rows, sync.evidence, Names(sync.stage), sync.from, today)
    BY DEF SyncInv, SyncOK, RefreshOK, SyncType
  <2>2. sync # NoSource =>
          Faithful(sync.rows, sync.evidence, Names(sync.stage), sync.from, today)'
    BY <1>1, <2>1, SnapshotStays
  <2> QED
    BY <1>1, <2>2 DEF SyncInv, SyncOK, RefreshOK, Complete, RowsOf, Linked
<1> QED
  BY <1>1, <1>2, <1>3 DEF SyncInv

LEMMA SyncStart == SyncInit => SyncInv
BY SyncAssumption, SyncConstants DEF SyncInit, SyncInv, SourceOK, SyncOK

LEMMA SyncStep == SyncInv /\ [SyncNext]_syncVars => SyncInv'
<1> SUFFICES ASSUME SyncInv, [SyncNext]_syncVars
             PROVE  SyncInv'
  OBVIOUS
<1>1. CASE UNCHANGED syncVars
  <2>1. UNCHANGED <<today, postings, catalog, source, sync>>
    BY <1>1 DEF syncVars
  <2>2. sync # NoSource => RefreshOK(sync')
    BY <2>1 DEF SyncInv, SyncOK
  <2>3. SyncOK'
    BY <2>1, <2>2, RefreshStays DEF SyncOK
  <2> QED
    BY <2>1, <2>3, SourceStays DEF SyncInv
<1>2. CASE \E mode \in {"smart", "full"} : StartSync(mode)
  BY <1>2, StartSyncKeeps
<1>3. CASE \E channel \in Channels, failed, late \in BOOLEAN : ReadChannel(channel, failed, late)
  BY <1>3, ReadChannelKeeps
<1>4. CASE Backfill
  BY <1>4, BackfillKeeps
<1>5. CASE HistoryRead
  BY <1>5, HistoryReadKeeps
<1>6. CASE \E name \in Others, quality \in 0..2 : ReadOthers(name, quality)
  BY <1>6, ReadOthersKeeps
<1>7. CASE CommitSync
  BY <1>7, CommitSyncKeeps
<1>8. CASE AbandonSync
  BY <1>8, AbandonSyncKeeps
<1>9. CASE NextDay
  BY <1>9, NextDayKeeps
<1>10. CASE \E p \in Postings : PostingChanges(p)
  BY <1>10, PostingChangesKeeps
<1> QED
  BY <1>1, <1>2, <1>3, <1>4, <1>5, <1>6, <1>7, <1>8, <1>9, <1>10 DEF SyncNext

-----------------------------------------------------------------------------
\* The inductive invariant: what is settled of the source and of a candidate
\* is what Ozon has, and evidence is linked to what it was asked for.
THEOREM SyncInvAlways == SyncSpec => []SyncInv
BY SyncStart, SyncStep, PTL DEF SyncSpec

\* Where a channel of a candidate is complete, its history is exactly what
\* Ozon had in the window when it was read, whatever the order of full and
\* smart refreshes, failures, backfills and skipped days before it.
THEOREM HistoryIsExact == SyncSpec => []HistoryExact
<1>1. SyncInv => HistoryExact
  BY NamesFacts DEF SyncInv, SyncOK, RefreshOK, HistoryExact, Candidate
<1> QED
  BY <1>1, SyncInvAlways, PTL

\* Evidence of a candidate claims no more than its data holds.
THEOREM EvidenceIsHonest == SyncSpec => []EvidenceHonest
<1>1. SyncInv => EvidenceHonest
  BY NamesFacts DEF SyncInv, SyncOK, RefreshOK, EvidenceHonest, Candidate, Linked
<1> QED
  BY <1>1, SyncInvAlways, PTL

-----------------------------------------------------------------------------
(* The length of a window.  Windows start at a Monday, so the weeks a      *)
(* smart refresh takes the coverage for are its weeks exactly, and what a  *)
(* backfill adds never goes beyond MaxWeeks before the present one.        *)

WholeWeek(day) == \E k \in Int : day = k * Week
Dated(evidence) == \A name \in DOMAIN evidence : evidence[name] \in EvidenceType
\* No window starts earlier than this allows.
Spanned(from) == WholeWeek(from) /\ from > FirstDay - (MaxWeeks + 1) * Week
\* What a refresh takes its coverage for, it has.
Covering(s) == s.weeks = MaxWeeks \/ s.from >= WeekStart(today) - s.weeks * Week

SpanInv ==
    /\ today \in FirstDay..LastDay /\ catalog \in 1..MaxCatalog /\ faults \in 0..MaxFaults
    /\ source # NoSource => Dated(source.evidence) /\ Spanned(source.from)
    /\ sync # NoSource => Dated(sync.evidence) /\ Spanned(sync.from) /\ Covering(sync)

LEMMA TimesAtLeast ==
    ASSUME NEW a \in Int, NEW b \in Int, NEW w \in Nat \ {0}, a <= b
    PROVE  a * w \in Int /\ b * w \in Int /\ a * w <= b * w
<1>1. PICK d \in Nat : b = a + d
  <2>1. b - a \in Nat /\ b = a + (b - a)
    OBVIOUS
  <2> QED
    BY <2>1
<1>2. d * w \in Nat /\ (a + d) * w = a * w + d * w /\ a * w \in Int
  OBVIOUS
<1> QED
  BY <1>1, <1>2

LEMMA TimesApart ==
    ASSUME NEW a \in Int, NEW b \in Int, NEW w \in Nat \ {0}
    PROVE  /\ (a - b) * w = a * w - b * w /\ (a + b) * w = a * w + b * w
           /\ a * w \in Int /\ b * w \in Int /\ (a - b) * w \in Int /\ (a + b) * w \in Int
OBVIOUS

LEMMA WholeWeeks ==
    ASSUME NEW d \in Int, NEW w \in Nat \ {0}
    PROVE  (d * w) \div w = d
<1> DEFINE n == d * w
           q == n \div w
           r == n % w
<1>1. n \in Int
  BY TimesApart
<1>2. q \in Int /\ r \in Int /\ n = w * q + r /\ 0 <= r /\ r < w
  <2> HIDE DEF n
  <2> QED
    BY <1>1
<1> HIDE DEF q, r
<1>3. w * q = q * w /\ q * w \in Int
  BY <1>2
<1>4. CASE q < d
  <2>1. (q + 1) * w <= d * w /\ (q + 1) * w = q * w + 1 * w /\ 1 * w = w
    BY <1>2, <1>4, TimesAtLeast, TimesApart
  <2> QED
    BY <1>2, <1>3, <2>1, TimesApart
<1>5. CASE q > d
  <2>1. (d + 1) * w <= q * w /\ (d + 1) * w = d * w + 1 * w /\ 1 * w = w
    BY <1>2, <1>5, TimesAtLeast, TimesApart
  <2> QED
    BY <1>2, <1>3, <2>1, TimesApart
<1> QED
  BY <1>2, <1>4, <1>5 DEF q

LEMMA WeekStartNear ==
    ASSUME NEW day \in Nat
    PROVE  WholeWeek(WeekStart(day)) /\ WeekStart(day) \in Int /\ WeekStart(day) > day - Week
<1>1. day \div Week \in Int /\ day % Week \in Int /\ day % Week < Week
      /\ day = Week * (day \div Week) + (day % Week) /\ Week * (day \div Week) \in Int
  BY SyncConstants
<1>2. PICK k \in Int : k = day \div Week
  BY <1>1
<1>3. Week * k = k * Week
  BY SyncConstants
<1>4. WeekStart(day) = k * Week
  BY <1>2, <1>3 DEF WeekStart
<1>5. k * Week > day - Week
  BY <1>1, <1>2, <1>3, SyncConstants
<1> QED
  BY <1>1, <1>2, <1>3, <1>4, <1>5 DEF WholeWeek

\* A window of that many weeks before the present one starts late enough.
LEMMA LateEnough ==
    ASSUME NEW day \in Nat, day >= FirstDay, NEW weeks \in Nat, weeks <= MaxWeeks, NEW from \in Int,
           WholeWeek(from), from >= WeekStart(day) - weeks * Week
    PROVE  Spanned(from)
<1>1. weeks * Week <= MaxWeeks * Week /\ (MaxWeeks + 1) * Week = MaxWeeks * Week + 1 * Week
      /\ weeks * Week \in Int /\ MaxWeeks * Week \in Int /\ 1 * Week = Week
  BY SyncConstants, TimesAtLeast, TimesApart
<1>2. WeekStart(day) > day - Week /\ WeekStart(day) \in Int
  BY WeekStartNear
<1>3. from > FirstDay - (MaxWeeks + 1) * Week
  BY <1>1, <1>2, SyncConstants
<1> QED
  BY <1>3 DEF Spanned

LEMMA CoverageKnown ==
    ASSUME NEW day \in Nat, NEW from \in Int, WholeWeek(from)
    PROVE  LET weeks == CoveredWeeks(day, from)
           IN weeks = MaxWeeks \/ from >= WeekStart(day) - weeks * Week
<1>1. PICK k \in Int : WeekStart(day) = k * Week
  BY WeekStartNear DEF WholeWeek
<1>2. PICK m \in Int : from = m * Week
  BY DEF WholeWeek
<1>3. WeekStart(day) - from = (k - m) * Week /\ k - m \in Int
  BY <1>1, <1>2, SyncConstants, TimesApart
<1>4. (WeekStart(day) - from) \div Week = k - m
  BY <1>3, SyncConstants, WholeWeeks
<1>5. PICK c \in Int : c = k - m
  BY <1>3
<1>6. CoveredWeeks(day, from) = Max({InitialWeeks, Min({MaxWeeks, c})})
  BY <1>4, <1>5 DEF CoveredWeeks
<1>7. Min({MaxWeeks, c}) \in {MaxWeeks, c} /\ Min({MaxWeeks, c}) <= c /\ Min({MaxWeeks, c}) <= MaxWeeks
  <2>1. MaxWeeks \in Int
    BY SyncConstants
  <2> QED
    BY <2>1, MinOfTwo
<1>8. PICK l \in Int : l = Min({MaxWeeks, c})
  BY <1>7, SyncConstants
<1>9. Max({InitialWeeks, l}) \in {InitialWeeks, l} /\ Max({InitialWeeks, l}) >= InitialWeeks
      /\ Max({InitialWeeks, l}) >= l
  BY SyncConstants, MaxOfTwo
<1>10. PICK w \in Int : w = CoveredWeeks(day, from)
  BY <1>6, <1>8, <1>9, SyncConstants
<1>11. w = Max({InitialWeeks, l})
  BY <1>6, <1>8, <1>10
<1>12. w = MaxWeeks \/ w >= c
  BY <1>7, <1>8, <1>9, <1>11, SyncConstants
<1>13. ASSUME w >= c
       PROVE  from >= WeekStart(day) - w * Week
  <2>1. c * Week <= w * Week /\ c * Week \in Int /\ w * Week \in Int
    BY <1>13, SyncConstants, TimesAtLeast
  <2>2. WeekStart(day) - from = c * Week /\ WeekStart(day) \in Int
    BY <1>3, <1>5, WeekStartNear
  <2> QED
    BY <2>1, <2>2
<1> QED
  BY <1>10, <1>12, <1>13

LEMMA NewEvidence ==
    ASSUME today \in FirstDay..LastDay, NEW quality \in 0..2, NEW legacy \in BOOLEAN,
           NEW version \in 0..MaxCatalog
    PROVE  SyncEvidence(quality, legacy, version) \in EvidenceType
BY DEF SyncEvidence, EvidenceType

\* A step that leaves the source and the calendar, and keeps the window.
LEMMA SpanStays ==
    ASSUME SpanInv, UNCHANGED <<today, catalog, source>>, faults' \in 0..MaxFaults,
           sync' # NoSource => Dated(sync'.evidence) /\ Spanned(sync'.from) /\ Covering(sync')
    PROVE  SpanInv'
<1>1. sync' # NoSource => Dated(sync.evidence)' /\ Spanned(sync.from)' /\ Covering(sync)'
  BY DEF Dated, Spanned, Covering, WholeWeek, WeekStart
<1>2. source' # NoSource => Dated(source.evidence)' /\ Spanned(source.from)'
  BY DEF SpanInv, Dated, Spanned, WholeWeek
<1> QED
  BY <1>1, <1>2 DEF SpanInv

LEMMA SpanStart == SyncInit => SpanInv
BY SyncAssumption DEF SyncInit, SpanInv

LEMMA SpanStartSync ==
    ASSUME SyncInv, SpanInv, NEW mode, StartSync(mode)
    PROVE  SpanInv'
<1> DEFINE full == mode = "full" \/ source = NoSource
           from == IF full THEN WeekStart(today) - InitialWeeks * Week ELSE source.from
           weeks == IF full THEN InitialWeeks ELSE CoveredWeeks(today, source.from)
<1>1. UNCHANGED <<today, catalog, source, faults>> /\ today \in Nat /\ today >= FirstDay
  BY SyncConstants DEF StartSync, SpanInv
<1>2. sync'.from = from /\ sync'.weeks = weeks /\ sync'.evidence = NoEvidence
  BY DEF StartSync
<1>3. Dated(sync'.evidence)
  BY <1>2 DEF Dated, NoEvidence
<1>4. CASE full
  <2>1. /\ WeekStart(today) \in Int /\ WholeWeek(WeekStart(today)) /\ InitialWeeks \in Nat
        /\ InitialWeeks <= MaxWeeks /\ InitialWeeks * Week \in Int
    BY <1>1, SyncConstants, WeekStartNear
  <2>2. WholeWeek(WeekStart(today) - InitialWeeks * Week)
    <3>1. PICK k \in Int : WeekStart(today) = k * Week
      BY <2>1 DEF WholeWeek
    <3>2. WeekStart(today) - InitialWeeks * Week = (k - InitialWeeks) * Week
      BY <2>1, <3>1, SyncConstants, TimesApart
    <3>3. k - InitialWeeks \in Int
      BY <2>1
    <3> QED
      BY <3>2, <3>3 DEF WholeWeek
  <2>3. WeekStart(today) - InitialWeeks * Week \in Int
        /\ WeekStart(today) - InitialWeeks * Week >= WeekStart(today) - InitialWeeks * Week
    BY <2>1
  <2>4. Spanned(WeekStart(today) - InitialWeeks * Week)
    BY <1>1, <2>1, <2>2, <2>3, LateEnough
  <2> QED
    BY <1>1, <1>2, <1>3, <1>4, <2>3, <2>4, SpanStays DEF Covering, SpanInv
<1>5. CASE ~full
  <2>1. source # NoSource /\ source.from \in Int /\ Spanned(source.from) /\ WholeWeek(source.from)
    BY <1>5 DEF SpanInv, SyncInv, SourceOK, Spanned
  <2>2. sync'.from = source.from /\ sync'.weeks = CoveredWeeks(today, source.from)
    BY <1>2, <1>5
  <2>3. Covering(sync')
    BY <1>1, <2>1, <2>2, CoverageKnown DEF Covering
  <2> QED
    BY <1>1, <1>3, <2>1, <2>2, <2>3, SpanStays DEF SpanInv
<1> QED
  BY <1>4, <1>5

LEMMA SpanReadChannel ==
    ASSUME SyncInv, SpanInv, NEW channel \in Channels, NEW failed \in BOOLEAN, NEW late \in BOOLEAN,
           ReadChannel(channel, failed, late)
    PROVE  SpanInv'
<1>1. /\ UNCHANGED <<today, catalog, source>> /\ sync # NoSource /\ sync \in SyncType
      /\ Dated(sync.evidence) /\ Spanned(sync.from) /\ Covering(sync)
      /\ today \in FirstDay..LastDay /\ 0 \in 0..MaxCatalog
  BY SyncConstants DEF ReadChannel, SpanInv, SyncInv, SyncOK, RefreshOK
<1>2. PICK quality \in 0..2 :
        /\ sync'.evidence = [name \in DOMAIN sync.evidence \cup {channel} |->
               IF name = channel THEN SyncEvidence(quality, late, 0) ELSE sync.evidence[name]]
        /\ sync'.from = sync.from /\ sync'.weeks = sync.weeks
  BY <1>1 DEF ReadChannel, SyncType
<1>3. Dated(sync'.evidence)
  BY <1>1, <1>2, NewEvidence DEF Dated
<1>4. faults' \in 0..MaxFaults
  <2>1. faults \in 0..MaxFaults /\ MaxFaults \in Nat
    BY SyncAssumption DEF SpanInv
  <2>2. faults' = faults \/ (faults < MaxFaults /\ faults' = faults + 1)
    BY DEF ReadChannel
  <2> QED
    BY <2>1, <2>2
<1> QED
  BY <1>1, <1>2, <1>3, <1>4, SpanStays DEF Covering

LEMMA SpanBackfill ==
    ASSUME SyncInv, SpanInv, Backfill
    PROVE  SpanInv'
<1> DEFINE weeks == MoreWeeks(sync.weeks)
           from == sync.from - (weeks - sync.weeks) * Week
<1>1. /\ UNCHANGED <<today, catalog, source, faults>> /\ sync # NoSource /\ sync \in SyncType
      /\ Spanned(sync.from) /\ Covering(sync) /\ sync.weeks <= MaxWeeks /\ weeks # sync.weeks
      /\ today \in Nat /\ today >= FirstDay
  BY SyncConstants DEF Backfill, SpanInv, SyncInv, SyncOK, RefreshOK
<1>2. /\ sync.from \in Int /\ sync.weeks \in Nat
      /\ weeks \in Nat /\ weeks >= sync.weeks /\ weeks <= MaxWeeks
  BY <1>1, WeeksFacts DEF SyncType
<1>3. sync'.from = from /\ sync'.weeks = weeks /\ sync'.evidence = NoEvidence
  BY <1>1 DEF Backfill, SyncType
<1> HIDE DEF weeks
<1>4. sync.weeks # MaxWeeks
  BY <1>1, <1>2, SyncConstants
<1>5. sync.from >= WeekStart(today) - sync.weeks * Week
  BY <1>1, <1>4 DEF Covering
<1>6. /\ (weeks - sync.weeks) * Week = weeks * Week - sync.weeks * Week
      /\ weeks * Week \in Int /\ sync.weeks * Week \in Int
  BY <1>2, SyncConstants, TimesApart
<1>7. WeekStart(today) \in Int
  BY <1>1, WeekStartNear
<1>8. from \in Int /\ from >= WeekStart(today) - weeks * Week
  BY <1>2, <1>5, <1>6, <1>7
<1>9. WholeWeek(from)
  <2>1. PICK k \in Int : sync.from = k * Week
    BY <1>1 DEF Spanned, WholeWeek
  <2>2. PICK d \in Int : d = weeks - sync.weeks
    BY <1>2
  <2>3. from = (k - d) * Week /\ k - d \in Int
    BY <2>1, <2>2, SyncConstants, TimesApart
  <2> QED
    BY <2>3 DEF WholeWeek
<1> HIDE DEF from
<1>10. Spanned(sync'.from) /\ Covering(sync')
  BY <1>1, <1>2, <1>3, <1>8, <1>9, LateEnough DEF Covering
<1>11. Dated(sync'.evidence)
  BY <1>3 DEF Dated, NoEvidence
<1> QED
  BY <1>1, <1>10, <1>11, SpanStays DEF SpanInv

LEMMA SpanHistoryRead ==
    ASSUME SyncInv, SpanInv, HistoryRead
    PROVE  SpanInv'
<1> DEFINE short == TooShort /\ ~sync.full
<1>1. /\ UNCHANGED <<today, catalog, source, faults>> /\ sync # NoSource /\ sync \in SyncType
      /\ Dated(sync.evidence) /\ Spanned(sync.from) /\ Covering(sync)
  BY DEF HistoryRead, SpanInv, SyncInv, SyncOK, RefreshOK
<1>2. /\ sync'.from = sync.from /\ sync'.weeks = sync.weeks
      /\ sync'.evidence = IF short
             THEN [name \in DOMAIN sync.evidence |-> [sync.evidence[name] EXCEPT !.quality = 0]]
             ELSE sync.evidence
  BY <1>1 DEF HistoryRead, SyncType
<1> HIDE DEF short
<1>3. Dated(sync'.evidence)
  BY <1>1, <1>2 DEF Dated, EvidenceType
<1> QED
  BY <1>1, <1>2, <1>3, SpanStays DEF Covering, SpanInv

LEMMA SpanReadOthers ==
    ASSUME SyncInv, SpanInv, NEW weak \in Others, NEW quality \in 0..2, ReadOthers(weak, quality)
    PROVE  SpanInv'
<1> DEFINE answered(name) == IF name = weak THEN quality ELSE 2
           version == IF answered("products") = 0 THEN 0 ELSE catalog
           reused(name) == ~sync.full /\ Reused(source, name, version)
           usable(name) == answered(name) > 0 \/ reused(name)
           found(name) ==
               IF \E other \in Needs(name) : ~usable(other)
               THEN SyncEvidence(0, FALSE, version)
               ELSE IF reused(name) THEN source.evidence[name]
               ELSE SyncEvidence(answered(name), FALSE, version)
           evidence == [name \in Endpoints |->
                           IF name \in Channels THEN sync.evidence[name] ELSE found(name)]
           faulty == sync.faulty \/ quality < 2
<1>1. /\ UNCHANGED <<today, catalog, source>> /\ sync # NoSource /\ RefreshOK(sync)
      /\ sync.stage = "others" /\ Dated(sync.evidence) /\ Spanned(sync.from) /\ Covering(sync)
      /\ today \in FirstDay..LastDay /\ catalog \in 1..MaxCatalog
  BY DEF ReadOthers, SpanInv, SyncInv, SyncOK
<1>2. PICK named :
        /\ named \in BOOLEAN
        /\ sync' = [sync EXCEPT
               !.stage = "commit", !.catalog = version,
               !.named = IF reused("product_attributes") THEN source.named
                         ELSE named /\ found("product_attributes").quality > 0,
               !.evidence = evidence, !.faulty = faulty]
  BY ZenonT(30) DEF ReadOthers
<1>3. /\ sync \in SyncType /\ sync.evidence \in EvidenceOf(Channels)
      /\ \A name : reused(name) => source # NoSource
  BY <1>1, NamesFacts DEF RefreshOK
<1>4. source # NoSource => source.evidence \in EvidenceOf(Endpoints) /\ Dated(source.evidence)
  BY DEF SyncInv, SourceOK, SpanInv
<1>5. version \in 0..MaxCatalog /\ \A name : answered(name) \in 0..2
  BY <1>1, SyncConstants
<1> HIDE DEF answered, version
<1>6. \A name \in Others : found(name) \in EvidenceType
  <2>1. \A name \in Others : reused(name) => source.evidence[name] \in EvidenceType
    BY <1>3, <1>4 DEF EvidenceOf, Endpoints, Dated
  <2>2. /\ SyncEvidence(0, FALSE, version) \in EvidenceType
        /\ \A name : SyncEvidence(answered(name), FALSE, version) \in EvidenceType
    <3>1. \A q \in 0..2 : SyncEvidence(q, FALSE, version) \in EvidenceType
      BY <1>1, <1>5 DEF SyncEvidence, EvidenceType
    <3>2. 0 \in 0..2
      OBVIOUS
    <3> QED
      BY <1>5, <3>1, <3>2
  <2> QED
    BY <2>1, <2>2 DEF found
<1> HIDE DEF found
<1>7. Dated(evidence)
  <2>1. \A name \in Channels : sync.evidence[name] \in EvidenceType
    BY <1>1, <1>3 DEF Dated, EvidenceOf
  <2> QED
    BY <1>6, <2>1 DEF Dated, Endpoints
<1> HIDE DEF evidence, faulty, reused
<1>8. sync'.evidence = evidence /\ sync'.from = sync.from /\ sync'.weeks = sync.weeks
  BY <1>2, <1>3 DEF SyncType
<1>9. faults' \in 0..MaxFaults
  <2>1. faults \in 0..MaxFaults /\ MaxFaults \in Nat
    BY SyncAssumption DEF SpanInv
  <2>2. faults' = faults \/ (faults < MaxFaults /\ faults' = faults + 1)
    BY DEF ReadOthers
  <2> QED
    BY <2>1, <2>2
<1> QED
  BY <1>1, <1>7, <1>8, <1>9, SpanStays DEF Covering

LEMMA SpanCommit ==
    ASSUME SyncInv, SpanInv, CommitSync
    PROVE  SpanInv'
<1>1. /\ UNCHANGED <<today, catalog, faults>> /\ sync' = NoSource /\ sync # NoSource
      /\ Dated(sync.evidence) /\ Spanned(sync.from)
  BY DEF CommitSync, SpanInv
<1>2. source' = source \/ (source'.from = sync.from /\ source'.evidence = sync.evidence)
  BY DEF CommitSync
<1>3. source' # NoSource => Dated(source.evidence)' /\ Spanned(source.from)'
  BY <1>1, <1>2 DEF SpanInv, Dated, Spanned, WholeWeek
<1> QED
  BY <1>1, <1>3 DEF SpanInv

LEMMA SpanNextDay ==
    ASSUME SyncInv, SpanInv, NextDay
    PROVE  SpanInv'
<1>1. /\ today' = today + 1 /\ today < LastDay /\ UNCHANGED <<source, sync, faults>>
      /\ sync = NoSource /\ catalog' \in {catalog, Min({catalog + 1, MaxCatalog})}
      /\ today \in FirstDay..LastDay /\ catalog \in 1..MaxCatalog
  BY DEF NextDay, SpanInv
<1>2. today' \in FirstDay..LastDay
  BY <1>1, SyncConstants
<1>3. catalog' \in 1..MaxCatalog
  <2>1. catalog + 1 \in Int /\ MaxCatalog \in Int /\ MaxCatalog > 0
    BY <1>1, SyncAssumption
  <2>2. /\ Min({catalog + 1, MaxCatalog}) \in {catalog + 1, MaxCatalog}
        /\ Min({catalog + 1, MaxCatalog}) <= MaxCatalog
    BY <2>1, MinOfTwo
  <2> QED
    BY <1>1, <2>1, <2>2
<1>4. source' # NoSource => Dated(source.evidence)' /\ Spanned(source.from)'
  BY <1>1 DEF SpanInv, Dated, Spanned, WholeWeek
<1> QED
  BY <1>1, <1>2, <1>3, <1>4 DEF SpanInv

LEMMA SpanStep == SyncInv /\ SpanInv /\ [SyncNext]_syncVars => SpanInv'
<1> SUFFICES ASSUME SyncInv, SpanInv, [SyncNext]_syncVars
             PROVE  SpanInv'
  OBVIOUS
<1>1. ASSUME UNCHANGED <<today, catalog, source, sync, faults>>
      PROVE  SpanInv'
  BY <1>1, SpanStays DEF SpanInv, Covering
<1>2. CASE AbandonSync
  BY <1>2, SpanStays DEF AbandonSync, SpanInv
<1>3. CASE \E p \in Postings : PostingChanges(p)
  BY <1>1, <1>3 DEF PostingChanges
<1>4. CASE UNCHANGED syncVars
  BY <1>1, <1>4 DEF syncVars
<1> QED
  BY <1>2, <1>3, <1>4, SpanStartSync, SpanReadChannel, SpanBackfill, SpanHistoryRead,
     SpanReadOthers, SpanCommit, SpanNextDay DEF SyncNext

(* Whatever refreshes, backfills and failures come, the evidence of the    *)
(* source is typed and dated within the calendar, and its window is no     *)
(* longer than the policy allows.                                          *)
THEOREM SyncTypesCorrect == SyncSpec => []SyncTypeOK
<1>1. SyncInv /\ SpanInv => SyncTypeOK
  <2> SUFFICES ASSUME SyncInv, SpanInv
               PROVE  SyncTypeOK
    OBVIOUS
  <2>1. ASSUME source # NoSource
        PROVE  /\ source.evidence \in [Endpoints -> EvidenceType]
               /\ source.to - source.from < (MaxWeeks + 1) * Week + (LastDay - FirstDay)
    <3>1. /\ source.evidence \in EvidenceOf(Endpoints) /\ Dated(source.evidence)
          /\ source.from \in Int /\ source.to \in Nat /\ source.to <= today /\ Spanned(source.from)
      BY <2>1 DEF SyncInv, SourceOK, SpanInv
    <3>2. source.evidence \in [Endpoints -> EvidenceType]
      BY <3>1 DEF EvidenceOf, Dated
    <3>3. PICK b \in Int : b = (MaxWeeks + 1) * Week
      BY SyncConstants
    <3>4. source.from > FirstDay - b
      BY <3>1, <3>3 DEF Spanned
    <3>5. today <= LastDay /\ today \in Nat /\ LastDay \in Nat /\ FirstDay \in Nat
      BY SyncConstants DEF SpanInv
    <3> QED
      BY <3>1, <3>2, <3>3, <3>4, <3>5
  <2> QED
    BY <2>1 DEF SyncInv, SpanInv, SyncTypeOK
<1>2. SyncInv /\ SpanInv /\ [SyncNext]_syncVars => (SyncInv /\ SpanInv)'
  BY SyncStep, SpanStep
<1> QED
  BY <1>1, <1>2, SyncStart, SpanStart, PTL DEF SyncSpec

-----------------------------------------------------------------------------
(* EvidenceReconciliation.  After any part of the rows, what is kept of a  *)
(* thing says exactly what those rows say of it together - nothing when none*)
(* speaks, the one value when they agree, a mark that stays when two of them*)
(* differ.  Such a description does not mention their order, so reading one*)
(* more row in any place keeps it.  A product is joined after all other rows,*)
(* when what its article means can no longer change.                       *)

Seen == input.rows \ pending

\* The rows that speak of a recommendation, an article, its packs, its stock.
Advises(r, k) ==
    IF input.mode = "api" THEN r.kind = "ozon" /\ <<r.sku, r.label>> = k
    ELSE /\ r.kind = "stock" /\ InCatalog(r) /\ r.value # None
         /\ <<r.sku, Resolved(r.label)>> = k
Speaks(r, a) ==
    /\ r.article = a
    /\ r.kind = "fact" \/ (r.kind = "stock" /\ InCatalog(r) /\ Resolved(r.label) # None)
PacksSeen(r, a) == r.kind = "pack" /\ r.article = a
Counts(r, s) == r.kind \in {"stock", "seller"} /\ r.sku = s /\ InCatalog(r) /\ r.units # None

Agreed ==
    \A k \in KnownSkus \X Tariffed :
        /\ k \in contradicted <=>
              \E x, y \in Seen : Advises(x, k) /\ Advises(y, k) /\ x.value # y.value
        /\ k \in DOMAIN recommended <=>
              k \notin contradicted /\ \E x \in Seen : Advises(x, k)
        /\ k \in DOMAIN recommended =>
              \A x \in Seen : Advises(x, k) => x.value = recommended[k]

Named ==
    \A a \in Articles :
        /\ a \in DOMAIN primary <=> \E x \in Seen : Speaks(x, a)
        /\ a \in DOMAIN primary => \E x \in Seen : Speaks(x, a) /\ x.sku = primary[a]
        /\ a \in primaryConflicts <=>
              a \in DOMAIN primary /\ \E x \in Seen : Speaks(x, a) /\ x.sku # primary[a]

Packed ==
    \A a \in Articles :
        /\ a \in DOMAIN packs <=> \E x \in Seen : PacksSeen(x, a)
        /\ a \in DOMAIN packs =>
              \/ \A x \in Seen : PacksSeen(x, a) => x.value = packs[a]
              \/ /\ packs[a] = None
                 /\ \E x, y \in Seen : PacksSeen(x, a) /\ PacksSeen(y, a) /\ x.value # y.value

Counted ==
    /\ \A s \in DOMAIN units : units[s] \subseteq {r.units : r \in input.rows}
    /\ \A r \in Seen : Counts(r, r.sku) => r.sku \in DOMAIN units /\ r.units \in units[r.sku]

Joined ==
    /\ joined # {} => \A x \in pending : x.kind = "unitka"
    /\ \A j \in joined :
          \/ \E r \in input.rows : r.kind = "unitka" /\ r.sku = j.sku
          \/ \A x \in Seen : Speaks(x, j.article) => x.sku = j.sku

EvidenceInv ==
    /\ input \in Inputs
    /\ ReconcileTypeOK
    /\ Agreed /\ Named /\ Packed /\ Counted /\ Joined

-----------------------------------------------------------------------------
(* Finite sets.                                                            *)

\* The values of finitely many rows are finitely many.
LEMMA FiniteValues ==
    ASSUME NEW S, IsFiniteSet(S), NEW T, NEW f \in [S -> T], \A t \in T : \E s \in S : f[s] = t
    PROVE  IsFiniteSet(T)
BY FS_Surjection DEF Surjection

\* A finite set has more than one element when two of them differ.
LEMMA MoreThanOne ==
    ASSUME NEW S, IsFiniteSet(S)
    PROVE  /\ Cardinality(S) > 1 <=> \E x, y \in S : x # y
           /\ Cardinality(S) = 1 <=> S # {} /\ \A x, y \in S : x = y
<1>0. Cardinality(S) \in Nat
  BY FS_CardinalityType
<1>1. Cardinality(S) = 0 <=> S = {}
  BY FS_EmptySet
<1>2. Cardinality(S) = 1 <=> \E x : S = {x}
  BY FS_Singleton
<1>3. Cardinality(S) = 1 <=> S # {} /\ \A x, y \in S : x = y
  <2>1. ASSUME S # {}, \A x, y \in S : x = y  PROVE \E x : S = {x}
    <3>1. PICK x : x \in S
      BY <2>1
    <3>2. S = {x}
      BY <2>1, <3>1
    <3> QED
      BY <3>2
  <2> QED
    BY <1>2, <2>1
<1> QED
  BY <1>0, <1>1, <1>3

-----------------------------------------------------------------------------
(* One more row.                                                           *)

\* What a reading of row r changes in any case: r is read, the input is the same.
ReadOne(r) == /\ r \in input.rows /\ Seen' = Seen \cup {r} /\ input' = input
              /\ pending' = pending \ {r}

LEMMA ReadMore ==
    ASSUME EvidenceInv, NEW r, NEW kind, Read(r, kind)
    PROVE  ReadOne(r) /\ r.kind = kind /\ r \in pending
BY DEF EvidenceInv, ReconcileTypeOK, Read, ReadOne, Seen

\* What a row says does not depend on what was read.
LEMMA SameMeaning ==
    ASSUME input' = input
    PROVE  /\ \A x, k : Advises(x, k)' <=> Advises(x, k)
           /\ \A x, a : Speaks(x, a)' <=> Speaks(x, a)
           /\ \A x, a : PacksSeen(x, a)' <=> PacksSeen(x, a)
           /\ \A x, s : Counts(x, s)' <=> Counts(x, s)
           /\ KnownSkus' = KnownSkus /\ Articles' = Articles
BY DEF Advises, Speaks, PacksSeen, Counts, InCatalog, Resolved, KnownSkus, Articles

\* A row that recommends nothing leaves the recommendations what they are.
LEMMA SilentOnAdvice ==
    ASSUME Agreed, NEW r, ReadOne(r), UNCHANGED recVars,
           \A k \in KnownSkus \X Tariffed : ~Advises(r, k)
    PROVE  Agreed'
<1>1. /\ \A x, k : Advises(x, k)' <=> Advises(x, k)
      /\ KnownSkus' = KnownSkus
  BY SameMeaning DEF ReadOne
<1> SUFFICES ASSUME NEW k \in KnownSkus \X Tariffed
             PROVE  /\ k \in contradicted' <=> \E x, y \in Seen' :
                         Advises(x, k) /\ Advises(y, k) /\ x.value # y.value
                    /\ k \in DOMAIN recommended' <=>
                         k \notin contradicted' /\ \E x \in Seen' : Advises(x, k)
                    /\ k \in DOMAIN recommended' =>
                         \A x \in Seen' : Advises(x, k) => x.value = recommended'[k]
  BY <1>1, ZenonT(30) DEF Agreed
<1>2. Seen' = Seen \cup {r} /\ ~Advises(r, k)
  BY DEF ReadOne
<1>3. contradicted' = contradicted /\ recommended' = recommended
  BY DEF recVars
<1>4. \A x : x \in Seen' /\ Advises(x, k) <=> x \in Seen /\ Advises(x, k)
  BY <1>2
<1> QED
  BY <1>3, <1>4 DEF Agreed

\* A row that recommends q for j, as the others do or not.
LEMMA MoreAdvice ==
    ASSUME Agreed, NEW r, ReadOne(r), NEW j, Recommend(j, r.value),
           \A k \in KnownSkus \X Tariffed : Advises(r, k) <=> k = j
    PROVE  Agreed'
<1>1. /\ \A x, k : Advises(x, k)' <=> Advises(x, k)
      /\ KnownSkus' = KnownSkus
  BY SameMeaning DEF ReadOne
<1> SUFFICES ASSUME NEW k \in KnownSkus \X Tariffed
             PROVE  /\ k \in contradicted' <=> \E x, y \in Seen' :
                         Advises(x, k) /\ Advises(y, k) /\ x.value # y.value
                    /\ k \in DOMAIN recommended' <=>
                         k \notin contradicted' /\ \E x \in Seen' : Advises(x, k)
                    /\ k \in DOMAIN recommended' =>
                         \A x \in Seen' : Advises(x, k) => x.value = recommended'[k]
  BY <1>1, ZenonT(30) DEF Agreed
<1>2. Seen' = Seen \cup {r} /\ (Advises(r, k) <=> k = j)
  BY DEF ReadOne
<1>3. /\ k \in contradicted <=>
            \E x, y \in Seen : Advises(x, k) /\ Advises(y, k) /\ x.value # y.value
      /\ k \in DOMAIN recommended <=>
            k \notin contradicted /\ \E x \in Seen : Advises(x, k)
      /\ k \in DOMAIN recommended =>
            \A x \in Seen : Advises(x, k) => x.value = recommended[k]
  BY DEF Agreed
<1>4. CASE k # j
  <2>1. \A x : x \in Seen' /\ Advises(x, k) <=> x \in Seen /\ Advises(x, k)
    BY <1>2, <1>4
  <2>2. /\ k \in contradicted' <=> k \in contradicted
        /\ k \in DOMAIN recommended' <=> k \in DOMAIN recommended
        /\ k \in DOMAIN recommended => recommended'[k] = recommended[k]
    BY <1>4 DEF Recommend, Put
  <2> QED
    BY <1>3, <2>1, <2>2
<1>5. CASE k = j /\ k \in DOMAIN recommended /\ recommended[k] # r.value
  <2>1. k \in contradicted' /\ k \notin DOMAIN recommended'
    BY <1>5 DEF Recommend
  <2>2. \E x, y \in Seen' : Advises(x, k) /\ Advises(y, k) /\ x.value # y.value
    BY <1>2, <1>3, <1>5
  <2> QED
    BY <2>1, <2>2
<1>6. CASE k = j /\ ~(k \in DOMAIN recommended /\ recommended[k] # r.value)
  <2>1. /\ contradicted' = contradicted
        /\ recommended' = IF k \in contradicted THEN recommended
                          ELSE Put(recommended, k, r.value)
    BY <1>6 DEF Recommend
  <2>2. CASE k \in contradicted
    BY <1>2, <1>3, <2>1, <2>2
  <2>3. CASE k \notin contradicted
    <3>1. k \in DOMAIN recommended' /\ recommended'[k] = r.value
      BY <2>1, <2>3 DEF Put
    <3>2. \A x \in Seen' : Advises(x, k) => x.value = r.value
      BY <1>2, <1>3, <1>6, <2>3
    <3> QED
      BY <1>2, <1>6, <2>1, <2>3, <3>1, <3>2
  <2> QED
    BY <2>2, <2>3
<1> QED
  BY <1>4, <1>5, <1>6

\* A row that names no article leaves the articles what they are.
LEMMA SilentOnNames ==
    ASSUME Named, NEW r, ReadOne(r), UNCHANGED articleVars,
           \A a \in Articles : ~Speaks(r, a)
    PROVE  Named'
<1>1. /\ \A x, a : Speaks(x, a)' <=> Speaks(x, a)
      /\ Articles' = Articles
  BY SameMeaning DEF ReadOne
<1> SUFFICES ASSUME NEW a \in Articles
             PROVE  /\ a \in DOMAIN primary' <=> \E x \in Seen' : Speaks(x, a)
                    /\ a \in DOMAIN primary' =>
                         \E x \in Seen' : Speaks(x, a) /\ x.sku = primary'[a]
                    /\ a \in primaryConflicts' <=>
                         /\ a \in DOMAIN primary'
                         /\ \E x \in Seen' : Speaks(x, a) /\ x.sku # primary'[a]
  BY <1>1, Zenon DEF Named
<1>2. \A x : x \in Seen' /\ Speaks(x, a) <=> x \in Seen /\ Speaks(x, a)
  BY DEF ReadOne
<1>3. primary' = primary /\ primaryConflicts' = primaryConflicts
  BY DEF articleVars
<1> QED
  BY <1>2, <1>3 DEF Named

\* A row that names its article, as the others do or not.
LEMMA MoreNames ==
    ASSUME Named, NEW r, ReadOne(r), NameArticle(r),
           \A a \in Articles : Speaks(r, a) <=> r.article = a
    PROVE  Named'
<1>1. /\ \A x, a : Speaks(x, a)' <=> Speaks(x, a)
      /\ Articles' = Articles
  BY SameMeaning DEF ReadOne
<1> SUFFICES ASSUME NEW a \in Articles
             PROVE  /\ a \in DOMAIN primary' <=> \E x \in Seen' : Speaks(x, a)
                    /\ a \in DOMAIN primary' =>
                         \E x \in Seen' : Speaks(x, a) /\ x.sku = primary'[a]
                    /\ a \in primaryConflicts' <=>
                         /\ a \in DOMAIN primary'
                         /\ \E x \in Seen' : Speaks(x, a) /\ x.sku # primary'[a]
  BY <1>1, Zenon DEF Named
<1>2. Seen' = Seen \cup {r} /\ (Speaks(r, a) <=> r.article = a)
  BY DEF ReadOne
<1>3. /\ a \in DOMAIN primary <=> \E x \in Seen : Speaks(x, a)
      /\ a \in DOMAIN primary => \E x \in Seen : Speaks(x, a) /\ x.sku = primary[a]
      /\ a \in primaryConflicts <=>
            a \in DOMAIN primary /\ \E x \in Seen : Speaks(x, a) /\ x.sku # primary[a]
  BY DEF Named
<1>4. a # None
  BY DEF Articles
<1>5. CASE r.article # a
  <2>1. \A x : x \in Seen' /\ Speaks(x, a) <=> x \in Seen /\ Speaks(x, a)
    BY <1>2, <1>5
  <2>2. /\ a \in primaryConflicts' <=> a \in primaryConflicts
        /\ a \in DOMAIN primary' <=> a \in DOMAIN primary
        /\ a \in DOMAIN primary => primary'[a] = primary[a]
    BY <1>5 DEF NameArticle, Put, articleVars
  <2> QED
    BY <1>3, <2>1, <2>2
<1>6. CASE r.article = a /\ a \in DOMAIN primary /\ primary[a] # r.sku
  <2>1. primary' = primary /\ a \in primaryConflicts'
    BY <1>4, <1>6 DEF NameArticle
  <2> QED
    BY <1>2, <1>3, <1>6, <2>1
<1>7. CASE r.article = a /\ ~(a \in DOMAIN primary /\ primary[a] # r.sku)
  <2>1. /\ primaryConflicts' = primaryConflicts
        /\ a \in DOMAIN primary' /\ primary'[a] = r.sku
    BY <1>4, <1>7 DEF NameArticle, Put
  <2> QED
    BY <1>2, <1>3, <1>7, <2>1
<1> QED
  BY <1>5, <1>6, <1>7

\* A row that is no pack multiple leaves the multiples what they are.
LEMMA SilentOnPacks ==
    ASSUME Packed, NEW r, ReadOne(r), UNCHANGED packs, r.kind # "pack"
    PROVE  Packed'
<1>1. /\ \A x, a : PacksSeen(x, a)' <=> PacksSeen(x, a)
      /\ Articles' = Articles
  BY SameMeaning DEF ReadOne
<1> SUFFICES ASSUME NEW a \in Articles
             PROVE  /\ a \in DOMAIN packs' <=> \E x \in Seen' : PacksSeen(x, a)
                    /\ a \in DOMAIN packs' =>
                         \/ \A x \in Seen' : PacksSeen(x, a) => x.value = packs'[a]
                         \/ /\ packs'[a] = None
                            /\ \E x, y \in Seen' :
                                  PacksSeen(x, a) /\ PacksSeen(y, a) /\ x.value # y.value
  BY <1>1, Zenon DEF Packed
<1>2. \A x : x \in Seen' /\ PacksSeen(x, a) <=> x \in Seen /\ PacksSeen(x, a)
  BY DEF ReadOne, PacksSeen
<1> QED
  BY <1>2 DEF Packed

\* One more pack multiple.
LEMMA MorePacks ==
    ASSUME Packed, NEW r, ReadOne(r), ReadPack(r)
    PROVE  Packed'
<1>1. /\ \A x, a : PacksSeen(x, a)' <=> PacksSeen(x, a)
      /\ Articles' = Articles
  BY SameMeaning DEF ReadOne
<1> SUFFICES ASSUME NEW a \in Articles
             PROVE  /\ a \in DOMAIN packs' <=> \E x \in Seen' : PacksSeen(x, a)
                    /\ a \in DOMAIN packs' =>
                         \/ \A x \in Seen' : PacksSeen(x, a) => x.value = packs'[a]
                         \/ /\ packs'[a] = None
                            /\ \E x, y \in Seen' :
                                  PacksSeen(x, a) /\ PacksSeen(y, a) /\ x.value # y.value
  BY <1>1, Zenon DEF Packed
<1>2. Seen' = Seen \cup {r} /\ (PacksSeen(r, a) <=> r.article = a)
  BY DEF ReadOne, ReadPack, Read, PacksSeen
<1>3. /\ a \in DOMAIN packs <=> \E x \in Seen : PacksSeen(x, a)
      /\ a \in DOMAIN packs =>
            \/ \A x \in Seen : PacksSeen(x, a) => x.value = packs[a]
            \/ /\ packs[a] = None
               /\ \E x, y \in Seen : PacksSeen(x, a) /\ PacksSeen(y, a) /\ x.value # y.value
  BY DEF Packed
<1>4. packs' = Put(packs, r.article,
                   IF r.article \notin DOMAIN packs \/ packs[r.article] = r.value
                   THEN r.value ELSE None)
  BY DEF ReadPack
<1>5. CASE r.article # a
  <2>1. \A x : x \in Seen' /\ PacksSeen(x, a) <=> x \in Seen /\ PacksSeen(x, a)
    BY <1>2, <1>5
  <2>2. /\ a \in DOMAIN packs' <=> a \in DOMAIN packs
        /\ a \in DOMAIN packs => packs'[a] = packs[a]
    BY <1>4, <1>5 DEF Put
  <2> QED
    BY <1>3, <2>1, <2>2
<1>6. CASE r.article = a /\ (a \notin DOMAIN packs \/ packs[a] = r.value)
  <2>1. a \in DOMAIN packs' /\ packs'[a] = r.value
    BY <1>4, <1>6 DEF Put
  <2> QED
    BY <1>2, <1>3, <1>6, <2>1
<1>7. CASE r.article = a /\ a \in DOMAIN packs /\ packs[a] # r.value
  <2>1. a \in DOMAIN packs' /\ packs'[a] = None
    BY <1>4, <1>7 DEF Put
  <2>2. \E x, y \in Seen' : PacksSeen(x, a) /\ PacksSeen(y, a) /\ x.value # y.value
    BY <1>2, <1>3, <1>7
  <2> QED
    BY <1>2, <1>7, <2>1, <2>2
<1> QED
  BY <1>5, <1>6, <1>7

\* A row that counts nothing leaves the stock figures what they are.
LEMMA SilentOnUnits ==
    ASSUME Counted, NEW r, ReadOne(r), UNCHANGED units, ~Counts(r, r.sku)
    PROVE  Counted'
<1>1. \A x, s : Counts(x, s)' <=> Counts(x, s)
  BY SameMeaning DEF ReadOne
<1>2. Seen' = Seen \cup {r} /\ input' = input
  BY DEF ReadOne
<1>3. \A x \in Seen' : Counts(x, x.sku)' => x.sku \in DOMAIN units' /\ x.units \in units'[x.sku]
  BY <1>1, <1>2 DEF Counted
<1> QED
  BY <1>2, <1>3 DEF Counted

\* One more figure for the stock of a product.
LEMMA MoreUnits ==
    ASSUME Counted, NEW r, ReadOne(r), CountUnits(r)
    PROVE  Counted'
<1>1. \A x, s : Counts(x, s)' <=> Counts(x, s)
  BY SameMeaning DEF ReadOne
<1>2. Seen' = Seen \cup {r} /\ input' = input /\ r \in input.rows
  BY DEF ReadOne
<1>3. CASE r.units = None
  <2>1. units' = units /\ ~Counts(r, r.sku)
    BY <1>3 DEF CountUnits, Counts
  <2> QED
    BY <2>1, SilentOnUnits
<1>4. CASE r.units # None
  <2>1. units' = AddTo(units, r.sku, r.units)
    BY <1>4 DEF CountUnits
  <2>2. /\ DOMAIN units' = DOMAIN units \cup {r.sku}
        /\ r.units \in units'[r.sku]
        /\ \A n \in units'[r.sku] : n = r.units \/ (r.sku \in DOMAIN units /\ n \in units[r.sku])
        /\ r.sku \in DOMAIN units => \A n \in units[r.sku] : n \in units'[r.sku]
        /\ \A x \in DOMAIN units : x # r.sku => units'[x] = units[x]
    BY <2>1 DEF AddTo, Put
  <2>3. \A x \in Seen' : Counts(x, x.sku)' =>
            x.sku \in DOMAIN units' /\ x.units \in units'[x.sku]
    <3> SUFFICES ASSUME NEW x \in Seen', Counts(x, x.sku)
                 PROVE  x.sku \in DOMAIN units' /\ x.units \in units'[x.sku]
      BY <1>1
    <3>1. CASE x = r
      BY <2>2, <3>1
    <3>2. CASE x \in Seen
      <4>1. x.sku \in DOMAIN units /\ x.units \in units[x.sku]
        BY <3>2 DEF Counted
      <4> QED
        BY <2>2, <4>1
    <3> QED
      BY <1>2, <3>1, <3>2
  <2>4. \A s \in DOMAIN units' : units'[s] \subseteq {x.units : x \in input.rows}
    <3> SUFFICES ASSUME NEW s \in DOMAIN units', NEW n \in units'[s]
                 PROVE  n \in {x.units : x \in input.rows}
      OBVIOUS
    <3>1. n = r.units \/ (s \in DOMAIN units /\ n \in units[s])
      BY <2>2
    <3> QED
      BY <1>2, <3>1 DEF Counted
  <2> QED
    BY <1>2, <2>3, <2>4 DEF Counted
<1> QED
  BY <1>3, <1>4

\* While a row of another kind is unread nothing is joined.
LEMMA NothingJoinedYet ==
    ASSUME Joined, NEW r \in pending, r.kind # "unitka", UNCHANGED joined
    PROVE  Joined'
<1>1. joined = {}
  BY DEF Joined
<1> QED
  BY <1>1 DEF Joined

-----------------------------------------------------------------------------
(* Each reading keeps the invariant.                                       *)

\* A label means a cluster of the tariffs or nothing.
LEMMA LabelMeans ==
    ASSUME NEW label
    PROVE  Resolved(label) \in Tariffed \cup {None}
BY DEF Resolved

\* A recommendation about a known product keeps the types of recommendations.
LEMMA AdviceTypes ==
    ASSUME ReconcileTypeOK, NEW j, NEW q, Recommend(j, q), j[1] \in KnownSkus, input' = input
    PROVE  /\ DOMAIN recommended' \cap contradicted' = {}
           /\ \A k \in DOMAIN recommended' \cup contradicted' : k[1] \in KnownSkus'
<1>1. /\ DOMAIN recommended \cap contradicted = {}
      /\ \A k \in DOMAIN recommended \cup contradicted : k[1] \in KnownSkus
      /\ KnownSkus' = KnownSkus
  BY DEF ReconcileTypeOK, KnownSkus
<1>2. CASE j \in DOMAIN recommended /\ recommended[j] # q
  <2>1. /\ contradicted' = contradicted \cup {j}
        /\ DOMAIN recommended' = DOMAIN recommended \ {j}
    BY <1>2 DEF Recommend
  <2> QED
    BY <1>1, <2>1
<1>3. CASE ~(j \in DOMAIN recommended /\ recommended[j] # q)
  <2>1. /\ contradicted' = contradicted
        /\ recommended' = IF j \in contradicted THEN recommended ELSE Put(recommended, j, q)
    BY <1>3 DEF Recommend
  <2>2. DOMAIN recommended' = (DOMAIN recommended \cup {j}) \ contradicted
    BY <1>1, <2>1 DEF Put
  <2> QED
    BY <1>1, <2>1, <2>2
<1> QED
  BY <1>2, <1>3

\* An article that a row of the input names is one of the articles.
LEMMA NameTypes ==
    ASSUME ReconcileTypeOK, NEW r \in input.rows, NameArticle(r), input' = input
    PROVE  DOMAIN primary' \subseteq Articles'
<1>1. DOMAIN primary \subseteq Articles /\ Articles' = Articles
  BY DEF ReconcileTypeOK, Articles
<1>2. r.article # None => r.article \in Articles
  BY DEF Articles
<1> QED
  BY <1>1, <1>2 DEF NameArticle, Put, articleVars

\* Types, part by part: what a reading leaves alone keeps its type.
LEMMA PartsTyped ==
    ASSUME ReconcileTypeOK, NEW r, ReadOne(r),
           \/ UNCHANGED recVars
           \/ /\ DOMAIN recommended' \cap contradicted' = {}
              /\ \A k \in DOMAIN recommended' \cup contradicted' : k[1] \in KnownSkus',
           DOMAIN primary' = DOMAIN primary \/ DOMAIN primary' \subseteq Articles',
           DOMAIN fallback' = DOMAIN fallback \/ DOMAIN fallback' \subseteq Articles',
           DOMAIN packs' = DOMAIN packs \/ DOMAIN packs' \subseteq Articles',
           \/ UNCHANGED keptOrders
           \/ \A o \in keptOrders' : o.to \in Tariffed /\ o.from \in Tariffed \cup {None}
    PROVE  ReconcileTypeOK'
<1>1. KnownSkus' = KnownSkus /\ Articles' = Articles /\ input' = input
  BY SameMeaning DEF ReadOne
<1>2. pending' \subseteq input'.rows
  BY <1>1 DEF ReadOne, ReconcileTypeOK
<1>3. /\ DOMAIN recommended' \cap contradicted' = {}
      /\ \A k \in DOMAIN recommended' \cup contradicted' : k[1] \in KnownSkus'
  BY <1>1 DEF ReconcileTypeOK, recVars
<1>4. DOMAIN primary' \cup DOMAIN fallback' \cup DOMAIN packs' \subseteq Articles'
  BY <1>1 DEF ReconcileTypeOK
<1>5. \A o \in keptOrders' : o.to \in Tariffed /\ o.from \in Tariffed \cup {None}
  BY DEF ReconcileTypeOK
<1> QED
  BY <1>2, <1>3, <1>4, <1>5 DEF ReconcileTypeOK

\* What the input promises of a row.
LEMMA RowOfInput ==
    ASSUME EvidenceInv, NEW r \in input.rows
    PROVE  /\ r.kind \in {"stock", "ozon"} => r.sku \in KnownSkus
           /\ r.kind = "pack" => r.article \in Articles
           /\ r.article # None => r.article \in Articles
BY InputsAssumption DEF EvidenceInv, KnownSkus, Articles

LEMMA StockRowStep ==
    ASSUME EvidenceInv, NEW r, ReadStock(r)
    PROVE  EvidenceInv'
<1> DEFINE c == Resolved(r.label)
<1>0. ReconcileTypeOK /\ Agreed /\ Named /\ Packed /\ Counted /\ Joined
  BY DEF EvidenceInv
<1>1. ReadOne(r) /\ r.kind = "stock" /\ r \in pending /\ r \in input.rows
  BY ReadMore DEF ReadStock, ReadOne
<1>2. UNCHANGED <<fallback, packs, keptOrders, joined>> /\ input' = input
  BY <1>1 DEF ReadStock, Left, ReadOne
<1>3. c \in Tariffed \cup {None} /\ None \notin Tariffed
  BY LabelMeans, InputsAssumption
<1>4. Packed' /\ Joined'
  BY <1>0, <1>1, <1>2, SilentOnPacks, NothingJoinedYet
<1>5. Counted'
  <2>1. CASE ~InCatalog(r)
    BY <1>0, <1>1, <2>1, SilentOnUnits DEF ReadStock, Left, Counts
  <2>2. CASE InCatalog(r)
    BY <1>0, <1>1, <2>2, MoreUnits DEF ReadStock
  <2> QED
    BY <2>1, <2>2
<1>6. Named' /\ (DOMAIN primary' = DOMAIN primary \/ DOMAIN primary' \subseteq Articles')
  <2>1. CASE ~InCatalog(r) \/ c = None
    <3>1. UNCHANGED articleVars
      BY <2>1 DEF ReadStock, Left
    <3>2. \A a \in Articles : ~Speaks(r, a)
      BY <1>1, <2>1 DEF Speaks
    <3> QED
      BY <1>0, <1>1, <3>1, <3>2, SilentOnNames DEF articleVars
  <2>2. CASE InCatalog(r) /\ c # None
    <3>1. NameArticle(r)
      BY <2>2 DEF ReadStock
    <3>2. \A a \in Articles : Speaks(r, a) <=> r.article = a
      BY <1>1, <2>2 DEF Speaks
    <3> QED
      BY <1>0, <1>1, <1>2, <3>1, <3>2, MoreNames, NameTypes
  <2> QED
    BY <2>1, <2>2
<1>7. /\ Agreed'
      /\ \/ UNCHANGED recVars
         \/ /\ DOMAIN recommended' \cap contradicted' = {}
            /\ \A k \in DOMAIN recommended' \cup contradicted' : k[1] \in KnownSkus'
  <2>1. CASE ~InCatalog(r) \/ c = None \/ r.value = None \/ input.mode = "api"
    <3>1. UNCHANGED recVars
      BY <2>1 DEF ReadStock, Left
    <3>2. ASSUME NEW k \in KnownSkus \X Tariffed, Advises(r, k) PROVE FALSE
      <4>1. InCatalog(r) /\ r.value # None /\ <<r.sku, c>> = k /\ input.mode # "api"
        BY <1>1, <3>2 DEF Advises
      <4>2. c \in Tariffed
        BY <4>1
      <4> QED
        BY <1>3, <2>1, <4>1, <4>2
    <3> QED
      BY <1>0, <1>1, <3>1, <3>2, SilentOnAdvice
  <2>2. CASE InCatalog(r) /\ c # None /\ r.value # None /\ input.mode # "api"
    <3>1. Recommend(<<r.sku, c>>, r.value)
      BY <2>2 DEF ReadStock
    <3>2. \A k \in KnownSkus \X Tariffed : Advises(r, k) <=> k = <<r.sku, c>>
      BY <1>1, <2>2 DEF Advises
    <3>3. <<r.sku, c>>[1] \in KnownSkus
      BY <1>1, RowOfInput
    <3>4. Agreed'
      BY <1>0, <1>1, <3>1, <3>2, MoreAdvice
    <3> QED
      BY <1>0, <1>2, <3>1, <3>3, <3>4, AdviceTypes
  <2> QED
    BY <2>1, <2>2
<1>8. ReconcileTypeOK'
  BY <1>0, <1>1, <1>2, <1>6, <1>7, PartsTyped
<1> QED
  BY <1>2, <1>4, <1>5, <1>6, <1>7, <1>8 DEF EvidenceInv

LEMMA SellerStep ==
    ASSUME EvidenceInv, NEW r, ReadSeller(r)
    PROVE  EvidenceInv'
<1>0. ReconcileTypeOK /\ Agreed /\ Named /\ Packed /\ Counted /\ Joined
  BY DEF EvidenceInv
<1>1. ReadOne(r) /\ r.kind = "seller" /\ r \in pending
  BY ReadMore DEF ReadSeller
<1>2. /\ UNCHANGED <<recVars, articleVars, fallback, packs, keptOrders, joined>>
      /\ input' = input
  BY <1>1 DEF ReadSeller, ReadOne
<1>3. \A k, a : ~Advises(r, k) /\ ~Speaks(r, a)
  BY <1>1 DEF Advises, Speaks
<1>4. Agreed' /\ Named' /\ Packed' /\ Joined'
  BY <1>0, <1>1, <1>2, <1>3, SilentOnAdvice, SilentOnNames, SilentOnPacks, NothingJoinedYet
<1>5. Counted'
  <2>1. CASE ~InCatalog(r)
    BY <1>0, <1>1, <2>1, SilentOnUnits DEF ReadSeller, Counts
  <2>2. CASE InCatalog(r)
    BY <1>0, <1>1, <2>2, MoreUnits DEF ReadSeller
  <2> QED
    BY <2>1, <2>2
<1>6. ReconcileTypeOK'
  BY <1>0, <1>1, <1>2, PartsTyped DEF articleVars
<1> QED
  BY <1>2, <1>4, <1>5, <1>6 DEF EvidenceInv

LEMMA RecommendationStep ==
    ASSUME EvidenceInv, NEW r, ReadRecommendation(r)
    PROVE  EvidenceInv'
<1>0. ReconcileTypeOK /\ Agreed /\ Named /\ Packed /\ Counted /\ Joined
  BY DEF EvidenceInv
<1>1. ReadOne(r) /\ r.kind = "ozon" /\ r \in pending /\ r \in input.rows
  BY ReadMore DEF ReadRecommendation, ReadOne
<1>2. /\ UNCHANGED <<units, articleVars, fallback, packs, keptOrders, joined>>
      /\ input' = input
  BY <1>1 DEF ReadRecommendation, ReadOne
<1>3. \A a : ~Speaks(r, a) /\ ~Counts(r, a)
  BY <1>1 DEF Counts, Speaks
<1>4. Counted' /\ Named' /\ Packed' /\ Joined'
  BY <1>0, <1>1, <1>2, <1>3, SilentOnUnits, SilentOnNames, SilentOnPacks, NothingJoinedYet
<1>5. /\ Agreed'
      /\ \/ UNCHANGED recVars
         \/ /\ DOMAIN recommended' \cap contradicted' = {}
            /\ \A k \in DOMAIN recommended' \cup contradicted' : k[1] \in KnownSkus'
  <2>1. CASE input.mode # "api"
    <3>1. \A k : ~Advises(r, k)
      BY <1>1, <2>1 DEF Advises
    <3> QED
      BY <1>0, <1>1, <2>1, <3>1, SilentOnAdvice DEF ReadRecommendation
  <2>2. CASE input.mode = "api"
    <3>1. Recommend(<<r.sku, r.label>>, r.value)
      BY <2>2 DEF ReadRecommendation
    <3>2. \A k \in KnownSkus \X Tariffed : Advises(r, k) <=> k = <<r.sku, r.label>>
      BY <1>1, <2>2 DEF Advises
    <3>3. <<r.sku, r.label>>[1] \in KnownSkus
      BY <1>1, RowOfInput
    <3>4. Agreed'
      BY <1>0, <1>1, <3>1, <3>2, MoreAdvice
    <3> QED
      BY <1>0, <1>2, <3>1, <3>3, <3>4, AdviceTypes
  <2> QED
    BY <2>1, <2>2
<1>6. ReconcileTypeOK'
  BY <1>0, <1>1, <1>2, <1>5, PartsTyped DEF articleVars
<1> QED
  BY <1>2, <1>4, <1>5, <1>6 DEF EvidenceInv

LEMMA FactStep ==
    ASSUME EvidenceInv, NEW r, ReadFact(r)
    PROVE  EvidenceInv'
<1>0. ReconcileTypeOK /\ Agreed /\ Named /\ Packed /\ Counted /\ Joined
  BY DEF EvidenceInv
<1>1. ReadOne(r) /\ r.kind = "fact" /\ r \in pending /\ r \in input.rows
  BY ReadMore DEF ReadFact, ReadOne
<1>2. /\ UNCHANGED <<recVars, units, fallback, packs, keptOrders, joined>>
      /\ input' = input /\ NameArticle(r)
  BY <1>1 DEF ReadFact, ReadOne
<1>3. /\ \A k : ~Advises(r, k) /\ ~Counts(r, k)
      /\ \A a \in Articles : Speaks(r, a) <=> r.article = a
  BY <1>1 DEF Advises, Counts, Speaks
<1>4. Agreed' /\ Counted' /\ Packed' /\ Joined'
  BY <1>0, <1>1, <1>2, <1>3, SilentOnAdvice, SilentOnUnits, SilentOnPacks, NothingJoinedYet
<1>5. Named' /\ DOMAIN primary' \subseteq Articles'
  BY <1>0, <1>1, <1>2, <1>3, MoreNames, NameTypes
<1>6. ReconcileTypeOK'
  BY <1>0, <1>1, <1>2, <1>5, PartsTyped
<1> QED
  BY <1>2, <1>4, <1>5, <1>6 DEF EvidenceInv

LEMMA OrderStep ==
    ASSUME EvidenceInv, NEW r, ReadOrder(r)
    PROVE  EvidenceInv'
<1>0. ReconcileTypeOK /\ Agreed /\ Named /\ Packed /\ Counted /\ Joined
  BY DEF EvidenceInv
<1>1. ReadOne(r) /\ r.kind = "order" /\ r \in pending /\ r \in input.rows
  BY ReadMore DEF ReadOrder, ReadOne
<1>2. /\ UNCHANGED <<recVars, units, articleVars, packs, joined>>
      /\ input' = input
  BY <1>1 DEF ReadOrder, ReadOne
<1>3. \A k : ~Advises(r, k) /\ ~Counts(r, k) /\ ~Speaks(r, k)
  BY <1>1 DEF Advises, Counts, Speaks
<1>4. Agreed' /\ Counted' /\ Named' /\ Packed' /\ Joined'
  BY <1>0, <1>1, <1>2, <1>3, SilentOnAdvice, SilentOnUnits, SilentOnNames, SilentOnPacks,
     NothingJoinedYet
<1>5. /\ DOMAIN fallback' = DOMAIN fallback \/ DOMAIN fallback' \subseteq Articles'
      /\ \A o \in keptOrders' : o.to \in Tariffed /\ o.from \in Tariffed \cup {None}
  <2>1. CASE ~InCatalog(r) \/ Resolved(r.label) = None
    BY <1>0, <2>1 DEF ReadOrder, ReconcileTypeOK
  <2>2. CASE InCatalog(r) /\ Resolved(r.label) # None
    <3>1. Resolved(r.label) \in Tariffed /\ Resolved(r.origin) \in Tariffed \cup {None}
      BY <2>2, LabelMeans
    <3>2. keptOrders' = keptOrders \cup {[sku |-> r.sku, to |-> Resolved(r.label),
                                         from |-> Resolved(r.origin)]}
      BY <2>2 DEF ReadOrder
    <3>3. \A o \in keptOrders' : o.to \in Tariffed /\ o.from \in Tariffed \cup {None}
      BY <1>0, <3>1, <3>2 DEF ReconcileTypeOK
    <3>4. fallback' = IF r.article = None THEN fallback ELSE AddTo(fallback, r.article, r.sku)
      BY <2>2 DEF ReadOrder
    <3>5. DOMAIN fallback \subseteq Articles /\ Articles' = Articles
      BY <1>0, <1>2 DEF ReconcileTypeOK, Articles
    <3>6. r.article # None => r.article \in Articles
      BY <1>1, RowOfInput
    <3>7. DOMAIN fallback' = DOMAIN fallback \/ DOMAIN fallback' \subseteq Articles'
      BY <3>4, <3>5, <3>6 DEF AddTo, Put
    <3> QED
      BY <3>3, <3>7
  <2> QED
    BY <2>1, <2>2
<1>6. ReconcileTypeOK'
  BY <1>0, <1>1, <1>2, <1>5, PartsTyped DEF articleVars
<1> QED
  BY <1>2, <1>4, <1>6 DEF EvidenceInv

LEMMA PackStep ==
    ASSUME EvidenceInv, NEW r, ReadPack(r)
    PROVE  EvidenceInv'
<1>0. ReconcileTypeOK /\ Agreed /\ Named /\ Packed /\ Counted /\ Joined
  BY DEF EvidenceInv
<1>1. ReadOne(r) /\ r.kind = "pack" /\ r \in pending /\ r \in input.rows
  BY ReadMore DEF ReadPack, ReadOne
<1>2. /\ UNCHANGED <<recVars, units, articleVars, fallback, keptOrders, joined>>
      /\ input' = input
  BY <1>1 DEF ReadPack, ReadOne
<1>3. \A k : ~Advises(r, k) /\ ~Counts(r, k) /\ ~Speaks(r, k)
  BY <1>1 DEF Advises, Counts, Speaks
<1>4. Agreed' /\ Counted' /\ Named' /\ Packed' /\ Joined'
  BY <1>0, <1>1, <1>2, <1>3, SilentOnAdvice, SilentOnUnits, SilentOnNames, MorePacks,
     NothingJoinedYet
<1>5. DOMAIN packs' \subseteq Articles'
  <2>1. DOMAIN packs' = DOMAIN packs \cup {r.article}
    BY DEF ReadPack, Put
  <2>2. r.article \in Articles /\ DOMAIN packs \subseteq Articles /\ Articles' = Articles
    BY <1>0, <1>1, <1>2, RowOfInput DEF ReconcileTypeOK, Articles
  <2> QED
    BY <2>1, <2>2
<1>6. ReconcileTypeOK'
  BY <1>0, <1>1, <1>2, <1>5, PartsTyped DEF articleVars
<1> QED
  BY <1>2, <1>4, <1>6 DEF EvidenceInv

LEMMA JoinStep ==
    ASSUME EvidenceInv, NEW r, Join(r)
    PROVE  EvidenceInv'
<1>0. ReconcileTypeOK /\ Agreed /\ Named /\ Packed /\ Counted /\ Joined
  BY DEF EvidenceInv
<1>1. ReadOne(r) /\ r.kind = "unitka" /\ r \in pending /\ r \in input.rows
  BY ReadMore DEF Join, ReadOne
<1>2. /\ UNCHANGED <<recVars, units, articleVars, fallback, packs, keptOrders>>
      /\ input' = input
  BY <1>1 DEF Join, ReadOne
<1>3. \A k : ~Advises(r, k) /\ ~Counts(r, k) /\ ~Speaks(r, k)
  BY <1>1 DEF Advises, Counts, Speaks
<1>4. Agreed' /\ Counted' /\ Named' /\ Packed'
  BY <1>0, <1>1, <1>2, <1>3, SilentOnAdvice, SilentOnUnits, SilentOnNames, SilentOnPacks
<1>5. ReconcileTypeOK'
  BY <1>0, <1>1, <1>2, PartsTyped DEF articleVars
<1>6. ASSUME NEW s, SkusOf(r) = {s}
      PROVE  r.sku = s \/ \A x \in Seen : Speaks(x, r.article) => x.sku = s
  <2>1. CASE r.sku # None
    BY <1>6, <2>1 DEF SkusOf
  <2>2. CASE r.sku = None /\ r.article \notin primaryConflicts /\ r.article \in DOMAIN primary
    <3>1. s = primary[r.article]
      BY <1>6, <2>2 DEF SkusOf
    <3>2. r.article \in Articles
      BY <1>0, <2>2 DEF ReconcileTypeOK
    <3> QED
      BY <1>0, <2>2, <3>1, <3>2 DEF Named
  <2>3. CASE /\ r.sku = None /\ r.article \notin primaryConflicts
             /\ r.article \notin DOMAIN primary /\ r.article \in DOMAIN fallback
    <3>1. r.article \in Articles
      BY <1>0, <2>3 DEF ReconcileTypeOK
    <3> QED
      BY <1>0, <2>3, <3>1 DEF Named
  <2>4. CASE r.sku = None /\ (r.article \in primaryConflicts
                              \/ r.article \notin DOMAIN primary \cup DOMAIN fallback)
    <3>1. SkusOf(r) = {}
      BY <2>4 DEF SkusOf
    <3> QED
      BY <1>6, <3>1
  <2> QED
    BY <2>1, <2>2, <2>3, <2>4
<1>7. Joined'
  <2>1. \A x \in pending' : x.kind = "unitka"
    BY <1>1 DEF Join, ReadOne
  <2>2. ASSUME NEW j \in joined'
        PROVE  \/ \E x \in input.rows : x.kind = "unitka" /\ x.sku = j.sku
               \/ \A x \in Seen : Speaks(x, j.article) => x.sku = j.sku
    <3>1. CASE j \in joined
      BY <1>0, <3>1 DEF Joined
    <3>2. CASE j \notin joined
      <4>1. PICK s \in SkusOf(r) : j = [article |-> r.article, sku |-> s] /\ SkusOf(r) = {s}
        BY <2>2, <3>2 DEF Join
      <4> QED
        BY <1>1, <1>6, <4>1
    <3> QED
      BY <3>1, <3>2
  <2>3. \A x \in Seen' : \A a : Speaks(x, a) => x \in Seen
    BY <1>1, <1>3 DEF ReadOne
  <2>4. \A x, a : Speaks(x, a)' <=> Speaks(x, a)
    BY <1>2, SameMeaning
  <2>5. ASSUME NEW j \in joined'
        PROVE  \/ \E x \in input'.rows : x.kind = "unitka" /\ x.sku = j.sku
               \/ \A x \in Seen' : Speaks(x, j.article)' => x.sku = j.sku
    BY <1>2, <2>2, <2>3, <2>4
  <2> QED
    BY <2>1, <2>5 DEF Joined
<1> QED
  BY <1>2, <1>4, <1>5, <1>7 DEF EvidenceInv

LEMMA InitEvidence == ReconcileInit => EvidenceInv
<1> SUFFICES ASSUME ReconcileInit PROVE EvidenceInv
  OBVIOUS
<1>1. /\ input \in Inputs /\ pending = input.rows /\ Seen = {}
      /\ DOMAIN recommended = {} /\ contradicted = {} /\ DOMAIN units = {}
      /\ DOMAIN primary = {} /\ primaryConflicts = {} /\ DOMAIN fallback = {}
      /\ DOMAIN packs = {} /\ keptOrders = {} /\ joined = {}
  BY DEF ReconcileInit, Seen, Empty
<1>2. ReconcileTypeOK
  BY <1>1 DEF ReconcileTypeOK
<1>3. Agreed /\ Named /\ Packed /\ Counted /\ Joined
  BY <1>1 DEF Agreed, Named, Packed, Counted, Joined
<1> QED
  BY <1>1, <1>2, <1>3 DEF EvidenceInv

LEMMA NextEvidence == EvidenceInv /\ [ReconcileStep]_evidenceVars => EvidenceInv'
<1> SUFFICES ASSUME EvidenceInv, [ReconcileStep]_evidenceVars PROVE EvidenceInv'
  OBVIOUS
<1>1. ASSUME NEW r \in pending, ReadStock(r) PROVE EvidenceInv'
  BY <1>1, StockRowStep
<1>2. ASSUME NEW r \in pending, ReadSeller(r) PROVE EvidenceInv'
  BY <1>2, SellerStep
<1>3. ASSUME NEW r \in pending, ReadRecommendation(r) PROVE EvidenceInv'
  BY <1>3, RecommendationStep
<1>4. ASSUME NEW r \in pending, ReadFact(r) PROVE EvidenceInv'
  BY <1>4, FactStep
<1>5. ASSUME NEW r \in pending, ReadOrder(r) PROVE EvidenceInv'
  BY <1>5, OrderStep
<1>6. ASSUME NEW r \in pending, ReadPack(r) PROVE EvidenceInv'
  BY <1>6, PackStep
<1>7. ASSUME NEW r \in pending, Join(r) PROVE EvidenceInv'
  BY <1>7, JoinStep
<1>8. CASE UNCHANGED evidenceVars
  BY <1>8 DEF evidenceVars, recVars, articleVars, EvidenceInv, ReconcileTypeOK, KnownSkus,
     Articles, Agreed, Named, Packed, Counted, Joined, Seen, Advises, Speaks, PacksSeen, Counts,
     InCatalog, Resolved
<1> QED
  BY <1>1, <1>2, <1>3, <1>4, <1>5, <1>6, <1>7, <1>8 DEF ReconcileStep

(* At all times what is kept describes the rows read so far.               *)
THEOREM EvidenceInvAlways == ReconcileSpec => []EvidenceInv
BY InitEvidence, NextEvidence, PTL DEF ReconcileSpec

(* The evidence has its types at all times: a recommendation is known or   *)
(* disputed, never both, and about a product of the rows; an order that is *)
(* kept goes to a cluster of the tariffs.                                  *)
THEOREM EvidenceTypesCorrect == ReconcileSpec => []ReconcileTypeOK
BY EvidenceInvAlways, PTL DEF EvidenceInv

-----------------------------------------------------------------------------
(* What the description means for the reconciled evidence.                 *)

\* The rows read are finitely many, and so are the values in them.
LEMMA ValuesFinite ==
    ASSUME EvidenceInv
    PROVE  /\ \A k : IsFiniteSet(Recommendations(k))
           /\ \A a : IsFiniteSet(NamesOf(a)) /\ IsFiniteSet(PacksOf(a))
           /\ \A s \in DOMAIN units : IsFiniteSet(units[s])
<1>1. IsFiniteSet(input.rows)
  BY InputsAssumption DEF EvidenceInv
<1> DEFINE Values == {r.value : r \in input.rows}
           Names_ == {r.sku : r \in input.rows}
           Units_ == {r.units : r \in input.rows}
<1>2. IsFiniteSet(Values)
  <2> DEFINE f == [r \in input.rows |-> r.value]
  <2>1. f \in [input.rows -> Values] /\ \A t \in Values : \E s \in input.rows : f[s] = t
    OBVIOUS
  <2> HIDE DEF f, Values
  <2> QED
    BY <1>1, <2>1, FiniteValues
<1>3. IsFiniteSet(Names_)
  <2> DEFINE f == [r \in input.rows |-> r.sku]
  <2>1. f \in [input.rows -> Names_] /\ \A t \in Names_ : \E s \in input.rows : f[s] = t
    OBVIOUS
  <2> HIDE DEF f, Names_
  <2> QED
    BY <1>1, <2>1, FiniteValues
<1>4. IsFiniteSet(Units_)
  <2> DEFINE f == [r \in input.rows |-> r.units]
  <2>1. f \in [input.rows -> Units_] /\ \A t \in Units_ : \E s \in input.rows : f[s] = t
    OBVIOUS
  <2> HIDE DEF f, Units_
  <2> QED
    BY <1>1, <2>1, FiniteValues
<1>5. /\ \A k : Recommendations(k) \subseteq Values
      /\ \A a : NamesOf(a) \subseteq Names_ /\ PacksOf(a) \subseteq Values
      /\ \A s \in DOMAIN units : units[s] \subseteq Units_
  <2>1. \A kind : Done(kind) \subseteq input.rows
    BY DEF Done
  <2>2. \A k : Recommendations(k) \subseteq Values
    BY <2>1 DEF Recommendations
  <2>3. \A a : NamesOf(a) \subseteq Names_
    BY <2>1 DEF NamesOf
  <2>4. \A a : PacksOf(a) \subseteq Values
    BY <2>1 DEF PacksOf
  <2>5. \A s \in DOMAIN units : units[s] \subseteq Units_
    BY DEF EvidenceInv, Counted
  <2> QED
    BY <2>2, <2>3, <2>4, <2>5
<1> HIDE DEF Values, Names_, Units_
<1> QED
  BY <1>2, <1>3, <1>4, <1>5, FS_Subset

\* The sets the property is stated with, in terms of the rows that were read.
LEMMA ReadValues ==
    /\ \A k, q : q \in Recommendations(k) <=> \E x \in Seen : Advises(x, k) /\ x.value = q
    /\ \A a, s : s \in NamesOf(a) <=> \E x \in Seen : Speaks(x, a) /\ x.sku = s
    /\ \A a, q : q \in PacksOf(a) <=> \E x \in Seen : PacksSeen(x, a) /\ x.value = q
<1>1. \A kind, x : x \in Done(kind) <=> x \in Seen /\ x.kind = kind
  BY DEF Done, Seen
<1>2. ASSUME NEW k, NEW q
      PROVE  q \in Recommendations(k) <=> \E x \in Seen : Advises(x, k) /\ x.value = q
  BY <1>1 DEF Recommendations, Advises
<1>3. ASSUME NEW a, NEW s
      PROVE  s \in NamesOf(a) <=> \E x \in Seen : Speaks(x, a) /\ x.sku = s
  BY <1>1 DEF NamesOf, Speaks
<1>4. ASSUME NEW a, NEW q
      PROVE  q \in PacksOf(a) <=> \E x \in Seen : PacksSeen(x, a) /\ x.value = q
  BY <1>1 DEF PacksOf, PacksSeen
<1> QED
  BY <1>2, <1>3, <1>4

(* The evidence does not depend on the order of the rows, nor on how often *)
(* one is repeated: what is known is what all rows that speak of it agree  *)
(* on, what two of them dispute stays unknown, and a product is joined to  *)
(* no SKU but the only one its article can mean.                           *)
THEOREM EvidenceOrderIndependent == ReconcileSpec => []OrderIndependent
<1>1. ASSUME EvidenceInv PROVE OrderIndependent
  <2>0. ReconcileTypeOK /\ Agreed /\ Named /\ Packed /\ Counted /\ Joined /\ input \in Inputs
    BY <1>1 DEF EvidenceInv
  <2>1. ASSUME NEW k \in KnownSkus \X Tariffed
        PROVE  /\ k \in contradicted <=> Cardinality(Recommendations(k)) > 1
               /\ k \in DOMAIN recommended <=> Cardinality(Recommendations(k)) = 1
               /\ k \in DOMAIN recommended => Recommendations(k) = {recommended[k]}
    <3> DEFINE S == Recommendations(k)
    <3>1. /\ Cardinality(S) > 1 <=> \E x, y \in S : x # y
          /\ Cardinality(S) = 1 <=> S # {} /\ \A x, y \in S : x = y
      BY <1>1, ValuesFinite, MoreThanOne
    <3>2. \A q : q \in S <=> \E x \in Seen : Advises(x, k) /\ x.value = q
      BY ReadValues
    <3>3. /\ k \in contradicted <=>
                \E x, y \in Seen : Advises(x, k) /\ Advises(y, k) /\ x.value # y.value
          /\ k \in DOMAIN recommended <=>
                k \notin contradicted /\ \E x \in Seen : Advises(x, k)
          /\ k \in DOMAIN recommended =>
                \A x \in Seen : Advises(x, k) => x.value = recommended[k]
      BY <2>0 DEF Agreed
    <3> HIDE DEF S
    <3>4. k \in contradicted <=> \E x, y \in S : x # y
      BY <3>2, <3>3
    <3>5. k \in DOMAIN recommended <=> S # {} /\ \A x, y \in S : x = y
      <4>1. S # {} <=> \E x \in Seen : Advises(x, k)
        BY <3>2
      <4> QED
        BY <3>3, <3>4, <4>1
    <3>6. k \in DOMAIN recommended => S = {recommended[k]}
      BY <3>2, <3>3
    <3> QED
      BY <3>1, <3>4, <3>5, <3>6 DEF S
  <2>2. ASSUME NEW a \in Articles
        PROVE  /\ a \in primaryConflicts <=> Cardinality(NamesOf(a)) > 1
               /\ a \in DOMAIN packs /\ packs[a] # None => PacksOf(a) = {packs[a]}
               /\ Cardinality(PacksOf(a)) = 1 => PacksOf(a) = {packs[a]}
    <3> DEFINE S == NamesOf(a)
               T == PacksOf(a)
    <3>1. /\ Cardinality(S) > 1 <=> \E x, y \in S : x # y
          /\ Cardinality(T) = 1 <=> T # {} /\ \A x, y \in T : x = y
      BY <1>1, ValuesFinite, MoreThanOne
    <3>2. \A q : q \in S <=> \E x \in Seen : Speaks(x, a) /\ x.sku = q
      BY ReadValues
    <3>3. \A q : q \in T <=> \E x \in Seen : PacksSeen(x, a) /\ x.value = q
      BY ReadValues
    <3> HIDE DEF S, T
    <3>4. a \in primaryConflicts <=> \E x, y \in S : x # y
      BY <2>0, <3>2 DEF Named
    <3>5. a \in DOMAIN packs <=> T # {}
      BY <2>0, <3>3 DEF Packed
    <3>6. a \in DOMAIN packs =>
              \/ \A q \in T : q = packs[a]
              \/ packs[a] = None /\ \E x, y \in T : x # y
      BY <2>0, <3>3 DEF Packed
    <3>7. a \in DOMAIN packs /\ packs[a] # None => T = {packs[a]}
      BY <3>5, <3>6
    <3>8. (T # {} /\ \A x, y \in T : x = y) => T = {packs[a]}
      BY <3>5, <3>6
    <3> QED
      BY <3>1, <3>4, <3>7, <3>8 DEF S, T
  <2>3. ASSUME NEW j \in joined, NEW s \in NamesOf(j.article)
        PROVE  s = j.sku \/ \E r \in input.rows : r.kind = "unitka" /\ r.sku = j.sku
    <3>1. PICK x \in Seen : Speaks(x, j.article) /\ x.sku = s
      BY ReadValues
    <3> QED
      BY <2>0, <3>1 DEF Joined
  <2>4. ASSUME NEW s \in DOMAIN units, SellerStock(s) # None,
               NEW r \in Done("stock") \cup Done("seller"),
               r.sku = s, InCatalog(r), r.units # None
        PROVE  r.units \in {0, SellerStock(s)}
    <3>1. r \in Seen /\ r \in input.rows /\ Counts(r, s)
      BY <2>4 DEF Done, Seen, Counts
    <3>2. r.units \in units[s] /\ r.units \in Nat
      BY <2>0, <2>4, <3>1, InputsAssumption DEF Counted
    <3>3. CASE r.units = 0
      BY <3>3
    <3>4. CASE r.units # 0
      <4>1. r.units \in Positive(s)
        BY <3>2, <3>4 DEF Positive
      <4>2. IsFiniteSet(Positive(s))
        <5>1. IsFiniteSet(units[s]) /\ Positive(s) \subseteq units[s]
          BY <1>1, ValuesFinite DEF Positive
        <5> QED
          BY <5>1, FS_Subset
      <4>3. SellerStock(s) = CHOOSE n \in Positive(s) : TRUE
        BY <2>4, <4>1 DEF SellerStock
      <4>4. ~(Cardinality(Positive(s)) > 1)
        BY <2>4, <4>1 DEF SellerStock
      <4>5. \A x, y \in Positive(s) : x = y
        BY <4>2, <4>4, MoreThanOne
      <4>6. SellerStock(s) \in Positive(s)
        BY <4>1, <4>3
      <4> QED
        BY <4>1, <4>5, <4>6
    <3> QED
      BY <3>3, <3>4
  <2> QED
    BY <2>1, <2>2, <2>3, <2>4 DEF OrderIndependent
<1> QED
  BY <1>1, EvidenceInvAlways, PTL
===============================================================================
