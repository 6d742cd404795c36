---------------------------- MODULE EvidenceReads ----------------------------
(***************************************************************************)
(* The read loops of backend/ozon/adapters: each asks one Ozon endpoint    *)
(* page by page (or one batch at a time), judges every row it is given,    *)
(* and reports what it could not use.  An analysis then treats a SKU that  *)
(* is not reported as known exactly, so a row must never just disappear.   *)
(*                                                                         *)
(* The vendor holds `listing` and answers with its pages; the cursors it   *)
(* hands out may repeat and a page may be empty.  A few pages may be odd:  *)
(* a row nobody asked for, a row repeated, left out or replaced by another *)
(* one, an early end, a wrong total.  No reader is spared any of them.     *)
(* A row carries only what its adapter tells apart.                        *)
(***************************************************************************)
EXTENDS Integers, Sequences, FiniteSets, SequencesExt

CONSTANTS
    Listings,     \* Listings[r]: what the vendor may hold for reader r
    Asked,        \* the SKUs of the batch, or the supply orders
    ReadPage,     \* rows per page
    MaxOddPages   \* pages of a read that differ from an honest answer, cursors aside

Readers == DOMAIN Listings
Batched == {"supply_details", "fbo_stock", "prices", "attributes", "zones"}
Totalled == {"products", "local_sale"}
Asking == Batched \cup {"seller_stock", "local_sale"}    \* for the SKUs of a batch

(* What the vendor may hold: of a batch, rows of what was asked for; of a   *)
(* posting, a life the domain knows or "unknown"; of the catalogue, rows    *)
(* that are told apart by what identifies them.                             *)
ListingOK(r, l) ==
    /\ l \in Seq(ToSet(l)) /\ \A x \in ToSet(l) : "sku" \in DOMAIN x
    /\ r \in Asking => \A x \in ToSet(l) : x.sku \in Asked
    /\ r = "orders" => \A x \in ToSet(l) :
           x.life \in {"fulfilled", "in_progress", "cancelled", "unknown"}
    /\ r = "products" => \A x, y \in ToSet(l) :
           x.named /\ y.named /\ x.sku = y.sku => x = y

ASSUME ReadPageAssumption == ReadPage \in Nat \ {0} /\ MaxOddPages \in Nat
ASSUME ListingsAssumption ==
    /\ Readers \subseteq Batched \cup Totalled
                          \cup {"orders", "bundle", "seller_stock", "supply_list"}
    /\ \A r \in Readers : \A l \in Listings[r] : ListingOK(r, l)
    /\ "stranger" \notin Asked

VARIABLES
    reader,     \* which adapter reads
    listing,    \* the vendor's rows
    cursor,     \* <<position, issue>>: the cursor of the next request
    cursors,    \* the cursors used so far
    promised,   \* the last total the vendor stated, or Unstated
    fetched,    \* rows received
    kept,       \* the rows in the records
    lost,       \* incomplete_skus
    broken,     \* an error diagnostic: the endpoint is not complete
    outcome,    \* "reading", "done" or "failed"
    odd,        \* odd pages the vendor has sent
    received,   \* history: rows of the listing in the pages taken
    skewed      \* history: the vendor repeated, withheld or miscounted rows

readVars == <<reader, listing, cursor, cursors, promised, fetched, kept, lost,
              broken, outcome, odd, received, skewed>>

-----------------------------------------------------------------------------
(* What each adapter does with a row: "keep" it, "quarantine" its SKU, keep *)
(* it and mark its SKU ("partial"), leave it out ("skip"), or give up       *)
(* ("fatal").                                                               *)
DemandLife == {"fulfilled", "in_progress"}

(* Wrong on purpose: a posting with an unknown status is left out silently. *)
PostingVerdictKnown(r) ==
    IF ~r.named THEN "fatal"
    ELSE IF r.whole /\ r.life # "unknown" /\ r.cluster /\ (r.life \in DemandLife => r.date # "none")
         THEN "keep"
    ELSE IF r.life \in DemandLife THEN "quarantine" ELSE "skip"

PostingVerdict(r) ==
    IF ~r.named THEN "fatal"
    ELSE IF r.whole /\ r.life # "unknown" /\ r.cluster /\ (r.life \in DemandLife => r.date # "none")
         THEN "keep"
    ELSE IF r.life \in DemandLife \cup {"unknown"} THEN "quarantine" ELSE "skip"

(* Items of the bundle of a supply that is not final (the bundles of final  *)
(* supplies are not read).  _resolve_supply_cluster: a direct cluster decides, when it is not empty; *)
(* otherwise the cluster of the storage warehouse.                          *)
SupplyCluster(r) ==
    IF r.direct \in {"absent", "empty"} THEN r.storage = "mapped" ELSE r.direct = "known"

SupplyVerdict(r) ==
    IF ~r.named THEN "fatal"
    ELSE IF r.whole /\ r.state = "inbound" /\ SupplyCluster(r) THEN "keep"
    ELSE "quarantine"

StockVerdict(r) ==
    IF ~r.named \/ r.sku \notin Asked THEN "fatal"
    ELSE IF r.whole THEN "keep" ELSE "quarantine"

(* Prices and attributes: a row of an unknown product is counted, not used; *)
(* one without a usable value is kept for its identity.                     *)
FactVerdict(r) ==
    IF ~r.named \/ r.sku \notin Asked THEN "skip"
    ELSE IF r.whole THEN "keep" ELSE "partial"

(* Zones: a row that contradicts an earlier one leaves the SKU without zone *)
ZoneVerdict(r, sofar) ==
    IF ~r.named \/ r.sku \notin Asked THEN "fatal"
    ELSE IF ~r.whole \/ \E k \in sofar : k.sku = r.sku /\ k.zone # r.zone
         THEN "quarantine" ELSE "keep"

(* Recommendations: an unknown cluster marks the SKU; rows that contradict  *)
(* each other stop the read; a row without a recommendation says nothing.   *)
SaleVerdict(r, sofar) ==
    IF ~r.named \/ r.sku \notin Asked THEN "fatal"
    ELSE IF r.cluster = "unknown" THEN "quarantine"
    ELSE IF ~r.whole THEN "skip"
    ELSE IF \E k \in sofar : k.sku = r.sku /\ k.cluster = r.cluster /\ k.advice # r.advice
         THEN "fatal" ELSE "keep"

(* The catalogue and the list of supply orders: identities only.            *)
CatalogVerdict(r, sofar) ==
    IF ~r.named THEN "fatal"
    ELSE IF \E k \in sofar : k.sku = r.sku THEN "skip" ELSE "keep"
ListVerdict(r, sofar) ==
    IF ~r.named \/ \E k \in sofar : k.sku = r.sku THEN "fatal" ELSE "keep"

Verdict(r, sofar) ==
    CASE reader = "orders" -> PostingVerdict(r)
      [] reader = "bundle" -> SupplyVerdict(r)
      [] reader \in {"fbo_stock", "seller_stock"} -> StockVerdict(r)
      [] reader \in {"prices", "attributes"} -> FactVerdict(r)
      [] reader = "zones" -> ZoneVerdict(r, sofar)
      [] reader = "local_sale" -> SaleVerdict(r, sofar)
      [] reader = "products" -> CatalogVerdict(r, sofar)
      [] reader \in {"supply_list", "supply_details"} -> ListVerdict(r, sofar)

-----------------------------------------------------------------------------
(* What the vendor may answer to a request at `cursor`.                     *)
Unstated == -1
Blank == <<0, 0>>       \* no cursor
At == IF reader = "local_sale" THEN fetched ELSE cursor[1]
Rest == SubSeq(listing, At + 1, Len(listing))
HonestRows == IF reader \in Batched THEN listing
              ELSE SubSeq(Rest, 1, IF ReadPage < Len(Rest) THEN ReadPage ELSE Len(Rest))

Fresh == <<At + Len(HonestRows), 0>>
MoreToSend == At + Len(HonestRows) < Len(listing)
Honest == [rows |-> HonestRows, more |-> MoreToSend, next |-> Fresh, total |-> Len(listing)]

\* The total of a bundle may be left out of any page.
OrUntold(P) == P \cup (IF reader = "bundle" THEN {[a EXCEPT !.total = Unstated] : a \in P} ELSE {})

\* A reader with a cursor may be sent no rows yet, or a cursor it had before;
\* to the list of supply orders no cursor is the end.
Further(c, s) == [rows |-> s, more |-> TRUE, next |-> c, total |-> Len(listing)]
Paused == Further(<<At, 1>>, <<>>)
Known == IF reader = "supply_list" THEN cursors \ {Blank} ELSE cursors
Replays == {Further(c, s) : c \in Known, s \in {HonestRows, <<>>}}
Pages == OrUntold({Honest} \cup (IF reader \in Batched THEN {} ELSE {Paused} \cup Replays))

\* Odd pages that withhold nothing: one row more that nobody asked for, or a
\* total that is too large.
StrangeRows == IF reader \in Asking
               THEN {Append(HonestRows, [listing[i] EXCEPT !.sku = "stranger"]) : i \in DOMAIN listing}
               ELSE {}
OddPages == OrUntold({[Honest EXCEPT !.rows = s] : s \in StrangeRows}
                     \cup {[Honest EXCEPT !.total = Len(listing) + 1]})

\* Odd pages that do: a row of the listing repeated, left out, or sent in the
\* place of another; the end before the last row; a total that is too small.
SkewedRows ==
    {<<x>> \o HonestRows : x \in ToSet(listing)}
    \cup {RemoveAt(HonestRows, i) : i \in DOMAIN HonestRows}
    \cup {ReplaceAt(HonestRows, i, x) : i \in DOMAIN HonestRows, x \in ToSet(listing)}
SkewedPages == OrUntold({[Honest EXCEPT !.rows = s] : s \in SkewedRows}
    \cup {[Honest EXCEPT !.more = FALSE]}
    \cup {[Honest EXCEPT !.total = @ - 1] : i \in {1} \cap DOMAIN listing})

-----------------------------------------------------------------------------
(* A page is judged row by row; the first fatal row ends the read.          *)
Judged(rows) ==
    FoldLeft(LAMBDA acc, r :
        LET v == Verdict(r, acc.kept)
        IN [kept |-> IF v \in {"keep", "partial"} THEN acc.kept \cup {r} ELSE acc.kept,
            lost |-> IF v \in {"quarantine", "partial"} THEN acc.lost \cup {r.sku} ELSE acc.lost,
            fatal |-> acc.fatal \/ v = "fatal"],
        [kept |-> kept, lost |-> lost, fatal |-> FALSE], rows)

Undated(rows) == reader = "orders" /\ \E i \in DOMAIN rows : rows[i].date = "broken"

(* Wrong on purpose: the seller-stock loop follows only the latest cursor.  *)
RepeatedElsewhere(a) == /\ a.more /\ a.next \in cursors
                        /\ reader = "seller_stock" => a.next = cursor

Repeated(a) == a.more /\ a.next \in cursors
Now(a) == fetched + Len(a.rows)

(* Each read loop's own checks of a page: what makes it give up...          *)
CursorStops(a) == Repeated(a)
OrdersStop(a) == a.more /\ a.next = Blank
Due(a) == IF a.total = Unstated THEN promised ELSE a.total
BundleStops(a) == \/ promised \notin {Unstated, Due(a)}
                  \/ ~a.more /\ Due(a) \notin {Unstated, Now(a)}
                  \/ Repeated(a)
CatalogStops(a) == \/ promised \notin {Unstated, a.total}
                   \/ a.rows = <<>> /\ fetched < a.total
                   \/ Now(a) > a.total
                   \/ Now(a) < a.total /\ (~a.more \/ Repeated(a))
SaleStops(a) == \/ Now(a) > a.total \/ Len(a.rows) > ReadPage
                \/ a.rows = <<>> /\ fetched < a.total
DetailsStop(a) == {a.rows[i].sku : i \in DOMAIN a.rows} # Asked
GivesUp(a) ==
    CASE reader = "orders" -> OrdersStop(a)
      [] reader \in {"seller_stock", "supply_list"} -> CursorStops(a)
      [] reader = "bundle" -> BundleStops(a)
      [] reader = "products" -> CatalogStops(a)
      [] reader = "local_sale" -> SaleStops(a)
      [] reader = "supply_details" -> DetailsStop(a)
      [] OTHER -> FALSE

(* ... and what makes it the last one.                                      *)
LastPage(a) ==
    CASE reader \in Batched -> TRUE
      [] reader \in Totalled -> Now(a) = a.total
      [] OTHER -> ~a.more \/ Repeated(a)

(* After the last page: SKUs without an answer are incomplete; rows of a    *)
(* SKU whose rows disagree, or name an unknown cluster, are withdrawn.      *)
Unanswered(k) == IF reader \in {"prices", "attributes", "zones"}
               THEN Asked \ {r.sku : r \in k} ELSE {}
Settled(k, l) == IF reader \in {"zones", "local_sale"}
                 THEN {r \in k : r.sku \notin l} ELSE k

ReadInit ==
    /\ reader \in Readers
    /\ listing \in Listings[reader]
    /\ cursor = Blank /\ cursors = {Blank}
    /\ promised = Unstated /\ fetched = 0
    /\ kept = {} /\ lost = {} /\ broken = FALSE
    /\ outcome = "reading" /\ odd = 0
    /\ received = {} /\ skewed = FALSE

(* One answer of the vendor, and what the loop makes of it.                 *)
TakePage(a) ==
    LET j == Judged(a.rows)
    IN IF j.fatal \/ GivesUp(a)
       THEN /\ outcome' = "failed"
            /\ UNCHANGED <<cursor, cursors, promised, fetched, kept, lost, broken, received>>
       ELSE /\ lost' = j.lost \cup (IF LastPage(a) THEN Unanswered(j.kept) ELSE {})
            /\ kept' = IF LastPage(a) THEN Settled(j.kept, j.lost) ELSE j.kept
            /\ outcome' = IF LastPage(a) THEN "done" ELSE "reading"
            /\ broken' = (\/ broken \/ Undated(a.rows)
                          \/ reader = "orders" /\ Repeated(a)
                          \/ reader = "bundle" /\ LastPage(a) /\ Now(a) = 0)
            /\ fetched' = Now(a)
            /\ promised' = Due(a)
            /\ cursor' = a.next
            /\ cursors' = cursors \cup {a.next}
            /\ received' = received \cup (ToSet(a.rows) \cap ToSet(listing))

ReadHonestPage ==
    /\ outcome = "reading"
    /\ \E a \in Pages : TakePage(a)
    /\ UNCHANGED <<reader, listing, odd, skewed>>

ReadOddPage ==
    /\ outcome = "reading" /\ odd < MaxOddPages
    /\ \/ (\E a \in OddPages : TakePage(a)) /\ UNCHANGED skewed
       \/ (\E a \in SkewedPages : TakePage(a)) /\ skewed' = TRUE
    /\ odd' = odd + 1
    /\ UNCHANGED <<reader, listing>>

(* The client gives up: OzonClientError; the source keeps an empty endpoint *)
ReadFails ==
    /\ outcome = "reading"
    /\ outcome' = "failed"
    /\ UNCHANGED <<reader, listing, cursor, cursors, promised, fetched, kept, lost,
                   broken, odd, received, skewed>>

ReadStep == ReadHonestPage \/ ReadOddPage \/ ReadFails
(* A read is a loop of one thread; the vendor answers or the client raises. *)
ReadsRun == WF_readVars(ReadStep)
ReadSpec == ReadInit /\ [][ReadStep]_readVars /\ ReadsRun

-----------------------------------------------------------------------------
(* Type invariant of the reads.                                             *)
ReadTypeOK ==
    /\ reader \in Readers /\ listing \in Listings[reader]
    /\ cursor \in cursors
    /\ promised \in -1..(Len(listing) + 1) /\ fetched \in Nat
    /\ broken \in BOOLEAN /\ odd \in 0..MaxOddPages
    /\ received \subseteq ToSet(listing) /\ skewed \in BOOLEAN
    /\ outcome \in {"reading", "done", "failed"}

Matters(r) == CASE reader = "orders" -> r.life # "cancelled"
                [] reader = "local_sale" -> r.whole
                [] reader \in {"prices", "attributes"} -> r.named
                [] OTHER -> TRUE

(* A read that counts as complete has accounted for everything it was sent: *)
(* each row that matters is in the records, or its SKU is reported as       *)
(* incomplete; no record is of a SKU that was not asked for; a batch has an *)
(* answer or a report for every SKU; no supply order is taken twice; where  *)
(* a total was stated, as many rows were received.  If the vendor has not   *)
(* repeated, withheld or miscounted its rows, that is all it holds, and     *)
(* what is added up is received once.  (Where rows carry no identity the    *)
(* loops cannot tell a vendor that does: see the README.)                   *)
AddedUp == {"orders", "bundle", "fbo_stock", "seller_stock"}
Identified == {"supply_list", "supply_details"}
AccountedFor ==
    outcome = "done" /\ ~broken =>
        /\ \A x \in received : Matters(x) => x \in kept \/ x.sku \in lost
        /\ kept \subseteq received
        /\ reader \in {"prices", "attributes", "zones", "supply_details"} =>
               Asked \subseteq lost \cup {r.sku : r \in kept}
        /\ reader \in Identified => fetched = Cardinality(kept)
        /\ reader \in Totalled \cup {"bundle"} => promised \in {Unstated, fetched}
        /\ ~skewed => /\ ToSet(listing) \subseteq received
                      /\ reader \in AddedUp \cup Identified => fetched = Len(listing)

(* Every read ends, whatever cursors the vendor hands out.                  *)
ReadsEnd == <>(outcome # "reading")
=============================================================================
