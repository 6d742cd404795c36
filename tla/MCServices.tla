------------------------------ MODULE MCServices ------------------------------
(***************************************************************************)
(* The services that share no state and whose threads have to end, on      *)
(* small instances.  A behaviour moves one of them and leaves the others   *)
(* as they are at the start: the states are those of each, side by side.   *)
(***************************************************************************)
EXTENDS OzonClient, PriceEnrichment, EvidenceReads

CONSTANTS stock, create, a1, a2

VARIABLE part    \* the service that moves

-----------------------------------------------------------------------------
(* OzonClient: a cancellable stock read, as a source refresh makes it, and  *)
(* the creation of a draft.                                                *)

TwoCalls == {stock, create}
Reads == {stock}
Doubling == <<1, 2, 2>>
NoBackoff == <<0, 0, 0>>
\* No header, one the client waits for, and one it does not wait for.
Headers == {0, 2, 3}

(* PriceEnrichment: two prices, one of them of a final posting.             *)
TwoPrices == 1..2
BothPrices == {TwoPrices}
OneFinal == {1}
TwoAccounts == {a1, a2}

-----------------------------------------------------------------------------
(* EvidenceReads: what each vendor endpoint may hold.                       *)

UpTo(n, S) == UNION {[1..k -> S] : k \in 0..n}
Named(k, w) == [sku |-> k, named |-> TRUE, whole |-> w]
Order(k, l, w, d, c) == [sku |-> k, named |-> TRUE, life |-> l, whole |-> w, date |-> d, cluster |-> c]
Orders == {Order("a", "fulfilled", TRUE, "ok", TRUE), Order("a", "unknown", TRUE, "ok", TRUE),
    Order("b", "in_progress", TRUE, "none", TRUE), Order("b", "fulfilled", TRUE, "broken", TRUE),
    Order("b", "cancelled", TRUE, "none", FALSE), Order("a", "in_progress", FALSE, "ok", TRUE),
    Order("b", "fulfilled", TRUE, "ok", FALSE)}
Item(k, w, s, d, t) == [sku |-> k, named |-> TRUE, whole |-> w, state |-> s, direct |-> d, storage |-> t]
Bundles == {<<Item("a", TRUE, s, d, t), Item("b", w, s, d, t), Item("c", TRUE, s, d, t)>> :
    s \in {"inbound", "disputed", "unknown"}, w \in BOOLEAN,
    d \in {"absent", "empty", "known", "strange", "invalid"}, t \in {"absent", "mapped"}}
Zone(k, z, w) == [sku |-> k, named |-> TRUE, whole |-> w, zone |-> z]
Zones == {Zone("a", 1, TRUE), Zone("a", 2, TRUE), Zone("a", 0, FALSE), Zone("b", 1, TRUE)}
Sale(k, c, w, q) == [sku |-> k, named |-> TRUE, whole |-> w, cluster |-> c, advice |-> q]
Sales == {Sale("a", "x", TRUE, 1), Sale("a", "x", TRUE, 2), Sale("a", "y", TRUE, 1),
    Sale("b", "unknown", TRUE, 1), Sale("b", "x", FALSE, 0), Sale("b", "x", TRUE, 1)}
Stocks == {Named("a", TRUE), Named("a", FALSE), Named("b", TRUE),
    [Named("b", TRUE) EXCEPT !.named = FALSE]}
Ids == [sku : {"a", "b"}, named : BOOLEAN]
VendorRows ==
    [orders |-> UpTo(3, Orders), bundle |-> Bundles \cup {<<>>},
     fbo_stock |-> UpTo(3, Stocks), seller_stock |-> UpTo(3, Stocks),
     prices |-> UpTo(2, Stocks), attributes |-> UpTo(2, Stocks), zones |-> UpTo(3, Zones),
     local_sale |-> UpTo(3, Sales), products |-> UpTo(3, Ids),
     supply_list |-> UpTo(3, Ids), supply_details |-> UpTo(3, Ids)]

-----------------------------------------------------------------------------
ClientRests == unlocked = FALSE /\ Init
PricesStart == owner \in [account : {a1}, session : {0}, unlocked : {TRUE}] /\ PricesInit
ReadRests == reader = "orders" /\ listing = <<>> /\ ReadInit

MCInit ==
    /\ PricesStart
    /\ \/ part = "client" /\ Init /\ ReadRests
       \/ part = "reads" /\ ReadInit /\ ClientRests
       \/ part = "prices" /\ ClientRests /\ ReadRests

MCNext ==
    \/ part = "client" /\ Next /\ UNCHANGED <<priceVars, readVars, part>>
    \/ part = "prices" /\ PricesNext /\ UNCHANGED <<vars, readVars, part>>
    \/ part = "reads" /\ ReadStep /\ UNCHANGED <<vars, priceVars, part>>

\* The threads of the service run; nothing else is forced to happen.
ThreadsRun ==
    /\ WF_vars(part = "client" /\ Tick)
    /\ \A c \in Calls : WF_vars(part = "client" /\ Step(c))
    /\ WF_priceVars(part = "prices" /\ \E g \in Generations : Work(g))
    /\ WF_readVars(part = "reads" /\ ReadStep)

MCSpec == MCInit /\ [][MCNext]_<<vars, priceVars, readVars, part>> /\ ThreadsRun

\* The type invariant of the service that moves.
ServicesTypeOK ==
    /\ part = "client" => TypeOK
    /\ part = "prices" => PricesTypeOK
    /\ part = "reads" => ReadTypeOK

\* A read that is made ends: no answer of the vendor keeps an adapter asking
\* for further pages.
EveryReadEnds == part = "reads" => ReadsEnd

=============================================================================
