---------------------------- MODULE PriceEnrichment ----------------------------
(***************************************************************************)
(* OrderPriceEnrichment: buyer prices of postings, read one by one in the  *)
(* background after a refresh was committed.  A refresh cancels the worker *)
(* of the source before it; a worker learns that from the generation,      *)
(* which it compares before every request and again when it publishes.     *)
(* Prices are kept for one account, in memory and in a file.               *)
(***************************************************************************)
EXTENDS Naturals, Sequences, SequencesExt

CONSTANTS
    PriceKeys,       \* (posting, lifecycle) pairs
    FinalKeys,       \* those fulfilled or cancelled, which refreshes may reuse
    SourceKeys,      \* sets of prices that the rows of a source may ask for
    PriceAccounts,   \* Ozon accounts
    NoContext,       \* nothing: no account, no source, no request, no file
    Checkpoint,      \* 25 in the code: prices are published and saved that often
    BlockAfter,      \* 3 in the code: failures in a row that open the circuit
    MaxGenerations,  \* bound: cancellations and starts of one process
    MaxUnlocks       \* bound: unlock-session transitions

ASSUME PriceAssumption ==
    /\ IsFiniteSet(PriceKeys) /\ FinalKeys \subseteq PriceKeys
    /\ SourceKeys \subseteq SUBSET PriceKeys
    /\ NoContext \notin PriceAccounts
    /\ Checkpoint \in Nat \ {0} /\ BlockAfter \in Nat \ {0}
    /\ MaxGenerations \in Nat /\ MaxUnlocks \in Nat

VARIABLES
    owner,         \* the vault: its account, the session, whether it is unlocked
    shown,         \* OZON_SOURCE_STORE.latest(), also what the source file holds
    generation,    \* _generation
    published,     \* _published
    priceContext, prices,   \* _context, _cache
    queue,         \* _queue
    file,          \* order-prices.json
    worker,        \* by generation: the thread started with it
    refresh        \* a refresh between its start and its commit

priceStore == <<generation, published, priceContext, prices, queue>>
priceVars == <<owner, shown, priceStore, file, worker, refresh>>

-----------------------------------------------------------------------------
Generations == 1..MaxGenerations
Price == [key : PriceKeys, account : PriceAccounts]
Source == [id : Generations, account : PriceAccounts, keys : SUBSET PriceKeys]
PriceEvidence ==
    [source : Source, prices : SUBSET Price, completed : Nat, total : Nat,
     pending : BOOLEAN, failures : BOOLEAN, persistFailed : BOOLEAN]
ASSUME NothingAssumption == NoContext \notin PriceEvidence

NoWorker == [pc |-> "none", source |-> NoContext, session |-> 0, index |-> 0,
             total |-> 0, request |-> NoContext, failed |-> FALSE, streak |-> 0]
Idle == [pc |-> "idle", account |-> NoContext, session |-> 0, have |-> {}, full |-> FALSE]

SessionActive(session) == owner.unlocked /\ owner.session = session

\* OrderPriceEnrichment.cache: what a refresh of this account need not ask again.
Reusable(account) ==
    IF account = priceContext THEN {p \in prices : p.key \in FinalKeys} ELSE {}

\* The requests for these prices: each once, in the order of the source's rows.
Requests(keys) == SetToSeqs(keys)

\* What start keeps of the cache: nothing of another account or before a full
\* refresh, and only rows of the source.
\* Wrong on purpose: the account is not compared.
KeptOfAnyone(source, reset) ==
    IF reset THEN {} ELSE {p \in prices : p.key \in source.keys}
Kept(source, reset) ==
    IF reset \/ priceContext # source.account THEN {}
    ELSE {p \in prices : p.key \in source.keys}

\* OrderPriceEnrichment.start with the given requests, for the session that
\* refreshed; the worker exists from here on.
Start(source, requests, reset, session) ==
    LET run == generation + 1
        kept == Kept(source, reset)
    IN /\ run <= MaxGenerations
       /\ generation' = run
       /\ priceContext' = source.account
       /\ prices' = kept
       /\ queue' = requests
       /\ published' = [source |-> source, prices |-> kept, completed |-> 0,
                        total |-> Len(requests), pending |-> requests # <<>>,
                        failures |-> FALSE, persistFailed |-> FALSE]
       /\ worker' = [worker EXCEPT ![run] =
              [NoWorker EXCEPT !.pc = "check", !.source = source, !.session = session,
                               !.total = Len(requests)]]

\* OrderPriceEnrichment.cancel without clear.
Cancel ==
    /\ generation < MaxGenerations
    /\ generation' = generation + 1
    /\ published' = IF published = NoContext THEN NoContext
                    ELSE [published EXCEPT !.pending = FALSE]
    /\ UNCHANGED <<priceContext, prices, queue>>
-----------------------------------------------------------------------------
\* A refresh starts: the worker of the present source is cancelled, and a
\* smart refresh takes the prices it need not ask for again.
BeginRefresh(full) ==
    /\ refresh = Idle /\ owner.unlocked
    /\ Cancel
    /\ refresh' = [pc |-> "fetching", account |-> owner.account, session |-> owner.session,
                   have |-> IF full THEN {} ELSE Reusable(owner.account), full |-> full]
    /\ UNCHANGED <<owner, shown, file, worker>>

\* Commit: the candidate becomes the source, and a worker asks for every price
\* the refresh did not have.  Candidates that regress are dropped (EndRefresh).
CommitRefresh(keys) ==
    /\ refresh.pc = "fetching"
    /\ SessionActive(refresh.session)
    /\ LET source == [id |-> generation + 1, account |-> refresh.account, keys |-> keys]
           known == {p.key : p \in refresh.have}
       IN /\ \E requests \in Requests(keys \ known) :
                 Start(source, requests, refresh.full, refresh.session)
          /\ shown' = source
    /\ refresh' = Idle
    /\ UNCHANGED <<owner, file>>

EndRefresh ==
    /\ refresh.pc = "fetching"
    /\ refresh' = Idle
    /\ UNCHANGED <<owner, shown, priceStore, file, worker>>
-----------------------------------------------------------------------------
\* _work, for the thread of generation g.
WorkerAt(g, label) == worker' = [worker EXCEPT ![g].pc = label]
WorkerCurrent(g) == shown = worker[g].source /\ SessionActive(worker[g].session)

WorkCheck(g) ==
    /\ worker[g].pc = "check"
    /\ WorkerAt(g, IF worker[g].index < worker[g].total /\ g = generation /\ WorkerCurrent(g)
               THEN "take" ELSE "finish")
    /\ UNCHANGED <<owner, shown, priceStore, file, refresh>>

WorkTake(g) ==
    /\ worker[g].pc = "take"
    /\ \/ /\ g # generation
          /\ WorkerAt(g, "finish")
          /\ UNCHANGED queue
       \/ /\ g = generation
          /\ worker' = [worker EXCEPT ![g].pc = "read", ![g].request = Head(queue),
                                      ![g].index = @ + 1]
          /\ queue' = Tail(queue)
    /\ UNCHANGED <<owner, shown, generation, published, priceContext, prices, file,
                   refresh>>

\* OrderPriceReader.read.  A blocked endpoint fails without a request; a status
\* that denies access blocks at once; a revoked session ends the thread.
ReadAnswered(g) ==
    /\ worker[g].pc = "read" /\ worker[g].streak < BlockAfter
    /\ worker' = [worker EXCEPT ![g].pc = "publish", ![g].failed = FALSE, ![g].streak = 0]
    /\ UNCHANGED <<owner, shown, priceStore, file, refresh>>

ReadFailed(g) ==
    /\ worker[g].pc = "read"
    /\ \E streak \in IF worker[g].streak < BlockAfter
                     THEN {worker[g].streak + 1, BlockAfter} ELSE {BlockAfter} :
           worker' = [worker EXCEPT ![g].pc = "publish", ![g].failed = TRUE,
                                    ![g].streak = streak]
    /\ UNCHANGED <<owner, shown, priceStore, file, refresh>>

ReadRevoked(g) ==
    /\ worker[g].pc = "read" /\ ~SessionActive(worker[g].session)
    /\ WorkerAt(g, "raised")
    /\ UNCHANGED <<owner, shown, priceStore, file, refresh>>

\* update(), inside the commit that holds the context lock.
\* Wrong on purpose: the answer is stored whichever run it belongs to.
StoredByAnyone(g) == WorkerCurrent(g)
Stored(g) == g = generation

\* Wrong on purpose: the last answer is not a checkpoint of its own.
CheckpointByCount(index, total) == index % Checkpoint = 0
AtCheckpoint(index, total) == index % Checkpoint = 0 \/ index = total

Update(g) ==
    LET answer == [key |-> worker[g].request, account |-> worker[g].source.account]
        cached == IF worker[g].failed THEN prices
                  ELSE {p \in prices : p.key # answer.key} \cup {answer}
        checkpoint == AtCheckpoint(worker[g].index, worker[g].total)
    IN /\ prices' = cached
       /\ \E saved \in IF checkpoint THEN BOOLEAN ELSE {FALSE} :
           /\ file' = IF saved THEN [context |-> priceContext, prices |-> cached] ELSE file
           /\ published' =
               [published EXCEPT
                   !.completed = worker[g].index,
                   !.prices = IF checkpoint THEN cached ELSE @,
                   !.pending = worker[g].index < worker[g].total,
                   !.failures = @ \/ worker[g].failed,
                   !.persistFailed = @ \/ (checkpoint /\ ~saved)]

WorkPublish(g) ==
    /\ worker[g].pc = "publish"
    /\ \/ /\ ~SessionActive(worker[g].session)
          /\ WorkerAt(g, "raised")
          /\ UNCHANGED <<prices, published, file>>
       \/ /\ SessionActive(worker[g].session)
          /\ WorkerAt(g, "check")
          /\ IF shown = worker[g].source /\ Stored(g) THEN Update(g)
             ELSE UNCHANGED <<prices, published, file>>
    /\ UNCHANGED <<owner, shown, generation, priceContext, queue, refresh>>

WorkRaised(g) ==
    /\ worker[g].pc = "raised"
    /\ WorkerAt(g, "finish")
    /\ published' = IF g # generation THEN published
                    ELSE [published EXCEPT !.pending = FALSE, !.failures = TRUE]
    /\ UNCHANGED <<owner, shown, generation, priceContext, prices, queue, file, refresh>>

Settle(g) ==
    published' = IF g = generation /\ published # NoContext
                 THEN [published EXCEPT !.pending = FALSE] ELSE published
WorkFinish(g) ==
    /\ worker[g].pc = "finish"
    /\ worker' = [worker EXCEPT ![g] = NoWorker]
    /\ Settle(g)
    /\ UNCHANGED <<owner, shown, generation, priceContext, prices, queue, file, refresh>>

Work(g) ==
    \/ WorkCheck(g) \/ WorkTake(g) \/ ReadAnswered(g) \/ ReadFailed(g) \/ ReadRevoked(g)
    \/ WorkPublish(g) \/ WorkRaised(g) \/ WorkFinish(g)
-----------------------------------------------------------------------------
\* A stable sort: the wanted ones first, each half in the order it had.
Sorted(order, wanted) ==
    \A i, j \in DOMAIN queue : i < j =>
        IF queue[order[i]] \in wanted <=> queue[order[j]] \in wanted
        THEN order[i] < order[j] ELSE queue[order[i]] \in wanted

\* prioritize: the requests of the charts a manager opened come first.
Prioritize(wanted) ==
    /\ published # NoContext /\ published.source = shown
    /\ \E order \in Bijection(DOMAIN queue, DOMAIN queue) :
           /\ Sorted(order, wanted)
           /\ queue' = [i \in DOMAIN queue |-> queue[order[i]]]
    /\ UNCHANGED <<owner, shown, generation, published, priceContext, prices, file,
                   worker, refresh>>
-----------------------------------------------------------------------------
\* Lock, and unlock again.
LockOrUnlock ==
    /\ owner.session < MaxUnlocks
    /\ owner' = [owner EXCEPT !.session = @ + 1, !.unlocked = ~@]
    /\ UNCHANGED <<shown, priceStore, file, worker, refresh>>

\* The credentials are replaced and the state of the account before dropped,
\* under the context lock.  When the file cannot be deleted the replacement
\* ends there, with the source still in the store.
Replace(account) ==
    /\ owner.session < MaxUnlocks /\ generation < MaxGenerations
    /\ owner' = [account |-> account, session |-> owner.session + 1, unlocked |-> TRUE]
    /\ generation' = generation + 1
    /\ published' = NoContext /\ prices' = {} /\ priceContext' = NoContext
    /\ \/ file' = NoContext /\ shown' = NoContext
       \/ file # NoContext /\ UNCHANGED <<file, shown>>
    /\ UNCHANGED <<queue, worker, refresh>>

\* The process ends and starts again: _restore, then _restore_persisted_source.
\* No old thread survives, and the generation counts from 0 again.
RestartPrices ==
    /\ worker' = [g \in Generations |-> NoWorker]
    /\ refresh' = Idle /\ queue' = <<>>
    /\ owner' = [owner EXCEPT !.unlocked = FALSE]
    /\ generation' = 0
    /\ UNCHANGED file
    /\ LET onDisk == IF file = NoContext THEN [context |-> NoContext, prices |-> {}] ELSE file
       IN IF shown # NoContext /\ shown.account = owner.account
          THEN LET kept == IF onDisk.context # shown.account THEN {}
                           ELSE {p \in onDisk.prices : p.key \in shown.keys}
               IN /\ priceContext' = shown.account /\ prices' = kept /\ shown' = shown
                  /\ published' = [source |-> shown, prices |-> kept, completed |-> 0,
                                   total |-> 0, pending |-> FALSE, failures |-> FALSE,
                                   persistFailed |-> FALSE]
          ELSE /\ priceContext' = onDisk.context /\ prices' = onDisk.prices
               /\ shown' = NoContext /\ published' = NoContext
-----------------------------------------------------------------------------
PricesInit ==
    /\ owner \in [account : PriceAccounts, session : {0}, unlocked : {TRUE}]
    /\ shown = NoContext /\ generation = 0 /\ published = NoContext
    /\ priceContext = NoContext /\ prices = {} /\ queue = <<>> /\ file = NoContext
    /\ worker = [g \in Generations |-> NoWorker]
    /\ refresh = Idle

PricesNext ==
    \/ \E full \in BOOLEAN : BeginRefresh(full)
    \/ \E keys \in SourceKeys : CommitRefresh(keys)
    \/ EndRefresh
    \/ \E g \in Generations : Work(g)
    \/ \E wanted \in SUBSET PriceKeys : Prioritize(wanted)
    \/ LockOrUnlock \/ RestartPrices
    \/ \E account \in PriceAccounts : Replace(account)

\* A started thread keeps running; the client bounds every request.
WorkersRun == WF_priceVars(\E g \in Generations : Work(g))
PricesSpec == PricesInit /\ [][PricesNext]_priceVars /\ WorkersRun
-----------------------------------------------------------------------------
Threads ==
    [pc : {"check", "take", "read", "publish", "raised", "finish"}, source : Source,
     session : 0..MaxUnlocks, index : Nat, total : Nat,
     request : PriceKeys \cup {NoContext}, failed : BOOLEAN, streak : 0..BlockAfter]
Refreshes ==
    [pc : {"fetching"}, account : PriceAccounts, session : 0..MaxUnlocks,
     have : SUBSET Price, full : BOOLEAN]

\* The types; a worker that is not gone has the number of a generation so far.
PricesTypeOK ==
    /\ owner \in [account : PriceAccounts, session : 0..MaxUnlocks, unlocked : BOOLEAN]
    /\ shown \in Source \cup {NoContext} /\ generation \in 0..MaxGenerations
    /\ published \in PriceEvidence \cup {NoContext}
    /\ priceContext \in PriceAccounts \cup {NoContext} /\ prices \subseteq Price
    /\ queue \in Seq(PriceKeys)
    /\ file \in [context : PriceAccounts, prices : SUBSET Price] \cup {NoContext}
    /\ worker \in [Generations -> Threads \cup {NoWorker}]
    /\ refresh \in Refreshes \cup {Idle}
    /\ \A g \in Generations : worker[g] # NoWorker => g <= generation

\* A price is kept, saved and shown only for the account it was read for, and
\* shown only with the rows of the source it belongs to.
PricesOfAccount ==
    /\ \A p \in prices : p.account = priceContext
    /\ file # NoContext => \A p \in file.prices : p.account = file.context
    /\ published # NoContext => \A p \in published.prices :
           p.account = published.source.account /\ p.key \in published.source.keys

\* Once every request of a source is answered, all prices known are published,
\* and the file holds them unless the failure to save is reported.
SettledIsComplete ==
    published # NoContext /\ published.completed = published.total =>
        /\ published.prices = prices
        /\ published.total > 0 /\ ~published.persistFailed =>
               file = [context |-> priceContext, prices |-> prices]

\* Prices do not stay pending: the worker finishes, gives up, or whoever
\* replaced it took its place.
PricesPending == published # NoContext /\ published.pending
PricesSettle == PricesPending ~> ~PricesPending

=============================================================================
