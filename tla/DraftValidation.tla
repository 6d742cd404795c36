---------------------------- MODULE DraftValidation ----------------------------
(***************************************************************************)
(* DraftValidationService: temporary Ozon drafts that validate shipment    *)
(* candidates.  Requests run validate() on pool threads; they share the    *)
(* answer cache, the create budget, the table of validations in flight and *)
(* the drafts whose draft-info is still unresolved.  A section under       *)
(* _state_lock is one step; the Ozon calls between them are steps of their *)
(* own, so every other request, the clock and the vault may move there.    *)
(*                                                                         *)
(* Both callers in api.py leave "cancelled" at its default (never), so     *)
(* cancellation is not modelled.  Time is counted in ticks.                *)
(***************************************************************************)
EXTENDS Naturals, Sequences, SequencesExt, FiniteSetsExt

CONSTANTS
    Requests,      \* calls of validate()
    Keys,          \* candidate fingerprints (_key)
    Work,          \* Work[r]: the fingerprints of the call's candidates, in order
    MaxNewDrafts,  \* DEFAULT_MAX_NEW_DRAFTS, per call
    MaxPolls,      \* MAX_INFO_POLL_ATTEMPTS
    CacheMax,      \* VALIDATION_CACHE_MAX_ENTRIES
    CacheTTL,      \* VALIDATION_CACHE_TTL_SECONDS
    UnknownTTL,    \* OUTCOME_UNKNOWN_TTL_SECONDS
    ResumeTTL,     \* DRAFT_RESUME_TTL_SECONDS
    Quotas,        \* create limits: [window, cap] (60 s: 2, 1 h: 50, 1 day: 500)
    Day,           \* the longest window
    MaxTime,       \* bound: ticks
    MaxSession     \* bound: unlock-session transitions

ASSUME LimitsAssumption ==
    /\ MaxNewDrafts \in Nat \ {0} /\ MaxPolls \in Nat \ {0}
    /\ CacheMax \in Nat \ {0} /\ CacheTTL \in Nat /\ UnknownTTL \in Nat
    /\ ResumeTTL \in Nat /\ Day \in Nat /\ MaxTime \in Nat /\ MaxSession \in Nat
    /\ \A q \in Quotas : q.window \in Nat /\ q.cap \in Nat /\ q.window <= Day
ASSUME WorkAssumption == \A r \in Requests : Work[r] \in Seq(Keys) /\ Work[r] # <<>>

VARIABLES
    now,        \* clock()
    unlocked,   \* the vault holds credentials
    gen,        \* the vault's session generation
    cache,      \* _cache: oldest insertion first
    attempts,   \* _create_attempts: times of the reserved create slots
    inflight,   \* _inflight: per key its validation in flight, or NoFlight
    resumable,  \* _resumable_drafts: per key a known unresolved draft, or NoDraft
    results,    \* per flight: what its owner published
    pc, pos, made, session,   \* per request: progress in validate()
    joined,     \* per request: the flight it waits for
    draft,      \* per request: the draft it polls
    polls,      \* per request: draft-info attempts made
    outcome,    \* per request: what _validate_one returned or raised
    posts,      \* history: the create POSTs that reached Ozon
    reserved    \* history: the times of all the create slots ever reserved

vault == <<unlocked, gen>>
service == <<cache, attempts, inflight, resumable>>
progress == <<pc, pos, made, session, joined, draft, polls, outcome>>
history == <<posts, reserved>>
vars == <<now, vault, service, results, progress, history>>

-----------------------------------------------------------------------------
\* A flight is named by its owner and the position of the candidate.
Flights == UNION {{r} \X (1..Len(Work[r])) : r \in Requests}
NoFlight == <<>>
NoDraft == [id |-> 0, at |-> 0]

\* The call holds the flight of its candidate.
Running == {"create", "sent", "poll", "slots", "publish"}

Key(r) == Work[r][pos[r]]
Mine(r) == <<r, pos[r]>>
Active(r) == unlocked /\ session[r] = gen

\* Wrong on purpose: an unknown outcome is kept no longer than an answer.
SameTTL(e) == CacheTTL

\* _cached_option_locked: an unknown outcome is quarantined longer.
TTL(e) == IF e.kind = "unknown" THEN UnknownTTL ELSE CacheTTL
Hit(k) == \E i \in DOMAIN cache : cache[i].key = k /\ now - cache[i].at < TTL(cache[i])
\* Wrong on purpose: an expired answer stays in the cache.
LookedUpOnly(k) == cache
LookedUp(k) ==
    IF \/ Hit(k)
       \/ \A i \in DOMAIN cache : cache[i].key # k
    THEN cache
    ELSE RemoveAt(cache, CHOOSE i \in DOMAIN cache : cache[i].key = k)

\* Wrong on purpose: the table of validations in flight is not consulted.
NeverFlying(k) == FALSE
Flying(k) == inflight[k] # NoFlight

\* _reserve_create_slot_locked: the slots that left the longest window are
\* popped from the left, up to the first that did not.
Outdated == {i \in DOMAIN attempts : \A j \in 1..i : now - attempts[j] >= Day}
Recent == SubSeq(attempts, Cardinality(Outdated) + 1, Len(attempts))
Within(q) == {i \in DOMAIN Recent : now - Recent[i] < q.window}
\* Wrong on purpose: one create too many.
UnderQuotaByOne(q) == Cardinality(Within(q)) <= q.cap
UnderQuota(q) == Cardinality(Within(q)) < q.cap
SlotFree == \A q \in Quotas : UnderQuota(q)

\* _prune_resumable_drafts_locked, _resumable_draft_locked.
Expired(d) == now - d.at >= ResumeTTL
Pruned == [k \in Keys |-> IF Expired(resumable[k]) THEN NoDraft ELSE resumable[k]]

\* Wrong on purpose: a draft is forgotten before it is resolved.
Forgotten(k, d) == resumable
\* _remember_resumable_draft.
Remembered(k, d) == [resumable EXCEPT ![k] = d]

\* The next candidate of the call, or its end.
Advance(r) ==
    /\ pos' = [pos EXCEPT ![r] = @ + 1]
    /\ pc' = [pc EXCEPT ![r] = IF pos[r] = Len(Work[r]) THEN "done" ELSE "look"]

Goto(r, label) == pc' = [pc EXCEPT ![r] = label]

-----------------------------------------------------------------------------
(* The clock and the vault.                                                *)

Tick ==
    /\ now < MaxTime
    /\ now' = now + 1
    /\ UNCHANGED <<vault, service, results, progress, history>>

\* lock, unlock, setup: every transition starts a new session number.
Transition ==
    /\ gen < MaxSession
    /\ gen' = gen + 1
    /\ unlocked' \in BOOLEAN
    /\ UNCHANGED <<now, service, results, progress, history>>

-----------------------------------------------------------------------------
(* validate: choosing what to do with the next candidate.                  *)

\* The API handler has captured the session and hands over to a thread.
Begin(r) ==
    /\ pc[r] = "idle" /\ unlocked
    /\ session' = [session EXCEPT ![r] = gen]
    /\ Goto(r, "look")
    /\ UNCHANGED <<now, vault, service, results, pos, made, joined, draft, polls,
                   outcome, history>>

\* What both looks into the shared state do before they decide; the second
\* one also drops expired drafts.
Look(r) ==
    /\ pc[r] \in {"look", "miss"}
    /\ cache' = LookedUp(Key(r))
    /\ resumable' = IF pc[r] = "miss" THEN Pruned ELSE resumable

Answered(r) ==
    /\ Look(r) /\ Hit(Key(r))
    /\ Advance(r)
    /\ UNCHANGED <<now, vault, attempts, inflight, results, made, session, joined,
                   draft, polls, outcome, history>>

Join(r) ==
    /\ Look(r) /\ ~Hit(Key(r)) /\ Flying(Key(r))
    /\ joined' = [joined EXCEPT ![r] = inflight[Key(r)]]
    /\ Goto(r, "wait")
    /\ UNCHANGED <<now, vault, attempts, inflight, results, pos, made, session,
                   draft, polls, outcome, history>>

Miss(r) ==
    /\ pc[r] = "look" /\ Look(r)
    /\ ~Hit(Key(r)) /\ ~Flying(Key(r))
    /\ Goto(r, "miss")
    /\ UNCHANGED <<now, vault, attempts, inflight, results, pos, made, session,
                   joined, draft, polls, outcome, history>>

\* The dates are out of range, or no create request can be built.
Unbuildable(r) ==
    /\ pc[r] = "miss"
    /\ Advance(r)
    /\ UNCHANGED <<now, vault, service, results, made, session, joined, draft,
                   polls, outcome, history>>

\* The second look found neither an answer nor a flight.
Take(r) ==
    /\ pc[r] = "miss" /\ Look(r)
    /\ ~Hit(Key(r)) /\ ~Flying(Key(r))
    /\ inflight' = [inflight EXCEPT ![Key(r)] = Mine(r)]

Resume(r) ==
    /\ Take(r)
    /\ Pruned[Key(r)] # NoDraft
    /\ draft' = [draft EXCEPT ![r] = Pruned[Key(r)]]
    /\ polls' = [polls EXCEPT ![r] = 0]
    /\ Goto(r, "poll")
    /\ UNCHANGED <<now, vault, attempts, results, pos, made, session, joined,
                   outcome, history>>

Reserve(r) ==
    /\ Take(r)
    /\ Pruned[Key(r)] = NoDraft
    /\ made[r] < MaxNewDrafts /\ SlotFree
    /\ attempts' = Append(Recent, now)
    /\ reserved' = Append(reserved, now)
    /\ made' = [made EXCEPT ![r] = @ + 1]
    /\ Goto(r, "create")
    /\ UNCHANGED <<now, vault, results, pos, session, joined, draft, polls,
                   outcome, posts>>

\* DRAFT_RATE_BUDGET_EXHAUSTED.
Limited(r) ==
    /\ pc[r] = "miss" /\ Look(r)
    /\ ~Hit(Key(r)) /\ ~Flying(Key(r))
    /\ Pruned[Key(r)] = NoDraft
    /\ made[r] >= MaxNewDrafts \/ ~SlotFree
    /\ attempts' = IF made[r] >= MaxNewDrafts THEN attempts ELSE Recent
    /\ Advance(r)
    /\ UNCHANGED <<now, vault, inflight, results, made, session, joined, draft,
                   polls, outcome, history>>

-----------------------------------------------------------------------------
(* _validate_one: the Ozon calls of the flight's owner.                    *)

\* _validate_one is over: publishing is all that is left.
Return(r, result) ==
    /\ outcome' = [outcome EXCEPT ![r] = result]
    /\ Goto(r, "publish")

\* The client serialises its requests: the POST leaves when the line is
\* free, which may be long after the slot was reserved.
LineFree == \A q \in Requests : pc[q] # "sent"

SendCreate(r) ==
    /\ pc[r] = "create"
    /\ Active(r) /\ LineFree
    /\ posts' = Append(posts, [key |-> Key(r), at |-> now, fate |-> "sent", since |-> now])
    /\ Goto(r, "sent")
    /\ UNCHANGED <<now, vault, service, results, pos, made, session, joined, draft,
                   polls, outcome, reserved>>

\* A cooldown longer than the client waits: no POST, RATE_LIMITED.
CooldownRefuses(r) ==
    /\ pc[r] = "create"
    /\ Active(r) /\ LineFree
    /\ Return(r, "answer")
    /\ UNCHANGED <<now, vault, service, results, pos, made, session, joined, draft,
                   polls, history>>

Settled(fate) == [posts EXCEPT ![Len(posts)].fate = fate, ![Len(posts)].since = now]

\* Ozon names the draft; the reasons it sends along may be malformed, which
\* ends the validation but keeps the draft resumable.
CreateNamesDraft(r) ==
    /\ pc[r] = "sent" /\ Active(r)
    /\ LET d == [id |-> Len(posts), at |-> now]
       IN  /\ resumable' = Remembered(Key(r), d)
           /\ draft' = [draft EXCEPT ![r] = d]
    /\ polls' = [polls EXCEPT ![r] = 0]
    /\ posts' = Settled("open")
    /\ \/ Goto(r, "poll") /\ UNCHANGED outcome
       \/ Return(r, "answer")
    /\ UNCHANGED <<now, vault, cache, attempts, inflight, results, pos, made,
                   session, joined, reserved>>

\* No draft: rejected, rate limited, an HTTP error or an unusable answer;
\* or the transport failed and nobody knows.
CreateEndsWithoutDraft(r) ==
    /\ pc[r] = "sent" /\ Active(r)
    /\ \/ posts' = Settled("closed") /\ Return(r, "answer")
       \/ posts' = Settled("unknown") /\ Return(r, "unknown")
    /\ UNCHANGED <<now, vault, service, results, pos, made, session, joined, draft,
                   polls, reserved>>

\* CREDENTIAL_CONTEXT_CHANGED, checked before and after every transport call.
\* What Ozon answered to a create is dropped.
Revoked(r) ==
    /\ pc[r] \in {"create", "sent", "poll", "slots"}
    /\ ~Active(r)
    /\ posts' = IF pc[r] = "sent" THEN Settled("lost") ELSE posts
    /\ Return(r, "error")
    /\ UNCHANGED <<now, vault, service, results, pos, made, session, joined, draft,
                   polls, reserved>>

PollPending(r) ==
    /\ pc[r] = "poll" /\ Active(r)
    /\ polls' = [polls EXCEPT ![r] = @ + 1]
    /\ \/ polls[r] + 1 < MaxPolls /\ UNCHANGED <<pc, outcome>>
       \/ polls[r] + 1 = MaxPolls /\ Return(r, "timeout")
    /\ UNCHANGED <<now, vault, service, results, pos, made, session, joined, draft,
                   history>>

\* The draft stays resumable, but the answer is cached.
PollFails(r) ==
    /\ pc[r] = "poll" /\ Active(r)
    /\ Return(r, "answer")
    /\ UNCHANGED <<now, vault, service, results, pos, made, session, joined, draft,
                   polls, history>>

\* SUCCESS or FAILED: _clear_resumable_draft, then timeslots if accepted.
PollResolves(r) ==
    /\ pc[r] = "poll" /\ Active(r)
    /\ resumable' = IF resumable[Key(r)].id = draft[r].id
                    THEN [resumable EXCEPT ![Key(r)] = NoDraft] ELSE resumable
    /\ posts' = [posts EXCEPT ![draft[r].id].fate = "resolved"]
    /\ \/ Goto(r, "slots") /\ UNCHANGED outcome
       \/ Return(r, "answer")
    /\ UNCHANGED <<now, vault, cache, attempts, inflight, results, pos, made,
                   session, joined, draft, polls, reserved>>

Timeslots(r) ==
    /\ pc[r] = "slots" /\ Active(r)
    /\ Return(r, "answer")
    /\ UNCHANGED <<now, vault, service, results, pos, made, session, joined, draft,
                   polls, history>>

-----------------------------------------------------------------------------
(* _publish_flight and _wait_for_flight.                                   *)

Evicted(c) == IF Len(c) > CacheMax THEN Tail(c) ELSE c
CacheAfter(r) ==
    IF outcome[r] \in {"answer", "unknown"}
    THEN Evicted(Append(cache, [key |-> Key(r), at |-> now, kind |-> outcome[r]]))
    ELSE cache

Released(r) == [inflight EXCEPT ![Key(r)] = NoFlight]

\* Wrong on purpose: an exception does not wake the requests that joined.
DoneOnSuccess(r) ==
    IF outcome[r] = "error" THEN results ELSE [results EXCEPT ![Mine(r)] = "option"]
Done(r) ==
    [results EXCEPT ![Mine(r)] = IF outcome[r] = "error" THEN "error" ELSE "option"]

Publish(r) ==
    /\ pc[r] = "publish"
    /\ cache' = CacheAfter(r)
    /\ inflight' = Released(r)
    /\ results' = Done(r)
    /\ IF outcome[r] = "error" THEN Goto(r, "failed") /\ UNCHANGED pos ELSE Advance(r)
    /\ UNCHANGED <<now, vault, attempts, resumable, made, session, joined, draft,
                   polls, outcome, history>>

Wake(r) ==
    /\ pc[r] = "wait"
    /\ \/ results[joined[r]] = "option" /\ Advance(r)
       \/ results[joined[r]] = "error" /\ Goto(r, "failed") /\ UNCHANGED pos
    /\ UNCHANGED <<now, vault, service, results, made, session, joined, draft,
                   polls, outcome, history>>

-----------------------------------------------------------------------------
Init ==
    /\ now = 0 /\ unlocked = FALSE /\ gen = 0
    /\ cache = <<>> /\ attempts = <<>>
    /\ inflight = [k \in Keys |-> NoFlight]
    /\ resumable = [k \in Keys |-> NoDraft]
    /\ results = [f \in Flights |-> "none"]
    /\ pc = [r \in Requests |-> "idle"]
    /\ pos = [r \in Requests |-> 1]
    /\ made = [r \in Requests |-> 0]
    /\ session = [r \in Requests |-> 0]
    /\ joined = [r \in Requests |-> NoFlight]
    /\ draft = [r \in Requests |-> NoDraft]
    /\ polls = [r \in Requests |-> 0]
    /\ outcome = [r \in Requests |-> "none"]
    /\ posts = <<>> /\ reserved = <<>>

\* What the thread of a running call does.
Step(r) ==
    \/ Answered(r) \/ Join(r) \/ Miss(r) \/ Unbuildable(r)
    \/ Resume(r) \/ Reserve(r) \/ Limited(r)
    \/ SendCreate(r) \/ CooldownRefuses(r) \/ CreateNamesDraft(r)
    \/ CreateEndsWithoutDraft(r) \/ Revoked(r)
    \/ PollPending(r) \/ PollFails(r) \/ PollResolves(r) \/ Timeslots(r)
    \/ Publish(r) \/ Wake(r)

Next == Tick \/ Transition \/ \E r \in Requests : Begin(r) \/ Step(r)

Spec == Init /\ [][Next]_vars

\* The thread of a call keeps running, and every transport call ends (its
\* timeout is below 60 seconds).  Nothing forces a call to arrive.
FairSpec == Spec /\ \A r \in Requests : WF_vars(Step(r))

-----------------------------------------------------------------------------
(* Properties.                                                             *)

Fates == {"sent", "open", "resolved", "closed", "unknown", "lost"}
Entries == [key : Keys, at : 0..MaxTime, kind : {"answer", "unknown"}]
Creates == [key : Keys, at : 0..MaxTime, fate : Fates, since : 0..MaxTime]

CacheTypes ==
    /\ cache \in Seq(Entries) /\ Len(cache) <= CacheMax
    /\ \A i, j \in DOMAIN cache : cache[i].key = cache[j].key => i = j
SharedTypes ==
    /\ now \in 0..MaxTime /\ unlocked \in BOOLEAN /\ gen \in 0..MaxSession
    /\ attempts \in Seq(0..MaxTime) /\ reserved \in Seq(0..MaxTime)
    /\ inflight \in [Keys -> Flights \cup {NoFlight}]
    /\ results \in [Flights -> {"none", "option", "error"}]
DraftTypes ==
    /\ posts \in Seq(Creates)
    /\ resumable \in [Keys -> [id : 0..Len(posts), at : 0..MaxTime]]
    /\ draft \in [Requests -> [id : 0..Len(posts), at : 0..MaxTime]]
PlaceTypes ==
    /\ pc \in [Requests -> Running \cup {"idle", "look", "miss", "wait", "done", "failed"}]
    /\ pos \in [Requests -> Nat \ {0}]
    /\ \A r \in Requests : pos[r] <= Len(Work[r]) + 1
CallTypes ==
    /\ made \in [Requests -> 0..MaxNewDrafts]
    /\ session \in [Requests -> 0..MaxSession]
    /\ joined \in [Requests -> Flights \cup {NoFlight}]
    /\ polls \in [Requests -> 0..MaxPolls]
    /\ outcome \in [Requests -> {"none", "answer", "unknown", "timeout", "error"}]

\* The type of every variable; the cache is a dictionary within its limit.
TypeOK == CacheTypes /\ SharedTypes /\ DraftTypes /\ PlaceTypes /\ CallTypes

\* A fingerprint gets no second draft while Ozon works on the first one, or
\* while the first is known, unresolved and inside the resume horizon:
\* whatever other calls, timeouts, errors and session changes come between.
NoSecondDraft ==
    \A i, j \in DOMAIN posts :
        i < j /\ posts[i].key = posts[j].key =>
            /\ posts[i].fate # "sent"
            /\ posts[i].fate = "open" => posts[j].at - posts[i].since >= ResumeTTL

\* After an ambiguous outcome a fingerprint is not sent again until the
\* quarantine is over.
UnknownQuarantined ==
    \A i, j \in DOMAIN posts :
        i < j /\ posts[i].key = posts[j].key /\ posts[i].fate = "unknown" =>
            posts[j].at - posts[i].since >= UnknownTTL

\* The last create of a fingerprint.
Latest(k) ==
    LET mine == {i \in DOMAIN posts : posts[i].key = k}
    IN IF mine = {} THEN [fate |-> "none", since |-> 0]
       ELSE LET i == Max(mine) IN [fate |-> posts[i].fate, since |-> posts[i].since]

\* The calls with their cache, flights and resumable drafts implement the
\* promise: seen per candidate, creates follow each other only when an open
\* draft, a quarantined outcome or a cached answer no longer forbids it.  It
\* is about a cache that holds every candidate (see UnknownQuarantined).
Promise == INSTANCE DraftPromise WITH create <- [k \in Keys |-> Latest(k)]
KeepsPromise == Promise!Spec

\* A known draft whose draft-info is unresolved can be resumed by the next
\* validation of its fingerprint: no path loses it before the horizon.
OpenDraftsResumable ==
    \A i \in DOMAIN posts :
        posts[i].fate = "open" /\ now - posts[i].since < ResumeTTL =>
            resumable[posts[i].key] = [id |-> i, at |-> posts[i].since]

\* In no sliding window are more create slots reserved than Ozon allows,
\* though the service forgets the slots that leave the longest one.
BudgetKept ==
    \A q \in Quotas, i \in DOMAIN reserved :
        Cardinality({j \in 1..i : reserved[i] - reserved[j] < q.window}) <= q.cap

\* A call that began ends, with its options or with an error: nobody waits
\* for a validation that was dropped, and no calls wait for each other.
CallsEnd ==
    \A r \in Requests : pc[r] # "idle" ~> pc[r] \in {"done", "failed"}

=============================================================================
