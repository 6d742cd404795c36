------------------------ MODULE DraftValidationProofs ------------------------
(***************************************************************************)
(* Theorems about DraftValidation, for any calls, candidates, horizons and *)
(* quotas.                                                                 *)
(*                                                                         *)
(* The argument: a call that validates a candidate holds its flight from   *)
(* the second look to the publication (Held), so whatever concerns the     *)
(* candidate is moved by that call alone.  While it creates, no draft of   *)
(* the candidate is known (Unremembered); every draft that is known is the *)
(* candidate's last create and still unresolved (Known); and the answer    *)
(* of a create that left no draft is still to be published, or cached, or  *)
(* old enough (Kept).  The create slots that the service forgot have left  *)
(* the longest window (Suffix).                                            *)
(***************************************************************************)
EXTENDS DraftValidation, TLAPS, SequenceTheorems, FiniteSetTheorems

\* A call that is not over looks at one of its candidates.
InWork == \A r \in Requests : pc[r] # "done" => pos[r] <= Len(Work[r])

\* Whoever validates a candidate holds its flight.
Held == \A r \in Requests : pc[r] \in Running => inflight[Key(r)] = Mine(r)

\* A candidate in flight has no answer in the cache.
Exclusive ==
    \A k \in Keys : inflight[k] # NoFlight => \A i \in DOMAIN cache : cache[i].key # k

\* The create that Ozon works on is the last one, its call's candidate, and
\* no other call is on the line.
OnTheLine ==
    /\ \A r \in Requests : pc[r] = "sent" =>
          /\ Len(posts) > 0
          /\ posts[Len(posts)].key = Key(r) /\ posts[Len(posts)].fate = "sent"
          /\ \A q \in Requests : pc[q] = "sent" => q = r
    /\ \A i \in DOMAIN posts : posts[i].fate = "sent" =>
          i = Len(posts) /\ \E r \in Requests : pc[r] = "sent"

\* Nothing happened to a create later than now.
Dated == \A i \in DOMAIN posts : posts[i].at <= now /\ posts[i].since <= now

\* A call creates a draft only for a candidate without a known one.
Unremembered ==
    \A r \in Requests : pc[r] \in {"create", "sent"} => resumable[Key(r)] = NoDraft

\* The slots that the service remembers are the last reserved ones, and the
\* forgotten ones have left the longest window.
Suffix ==
    LET n == Len(reserved) - Len(attempts)
    IN  /\ Len(attempts) <= Len(reserved)
        /\ \A i \in DOMAIN attempts : attempts[i] = reserved[n + i]
        /\ \A i \in 1..n : now - reserved[i] >= Day

\* In this history, the i-th create is the last one of the candidate.
IsLatest(p, k, i) ==
    /\ i \in DOMAIN p /\ p[i].key = k
    /\ \A j \in DOMAIN p : p[j].key = k => j <= i

\* A candidate was never created, or one of its creates is the last.
Ordered ==
    \A k \in Keys :
        \/ \A i \in DOMAIN posts : posts[i].key # k
        \/ \E i \in DOMAIN posts : IsLatest(posts, k, i)

\* A draft that is polled is the candidate's last one, and unresolved.
Polled ==
    \A r \in Requests : pc[r] = "poll" =>
        IsLatest(posts, Key(r), draft[r].id) /\ posts[draft[r].id].fate = "open"

\* So is a draft that can be resumed.
Known ==
    \A k \in Keys : resumable[k] # NoDraft =>
        IsLatest(posts, k, resumable[k].id) /\ posts[resumable[k].id].fate = "open"

\* What is known about creates and their drafts.
DraftInv ==
    /\ OnTheLine /\ Dated /\ Unremembered
    /\ Ordered /\ Polled /\ Known
    /\ NoSecondDraft /\ OpenDraftsResumable

\* What the safety properties rest on.
SafeInv ==
    /\ TypeOK
    /\ InWork /\ Held /\ Exclusive
    /\ DraftInv
    /\ Suffix /\ BudgetKept

-----------------------------------------------------------------------------
\* How an outcome without a draft is cached, and for how long.
Kind(fate) == IF fate = "unknown" THEN "unknown" ELSE "answer"
Pause(fate) == IF fate = "unknown" THEN UnknownTTL ELSE CacheTTL

Over(i) == now - posts[i].since >= Pause(posts[i].fate)
Cached(k, i) ==
    \E j \in DOMAIN cache :
        /\ cache[j].key = k /\ cache[j].kind = Kind(posts[i].fate)
        /\ cache[j].at >= posts[i].since
Unpublished(k, i) ==
    \E r \in Requests :
        pc[r] = "publish" /\ Key(r) = k /\ outcome[r] = Kind(posts[i].fate)

\* What came of the last create of a candidate is not forgotten too early.
Kept ==
    \A k \in Keys, i \in DOMAIN posts :
        IsLatest(posts, k, i) /\ posts[i].fate \in {"closed", "unknown"} =>
            Over(i) \/ Cached(k, i) \/ Unpublished(k, i)

\* A call creates a draft only when the last outcome has been kept in full.
Rested ==
    \A r \in Requests, i \in DOMAIN posts :
        /\ pc[r] = "create" /\ IsLatest(posts, Key(r), i)
        /\ posts[i].fate \in {"closed", "unknown"}
        => Over(i)

\* What the quarantine and the promise rest on: no outcome is evicted before
\* its time, and a later create respects every earlier outcome.
PromiseInv == Kept /\ Rested /\ UnknownQuarantined

-----------------------------------------------------------------------------
(* Lemmas about the operators.                                             *)

\* A sequence without its n-th element.
LEMMA RemoveAtFacts ==
    ASSUME NEW S, NEW s \in Seq(S), NEW n \in 1..Len(s)
    PROVE  /\ RemoveAt(s, n) \in Seq(S)
           /\ Len(RemoveAt(s, n)) = Len(s) - 1
           /\ \A i \in 1..(Len(s) - 1) :
                 RemoveAt(s, n)[i] = IF i < n THEN s[i] ELSE s[i + 1]
<1> DEFINE front == SubSeq(s, 1, n - 1)
           back == SubSeq(s, n + 1, Len(s))
<1> HIDE DEF front, back
<1>1. Len(s) \in Nat /\ \A i \in 1..Len(s) : s[i] \in S
  BY LenProperties, ElementOfSeq
<1>2. /\ front \in Seq(S) /\ Len(front) = n - 1
      /\ \A i \in 1..(n - 1) : front[i] = s[i]
  BY <1>1, SubSeqProperties DEF front
<1>3. /\ back \in Seq(S) /\ Len(back) = Len(s) - n
      /\ \A i \in 1..(Len(s) - n) : back[i] = s[n + i]
  <2>1. \A i \in (n + 1)..Len(s) : s[i] \in S
    BY <1>1
  <2>2. /\ back \in Seq(S)
        /\ Len(back) = IF n + 1 <= Len(s) THEN Len(s) - (n + 1) + 1 ELSE 0
        /\ \A i \in 1..(Len(s) - (n + 1) + 1) : back[i] = s[(n + 1) + i - 1]
    BY <1>1, <2>1, SubSeqProperties DEF back
  <2> QED
    BY <1>1, <2>2
<1>4. /\ front \o back \in Seq(S) /\ Len(front \o back) = Len(s) - 1
      /\ \A i \in 1..(Len(s) - 1) :
            (front \o back)[i] = IF i <= n - 1 THEN front[i] ELSE back[i - (n - 1)]
  <2>1. /\ front \o back \in Seq(S) /\ Len(front \o back) = Len(front) + Len(back)
        /\ \A i \in 1..(Len(front) + Len(back)) :
              (front \o back)[i] = IF i <= Len(front) THEN front[i] ELSE back[i - Len(front)]
    BY <1>2, <1>3, ConcatProperties
  <2> QED
    BY <1>1, <1>2, <1>3, <2>1
<1>5. RemoveAt(s, n) = front \o back
  BY DEF RemoveAt, front, back
<1> QED
  BY <1>1, <1>2, <1>3, <1>4, <1>5

\* A look into the cache drops the candidate's expired answer and nothing
\* else.
LEMMA LookedUpFacts ==
    ASSUME TypeOK, NEW k \in Keys
    PROVE  /\ LookedUp(k) \in Seq(Entries)
           /\ Len(LookedUp(k)) <= Len(cache)
           /\ ~Hit(k) => \A i \in DOMAIN LookedUp(k) : LookedUp(k)[i].key # k
           /\ \A i, j \in DOMAIN LookedUp(k) :
                 LookedUp(k)[i].key = LookedUp(k)[j].key => i = j
           /\ \A i \in DOMAIN LookedUp(k) :
                 \E j \in DOMAIN cache : LookedUp(k)[i] = cache[j]
           /\ \A j \in DOMAIN cache : cache[j].key # k \/ Hit(k) =>
                 \E i \in DOMAIN LookedUp(k) : LookedUp(k)[i] = cache[j]
<1>1. /\ cache \in Seq(Entries) /\ Len(cache) \in Nat /\ DOMAIN cache = 1..Len(cache)
      /\ \A i, j \in DOMAIN cache : cache[i].key = cache[j].key => i = j
  BY LenProperties DEF TypeOK, CacheTypes, SharedTypes, DraftTypes, PlaceTypes
<1>2. CASE Hit(k) \/ \A i \in DOMAIN cache : cache[i].key # k
  <2>1. LookedUp(k) = cache
    BY <1>2 DEF LookedUp
  <2> QED
    BY <1>1, <1>2, <2>1
<1>3. CASE ~Hit(k) /\ \E i \in DOMAIN cache : cache[i].key = k
  <2>1. PICK n \in 1..Len(cache) : cache[n].key = k /\ LookedUp(k) = RemoveAt(cache, n)
    BY <1>1, <1>3 DEF LookedUp
  <2>2. /\ RemoveAt(cache, n) \in Seq(Entries)
        /\ Len(RemoveAt(cache, n)) = Len(cache) - 1
        /\ \A i \in 1..(Len(cache) - 1) :
              RemoveAt(cache, n)[i] = IF i < n THEN cache[i] ELSE cache[i + 1]
    BY <1>1, RemoveAtFacts, Zenon
  <2>3. PICK c \in Seq(Entries) :
          /\ LookedUp(k) = c /\ Len(c) = Len(cache) - 1
          /\ \A i \in 1..(Len(cache) - 1) : c[i] = IF i < n THEN cache[i] ELSE cache[i + 1]
    BY <2>1, <2>2
  <2>4. DOMAIN c = 1..(Len(cache) - 1)
    BY <2>3, LenProperties
  <2>5. ASSUME NEW i \in DOMAIN c
        PROVE  c[i].key # k /\ \E j \in DOMAIN cache : j # n /\ c[i] = cache[j]
    <3>1. CASE i < n
      BY <1>1, <2>1, <2>3, <2>4, <3>1
    <3>2. CASE ~(i < n)
      <4>1. i + 1 \in DOMAIN cache /\ c[i] = cache[i + 1] /\ i + 1 # n
        BY <1>1, <2>1, <2>3, <2>4, <3>2
      <4> QED
        BY <1>1, <2>1, <4>1
    <3> QED
      BY <3>1, <3>2
  <2>6. ASSUME NEW i \in DOMAIN c, NEW j \in DOMAIN c, c[i].key = c[j].key
        PROVE  i = j
    <3> DEFINE old(m) == IF m < n THEN m ELSE m + 1
    <3>1. \A m \in DOMAIN c : old(m) \in DOMAIN cache /\ c[m] = cache[old(m)]
      BY <1>1, <2>1, <2>3, <2>4
    <3>2. old(i) = old(j)
      <4> HIDE DEF old
      <4> QED
        BY <1>1, <2>6, <3>1
    <3> QED
      BY <2>1, <2>4, <3>2
  <2>7. ASSUME NEW j \in DOMAIN cache, cache[j].key # k
        PROVE  \E i \in DOMAIN c : c[i] = cache[j]
    <3>1. CASE j < n
      BY <1>1, <2>1, <2>3, <2>4, <3>1
    <3>2. CASE j > n
      <4>1. j - 1 \in DOMAIN c /\ c[j - 1] = cache[j]
        BY <1>1, <2>1, <2>3, <2>4, <3>2
      <4> QED
        BY <4>1
    <3> QED
      BY <1>1, <2>1, <2>7, <3>1, <3>2
  <2> QED
    BY <1>1, <1>3, <2>3, <2>5, <2>6, <2>7
<1> QED
  BY <1>2, <1>3

\* Publishing an answer adds it to the cache; what it evicts, if the cache is
\* full, is older.
LEMMA StoredFacts ==
    ASSUME TypeOK, NEW e \in Entries, \A i \in DOMAIN cache : cache[i].key # e.key,
           NEW c, c = Evicted(Append(cache, e))
    PROVE  /\ c \in Seq(Entries) /\ Len(c) <= CacheMax
           /\ \A i, j \in DOMAIN c : c[i].key = c[j].key => i = j
           /\ \A i \in DOMAIN c : c[i] = e \/ \E j \in DOMAIN cache : c[i] = cache[j]
           /\ Len(cache) < CacheMax =>
                 /\ \E i \in DOMAIN c : c[i] = e
                 /\ \A j \in DOMAIN cache : \E i \in DOMAIN c : c[i] = cache[j]
<1> DEFINE n == Len(cache)
           a == Append(cache, e)
<1>1. /\ cache \in Seq(Entries) /\ n \in Nat /\ DOMAIN cache = 1..n
      /\ \A i, j \in 1..n : cache[i].key = cache[j].key => i = j
      /\ n <= CacheMax
  BY LenProperties DEF TypeOK, CacheTypes, SharedTypes, DraftTypes, PlaceTypes
<1>2. /\ a \in Seq(Entries) /\ a # <<>> /\ Len(a) = n + 1 /\ a[n + 1] = e
      /\ \A i \in 1..n : a[i] = cache[i]
  <2>1. cache \in Seq(Entries)
    BY <1>1
  <2> QED
    BY <2>1, AppendProperties
<1>3. DOMAIN a = 1..(n + 1)
  BY <1>2, LenProperties
<1>4. \A i, j \in 1..(n + 1) : a[i].key = a[j].key => i = j
  <2> HIDE DEF n, a
  <2>1. \A i \in 1..(n + 1) : i = n + 1 \/ i \in 1..n
    BY <1>1
  <2>2. \A i \in 1..n : a[i].key # e.key
    BY <1>1, <1>2
  <2> QED
    BY <1>1, <1>2, <2>1, <2>2
<1>5. c = IF n + 1 > CacheMax THEN Tail(a) ELSE a
  BY <1>2 DEF Evicted
<1> HIDE DEF n, a
<1>6. CASE n + 1 <= CacheMax
  <2>1. c = a
    BY <1>1, <1>5, <1>6, LimitsAssumption
  <2>2. n + 1 \in DOMAIN a /\ \A i \in 1..n : i \in DOMAIN a
    BY <1>1, <1>3
  <2>3. \A i \in DOMAIN a : a[i] = e \/ \E j \in DOMAIN cache : a[i] = cache[j]
    BY <1>1, <1>2, <1>3
  <2>4. Len(c) <= CacheMax
    BY <1>1, <1>2, <1>6, <2>1
  <2> QED
    BY <1>1, <1>2, <1>3, <1>4, <2>1, <2>2, <2>3, <2>4
<1>7. CASE n + 1 > CacheMax
  <2>1. c = Tail(a)
    BY <1>1, <1>5, <1>7
  <2>2. /\ c \in Seq(Entries) /\ Len(c) = Len(a) - 1
        /\ \A i \in 1..Len(c) : c[i] = a[i + 1]
    <3>1. a \in Seq(Entries) /\ a # <<>>
      BY <1>2
    <3>2. /\ Tail(a) \in Seq(Entries) /\ Len(Tail(a)) = Len(a) - 1
          /\ \A i \in 1..Len(Tail(a)) : Tail(a)[i] = a[i + 1]
      BY <3>1, HeadTailProperties, Zenon
    <3> QED
      BY <2>1, <3>2, Zenon
  <2>3. Len(c) = n /\ DOMAIN c = 1..n /\ n = CacheMax
    BY <1>1, <1>2, <1>7, <2>2, LenProperties, LimitsAssumption
  <2>4. \A i \in 1..n : i + 1 \in 1..(n + 1) /\ c[i] = a[i + 1]
    BY <1>1, <2>2, <2>3
  <2>5. ASSUME NEW i \in DOMAIN c
        PROVE  c[i] = e \/ \E j \in DOMAIN cache : c[i] = cache[j]
    <3>1. c[i] = a[i + 1] /\ (i + 1 = n + 1 \/ i + 1 \in 1..n)
      BY <1>1, <2>3, <2>4
    <3> QED
      BY <1>1, <1>2, <3>1
  <2>6. ASSUME NEW i \in DOMAIN c, NEW j \in DOMAIN c, c[i].key = c[j].key
        PROVE  i = j
    BY <1>1, <1>4, <2>3, <2>4, <2>6
  <2>7. Len(c) <= CacheMax /\ ~(Len(cache) < CacheMax)
    BY <1>1, <2>3 DEF n
  <2> QED
    BY <2>2, <2>5, <2>6, <2>7
<1> QED
  BY <1>1, <1>6, <1>7, LimitsAssumption

\* What is popped from the left of the reserved slots has left the longest
\* window; the rest keeps its order.
LEMMA RecentFacts ==
    ASSUME TypeOK
    PROVE  /\ Recent \in Seq(0..MaxTime)
           /\ Len(Recent) <= Len(attempts)
           /\ \A i \in 1..Len(Recent) :
                 Recent[i] = attempts[(Len(attempts) - Len(Recent)) + i]
           /\ \A i \in 1..(Len(attempts) - Len(Recent)) : now - attempts[i] >= Day
<1> DEFINE n == Len(attempts)
           c == Cardinality(Outdated)
<1>1. /\ attempts \in Seq(0..MaxTime) /\ n \in Nat /\ DOMAIN attempts = 1..n
      /\ \A i \in 1..n : attempts[i] \in 0..MaxTime
  BY LenProperties, ElementOfSeq DEF TypeOK, CacheTypes, SharedTypes, DraftTypes, PlaceTypes
<1>2. IsFiniteSet(1..n) /\ Cardinality(1..n) = n
  BY SMTT(30), <1>1, FS_Interval
<1>3. Outdated \in SUBSET (1..n)
  BY <1>1 DEF Outdated
<1>4. IsFiniteSet(Outdated) /\ c \in Nat /\ c <= n
  BY <1>2, <1>3, FS_Subset, FS_CardinalityType
<1>5. ASSUME NEW i \in 1..c
      PROVE  now - attempts[i] >= Day
  <2>1. i \in 1..n /\ i - 1 \in Nat /\ i \in Nat /\ c > i - 1
    BY <1>1, <1>4
  <2>2. CASE i \in Outdated
    BY <2>1, <2>2 DEF Outdated
  <2>3. CASE i \notin Outdated
    <3>1. PICK j \in 1..i : ~(now - attempts[j] >= Day)
      BY <1>1, <2>1, <2>3 DEF Outdated
    <3>2. Outdated \in SUBSET (1..(i - 1))
      BY <1>1, <2>1, <3>1 DEF Outdated
    <3>3. IsFiniteSet(1..(i - 1)) /\ Cardinality(1..(i - 1)) = i - 1
      BY <2>1, FS_Interval
    <3>4. c <= i - 1
      BY ZenonT(30), <3>2, <3>3, FS_Subset
    <3> QED
      BY <1>4, <2>1, <3>4
  <2> QED
    BY <2>2, <2>3
<1>6. Recent = SubSeq(attempts, c + 1, n)
  BY DEF Recent
<1> HIDE DEF n, c
<1>7. \A i \in (c + 1)..n : attempts[i] \in 0..MaxTime
  BY <1>1, <1>4
<1>8. /\ Recent \in Seq(0..MaxTime)
      /\ Len(Recent) = IF c + 1 <= n THEN n - (c + 1) + 1 ELSE 0
      /\ \A i \in 1..(n - (c + 1) + 1) : Recent[i] = attempts[(c + 1) + i - 1]
  <2>1. c + 1 \in Int /\ n \in Int
    BY <1>1, <1>4
  <2>2. LET t == SubSeq(attempts, c + 1, n)
        IN  /\ t \in Seq(0..MaxTime)
            /\ Len(t) = IF c + 1 <= n THEN n - (c + 1) + 1 ELSE 0
            /\ \A i \in 1..(n - (c + 1) + 1) : t[i] = attempts[(c + 1) + i - 1]
    BY <1>7, <2>1, SubSeqProperties
  <2> QED
    BY <1>6, <2>2, Zenon
<1>9. Len(Recent) = n - c /\ n - Len(Recent) = c
  BY <1>1, <1>4, <1>8
<1>10. \A i \in 1..Len(Recent) : Recent[i] = attempts[c + i]
  BY <1>1, <1>4, <1>8, <1>9
<1>11. Len(attempts) - Len(Recent) = c
  BY <1>9 DEF n
<1>12. Len(Recent) <= Len(attempts)
  BY <1>1, <1>4, <1>9 DEF n
<1> QED
  BY <1>5, <1>8, <1>10, <1>11, <1>12

\* A call that is not over validates a known candidate, in a flight of its own.
LEMMA CandidateFacts ==
    ASSUME TypeOK, NEW r \in Requests, pos[r] <= Len(Work[r])
    PROVE  Key(r) \in Keys /\ Mine(r) \in Flights /\ Mine(r) # NoFlight
<1>1. Work[r] \in Seq(Keys) /\ Len(Work[r]) \in Nat /\ pos[r] \in 1..Len(Work[r])
  BY WorkAssumption, LenProperties DEF TypeOK, CacheTypes, SharedTypes, DraftTypes, PlaceTypes
<1>2. Key(r) \in Keys
  BY <1>1, ElementOfSeq DEF Key
<1>3. Mine(r) \in {r} \X (1..Len(Work[r]))
  BY <1>1 DEF Mine
<1> QED
  BY <1>2, <1>3 DEF Flights, Mine, NoFlight

\* What the answer to the create on the line changes in the history.
LEMMA SettledFacts ==
    ASSUME TypeOK, Len(posts) > 0, NEW fate \in Fates
    PROVE  /\ Settled(fate) \in Seq(Creates)
           /\ Len(Settled(fate)) = Len(posts)
           /\ \A i \in 1..Len(posts) :
                 Settled(fate)[i] = IF i = Len(posts)
                                    THEN [posts[i] EXCEPT !.fate = fate, !.since = now]
                                    ELSE posts[i]
<1> DEFINE n == Len(posts)
           e == [posts[n] EXCEPT !.fate = fate, !.since = now]
<1>1. posts \in Seq(Creates) /\ n \in 1..Len(posts)
  BY LenProperties DEF TypeOK, CacheTypes, SharedTypes, DraftTypes, PlaceTypes
<1>2. posts[n] \in Creates
  BY <1>1, ElementOfSeq
<1>3. e \in Creates
  BY <1>2 DEF Creates, TypeOK, SharedTypes
<1>4. Settled(fate) = [posts EXCEPT ![n] = e]
  BY <1>1, <1>2, LenProperties DEF Settled, Creates
<1>5. LET t == [posts EXCEPT ![n] = e]
      IN  /\ t \in Seq(Creates) /\ Len(t) = Len(posts)
          /\ \A j \in 1..Len(posts) : t[j] = IF j = n THEN e ELSE posts[j]
  <2> HIDE DEF n, e
  <2> QED
    BY <1>1, <1>3, ExceptSeq
<1> QED
  BY ZenonT(30), <1>4, <1>5

\* A resolved draft changes in the history, and nothing else does.
LEMMA ResolvedFacts ==
    ASSUME TypeOK, NEW n \in 1..Len(posts)
    PROVE  LET p == [posts EXCEPT ![n].fate = "resolved"]
           IN  /\ p \in Seq(Creates) /\ Len(p) = Len(posts)
               /\ p[n].fate = "resolved" /\ p[n].key = posts[n].key
               /\ p[n].at = posts[n].at /\ p[n].since = posts[n].since
               /\ \A i \in 1..Len(posts) : i # n => p[i] = posts[i]
<1> DEFINE p == [posts EXCEPT ![n].fate = "resolved"]
<1> DEFINE e == [posts[n] EXCEPT !.fate = "resolved"]
<1>1. posts \in Seq(Creates)
  BY DEF TypeOK, DraftTypes
<1>2. posts[n] \in Creates
  BY <1>1, ElementOfSeq
<1>3. /\ e \in Creates /\ e.fate = "resolved" /\ e.key = posts[n].key
      /\ e.at = posts[n].at /\ e.since = posts[n].since
  BY <1>2 DEF Creates, Fates
<1>4. p = [posts EXCEPT ![n] = e]
  OBVIOUS
<1>5. LET t == [posts EXCEPT ![n] = e]
      IN  /\ t \in Seq(Creates) /\ Len(t) = Len(posts)
          /\ \A j \in 1..Len(posts) : t[j] = IF j = n THEN e ELSE posts[j]
  <2> HIDE DEF e
  <2> QED
    BY <1>1, <1>3, ExceptSeq
<1> QED
  BY <1>3, <1>4, <1>5

\* A new create is the last one of the history.
LEMMA SentFacts ==
    ASSUME TypeOK, NEW k \in Keys, NEW p,
           p = Append(posts, [key |-> k, at |-> now, fate |-> "sent", since |-> now])
    PROVE  /\ p \in Seq(Creates) /\ Len(p) = Len(posts) + 1
           /\ \A i \in 1..Len(posts) : p[i] = posts[i]
           /\ p[Len(posts) + 1] = [key |-> k, at |-> now, fate |-> "sent", since |-> now]
<1> DEFINE e == [key |-> k, at |-> now, fate |-> "sent", since |-> now]
<1>1. posts \in Seq(Creates) /\ e \in Creates
  BY DEF TypeOK, CacheTypes, SharedTypes, DraftTypes, PlaceTypes, Creates, Fates
<1> HIDE DEF e
<1>2. /\ Append(posts, e) \in Seq(Creates) /\ Len(Append(posts, e)) = Len(posts) + 1
      /\ \A i \in 1..Len(posts) : Append(posts, e)[i] = posts[i]
      /\ Append(posts, e)[Len(posts) + 1] = e
  BY <1>1, AppendProperties
<1> QED
  BY <1>2 DEF e

\* Both looks keep the types.
LEMMA LookTypes ==
    ASSUME TypeOK, InWork, NEW r \in Requests, Look(r)
    PROVE  /\ Key(r) \in Keys
           /\ CacheTypes'
           /\ resumable' \in [Keys -> [id : 0..Len(posts), at : 0..MaxTime]]
<1>1. Key(r) \in Keys
  BY CandidateFacts DEF Look, InWork
<1>2. cache' = LookedUp(Key(r))
  BY DEF Look
<1>3. /\ LookedUp(Key(r)) \in Seq(Entries) /\ Len(LookedUp(Key(r))) <= Len(cache)
      /\ \A i, j \in DOMAIN LookedUp(Key(r)) :
            LookedUp(Key(r))[i].key = LookedUp(Key(r))[j].key => i = j
  BY <1>1, LookedUpFacts
<1>4. Len(LookedUp(Key(r))) \in Nat /\ Len(cache) \in Nat /\ Len(cache) <= CacheMax
  BY <1>3, LenProperties DEF TypeOK, CacheTypes
<1>5. Len(LookedUp(Key(r))) <= CacheMax
  BY <1>3, <1>4, LimitsAssumption
<1>6. Len(posts) \in Nat /\ NoDraft \in [id : 0..Len(posts), at : 0..MaxTime]
  BY LenProperties, LimitsAssumption DEF TypeOK, DraftTypes, NoDraft
<1>7. resumable' \in [Keys -> [id : 0..Len(posts), at : 0..MaxTime]]
  BY <1>6 DEF Look, Pruned, TypeOK, DraftTypes
<1>8. CacheTypes'
  BY <1>2, <1>3, <1>5, Zenon DEF CacheTypes
<1> QED
  BY <1>1, <1>7, <1>8

\* A call goes on with its next candidate, or is over.
LEMMA AdvanceFacts ==
    ASSUME TypeOK, NEW r \in Requests, pos[r] <= Len(Work[r]), Advance(r)
    PROVE  /\ PlaceTypes'
           /\ pc'[r] \in {"look", "done"}
           /\ pc'[r] # "done" => pos'[r] <= Len(Work[r])
           /\ \A q \in Requests : q # r => pc'[q] = pc[q] /\ pos'[q] = pos[q]
<1>1. \A q \in Requests : Len(Work[q]) \in Nat
  BY WorkAssumption, LenProperties
<1>2. \A q \in Requests : pos'[q] = IF q = r THEN pos[r] + 1 ELSE pos[q]
  BY DEF TypeOK, PlaceTypes, Advance
<1>3. \A q \in Requests :
        pc'[q] = IF q = r THEN IF pos[r] = Len(Work[r]) THEN "done" ELSE "look" ELSE pc[q]
  BY DEF TypeOK, PlaceTypes, Advance
<1>4. pos[r] \in Nat \ {0}
  BY DEF TypeOK, PlaceTypes
<1>5. pos' \in [Requests -> Nat \ {0}]
  BY <1>4 DEF TypeOK, PlaceTypes, Advance
<1>6. pc' \in [Requests -> Running \cup {"idle", "look", "miss", "wait", "done", "failed"}]
  BY DEF TypeOK, PlaceTypes, Advance
<1>7. \A q \in Requests : pos'[q] <= Len(Work[q]) + 1
  BY <1>1, <1>2, <1>4 DEF TypeOK, PlaceTypes
<1>8. pc'[r] # "done" => pos'[r] <= Len(Work[r])
  BY <1>1, <1>2, <1>3, <1>4
<1> QED
  BY <1>2, <1>3, <1>5, <1>6, <1>7, <1>8 DEF PlaceTypes

\* Publishing changes the cache by its own answer at most, and forgets others
\* only when the cache is full.
LEMMA PublishedFacts ==
    ASSUME TypeOK, InWork, Held, Exclusive, NEW r \in Requests, Publish(r)
    PROVE  LET e == [key |-> Key(r), at |-> now, kind |-> outcome[r]]
           IN  /\ CacheTypes'
               /\ \A i \in DOMAIN cache' :
                     cache'[i] = e \/ \E j \in DOMAIN cache : cache'[i] = cache[j]
               /\ Len(cache) < CacheMax =>
                     /\ \A j \in DOMAIN cache : \E i \in DOMAIN cache' : cache'[i] = cache[j]
                     /\ outcome[r] \in {"answer", "unknown"} =>
                           \E i \in DOMAIN cache' : cache'[i] = e
<1> DEFINE e == [key |-> Key(r), at |-> now, kind |-> outcome[r]]
<1>1. Key(r) \in Keys /\ Mine(r) # NoFlight /\ inflight[Key(r)] = Mine(r)
  BY CandidateFacts DEF Publish, Held, InWork, Running
<1>2. CASE outcome[r] \in {"answer", "unknown"}
  <2>1. e \in Entries
    BY <1>1, <1>2 DEF Entries, TypeOK, SharedTypes
  <2>2. \A i \in DOMAIN cache : cache[i].key # e.key
    BY <1>1 DEF Exclusive
  <2>3. cache' = Evicted(Append(cache, e))
    BY <1>2 DEF Publish, CacheAfter
  <2> HIDE DEF e
  <2>4. /\ CacheTypes'
        /\ \A i \in DOMAIN cache' :
              cache'[i] = e \/ \E j \in DOMAIN cache : cache'[i] = cache[j]
        /\ Len(cache) < CacheMax =>
              /\ \E i \in DOMAIN cache' : cache'[i] = e
              /\ \A j \in DOMAIN cache : \E i \in DOMAIN cache' : cache'[i] = cache[j]
    BY <2>1, <2>2, <2>3, StoredFacts DEF CacheTypes
  <2> QED
    BY <2>4 DEF e
<1>3. CASE outcome[r] \notin {"answer", "unknown"}
  BY <1>3 DEF TypeOK, CacheTypes, Publish, CacheAfter
<1> QED
  BY <1>2, <1>3

\* Every step keeps the types.
LEMMA TypeStep ==
    ASSUME TypeOK, InWork, Held, Exclusive, OnTheLine, Polled, [Next]_vars
    PROVE  TypeOK'
<1> USE LimitsAssumption
<1>1. Len(posts) \in Nat /\ now \in 0..MaxTime
  BY LenProperties DEF TypeOK, DraftTypes, SharedTypes
<1>2. \A r \in Requests : pc[r] # "done" =>
        /\ pos[r] <= Len(Work[r])
        /\ Key(r) \in Keys /\ Mine(r) \in Flights /\ Mine(r) # NoFlight
  BY CandidateFacts DEF InWork
<1>3. CASE UNCHANGED vars
  BY <1>3 DEF TypeOK, CacheTypes, SharedTypes, DraftTypes, PlaceTypes, CallTypes,
              vars, vault, service, progress, history
<1>4. CASE Tick
  BY SMTT(30), <1>4 DEF TypeOK, CacheTypes, SharedTypes, DraftTypes, PlaceTypes, CallTypes,
              Tick, vault, service, progress, history
<1>5. CASE Transition
  BY SMTT(30), <1>5 DEF TypeOK, CacheTypes, SharedTypes, DraftTypes, PlaceTypes, CallTypes,
              Transition, vault, service, progress, history
<1>6. ASSUME NEW r \in Requests, Begin(r)
      PROVE  TypeOK'
  <2>1. CacheTypes' /\ SharedTypes' /\ DraftTypes'
    BY <1>6 DEF TypeOK, CacheTypes, SharedTypes, DraftTypes, Begin, vault,
       service, progress, history
  <2>2. PlaceTypes'
    BY <1>6 DEF TypeOK, PlaceTypes, Begin, Goto, Running, vault, service,
       progress, history
  <2>3. CallTypes'
    BY <1>6 DEF TypeOK, CallTypes, Begin, SharedTypes, vault, service,
       progress, history
  <2> QED
    BY <2>1, <2>2, <2>3 DEF TypeOK
<1>7. ASSUME NEW r \in Requests, Answered(r)
      PROVE  TypeOK'
  <2>1. SharedTypes' /\ CallTypes'
    BY <1>7 DEF TypeOK, SharedTypes, CallTypes, Answered, vault, service,
       progress, history
  <2>2. CacheTypes'
    BY <1>7, LookTypes DEF TypeOK, CacheTypes, Answered, vault, service,
       progress, history
  <2>3. DraftTypes'
    BY <1>7, LookTypes DEF TypeOK, DraftTypes, Answered, vault, service,
       progress, history
  <2>4. PlaceTypes'
    BY <1>7, <1>2, AdvanceFacts DEF TypeOK, PlaceTypes, Answered, Look, vault,
       service, progress, history
  <2> QED
    BY <2>1, <2>2, <2>3, <2>4 DEF TypeOK
<1>8. ASSUME NEW r \in Requests, Join(r)
      PROVE  TypeOK'
  <2>1. SharedTypes'
    BY <1>8 DEF TypeOK, SharedTypes, Join, vault, service, progress, history
  <2>2. CacheTypes'
    BY <1>8, LookTypes DEF TypeOK, CacheTypes, Join, vault, service, progress,
       history
  <2>3. DraftTypes'
    BY <1>8, LookTypes DEF TypeOK, DraftTypes, Join, vault, service, progress,
       history
  <2>4. PlaceTypes'
    BY <1>8 DEF TypeOK, PlaceTypes, Join, Goto, vault, service, progress,
       history
  <2>5. CallTypes'
    BY <1>8, LookTypes DEF TypeOK, CallTypes, Join, SharedTypes, Flying,
       vault, service, progress, history
  <2> QED
    BY <2>1, <2>2, <2>3, <2>4, <2>5 DEF TypeOK
<1>9. ASSUME NEW r \in Requests, Miss(r)
      PROVE  TypeOK'
  <2>1. SharedTypes' /\ CallTypes'
    BY <1>9 DEF TypeOK, SharedTypes, CallTypes, Miss, vault, service,
       progress, history
  <2>2. CacheTypes'
    BY <1>9, LookTypes DEF TypeOK, CacheTypes, Miss, vault, service, progress,
       history
  <2>3. DraftTypes'
    BY <1>9, LookTypes DEF TypeOK, DraftTypes, Miss, vault, service, progress,
       history
  <2>4. PlaceTypes'
    BY <1>9 DEF TypeOK, PlaceTypes, Miss, Goto, vault, service, progress,
       history
  <2> QED
    BY <2>1, <2>2, <2>3, <2>4 DEF TypeOK
<1>10. ASSUME NEW r \in Requests, Unbuildable(r)
      PROVE  TypeOK'
  <2>1. CacheTypes' /\ SharedTypes' /\ DraftTypes' /\ CallTypes'
    BY <1>10 DEF TypeOK, CacheTypes, SharedTypes, DraftTypes, CallTypes,
       Unbuildable, vault, service, progress, history
  <2>2. PlaceTypes'
    BY <1>10, <1>2, AdvanceFacts DEF TypeOK, PlaceTypes, Unbuildable, vault,
       service, progress, history
  <2> QED
    BY <2>1, <2>2 DEF TypeOK
<1>11. ASSUME NEW r \in Requests, Resume(r)
      PROVE  TypeOK'
  <2>1. CacheTypes'
    BY <1>11, LookTypes DEF TypeOK, CacheTypes, Resume, Take, vault, service,
       progress, history
  <2>2. SharedTypes'
    BY <1>11, <1>2 DEF TypeOK, SharedTypes, Resume, Take, Look, PlaceTypes,
       vault, service, progress, history
  <2>3. DraftTypes'
    BY <1>11, LookTypes DEF TypeOK, DraftTypes, Resume, Take, Look, vault,
       service, progress, history
  <2>4. PlaceTypes'
    BY <1>11 DEF TypeOK, PlaceTypes, Resume, Goto, Running, vault, service,
       progress, history
  <2>5. CallTypes'
    BY <1>11 DEF TypeOK, CallTypes, Resume, vault, service, progress, history
  <2> QED
    BY <2>1, <2>2, <2>3, <2>4, <2>5 DEF TypeOK
<1>12. ASSUME NEW r \in Requests, Reserve(r)
      PROVE  TypeOK'
  <2>1. CacheTypes'
    BY <1>12, LookTypes DEF TypeOK, CacheTypes, Reserve, Take, vault, service,
       progress, history
  <2>2. SharedTypes'
    BY <1>12, <1>1, <1>2, RecentFacts, AppendProperties DEF TypeOK,
       SharedTypes, Reserve, Take, Look, PlaceTypes, vault, service, progress,
       history
  <2>3. DraftTypes'
    BY <1>12, LookTypes DEF TypeOK, DraftTypes, Reserve, Take, vault, service,
       progress, history
  <2>4. PlaceTypes'
    BY <1>12 DEF TypeOK, PlaceTypes, Reserve, Goto, Running, vault, service,
       progress, history
  <2>5. CallTypes'
    BY <1>12 DEF TypeOK, CallTypes, Reserve, vault, service, progress, history
  <2> QED
    BY <2>1, <2>2, <2>3, <2>4, <2>5 DEF TypeOK
<1>13. ASSUME NEW r \in Requests, Limited(r)
      PROVE  TypeOK'
  <2>1. CallTypes'
    BY <1>13 DEF TypeOK, CallTypes, Limited, vault, service, progress, history
  <2>2. CacheTypes'
    BY <1>13, LookTypes DEF TypeOK, CacheTypes, Limited, vault, service,
       progress, history
  <2>3. SharedTypes'
    BY <1>13, RecentFacts DEF TypeOK, SharedTypes, Limited, vault, service,
       progress, history
  <2>4. DraftTypes'
    BY <1>13, LookTypes DEF TypeOK, DraftTypes, Limited, vault, service,
       progress, history
  <2>5. PlaceTypes'
    BY <1>13, <1>2, AdvanceFacts DEF TypeOK, PlaceTypes, Limited, vault,
       service, progress, history
  <2> QED
    BY <2>1, <2>2, <2>3, <2>4, <2>5 DEF TypeOK
<1>14. ASSUME NEW r \in Requests, SendCreate(r)
      PROVE  TypeOK'
  <2>1. CacheTypes' /\ SharedTypes' /\ CallTypes'
    BY <1>14 DEF TypeOK, CacheTypes, SharedTypes, CallTypes, SendCreate,
       vault, service, progress, history
  <2>2. DraftTypes'
    <3>1. posts' \in Seq(Creates) /\ Len(posts') = Len(posts) + 1
      BY <1>2, <1>14, SentFacts DEF SendCreate
    <3>2. 0..Len(posts) \subseteq 0..Len(posts')
      BY <1>1, <3>1
    <3> QED
      BY <1>14, <3>1, <3>2 DEF TypeOK, DraftTypes, SendCreate, service, progress
  <2>3. PlaceTypes'
    BY <1>14 DEF TypeOK, PlaceTypes, SendCreate, Goto, Running, vault,
       service, progress, history
  <2> QED
    BY <2>1, <2>2, <2>3 DEF TypeOK
<1>15. ASSUME NEW r \in Requests, CooldownRefuses(r)
      PROVE  TypeOK'
  <2>1. CacheTypes' /\ SharedTypes' /\ DraftTypes'
    BY <1>15 DEF TypeOK, CacheTypes, SharedTypes, DraftTypes, CooldownRefuses,
       vault, service, progress, history
  <2>2. PlaceTypes'
    BY <1>15 DEF TypeOK, PlaceTypes, CooldownRefuses, Return, Goto, Running,
       vault, service, progress, history
  <2>3. CallTypes'
    BY <1>15 DEF TypeOK, CallTypes, CooldownRefuses, Return, Goto, vault,
       service, progress, history
  <2> QED
    BY <2>1, <2>2, <2>3 DEF TypeOK
<1>16. ASSUME NEW r \in Requests, CreateNamesDraft(r)
      PROVE  TypeOK'
  <2>1. CacheTypes' /\ SharedTypes'
    BY <1>16 DEF TypeOK, CacheTypes, SharedTypes, CreateNamesDraft, vault,
       service, progress, history
  <2>2. DraftTypes'
    <3>1. posts' \in Seq(Creates) /\ Len(posts') = Len(posts)
      BY ZenonT(30), <1>16, SettledFacts DEF CreateNamesDraft, OnTheLine, Fates
    <3>2. [id |-> Len(posts), at |-> now] \in [id : 0..Len(posts), at : 0..MaxTime]
      BY <1>1
    <3>3. resumable' \in [Keys -> [id : 0..Len(posts), at : 0..MaxTime]]
      BY <1>16, <3>2 DEF TypeOK, DraftTypes, CreateNamesDraft, Remembered
    <3>4. draft' \in [Requests -> [id : 0..Len(posts), at : 0..MaxTime]]
      BY <1>16, <3>2 DEF TypeOK, DraftTypes, CreateNamesDraft
    <3> QED
      BY <3>1, <3>3, <3>4 DEF DraftTypes
  <2>3. PlaceTypes'
    BY <1>16 DEF TypeOK, PlaceTypes, CreateNamesDraft, Return, Goto, Running,
       vault, service, progress, history
  <2>4. CallTypes'
    <3>1. polls' \in [Requests -> 0..MaxPolls]
      BY <1>16 DEF TypeOK, CallTypes, CreateNamesDraft
    <3>2. outcome' \in [Requests -> {"none", "answer", "unknown", "timeout", "error"}]
      BY <1>16 DEF TypeOK, CallTypes, CreateNamesDraft, Return
    <3> QED
      BY <1>16, <3>1, <3>2 DEF TypeOK, CallTypes, CreateNamesDraft
  <2> QED
    BY <2>1, <2>2, <2>3, <2>4 DEF TypeOK
<1>17. ASSUME NEW r \in Requests, CreateEndsWithoutDraft(r)
      PROVE  TypeOK'
  <2>1. CacheTypes' /\ SharedTypes'
    BY <1>17 DEF TypeOK, CacheTypes, SharedTypes, CreateEndsWithoutDraft,
       vault, service, progress, history
  <2>2. DraftTypes'
    BY ZenonT(30), <1>17, <1>1, SettledFacts DEF TypeOK, DraftTypes,
       CreateEndsWithoutDraft, OnTheLine, Fates, vault, service, progress,
       history
  <2>3. PlaceTypes'
    BY <1>17 DEF TypeOK, PlaceTypes, CreateEndsWithoutDraft, Return, Goto,
       Running, vault, service, progress, history
  <2>4. CallTypes'
    BY <1>17 DEF TypeOK, CallTypes, CreateEndsWithoutDraft, Return, Goto,
       vault, service, progress, history
  <2> QED
    BY <2>1, <2>2, <2>3, <2>4 DEF TypeOK
<1>18. ASSUME NEW r \in Requests, Revoked(r)
      PROVE  TypeOK'
  <2>1. CacheTypes' /\ SharedTypes'
    BY <1>18 DEF TypeOK, CacheTypes, SharedTypes, Revoked, vault, service,
       progress, history
  <2>2. DraftTypes'
    BY ZenonT(30), <1>18, <1>1, SettledFacts DEF TypeOK, DraftTypes, Revoked, OnTheLine,
       Fates, vault, service, progress, history
  <2>3. PlaceTypes'
    BY <1>18 DEF TypeOK, PlaceTypes, Revoked, Return, Goto, Running, vault,
       service, progress, history
  <2>4. CallTypes'
    BY <1>18 DEF TypeOK, CallTypes, Revoked, Return, Goto, vault, service,
       progress, history
  <2> QED
    BY <2>1, <2>2, <2>3, <2>4 DEF TypeOK
<1>19. ASSUME NEW r \in Requests, PollPending(r)
      PROVE  TypeOK'
  <2>1. CacheTypes' /\ SharedTypes' /\ DraftTypes'
    BY <1>19 DEF TypeOK, CacheTypes, SharedTypes, DraftTypes, PollPending,
       vault, service, progress, history
  <2>2. PlaceTypes'
    BY <1>19 DEF TypeOK, PlaceTypes, PollPending, Return, Goto, Running,
       vault, service, progress, history
  <2>3. CallTypes'
    BY <1>19 DEF TypeOK, CallTypes, PollPending, Return, Goto, vault, service,
       progress, history
  <2> QED
    BY <2>1, <2>2, <2>3 DEF TypeOK
<1>20. ASSUME NEW r \in Requests, PollFails(r)
      PROVE  TypeOK'
  <2>1. CacheTypes' /\ SharedTypes' /\ DraftTypes'
    BY <1>20 DEF TypeOK, CacheTypes, SharedTypes, DraftTypes, PollFails,
       vault, service, progress, history
  <2>2. PlaceTypes'
    BY <1>20 DEF TypeOK, PlaceTypes, PollFails, Return, Goto, Running, vault,
       service, progress, history
  <2>3. CallTypes'
    BY <1>20 DEF TypeOK, CallTypes, PollFails, Return, Goto, vault, service,
       progress, history
  <2> QED
    BY <2>1, <2>2, <2>3 DEF TypeOK
<1>21. ASSUME NEW r \in Requests, PollResolves(r)
      PROVE  TypeOK'
  <2>1. CacheTypes' /\ SharedTypes'
    BY <1>21 DEF TypeOK, CacheTypes, SharedTypes, PollResolves, vault,
       service, progress, history
  <2>2. DraftTypes'
    <3>1. draft[r].id \in 1..Len(posts)
      BY <1>21, LenProperties DEF PollResolves, Polled, IsLatest, TypeOK, DraftTypes
    <3>2. posts' \in Seq(Creates) /\ Len(posts') = Len(posts)
      BY <1>21, <3>1, ResolvedFacts DEF PollResolves
    <3>3. NoDraft \in [id : 0..Len(posts), at : 0..MaxTime]
      BY <1>1 DEF NoDraft
    <3> QED
      BY <1>21, <3>2, <3>3 DEF TypeOK, DraftTypes, PollResolves
  <2>3. PlaceTypes'
    BY <1>21 DEF TypeOK, PlaceTypes, PollResolves, Return, Goto, Running,
       vault, service, progress, history
  <2>4. CallTypes'
    BY <1>21 DEF TypeOK, CallTypes, PollResolves, Return, Goto, vault,
       service, progress, history
  <2> QED
    BY <2>1, <2>2, <2>3, <2>4 DEF TypeOK
<1>22. ASSUME NEW r \in Requests, Timeslots(r)
      PROVE  TypeOK'
  <2>1. CacheTypes' /\ SharedTypes' /\ DraftTypes'
    BY <1>22 DEF TypeOK, CacheTypes, SharedTypes, DraftTypes, Timeslots,
       vault, service, progress, history
  <2>2. PlaceTypes'
    BY <1>22 DEF TypeOK, PlaceTypes, Timeslots, Return, Goto, Running, vault,
       service, progress, history
  <2>3. CallTypes'
    BY <1>22 DEF TypeOK, CallTypes, Timeslots, Return, Goto, vault, service,
       progress, history
  <2> QED
    BY <2>1, <2>2, <2>3 DEF TypeOK
<1>23. ASSUME NEW r \in Requests, Publish(r)
      PROVE  TypeOK'
  <2>1. DraftTypes' /\ CallTypes'
    BY <1>23 DEF TypeOK, DraftTypes, CallTypes, Publish, vault, service,
       progress, history
  <2>2. CacheTypes'
    BY <1>2, <1>23, PublishedFacts
  <2>3. SharedTypes'
    BY <1>23, <1>2 DEF TypeOK, SharedTypes, Publish, Released, Done, vault,
       service, progress, history
  <2>4. PlaceTypes'
    BY <1>23, <1>2, AdvanceFacts DEF TypeOK, PlaceTypes, Publish, Goto, vault,
       service, progress, history
  <2> QED
    BY <2>1, <2>2, <2>3, <2>4 DEF TypeOK
<1>24. ASSUME NEW r \in Requests, Wake(r)
      PROVE  TypeOK'
  <2>1. CacheTypes' /\ SharedTypes' /\ DraftTypes' /\ CallTypes'
    BY <1>24 DEF TypeOK, CacheTypes, SharedTypes, DraftTypes, CallTypes, Wake,
       vault, service, progress, history
  <2>2. PlaceTypes'
    BY <1>24, <1>2, AdvanceFacts DEF TypeOK, PlaceTypes, Wake, Goto, vault,
       service, progress, history
  <2> QED
    BY <2>1, <2>2 DEF TypeOK
<1> QED
  BY <1>3, <1>4, <1>5, <1>6, <1>7, <1>8, <1>9, <1>10, <1>11, <1>12, <1>13,
     <1>14, <1>15, <1>16, <1>17, <1>18, <1>19, <1>20, <1>21, <1>22, <1>23,
     <1>24 DEF Next, Step

-----------------------------------------------------------------------------
(* What a step of a call may change.                                       *)

\* A step of a call leaves the other calls where they are.
LEMMA OthersStay ==
    ASSUME TypeOK, NEW r \in Requests, Begin(r) \/ Step(r)
    PROVE  \A q \in Requests : q # r =>
              /\ pc'[q] = pc[q] /\ pos'[q] = pos[q]
              /\ draft'[q] = draft[q] /\ outcome'[q] = outcome[q]
              /\ Key(q)' = Key(q) /\ Mine(q)' = Mine(q)
<1> DEFINE Stay == \A q \in Requests : q # r =>
              /\ pc'[q] = pc[q] /\ pos'[q] = pos[q]
              /\ draft'[q] = draft[q] /\ outcome'[q] = outcome[q]
<1> USE DEF PlaceTypes, DraftTypes, CallTypes
<1>1. ASSUME Begin(r) PROVE Stay
  BY <1>1 DEF TypeOK, Begin, Goto, progress
<1>2. ASSUME Answered(r) PROVE Stay
  BY <1>2 DEF TypeOK, Answered, Advance, progress
<1>3. ASSUME Join(r) PROVE Stay
  BY <1>3 DEF TypeOK, Join, Goto, progress
<1>4. ASSUME Miss(r) PROVE Stay
  BY <1>4 DEF TypeOK, Miss, Goto, progress
<1>5. ASSUME Unbuildable(r) PROVE Stay
  BY <1>5 DEF TypeOK, Unbuildable, Advance, progress
<1>6. ASSUME Resume(r) PROVE Stay
  BY <1>6 DEF TypeOK, Resume, Take, Goto, progress
<1>7. ASSUME Reserve(r) PROVE Stay
  BY <1>7 DEF TypeOK, Reserve, Take, Goto, progress
<1>8. ASSUME Limited(r) PROVE Stay
  BY <1>8 DEF TypeOK, Limited, Advance, progress
<1>9. ASSUME SendCreate(r) PROVE Stay
  BY <1>9 DEF TypeOK, SendCreate, Goto, progress
<1>10. ASSUME CooldownRefuses(r) PROVE Stay
  BY <1>10 DEF TypeOK, CooldownRefuses, Return, Goto, progress
<1>11. ASSUME CreateNamesDraft(r) PROVE Stay
  BY <1>11 DEF TypeOK, CreateNamesDraft, Return, Goto, progress
<1>12. ASSUME CreateEndsWithoutDraft(r) PROVE Stay
  BY <1>12 DEF TypeOK, CreateEndsWithoutDraft, Return, Goto, progress
<1>13. ASSUME Revoked(r) PROVE Stay
  BY <1>13 DEF TypeOK, Revoked, Return, Goto, progress
<1>14. ASSUME PollPending(r) PROVE Stay
  BY <1>14 DEF TypeOK, PollPending, Return, Goto, progress
<1>15. ASSUME PollFails(r) PROVE Stay
  BY <1>15 DEF TypeOK, PollFails, Return, Goto, progress
<1>16. ASSUME PollResolves(r) PROVE Stay
  BY <1>16 DEF TypeOK, PollResolves, Return, Goto, progress
<1>17. ASSUME Timeslots(r) PROVE Stay
  BY <1>17 DEF TypeOK, Timeslots, Return, Goto, progress
<1>18. ASSUME Publish(r) PROVE Stay
  BY <1>18 DEF TypeOK, Publish, Advance, Goto, progress
<1>19. ASSUME Wake(r) PROVE Stay
  BY <1>19 DEF TypeOK, Wake, Advance, Goto, progress
<1>20. Stay
  BY <1>1, <1>2, <1>3, <1>4, <1>5, <1>6, <1>7, <1>8, <1>9, <1>10, <1>11,
     <1>12, <1>13, <1>14, <1>15, <1>16, <1>17, <1>18, <1>19 DEF Step
<1> QED
  BY <1>20 DEF Key, Mine

\* The step leaves the cache and the flights alone, ...
Keeps(r) ==
    /\ UNCHANGED <<cache, inflight>>
    /\ pc'[r] \in Running <=> pc[r] \in Running
    /\ pc[r] \in Running => pos'[r] = pos[r]
\* ... or only looks, ...
Looks(r) ==
    /\ Look(r) /\ UNCHANGED inflight
    /\ pc[r] \notin Running /\ pc'[r] \notin Running
\* ... or takes the flight of its candidate, or publishes it.
Takes(r) ==
    /\ Take(r) /\ UNCHANGED pos
    /\ pc[r] \notin Running /\ pc'[r] \in Running

LEMMA FlightKinds ==
    ASSUME TypeOK, InWork, NEW r \in Requests, Begin(r) \/ Step(r)
    PROVE  /\ Keeps(r) \/ Looks(r) \/ Takes(r) \/ Publish(r)
           /\ pc'[r] # "done" => pos'[r] <= Len(Work[r])
<1> DEFINE Kinds ==
        /\ Keeps(r) \/ Looks(r) \/ Takes(r) \/ Publish(r)
        /\ pc'[r] # "done" => pos'[r] <= Len(Work[r])
<1> USE DEF PlaceTypes, Running
<1>1. pc[r] # "done" => pos[r] <= Len(Work[r])
  BY DEF InWork
<1>2. ASSUME Begin(r) PROVE Kinds
  BY <1>1, <1>2 DEF TypeOK, Keeps, Begin, Goto, service, progress
<1>3. ASSUME Answered(r) PROVE Kinds
  BY <1>1, <1>3, AdvanceFacts DEF TypeOK, Looks, Answered, Look, service,
     progress
<1>4. ASSUME Join(r) PROVE Kinds
  BY <1>1, <1>4 DEF TypeOK, Looks, Join, Goto, Look, service, progress
<1>5. ASSUME Miss(r) PROVE Kinds
  BY <1>1, <1>5 DEF TypeOK, Looks, Miss, Goto, Look, service, progress
<1>6. ASSUME Unbuildable(r) PROVE Kinds
  BY <1>1, <1>6, AdvanceFacts DEF TypeOK, Keeps, Unbuildable, service,
     progress
<1>7. ASSUME Resume(r) PROVE Kinds
  BY <1>1, <1>7 DEF TypeOK, Takes, Resume, Take, Goto, service, progress
<1>8. ASSUME Reserve(r) PROVE Kinds
  BY <1>1, <1>8 DEF TypeOK, Takes, Reserve, Take, Goto, service, progress
<1>9. ASSUME Limited(r) PROVE Kinds
  BY <1>1, <1>9, AdvanceFacts DEF TypeOK, Looks, Limited, Look, service,
     progress
<1>10. ASSUME SendCreate(r) PROVE Kinds
  BY <1>1, <1>10 DEF TypeOK, Keeps, SendCreate, Goto, service, progress
<1>11. ASSUME CooldownRefuses(r) PROVE Kinds
  BY <1>1, <1>11 DEF TypeOK, Keeps, CooldownRefuses, Return, Goto, service,
     progress
<1>12. ASSUME CreateNamesDraft(r) PROVE Kinds
  BY <1>1, <1>12 DEF TypeOK, Keeps, CreateNamesDraft, Return, Goto, service,
     progress
<1>13. ASSUME CreateEndsWithoutDraft(r) PROVE Kinds
  BY <1>1, <1>13 DEF TypeOK, Keeps, CreateEndsWithoutDraft, Return, Goto,
     service, progress
<1>14. ASSUME Revoked(r) PROVE Kinds
  BY <1>1, <1>14 DEF TypeOK, Keeps, Revoked, Return, Goto, service, progress
<1>15. ASSUME PollPending(r) PROVE Kinds
  BY <1>1, <1>15 DEF TypeOK, Keeps, PollPending, Return, Goto, service,
     progress
<1>16. ASSUME PollFails(r) PROVE Kinds
  BY <1>1, <1>16 DEF TypeOK, Keeps, PollFails, Return, Goto, service, progress
<1>17. ASSUME PollResolves(r) PROVE Kinds
  BY <1>1, <1>17 DEF TypeOK, Keeps, PollResolves, Return, Goto, service,
     progress
<1>18. ASSUME Timeslots(r) PROVE Kinds
  BY <1>1, <1>18 DEF TypeOK, Keeps, Timeslots, Return, Goto, service, progress
<1>19. ASSUME Publish(r) PROVE Kinds
  BY <1>1, <1>19, AdvanceFacts DEF TypeOK, Publish, Goto, service, progress
<1>20. ASSUME Wake(r) PROVE Kinds
  BY <1>1, <1>20, AdvanceFacts DEF TypeOK, Keeps, Wake, Goto, service,
     progress
<1> QED
  BY <1>2, <1>3, <1>4, <1>5, <1>6, <1>7, <1>8, <1>9, <1>10, <1>11, <1>12,
     <1>13, <1>14, <1>15, <1>16, <1>17, <1>18, <1>19, <1>20 DEF Step

\* A call holds the flight of what it validates, and nobody else does.
LEMMA FlightStep ==
    ASSUME TypeOK, InWork, Held, Exclusive, [Next]_vars
    PROVE  InWork' /\ Held' /\ Exclusive'
<1> USE DEF TypeOK, PlaceTypes
<1>1. ASSUME UNCHANGED <<cache, inflight, pc, pos>>
      PROVE  InWork' /\ Held' /\ Exclusive'
  BY <1>1 DEF InWork, Held, Exclusive, Key, Mine
<1>2. ASSUME NEW r \in Requests, Begin(r) \/ Step(r)
      PROVE  InWork' /\ Held' /\ Exclusive'
  <2>1. /\ Keeps(r) \/ Looks(r) \/ Takes(r) \/ Publish(r)
        /\ pc'[r] # "done" => pos'[r] <= Len(Work[r])
    BY <1>2, FlightKinds
  <2>2. \A q \in Requests : q # r =>
          pc'[q] = pc[q] /\ pos'[q] = pos[q] /\ Key(q)' = Key(q) /\ Mine(q)' = Mine(q)
    BY <1>2, OthersStay
  <2>3. InWork'
    BY <2>1, <2>2 DEF InWork
  <2>4. \A q \in Requests : pc[q] \in Running => Key(q) \in Keys /\ Mine(q) # NoFlight
    BY CandidateFacts DEF InWork, Running
  <2>5. \A q \in Requests : q # r => Mine(q) # Mine(r)
    BY DEF Mine
  <2>6. pos'[r] = pos[r] => Key(r)' = Key(r) /\ Mine(r)' = Mine(r)
    BY DEF Key, Mine
  <2>7. CASE Keeps(r)
    <3>1. Held'
      BY <2>2, <2>7, <2>6 DEF Held, Keeps
    <3>2. Exclusive'
      BY <2>7 DEF Exclusive, Keeps
    <3> QED
      BY <2>3, <3>1, <3>2
  <2>8. CASE Looks(r)
    <3>1. Held'
      BY <2>2, <2>8 DEF Held, Looks
    <3>2. Key(r) \in Keys /\ cache' = LookedUp(Key(r))
      BY <2>8, LookTypes DEF Looks, Look
    <3>3. \A i \in DOMAIN cache' : \E j \in DOMAIN cache : cache'[i] = cache[j]
      BY <3>2, LookedUpFacts
    <3>4. Exclusive'
      BY <2>8, <3>3 DEF Exclusive, Looks
    <3> QED
      BY <2>3, <3>1, <3>4
  <2>9. CASE Takes(r)
    <3>1. /\ Key(r) \in Keys /\ cache' = LookedUp(Key(r)) /\ ~Hit(Key(r))
          /\ inflight[Key(r)] = NoFlight
          /\ inflight' = [inflight EXCEPT ![Key(r)] = Mine(r)]
      BY <2>9, LookTypes DEF Takes, Take, Look, Flying
    <3>2. /\ \A i \in DOMAIN cache' : \E j \in DOMAIN cache : cache'[i] = cache[j]
          /\ \A i \in DOMAIN cache' : cache'[i].key # Key(r)
      BY <3>1, LookedUpFacts
    <3>3. Held'
      <4>1. ASSUME NEW q \in Requests, pc'[q] \in Running
            PROVE  inflight'[Key(q)'] = Mine(q)'
        <5>1. CASE q = r
          BY <2>9, <2>6, <3>1, <5>1 DEF Takes, SharedTypes
        <5>2. CASE q # r
          <6>1. inflight[Key(q)] = Mine(q) /\ Key(q) # Key(r) /\ Key(q) \in Keys
            BY <2>2, <2>4, <3>1, <4>1, <5>2 DEF Held
          <6> QED
            BY <2>2, <3>1, <5>2, <6>1 DEF SharedTypes
        <5> QED
          BY <5>1, <5>2
      <4> QED
        BY <4>1 DEF Held
    <3>4. Exclusive'
      BY <3>1, <3>2 DEF Exclusive, SharedTypes
    <3> QED
      BY <2>3, <3>3, <3>4
  <2>10. CASE Publish(r)
    <3>1. /\ pos[r] <= Len(Work[r]) /\ Key(r) \in Keys
          /\ inflight[Key(r)] = Mine(r) /\ Mine(r) # NoFlight
          /\ inflight' = [inflight EXCEPT ![Key(r)] = NoFlight]
      BY <2>4, <2>10 DEF Publish, Released, Held, Running, InWork
    <3>2. pc'[r] \notin Running
      BY <2>10, <3>1, AdvanceFacts DEF Publish, Goto, Running
    <3>3. Held'
      BY <2>2, <2>5, <3>1, <3>2 DEF Held, SharedTypes
    <3>4. \A i \in DOMAIN cache' :
            cache'[i].key = Key(r) \/ \E j \in DOMAIN cache : cache'[i] = cache[j]
      BY <2>10, PublishedFacts DEF InWork
    <3>5. Exclusive'
      BY <3>1, <3>4 DEF Exclusive, SharedTypes
    <3> QED
      BY <2>3, <3>3, <3>5
  <2> QED
    BY <2>1, <2>7, <2>8, <2>9, <2>10
<1> QED
  BY <1>1, <1>2 DEF Next, Tick, Transition, vars, service, progress

\* The step concerns no create and no draft, but may drop expired drafts, ...
Aside(r) ==
    /\ UNCHANGED <<now, posts>>
    /\ resumable' \in {resumable, Pruned}
    /\ pc[r] # "sent"
    /\ pc'[r] \in {"create", "sent", "poll"} =>
          pc'[r] = pc[r] /\ pos'[r] = pos[r] /\ draft'[r] = draft[r]
\* ... or learns that a create left no draft, or that nobody will know, or is
\* a step of the life of a draft.
Settles(r) ==
    \E fate \in {"closed", "unknown", "lost"} :
        /\ pc[r] = "sent" /\ posts' = Settled(fate)
        /\ pc'[r] = "publish" /\ UNCHANGED <<now, pos, resumable>>
        /\ fate # "lost" => outcome'[r] = Kind(fate)

LEMMA DraftKinds ==
    ASSUME TypeOK, InWork, NEW r \in Requests, Begin(r) \/ Step(r)
    PROVE  \/ Aside(r) \/ Settles(r) \/ Resume(r) \/ Reserve(r) \/ SendCreate(r)
           \/ CreateNamesDraft(r) \/ PollResolves(r)
<1> USE DEF PlaceTypes
<1>1. pc[r] # "done" => pos[r] <= Len(Work[r])
  BY DEF InWork
<1>2. ASSUME Begin(r) PROVE Aside(r)
  BY <1>1, <1>2 DEF TypeOK, Aside, Begin, Goto, service, progress, history
<1>3. ASSUME Answered(r) PROVE Aside(r)
  BY <1>1, <1>3, AdvanceFacts DEF TypeOK, Aside, Answered, Look, service,
     progress, history
<1>4. ASSUME Join(r) PROVE Aside(r)
  BY <1>1, <1>4 DEF TypeOK, Aside, Join, Goto, Look, service, progress,
     history
<1>5. ASSUME Miss(r) PROVE Aside(r)
  BY <1>1, <1>5 DEF TypeOK, Aside, Miss, Goto, Look, service, progress,
     history
<1>6. ASSUME Unbuildable(r) PROVE Aside(r)
  BY <1>1, <1>6, AdvanceFacts DEF TypeOK, Aside, Unbuildable, service,
     progress, history
<1>7. ASSUME Limited(r) PROVE Aside(r)
  BY <1>1, <1>7, AdvanceFacts DEF TypeOK, Aside, Limited, Look, service,
     progress, history
<1>8. ASSUME CooldownRefuses(r) PROVE Aside(r)
  BY <1>1, <1>8 DEF TypeOK, Aside, CooldownRefuses, Return, Goto, service,
     progress, history
<1>9. ASSUME CreateEndsWithoutDraft(r) PROVE Settles(r)
  BY <1>9 DEF TypeOK, CallTypes, Kind, Settles, CreateEndsWithoutDraft,
     Return, Goto, service
<1>10. ASSUME Revoked(r) PROVE Aside(r) \/ Settles(r)
  BY <1>10 DEF TypeOK, Aside, Settles, Revoked, Return, Goto, service
<1>11. ASSUME PollPending(r) PROVE Aside(r)
  BY <1>1, <1>11 DEF TypeOK, Aside, PollPending, Return, Goto, service,
     progress, history
<1>12. ASSUME PollFails(r) PROVE Aside(r)
  BY <1>1, <1>12 DEF TypeOK, Aside, PollFails, Return, Goto, service,
     progress, history
<1>13. ASSUME Timeslots(r) PROVE Aside(r)
  BY <1>1, <1>13 DEF TypeOK, Aside, Timeslots, Return, Goto, service,
     progress, history
<1>14. ASSUME Publish(r) PROVE Aside(r)
  BY <1>1, <1>14, AdvanceFacts DEF TypeOK, Aside, Publish, Goto, service,
     progress, history
<1>15. ASSUME Wake(r) PROVE Aside(r)
  BY <1>1, <1>15, AdvanceFacts DEF TypeOK, Aside, Wake, Goto, service,
     progress, history
<1> QED
  BY <1>2, <1>3, <1>4, <1>5, <1>6, <1>7, <1>8, <1>9, <1>10, <1>11, <1>12,
     <1>13, <1>14, <1>15 DEF Step

-----------------------------------------------------------------------------
(* Creates and their drafts.                                               *)

\* What the other calls of a step keep, and that they concern other
\* candidates while the call of the step holds a flight.
LEMMA OthersElsewhere ==
    ASSUME SafeInv, NEW r \in Requests, Begin(r) \/ Step(r)
    PROVE  \A q \in Requests : q # r =>
              /\ pc'[q] = pc[q] /\ draft'[q] = draft[q] /\ Key(q)' = Key(q)
              /\ pc[q] \in Running => Key(q) \in Keys
              /\ pc[q] \in Running /\ pc[r] \in Running => Key(q) # Key(r)
              /\ pc[q] \in Running /\ Take(r) => Key(q) # Key(r)
<1>1. \A q \in Requests : pc[q] \in Running =>
        Key(q) \in Keys /\ Mine(q) # NoFlight /\ inflight[Key(q)] = Mine(q)
  BY CandidateFacts DEF SafeInv, InWork, Held, Running
<1>2. \A q \in Requests : q # r => Mine(q) # Mine(r)
  BY DEF Mine
<1>3. \A q \in Requests : q # r =>
        pc'[q] = pc[q] /\ draft'[q] = draft[q] /\ Key(q)' = Key(q)
  BY OthersStay DEF SafeInv
<1>4. Take(r) => inflight[Key(r)] = NoFlight
  BY DEF Take, Flying
<1> QED
  BY <1>1, <1>2, <1>3, <1>4

\* Drafts that are dropped are past their horizon.
LEMMA PrunedFacts ==
    ASSUME TypeOK, NEW k \in Keys
    PROVE  \/ Pruned[k] = resumable[k]
           \/ Pruned[k] = NoDraft /\ now - resumable[k].at >= ResumeTTL
BY DEF Pruned, Expired

\* What a create of the history is made of.
LEMMA CreateFacts ==
    ASSUME TypeOK
    PROVE  /\ DOMAIN posts = 1..Len(posts) /\ Len(posts) \in Nat /\ now \in Nat
           /\ \A i \in DOMAIN posts : posts[i] \in Creates
           /\ \A i \in DOMAIN posts :
                 posts[i].key \in Keys /\ posts[i].since \in Nat /\ posts[i].at \in Nat
<1>1. posts \in Seq(Creates) /\ now \in Nat
  BY LimitsAssumption DEF TypeOK, DraftTypes, SharedTypes
<1>2. DOMAIN posts = 1..Len(posts) /\ Len(posts) \in Nat
  BY <1>1, LenProperties
<1>3. \A i \in DOMAIN posts : posts[i] \in Creates
  BY <1>1, <1>2, ElementOfSeq
<1> QED
  BY <1>1, <1>2, <1>3, LimitsAssumption DEF Creates

\* No create is sent or answered, and no draft resolved; the call of the step
\* is fit to create or to poll if it is going to.
Still(r) ==
    /\ UNCHANGED <<now, posts>>
    /\ resumable' \in {resumable, Pruned}
    /\ pc[r] # "sent" /\ pc'[r] # "sent"
    /\ pc'[r] = "create" => resumable'[Key(r)'] = NoDraft
    /\ pc'[r] = "poll" =>
          IsLatest(posts, Key(r)', draft'[r].id) /\ posts[draft'[r].id].fate = "open"

LEMMA StillStep ==
    ASSUME SafeInv, NEW r \in Requests, Begin(r) \/ Step(r), Still(r)
    PROVE  DraftInv'
<1> USE DEF SafeInv, DraftInv
<1>1. \A q \in Requests : q # r =>
        pc'[q] = pc[q] /\ draft'[q] = draft[q] /\ Key(q)' = Key(q)
  BY OthersElsewhere
<1>2. posts' = posts /\ now' = now
  BY DEF Still
<1>3. \A k \in Keys : \/ resumable'[k] = resumable[k]
                      \/ resumable'[k] = NoDraft /\ now - resumable[k].at >= ResumeTTL
  BY PrunedFacts DEF Still
<1>4. OnTheLine'
  BY <1>1, <1>2 DEF OnTheLine, Still
<1>5. Dated' /\ Ordered' /\ NoSecondDraft'
  BY <1>2 DEF Dated, Ordered, NoSecondDraft, IsLatest
<1>6. Unremembered'
  <2>1. \A q \in Requests : pc[q] \in {"create", "sent"} => Key(q) \in Keys
    BY CandidateFacts DEF InWork
  <2>2. pc'[r] # "sent" /\ (pc'[r] = "create" => resumable'[Key(r)'] = NoDraft)
    BY DEF Still
  <2>3. ASSUME NEW q \in Requests, pc'[q] \in {"create", "sent"}
        PROVE  resumable'[Key(q)'] = NoDraft
    <3>1. CASE q = r
      BY <2>2, <2>3, <3>1
    <3>2. CASE q # r
      BY <1>1, <1>3, <2>1, <2>3, <3>2 DEF Unremembered
    <3> QED
      BY <3>1, <3>2
  <2> QED
    BY <2>3 DEF Unremembered
<1>7. Polled'
  BY <1>1, <1>2 DEF Polled, IsLatest, Still
<1>8. Known'
  BY <1>2, <1>3 DEF Known, IsLatest
<1>9. OpenDraftsResumable'
  <2>1. ASSUME NEW i \in DOMAIN posts, posts[i].fate = "open", now - posts[i].since < ResumeTTL
        PROVE  resumable'[posts[i].key] = [id |-> i, at |-> posts[i].since]
    <3>1. resumable[posts[i].key] = [id |-> i, at |-> posts[i].since]
      BY <2>1 DEF OpenDraftsResumable
    <3> QED
      BY <1>3, <2>1, <3>1, CreateFacts, LimitsAssumption
  <2> QED
    BY <1>2, <2>1 DEF OpenDraftsResumable
<1> QED
  BY <1>4, <1>5, <1>6, <1>7, <1>8, <1>9

\* A step that concerns no create; a call that resumes the known draft of its
\* candidate; a call that reserves a slot because there is none.
LEMMA AsideStep ==
    ASSUME SafeInv, NEW r \in Requests, Begin(r) \/ Step(r),
           Aside(r) \/ Resume(r) \/ Reserve(r)
    PROVE  DraftInv'
<1> USE DEF SafeInv, DraftInv
<1>1. CASE Aside(r)
  <2>1. pc'[r] \in {"create", "sent", "poll"} =>
          pc'[r] = pc[r] /\ Key(r)' = Key(r) /\ draft'[r] = draft[r]
    BY <1>1 DEF Aside, Key
  <2>2. pc[r] = "create" => Key(r) \in Keys /\ resumable[Key(r)] = NoDraft
    BY CandidateFacts DEF InWork, Unremembered
  <2>3. pc[r] = "create" => resumable'[Key(r)] = NoDraft
    BY <1>1, <2>2, PrunedFacts DEF Aside
  <2>4. Still(r)
    BY <1>1, <2>1, <2>3 DEF Aside, Still, Polled
  <2> QED
    BY <2>4, StillStep
<1>2. CASE Resume(r) \/ Reserve(r)
  <2>1. /\ UNCHANGED <<now, posts>> /\ pc[r] = "miss" /\ resumable' = Pruned
        /\ Key(r)' = Key(r) /\ Key(r) \in Keys
    BY <1>2, LookTypes DEF Resume, Reserve, Take, Look, Key, history
  <2>2. CASE Resume(r)
    <3>1. pc'[r] = "poll" /\ draft'[r] = Pruned[Key(r)] /\ Pruned[Key(r)] # NoDraft
      BY <2>2 DEF Resume, Goto, TypeOK, PlaceTypes, DraftTypes
    <3>2. IsLatest(posts, Key(r), draft'[r].id) /\ posts[draft'[r].id].fate = "open"
      BY <2>1, <3>1, PrunedFacts DEF Known
    <3> QED
      BY <2>1, <3>1, <3>2, StillStep DEF Still
  <2>3. CASE Reserve(r)
    <3>1. pc'[r] = "create" /\ Pruned[Key(r)] = NoDraft
      BY <2>3 DEF Reserve, Goto, TypeOK, PlaceTypes
    <3> QED
      BY <2>1, <3>1, StillStep DEF Still
  <2> QED
    BY <1>2, <2>2, <2>3
<1> QED
  BY <1>1, <1>2

\* Ozon receives a create of a candidate without a known draft.
LEMMA SendStep ==
    ASSUME SafeInv, NEW r \in Requests, SendCreate(r)
    PROVE  DraftInv'
<1> DEFINE n == Len(posts)
           k == Key(r)
<1> USE DEF SafeInv, DraftInv
<1>1. /\ pc[r] = "create" /\ pc'[r] = "sent" /\ Key(r)' = k
      /\ \A q \in Requests : pc[q] # "sent"
      /\ now' = now /\ resumable' = resumable
      /\ posts' = Append(posts, [key |-> k, at |-> now, fate |-> "sent", since |-> now])
  BY DEF SendCreate, Goto, LineFree, Key, service, TypeOK, PlaceTypes
<1>2. \A q \in Requests : q # r =>
        /\ pc'[q] = pc[q] /\ draft'[q] = draft[q] /\ Key(q)' = Key(q)
        /\ pc[q] \in Running => Key(q) # k
  BY <1>1, OthersElsewhere DEF Step, Running
<1>3. k \in Keys /\ resumable[k] = NoDraft
  BY <1>1, CandidateFacts DEF InWork, Unremembered
<1>4. /\ DOMAIN posts = 1..n /\ n \in Nat /\ now \in Nat
      /\ \A i \in 1..n : posts[i].since \in Nat /\ posts[i].at \in Nat
  BY CreateFacts
<1>5. /\ posts' \in Seq(Creates) /\ Len(posts') = n + 1
      /\ \A i \in 1..n : posts'[i] = posts[i]
      /\ posts'[n + 1] = [key |-> k, at |-> now, fate |-> "sent", since |-> now]
  BY <1>1, <1>3, SentFacts
<1> HIDE DEF n, k
<1>6. DOMAIN posts' = 1..(n + 1) /\ \A i \in 1..(n + 1) : i \in 1..n \/ i = n + 1
  BY <1>4, <1>5, LenProperties
<1>7. n + 1 \in 1..(n + 1) /\ \A i \in 1..n : i \in 1..(n + 1) /\ i < n + 1
  BY <1>4
<1>8. \A i \in 1..n : posts[i].fate # "sent"
  BY <1>1, <1>4 DEF OnTheLine
<1>9. \A i \in 1..n : posts[i].key = k /\ posts[i].fate = "open" =>
        now - posts[i].since >= ResumeTTL
  <2>1. ASSUME NEW i \in 1..n, posts[i].key = k, posts[i].fate = "open",
               now - posts[i].since < ResumeTTL
        PROVE  FALSE
    <3>1. resumable[k] = [id |-> i, at |-> posts[i].since]
      BY <1>4, <2>1 DEF OpenDraftsResumable
    <3> QED
      BY <1>3, <1>4, <3>1 DEF NoDraft
  <2> QED
    BY <1>4, <2>1, LimitsAssumption
<1>10. OnTheLine'
  <2>1. \A q \in Requests : pc'[q] = "sent" => q = r
    BY <1>1, <1>2
  <2>2. /\ Len(posts') > 0 /\ posts'[Len(posts')].key = Key(r)'
        /\ posts'[Len(posts')].fate = "sent"
    BY <1>1, <1>4, <1>5
  <2>3. \A i \in DOMAIN posts' : posts'[i].fate = "sent" => i = Len(posts')
    BY <1>5, <1>6, <1>8
  <2> QED
    BY <1>1, <2>1, <2>2, <2>3 DEF OnTheLine
<1>11. Dated'
  <2>1. \A i \in 1..(n + 1) : posts'[i].at <= now /\ posts'[i].since <= now
    BY SMTT(30), <1>4, <1>5, <1>6 DEF Dated
  <2> QED
    BY <1>1, <1>6, <2>1 DEF Dated
<1>12. Unremembered'
  BY <1>1, <1>2, <1>3 DEF Unremembered
<1>13. \A c \in Keys, i \in 1..n : c # k /\ IsLatest(posts, c, i) => IsLatest(posts', c, i)
  BY <1>4, <1>5, <1>6, <1>7 DEF IsLatest
<1>14. IsLatest(posts', k, n + 1)
  BY <1>4, <1>5, <1>6, <1>7 DEF IsLatest
<1>15. Ordered'
  <2>1. ASSUME NEW c \in Keys
        PROVE  \/ \A i \in DOMAIN posts' : posts'[i].key # c
               \/ \E i \in DOMAIN posts' : IsLatest(posts', c, i)
    <3>1. CASE c = k
      BY <1>6, <1>7, <1>14, <3>1
    <3>2. CASE c # k /\ \A i \in 1..n : posts[i].key # c
      BY <1>5, <1>6, <3>2
    <3>3. CASE c # k /\ \E i \in 1..n : IsLatest(posts, c, i)
      BY <1>6, <1>7, <1>13, <3>3
    <3> QED
      BY <1>4, <3>1, <3>2, <3>3 DEF Ordered
  <2> QED
    BY <2>1 DEF Ordered
<1>16. Polled'
  <2>1. ASSUME NEW q \in Requests, pc'[q] = "poll"
        PROVE  IsLatest(posts', Key(q)', draft'[q].id) /\ posts'[draft'[q].id].fate = "open"
    <3>1. /\ q # r /\ pc[q] = "poll" /\ Key(q) # k /\ Key(q) \in Keys
          /\ draft'[q] = draft[q] /\ Key(q)' = Key(q)
      BY <1>1, <1>2, <2>1, CandidateFacts DEF InWork, Running
    <3>2. IsLatest(posts, Key(q), draft[q].id) /\ posts[draft[q].id].fate = "open"
      BY <3>1 DEF Polled
    <3>3. draft[q].id \in 1..n
      BY <1>4, <3>2 DEF IsLatest
    <3>4. posts'[draft[q].id].fate = "open"
      BY <1>5, <3>2, <3>3
    <3> QED
      BY <1>13, <3>1, <3>2, <3>3, <3>4
  <2> QED
    BY <2>1 DEF Polled
<1>17. Known'
  <2>1. ASSUME NEW c \in Keys, resumable'[c] # NoDraft
        PROVE  IsLatest(posts', c, resumable'[c].id) /\ posts'[resumable'[c].id].fate = "open"
    <3>1. c # k /\ IsLatest(posts, c, resumable[c].id) /\ posts[resumable[c].id].fate = "open"
      BY <1>1, <1>3, <2>1 DEF Known
    <3>2. resumable[c].id \in 1..n
      BY <1>4, <3>1 DEF IsLatest
    <3>3. posts'[resumable[c].id].fate = "open"
      BY <1>5, <3>1, <3>2
    <3> QED
      BY <1>1, <1>13, <3>1, <3>2, <3>3
  <2> QED
    BY <2>1 DEF Known
<1>18. NoSecondDraft'
  <2>1. ASSUME NEW i \in 1..(n + 1), NEW j \in 1..(n + 1), i < j,
               posts'[i].key = posts'[j].key
        PROVE  /\ posts'[i].fate # "sent"
               /\ posts'[i].fate = "open" => posts'[j].at - posts'[i].since >= ResumeTTL
    <3>1. i \in 1..n /\ posts'[i] = posts[i] /\ posts[i].fate # "sent"
      BY <1>4, <1>5, <1>8, <2>1
    <3>2. CASE j \in 1..n
      BY <1>4, <1>5, <2>1, <3>1, <3>2 DEF NoSecondDraft
    <3>3. CASE j = n + 1
      <4>1. posts[i].key = k /\ posts'[j].at = now
        BY <1>5, <2>1, <3>1, <3>3
      <4> QED
        BY <1>9, <3>1, <4>1
    <3> QED
      BY <1>6, <3>2, <3>3
  <2> QED
    BY <1>6, <2>1 DEF NoSecondDraft
<1>19. OpenDraftsResumable'
  <2>1. ASSUME NEW i \in 1..(n + 1), posts'[i].fate = "open", now - posts'[i].since < ResumeTTL
        PROVE  resumable[posts'[i].key] = [id |-> i, at |-> posts'[i].since]
    <3>1. i \in 1..n /\ posts'[i] = posts[i]
      BY <1>5, <1>6, <2>1
    <3> QED
      BY <1>4, <2>1, <3>1 DEF OpenDraftsResumable
  <2> QED
    BY <1>1, <1>6, <2>1 DEF OpenDraftsResumable
<1> QED
  BY <1>10, <1>11, <1>12, <1>15, <1>16, <1>17, <1>18, <1>19

\* Rewriting the fate of a create changes neither the order of the creates nor
\* what was sent when.
LEMMA OrderKept ==
    ASSUME TypeOK, DOMAIN posts' = DOMAIN posts,
           \A i \in DOMAIN posts : posts'[i].key = posts[i].key /\ posts'[i].at = posts[i].at
    PROVE  /\ \A k \in Keys : \A i : IsLatest(posts', k, i) <=> IsLatest(posts, k, i)
           /\ Ordered => Ordered'
<1>1. \A k \in Keys : \A i : IsLatest(posts', k, i) <=> IsLatest(posts, k, i)
  BY DEF IsLatest
<1> QED
  BY <1>1 DEF Ordered

\* Ozon answers the create on the line; nothing changes for other candidates.
LEMMA AnswerStep ==
    ASSUME SafeInv, NEW r \in Requests, Step(r), pc[r] = "sent", pc'[r] # "sent",
           NEW fate \in Fates \ {"sent"}, posts' = Settled(fate), now' = now, pos' = pos,
           \A k \in Keys : k # Key(r) => resumable'[k] = resumable[k]
    PROVE  LET n == Len(posts)
           IN  /\ Key(r) \in Keys /\ Key(r)' = Key(r)
               /\ IsLatest(posts', Key(r), n)
               /\ posts'[n].fate = fate /\ posts'[n].since = now /\ posts'[n].key = Key(r)
               /\ DOMAIN posts' = 1..n /\ DOMAIN posts = 1..n /\ n \in 1..n
               /\ \A i \in 1..n : i # n => posts'[i] = posts[i]
               /\ OnTheLine' /\ Dated' /\ Ordered' /\ NoSecondDraft'
               /\ \A q \in Requests : q # r =>
                     /\ pc'[q] \in {"create", "sent"} => resumable'[Key(q)'] = NoDraft
                     /\ pc'[q] = "poll" =>
                           /\ IsLatest(posts', Key(q)', draft'[q].id)
                           /\ posts'[draft'[q].id].fate = "open"
               /\ \A c \in Keys : c # Key(r) /\ resumable'[c] # NoDraft =>
                     IsLatest(posts', c, resumable'[c].id) /\ posts'[resumable'[c].id].fate = "open"
               /\ \A i \in 1..n :
                     i # n /\ posts'[i].fate = "open" /\ now - posts'[i].since < ResumeTTL =>
                        /\ posts'[i].key # Key(r)
                        /\ resumable'[posts'[i].key] = [id |-> i, at |-> posts'[i].since]
<1> DEFINE n == Len(posts)
           k == Key(r)
<1> USE DEF SafeInv, DraftInv
<1>1. /\ n > 0 /\ posts[n].key = k /\ posts[n].fate = "sent"
      /\ \A q \in Requests : pc[q] = "sent" => q = r
  BY DEF OnTheLine
<1>2. \A q \in Requests : q # r =>
        /\ pc'[q] = pc[q] /\ draft'[q] = draft[q] /\ Key(q)' = Key(q)
        /\ pc[q] \in Running => Key(q) # k /\ Key(q) \in Keys
  BY OthersElsewhere DEF Running
<1>3. k \in Keys /\ resumable[k] = NoDraft /\ Key(r)' = k
  BY CandidateFacts DEF InWork, Unremembered, Key
<1>4. /\ DOMAIN posts = 1..n /\ n \in Nat /\ now \in Nat
      /\ \A i \in 1..n : posts[i] \in Creates /\ posts[i].since \in Nat
  BY CreateFacts
<1>5. /\ posts' \in Seq(Creates) /\ Len(posts') = n
      /\ \A i \in 1..n : posts'[i] = IF i = n
                                     THEN [posts[i] EXCEPT !.fate = fate, !.since = now]
                                     ELSE posts[i]
  BY ZenonT(30), <1>1, SettledFacts
<1> HIDE DEF n, k
<1>6. DOMAIN posts' = 1..n /\ n \in 1..n
  <2>1. DOMAIN posts' = 1..n
    BY ZenonT(30), <1>5, LenProperties
  <2> QED
    BY <1>1, <1>4, <2>1
<1>7. /\ posts'[n].fate = fate /\ posts'[n].since = now
      /\ posts'[n].key = k /\ posts'[n].at = posts[n].at
  BY ZenonT(30), <1>1, <1>4, <1>5, <1>6 DEF Creates
<1>8. \A i \in 1..n : i # n => posts'[i] = posts[i]
  BY ZenonT(30), <1>5
<1>9. \A i \in 1..n : posts'[i].key = posts[i].key /\ posts'[i].at = posts[i].at
  BY <1>1, <1>7, <1>8
<1>10. /\ \A c \in Keys : \A i : IsLatest(posts', c, i) <=> IsLatest(posts, c, i)
       /\ Ordered'
  BY <1>4, <1>6, <1>9, OrderKept
<1>11. IsLatest(posts', k, n)
  BY <1>4, <1>6, <1>7 DEF IsLatest
<1>12. OnTheLine'
  <2>1. \A q \in Requests : pc'[q] # "sent"
    BY <1>1, <1>2
  <2>2. \A i \in 1..n : posts'[i].fate # "sent"
    <3>1. \A i \in 1..n : posts[i].fate = "sent" => i = n
      BY ZenonT(30), <1>4 DEF OnTheLine, n
    <3> QED
      BY <1>7, <1>8, <3>1
  <2> QED
    BY <1>6, <2>1, <2>2 DEF OnTheLine
<1>13. Dated'
  <2>1. \A i \in 1..n : posts'[i].at <= now /\ posts'[i].since <= now
    BY <1>4, <1>6, <1>7, <1>8 DEF Dated
  <2> QED
    BY <1>6, <2>1 DEF Dated
<1>14. NoSecondDraft'
  <2>1. ASSUME NEW i \in 1..n, NEW j \in 1..n, i < j, posts'[i].key = posts'[j].key
        PROVE  /\ posts'[i].fate # "sent"
               /\ posts'[i].fate = "open" => posts'[j].at - posts'[i].since >= ResumeTTL
    <3>1. i # n /\ posts'[i] = posts[i]
      BY <1>4, <1>8, <2>1
    <3> QED
      BY <1>4, <1>9, <2>1, <3>1 DEF NoSecondDraft
  <2> QED
    BY <1>6, <2>1 DEF NoSecondDraft
<1>15. ASSUME NEW q \in Requests, q # r, pc'[q] \in {"create", "sent"}
       PROVE  resumable'[Key(q)'] = NoDraft
  BY <1>2, <1>15 DEF Unremembered, Running, k
<1>16. ASSUME NEW c \in Keys, NEW i, IsLatest(posts, c, i), posts[i].fate = "open"
       PROVE  IsLatest(posts', c, i) /\ posts'[i].fate = "open"
  BY <1>1, <1>4, <1>8, <1>10, <1>16 DEF IsLatest
<1>17. ASSUME NEW q \in Requests, q # r, pc'[q] = "poll"
       PROVE  /\ IsLatest(posts', Key(q)', draft'[q].id)
              /\ posts'[draft'[q].id].fate = "open"
  <2>1. /\ pc[q] = "poll" /\ Key(q)' = Key(q) /\ draft'[q] = draft[q] /\ Key(q) \in Keys
    BY <1>2, <1>17 DEF Running
  <2> QED
    BY <1>16, <2>1 DEF Polled
<1>18. ASSUME NEW c \in Keys, c # k, resumable'[c] # NoDraft
       PROVE  IsLatest(posts', c, resumable'[c].id) /\ posts'[resumable'[c].id].fate = "open"
  <2>1. resumable'[c] = resumable[c]
    BY <1>18 DEF k
  <2> QED
    BY <1>16, <1>18, <2>1 DEF Known
<1>19. ASSUME NEW i \in 1..n, i # n, posts'[i].fate = "open", now - posts'[i].since < ResumeTTL
       PROVE  /\ posts'[i].key # k
              /\ resumable'[posts'[i].key] = [id |-> i, at |-> posts'[i].since]
  <2>1. posts'[i] = posts[i] /\ posts[i].key \in Keys
    BY <1>4, <1>8, <1>19 DEF Creates
  <2>2. resumable[posts[i].key] = [id |-> i, at |-> posts[i].since]
    BY <1>4, <1>19, <2>1 DEF OpenDraftsResumable
  <2>3. posts[i].key # k
    BY <1>3, <1>4, <2>2 DEF NoDraft
  <2> QED
    BY <2>1, <2>2, <2>3 DEF k
<1> QED
  BY ZenonT(30), <1>3, <1>4, <1>6, <1>7, <1>8, <1>10, <1>11, <1>12, <1>13, <1>14, <1>15, <1>17, <1>18,
     <1>19 DEF n, k

\* Ozon names a draft: the call remembers it before anything else.
LEMMA NameStep ==
    ASSUME SafeInv, NEW r \in Requests, CreateNamesDraft(r)
    PROVE  DraftInv'
<1> DEFINE n == Len(posts)
           d == [id |-> Len(posts), at |-> now]
<1> USE DEF DraftInv
<1>1. /\ pc[r] = "sent" /\ pc'[r] \in {"poll", "publish"}
      /\ posts' = Settled("open") /\ now' = now /\ pos' = pos
      /\ resumable' = [resumable EXCEPT ![Key(r)] = d] /\ draft'[r] = d
      /\ resumable \in [Keys -> [id : 0..Len(posts), at : 0..MaxTime]]
  BY DEF SafeInv, TypeOK, PlaceTypes, DraftTypes, CreateNamesDraft, Remembered, Return, Goto
<1>2. /\ Key(r) \in Keys /\ Key(r)' = Key(r)
      /\ IsLatest(posts', Key(r), n)
      /\ posts'[n].fate = "open" /\ posts'[n].since = now /\ posts'[n].key = Key(r)
      /\ DOMAIN posts' = 1..n /\ DOMAIN posts = 1..n /\ n \in 1..n
      /\ OnTheLine' /\ Dated' /\ Ordered' /\ NoSecondDraft'
      /\ \A q \in Requests : q # r =>
            /\ pc'[q] \in {"create", "sent"} => resumable'[Key(q)'] = NoDraft
            /\ pc'[q] = "poll" =>
                  /\ IsLatest(posts', Key(q)', draft'[q].id)
                  /\ posts'[draft'[q].id].fate = "open"
      /\ \A c \in Keys : c # Key(r) /\ resumable'[c] # NoDraft =>
            IsLatest(posts', c, resumable'[c].id) /\ posts'[resumable'[c].id].fate = "open"
      /\ \A i \in 1..n :
            i # n /\ posts'[i].fate = "open" /\ now - posts'[i].since < ResumeTTL =>
               resumable'[posts'[i].key] = [id |-> i, at |-> posts'[i].since]
  BY <1>1, AnswerStep DEF Step, Fates
<1>3. resumable'[Key(r)] = d /\ d.id = n /\ d.at = now
  BY <1>1, <1>2
<1>4. Unremembered' /\ Polled'
  BY <1>1, <1>2, <1>3 DEF Unremembered, Polled
<1>5. Known'
  BY <1>2, <1>3 DEF Known
<1>6. OpenDraftsResumable'
  BY <1>1, <1>2, <1>3 DEF OpenDraftsResumable
<1> QED
  BY <1>2, <1>4, <1>5, <1>6

\* A create left no draft, or nobody will know.
LEMMA SettleStep ==
    ASSUME SafeInv, NEW r \in Requests, Begin(r) \/ Step(r), Settles(r)
    PROVE  DraftInv'
<1> DEFINE n == Len(posts)
<1> USE DEF DraftInv
<1>1. PICK fate \in {"closed", "unknown", "lost"} :
        /\ pc[r] = "sent" /\ posts' = Settled(fate)
        /\ pc'[r] = "publish" /\ UNCHANGED <<now, pos, resumable>>
  BY DEF Settles
<1>2. Step(r)
  BY <1>1 DEF Begin
<1>3. /\ Key(r) \in Keys
      /\ posts'[n].fate = fate
      /\ DOMAIN posts' = 1..n /\ n \in 1..n
      /\ OnTheLine' /\ Dated' /\ Ordered' /\ NoSecondDraft'
      /\ \A q \in Requests : q # r =>
            /\ pc'[q] \in {"create", "sent"} => resumable'[Key(q)'] = NoDraft
            /\ pc'[q] = "poll" =>
                  /\ IsLatest(posts', Key(q)', draft'[q].id)
                  /\ posts'[draft'[q].id].fate = "open"
      /\ \A c \in Keys : c # Key(r) /\ resumable'[c] # NoDraft =>
            IsLatest(posts', c, resumable'[c].id) /\ posts'[resumable'[c].id].fate = "open"
      /\ \A i \in 1..n :
            i # n /\ posts'[i].fate = "open" /\ now - posts'[i].since < ResumeTTL =>
               resumable'[posts'[i].key] = [id |-> i, at |-> posts'[i].since]
  BY <1>1, <1>2, AnswerStep DEF Fates
<1>4. resumable'[Key(r)] = NoDraft
  BY <1>1 DEF SafeInv, Unremembered
<1>5. Unremembered' /\ Polled'
  BY <1>1, <1>3 DEF Unremembered, Polled
<1>6. Known'
  BY <1>3, <1>4 DEF Known
<1>7. OpenDraftsResumable'
  BY <1>1, <1>3 DEF OpenDraftsResumable
<1> QED
  BY <1>3, <1>5, <1>6, <1>7

\* Ozon has resolved the draft that the call polls.
LEMMA ResolveStep ==
    ASSUME SafeInv, NEW r \in Requests, PollResolves(r)
    PROVE  DraftInv'
<1> DEFINE n == Len(posts)
           k == Key(r)
           m == draft[r].id
<1> USE DEF SafeInv, DraftInv
<1>1. /\ pc[r] = "poll" /\ pc'[r] \in {"slots", "publish"} /\ now' = now /\ Key(r)' = k
      /\ posts' = [posts EXCEPT ![m].fate = "resolved"]
      /\ resumable' = IF resumable[k].id = m THEN [resumable EXCEPT ![k] = NoDraft] ELSE resumable
      /\ resumable \in [Keys -> [id : 0..Len(posts), at : 0..MaxTime]]
  BY DEF PollResolves, TypeOK, PlaceTypes, DraftTypes, Return, Goto, Key
<1>2. \A q \in Requests : q # r =>
        /\ pc'[q] = pc[q] /\ draft'[q] = draft[q] /\ Key(q)' = Key(q)
        /\ pc[q] \in Running => Key(q) # k /\ Key(q) \in Keys
  BY <1>1, OthersElsewhere DEF Step, Running
<1>3. k \in Keys
  BY <1>1, CandidateFacts DEF InWork
<1>4. /\ DOMAIN posts = 1..n /\ n \in Nat /\ now \in Nat
      /\ \A i \in 1..n : posts[i] \in Creates /\ posts[i].since \in Nat
  BY CreateFacts
<1>5. m \in 1..n /\ IsLatest(posts, k, m) /\ posts[m].fate = "open" /\ posts[m].key = k
  BY <1>1, <1>4 DEF Polled, IsLatest
<1>6. /\ posts' \in Seq(Creates) /\ Len(posts') = n
      /\ posts'[m].fate = "resolved"
      /\ posts'[m].key = posts[m].key /\ posts'[m].at = posts[m].at
      /\ posts'[m].since = posts[m].since
      /\ \A i \in 1..n : i # m => posts'[i] = posts[i]
  BY <1>1, <1>5, ResolvedFacts
<1> HIDE DEF n, k, m
<1>7. DOMAIN posts' = 1..n
  BY <1>6, LenProperties
<1>8. /\ posts'[m].fate = "resolved" /\ \A i \in 1..n : i # m => posts'[i] = posts[i]
      /\ \A i \in 1..n : /\ posts'[i].key = posts[i].key /\ posts'[i].at = posts[i].at
                         /\ posts'[i].since = posts[i].since
  BY <1>6
<1>9. /\ \A c \in Keys : \A i : IsLatest(posts', c, i) <=> IsLatest(posts, c, i)
      /\ Ordered'
  BY <1>4, <1>7, <1>8, OrderKept
<1>10. OnTheLine'
  <2>1. \A i \in 1..n : posts'[i].fate = "sent" => posts[i].fate = "sent"
    BY <1>8
  <2>2. ASSUME NEW q \in Requests, pc[q] = "sent"
        PROVE  posts'[n].key = Key(q) /\ posts'[n].fate = "sent" /\ n > 0
    <3>1. n > 0 /\ posts[n].key = Key(q) /\ posts[n].fate = "sent"
      BY <2>2 DEF OnTheLine, n
    <3>2. n \in 1..n /\ n # m
      BY <1>4, <1>5, <3>1
    <3> QED
      BY <1>8, <3>1, <3>2
  <2>3. \A q \in Requests : pc'[q] = "sent" <=> pc[q] = "sent"
    BY <1>1, <1>2
  <2>4. \A i \in 1..n : posts[i].fate = "sent" => i = n /\ \E q \in Requests : pc[q] = "sent"
    BY ZenonT(30), <1>4 DEF OnTheLine, n
  <2>5. \A q, p \in Requests : pc[q] = "sent" /\ pc[p] = "sent" => p = q
    BY DEF OnTheLine
  <2>6. \A q \in Requests : pc'[q] = "sent" => Key(q)' = Key(q)
    BY <1>1, <1>2
  <2> QED
    BY <1>6, <1>7, <2>1, <2>2, <2>3, <2>4, <2>5, <2>6 DEF OnTheLine
<1>11. Dated' /\ NoSecondDraft'
  <2>1. Dated'
    BY <1>1, <1>4, <1>7, <1>8 DEF Dated
  <2>2. \A i \in 1..n : posts'[i].fate \in {posts[i].fate, "resolved"}
    BY <1>8
  <2>3. NoSecondDraft'
    BY <1>4, <1>7, <1>8, <2>2 DEF NoSecondDraft
  <2> QED
    BY <2>1, <2>3
<1>12. \A c \in Keys : resumable'[c] \in {resumable[c], NoDraft}
  BY <1>1, <1>3
<1>13. Unremembered'
  BY <1>1, <1>2, <1>12 DEF Unremembered, Running
<1>14. ASSUME NEW c \in Keys, NEW i, IsLatest(posts, c, i), posts[i].fate = "open", c # k
       PROVE  IsLatest(posts', c, i) /\ posts'[i].fate = "open"
  BY <1>4, <1>5, <1>8, <1>9, <1>14 DEF IsLatest
<1>15. Polled'
  <2>1. ASSUME NEW q \in Requests, pc'[q] = "poll"
        PROVE  /\ IsLatest(posts', Key(q)', draft'[q].id)
               /\ posts'[draft'[q].id].fate = "open"
    <3>1. /\ pc[q] = "poll" /\ Key(q)' = Key(q) /\ draft'[q] = draft[q]
          /\ Key(q) \in Keys /\ Key(q) # k
      BY <1>1, <1>2, <2>1 DEF Running
    <3> QED
      BY <1>14, <3>1 DEF Polled
  <2> QED
    BY <2>1 DEF Polled
<1>16. Known'
  <2>1. ASSUME NEW c \in Keys, resumable'[c] # NoDraft
        PROVE  IsLatest(posts', c, resumable'[c].id) /\ posts'[resumable'[c].id].fate = "open"
    <3>1. /\ resumable'[c] = resumable[c] /\ IsLatest(posts, c, resumable[c].id)
          /\ posts[resumable[c].id].fate = "open"
      BY <1>12, <2>1 DEF Known
    <3>2. CASE c # k
      BY <1>14, <3>1, <3>2
    <3>3. CASE c = k
      <4>1. resumable[k].id = m
        BY SMTT(30), <1>4, <1>5, <3>1, <3>3 DEF IsLatest
      <4>2. resumable'[k] = NoDraft
        BY <1>1, <1>3, <4>1
      <4> QED
        BY <2>1, <3>3, <4>2
    <3> QED
      BY <3>2, <3>3
  <2> QED
    BY <2>1 DEF Known
<1>17. OpenDraftsResumable'
  <2>1. ASSUME NEW i \in 1..n, posts'[i].fate = "open", now - posts'[i].since < ResumeTTL
        PROVE  resumable'[posts'[i].key] = [id |-> i, at |-> posts'[i].since]
    <3>1. i # m /\ posts'[i] = posts[i] /\ posts[i].key \in Keys
      BY <1>4, <1>8, <2>1 DEF Creates
    <3>2. resumable[posts[i].key] = [id |-> i, at |-> posts[i].since]
      BY <1>4, <2>1, <3>1 DEF OpenDraftsResumable
    <3>3. resumable[posts[i].key].id # m
      BY <3>1, <3>2
    <3>4. resumable'[posts[i].key] = resumable[posts[i].key]
      BY <1>1, <1>3, <3>1, <3>3
    <3> QED
      BY <3>1, <3>2, <3>4
  <2> QED
    BY <1>1, <1>7, <2>1 DEF OpenDraftsResumable
<1> QED
  BY <1>9, <1>10, <1>11, <1>13, <1>15, <1>16, <1>17

\* Every step keeps what is known about creates and their drafts.
LEMMA DraftStep ==
    ASSUME SafeInv, [Next]_vars
    PROVE  DraftInv'
<1> USE DEF SafeInv, DraftInv
<1>1. ASSUME UNCHANGED <<posts, resumable, pc, pos, draft>>, now' \in {now, now + 1}
      PROVE  DraftInv'
  <2>1. /\ \A q \in Requests : Key(q)' = Key(q)
        /\ \A k \in Keys : \A i : IsLatest(posts', k, i) <=> IsLatest(posts, k, i)
    BY <1>1 DEF Key
  <2>2. now \in Nat /\ \A i \in DOMAIN posts : posts[i].at \in Nat /\ posts[i].since \in Nat
    BY CreateFacts
  <2>3. OnTheLine' /\ Unremembered' /\ NoSecondDraft'
    BY <1>1, <2>1 DEF OnTheLine, Unremembered, NoSecondDraft
  <2>4. Dated'
    BY <1>1, <2>2 DEF Dated
  <2>5. Ordered' /\ Polled' /\ Known'
    BY <1>1 DEF Ordered, Polled, Known, Key, IsLatest
  <2>6. OpenDraftsResumable'
    <3>1. \A i \in DOMAIN posts :
              now' - posts[i].since < ResumeTTL => now - posts[i].since < ResumeTTL
      BY <1>1, <2>2, LimitsAssumption
    <3> QED
      BY <1>1, <3>1 DEF OpenDraftsResumable
  <2> QED
    BY <2>3, <2>4, <2>5, <2>6
<1>2. ASSUME NEW r \in Requests, Begin(r) \/ Step(r)
      PROVE  DraftInv'
  <2>1. \/ Aside(r) \/ Settles(r) \/ Resume(r) \/ Reserve(r) \/ SendCreate(r)
        \/ CreateNamesDraft(r) \/ PollResolves(r)
    BY <1>2, DraftKinds
  <2>2. CASE Aside(r) \/ Resume(r) \/ Reserve(r)
    BY <1>2, <2>2, AsideStep
  <2>3. CASE Settles(r)
    BY <1>2, <2>3, SettleStep
  <2>4. CASE SendCreate(r) \/ CreateNamesDraft(r) \/ PollResolves(r)
    BY <2>4, SendStep, NameStep, ResolveStep
  <2> QED
    BY <2>1, <2>2, <2>3, <2>4
<1>3. CASE Tick \/ Transition \/ UNCHANGED vars
  BY <1>1, <1>3 DEF Tick, Transition, vars, service, progress, history
<1> QED
  BY <1>2, <1>3 DEF Next

-----------------------------------------------------------------------------
(* The create budget.                                                      *)

\* A slot that is reserved while a quota is not used up fits into it: among
\* all the slots ever reserved, those in its window are remembered.
LEMMA SlotFits ==
    ASSUME TypeOK, Suffix, NEW q \in Quotas, UnderQuota(q),
           NEW S, S = {j \in 1..Len(reserved) : now - reserved[j] < q.window}
    PROVE  IsFiniteSet(S) /\ Cardinality(S) < q.cap
<1> DEFINE m == Len(reserved)
           a == Len(attempts)
           l == Len(Recent)
<1>1. m \in Nat /\ a \in Nat /\ now \in Nat /\ a <= m
  BY LenProperties, LimitsAssumption DEF TypeOK, SharedTypes, Suffix
<1>2. /\ Recent \in Seq(0..MaxTime) /\ l <= a
      /\ \A i \in 1..l : Recent[i] = attempts[(a - l) + i]
      /\ \A i \in 1..(a - l) : now - attempts[i] >= Day
  BY RecentFacts
<1>3. l \in Nat /\ DOMAIN Recent = 1..l
  BY <1>2, LenProperties
<1>4. \A i \in 1..a : attempts[i] = reserved[(m - a) + i]
  <2>1. DOMAIN attempts = 1..a
    BY LenProperties DEF TypeOK, SharedTypes
  <2> QED
    BY <2>1 DEF Suffix
<1>5. \A i \in 1..(m - a) : now - reserved[i] >= Day
  BY DEF Suffix
<1>6. q.window \in Nat /\ q.cap \in Nat /\ q.window <= Day /\ Day \in Nat
  BY LimitsAssumption
<1>7. \A j \in 1..m : reserved[j] \in Nat
  <2>1. reserved \in Seq(0..MaxTime)
    BY DEF TypeOK, SharedTypes
  <2> QED
    BY <2>1, ElementOfSeq, LimitsAssumption
<1>8. Within(q) \in SUBSET (1..l) /\ IsFiniteSet(1..l)
  BY <1>3, FS_Interval DEF Within
<1>9. IsFiniteSet(Within(q)) /\ Cardinality(Within(q)) \in Nat
  BY <1>8, FS_Subset, FS_CardinalityType
<1>10. Cardinality(Within(q)) < q.cap
  BY DEF UnderQuota
<1> HIDE DEF m, a, l
<1>11. ASSUME NEW j \in S
       PROVE  j \in 1..m /\ j - (m - l) \in Within(q)
  <2>1. j \in 1..m /\ now - reserved[j] < q.window
    BY <1>11 DEF m
  <2>2. ~(j \in 1..(m - a))
    BY <1>1, <1>5, <1>6, <1>7, <2>1
  <2>3. j - (m - a) \in 1..a /\ attempts[j - (m - a)] = reserved[j]
    BY <1>1, <1>4, <2>1, <2>2
  <2>4. ~(j - (m - a) \in 1..(a - l))
    BY SMTT(30), <1>1, <1>2, <1>6, <1>7, <2>1, <2>3
  <2>5. j - (m - l) \in 1..l
    BY <1>1, <1>2, <1>3, <2>3, <2>4
  <2>6. Recent[j - (m - l)] = reserved[j]
    <3>1. Recent[j - (m - l)] = attempts[(a - l) + (j - (m - l))]
      BY <1>2, <2>5
    <3>2. (a - l) + (j - (m - l)) = j - (m - a)
      BY <1>1, <1>3, <2>1
    <3> QED
      BY <2>3, <3>1, <3>2
  <2> QED
    BY <1>3, <2>1, <2>5, <2>6 DEF Within
<1> DEFINE f == [j \in S |-> j - (m - l)]
<1>12. f \in Injection(S, Within(q))
  <2>1. \A j \in S : j \in Nat
    BY <1>1, <1>11
  <2>2. f \in [S -> Within(q)]
    BY <1>11
  <2>3. \A i, j \in S : f[i] = f[j] => i = j
    BY <1>1, <1>3, <2>1
  <2> HIDE DEF f
  <2> QED
    BY <2>2, <2>3 DEF Injection, IsInjective
<1>13. IsFiniteSet(S) /\ Cardinality(S) <= Cardinality(Within(q))
  BY <1>9, <1>12, FS_Injection
<1> QED
  BY <1>6, <1>9, <1>10, <1>13, FS_CardinalityType

\* Whatever the service forgets has left the longest window.
LEMMA PoppedSuffix ==
    ASSUME TypeOK, Suffix
    PROVE  LET n == Len(reserved) - Len(Recent)
           IN  /\ Len(Recent) <= Len(reserved)
               /\ \A i \in DOMAIN Recent : Recent[i] = reserved[n + i]
               /\ \A i \in 1..n : now - reserved[i] >= Day
<1> DEFINE m == Len(reserved)
           a == Len(attempts)
           l == Len(Recent)
<1>1. m \in Nat /\ a \in Nat /\ a <= m
  BY LenProperties DEF TypeOK, SharedTypes, Suffix
<1>2. /\ Recent \in Seq(0..MaxTime) /\ l <= a
      /\ \A i \in 1..l : Recent[i] = attempts[(a - l) + i]
      /\ \A i \in 1..(a - l) : now - attempts[i] >= Day
  BY RecentFacts
<1>3. l \in Nat /\ DOMAIN Recent = 1..l
  BY <1>2, LenProperties
<1>4. \A i \in 1..a : attempts[i] = reserved[(m - a) + i]
  <2>1. DOMAIN attempts = 1..a
    BY LenProperties DEF TypeOK, SharedTypes
  <2> QED
    BY <2>1 DEF Suffix
<1>5. \A i \in 1..(m - a) : now - reserved[i] >= Day
  BY DEF Suffix
<1> HIDE DEF m, a, l
<1>6. ASSUME NEW i \in 1..l
      PROVE  Recent[i] = reserved[(m - l) + i]
  <2>1. (a - l) + i \in 1..a /\ (m - a) + ((a - l) + i) = (m - l) + i
    BY <1>1, <1>2, <1>3
  <2> QED
    BY <1>2, <1>4, <2>1
<1>7. ASSUME NEW i \in 1..(m - l)
      PROVE  now - reserved[i] >= Day
  <2>1. CASE i <= m - a
    BY <1>1, <1>5, <1>7, <2>1
  <2>2. CASE i > m - a
    <3>1. i - (m - a) \in 1..(a - l) /\ i - (m - a) \in 1..a /\ (m - a) + (i - (m - a)) = i
      BY <1>1, <1>2, <1>3, <1>7, <2>2
    <3> QED
      BY <1>2, <1>4, <3>1
  <2> QED
    BY <1>1, <1>3, <1>7, <2>1, <2>2
<1>8. l <= m
  BY <1>1, <1>2, <1>3
<1> QED
  BY <1>3, <1>6, <1>7, <1>8 DEF m, l

\* A step of a call may forget old slots or reserve one, and nothing else.
LEMMA SlotKinds ==
    ASSUME NEW r \in Requests, Begin(r) \/ Step(r)
    PROVE  /\ now' = now
           /\ \/ UNCHANGED <<attempts, reserved>>
              \/ attempts' = Recent /\ reserved' = reserved
              \/ /\ SlotFree
                 /\ attempts' = Append(Recent, now) /\ reserved' = Append(reserved, now)
<1> DEFINE Kinds ==
        /\ now' = now
        /\ \/ UNCHANGED <<attempts, reserved>>
           \/ attempts' = Recent /\ reserved' = reserved
           \/ /\ SlotFree
              /\ attempts' = Append(Recent, now) /\ reserved' = Append(reserved, now)
<1> USE DEF service, history
<1>1. ASSUME Begin(r) \/ Unbuildable(r) \/ Answered(r) \/ Join(r) \/ Miss(r) \/ Resume(r)
      PROVE  Kinds
  BY <1>1 DEF Begin, Unbuildable, Answered, Join, Miss, Resume
<1>2. ASSUME Reserve(r) \/ Limited(r)
      PROVE  Kinds
  BY <1>2 DEF Reserve, Limited
<1>3. ASSUME \/ SendCreate(r) \/ CooldownRefuses(r) \/ CreateNamesDraft(r)
             \/ CreateEndsWithoutDraft(r) \/ Revoked(r)
      PROVE  Kinds
  BY <1>3 DEF SendCreate, CooldownRefuses, CreateNamesDraft, CreateEndsWithoutDraft, Revoked
<1>4. ASSUME \/ PollPending(r) \/ PollFails(r) \/ PollResolves(r) \/ Timeslots(r)
             \/ Publish(r) \/ Wake(r)
      PROVE  Kinds
  BY <1>4 DEF PollPending, PollFails, PollResolves, Timeslots, Publish, Wake
<1> QED
  BY <1>1, <1>2, <1>3, <1>4 DEF Step

\* Every step keeps the create budget.
LEMMA BudgetStep ==
    ASSUME TypeOK, Suffix, BudgetKept, [Next]_vars
    PROVE  Suffix' /\ BudgetKept'
<1> DEFINE m == Len(reserved)
<1>1. /\ reserved \in Seq(0..MaxTime) /\ attempts \in Seq(0..MaxTime)
      /\ m \in Nat /\ Len(attempts) \in Nat /\ Len(attempts) <= m /\ now \in 0..MaxTime
      /\ now \in Nat
  BY LenProperties, LimitsAssumption DEF TypeOK, SharedTypes, Suffix
<1>2. \A i \in 1..m : reserved[i] \in Nat
  BY <1>1, ElementOfSeq, LimitsAssumption
<1>3. DOMAIN reserved = 1..m /\ DOMAIN attempts = 1..Len(attempts)
  BY <1>1, LenProperties
<1>4. CASE UNCHANGED <<attempts, reserved>> /\ now' \in {now, now + 1}
  <2> DEFINE n == m - Len(attempts)
  <2>1. n \in Nat /\ n <= m
    BY <1>1
  <2>2. \A i \in 1..n : now - reserved[i] >= Day /\ reserved[i] \in Nat
    BY <1>1, <1>2, <2>1 DEF Suffix
  <2>3. \A i \in 1..n : now' - reserved[i] >= Day
    BY SMTT(30), <1>1, <1>4, <2>2, LimitsAssumption
  <2>4. Suffix'
    BY <1>4, <2>3 DEF Suffix
  <2> QED
    BY <1>4, <2>4 DEF BudgetKept
<1>5. CASE attempts' = Recent /\ UNCHANGED <<now, reserved>>
  BY <1>5, PoppedSuffix DEF Suffix, BudgetKept
<1>6. CASE /\ SlotFree /\ now' = now
           /\ attempts' = Append(Recent, now) /\ reserved' = Append(reserved, now)
  <2> DEFINE l == Len(Recent)
  <2>1. /\ Recent \in Seq(0..MaxTime) /\ l \in Nat /\ l <= m /\ DOMAIN Recent = 1..l
        /\ \A i \in 1..l : Recent[i] = reserved[(m - l) + i]
        /\ \A i \in 1..(m - l) : now - reserved[i] >= Day
    <3>1. Recent \in Seq(0..MaxTime)
      BY RecentFacts
    <3>2. l \in Nat /\ DOMAIN Recent = 1..l
      BY <3>1, LenProperties
    <3> QED
      BY <3>1, <3>2, PoppedSuffix
  <2>2. /\ Len(attempts') = l + 1 /\ DOMAIN attempts' = 1..(l + 1) /\ attempts'[l + 1] = now
        /\ \A i \in 1..l : attempts'[i] = Recent[i]
    <3>1. /\ attempts' \in Seq(0..MaxTime)
          /\ Len(attempts') = l + 1 /\ attempts'[l + 1] = now
          /\ \A i \in 1..l : attempts'[i] = Recent[i]
      BY <1>1, <1>6, <2>1, AppendProperties
    <3> QED
      BY <3>1, LenProperties
  <2>3. /\ Len(reserved') = m + 1 /\ DOMAIN reserved' = 1..(m + 1) /\ reserved'[m + 1] = now
        /\ \A i \in 1..m : reserved'[i] = reserved[i]
    <3>1. /\ reserved' \in Seq(0..MaxTime)
          /\ Len(reserved') = m + 1 /\ reserved'[m + 1] = now
          /\ \A i \in 1..m : reserved'[i] = reserved[i]
      BY <1>1, <1>6, AppendProperties
    <3> QED
      BY <3>1, LenProperties
  <2> HIDE DEF m, l
  <2>4. Suffix'
    <3>1. \A i \in 1..(l + 1) : attempts'[i] = reserved'[(m - l) + i]
      <4>1. ASSUME NEW i \in 1..l
            PROVE  attempts'[i] = reserved'[(m - l) + i]
        <5>1. (m - l) + i \in 1..m
          BY <1>1, <2>1
        <5> QED
          BY <2>1, <2>2, <2>3, <5>1
      <4>2. attempts'[l + 1] = reserved'[(m - l) + (l + 1)]
        BY <1>1, <2>1, <2>2, <2>3
      <4>3. \A i \in 1..(l + 1) : i \in 1..l \/ i = l + 1
        BY <2>1
      <4> QED
        BY <4>1, <4>2, <4>3
    <3>2. \A i \in 1..(m - l) : now' - reserved'[i] >= Day
      BY <1>1, <1>6, <2>1, <2>3
    <3>3. /\ Len(reserved') - Len(attempts') = m - l
          /\ Len(attempts') <= Len(reserved')
      BY <1>1, <2>1, <2>2, <2>3
    <3> QED
      BY <2>2, <3>1, <3>2, <3>3 DEF Suffix
  <2>5. ASSUME NEW q \in Quotas, NEW i \in 1..(m + 1)
        PROVE  Cardinality({j \in 1..i : reserved'[i] - reserved'[j] < q.window}) <= q.cap
    <3>1. CASE i \in 1..m
      <4>1. \A j \in 1..i : reserved'[j] = reserved[j]
        BY <1>1, <2>3, <3>1
      <4>2. {j \in 1..i : reserved'[i] - reserved'[j] < q.window}
              = {j \in 1..i : reserved[i] - reserved[j] < q.window}
        BY <2>3, <3>1, <4>1
      <4>3. Cardinality({j \in 1..i : reserved[i] - reserved[j] < q.window}) <= q.cap
        BY <1>3, <3>1 DEF BudgetKept, m
      <4> QED
        BY <4>2, <4>3
    <3>2. CASE i = m + 1
      <4> DEFINE S == {j \in 1..m : now - reserved[j] < q.window}
                 T == {j \in 1..i : reserved'[i] - reserved'[j] < q.window}
      <4>1. IsFiniteSet(S) /\ Cardinality(S) < q.cap /\ Cardinality(S) \in Nat
        <5>1. IsFiniteSet(S) /\ Cardinality(S) < q.cap
          BY <1>6, SlotFits DEF SlotFree, m
        <5> QED
          BY <5>1, FS_CardinalityType
      <4>2. \A j \in 1..i : j = m + 1 \/ j \in 1..m
        BY <1>1, <3>2
      <4>3. T \in SUBSET (S \cup {m + 1})
        BY <2>3, <3>2, <4>2
      <4>4. /\ IsFiniteSet(S \cup {m + 1})
            /\ Cardinality(S \cup {m + 1})
                 = IF m + 1 \in S THEN Cardinality(S) ELSE Cardinality(S) + 1
        BY <4>1, FS_AddElement
      <4> HIDE DEF S, T
      <4>5. IsFiniteSet(T) /\ Cardinality(T) <= Cardinality(S \cup {m + 1})
        BY <4>3, <4>4, FS_Subset
      <4>6. Cardinality(T) \in Nat /\ q.cap \in Nat
        BY <4>5, FS_CardinalityType, LimitsAssumption
      <4>7. Cardinality(T) <= q.cap
        BY <4>1, <4>4, <4>5, <4>6
      <4> QED
        BY <4>7 DEF T
    <3> QED
      BY <1>1, <3>1, <3>2
  <2> QED
    BY <2>3, <2>4, <2>5 DEF BudgetKept
<1>7. CASE \E r \in Requests : Begin(r) \/ Step(r)
  BY <1>4, <1>5, <1>6, <1>7, SlotKinds
<1>8. CASE Tick \/ Transition \/ UNCHANGED vars
  BY <1>4, <1>8 DEF Tick, Transition, vars, service, history
<1> QED
  BY <1>7, <1>8 DEF Next

-----------------------------------------------------------------------------
(* The safety properties.                                                  *)

LEMMA SafeInit == Init => SafeInv
<1> SUFFICES ASSUME Init PROVE SafeInv
  OBVIOUS
<1> USE LimitsAssumption DEF Init
<1>1. /\ Len(<<>>) = 0 /\ DOMAIN <<>> = {} /\ \A S : <<>> \in Seq(S)
      /\ \A i : i \notin 1..0
  OBVIOUS
<1>2. \A r \in Requests : Len(Work[r]) \in Nat /\ Len(Work[r]) >= 1
  <2>1. \A r \in Requests : Work[r] \in Seq(Keys) /\ Work[r] # <<>>
    BY WorkAssumption
  <2> QED
    BY <2>1, EmptySeq, LenProperties
<1>3. TypeOK
  <2>1. CacheTypes /\ SharedTypes
    <3>1. 0 \in 0..MaxTime /\ 0 \in 0..MaxSession
      BY DEF Init
    <3>2. CacheTypes
      BY <1>1 DEF CacheTypes
    <3>3. SharedTypes
      BY <1>1, <3>1 DEF SharedTypes
    <3> QED
      BY <3>2, <3>3
  <2>2. DraftTypes
    BY <1>1 DEF DraftTypes, NoDraft
  <2>3. PlaceTypes /\ CallTypes
    BY <1>2 DEF PlaceTypes, CallTypes
  <2> QED
    BY <2>1, <2>2, <2>3 DEF TypeOK
<1>4. InWork /\ Held /\ Exclusive
  BY <1>2 DEF InWork, Held, Exclusive, Running
<1>5. OnTheLine /\ Dated /\ Unremembered
  BY <1>1 DEF OnTheLine, Dated, Unremembered
<1>6. Ordered /\ Polled /\ Known
  BY <1>1 DEF Ordered, Polled, Known
<1>7. NoSecondDraft /\ OpenDraftsResumable
  BY <1>1 DEF NoSecondDraft, OpenDraftsResumable
<1>8. Suffix /\ BudgetKept
  BY <1>1 DEF Suffix, BudgetKept
<1> QED
  BY <1>3, <1>4, <1>5, <1>6, <1>7, <1>8 DEF SafeInv, DraftInv

LEMMA SafeStep == SafeInv /\ [Next]_vars => SafeInv'
<1> SUFFICES ASSUME SafeInv, [Next]_vars PROVE SafeInv'
  OBVIOUS
<1>1. TypeOK'
  BY TypeStep DEF SafeInv, DraftInv
<1>2. InWork' /\ Held' /\ Exclusive'
  BY FlightStep DEF SafeInv
<1>3. DraftInv'
  BY DraftStep
<1>4. Suffix' /\ BudgetKept'
  BY BudgetStep DEF SafeInv
<1> QED
  BY <1>1, <1>2, <1>3, <1>4 DEF SafeInv

\* SafeInv is inductive: it holds in every behaviour of the service.
THEOREM SafeAlways == Spec => []SafeInv
BY SafeInit, SafeStep, PTL DEF Spec

\* Every variable keeps its type; the cache stays a dictionary within its
\* limit, and the histories stay what they say they are.
THEOREM DraftTypeCorrect == Spec => []TypeOK
<1>1. SafeInv => TypeOK
  BY DEF SafeInv
<1> QED
  BY <1>1, SafeAlways, PTL

\* _state_lock, the table of flights and the resumable drafts together keep a
\* fingerprint from a second draft while the first is being created or known.
THEOREM NoSecondDraftEver == Spec => []NoSecondDraft
<1>1. SafeInv => NoSecondDraft
  BY DEF SafeInv, DraftInv
<1> QED
  BY <1>1, SafeAlways, PTL

\* No path of validate() loses a draft before its resume horizon.
THEOREM OpenDraftsKept == Spec => []OpenDraftsResumable
<1>1. SafeInv => OpenDraftsResumable
  BY DEF SafeInv, DraftInv
<1> QED
  BY <1>1, SafeAlways, PTL

\* _reserve_create_slot_locked grants no more slots in any sliding window than
\* Ozon allows, whatever it has forgotten and whoever reserves.
THEOREM CreateBudget == Spec => []BudgetKept
<1>1. SafeInv => BudgetKept
  BY DEF SafeInv
<1> QED
  BY <1>1, SafeAlways, PTL

-----------------------------------------------------------------------------
(* A cache that holds every candidate.                                     *)

\* Nothing is evicted: there are no more candidates than places.
Roomy == IsFiniteSet(Keys) /\ Cardinality(Keys) <= CacheMax

LEMMA RoomFacts ==
    ASSUME TypeOK, Roomy, NEW k \in Keys, \A i \in DOMAIN cache : cache[i].key # k
    PROVE  Len(cache) < CacheMax
<1> DEFINE n == Len(cache)
           others == Keys \ {k}
           f == [i \in 1..n |-> cache[i].key]
<1>1. /\ cache \in Seq(Entries) /\ n \in Nat /\ DOMAIN cache = 1..n
      /\ \A i, j \in 1..n : cache[i].key = cache[j].key => i = j
  BY LenProperties DEF TypeOK, CacheTypes
<1>2. \A i \in 1..n : cache[i].key \in others
  <2>1. \A i \in 1..n : cache[i] \in Entries
    BY <1>1, ElementOfSeq
  <2> QED
    BY <1>1, <2>1 DEF Entries
<1>3. IsFiniteSet(others) /\ Cardinality(others) = Cardinality(Keys) - 1
  BY FS_RemoveElement DEF Roomy
<1>4. f \in Injection(1..n, others)
  BY <1>1, <1>2 DEF Injection, IsInjective
<1>5. Cardinality(1..n) = n
  BY SMTT(30), <1>1, FS_Interval
<1> HIDE DEF n, others, f
<1>6. n <= Cardinality(others)
  BY <1>3, <1>4, <1>5, FS_Injection
<1>7. Cardinality(Keys) \in Nat /\ CacheMax \in Nat /\ Cardinality(Keys) <= CacheMax
  BY FS_CardinalityType, LimitsAssumption DEF Roomy
<1> QED
  BY <1>1, <1>3, <1>6, <1>7 DEF n

\* How a step of a call changes the history: it sends a create, or it settles
\* or resolves one; an outcome without a draft is the call's to publish.
LEMMA PastFacts ==
    ASSUME SafeInv, NEW r \in Requests, Begin(r) \/ Step(r)
    PROVE  LET n == Len(posts)
           IN  /\ now' = now /\ DOMAIN posts = 1..n /\ n \in Nat
               /\ \A i \in DOMAIN posts :
                     /\ i \in DOMAIN posts'
                     /\ posts'[i].key = posts[i].key /\ posts'[i].at = posts[i].at
               /\ \A i \in DOMAIN posts :
                     posts'[i].fate \in {"closed", "unknown"} =>
                        \/ posts'[i] = posts[i]
                        \/ /\ i = n /\ posts[i].key = Key(r) /\ Key(r)' = Key(r)
                           /\ pc[r] = "sent" /\ pc'[r] = "publish"
                           /\ outcome'[r] = Kind(posts'[i].fate)
               /\ \A i \in DOMAIN posts' : i \in DOMAIN posts
                     \/ /\ SendCreate(r) /\ i = n + 1
                        /\ posts'[i] = [key |-> Key(r), at |-> now, fate |-> "sent", since |-> now]
<1> DEFINE n == Len(posts)
<1> USE DEF SafeInv, DraftInv
<1>1. now' = now
  BY SlotKinds
<1>2. /\ DOMAIN posts = 1..n /\ n \in Nat
      /\ \A i \in 1..n : posts[i] \in Creates
  BY CreateFacts
<1>3. \/ Aside(r) \/ Settles(r) \/ Resume(r) \/ Reserve(r) \/ SendCreate(r)
      \/ CreateNamesDraft(r) \/ PollResolves(r)
  BY DraftKinds
<1>4. CASE Aside(r) \/ Resume(r) \/ Reserve(r)
  <2>1. posts' = posts
    BY <1>4 DEF Aside, Resume, Reserve, history
  <2> QED
    BY <1>1, <1>2, <2>1
<1>5. CASE SendCreate(r)
  <2>1. Key(r) \in Keys
    BY <1>5, CandidateFacts DEF SendCreate, InWork
  <2>2. posts' = Append(posts, [key |-> Key(r), at |-> now, fate |-> "sent", since |-> now])
    BY <1>5 DEF SendCreate
  <2>3. /\ posts' \in Seq(Creates) /\ Len(posts') = n + 1
        /\ \A i \in 1..n : posts'[i] = posts[i]
        /\ posts'[n + 1] = [key |-> Key(r), at |-> now, fate |-> "sent", since |-> now]
    BY <2>1, <2>2, SentFacts
  <2>4. DOMAIN posts' = 1..(n + 1)
    BY <2>3, LenProperties
  <2>5. /\ \A i \in 1..n : i \in 1..(n + 1)
        /\ \A i \in 1..(n + 1) : i \in 1..n \/ i = n + 1
    BY <1>2
  <2> HIDE DEF n
  <2> QED
    BY <1>1, <1>2, <1>5, <2>3, <2>4, <2>5 DEF n
<1>6. CASE PollResolves(r)
  <2> DEFINE m == draft[r].id
  <2>1. pc[r] = "poll" /\ posts' = [posts EXCEPT ![m].fate = "resolved"]
    BY <1>6 DEF PollResolves
  <2>2. m \in 1..n
    BY <1>2, <2>1 DEF Polled, IsLatest
  <2>3. /\ posts' \in Seq(Creates) /\ Len(posts') = n
        /\ posts'[m].fate = "resolved"
        /\ posts'[m].key = posts[m].key /\ posts'[m].at = posts[m].at
        /\ \A i \in 1..n : i # m => posts'[i] = posts[i]
    BY <2>1, <2>2, ResolvedFacts
  <2>4. DOMAIN posts' = 1..n
    BY <2>3, LenProperties
  <2> HIDE DEF n, m
  <2>5. \A i \in 1..n : /\ posts'[i].key = posts[i].key /\ posts'[i].at = posts[i].at
                        /\ posts'[i].fate \in {"closed", "unknown"} => posts'[i] = posts[i]
    BY <2>3
  <2> QED
    BY <1>1, <1>2, <2>4, <2>5 DEF n
<1>7. CASE CreateNamesDraft(r) \/ Settles(r)
  <2>1. PICK fate \in {"open", "closed", "unknown", "lost"} :
          /\ pc[r] = "sent" /\ posts' = Settled(fate) /\ Key(r)' = Key(r)
          /\ fate \in {"closed", "unknown"} => pc'[r] = "publish" /\ outcome'[r] = Kind(fate)
    BY <1>7 DEF CreateNamesDraft, Settles, Key
  <2>2. n > 0 /\ posts[n].key = Key(r)
    BY <2>1 DEF OnTheLine
  <2>3. /\ posts' \in Seq(Creates) /\ Len(posts') = n
        /\ \A i \in 1..n : posts'[i] = IF i = n
                                       THEN [posts[i] EXCEPT !.fate = fate, !.since = now]
                                       ELSE posts[i]
    <3>1. fate \in Fates /\ Len(posts) > 0 /\ TypeOK
      BY <2>2 DEF Fates
    <3>2. /\ Settled(fate) \in Seq(Creates) /\ Len(Settled(fate)) = Len(posts)
          /\ \A i \in 1..Len(posts) :
                Settled(fate)[i] = IF i = Len(posts)
                                   THEN [posts[i] EXCEPT !.fate = fate, !.since = now]
                                   ELSE posts[i]
      BY <3>1, SettledFacts, Zenon
    <3> QED
      BY <2>1, <3>2, Zenon
  <2>4. DOMAIN posts' = 1..n /\ n \in 1..n
    <3>1. DOMAIN posts' = 1..n
      BY ZenonT(30), <2>3, LenProperties
    <3> QED
      BY <1>2, <2>2, <3>1
  <2> HIDE DEF n
  <2>5. /\ posts'[n].fate = fate /\ posts'[n].key = posts[n].key /\ posts'[n].at = posts[n].at
        /\ \A i \in 1..n : i # n => posts'[i] = posts[i]
    BY ZenonT(30), <1>2, <2>3, <2>4 DEF Creates
  <2>6. \A i \in 1..n : /\ posts'[i].key = posts[i].key /\ posts'[i].at = posts[i].at
                        /\ posts'[i].fate \in {"closed", "unknown"} =>
                              posts'[i] = posts[i] \/ (i = n /\ posts'[i].fate = fate)
    BY <2>5
  <2> QED
    BY ZenonT(30), <1>1, <1>2, <2>1, <2>2, <2>4, <2>6 DEF n
<1> QED
  BY <1>3, <1>4, <1>5, <1>6, <1>7

\* An outcome that a look does not repeat has been kept in full.
LEMMA ForgottenIsOver ==
    ASSUME SafeInv, NEW k \in Keys, NEW i \in DOMAIN posts,
           posts[i].fate \in {"closed", "unknown"}, Cached(k, i), ~Hit(k)
    PROVE  Over(i)
<1>1. PICK j \in DOMAIN cache : /\ cache[j].key = k /\ cache[j].kind = Kind(posts[i].fate)
                                /\ cache[j].at >= posts[i].since
  BY DEF Cached
<1>2. ~(now - cache[j].at < Pause(posts[i].fate))
  BY <1>1 DEF Hit, TTL, Kind, Pause
<1>3. now \in Nat /\ posts[i].since \in Nat
  BY CreateFacts DEF SafeInv
<1>4. cache[j].at \in Nat
  <2>1. cache \in Seq(Entries)
    BY DEF SafeInv, TypeOK, CacheTypes
  <2>2. cache[j] \in Entries
    BY <2>1, ElementOfSeq, LenProperties
  <2> QED
    BY <2>2, LimitsAssumption DEF Entries
<1>5. Pause(posts[i].fate) \in Nat
  BY LimitsAssumption DEF Pause
<1> QED
  BY <1>1, <1>2, <1>3, <1>4, <1>5 DEF Over

\* What is still to be published or cached stays so, or is over, whatever a
\* call does next.
LEMMA KeptStays ==
    ASSUME SafeInv, Roomy, NEW r \in Requests, Begin(r) \/ Step(r),
           NEW k \in Keys, NEW i \in DOMAIN posts, IsLatest(posts, k, i),
           posts[i].fate \in {"closed", "unknown"}, posts'[i] = posts[i],
           Over(i) \/ Cached(k, i) \/ Unpublished(k, i)
    PROVE  Over(i)' \/ Cached(k, i)' \/ Unpublished(k, i)'
<1> USE DEF SafeInv, DraftInv
<1>1. now' = now /\ now \in Nat /\ posts[i].since <= now
  BY SlotKinds, CreateFacts DEF Dated
<1>2. CASE Over(i)
  BY <1>1, <1>2 DEF Over
<1>3. CASE Publish(r)
  <2> DEFINE e == [key |-> Key(r), at |-> now, kind |-> outcome[r]]
  <2>1. Key(r) \in Keys /\ \A j \in DOMAIN cache : cache[j].key # Key(r)
    BY <1>3, CandidateFacts DEF Publish, InWork, Held, Exclusive, Running
  <2>2. Len(cache) < CacheMax
    BY <2>1, RoomFacts
  <2>3. /\ \A j \in DOMAIN cache : \E c \in DOMAIN cache' : cache'[c] = cache[j]
        /\ outcome[r] \in {"answer", "unknown"} => \E c \in DOMAIN cache' : cache'[c] = e
    BY <1>3, <2>2, PublishedFacts
  <2>4. CASE Cached(k, i)
    BY <2>3, <2>4 DEF Cached
  <2>5. CASE Unpublished(k, i)
    <3>1. PICK q \in Requests : /\ pc[q] = "publish" /\ Key(q) = k
                                /\ outcome[q] = Kind(posts[i].fate)
      BY <2>5 DEF Unpublished
    <3>2. CASE q = r
      <4>1. PICK c \in DOMAIN cache' : cache'[c] = e
        BY <2>3, <3>1, <3>2 DEF Kind
      <4>2. cache'[c].key = k /\ cache'[c].kind = Kind(posts[i].fate) /\ cache'[c].at = now
        BY <3>1, <3>2, <4>1
      <4> QED
        BY <1>1, <4>2 DEF Cached
    <3>3. CASE q # r
      BY <1>3, <3>1, <3>3, OthersStay DEF Unpublished
    <3> QED
      BY <3>2, <3>3
  <2> QED
    BY <1>2, <2>4, <2>5
<1>4. CASE ~Publish(r)
  <2>1. pc[r] # "publish"
    BY <1>4 DEF Begin, Step, Answered, Join, Miss, Unbuildable, Resume, Reserve, Limited,
                Look, Take, SendCreate, CooldownRefuses, CreateNamesDraft,
                CreateEndsWithoutDraft, Revoked, PollPending, PollFails, PollResolves,
                Timeslots, Wake
  <2>2. CASE Unpublished(k, i)
    BY <2>1, <2>2, OthersStay DEF Unpublished
  <2>3. CASE Cached(k, i) /\ Keeps(r)
    BY <2>3 DEF Keeps, Cached
  <2>4. CASE Cached(k, i) /\ (Looks(r) \/ Takes(r))
    <3>1. Key(r) \in Keys /\ cache' = LookedUp(Key(r))
      BY <2>4, LookTypes DEF Looks, Takes, Take, Look
    <3>2. CASE k # Key(r) \/ Hit(Key(r))
      <4>1. \A j \in DOMAIN cache : cache[j].key = k =>
              \E c \in DOMAIN cache' : cache'[c] = cache[j]
        BY <3>1, <3>2, LookedUpFacts
      <4> QED
        BY <2>4, <4>1 DEF Cached
    <3>3. CASE k = Key(r) /\ ~Hit(Key(r))
      BY <1>2, <2>4, <3>3, ForgottenIsOver
    <3> QED
      BY <3>2, <3>3
  <2>5. Keeps(r) \/ Looks(r) \/ Takes(r)
    BY <1>4, FlightKinds
  <2> QED
    BY <1>2, <2>2, <2>3, <2>4, <2>5
<1> QED
  BY <1>3, <1>4

\* A call that reserves a slot looked for an answer and for a flight first.
LEMMA ReservedRested ==
    ASSUME SafeInv, Kept, NEW r \in Requests, Reserve(r),
           NEW i \in DOMAIN posts, IsLatest(posts, Key(r), i),
           posts[i].fate \in {"closed", "unknown"}
    PROVE  Over(i)
<1>1. Key(r) \in Keys /\ ~Hit(Key(r)) /\ inflight[Key(r)] = NoFlight
  BY LookTypes DEF Reserve, Take, Flying, SafeInv
<1>2. ~Unpublished(Key(r), i)
  <2>1. \A q \in Requests : pc[q] = "publish" => Mine(q) # NoFlight /\ inflight[Key(q)] = Mine(q)
    BY CandidateFacts DEF SafeInv, InWork, Held, Running
  <2> QED
    BY <1>1, <2>1 DEF Unpublished
<1>3. CASE Cached(Key(r), i)
  BY <1>1, <1>3, ForgottenIsOver
<1> QED
  BY <1>1, <1>2, <1>3 DEF Kept

\* Before a create is sent, every unknown outcome of its candidate was in
\* quarantine for its time.
LEMMA SentRested ==
    ASSUME SafeInv, Rested, UnknownQuarantined, NEW r \in Requests, SendCreate(r),
           NEW i \in DOMAIN posts, posts[i].key = Key(r), posts[i].fate = "unknown"
    PROVE  now - posts[i].since >= UnknownTTL
<1>1. pc[r] = "create" /\ Key(r) \in Keys
  BY CandidateFacts DEF SendCreate, SafeInv, InWork
<1>2. PICK l \in DOMAIN posts : IsLatest(posts, Key(r), l)
  BY <1>1 DEF SafeInv, DraftInv, Ordered
<1>3. posts[l].key = Key(r) /\ i <= l /\ i \in Nat /\ l \in Nat
  BY <1>2, CreateFacts DEF SafeInv, IsLatest
<1>4. /\ now \in Nat /\ posts[i].since \in Nat /\ posts[l].at \in Nat
      /\ posts[l].at <= now
  BY CreateFacts DEF SafeInv, DraftInv, Dated
<1>5. CASE i = l
  BY <1>1, <1>2, <1>5 DEF Rested, Over, Pause
<1>6. CASE i < l
  <2>1. posts[l].at - posts[i].since >= UnknownTTL
    BY <1>3, <1>6 DEF UnknownQuarantined
  <2> QED
    BY <1>4, <2>1, LimitsAssumption
<1> QED
  BY <1>3, <1>5, <1>6

\* In a cache that holds every candidate, every step keeps what came of the
\* creates for as long as it was promised.
LEMMA PromiseStep ==
    ASSUME SafeInv, PromiseInv, Roomy, [Next]_vars
    PROVE  PromiseInv'
<1> USE DEF PromiseInv
<1>1. ASSUME UNCHANGED <<posts, cache, pc, pos, outcome>>, now' \in {now, now + 1}
      PROVE  PromiseInv'
  <2>1. \A i \in DOMAIN posts : Over(i) => Over(i)'
    <3>1. now \in Nat /\ \A i \in DOMAIN posts : posts[i].since \in Nat
      BY CreateFacts DEF SafeInv
    <3> QED
      BY <1>1, <3>1, LimitsAssumption DEF Over, Pause
  <2>2. \A k \in Keys : \A i :
            /\ Cached(k, i) => Cached(k, i)'
            /\ Unpublished(k, i) => Unpublished(k, i)'
            /\ IsLatest(posts, k, i)' <=> IsLatest(posts, k, i)
    BY <1>1 DEF Cached, Unpublished, Key
  <2>3. Kept'
    BY <1>1, <2>1, <2>2 DEF Kept
  <2>4. Rested'
    BY <1>1, <2>1 DEF Rested, Key
  <2>5. UnknownQuarantined'
    BY <1>1 DEF UnknownQuarantined
  <2> QED
    BY <2>3, <2>4, <2>5
<1>2. ASSUME NEW r \in Requests, Begin(r) \/ Step(r)
      PROVE  PromiseInv'
  <2> DEFINE n == Len(posts)
             Fresh(i) == /\ i = n /\ posts[i].key = Key(r) /\ Key(r)' = Key(r)
                         /\ pc[r] = "sent" /\ pc'[r] = "publish"
                         /\ outcome'[r] = Kind(posts'[i].fate)
  <2>1. /\ now' = now /\ DOMAIN posts = 1..n /\ n \in Nat
        /\ \A i \in DOMAIN posts :
              /\ i \in DOMAIN posts'
              /\ posts'[i].key = posts[i].key /\ posts'[i].at = posts[i].at
        /\ \A i \in DOMAIN posts :
              posts'[i].fate \in {"closed", "unknown"} => posts'[i] = posts[i] \/ Fresh(i)
        /\ \A i \in DOMAIN posts' : i \in DOMAIN posts
              \/ /\ SendCreate(r) /\ i = n + 1
                 /\ posts'[i] = [key |-> Key(r), at |-> now, fate |-> "sent", since |-> now]
    BY <1>2, PastFacts
  <2> HIDE DEF n, Fresh
  <2>2. ASSUME NEW k, NEW i \in DOMAIN posts', IsLatest(posts, k, i)',
               posts'[i].fate \in {"closed", "unknown"}
        PROVE  i \in DOMAIN posts /\ IsLatest(posts, k, i) /\ (posts'[i] = posts[i] \/ Fresh(i))
    <3>1. i \in DOMAIN posts
      BY <2>1, <2>2
    <3>2. IsLatest(posts, k, i)
      BY <2>1, <2>2, <3>1 DEF IsLatest
    <3> QED
      BY <2>1, <2>2, <3>1, <3>2
  <2>3. \A i \in DOMAIN posts : posts'[i] = posts[i] => (Over(i)' <=> Over(i))
    BY <2>1 DEF Over
  <2>4. \A q \in Requests : q # r =>
          /\ pc'[q] = pc[q] /\ Key(q)' = Key(q)
          /\ pc[q] \in Running => Key(q) \in Keys
          /\ pc[q] \in Running /\ pc[r] \in Running => Key(q) # Key(r)
    BY <1>2, OthersElsewhere
  <2>5. ASSUME NEW k \in Keys, NEW i \in DOMAIN posts', IsLatest(posts, k, i)',
               posts'[i].fate \in {"closed", "unknown"}
        PROVE  Over(i)' \/ Cached(k, i)' \/ Unpublished(k, i)'
    <3>1. i \in DOMAIN posts /\ IsLatest(posts, k, i) /\ (posts'[i] = posts[i] \/ Fresh(i))
      BY <2>2, <2>5
    <3>2. CASE posts'[i] = posts[i]
      <4>1. Over(i) \/ Cached(k, i) \/ Unpublished(k, i)
        BY <2>5, <3>1, <3>2 DEF Kept
      <4> QED
        BY <1>2, <2>5, <3>1, <3>2, <4>1, KeptStays
    <3>3. CASE Fresh(i)
      BY <3>1, <3>3 DEF Fresh, Unpublished, IsLatest
    <3> QED
      BY <3>1, <3>2, <3>3
  <2>6. ASSUME NEW q \in Requests, NEW i \in DOMAIN posts', pc'[q] = "create",
               IsLatest(posts, Key(q), i)', posts'[i].fate \in {"closed", "unknown"}
        PROVE  Over(i)'
    <3> DEFINE k == Key(q)'
    <3>1. i \in DOMAIN posts /\ IsLatest(posts, k, i) /\ (posts'[i] = posts[i] \/ Fresh(i))
      BY <2>2, <2>6
    <3>2. CASE q = r
      <4>1. pc'[r] = "create" /\ ~Fresh(i) /\ posts'[i] = posts[i]
        BY <2>6, <3>1, <3>2 DEF Fresh
      <4>2. \/ pc[r] = "create" /\ Key(r)' = Key(r)
            \/ Reserve(r) /\ Key(r)' = Key(r)
        <5>1. \/ Aside(r) \/ Settles(r) \/ Resume(r) \/ Reserve(r) \/ SendCreate(r)
              \/ CreateNamesDraft(r) \/ PollResolves(r)
          BY <1>2, DraftKinds DEF SafeInv
        <5>2. CASE Aside(r)
          BY <4>1, <5>2 DEF Aside, Key
        <5>3. CASE Reserve(r)
          BY <5>3 DEF Reserve, Key
        <5>4. ~(Settles(r) \/ Resume(r) \/ SendCreate(r) \/ CreateNamesDraft(r) \/ PollResolves(r))
          BY <4>1 DEF Settles, Resume, SendCreate, CreateNamesDraft, PollResolves, Return, Goto,
                      SafeInv, TypeOK, PlaceTypes
        <5> QED
          BY <5>1, <5>2, <5>3, <5>4
      <4>3. Over(i)
        BY <2>6, <3>1, <3>2, <4>1, <4>2, ReservedRested DEF Rested
      <4> QED
        BY <2>3, <3>1, <4>1, <4>3
    <3>3. CASE q # r
      <4>1. pc[q] = "create" /\ k = Key(q)
        BY <2>4, <2>6, <3>3
      <4>2. ~Fresh(i)
        BY <2>4, <3>1, <3>3, <4>1 DEF Fresh, IsLatest, Running
      <4> QED
        BY <2>3, <2>6, <3>1, <4>1, <4>2 DEF Rested
    <3> QED
      BY <3>2, <3>3
  <2>7. ASSUME NEW i \in DOMAIN posts', NEW j \in DOMAIN posts', i < j,
               posts'[i].key = posts'[j].key, posts'[i].fate = "unknown"
        PROVE  posts'[j].at - posts'[i].since >= UnknownTTL
    <3>1. i \in DOMAIN posts /\ (posts'[i] = posts[i] \/ Fresh(i))
      BY <2>1, <2>7
    <3>2. CASE j \in DOMAIN posts
      <4>1. ~Fresh(i)
        BY <2>1, <2>7, <3>1, <3>2 DEF Fresh
      <4> QED
        BY <2>1, <2>7, <3>1, <3>2, <4>1 DEF UnknownQuarantined
    <3>3. CASE j \notin DOMAIN posts
      <4>1. SendCreate(r) /\ posts'[j].at = now /\ posts'[j].key = Key(r)
        BY <2>1, <3>3
      <4>2. posts'[i] = posts[i]
        BY <3>1, <4>1 DEF Fresh, SendCreate
      <4> QED
        BY <2>7, <3>1, <4>1, <4>2, SentRested
    <3> QED
      BY <3>2, <3>3
  <2>8. Kept' /\ Rested'
    BY <2>5, <2>6 DEF Kept, Rested
  <2>9. UnknownQuarantined'
    BY <2>7 DEF UnknownQuarantined
  <2> QED
    BY <2>8, <2>9
<1>3. CASE Tick \/ Transition \/ UNCHANGED vars
  BY <1>1, <1>3 DEF Tick, Transition, vars, service, progress, history
<1> QED
  BY <1>2, <1>3 DEF Next

\* An ambiguous create is quarantined for UnknownTTL whenever the cache can
\* hold every candidate; the run that expects a violation shows what a full
\* cache does.
THEOREM QuarantineKept == ASSUME Roomy PROVE Spec => []UnknownQuarantined
<1>1. Init => SafeInv /\ PromiseInv
  <2>1. Init => PromiseInv
    BY DEF Init, PromiseInv, Kept, Rested, UnknownQuarantined
  <2> QED
    BY <2>1, SafeInit
<1>2. (SafeInv /\ PromiseInv) /\ [Next]_vars => (SafeInv /\ PromiseInv)'
  BY SafeStep, PromiseStep
<1>3. PromiseInv => UnknownQuarantined
  BY DEF PromiseInv
<1> QED
  BY <1>1, <1>2, <1>3, PTL DEF Spec

-----------------------------------------------------------------------------
(* The refinement of DraftPromise.                                         *)

\* The last create in a history.
LatestIn(p, k) ==
    LET mine == {i \in DOMAIN p : p[i].key = k}
    IN IF mine = {} THEN [fate |-> "none", since |-> 0]
       ELSE LET i == Max(mine) IN [fate |-> p[i].fate, since |-> p[i].since]

LEMMA LatestFacts ==
    ASSUME NEW p, NEW k, DOMAIN p \subseteq Nat, NEW i, IsLatest(p, k, i)
    PROVE  LatestIn(p, k) = [fate |-> p[i].fate, since |-> p[i].since]
<1> DEFINE mine == {j \in DOMAIN p : p[j].key = k}
<1>1. i \in mine /\ i \in Nat /\ \A j \in mine : j \in Nat /\ i >= j
  BY DEF IsLatest
<1>2. Max(mine) = CHOOSE x \in mine : \A y \in mine : x >= y
  BY DEF Max
<1> HIDE DEF mine
<1>3. Max(mine) \in mine /\ \A y \in mine : Max(mine) >= y
  BY <1>1, <1>2
<1>4. Max(mine) = i
  <2>1. Max(mine) \in Nat /\ i >= Max(mine) /\ Max(mine) >= i
    BY <1>1, <1>3
  <2> QED
    BY <1>1, <2>1
<1>5. mine # {}
  BY <1>1
<1> QED
  BY <1>4, <1>5 DEF LatestIn, mine

\* A create or an answer of one candidate leaves the last creates of the others.
LEMMA LatestElsewhere ==
    ASSUME NEW p, NEW s, NEW c, DOMAIN p \subseteq Nat, DOMAIN s \subseteq Nat,
           \/ \A i \in DOMAIN p : p[i].key # c
           \/ \E i \in DOMAIN p : IsLatest(p, c, i),
           DOMAIN p \subseteq DOMAIN s,
           \A i \in DOMAIN p : s[i].key = p[i].key /\ (p[i].key = c => s[i] = p[i]),
           \A i \in DOMAIN s : i \in DOMAIN p \/ s[i].key # c
    PROVE  LatestIn(s, c) = LatestIn(p, c)
<1>1. CASE \A i \in DOMAIN p : p[i].key # c
  <2>1. {i \in DOMAIN p : p[i].key = c} = {} /\ {i \in DOMAIN s : s[i].key = c} = {}
    BY <1>1
  <2> QED
    BY <2>1 DEF LatestIn
<1>2. ASSUME NEW i \in DOMAIN p, IsLatest(p, c, i)
      PROVE  LatestIn(s, c) = LatestIn(p, c)
  <2>1. IsLatest(s, c, i) /\ s[i] = p[i]
    BY <1>2 DEF IsLatest
  <2> QED
    BY <1>2, <2>1, LatestFacts
<1> QED
  BY <1>1, <1>2

\* When a create is sent, the promise allows it.
LEMMA SendAllowed ==
    ASSUME SafeInv, PromiseInv, NEW r \in Requests, SendCreate(r)
    PROVE  /\ LatestIn(posts, Key(r)).fate # "sent"
           /\ now - LatestIn(posts, Key(r)).since >= Promise!Rest(LatestIn(posts, Key(r)).fate)
<1> DEFINE k == Key(r)
           last == LatestIn(posts, k)
<1>1. pc[r] = "create" /\ k \in Keys /\ resumable[k] = NoDraft
  BY CandidateFacts DEF SendCreate, SafeInv, DraftInv, InWork, Unremembered
<1>2. /\ DOMAIN posts = 1..Len(posts) /\ Len(posts) \in Nat /\ now \in Nat
      /\ \A i \in DOMAIN posts : posts[i] \in Creates
      /\ \A i \in DOMAIN posts : posts[i].since \in Nat
  BY CreateFacts DEF SafeInv
<1>3. CASE \A i \in DOMAIN posts : posts[i].key # k
  <2>1. {i \in DOMAIN posts : posts[i].key = k} = {}
    BY <1>3
  <2>2. last = [fate |-> "none", since |-> 0]
    BY <2>1 DEF LatestIn
  <2> QED
    BY <1>2, <2>2 DEF Promise!Rest
<1>4. ASSUME NEW i \in DOMAIN posts, IsLatest(posts, k, i)
      PROVE  last.fate # "sent" /\ now - last.since >= Promise!Rest(last.fate)
  <2>1. last = [fate |-> posts[i].fate, since |-> posts[i].since]
    BY <1>2, <1>4, LatestFacts
  <2>2. last.fate = posts[i].fate /\ last.since = posts[i].since
    BY <2>1
  <2> HIDE DEF k, last
  <2>3. posts[i].fate \in Fates /\ posts[i].key = k /\ posts[i].since <= now
    BY <1>2, <1>4 DEF Creates, IsLatest, SafeInv, DraftInv, Dated
  <2>4. posts[i].fate # "sent"
    BY DEF SendCreate, LineFree, SafeInv, DraftInv, OnTheLine
  <2>5. CASE posts[i].fate = "open"
    <3>1. ~(now - posts[i].since < ResumeTTL)
      <4>1. resumable[k] # [id |-> i, at |-> posts[i].since]
        BY <1>1, <1>2 DEF NoDraft
      <4> QED
        BY <2>3, <2>5, <4>1 DEF SafeInv, DraftInv, OpenDraftsResumable
    <3>2. now - posts[i].since >= ResumeTTL
      BY <1>2, <3>1, LimitsAssumption
    <3> QED
      BY <2>2, <2>5, <3>2 DEF Promise!Rest
  <2>6. CASE posts[i].fate \in {"closed", "unknown"}
    <3>1. Over(i)
      BY <1>1, <1>4, <2>6 DEF PromiseInv, Rested, k
    <3> QED
      BY <2>2, <2>6, <3>1 DEF Promise!Rest, Over, Pause
  <2>7. CASE posts[i].fate \in {"resolved", "lost"}
    BY <1>2, <2>2, <2>3, <2>7 DEF Promise!Rest
  <2> QED
    BY <2>2, <2>3, <2>4, <2>5, <2>6, <2>7 DEF Fates
<1> QED
  BY <1>1, <1>3, <1>4 DEF SafeInv, DraftInv, Ordered

\* Every step of the service is a step of the promise, or none.
LEMMA RefinementStep ==
    ASSUME SafeInv, PromiseInv, [Next]_vars
    PROVE  [Promise!Next]_(Promise!promiseVars)
<1> DEFINE C == [k \in Keys |-> LatestIn(posts, k)]
           D == [k \in Keys |-> LatestIn(posts', k)]
           n == Len(posts)
<1>1. /\ [k \in Keys |-> Latest(k)] = C
      /\ [k \in Keys |-> Latest(k)]' = D
  BY DEF Latest, LatestIn
<1>2. CASE UNCHANGED <<now, posts>>
  <2>1. D = C
    BY <1>2
  <2> QED
    BY <1>1, <1>2, <2>1 DEF Promise!promiseVars
<1>3. CASE Tick
  <2>1. D = C /\ now < MaxTime /\ now' = now + 1
    BY <1>3 DEF Tick, history
  <2> QED
    BY <1>1, <2>1 DEF Promise!Next, Promise!Tick
<1>4. ASSUME NEW r \in Requests, SendCreate(r) \/ pc[r] = "sent" \/ PollResolves(r),
             Begin(r) \/ Step(r)
      PROVE  [Promise!Next]_(Promise!promiseVars)
  <2> DEFINE k == Key(r)
  <2>1. /\ DOMAIN posts = 1..n /\ n \in Nat /\ now' = now
        /\ \A i \in DOMAIN posts : posts[i] \in Creates
    BY <1>4, CreateFacts, SlotKinds DEF SafeInv
  <2>2. k \in Keys
    BY <1>4, CandidateFacts DEF SafeInv, InWork, SendCreate, PollResolves
  <2>3. /\ DOMAIN posts' \subseteq Nat /\ DOMAIN posts \subseteq DOMAIN posts'
        /\ \A i \in DOMAIN posts : posts'[i].key = posts[i].key
        /\ \A i \in DOMAIN posts' : i \in DOMAIN posts \/ posts'[i].key = k
    BY <1>4, <2>1, PastFacts
  <2>4. ASSUME \A i \in DOMAIN posts : posts[i].key # k => posts'[i] = posts[i],
               NEW e, LatestIn(posts', k) = e
        PROVE  D = [C EXCEPT ![k] = e]
    <3>1. ASSUME NEW c \in Keys, c # k
          PROVE  LatestIn(posts', c) = LatestIn(posts, c)
      <4> HIDE DEF k
      <4>1. \/ \A i \in DOMAIN posts : posts[i].key # c
            \/ \E i \in DOMAIN posts : IsLatest(posts, c, i)
        BY DEF SafeInv, DraftInv, Ordered
      <4>2. DOMAIN posts \subseteq Nat /\ DOMAIN posts' \subseteq Nat
        BY <2>1, <2>3
      <4>3. \A i \in DOMAIN posts :
              posts'[i].key = posts[i].key /\ (posts[i].key = c => posts'[i] = posts[i])
        BY <2>3, <2>4, <3>1
      <4>4. \A i \in DOMAIN posts' : i \in DOMAIN posts \/ posts'[i].key # c
        BY <2>3, <3>1
      <4> QED
        BY <2>3, <4>1, <4>2, <4>3, <4>4, LatestElsewhere, Zenon
    <3> QED
      BY <2>2, <2>4, <3>1
  <2> HIDE DEF k
  <2>5. CASE SendCreate(r)
    <3>1. posts' = Append(posts, [key |-> k, at |-> now, fate |-> "sent", since |-> now])
      BY <2>5 DEF SendCreate, k
    <3>2. /\ posts' \in Seq(Creates) /\ Len(posts') = n + 1
          /\ \A i \in 1..n : posts'[i] = posts[i]
          /\ posts'[n + 1] = [key |-> k, at |-> now, fate |-> "sent", since |-> now]
      BY <2>2, <3>1, SentFacts DEF SafeInv
    <3>3. DOMAIN posts' = 1..(n + 1)
      BY <3>2, LenProperties
    <3>4. IsLatest(posts', k, n + 1)
      BY <2>1, <3>2, <3>3 DEF IsLatest
    <3>5. LatestIn(posts', k) = [fate |-> "sent", since |-> now]
      <4>1. /\ posts'[n + 1].fate = "sent" /\ posts'[n + 1].since = now
        BY <3>2
      <4> QED
        BY <2>3, <3>4, <4>1, LatestFacts
    <3>6. D = [C EXCEPT ![k] = [fate |-> "sent", since |-> now]]
      BY <2>1, <2>4, <3>2, <3>5
    <3>7. C[k].fate # "sent" /\ now - C[k].since >= Promise!Rest(C[k].fate)
      BY <2>2, <2>5, SendAllowed DEF k
    <3> HIDE DEF C, D
    <3>8. Promise!Create(k)
      BY <1>1, <2>1, <3>6, <3>7 DEF Promise!Create
    <3> QED
      BY <2>2, <3>8 DEF Promise!Next
  <2>6. CASE pc[r] = "sent"
    <3>1. PICK fate \in {"open", "closed", "unknown", "lost"} : posts' = Settled(fate)
      <4>1. CreateNamesDraft(r) \/ Settles(r)
        BY <1>4, <2>6, DraftKinds DEF SafeInv, Aside, Resume, Reserve, SendCreate,
           PollResolves, Take
      <4> QED
        BY <4>1 DEF CreateNamesDraft, Settles
    <3>2. n > 0 /\ posts[n].key = k /\ posts[n].fate = "sent"
      BY <2>6 DEF SafeInv, DraftInv, OnTheLine, k
    <3>3. /\ posts' \in Seq(Creates) /\ Len(posts') = n
          /\ \A i \in 1..n : posts'[i] = IF i = n
                                         THEN [posts[i] EXCEPT !.fate = fate, !.since = now]
                                         ELSE posts[i]
      <4>1. fate \in Fates /\ Len(posts) > 0 /\ TypeOK
        BY <3>2 DEF Fates, SafeInv
      <4>2. /\ Settled(fate) \in Seq(Creates) /\ Len(Settled(fate)) = Len(posts)
            /\ \A i \in 1..Len(posts) :
                  Settled(fate)[i] = IF i = Len(posts)
                                     THEN [posts[i] EXCEPT !.fate = fate, !.since = now]
                                     ELSE posts[i]
        BY <4>1, SettledFacts, Zenon
      <4> QED
        BY <3>1, <4>2, Zenon
    <3>4. DOMAIN posts' = 1..n /\ n \in 1..n
      <4>1. DOMAIN posts' = 1..n
        BY ZenonT(30), <3>3, LenProperties
      <4> QED
        BY <2>1, <3>2, <4>1
    <3> HIDE DEF n
    <3>5. /\ posts'[n].fate = fate /\ posts'[n].since = now /\ posts'[n].key = k
          /\ \A i \in 1..n : i # n => posts'[i] = posts[i]
      BY ZenonT(30), <2>1, <3>2, <3>3, <3>4 DEF Creates
    <3>6. IsLatest(posts, k, n) /\ IsLatest(posts', k, n)
      BY <2>1, <3>2, <3>4, <3>5 DEF IsLatest
    <3>7. LatestIn(posts', k) = [fate |-> fate, since |-> now]
      BY <2>3, <3>5, <3>6, LatestFacts
    <3>8. D = [C EXCEPT ![k] = [fate |-> fate, since |-> now]]
      BY <2>1, <2>4, <3>2, <3>5, <3>7
    <3>9. C[k].fate = "sent"
      <4>1. LatestIn(posts, k) = [fate |-> "sent", since |-> posts[n].since]
        BY <2>1, <3>2, <3>6, LatestFacts
      <4> QED
        BY <2>2, <4>1
    <3> HIDE DEF C, D
    <3>10. Promise!Answer(k)
      BY <1>1, <2>1, <3>8, <3>9 DEF Promise!Answer, Promise!Answers
    <3> QED
      BY <2>2, <3>10 DEF Promise!Next
  <2>7. CASE PollResolves(r)
    <3> DEFINE m == draft[r].id
    <3>1. pc[r] = "poll" /\ posts' = [posts EXCEPT ![m].fate = "resolved"]
      BY <2>7 DEF PollResolves
    <3>2. IsLatest(posts, k, m) /\ posts[m].fate = "open" /\ m \in 1..n /\ posts[m].key = k
      BY <2>1, <3>1 DEF SafeInv, DraftInv, Polled, IsLatest, k
    <3>3. /\ posts' \in Seq(Creates) /\ Len(posts') = n
          /\ posts'[m].fate = "resolved" /\ posts'[m].key = posts[m].key
          /\ posts'[m].since = posts[m].since
          /\ \A i \in 1..n : i # m => posts'[i] = posts[i]
      BY <3>1, <3>2, ResolvedFacts DEF SafeInv
    <3>4. DOMAIN posts' = 1..n
      BY <3>3, LenProperties
    <3> HIDE DEF n, m
    <3>5. \A i \in 1..n : posts'[i].key = posts[i].key
      BY <3>3
    <3>6. IsLatest(posts', k, m)
      BY <2>1, <3>2, <3>4, <3>5 DEF IsLatest
    <3>7. LatestIn(posts', k) = [fate |-> "resolved", since |-> posts[m].since]
      BY <2>3, <3>3, <3>6, LatestFacts
    <3>8. LatestIn(posts, k) = [fate |-> "open", since |-> posts[m].since]
      BY <2>1, <3>2, LatestFacts
    <3>9. C[k] = [fate |-> "open", since |-> posts[m].since]
      BY <2>2, <3>8
    <3>10. D = [C EXCEPT ![k] = [fate |-> "resolved", since |-> posts[m].since]]
      BY <2>1, <2>4, <3>2, <3>3, <3>7
    <3> HIDE DEF C, D
    <3>11. D = [C EXCEPT ![k].fate = "resolved"] /\ C[k].fate = "open"
      <4>1. [C[k] EXCEPT !.fate = "resolved"] = [fate |-> "resolved", since |-> posts[m].since]
        BY <3>9
      <4>2. [C EXCEPT ![k].fate = "resolved"] = [C EXCEPT ![k] = [C[k] EXCEPT !.fate = "resolved"]]
        OBVIOUS
      <4>3. C[k].fate = "open"
        BY <3>9
      <4> QED
        BY <3>10, <4>1, <4>2, <4>3, Zenon
    <3>12. Promise!Resolve(k)
      BY <1>1, <2>1, <3>11 DEF Promise!Resolve
    <3> QED
      BY <2>2, <3>12 DEF Promise!Next
  <2> QED
    BY <1>4, <2>5, <2>6, <2>7
<1>5. ASSUME NEW r \in Requests, Begin(r) \/ Step(r)
      PROVE  \/ UNCHANGED <<now, posts>>
             \/ SendCreate(r) \/ pc[r] = "sent" \/ PollResolves(r)
  <2>1. \/ Aside(r) \/ Settles(r) \/ Resume(r) \/ Reserve(r) \/ SendCreate(r)
        \/ CreateNamesDraft(r) \/ PollResolves(r)
    BY <1>5, DraftKinds DEF SafeInv
  <2> QED
    BY <2>1 DEF Aside, Settles, Resume, Reserve, CreateNamesDraft, history
<1>6. CASE Transition \/ UNCHANGED vars
  BY <1>2, <1>6 DEF Transition, vars, history
<1> QED
  BY <1>2, <1>3, <1>4, <1>5, <1>6 DEF Next

\* With a cache that holds every candidate, the calls with their cache,
\* flights, resumable drafts and budget implement DraftPromise: seen per
\* candidate, nothing but time or a resolution allows the next create.
THEOREM PromiseImplemented == ASSUME Roomy PROVE Spec => KeepsPromise
<1>1. Init => SafeInv /\ PromiseInv
  <2>1. Init => PromiseInv
    BY DEF Init, PromiseInv, Kept, Rested, UnknownQuarantined
  <2> QED
    BY <2>1, SafeInit
<1>2. Init => Promise!Init
  <2> SUFFICES ASSUME Init PROVE Promise!Init
    OBVIOUS
  <2>1. \A k \in Keys : Latest(k) = [fate |-> "none", since |-> 0]
    BY DEF Init, Latest
  <2> QED
    BY <2>1 DEF Init, Promise!Init
<1>3. (SafeInv /\ PromiseInv) /\ [Next]_vars => (SafeInv /\ PromiseInv)'
  BY SafeStep, PromiseStep
<1>4. (SafeInv /\ PromiseInv) /\ [Next]_vars => [Promise!Next]_(Promise!promiseVars)
  BY RefinementStep
<1> QED
  BY <1>1, <1>2, <1>3, <1>4, PTL DEF Spec, KeepsPromise, Promise!Spec
==============================================================================
