---------------------------- MODULE ServicesProofs ----------------------------
(***************************************************************************)
(* Theorems about OzonClient, for any number and kind of calls, any        *)
(* intervals, delays and Retry-After values; about PriceEnrichment, for    *)
(* any prices, accounts, refreshes and workers; about EvidenceReads, for   *)
(* any listings and pages; and about the three side by side.               *)
(***************************************************************************)
EXTENDS MCServices, FiniteSetFacts, SequenceTheorems, FiniteSetTheorems, TLAPS

-----------------------------------------------------------------------------
(* OzonClient.  Whoever paces itself or waits for Ozon holds the admission *)
(* lock (Owned), so nobody moves the limits while a call sleeps towards    *)
(* them; and the sleep that is left reaches every limit (Paced).           *)

\* Pacing and waiting for the transport happen under the admission lock.
Owned == \A c \in Calls : pc[c] \in {"paced", "sent"} => lock = c

\* The limits cover what was promised, and a paced call sleeps up to them.
Paced ==
    /\ sinceAny + nextRequest >= Interval
    /\ sinceStock + nextStock >= StockInterval
    /\ owed <= cooldown
    /\ \A c \in Calls : pc[c] = "paced" =>
          /\ wait[c] >= nextRequest /\ wait[c] >= cooldown
          /\ c \in Stock => wait[c] >= nextStock

\* The POSTs of a call are counted by its attempts.
AttemptsCounted ==
    \A c \in Calls :
        /\ attempt[c] <= Attempts(c)
        /\ sent[c] <= attempt[c]
        /\ pc[c] \in {"idle", "try", "admit", "paced"} => sent[c] < attempt[c]
        /\ pc[c] = "rest" => attempt[c] < Attempts(c)

-----------------------------------------------------------------------------
\* What the operators on time return.
LEMMA TimeFacts ==
    ASSUME NEW a \in Nat, NEW b \in Nat
    PROVE  /\ Larger(a, b) \in Nat /\ Larger(a, b) >= a /\ Larger(a, b) >= b
           /\ Larger(a, b) \in {a, b}
           /\ Smaller(a, b) \in Nat /\ Smaller(a, b) \in {a, b} /\ Smaller(a, b) <= b
           /\ Elapsed(a) \in Nat /\ Elapsed(a) + 1 >= a
           /\ a >= b => Elapsed(a) >= Elapsed(b)
BY DEF Larger, Smaller, Elapsed

\* The horizon of the history covers both intervals.
LEMMA HorizonFacts == Horizon \in Nat /\ Horizon >= Interval /\ Horizon >= StockInterval
BY PacingAssumption, TimeFacts DEF Horizon

\* Answers name a number of ticks, and a call starts with none.
LEMMA AnswerFacts == NoAnswer \in Answer /\ \A a \in Answer : a.after \in Nat
<1>1. NoAnswer \in [kind : {"ok", "error", "exception"}, after : {0}]
  BY DEF NoAnswer
<1>2. ASSUME NEW a \in [kind : {"ok", "error", "exception"}, after : {0}]
      PROVE  a.after \in Nat
  OBVIOUS
<1>3. ASSUME NEW a \in [kind : {"limited", "busy"}, after : RetryAfters]
      PROVE  a.after \in Nat
  BY PacingAssumption
<1> QED
  BY <1>1, <1>2, <1>3 DEF Answer

\* A call makes between one and MaxAttempts attempts.
LEMMA AttemptsFacts ==
    \A c : /\ Attempts(c) \in Nat
           /\ 1 <= Attempts(c) /\ Attempts(c) <= MaxAttempts
BY PacingAssumption DEF Attempts

-----------------------------------------------------------------------------
\* Every step keeps the types; a call that rests has an attempt left.
LEMMA TypeStep == TypeOK /\ AttemptsCounted /\ [Next]_vars => TypeOK'
<1> SUFFICES ASSUME TypeOK, AttemptsCounted, [Next]_vars PROVE TypeOK'
  OBVIOUS
<1> USE PacingAssumption, HorizonFacts, AnswerFacts
<1>1. CASE Tick
  <2>1. /\ nextRequest' \in Nat /\ nextStock' \in Nat /\ cooldown' \in Nat /\ owed' \in Nat
        /\ wait' \in [Calls -> Nat]
    BY <1>1, TimeFacts DEF Tick, TypeOK
  <2>2. sinceAny' \in 0..Horizon /\ sinceStock' \in 0..Horizon
    BY <1>1 DEF Tick, TypeOK, Smaller
  <2> QED
    BY <1>1, <2>1, <2>2 DEF Tick, TypeOK, vault
<1>2. CASE Transition
  BY <1>2 DEF Transition, TypeOK, timers, calls, history
<1>3. ASSUME NEW c \in Calls, Begin(c) PROVE TypeOK'
  BY <1>3 DEF Begin, TypeOK, vault, timers, history, Goto, Labels
<1>4. ASSUME NEW c \in Calls, Cancelled(c) PROVE TypeOK'
  BY <1>4 DEF Cancelled, TypeOK, vault, timers, history, Goto, Fail, Labels, Released
<1>5. ASSUME NEW c \in Calls, Try(c) PROVE TypeOK'
  BY <1>5 DEF Try, TypeOK, vault, timers, history, Goto, Labels
<1>6. ASSUME NEW c \in Calls, Refused(c) PROVE TypeOK'
  BY <1>6 DEF Refused, TypeOK, vault, timers, history, Goto, Fail, Labels
<1>7. ASSUME NEW c \in Calls, Admitted(c) PROVE TypeOK'
  <2>1. Allowed(c) \in Nat
    BY DEF Allowed, TypeOK, Larger
  <2> QED
    BY <1>7, <2>1 DEF Admitted, TypeOK, vault, timers, history, Goto, Labels
<1>8. ASSUME NEW c \in Calls, RevokedBeforePost(c) PROVE TypeOK'
  BY <1>8 DEF RevokedBeforePost, TypeOK, vault, timers, history, Goto, Fail, Labels, Released
<1>9. ASSUME NEW c \in Calls, Post(c) PROVE TypeOK'
  <2>1. sent[c] + 1 \in Nat
    BY SMTT(30) DEF TypeOK
  <2>2. sent' \in [Calls -> Nat] /\ pc' \in [Calls -> Labels]
    BY <1>9, <2>1 DEF Post, TypeOK, Goto, Labels
  <2>3. nextRequest' \in Nat /\ nextStock' \in Nat
    BY <1>9 DEF Post, TypeOK, PacedFrom
  <2>4. sinceAny' \in 0..Horizon /\ sinceStock' \in 0..Horizon
    BY <1>9 DEF Post, TypeOK
  <2> QED
    BY <1>9, <2>2, <2>3, <2>4 DEF Post, TypeOK, vault, LockDuringTransport
<1>10. ASSUME NEW c \in Calls, NEW a \in Answer, Answered(c, a) PROVE TypeOK'
  <2>1. LimitedDelay[attempt[c]] \in Nat /\ a.after \in Nat
    BY DEF TypeOK
  <2>2. cooldown' \in Nat /\ owed' \in Nat
    BY <1>10, <2>1 DEF Answered, TypeOK, Larger
  <2> QED
    BY <1>10, <2>2 DEF Answered, TypeOK, vault, Goto, Labels, Released
<1>11. ASSUME NEW c \in Calls, Retry(c) PROVE TypeOK'
  <2>1. RetryDelay(c) \in Nat
    <3>1. /\ answer[c].after \in Nat
          /\ LimitedDelay[attempt[c]] \in Nat /\ Backoff[attempt[c]] \in Nat
      BY DEF TypeOK
    <3> QED
      BY <3>1 DEF RetryDelay, Larger
  <2> QED
    BY <1>11, <2>1 DEF Retry, TypeOK, vault, timers, history, Goto, Dealt, Labels
<1>12. ASSUME NEW c \in Calls, Rested(c) PROVE TypeOK'
  <2>1. attempt[c] + 1 \in 1..MaxAttempts
    <3>1. attempt[c] < Attempts(c)
      BY <1>12 DEF Rested, AttemptsCounted
    <3>2. attempt[c] \in 1..MaxAttempts
      BY DEF TypeOK
    <3> QED
      BY <3>1, <3>2, AttemptsFacts
  <2> QED
    BY <1>12, <2>1 DEF Rested, TypeOK, vault, timers, history, Goto, Labels
<1>13. ASSUME NEW c \in Calls, Finish(c) PROVE TypeOK'
  BY <1>13 DEF Finish, TypeOK, vault, timers, history, Goto, Fail, Dealt, Labels
<1>14. CASE UNCHANGED vars
  BY <1>14 DEF vars, vault, timers, calls, history, TypeOK
<1> QED
  BY <1>1, <1>2, <1>3, <1>4, <1>5, <1>6, <1>7, <1>8, <1>9, <1>10, <1>11, <1>12,
     <1>13, <1>14 DEF Next, Step

\* Every step keeps count of the POSTs.
LEMMA AttemptsStep == TypeOK /\ AttemptsCounted /\ [Next]_vars => AttemptsCounted'
<1> SUFFICES ASSUME TypeOK, AttemptsCounted, [Next]_vars, NEW d \in Calls
             PROVE  /\ attempt'[d] <= Attempts(d)
                    /\ sent'[d] <= attempt'[d]
                    /\ pc'[d] \in {"idle", "try", "admit", "paced"} => sent'[d] < attempt'[d]
                    /\ pc'[d] = "rest" => attempt'[d] < Attempts(d)
  BY DEF AttemptsCounted, Attempts
<1> USE PacingAssumption, AttemptsFacts
<1> DEFINE Fine == /\ attempt'[d] <= Attempts(d)
                   /\ sent'[d] <= attempt'[d]
                   /\ pc'[d] \in {"idle", "try", "admit", "paced"} => sent'[d] < attempt'[d]
                   /\ pc'[d] = "rest" => attempt'[d] < Attempts(d)
<1>1. CASE Tick \/ Transition \/ UNCHANGED vars
  BY <1>1 DEF Tick, Transition, vars, calls, history, AttemptsCounted
<1>2. ASSUME NEW c \in Calls, Begin(c) \/ Cancelled(c) \/ Try(c) \/ Refused(c)
                              \/ Admitted(c) \/ RevokedBeforePost(c)
      PROVE  Fine
  BY <1>2 DEF Begin, Cancelled, Try, Refused, Admitted, RevokedBeforePost, AttemptsCounted, TypeOK,
              Goto, Fail, history
<1>3. ASSUME NEW c \in Calls, Post(c) PROVE Fine
  BY <1>3 DEF Post, AttemptsCounted, TypeOK, Goto
<1>4. ASSUME NEW c \in Calls, NEW a \in Answer, Answered(c, a) PROVE Fine
  BY <1>4 DEF Answered, AttemptsCounted, TypeOK, Goto
<1>5. ASSUME NEW c \in Calls, Retry(c) PROVE Fine
  BY <1>5 DEF Retry, Retriable, AttemptsCounted, TypeOK, Goto, history
<1>6. ASSUME NEW c \in Calls, Rested(c) PROVE Fine
  <2>1. /\ attempt[d] \in Nat /\ sent[d] \in Nat
        /\ attempt[d] <= Attempts(d) /\ sent[d] <= attempt[d]
        /\ pc[d] \in {"idle", "try", "admit", "paced"} => sent[d] < attempt[d]
        /\ pc[d] = "rest" => attempt[d] < Attempts(d)
    BY SMTT(30) DEF AttemptsCounted, TypeOK
  <2>2. sent'[d] = sent[d]
    BY <1>6 DEF Rested, history
  <2>3. CASE c = d
    <3>1. pc'[d] = "try" /\ attempt'[d] = attempt[d] + 1 /\ pc[d] = "rest"
      BY <1>6, <2>3 DEF Rested, TypeOK, Goto
    <3> QED
      BY SMTT(30), <2>1, <2>2, <3>1
  <2>4. CASE c # d
    <3>1. pc'[d] = pc[d] /\ attempt'[d] = attempt[d]
      BY <1>6, <2>4 DEF Rested, TypeOK, Goto
    <3> QED
      BY <2>1, <2>2, <3>1
  <2> QED
    BY <2>3, <2>4
<1>7. ASSUME NEW c \in Calls, Finish(c) PROVE Fine
  BY <1>7 DEF Finish, AttemptsCounted, TypeOK, Goto, Fail, history
<1> QED
  BY <1>1, <1>2, <1>3, <1>4, <1>5, <1>6, <1>7 DEF Next, Step

\* The types and the counts together are inductive.
LEMMA ClientStarts == Init => TypeOK /\ AttemptsCounted
<1> SUFFICES ASSUME Init PROVE TypeOK /\ AttemptsCounted
  OBVIOUS
<1> USE PacingAssumption, HorizonFacts, AnswerFacts, AttemptsFacts
<1>1. TypeOK
  BY DEF Init, TypeOK, Labels
<1>2. AttemptsCounted
  <2>1. \A c \in Calls : attempt[c] = 1 /\ sent[c] = 0 /\ pc[c] = "idle"
    BY ZenonT(30) DEF Init
  <2>2. ASSUME NEW c \in Calls
        PROVE  /\ attempt[c] <= Attempts(c) /\ sent[c] <= attempt[c]
               /\ sent[c] < attempt[c] /\ pc[c] # "rest"
    <3>1. attempt[c] = 1 /\ sent[c] = 0 /\ pc[c] = "idle"
      BY <2>1
    <3>2. attempt[c] <= Attempts(c)
      BY <3>1, AttemptsFacts
    <3> QED
      BY <3>1, <3>2
  <2> QED
    BY ZenonT(30), <2>2 DEF AttemptsCounted
<1> QED
  BY <1>1, <1>2

LEMMA TypeAndCount == Spec => [](TypeOK /\ AttemptsCounted)
<1>1. TypeOK /\ AttemptsCounted /\ [Next]_vars => (TypeOK /\ AttemptsCounted)'
  BY TypeStep, AttemptsStep
<1> QED
  BY <1>1, ClientStarts, PTL DEF Spec

\* The type of every variable of the client, for any calls and delays.
THEOREM TypeCorrect == Spec => []TypeOK
BY TypeAndCount, PTL

\* A request that is not safe to repeat is sent at most once by a call of
\* post_json, and any other at most MaxAttempts times.
THEOREM NeverRepeated == Spec => []NotRepeated
<1>1. TypeOK /\ AttemptsCounted => NotRepeated
  <2> SUFFICES ASSUME TypeOK, AttemptsCounted, NEW c \in Calls PROVE sent[c] <= Attempts(c)
    BY ZenonT(30) DEF NotRepeated, Attempts
  <2>1. sent[c] \in Nat /\ attempt[c] \in Nat
    BY DEF TypeOK
  <2> QED
    BY <2>1, AttemptsFacts DEF AttemptsCounted
<1> QED
  BY <1>1, TypeAndCount, PTL

-----------------------------------------------------------------------------
\* A step of one call leaves the others where they are.
LEMMA OthersStay ==
    ASSUME TypeOK, NEW c \in Calls, Begin(c) \/ Cancelled(c) \/ Step(c),
           NEW d \in Calls, d # c
    PROVE  pc'[d] = pc[d] /\ wait'[d] = wait[d]
BY DEF TypeOK, Begin, Cancelled, Step, Try, Refused, Admitted, RevokedBeforePost, Post,
       Retry, Rested, Finish, Answered, Goto, Fail

\* Every step keeps the admission lock with the call that is paced or waits
\* for Ozon.
LEMMA OwnedStep == TypeOK /\ Owned /\ [Next]_vars => Owned'
<1> SUFFICES ASSUME TypeOK, Owned, [Next]_vars PROVE Owned'
  OBVIOUS
<1>1. CASE Tick \/ Transition \/ UNCHANGED vars
  BY <1>1 DEF Tick, Transition, vars, calls, Owned
<1>2. ASSUME NEW c \in Calls, Begin(c) \/ Cancelled(c) \/ Step(c) PROVE Owned'
  <2>1. CASE pc[c] \in {"paced", "sent"}
    <3>1. lock = c /\ \A d \in Calls : d # c => pc[d] \notin {"paced", "sent"}
      BY <2>1 DEF Owned
    <3>2. pc'[c] \in {"paced", "sent"} => lock' = c
      BY <1>2, <2>1, <3>1 DEF TypeOK, Begin, Cancelled, Step, Try, Refused, Admitted,
         RevokedBeforePost, Post, Retry, Rested, Finish, Answered, Goto, Fail,
         LockDuringTransport
    <3> QED
      BY <1>2, <3>1, <3>2, OthersStay DEF Owned
  <2>2. CASE pc[c] \notin {"paced", "sent"}
    <3>1. CASE Admitted(c)
      <4>1. \A d \in Calls : d # c => pc[d] \notin {"paced", "sent"}
        BY <3>1, CallsAssumption DEF Admitted, Owned
      <4> QED
        BY <1>2, <3>1, <4>1, OthersStay DEF Admitted, Owned
    <3>2. CASE ~Admitted(c)
      <4>1. pc'[c] \notin {"paced", "sent"}
        BY <1>2, <2>2, <3>2 DEF TypeOK, Begin, Cancelled, Step, Try, Refused,
           RevokedBeforePost, Post, Retry, Rested, Finish, Answered, Goto, Fail
      <4>2. \A d \in Calls : lock = d /\ d # c => lock' = d
        BY <1>2, <2>2, <3>2 DEF TypeOK, Begin, Cancelled, Step, Try, Refused,
           RevokedBeforePost, Post, Retry, Rested, Finish, Answered, Released
      <4> QED
        BY <1>2, <4>1, <4>2, OthersStay DEF Owned
    <3> QED
      BY <3>1, <3>2
  <2> QED
    BY <2>1, <2>2
<1> QED
  BY <1>1, <1>2 DEF Next

\* Every step keeps the limits ahead of what was promised.
LEMMA PacedStep == TypeOK /\ Owned /\ Paced /\ [Next]_vars => Paced'
<1> SUFFICES ASSUME TypeOK, Owned, Paced, [Next]_vars PROVE Paced'
  OBVIOUS
<1> USE PacingAssumption
<1>1. CASE Tick
  <2>1. /\ sinceAny' + nextRequest' >= Interval
        /\ sinceStock' + nextStock' >= StockInterval
    BY <1>1, HorizonFacts DEF Tick, Paced, TypeOK, Smaller, Elapsed
  <2>2. owed' <= cooldown'
    BY <1>1 DEF Tick, Paced, TypeOK, Elapsed
  <2>3. ASSUME NEW d \in Calls, pc'[d] = "paced"
        PROVE  /\ wait'[d] >= nextRequest' /\ wait'[d] >= cooldown'
               /\ d \in Stock => wait'[d] >= nextStock'
    <3>1. pc[d] = "paced" /\ wait'[d] = Elapsed(wait[d]) /\ wait[d] \in Nat
      BY <1>1, <2>3 DEF Tick, TypeOK
    <3>2. /\ wait[d] >= nextRequest /\ wait[d] >= cooldown
          /\ d \in Stock => wait[d] >= nextStock
      BY <3>1 DEF Paced
    <3>3. nextRequest \in Nat /\ nextStock \in Nat /\ cooldown \in Nat
      BY DEF TypeOK
    <3> QED
      BY <1>1, <3>1, <3>2, <3>3, TimeFacts DEF Tick
  <2> QED
    BY <2>1, <2>2, <2>3 DEF Paced
<1>2. CASE Transition \/ UNCHANGED vars
  BY <1>2 DEF Transition, vars, timers, calls, history, Paced
<1>3. ASSUME NEW c \in Calls, Begin(c) \/ Cancelled(c) \/ Try(c) \/ Refused(c)
                              \/ RevokedBeforePost(c) \/ Retry(c) \/ Rested(c) \/ Finish(c)
      PROVE  Paced'
  <2>1. UNCHANGED <<timers, sinceAny, sinceStock, owed>> /\ pc'[c] # "paced"
    BY <1>3 DEF TypeOK, Begin, Cancelled, Try, Refused, RevokedBeforePost, Retry, Rested,
       Finish, Goto, Fail, timers, history
  <2> QED
    BY <1>3, <2>1, OthersStay DEF Paced, timers, Step
<1>4. ASSUME NEW c \in Calls, Admitted(c) PROVE Paced'
  <2>1. UNCHANGED <<timers, history>> /\ wait'[c] = Allowed(c)
    BY <1>4 DEF Admitted, TypeOK
  <2>2. /\ Allowed(c) >= nextRequest /\ Allowed(c) >= cooldown
        /\ c \in Stock => Allowed(c) >= nextStock
    <3>1. nextRequest \in Nat /\ nextStock \in Nat /\ cooldown \in Nat
      BY DEF TypeOK
    <3>2. /\ Larger(nextRequest, cooldown) \in Nat
          /\ Larger(nextRequest, cooldown) >= nextRequest
          /\ Larger(nextRequest, cooldown) >= cooldown
      BY <3>1, TimeFacts
    <3> DEFINE other == IF c \in Stock THEN nextStock ELSE 0
    <3>3. other \in Nat /\ (c \in Stock => other = nextStock)
      BY <3>1
    <3>4. /\ Allowed(c) = Larger(Larger(nextRequest, cooldown), other)
          /\ Larger(Larger(nextRequest, cooldown), other) \in Nat
          /\ Larger(Larger(nextRequest, cooldown), other) >= Larger(nextRequest, cooldown)
          /\ Larger(Larger(nextRequest, cooldown), other) >= other
      BY <3>2, <3>3, TimeFacts DEF Allowed
    <3> HIDE DEF other
    <3> QED
      BY <3>1, <3>2, <3>3, <3>4
  <2> QED
    BY <1>4, <2>1, <2>2, OthersStay DEF Paced, timers, history, Step
<1>5. ASSUME NEW c \in Calls, Post(c) PROVE Paced'
  <2>1. \A d \in Calls : pc'[d] # "paced"
    <3>1. pc'[c] = "sent"
      BY <1>5 DEF Post, Goto, TypeOK
    <3>2. \A d \in Calls : d # c => pc[d] # "paced"
      BY <1>5 DEF Post, Owned
    <3> QED
      BY <1>5, <3>1, <3>2, OthersStay DEF Step
  <2>2. sinceAny' + nextRequest' >= Interval /\ sinceStock' + nextStock' >= StockInterval
    BY <1>5 DEF Post, PacedFrom, Paced, TypeOK
  <2> QED
    BY <1>5, <2>1, <2>2 DEF Post, Paced
<1>6. ASSUME NEW c \in Calls, NEW a \in Answer, Answered(c, a) PROVE Paced'
  <2>1. \A d \in Calls : pc'[d] # "paced"
    <3>1. pc'[c] = "answered"
      BY <1>6 DEF Answered, Goto, TypeOK
    <3>2. \A d \in Calls : d # c => pc[d] # "paced"
      BY <1>6 DEF Answered, Owned
    <3> QED
      BY <1>6, <3>1, <3>2, OthersStay DEF Step
  <2>2. owed' <= cooldown'
    <3>1. a.after \in Nat /\ LimitedDelay[attempt[c]] \in Nat
      BY AnswerFacts DEF TypeOK
    <3>2. owed \in Nat /\ cooldown \in Nat /\ owed <= cooldown
      BY DEF TypeOK, Paced
    <3>3. CASE a.kind = "limited"
      BY SMTT(30), <1>6, <3>1, <3>2, <3>3 DEF Answered, Larger
    <3>4. CASE a.kind # "limited"
      BY <1>6, <3>2, <3>4 DEF Answered
    <3> QED
      BY <3>3, <3>4
  <2> QED
    BY <1>6, <2>1, <2>2 DEF Answered, Paced
<1> QED
  BY <1>1, <1>2, <1>3, <1>4, <1>5, <1>6 DEF Next, Step

\* The lock discipline and the limits hold together with the types.
LEMMA Disciplined == Spec => [](TypeOK /\ Owned /\ Paced)
<1>1. Init => Owned /\ Paced
  <2> SUFFICES ASSUME Init PROVE Owned /\ Paced
    OBVIOUS
  <2>1. \A c \in Calls : pc[c] = "idle"
    BY ZenonT(30) DEF Init
  <2>2. sinceAny = Horizon /\ sinceStock = Horizon /\ owed = 0 /\ cooldown = 0
        /\ nextRequest = 0 /\ nextStock = 0
    BY DEF Init
  <2> QED
    BY <2>1, <2>2, HorizonFacts, PacingAssumption DEF Owned, Paced
<1>2. TypeOK /\ Owned /\ Paced /\ [Next]_vars => (Owned /\ Paced)'
  BY OwnedStep, PacedStep
<1> QED
  BY <1>1, <1>2, TypeCorrect, PTL DEF Spec

\* A POST leaves when its call has slept: then every limit has passed.
LEMMA PostAllowed ==
    ASSUME TypeOK, Paced, [Next]_vars, NEW c \in Calls, Posting(c)
    PROVE  IntervalsPassed(c) /\ owed = 0
<1>1. wait[c] = 0
  BY DEF Posting, Next, Tick, Transition, vars, calls, Begin, Cancelled, Step, Try, Refused,
     Admitted, RevokedBeforePost, Post, Retry, Rested, Finish, Answered, Goto, Fail, TypeOK
<1>2. /\ wait[c] >= nextRequest /\ wait[c] >= cooldown
      /\ c \in Stock => wait[c] >= nextStock
  BY DEF Posting, Paced
<1>3. nextRequest = 0 /\ cooldown = 0 /\ (c \in Stock => nextStock = 0)
  BY <1>1, <1>2 DEF TypeOK
<1> QED
  BY <1>3, PacingAssumption DEF Paced, TypeOK, IntervalsPassed

\* Two POSTs are never closer than the interval, nor two stock POSTs than
\* theirs, for any number of threads, delays and session changes.
THEOREM IntervalsAlwaysKept == Spec => IntervalsKept
<1>1. TypeOK /\ Paced /\ [Next]_vars =>
        [\A c \in Calls : Posting(c) => IntervalsPassed(c)]_vars
  BY PostAllowed
<1> QED
  BY <1>1, Disciplined, PTL DEF Spec, IntervalsKept

\* No POST leaves within the time that Ozon asked every client to wait.
THEOREM CooldownAlwaysKept == Spec => CooldownKept
<1>1. TypeOK /\ Paced /\ [Next]_vars => [\A c \in Calls : Posting(c) => owed = 0]_vars
  BY PostAllowed
<1> QED
  BY <1>1, Disciplined, PTL DEF Spec, CooldownKept

-----------------------------------------------------------------------------
(* PriceEnrichment.  All that a cancelled worker may still do is end,      *)
(* because it compares its number with the generation.  So the prices      *)
(* belong to the account and the rows of whoever was started last          *)
(* (InContext), and that worker, as long as it runs, works for the evidence*)
(* shown now (InStep): it holds the requests that are still to be made, and*)
(* answers are published one after the other, each once.                   *)

\* While something is published, the prices known are those of its source.
InContext ==
    published # NoContext =>
        /\ priceContext = published.source.account
        /\ \A p \in prices : p.key \in published.source.keys

\* The worker of the present generation works for what is published.
InStep ==
    \A g \in Generations : g = generation /\ worker[g] # NoWorker =>
        LET w == worker[g]
        IN  /\ published \in PriceEvidence
            /\ published.source = w.source /\ published.total = w.total
            /\ w.index <= w.total /\ Len(queue) = w.total - w.index
            /\ \A i \in 1..Len(queue) : queue[i] \in w.source.keys
            /\ published.completed <= w.index
            /\ w.pc = "take" => w.index < w.total
            /\ w.pc \in {"read", "publish"} =>
                   w.request \in w.source.keys /\ published.completed < w.index

PricesInv ==
    /\ PricesTypeOK
    /\ InContext /\ InStep
    /\ PricesOfAccount /\ SettledIsComplete

-----------------------------------------------------------------------------
(* Lemmas about the operators.                                             *)

\* Requests are asked for in some order, each price of the rows once.
LEMMA RequestsFacts ==
    ASSUME NEW S \in SUBSET PriceKeys, NEW q \in Requests(S)
    PROVE  /\ q \in Seq(PriceKeys) /\ Len(q) \in Nat
           /\ \A i \in 1..Len(q) : q[i] \in S
<1>1. IsFiniteSet(S) /\ Cardinality(S) \in Nat
  BY PriceAssumption, FS_Subset, FS_CardinalityType
<1>2. q \in [1..Cardinality(S) -> S]
  BY DEF Requests, SetToSeqs
<1>3. q \in Seq(S)
  BY <1>1, <1>2, SeqDef
<1>4. q \in Seq(PriceKeys)
  BY <1>1, <1>2, SeqDef
<1> QED
  BY <1>3, <1>4, LenProperties, ElementOfSeq

\* Sorting the queue keeps its length and asks for nothing else.
Reordered(order) == [i \in DOMAIN queue |-> queue[order[i]]]

LEMMA PrioritizedFacts ==
    ASSUME queue \in Seq(PriceKeys), NEW order \in Bijection(DOMAIN queue, DOMAIN queue),
           NEW q, q = Reordered(order)
    PROVE  /\ q \in Seq(PriceKeys) /\ Len(q) = Len(queue)
           /\ \A i \in 1..Len(q) : \E j \in 1..Len(queue) : q[i] = queue[j]
<1>1. DOMAIN queue = 1..Len(queue) /\ Len(queue) \in Nat
  BY LenProperties
<1>2. \A i \in 1..Len(queue) : queue[i] \in PriceKeys
  BY ElementOfSeq
<1>3. \A i \in 1..Len(queue) : order[i] \in 1..Len(queue)
  BY <1>1 DEF Bijection, Injection
<1>4. q \in [1..Len(queue) -> PriceKeys]
  BY <1>1, <1>2, <1>3 DEF Reordered
<1>5. q \in Seq(PriceKeys) /\ Len(q) = Len(queue)
  <2>1. q \in Seq(PriceKeys)
    BY <1>1, <1>4, SeqDef
  <2>2. DOMAIN q = 1..Len(queue) /\ DOMAIN q = 1..Len(q) /\ Len(q) \in Nat
    BY <1>4, <2>1, LenProperties
  <2> QED
    BY <1>1, <2>1, <2>2
<1> QED
  BY <1>1, <1>3, <1>5 DEF Reordered

\* The request taken is one of the queue; the others stay in it.
LEMMA TakenFacts ==
    ASSUME queue \in Seq(PriceKeys), Len(queue) > 0
    PROVE  /\ Head(queue) = queue[1] /\ Head(queue) \in PriceKeys
           /\ Tail(queue) \in Seq(PriceKeys) /\ Len(Tail(queue)) = Len(queue) - 1
           /\ \A i \in 1..Len(Tail(queue)) : \E j \in 1..Len(queue) : Tail(queue)[i] = queue[j]
<1>1. queue # <<>> /\ Len(queue) \in Nat
  BY LenProperties
<1>2. /\ Head(queue) = queue[1] /\ Tail(queue) \in Seq(PriceKeys)
      /\ Len(Tail(queue)) = Len(queue) - 1
      /\ \A i \in 1..Len(Tail(queue)) : Tail(queue)[i] = queue[i + 1]
  BY <1>1, HeadTailProperties
<1>3. Head(queue) \in PriceKeys
  BY <1>1, <1>2, ElementOfSeq
<1>4. \A i \in 1..Len(Tail(queue)) : i + 1 \in 1..Len(queue)
  BY <1>1, <1>2
<1> QED
  BY <1>2, <1>3, <1>4

\* What a source starts with: prices of its account and of its rows.
LEMMA KeptFacts ==
    ASSUME PricesTypeOK, PricesOfAccount, NEW source \in Source, NEW reset
    PROVE  /\ Kept(source, reset) \subseteq Price
           /\ \A p \in Kept(source, reset) :
                 p.account = source.account /\ p.key \in source.keys
BY DEF Kept, PricesTypeOK, PricesOfAccount

-----------------------------------------------------------------------------
(* The steps.                                                              *)

\* The evidence that replaces p, if any, differs in what does not matter here.
Touched(p, e) ==
    \/ e = p
    \/ /\ p \in PriceEvidence /\ e \in PriceEvidence
       /\ e.source = p.source /\ e.prices = p.prices /\ e.persistFailed = p.persistFailed
       /\ e.completed = p.completed /\ e.total = p.total

\* A step that stores and saves no price.
LEMMA PricesStay ==
    ASSUME PricesInv, UNCHANGED <<priceContext, prices, file>>, Touched(published, published')
    PROVE  /\ InContext' /\ PricesOfAccount' /\ SettledIsComplete'
           /\ published' \in PriceEvidence \cup {NoContext}
<1>1. CASE published' = published
  BY <1>1 DEF PricesInv, PricesTypeOK, InContext, PricesOfAccount, SettledIsComplete
<1>2. CASE /\ published \in PriceEvidence /\ published' \in PriceEvidence
           /\ published'.source = published.source /\ published'.prices = published.prices
           /\ published'.persistFailed = published.persistFailed
           /\ published'.completed = published.completed
           /\ published'.total = published.total
  <2>1. CASE published = NoContext
    BY <1>2, <2>1, NothingAssumption
  <2>2. CASE published # NoContext
    BY <1>2, <2>2 DEF PricesInv, InContext, PricesOfAccount, SettledIsComplete
  <2> QED
    BY <2>1, <2>2
<1> QED
  BY <1>1, <1>2 DEF Touched

\* A step after which the worker of the present generation is where it was, or
\* past its requests, works as before for the evidence.
LEMMA InStepStays ==
    ASSUME PricesInv, UNCHANGED <<generation, queue>>, Touched(published, published'),
           NEW g \in Generations, NEW w,
           worker' = [worker EXCEPT ![g] = w], worker[g] # NoWorker,
           \/ w = NoWorker
           \/ /\ w.source = worker[g].source /\ w.total = worker[g].total
              /\ w.index = worker[g].index /\ w.request = worker[g].request
              /\ w.pc = "take" => w.index < w.total
              /\ w.pc \in {"read", "publish"} => worker[g].pc \in {"read", "publish"}
    PROVE  InStep'
<1> SUFFICES ASSUME NEW h \in Generations, h = generation, worker'[h] # NoWorker
             PROVE  LET u == worker'[h]
                    IN  /\ published' \in PriceEvidence
                        /\ published'.source = u.source /\ published'.total = u.total
                        /\ u.index <= u.total /\ Len(queue) = u.total - u.index
                        /\ \A i \in 1..Len(queue) : queue[i] \in u.source.keys
                        /\ published'.completed <= u.index
                        /\ u.pc = "take" => u.index < u.total
                        /\ u.pc \in {"read", "publish"} =>
                               u.request \in u.source.keys /\ published'.completed < u.index
  BY DEF InStep
<1>1. \A k \in Generations : worker'[k] = IF k = g THEN w ELSE worker[k]
  BY DEF PricesInv, PricesTypeOK
<1>2. worker[h] # NoWorker
  BY <1>1
<1>3. /\ published \in PriceEvidence
      /\ published.source = worker[h].source /\ published.total = worker[h].total
      /\ worker[h].index <= worker[h].total /\ Len(queue) = worker[h].total - worker[h].index
      /\ \A i \in 1..Len(queue) : queue[i] \in worker[h].source.keys
      /\ published.completed <= worker[h].index
      /\ worker[h].pc = "take" => worker[h].index < worker[h].total
      /\ worker[h].pc \in {"read", "publish"} =>
             worker[h].request \in worker[h].source.keys /\ published.completed < worker[h].index
  BY <1>2 DEF PricesInv, InStep
<1>4. /\ published' \in PriceEvidence
      /\ published'.source = published.source /\ published'.total = published.total
      /\ published'.completed = published.completed
  BY <1>3 DEF Touched
<1>5. CASE h = g
  BY <1>1, <1>3, <1>4, <1>5
<1>6. CASE h # g
  BY <1>1, <1>3, <1>4, <1>6
<1> QED
  BY <1>5, <1>6

\* A step after which no worker has the number of the present generation.
LEMMA NobodyInStep ==
    ASSUME PricesInv, generation' = generation + 1, worker' = worker
    PROVE  InStep'
<1>1. generation \in Nat /\ \A g \in Generations : g \in Nat
  BY PriceAssumption DEF PricesInv, PricesTypeOK, Generations
<1>2. \A g \in Generations : worker[g] # NoWorker => g # generation + 1
  BY <1>1 DEF PricesInv, PricesTypeOK
<1> QED
  BY <1>2 DEF InStep

\* Cancelling touches nothing but the number and the pending flag.
LEMMA CancelFacts ==
    ASSUME PricesInv, Cancel
    PROVE  /\ generation' = generation + 1 /\ generation' \in 0..MaxGenerations
           /\ Touched(published, published')
           /\ UNCHANGED <<priceContext, prices, queue>>
<1>1. published # NoContext =>
        /\ published \in PriceEvidence
        /\ [published EXCEPT !.pending = FALSE] \in PriceEvidence
  BY DEF PricesInv, PricesTypeOK, PriceEvidence
<1>2. Touched(published, published')
  BY <1>1 DEF Cancel, Touched, PriceEvidence
<1> QED
  BY <1>2, PriceAssumption DEF Cancel, PricesInv, PricesTypeOK

LEMMA BeginStep ==
    ASSUME PricesInv, NEW full \in BOOLEAN, BeginRefresh(full)
    PROVE  PricesInv'
<1>1. /\ generation' = generation + 1 /\ generation' \in 0..MaxGenerations
      /\ Touched(published, published') /\ generation \in Nat
      /\ UNCHANGED <<priceContext, prices, queue, owner, shown, file, worker>>
  BY CancelFacts DEF BeginRefresh, PricesInv, PricesTypeOK
<1>2. /\ InContext' /\ PricesOfAccount' /\ SettledIsComplete'
      /\ published' \in PriceEvidence \cup {NoContext}
  BY <1>1, PricesStay
<1>3. InStep'
  BY <1>1, NobodyInStep
<1>4. refresh' \in Refreshes
  BY DEF BeginRefresh, Refreshes, Reusable, PricesInv, PricesTypeOK
<1>5. \A g \in Generations : worker'[g] # NoWorker => g <= generation'
  BY <1>1 DEF PricesInv, PricesTypeOK, Generations
<1>6. PricesTypeOK'
  BY <1>1, <1>2, <1>4, <1>5 DEF PricesInv, PricesTypeOK
<1> QED
  BY <1>2, <1>3, <1>6 DEF PricesInv

\* A worker as start makes it.
Started(source, unlock, total) ==
    [NoWorker EXCEPT !.pc = "check", !.source = source, !.session = unlock, !.total = total]

LEMMA StartedFacts ==
    ASSUME NEW source \in Source, NEW unlock \in 0..MaxUnlocks, NEW total \in Nat,
           NEW w, w = Started(source, unlock, total)
    PROVE  /\ w \in Threads
           /\ w.source = source /\ w.total = total /\ w.index = 0 /\ w.pc = "check"
<1>1. 0 \in 0..BlockAfter
  BY PriceAssumption
<1>2. NoWorker \in [pc : {"none"}, source : {NoContext}, session : {0}, index : {0}, total : {0},
                   request : {NoContext}, failed : {FALSE}, streak : {0}]
  BY DEF NoWorker
<1>3. w \in [pc : {"check"}, source : {source}, session : {unlock}, index : {0},
             total : {total}, request : {NoContext}, failed : {FALSE}, streak : {0}]
  BY <1>2 DEF Started
<1>4. /\ w.pc = "check" /\ w.source = source /\ w.session = unlock /\ w.index = 0
      /\ w.total = total /\ w.request = NoContext /\ w.failed = FALSE /\ w.streak = 0
  BY <1>3
<1>5. w.session \in 0..MaxUnlocks /\ w.streak \in 0..BlockAfter
  <2>1. w.session \in 0..MaxUnlocks
    BY <1>4
  <2>2. w.streak \in 0..BlockAfter
    BY <1>1, <1>4
  <2> QED
    BY <2>1, <2>2
<1>6. w = [pc |-> w.pc, source |-> w.source, session |-> w.session, index |-> w.index,
           total |-> w.total, request |-> w.request, failed |-> w.failed, streak |-> w.streak]
  BY <1>3
<1>7. /\ w.index \in Nat /\ w.total \in Nat /\ w.request \in PriceKeys \cup {NoContext}
      /\ w.failed \in BOOLEAN
  <2>1. w.index \in Nat /\ w.total \in Nat
    BY <1>4
  <2>2. w.request \in PriceKeys \cup {NoContext} /\ w.failed \in BOOLEAN
    BY <1>4
  <2> QED
    BY <2>1, <2>2
<1>8. w \in Threads
  BY <1>4, <1>5, <1>6, <1>7 DEF Threads
<1> QED
  BY <1>4, <1>8

LEMMA CommitStep ==
    ASSUME PricesInv, NEW keys \in SourceKeys, CommitRefresh(keys)
    PROVE  PricesInv'
<1> DEFINE source == [id |-> generation + 1, account |-> refresh.account, keys |-> keys]
           known == {p.key : p \in refresh.have}
           run == generation + 1
           spared == Kept(source, refresh.full)
<1>1. /\ refresh \in Refreshes /\ generation \in Nat
      /\ published \in PriceEvidence \cup {NoContext}
  BY DEF CommitRefresh, PricesInv, PricesTypeOK, Idle
<1>2. PICK requests \in Requests(keys \ known) :
        Start(source, requests, refresh.full, refresh.session)
  BY DEF CommitRefresh
<1>3. shown' = source /\ refresh' = Idle /\ UNCHANGED <<owner, file>>
  BY DEF CommitRefresh
<1> DEFINE w == Started(source, refresh.session, Len(requests))
<1>4. /\ run \in Generations /\ generation' = run /\ priceContext' = source.account
      /\ prices' = spared /\ queue' = requests
      /\ published' = [source |-> source, prices |-> spared, completed |-> 0,
                       total |-> Len(requests), pending |-> requests # <<>>,
                       failures |-> FALSE, persistFailed |-> FALSE]
      /\ worker' = [worker EXCEPT ![run] = w]
  BY <1>1, <1>2, PriceAssumption DEF Start, Started, Generations
<1>5. keys \in SUBSET PriceKeys /\ refresh.account \in PriceAccounts
  BY <1>1, PriceAssumption DEF Refreshes
<1>6. /\ requests \in Seq(PriceKeys) /\ Len(requests) \in Nat
      /\ \A i \in 1..Len(requests) : requests[i] \in keys
  BY <1>5, RequestsFacts
<1>7. source \in Source
  BY <1>4, <1>5 DEF Source
<1>8. spared \subseteq Price /\ \A p \in spared : p.account = source.account /\ p.key \in source.keys
  BY <1>7, KeptFacts DEF PricesInv
<1>9. published' \in PriceEvidence
  BY <1>4, <1>6, <1>7, <1>8 DEF PriceEvidence
<1>10. /\ published'.source = source /\ published'.prices = spared /\ published'.completed = 0
       /\ published'.total = Len(requests) /\ published'.persistFailed = FALSE
  BY <1>4
<1>11. /\ w \in Threads /\ w.source = source /\ w.total = Len(requests) /\ w.index = 0
       /\ w.pc = "check"
  <2>1. refresh.session \in 0..MaxUnlocks
    BY <1>1 DEF Refreshes
  <2> HIDE DEF source
  <2>2. w = Started(source, refresh.session, Len(requests))
    OBVIOUS
  <2> HIDE DEF w
  <2> QED
    BY <1>6, <1>7, <2>1, <2>2, StartedFacts
<1>12. source.account \in PriceAccounts /\ source.keys = keys
  BY <1>5
<1> HIDE DEF source, known, run, spared, w
<1>13. InContext' /\ PricesOfAccount'
  BY <1>3, <1>4, <1>8, <1>10 DEF InContext, PricesOfAccount, PricesInv
<1>14. SettledIsComplete'
  BY <1>4, <1>6, <1>10 DEF SettledIsComplete
<1>15. \A g \in Generations : worker'[g] = IF g = run THEN w ELSE worker[g]
  BY <1>4 DEF PricesInv, PricesTypeOK
<1>16. InStep'
  <2>1. 0 <= Len(requests) /\ Len(requests) = Len(requests) - 0
    BY <1>6
  <2> QED
    BY <1>4, <1>6, <1>9, <1>10, <1>11, <1>12, <1>15, <2>1 DEF InStep
<1>17. PricesTypeOK'
  <2>1. \A g \in Generations : worker'[g] # NoWorker => g <= generation'
    BY <1>1, <1>4, <1>15 DEF PricesInv, PricesTypeOK, Generations, run
  <2>2. worker' \in [Generations -> Threads \cup {NoWorker}]
    BY <1>4, <1>11 DEF PricesInv, PricesTypeOK
  <2>3. generation' \in 0..MaxGenerations
    BY <1>4 DEF Generations
  <2>4. prices' \subseteq Price /\ shown' \in Source /\ priceContext' \in PriceAccounts
    BY <1>3, <1>4, <1>7, <1>8, <1>12
  <2> QED
    BY <1>3, <1>4, <1>6, <1>9, <2>1, <2>2, <2>3, <2>4 DEF PricesInv, PricesTypeOK
<1> QED
  BY <1>13, <1>14, <1>16, <1>17 DEF PricesInv

\* A step of the thread that ends it, or moves it on without an answer.
LEMMA QuietStep ==
    ASSUME PricesInv, NEW g \in Generations,
           WorkCheck(g) \/ ReadAnswered(g) \/ ReadFailed(g) \/ ReadRevoked(g)
             \/ WorkRaised(g) \/ WorkFinish(g)
    PROVE  PricesInv'
<1> USE PriceAssumption
<1>1. /\ worker[g] \in Threads \cup {NoWorker} /\ worker[g] # NoWorker
      /\ worker[g].pc # "none"
  BY DEF WorkCheck, ReadAnswered, ReadFailed, ReadRevoked, WorkRaised, WorkFinish,
         PricesInv, PricesTypeOK, NoWorker
<1>2. worker[g] \in Threads
  BY <1>1
<1>3. UNCHANGED <<owner, shown, generation, priceContext, prices, queue, file, refresh>>
  BY DEF WorkCheck, ReadAnswered, ReadFailed, ReadRevoked, WorkRaised, WorkFinish, priceStore
<1>4. Touched(published, published')
  <2>1. CASE published' = published
    BY <2>1 DEF Touched
  <2>2. CASE published' # published
    <3>1. g = generation
      BY <2>2 DEF WorkCheck, ReadAnswered, ReadFailed, ReadRevoked, WorkRaised, WorkFinish,
         Settle, priceStore
    <3>2. published \in PriceEvidence
      BY <1>1, <3>1 DEF PricesInv, InStep
    <3>3. published' = [published EXCEPT !.pending = FALSE]
            \/ published' = [published EXCEPT !.pending = FALSE, !.failures = TRUE]
      BY <2>2, <3>1 DEF WorkCheck, ReadAnswered, ReadFailed, ReadRevoked, WorkRaised, WorkFinish,
         Settle, priceStore
    <3> QED
      BY <3>2, <3>3 DEF Touched, PriceEvidence
  <2> QED
    BY <2>1, <2>2
<1>5. PICK w \in Threads \cup {NoWorker} :
        /\ worker' = [worker EXCEPT ![g] = w]
        /\ \/ w = NoWorker
           \/ /\ w.source = worker[g].source /\ w.total = worker[g].total
              /\ w.index = worker[g].index /\ w.request = worker[g].request
              /\ w.pc = "take" => w.index < w.total
              /\ w.pc \in {"read", "publish"} => worker[g].pc \in {"read", "publish"}
  <2>1. CASE WorkFinish(g)
    BY <2>1 DEF WorkFinish
  <2>2. CASE WorkCheck(g)
    <3> DEFINE c == worker[g].index < worker[g].total /\ g = generation /\ WorkerCurrent(g)
               w == [worker[g] EXCEPT !.pc = IF c THEN "take" ELSE "finish"]
    <3>1. w \in Threads
      BY <1>2 DEF Threads
    <3>2. worker' = [worker EXCEPT ![g] = w]
      BY <2>2 DEF WorkCheck, WorkerAt
    <3>3. /\ w.source = worker[g].source /\ w.total = worker[g].total
          /\ w.index = worker[g].index /\ w.request = worker[g].request
          /\ w.pc = "take" => w.index < w.total
          /\ w.pc \in {"take", "finish"}
      BY <1>2 DEF Threads
    <3> QED
      BY <3>1, <3>2, <3>3
  <2>3. CASE ReadRevoked(g) \/ WorkRaised(g)
    <3>1. PICK label \in {"raised", "finish"} :
            worker' = [worker EXCEPT ![g] = [worker[g] EXCEPT !.pc = label]]
      BY <2>3 DEF ReadRevoked, WorkRaised, WorkerAt
    <3> DEFINE w == [worker[g] EXCEPT !.pc = label]
    <3>2. /\ w \in Threads /\ w.source = worker[g].source /\ w.total = worker[g].total
          /\ w.index = worker[g].index /\ w.request = worker[g].request /\ w.pc = label
      BY <1>2 DEF Threads
    <3> QED
      BY <3>1, <3>2
  <2>4. CASE ReadAnswered(g) \/ ReadFailed(g)
    <3>1. worker[g].pc = "read"
      BY <2>4 DEF ReadAnswered, ReadFailed
    <3>2. PICK failed \in BOOLEAN, streak \in 0..BlockAfter :
            worker' = [worker EXCEPT ![g] = [worker[g] EXCEPT !.pc = "publish", !.failed = failed,
                                                              !.streak = streak]]
      <4>1. CASE ReadAnswered(g)
        <5>1. worker' = [worker EXCEPT ![g] = [worker[g] EXCEPT !.pc = "publish",
                                                               !.failed = FALSE, !.streak = 0]]
          BY <4>1 DEF ReadAnswered
        <5>2. 0 \in 0..BlockAfter
          OBVIOUS
        <5> QED
          BY ZenonT(30), <5>1, <5>2
      <4>2. CASE ReadFailed(g)
        <5>1. worker[g].streak \in 0..BlockAfter
          BY <1>2 DEF Threads
        <5>2. \A s \in IF worker[g].streak < BlockAfter
                        THEN {worker[g].streak + 1, BlockAfter} ELSE {BlockAfter} :
                s \in 0..BlockAfter
          BY <5>1
        <5> QED
          BY ZenonT(30), <4>2, <5>2 DEF ReadFailed
      <4> QED
        BY ZenonT(30), <2>4, <4>1, <4>2
    <3> DEFINE w == [worker[g] EXCEPT !.pc = "publish", !.failed = failed, !.streak = streak]
    <3>3. /\ w \in Threads /\ w.source = worker[g].source /\ w.total = worker[g].total
          /\ w.index = worker[g].index /\ w.request = worker[g].request /\ w.pc = "publish"
      BY <1>2 DEF Threads
    <3> QED
      BY <3>1, <3>2, <3>3
  <2> QED
    BY <2>1, <2>2, <2>3, <2>4
<1>6. InStep'
  BY <1>1, <1>3, <1>4, <1>5, InStepStays
<1>7. /\ InContext' /\ PricesOfAccount' /\ SettledIsComplete'
      /\ published' \in PriceEvidence \cup {NoContext}
  BY <1>3, <1>4, PricesStay
<1>8. PricesTypeOK'
  BY <1>1, <1>3, <1>5, <1>7 DEF PricesInv, PricesTypeOK
<1> QED
  BY <1>6, <1>7, <1>8 DEF PricesInv

\* The thread takes the next request, unless it was cancelled.
LEMMA TakeStep ==
    ASSUME PricesInv, NEW g \in Generations, WorkTake(g)
    PROVE  PricesInv'
<1>1. UNCHANGED <<owner, shown, generation, published, priceContext, prices, file, refresh>>
  BY DEF WorkTake
<1>2. /\ worker[g] \in Threads \cup {NoWorker} /\ worker[g] # NoWorker
  BY DEF WorkTake, PricesInv, PricesTypeOK, NoWorker
<1>3. worker[g] \in Threads
  BY <1>2
<1>4. Touched(published, published')
  BY <1>1 DEF Touched
<1>5. /\ InContext' /\ PricesOfAccount' /\ SettledIsComplete'
  BY <1>1, <1>4, PricesStay
<1>6. CASE g # generation
  <2> DEFINE w == [worker[g] EXCEPT !.pc = "finish"]
  <2>1. worker' = [worker EXCEPT ![g] = w] /\ UNCHANGED queue
    BY <1>6 DEF WorkTake, WorkerAt
  <2>2. /\ w \in Threads /\ w.source = worker[g].source /\ w.total = worker[g].total
        /\ w.index = worker[g].index /\ w.request = worker[g].request /\ w.pc = "finish"
    BY <1>3 DEF Threads
  <2>3. InStep'
    BY <1>1, <1>2, <1>4, <2>1, <2>2, InStepStays
  <2>4. PricesTypeOK'
    BY <1>1, <1>2, <2>1, <2>2 DEF PricesInv, PricesTypeOK
  <2> QED
    BY <1>5, <2>3, <2>4 DEF PricesInv
<1>7. CASE g = generation
  <2> DEFINE w == [worker[g] EXCEPT !.pc = "read", !.request = Head(queue), !.index = @ + 1]
  <2>1. worker' = [worker EXCEPT ![g] = w] /\ queue' = Tail(queue)
    BY ZenonT(30), <1>7 DEF WorkTake
  <2>2. /\ published \in PriceEvidence
        /\ published.source = worker[g].source /\ published.total = worker[g].total
        /\ worker[g].index < worker[g].total /\ Len(queue) = worker[g].total - worker[g].index
        /\ \A i \in 1..Len(queue) : queue[i] \in worker[g].source.keys
        /\ published.completed <= worker[g].index
    BY <1>2, <1>7 DEF PricesInv, InStep, WorkTake
  <2>3. worker[g].index \in Nat /\ worker[g].total \in Nat /\ published.completed \in Nat
    BY <1>3, <2>2 DEF Threads, PriceEvidence
  <2>4. queue \in Seq(PriceKeys) /\ Len(queue) > 0 /\ 1 \in 1..Len(queue)
    BY <2>2, <2>3 DEF PricesInv, PricesTypeOK
  <2>5. /\ Head(queue) = queue[1] /\ Head(queue) \in PriceKeys
        /\ Tail(queue) \in Seq(PriceKeys) /\ Len(Tail(queue)) = Len(queue) - 1
        /\ \A i \in 1..Len(Tail(queue)) : \E j \in 1..Len(queue) : Tail(queue)[i] = queue[j]
    BY <2>4, TakenFacts
  <2>6. /\ w \in Threads /\ w.source = worker[g].source /\ w.total = worker[g].total
        /\ w.index = worker[g].index + 1 /\ w.request = Head(queue) /\ w.pc = "read"
    <3>1. /\ worker[g].index + 1 \in Nat
          /\ Head(queue) \in PriceKeys \cup {NoContext}
      BY <1>3, <2>3, <2>5 DEF Threads
    <3> DEFINE next == Head(queue)
               index == worker[g].index + 1
    <3>2. index \in Nat /\ next \in PriceKeys \cup {NoContext}
      BY <3>1
    <3>3. w = [worker[g] EXCEPT !.pc = "read", !.request = next, !.index = index]
      OBVIOUS
    <3> HIDE DEF next, index
    <3>4. /\ w \in Threads /\ w.source = worker[g].source /\ w.total = worker[g].total
          /\ w.index = index /\ w.request = next /\ w.pc = "read"
      BY ZenonT(30), <1>3, <3>2, <3>3 DEF Threads
    <3> QED
      BY <3>4 DEF next, index
  <2> HIDE DEF w
  <2>7. \A h \in Generations : worker'[h] = IF h = g THEN w ELSE worker[h]
    BY <2>1 DEF PricesInv, PricesTypeOK
  <2>8. /\ w.index <= w.total /\ Len(queue') = w.total - w.index
        /\ published.completed < w.index
    BY SMTT(30), <2>1, <2>2, <2>3, <2>5, <2>6
  <2>9. /\ \A i \in 1..Len(queue') : queue'[i] \in w.source.keys
        /\ w.request \in w.source.keys
    BY <2>1, <2>2, <2>4, <2>5, <2>6
  <2>10. published.completed <= w.index
    BY <2>3, <2>6, <2>8
  <2>11. InStep'
    BY <1>1, <1>7, <2>2, <2>6, <2>7, <2>8, <2>9, <2>10 DEF InStep
  <2>12. PricesTypeOK'
    BY <1>1, <1>2, <2>1, <2>5, <2>6 DEF PricesInv, PricesTypeOK
  <2> QED
    BY <1>5, <2>11, <2>12 DEF PricesInv
<1> QED
  BY <1>6, <1>7

\* Nothing but the session of the vault, or the refresh under way, changed.
LEMMA AsideStep ==
    ASSUME PricesInv, EndRefresh \/ LockOrUnlock
    PROVE  PricesInv'
<1>1. UNCHANGED <<shown, generation, published, priceContext, prices, queue, file, worker>>
  BY DEF EndRefresh, LockOrUnlock, priceStore
<1>2. InContext' /\ InStep' /\ PricesOfAccount' /\ SettledIsComplete'
  BY <1>1 DEF PricesInv, InContext, InStep, PricesOfAccount, SettledIsComplete
<1>3. /\ owner' \in [account : PriceAccounts, session : 0..MaxUnlocks, unlocked : BOOLEAN]
      /\ refresh' \in Refreshes \cup {Idle}
  <2>1. CASE EndRefresh
    BY <2>1 DEF EndRefresh, PricesInv, PricesTypeOK
  <2>2. CASE LockOrUnlock
    <3>1. /\ owner \in [account : PriceAccounts, session : 0..MaxUnlocks, unlocked : BOOLEAN]
          /\ refresh \in Refreshes \cup {Idle}
      BY DEF PricesInv, PricesTypeOK
    <3>2. owner.session < MaxUnlocks /\ owner.session \in 0..MaxUnlocks
      BY <2>2, <3>1 DEF LockOrUnlock
    <3>3. owner.session + 1 \in 0..MaxUnlocks /\ (~owner.unlocked) \in BOOLEAN
      BY <3>2, PriceAssumption
    <3>4. /\ owner' = [owner EXCEPT !.session = owner.session + 1, !.unlocked = ~owner.unlocked]
          /\ refresh' = refresh
      BY <2>2 DEF LockOrUnlock
    <3> QED
      BY <3>1, <3>3, <3>4
  <2> QED
    BY <2>1, <2>2
<1>4. PricesTypeOK'
  BY <1>1, <1>3 DEF PricesInv, PricesTypeOK
<1> QED
  BY <1>2, <1>4 DEF PricesInv

LEMMA PrioritizeStep ==
    ASSUME PricesInv, NEW wanted \in SUBSET PriceKeys, Prioritize(wanted)
    PROVE  PricesInv'
<1>1. UNCHANGED <<owner, shown, generation, published, priceContext, prices, file, worker,
                  refresh>>
  BY DEF Prioritize
<1>2. InContext' /\ PricesOfAccount' /\ SettledIsComplete'
  BY <1>1 DEF PricesInv, InContext, PricesOfAccount, SettledIsComplete
<1>3. PICK order \in Bijection(DOMAIN queue, DOMAIN queue) :
        queue' = Reordered(order)
  BY DEF Prioritize, Reordered
<1>4. queue \in Seq(PriceKeys)
  BY DEF PricesInv, PricesTypeOK
<1>5. /\ queue' \in Seq(PriceKeys) /\ Len(queue') = Len(queue)
      /\ \A i \in 1..Len(queue') : \E j \in 1..Len(queue) : queue'[i] = queue[j]
  BY <1>3, <1>4, PrioritizedFacts
<1>6. InStep'
  BY <1>1, <1>5 DEF PricesInv, InStep
<1>7. PricesTypeOK'
  BY <1>1, <1>5 DEF PricesInv, PricesTypeOK
<1> QED
  BY <1>2, <1>6, <1>7 DEF PricesInv

LEMMA ReplaceStep ==
    ASSUME PricesInv, NEW account \in PriceAccounts, Replace(account)
    PROVE  PricesInv'
<1>1. /\ published' = NoContext /\ prices' = {} /\ priceContext' = NoContext
      /\ generation' = generation + 1 /\ UNCHANGED <<queue, worker, refresh>>
      /\ file' \in {file, NoContext} /\ shown' \in {shown, NoContext}
      /\ owner' = [account |-> account, session |-> owner.session + 1, unlocked |-> TRUE]
  BY DEF Replace
<1>2. InContext' /\ SettledIsComplete'
  BY <1>1 DEF InContext, SettledIsComplete
<1>3. PricesOfAccount'
  BY <1>1 DEF PricesInv, PricesOfAccount
<1>4. InStep'
  BY <1>1, NobodyInStep
<1>5. /\ generation \in 0..MaxGenerations /\ generation < MaxGenerations
      /\ owner.session \in 0..MaxUnlocks /\ owner.session < MaxUnlocks
  BY DEF Replace, PricesInv, PricesTypeOK
<1>6. owner' \in [account : PriceAccounts, session : 0..MaxUnlocks, unlocked : BOOLEAN]
  BY <1>1, <1>5, PriceAssumption
<1>7. generation' \in 0..MaxGenerations
  BY <1>1, <1>5, PriceAssumption
<1>8. \A g \in Generations : worker'[g] # NoWorker => g <= generation'
  BY <1>1, <1>5, PriceAssumption DEF PricesInv, PricesTypeOK, Generations
<1>9. PricesTypeOK'
  BY <1>1, <1>6, <1>7, <1>8 DEF PricesInv, PricesTypeOK
<1> QED
  BY <1>2, <1>3, <1>4, <1>9 DEF PricesInv

\* Nothing runs after a restart; what was saved serves the rows of its account.
LEMMA RestartStep ==
    ASSUME PricesInv, RestartPrices
    PROVE  PricesInv'
<1> DEFINE onDisk == IF file = NoContext THEN [context |-> NoContext, prices |-> {}] ELSE file
<1>1. /\ worker' = [g \in Generations |-> NoWorker]
      /\ refresh' = Idle /\ queue' = <<>> /\ generation' = 0 /\ UNCHANGED file
      /\ owner' = [owner EXCEPT !.unlocked = FALSE]
  BY DEF RestartPrices
<1>2. InStep'
  BY <1>1 DEF InStep
<1>3. /\ shown \in Source \cup {NoContext}
      /\ file \in [context : PriceAccounts, prices : SUBSET Price] \cup {NoContext}
      /\ owner \in [account : PriceAccounts, session : 0..MaxUnlocks, unlocked : BOOLEAN]
  BY DEF PricesInv, PricesTypeOK
<1>4. /\ onDisk.context \in PriceAccounts \cup {NoContext} /\ onDisk.prices \subseteq Price
      /\ \A p \in onDisk.prices : p.account = onDisk.context
  BY <1>3 DEF PricesInv, PricesOfAccount
<1>5. /\ published' \in PriceEvidence \cup {NoContext} /\ shown' \in Source \cup {NoContext}
      /\ priceContext' \in PriceAccounts \cup {NoContext} /\ prices' \subseteq Price
      /\ InContext' /\ PricesOfAccount' /\ SettledIsComplete'
  <2>1. file' # NoContext => \A p \in file'.prices : p.account = file'.context
    BY <1>1 DEF PricesInv, PricesOfAccount
  <2>2. CASE shown # NoContext /\ shown.account = owner.account
    <3> DEFINE spared == IF onDisk.context # shown.account THEN {}
                       ELSE {p \in onDisk.prices : p.key \in shown.keys}
    <3>1. /\ priceContext' = shown.account /\ prices' = spared /\ shown' = shown
          /\ published' = [source |-> shown, prices |-> spared, completed |-> 0, total |-> 0,
                           pending |-> FALSE, failures |-> FALSE, persistFailed |-> FALSE]
      BY <2>2 DEF RestartPrices
    <3>2. shown \in Source /\ shown.account \in PriceAccounts
      BY <1>3, <2>2 DEF Source
    <3>3. /\ spared \subseteq Price
          /\ \A p \in spared : p.account = shown.account /\ p.key \in shown.keys
      BY <1>4
    <3> HIDE DEF spared
    <3>4. published' \in PriceEvidence
      BY <3>1, <3>2, <3>3 DEF PriceEvidence
    <3>5. /\ published'.source = shown /\ published'.prices = spared /\ published'.total = 0
      BY <3>1
    <3> QED
      BY <2>1, <3>1, <3>2, <3>3, <3>4, <3>5 DEF InContext, PricesOfAccount, SettledIsComplete
  <2>3. CASE ~(shown # NoContext /\ shown.account = owner.account)
    <3>1. /\ priceContext' = onDisk.context /\ prices' = onDisk.prices
          /\ shown' = NoContext /\ published' = NoContext
      BY <2>3 DEF RestartPrices
    <3> HIDE DEF onDisk
    <3> QED
      BY <1>4, <2>1, <3>1 DEF InContext, PricesOfAccount, SettledIsComplete
  <2> QED
    BY <2>2, <2>3
<1>6. PricesTypeOK'
  <2>1. <<>> \in Seq(PriceKeys) /\ 0 \in 0..MaxGenerations
    BY PriceAssumption, EmptySeq
  <2>2. worker' \in [Generations -> Threads \cup {NoWorker}]
        /\ \A g \in Generations : worker'[g] = NoWorker
    BY <1>1
  <2>3. owner' \in [account : PriceAccounts, session : 0..MaxUnlocks, unlocked : BOOLEAN]
    BY <1>1, <1>3
  <2> QED
    BY <1>1, <1>3, <1>5, <2>1, <2>2, <2>3 DEF PricesTypeOK
<1> QED
  BY <1>2, <1>5, <1>6 DEF PricesInv

LEMMA InitInv ==
    ASSUME PricesInit
    PROVE  PricesInv
<1>1. InContext /\ InStep /\ PricesOfAccount /\ SettledIsComplete
  BY DEF PricesInit, InContext, InStep, PricesOfAccount, SettledIsComplete
<1>2. <<>> \in Seq(PriceKeys) /\ 0 \in 0..MaxGenerations /\ 0 \in 0..MaxUnlocks
  BY PriceAssumption, EmptySeq
<1>3. owner \in [account : PriceAccounts, session : 0..MaxUnlocks, unlocked : BOOLEAN]
  BY <1>2 DEF PricesInit
<1>4. \A g \in Generations : worker[g] = NoWorker
  BY DEF PricesInit
<1>5. PricesTypeOK
  BY <1>2, <1>3, <1>4 DEF PricesInit, PricesTypeOK
<1> QED
  BY <1>1, <1>5 DEF PricesInv

\* The thread stores its answer, unless it was cancelled or the session ended.
LEMMA PublishStep ==
    ASSUME PricesInv, NEW g \in Generations, WorkPublish(g)
    PROVE  PricesInv'
<1>1. UNCHANGED <<owner, shown, generation, priceContext, queue, refresh>>
  BY DEF WorkPublish
<1>2. worker[g] \in Threads \cup {NoWorker} /\ worker[g] # NoWorker
  BY DEF WorkPublish, PricesInv, PricesTypeOK, NoWorker
<1>3. worker[g] \in Threads /\ worker[g].pc = "publish"
  BY <1>2 DEF WorkPublish
<1>4. PICK label \in {"raised", "check"} :
        /\ worker' = [worker EXCEPT ![g] = [worker[g] EXCEPT !.pc = label]]
        /\ \/ UNCHANGED <<prices, published, file>>
           \/ label = "check" /\ Stored(g) /\ Update(g)
  BY DEF WorkPublish, WorkerAt
<1> DEFINE w == [worker[g] EXCEPT !.pc = label]
<1>5. /\ worker' = [worker EXCEPT ![g] = w]
      /\ w \in Threads /\ w.source = worker[g].source /\ w.total = worker[g].total
      /\ w.index = worker[g].index /\ w.request = worker[g].request /\ w.pc = label
  BY <1>3, <1>4 DEF Threads
<1> HIDE DEF w
<1>6. CASE UNCHANGED <<prices, published, file>>
  <2>1. Touched(published, published')
    BY <1>6 DEF Touched
  <2>2. InContext' /\ PricesOfAccount' /\ SettledIsComplete'
    BY <1>1, <1>6, <2>1, PricesStay
  <2>3. InStep'
    BY <1>1, <1>2, <1>5, <2>1, InStepStays
  <2>4. PricesTypeOK'
    BY <1>1, <1>2, <1>5, <1>6 DEF PricesInv, PricesTypeOK
  <2> QED
    BY <2>2, <2>3, <2>4 DEF PricesInv
<1>7. CASE Stored(g) /\ Update(g) /\ label = "check"
  <2> DEFINE gained == [key |-> worker[g].request, account |-> worker[g].source.account]
             cached == IF worker[g].failed THEN prices
                       ELSE {p \in prices : p.key # gained.key} \cup {gained}
             checkpoint == AtCheckpoint(worker[g].index, worker[g].total)
  <2>1. /\ g = generation /\ published \in PriceEvidence
        /\ published.source = worker[g].source /\ published.total = worker[g].total
        /\ worker[g].index <= worker[g].total /\ Len(queue) = worker[g].total - worker[g].index
        /\ \A i \in 1..Len(queue) : queue[i] \in worker[g].source.keys
        /\ worker[g].request \in worker[g].source.keys
        /\ published.completed < worker[g].index
    BY <1>2, <1>3, <1>7 DEF PricesInv, InStep, Stored
  <2>2. /\ published # NoContext /\ priceContext = worker[g].source.account
        /\ \A p \in prices : p.key \in worker[g].source.keys /\ p.account = priceContext
    BY <2>1, NothingAssumption DEF PricesInv, InContext, PricesOfAccount
  <2>3. /\ worker[g].source \in Source /\ worker[g].index \in Nat /\ worker[g].total \in Nat
        /\ worker[g].failed \in BOOLEAN
    BY <1>3 DEF Threads
  <2>4. gained \in Price /\ priceContext \in PriceAccounts
    BY <2>1, <2>2, <2>3 DEF Source, Price
  <2>5. prices \subseteq Price /\ published.prices \subseteq Price
    BY <2>1 DEF PricesInv, PricesTypeOK, PriceEvidence
  <2>6. /\ cached \subseteq Price
        /\ \A p \in cached : p.key \in worker[g].source.keys /\ p.account = priceContext
    BY <2>1, <2>2, <2>4, <2>5
  <2>7. PICK saved \in IF checkpoint THEN BOOLEAN ELSE {FALSE} :
          /\ file' = IF saved THEN [context |-> priceContext, prices |-> cached] ELSE file
          /\ published' =
               [published EXCEPT
                   !.completed = worker[g].index,
                   !.prices = IF checkpoint THEN cached ELSE @,
                   !.pending = worker[g].index < worker[g].total,
                   !.failures = @ \/ worker[g].failed,
                   !.persistFailed = @ \/ (checkpoint /\ ~saved)]
    BY ZenonT(30), <1>7 DEF Update
  <2>8. prices' = cached
    BY <1>7 DEF Update
  <2>9. checkpoint \in BOOLEAN /\ saved \in BOOLEAN /\ (saved => checkpoint)
        /\ (worker[g].index = worker[g].total => checkpoint)
    BY <2>7 DEF AtCheckpoint
  <2> HIDE DEF gained, cached, checkpoint
  <2> DEFINE known == IF checkpoint THEN cached ELSE published.prices
             pending == worker[g].index < worker[g].total
             failures == published.failures \/ worker[g].failed
             persistFailed == published.persistFailed \/ (checkpoint /\ ~saved)
  <2>10. published' = [published EXCEPT !.completed = worker[g].index, !.prices = known,
                          !.pending = pending, !.failures = failures,
                          !.persistFailed = persistFailed]
    BY <2>7
  <2>11. /\ known \subseteq Price /\ pending \in BOOLEAN /\ failures \in BOOLEAN
         /\ persistFailed \in BOOLEAN
    BY <2>5, <2>6
  <2> HIDE DEF known, pending, failures, persistFailed
  <2>12. /\ published' \in PriceEvidence
         /\ published'.source = published.source /\ published'.total = published.total
         /\ published'.completed = worker[g].index /\ published'.prices = known
         /\ published'.persistFailed = persistFailed
    BY <2>1, <2>3, <2>10, <2>11 DEF PriceEvidence
  <2>13. \A p \in known : p.account = worker[g].source.account /\ p.key \in worker[g].source.keys
    BY <2>1, <2>2, <2>6 DEF known, PricesInv, PricesOfAccount
  <2>14. file' \in [context : PriceAccounts, prices : SUBSET Price] \cup {NoContext}
         /\ (file' # NoContext => \A p \in file'.prices : p.account = file'.context)
    <3>1. CASE saved
      BY <2>4, <2>6, <2>7, <3>1
    <3>2. CASE ~saved
      BY <2>7, <3>2 DEF PricesInv, PricesTypeOK, PricesOfAccount
    <3> QED
      BY <3>1, <3>2
  <2>15. InContext' /\ PricesOfAccount'
    BY <1>1, <2>1, <2>2, <2>6, <2>8, <2>12, <2>13, <2>14 DEF InContext, PricesOfAccount
  <2>16. SettledIsComplete'
    <3> SUFFICES ASSUME published'.completed = published'.total
                 PROVE  /\ published'.prices = prices'
                        /\ published'.total > 0 /\ ~published'.persistFailed =>
                               file' = [context |-> priceContext', prices |-> prices']
      BY DEF SettledIsComplete
    <3>1. checkpoint
      BY <2>1, <2>9, <2>12
    <3>2. published'.prices = prices'
      BY <2>8, <2>12, <3>1 DEF known
    <3>3. ~published'.persistFailed => saved
      BY <2>12, <3>1 DEF persistFailed
    <3> QED
      BY <1>1, <2>7, <2>8, <3>2, <3>3
  <2>17. InStep'
    <3>1. \A h \in Generations : worker'[h] = IF h = g THEN w ELSE worker[h]
      BY <1>5 DEF PricesInv, PricesTypeOK
    <3>2. w.index <= w.index
      BY <1>5, <2>3
    <3> QED
      BY <1>1, <1>5, <1>7, <2>1, <2>12, <3>1, <3>2 DEF InStep
  <2>18. PricesTypeOK'
    <3>1. prices' \subseteq Price
      BY <2>6, <2>8
    <3> QED
      BY <1>1, <1>2, <1>5, <2>12, <2>14, <3>1 DEF PricesInv, PricesTypeOK
  <2> QED
    BY <2>15, <2>16, <2>17, <2>18 DEF PricesInv
<1> QED
  BY <1>4, <1>6, <1>7

LEMMA PricesStep ==
    ASSUME PricesInv, [PricesNext]_priceVars
    PROVE  PricesInv'
<1>1. CASE UNCHANGED priceVars
  BY <1>1 DEF priceVars, priceStore, PricesInv, PricesTypeOK, InContext, InStep,
     PricesOfAccount, SettledIsComplete
<1>2. CASE \E full \in BOOLEAN : BeginRefresh(full)
  BY <1>2, BeginStep
<1>3. CASE \E keys \in SourceKeys : CommitRefresh(keys)
  BY <1>3, CommitStep
<1>4. CASE \E g \in Generations : Work(g)
  BY <1>4, QuietStep, TakeStep, PublishStep DEF Work
<1>5. CASE \E wanted \in SUBSET PriceKeys : Prioritize(wanted)
  BY <1>5, PrioritizeStep
<1>6. CASE EndRefresh \/ LockOrUnlock
  BY <1>6, AsideStep
<1>7. CASE \E account \in PriceAccounts : Replace(account)
  BY <1>7, ReplaceStep
<1>8. CASE RestartPrices
  BY <1>8, RestartStep
<1> QED
  BY <1>1, <1>2, <1>3, <1>4, <1>5, <1>6, <1>7, <1>8 DEF PricesNext

-----------------------------------------------------------------------------
(* The theorems.                                                           *)

\* In every state the published prices are those of the present context, and
\* the present worker works for what is published.
THEOREM PricesInvAlways == PricesSpec => []PricesInv
<1>1. PricesInit => PricesInv
  BY InitInv
<1>2. PricesInv /\ [PricesNext]_priceVars => PricesInv'
  BY PricesStep
<1> QED
  BY <1>1, <1>2, PTL DEF PricesSpec

\* Every variable keeps its type, and a thread that is not gone has the number
\* of a generation so far: start and cancel only count up, and a restart, which
\* counts from 0 again, leaves no thread.
THEOREM PriceTypesCorrect == PricesSpec => []PricesTypeOK
<1>1. PricesInv => PricesTypeOK
  BY DEF PricesInv
<1> QED
  BY <1>1, PricesInvAlways, PTL

\* A price is kept, saved and shown only for the account it was read for, and
\* shown only with the rows of its source, whatever refreshes, cancelled
\* threads, replaced credentials and restarts overlap.
THEOREM PricesStayWithAccount == PricesSpec => []PricesOfAccount
<1>1. PricesInv => PricesOfAccount
  BY DEF PricesInv
<1> QED
  BY <1>1, PricesInvAlways, PTL

\* When the last request of a source is answered, everything read is published,
\* and it is on disk unless the failure to save is reported.
THEOREM LastAnswerPublished == PricesSpec => []SettledIsComplete
<1>1. PricesInv => SettledIsComplete
  BY DEF PricesInv
<1> QED
  BY <1>1, PricesInvAlways, PTL

-----------------------------------------------------------------------------
(* EvidenceReads.  A page is judged by a fold over its rows (PageJudged);  *)
(* every row of the vendor's that it passes is kept, reported or without   *)
(* interest (RowsAccounted), and in a list of orders each is one more      *)
(* record (ListCounted).  What was received stays accounted for, and where *)
(* no row was repeated, withheld or miscounted what was received is what   *)
(* the vendor holds up to the place of the read (ReadInv).                 *)

\* What a page has come to, one row later.
Taken(acc, r) ==
    LET v == Verdict(r, acc.kept)
    IN [kept |-> IF v \in {"keep", "partial"} THEN acc.kept \cup {r} ELSE acc.kept,
        lost |-> IF v \in {"quarantine", "partial"} THEN acc.lost \cup {r.sku} ELSE acc.lost,
        fatal |-> acc.fatal \/ v = "fatal"]
Before == [kept |-> kept, lost |-> lost, fatal |-> FALSE]

LEMMA TakenIs ==
    ASSUME NEW acc, NEW r
    PROVE  LET v == Verdict(r, acc.kept)
               next == Taken(acc, r)
           IN /\ next.kept = IF v \in {"keep", "partial"} THEN acc.kept \cup {r} ELSE acc.kept
              /\ next.lost = IF v \in {"quarantine", "partial"}
                             THEN acc.lost \cup {r.sku} ELSE acc.lost
              /\ next.fatal <=> acc.fatal \/ v = "fatal"
<1> DEFINE v == Verdict(r, acc.kept)
           next == Taken(acc, r)
<1>1. /\ next.kept = IF v \in {"keep", "partial"} THEN acc.kept \cup {r} ELSE acc.kept
      /\ next.lost = IF v \in {"quarantine", "partial"}
                      THEN acc.lost \cup {r.sku} ELSE acc.lost
  <2> HIDE DEF v
  <2> QED
    BY DEF Taken, v
<1>2. next.fatal <=> acc.fatal \/ v = "fatal"
  <2> HIDE DEF v
  <2> QED
    BY Zenon DEF Taken, v
<1> QED
  BY <1>1, <1>2

\* The recursive equation a page is judged by.
Top(s) == Max(s)
JudgesTo(g, rows, D) ==
    g = [s \in SUBSET D |-> IF s = {} THEN Before ELSE Taken(g[s \ {Top(s)}], rows[Top(s)])]
JudgeOf(rows, D) == CHOOSE g : JudgesTo(g, rows, D)

LEMMA JudgedIs ==
    ASSUME NEW rows
    PROVE  Judged(rows) = JudgeOf(rows, DOMAIN rows)[DOMAIN rows]
BY DEF Judged, FoldLeft, MapThenFoldSet, JudgeOf, JudgesTo, Taken, Before, Top

Places(S) == IsFiniteSet(S) /\ S \subseteq Nat

LEMMA TopIs ==
    ASSUME NEW S, Places(S), NEW s, s \subseteq S, s # {}
    PROVE  Top(s) \in s /\ s \ {Top(s)} # s
<1>1. s \subseteq Nat /\ IsFiniteSet(s)
  BY FS_Subset DEF Places
<1> QED
  BY <1>1, GreatestNatural DEF Top

LEMMA PlacesOf ==
    ASSUME NEW S, Places(S), NEW T, T \subseteq S
    PROVE  Places(T) /\ IsFiniteSet(T)
BY FS_Subset DEF Places

LEMMA JudgesAgree ==
    ASSUME NEW rows, NEW S, Places(S), NEW T, T \subseteq S,
           NEW g, JudgesTo(g, rows, S), NEW h, JudgesTo(h, rows, T)
    PROVE  g[T] = h[T]
<1> DEFINE Q == {s \in SUBSET T : g[s] # h[s]}
<1>1. SUFFICES ASSUME Q # {}
               PROVE  FALSE
  OBVIOUS
<1>2. IsFiniteSet(T)
  BY PlacesOf
<1>3. PICK s \in Q : \A u \in Q : u \subseteq s => u = s
  <2> HIDE DEF Q
  <2>1. Q \subseteq SUBSET T /\ Q # {} /\ IsFiniteSet(T)
    BY <1>1, <1>2 DEF Q
  <2> QED
    BY <2>1, MinimalSubset, SMT
<1>4. s # {}
  BY DEF JudgesTo
<1>5. s \ {Top(s)} \in SUBSET T /\ s \ {Top(s)} # s
  BY <1>4, TopIs
<1>6. g[s \ {Top(s)}] = h[s \ {Top(s)}]
  BY <1>3, <1>5
<1>7. g[s] = Taken(g[s \ {Top(s)}], rows[Top(s)])
  BY <1>4 DEF JudgesTo
<1>8. h[s] = Taken(h[s \ {Top(s)}], rows[Top(s)])
  BY <1>4 DEF JudgesTo
<1> QED
  BY <1>6, <1>7, <1>8

\* The equation has a solution over every finite set of rows.
LEMMA JudgeExists ==
    ASSUME NEW rows, NEW S, Places(S)
    PROVE  JudgesTo(JudgeOf(rows, S), rows, S)
<1> DEFINE Q == {T \in SUBSET S : ~JudgesTo(JudgeOf(rows, T), rows, T)}
<1>1. SUFFICES ASSUME Q # {}
               PROVE  FALSE
  OBVIOUS
<1>2. PICK T \in Q : \A U \in Q : U \subseteq T => U = T
  <2> HIDE DEF Q
  <2>1. Q \subseteq SUBSET S /\ Q # {} /\ IsFiniteSet(S)
    BY <1>1, PlacesOf DEF Q
  <2> QED
    BY <2>1, MinimalSubset
<1>3. \A U \in SUBSET T : U # T => JudgesTo(JudgeOf(rows, U), rows, U)
  BY <1>2
<1>4. \A U \in SUBSET T : Places(U)
  BY PlacesOf
<1> DEFINE less(s) == s \ {Top(s)}
           h == [s \in SUBSET T |-> IF s = {} THEN Before
                     ELSE Taken(JudgeOf(rows, less(s))[less(s)], rows[Top(s)])]
<1>5. \A s \in SUBSET T : s # {} => less(s) \in SUBSET T /\ less(s) # T /\ less(s) \subseteq s
  BY TopIs
<1>6. \A s \in SUBSET T : s # {} => JudgeOf(rows, less(s))[less(s)] = h[less(s)]
  <2> SUFFICES ASSUME NEW s \in SUBSET T, s # {}
               PROVE  JudgeOf(rows, less(s))[less(s)] = h[less(s)]
    OBVIOUS
  <2> DEFINE u == less(s)
  <2>1. u \in SUBSET T /\ JudgesTo(JudgeOf(rows, u), rows, u)
    BY <1>3, <1>5
  <2>2. CASE u = {}
    BY <2>1, <2>2 DEF JudgesTo
  <2>3. CASE u # {}
    <3>1. JudgeOf(rows, u)[u] = Taken(JudgeOf(rows, u)[less(u)], rows[Top(u)])
      BY <2>1, <2>3 DEF JudgesTo
    <3>2. less(u) \in SUBSET T /\ JudgesTo(JudgeOf(rows, less(u)), rows, less(u))
      BY <1>3, <1>5, <2>1, <2>3
    <3>3. less(u) \subseteq u
      OBVIOUS
    <3>4. JudgeOf(rows, u)[less(u)] = JudgeOf(rows, less(u))[less(u)]
      BY <1>4, <2>1, <3>2, <3>3, JudgesAgree
    <3> QED
      BY <2>1, <2>3, <3>1, <3>4
  <2> QED
    BY <2>2, <2>3
<1>7. h = [s \in SUBSET T |-> IF s = {} THEN Before ELSE Taken(h[less(s)], rows[Top(s)])]
  BY <1>6
<1>8. JudgesTo(h, rows, T)
  BY <1>7 DEF JudgesTo
<1>9. JudgesTo(JudgeOf(rows, T), rows, T)
  <2> HIDE DEF h
  <2> QED
    BY <1>8 DEF JudgeOf
<1> QED
  BY <1>2, <1>9

\* A page is judged row by row, from the first to the last.
LEMMA JudgedInOrder ==
    ASSUME NEW rows, NEW n \in Nat, DOMAIN rows = 1..n
    PROVE  \E f : /\ f[0] = Before /\ f[n] = Judged(rows)
                  /\ \A k \in 1..n : f[k] = Taken(f[k - 1], rows[k])
<1> DEFINE g == JudgeOf(rows, 1..n)
           f == [k \in 0..n |-> g[1..k]]
<1>1. IsFiniteSet(1..n)
  BY FS_Interval
<1>2. JudgesTo(g, rows, 1..n)
  <2>1. Places(1..n)
    BY <1>1 DEF Places
  <2> QED
    BY <2>1, JudgeExists
<1> HIDE DEF g
<1>3. f[n] = Judged(rows)
  BY JudgedIs DEF g
<1>4. f[0] = Before
  <2>1. 1..0 = {} /\ f[0] = g[1..0]
    OBVIOUS
  <2>2. g[{}] = Before
    BY <1>2 DEF JudgesTo
  <2> QED
    BY <2>1, <2>2
<1>5. ASSUME NEW k \in 1..n
      PROVE  f[k] = Taken(f[k - 1], rows[k])
  <2>1. IsFiniteSet(1..k) /\ 1..k # {} /\ 1..k \subseteq Nat
    <3>1. IsFiniteSet(1..k)
      BY FS_Interval
    <3> QED
      BY <3>1
  <2>2. Top(1..k) = k
    <3> DEFINE I == 1..k
    <3>1. \A x \in I : x \in Nat /\ x <= k
      OBVIOUS
    <3>2. k \in I
      OBVIOUS
    <3> HIDE DEF I
    <3>3. Max(I) \in I /\ \A y \in I : Max(I) >= y
      BY <2>1, GreatestNatural DEF I
    <3> QED
      BY <3>1, <3>2, <3>3 DEF Top, I
  <2>3. (1..k) \ {k} = 1..(k - 1)
    OBVIOUS
  <2>4. 1..k \in SUBSET (1..n)
    OBVIOUS
  <2>5. g[1..k] = Taken(g[(1..k) \ {Top(1..k)}], rows[Top(1..k)])
    <3> DEFINE I == 1..k
    <3>1. I \in SUBSET (1..n) /\ I # {}
      BY <2>1, <2>4
    <3> HIDE DEF I
    <3>2. g[I] = Taken(g[I \ {Top(I)}], rows[Top(I)])
      BY <1>2, <3>1 DEF JudgesTo
    <3> QED
      BY <3>2 DEF I
  <2>6. g[1..k] = Taken(g[1..(k - 1)], rows[k])
    BY <2>2, <2>3, <2>5
  <2>7. f[k] = g[1..k] /\ f[k - 1] = g[1..(k - 1)]
    OBVIOUS
  <2> QED
    BY <2>6, <2>7
<1> QED
  BY <1>3, <1>4, <1>5

\* What holds before the first row and survives each row holds at the end.
LEMMA RowByRow ==
    ASSUME NEW n \in Nat, NEW P, 0 \in P, \A k \in 1..n : k - 1 \in P => k \in P
    PROVE  0..n \subseteq P
<1> DEFINE Q == {k \in 0..n : k \notin P}
<1>1. SUFFICES ASSUME Q # {}
               PROVE  FALSE
  OBVIOUS
<1>2. PICK m \in Q : \A k \in Q : m <= k
  <2>1. Q \subseteq Nat
    OBVIOUS
  <2> HIDE DEF Q
  <2> QED
    BY <1>1, <2>1, LeastNatural
<1>3. m # 0 /\ m \in 1..n
  OBVIOUS
<1>4. m - 1 \notin Q /\ m - 1 \in 0..n
  BY <1>2, <1>3
<1> QED
  BY <1>3, <1>4

\* What a judged page says of each of its rows: none is passed over.
RowJudged(rows, i, j) ==
    \E K : /\ kept \subseteq K /\ K \subseteq j.kept
           /\ Verdict(rows[i], K) # "fatal"
           /\ Verdict(rows[i], K) \in {"keep", "partial"} => rows[i] \in j.kept
           /\ Verdict(rows[i], K) \in {"quarantine", "partial"} => rows[i].sku \in j.lost
RowKept(rows, r) ==
    \E i \in DOMAIN rows, K \in SUBSET (kept \cup ToSet(rows)) :
        r = rows[i] /\ Verdict(r, K) \in {"keep", "partial"}

LEMMA PageJudged ==
    ASSUME NEW rows, NEW n \in Nat, DOMAIN rows = 1..n
    PROVE  LET j == Judged(rows)
           IN /\ kept \subseteq j.kept /\ lost \subseteq j.lost
              /\ \A r \in j.kept : r \in kept \/ RowKept(rows, r)
              /\ ~j.fatal => \A i \in DOMAIN rows : RowJudged(rows, i, j)
<1>1. PICK f : /\ f[0] = Before /\ f[n] = Judged(rows)
               /\ \A k \in 1..n : f[k] = Taken(f[k - 1], rows[k])
  BY JudgedInOrder
<1>a. \A k \in 1..n :
         LET acc == f[k - 1]
             v == Verdict(rows[k], acc.kept)
         IN /\ f[k].kept = IF v \in {"keep", "partial"} THEN acc.kept \cup {rows[k]} ELSE acc.kept
            /\ f[k].lost = IF v \in {"quarantine", "partial"}
                           THEN acc.lost \cup {rows[k].sku} ELSE acc.lost
            /\ f[k].fatal <=> acc.fatal \/ v = "fatal"
  <2> TAKE k \in 1..n
  <2>1. f[k] = Taken(f[k - 1], rows[k])
    BY <1>1
  <2> DEFINE acc == f[k - 1]
             v == Verdict(rows[k], acc.kept)
             next == Taken(acc, rows[k])
  <2>2. /\ next.kept = IF v \in {"keep", "partial"} THEN acc.kept \cup {rows[k]} ELSE acc.kept
        /\ next.lost = IF v \in {"quarantine", "partial"}
                       THEN acc.lost \cup {rows[k].sku} ELSE acc.lost
        /\ next.fatal <=> acc.fatal \/ v = "fatal"
    BY TakenIs
  <2>3. f[k] = next
    BY <2>1
  <2> HIDE DEF acc, next
  <2> QED
    BY <2>2, <2>3 DEF acc
<1>2. \A k \in 1..n : /\ f[k - 1].kept \subseteq f[k].kept /\ f[k - 1].lost \subseteq f[k].lost
                      /\ f[k - 1].fatal => f[k].fatal
  BY <1>a
\* what holds at 0 and survives each row holds at the end
<1>3. ASSUME NEW P, 0 \in P, \A k \in 1..n : k - 1 \in P => k \in P
      PROVE  0..n \subseteq P
  BY <1>3, RowByRow
\* and what holds at a row holds to the end
<1>4. ASSUME NEW i \in 0..n, NEW P, i \in P, \A k \in 1..n : k - 1 \in P => k \in P
      PROVE  n \in P
  <2> DEFINE R == P \cup {k \in 0..n : k < i}
  <2>1. 0 \in R
    BY <1>4
  <2>2. \A k \in 1..n : k - 1 \in R => k \in R
    <3> SUFFICES ASSUME NEW k \in 1..n, k - 1 \in R
                 PROVE  k \in R
      OBVIOUS
    <3>1. k - 1 \in P => k \in P
      BY <1>4
    <3>2. k = i \/ k < i \/ k - 1 >= i
      OBVIOUS
    <3> QED
      BY <1>4, <3>1, <3>2
  <2> HIDE DEF R
  <2>3. 0..n \subseteq R
    BY <1>3, <2>1, <2>2
  <2> QED
    BY <2>3 DEF R
<1>5. \A i \in 0..n : /\ f[i].kept \subseteq f[n].kept /\ f[i].lost \subseteq f[n].lost
                      /\ f[i].fatal => f[n].fatal
  <2> SUFFICES ASSUME NEW i \in 0..n
               PROVE  /\ f[i].kept \subseteq f[n].kept /\ f[i].lost \subseteq f[n].lost
                      /\ f[i].fatal => f[n].fatal
    OBVIOUS
  <2> DEFINE P == {k \in 0..n : /\ f[i].kept \subseteq f[k].kept /\ f[i].lost \subseteq f[k].lost
                                /\ f[i].fatal => f[k].fatal}
  <2>1. i \in P
    OBVIOUS
  <2>2. \A k \in 1..n : k - 1 \in P => k \in P
    BY <1>2
  <2> HIDE DEF P
  <2>3. n \in P
    BY <1>4, <2>1, <2>2
  <2> QED
    BY <2>3 DEF P
<1>6. \A k \in 0..n : /\ f[k].kept \subseteq kept \cup ToSet(rows)
                      /\ \A r \in f[k].kept : r \in kept \/ RowKept(rows, r)
  <2> DEFINE P == {k \in 0..n : /\ f[k].kept \subseteq kept \cup ToSet(rows)
                                /\ \A r \in f[k].kept : r \in kept \/ RowKept(rows, r)}
  <2>1. 0 \in P
    BY <1>1 DEF Before
  <2>2. ASSUME NEW k \in 1..n, k - 1 \in P
        PROVE  k \in P
    <3>1. f[k].kept = IF Verdict(rows[k], f[k - 1].kept) \in {"keep", "partial"}
                      THEN f[k - 1].kept \cup {rows[k]} ELSE f[k - 1].kept
      BY <1>a
    <3>2. /\ f[k - 1].kept \subseteq kept \cup ToSet(rows)
          /\ \A r \in f[k - 1].kept : r \in kept \/ RowKept(rows, r)
      BY <2>2
    <3>3. rows[k] \in ToSet(rows)
      BY DEF ToSet
    <3>4. Verdict(rows[k], f[k - 1].kept) \in {"keep", "partial"} => RowKept(rows, rows[k])
      BY <3>2 DEF RowKept
    <3> HIDE DEF P
    <3>5. f[k].kept \subseteq kept \cup ToSet(rows)
      BY <3>1, <3>2, <3>3
    <3>6. \A r \in f[k].kept : r \in kept \/ RowKept(rows, r)
      BY <3>1, <3>2, <3>4
    <3> QED
      BY <3>5, <3>6 DEF P
  <2> HIDE DEF P
  <2>3. 0..n \subseteq P
    BY <1>3, <2>1, <2>2
  <2> QED
    BY <2>3 DEF P
<1>7. ASSUME ~f[n].fatal, NEW i \in 1..n
      PROVE  RowJudged(rows, i, f[n])
  <2> DEFINE K == f[i - 1].kept
             v == Verdict(rows[i], K)
  <2>1. /\ f[i].kept = IF v \in {"keep", "partial"} THEN K \cup {rows[i]} ELSE K
        /\ f[i].lost = IF v \in {"quarantine", "partial"}
                       THEN f[i - 1].lost \cup {rows[i].sku} ELSE f[i - 1].lost
        /\ f[i].fatal <=> f[i - 1].fatal \/ v = "fatal"
    BY <1>a
  <2>2. ~f[i].fatal
    BY <1>5, <1>7
  <2>3. v # "fatal"
    BY <2>1, <2>2
  <2>4. v \in {"keep", "partial"} => rows[i] \in f[n].kept
    <3>1. v \in {"keep", "partial"} => rows[i] \in f[i].kept
      BY <2>1
    <3> QED
      BY <1>5, <3>1
  <2>5. v \in {"quarantine", "partial"} => rows[i].sku \in f[n].lost
    <3>1. v \in {"quarantine", "partial"} => rows[i].sku \in f[i].lost
      BY <2>1
    <3> QED
      BY <1>5, <3>1
  <2>6. kept \subseteq K /\ K \subseteq f[n].kept
    <3> USE DEF Before
    <3>1. /\ i - 1 \in 0..n /\ \A k \in 0..n : f[0].kept \subseteq f[k].kept
      <4> SUFFICES ASSUME NEW k \in 0..n
                   PROVE  f[0].kept \subseteq f[k].kept
        OBVIOUS
      <4> DEFINE P == {m \in 0..n : f[0].kept \subseteq f[m].kept}
      <4>1. 0 \in P
        OBVIOUS
      <4>2. \A m \in 1..n : m - 1 \in P => m \in P
        BY <1>2
      <4> HIDE DEF P
      <4>3. 0..n \subseteq P
        BY <1>3, <4>1, <4>2
      <4> QED
        BY <4>3 DEF P
    <3> QED
      BY <1>1, <1>5, <3>1
  <2> HIDE DEF K
  <2> QED
    BY <2>3, <2>4, <2>5, <2>6 DEF RowJudged
<1>8. kept \subseteq f[n].kept /\ lost \subseteq f[n].lost
  <2>1. 0 \in 0..n
    OBVIOUS
  <2> QED
    BY <1>1, <1>5, <2>1 DEF Before
<1>9. \A r \in f[n].kept : r \in kept \/ RowKept(rows, r)
  <2>1. n \in 0..n
    OBVIOUS
  <2> QED
    BY <1>6, <2>1
<1> QED
  BY <1>1, <1>7, <1>8, <1>9

-----------------------------------------------------------------------------
(* What the rows of a page come to.                                        *)

Accounted(r, k, l) == Matters(r) => r \in k \/ r.sku \in l

LEMMA VerdictIs ==
    ASSUME NEW r, NEW K
    PROVE  /\ reader = "orders" => Verdict(r, K) = PostingVerdict(r)
           /\ reader = "bundle" => Verdict(r, K) = SupplyVerdict(r)
           /\ reader \in {"fbo_stock", "seller_stock"} => Verdict(r, K) = StockVerdict(r)
           /\ reader \in {"prices", "attributes"} => Verdict(r, K) = FactVerdict(r)
           /\ reader = "zones" => Verdict(r, K) = ZoneVerdict(r, K)
           /\ reader = "local_sale" => Verdict(r, K) = SaleVerdict(r, K)
           /\ reader = "products" => Verdict(r, K) = CatalogVerdict(r, K)
           /\ reader \in {"supply_list", "supply_details"} => Verdict(r, K) = ListVerdict(r, K)
BY DEF Verdict

ReaderNames == Batched \cup Totalled \cup {"orders", "bundle", "seller_stock", "supply_list"}

\* A row of the vendor's that is not fatal is kept, reported, without interest,
\* or one the catalogue has already.
LEMMA RowSays ==
    ASSUME reader \in ReaderNames, ListingOK(reader, listing),
           NEW r \in ToSet(listing), NEW K, Verdict(r, K) # "fatal"
    PROVE  \/ Verdict(r, K) \in {"keep", "partial", "quarantine"}
           \/ ~Matters(r)
           \/ reader = "products" /\ r.named /\ \E k \in K : k.sku = r.sku
<1>1. CASE reader = "orders"
  <2>1. r.life \in {"fulfilled", "in_progress", "cancelled", "unknown"}
    BY <1>1 DEF ListingOK
  <2>2. Matters(r) <=> r.life # "cancelled"
    BY <1>1 DEF Matters
  <2> QED
    BY <1>1, <2>1, <2>2, VerdictIs DEF PostingVerdict, DemandLife
<1>2. CASE reader = "bundle"
  BY <1>2, VerdictIs DEF SupplyVerdict
<1>3. CASE reader \in {"fbo_stock", "seller_stock"}
  BY <1>3, VerdictIs DEF StockVerdict
<1>4. CASE reader \in {"prices", "attributes"}
  <2>1. r.sku \in Asked
    BY <1>4 DEF ListingOK, Asking, Batched
  <2>2. Matters(r) <=> r.named
    BY <1>4 DEF Matters
  <2> QED
    BY <1>4, <2>1, <2>2, VerdictIs DEF FactVerdict
<1>5. CASE reader = "zones"
  BY <1>5, VerdictIs DEF ZoneVerdict
<1>6. CASE reader = "local_sale"
  <2>1. Matters(r) <=> r.whole
    BY <1>6 DEF Matters
  <2> QED
    BY <1>6, <2>1, VerdictIs DEF SaleVerdict
<1>7. CASE reader = "products"
  BY <1>7, VerdictIs DEF CatalogVerdict
<1>8. CASE reader \in {"supply_list", "supply_details"}
  BY <1>8, VerdictIs DEF ListVerdict
<1> QED
  BY <1>1, <1>2, <1>3, <1>4, <1>5, <1>6, <1>7, <1>8 DEF ReaderNames, Batched, Totalled

\* What is kept was asked for; of a list each order once.
LEMMA KeepSays ==
    ASSUME reader \in ReaderNames, NEW r, NEW K
    PROVE  /\ Verdict(r, K) \in {"keep", "partial"} /\ reader \in Asking /\ reader # "supply_details"
                => r.sku \in Asked
           /\ Verdict(r, K) # "fatal" /\ reader \in Asking \ {"prices", "attributes", "supply_details"}
                => r.sku \in Asked
           /\ Verdict(r, K) \in {"keep", "partial"} /\ reader = "products" => r.named
           /\ Verdict(r, K) # "fatal" /\ reader \in {"supply_list", "supply_details"}
                => Verdict(r, K) = "keep" /\ \A k \in K : k.sku # r.sku
<1>1. Verdict(r, K) # "fatal" /\ reader \in {"fbo_stock", "seller_stock"} => r.sku \in Asked
  BY VerdictIs DEF StockVerdict
<1>2. Verdict(r, K) \in {"keep", "partial"} /\ reader \in {"prices", "attributes"} => r.sku \in Asked
  BY VerdictIs DEF FactVerdict
<1>3. Verdict(r, K) # "fatal" /\ reader = "zones" => r.sku \in Asked
  BY VerdictIs DEF ZoneVerdict
<1>4. Verdict(r, K) # "fatal" /\ reader = "local_sale" => r.sku \in Asked
  BY VerdictIs DEF SaleVerdict
<1>5. Verdict(r, K) \in {"keep", "partial"} /\ reader = "products" => r.named
  BY VerdictIs DEF CatalogVerdict
<1>6. Verdict(r, K) # "fatal" /\ reader \in {"supply_list", "supply_details"}
        => Verdict(r, K) = "keep" /\ \A k \in K : k.sku # r.sku
  BY VerdictIs DEF ListVerdict
<1>7. "keep" # "fatal" /\ "partial" # "fatal"
  OBVIOUS
<1> QED
  BY <1>1, <1>2, <1>3, <1>4, <1>5, <1>6, <1>7 DEF Asking, Batched

\* Rows of the vendor's, or of a SKU nobody asked for.
RowsKnown(rows) ==
    \A i \in DOMAIN rows :
        \/ rows[i] \in ToSet(listing)
        \/ rows[i].sku \notin Asked /\ reader \in Asking /\ reader # "supply_details"

KeptOK(k) ==
    /\ k \subseteq ToSet(listing)
    /\ reader = "products" => \A r \in k : r.named

LEMMA RowsAccounted ==
    ASSUME reader \in ReaderNames, ListingOK(reader, listing), KeptOK(kept),
           NEW rows, NEW n \in Nat, DOMAIN rows = 1..n, RowsKnown(rows), ~Judged(rows).fatal
    PROVE  LET j == Judged(rows)
           IN /\ KeptOK(j.kept) /\ kept \subseteq j.kept /\ lost \subseteq j.lost
              /\ \A i \in DOMAIN rows :
                    /\ rows[i] \in ToSet(listing) => Accounted(rows[i], j.kept, j.lost)
                    /\ rows[i] \notin ToSet(listing) => reader \in {"prices", "attributes"}
                    /\ reader \in {"supply_list", "supply_details"} =>
                         rows[i] \in j.kept /\ \A k \in kept : k.sku # rows[i].sku
              /\ \A r \in j.kept : r \in kept \/ \E i \in DOMAIN rows : r = rows[i]
<1> DEFINE j == Judged(rows)
<1>1. /\ kept \subseteq j.kept /\ lost \subseteq j.lost
      /\ \A r \in j.kept : r \in kept \/ RowKept(rows, r)
      /\ \A i \in DOMAIN rows : RowJudged(rows, i, j)
  BY PageJudged
<1> HIDE DEF j
<1>2. KeptOK(j.kept)
  <2> SUFFICES ASSUME NEW r \in j.kept
               PROVE  r \in ToSet(listing) /\ (reader = "products" => r.named)
    BY DEF KeptOK
  <2>1. CASE r \in kept
    BY <2>1 DEF KeptOK
  <2>2. CASE RowKept(rows, r)
    <3>1. PICK i \in DOMAIN rows, K \in SUBSET (kept \cup ToSet(rows)) :
             r = rows[i] /\ Verdict(r, K) \in {"keep", "partial"}
      BY <2>2 DEF RowKept
    <3>2. r \in ToSet(listing) \/ (r.sku \notin Asked /\ reader \in Asking /\ reader # "supply_details")
      BY <3>1 DEF RowsKnown
    <3> QED
      BY <3>1, <3>2, KeepSays
  <2> QED
    BY <1>1, <2>1, <2>2
<1>3. ASSUME NEW i \in DOMAIN rows
      PROVE  /\ rows[i] \in ToSet(listing) => Accounted(rows[i], j.kept, j.lost)
             /\ rows[i] \notin ToSet(listing) => reader \in {"prices", "attributes"}
             /\ reader \in {"supply_list", "supply_details"} =>
                  rows[i] \in j.kept /\ \A k \in kept : k.sku # rows[i].sku
  <2> DEFINE r == rows[i]
  <2>1. PICK K : /\ kept \subseteq K /\ K \subseteq j.kept
                 /\ Verdict(r, K) # "fatal"
                 /\ Verdict(r, K) \in {"keep", "partial"} => r \in j.kept
                 /\ Verdict(r, K) \in {"quarantine", "partial"} => r.sku \in j.lost
    BY <1>1 DEF RowJudged
  <2>2. r \in ToSet(listing) \/ (r.sku \notin Asked /\ reader \in Asking /\ reader # "supply_details")
    BY DEF RowsKnown
  <2> HIDE DEF r
  <2>3. r \notin ToSet(listing) => reader \in {"prices", "attributes"}
    BY <2>1, <2>2, KeepSays
  <2>4. reader \in {"supply_list", "supply_details"} =>
          r \in j.kept /\ \A k \in kept : k.sku # r.sku
    BY <2>1, KeepSays
  <2>5. ASSUME r \in ToSet(listing), Matters(r)
        PROVE  r \in j.kept \/ r.sku \in j.lost
    <3>1. \/ Verdict(r, K) \in {"keep", "partial", "quarantine"}
          \/ reader = "products" /\ r.named /\ \E k \in K : k.sku = r.sku
      BY <2>1, <2>5, RowSays
    <3>2. ASSUME reader = "products", r.named, NEW k \in K, k.sku = r.sku
          PROVE  r \in j.kept
      <4>1. k \in ToSet(listing) /\ k.named
        BY <1>2, <2>1, <3>2 DEF KeptOK
      <4>2. k = r
        BY <2>5, <3>2, <4>1 DEF ListingOK
      <4> QED
        BY <2>1, <4>2
    <3> QED
      BY <2>1, <3>1, <3>2
  <2> QED
    BY <2>3, <2>4, <2>5 DEF r, Accounted
<1>4. \A r \in j.kept : r \in kept \/ \E i \in DOMAIN rows : r = rows[i]
  BY <1>1 DEF RowKept
<1> QED
  BY <1>1, <1>2, <1>3, <1>4 DEF j

\* A list of orders that is not refused adds a record for each of its rows.
LEMMA ListCounted ==
    ASSUME reader \in Identified, IsFiniteSet(kept),
           NEW rows, NEW n \in Nat, DOMAIN rows = 1..n, ~Judged(rows).fatal
    PROVE  LET j == Judged(rows)
           IN IsFiniteSet(j.kept) /\ Cardinality(j.kept) = Cardinality(kept) + n
<1>1. PICK f : /\ f[0] = Before /\ f[n] = Judged(rows)
               /\ \A k \in 1..n : f[k] = Taken(f[k - 1], rows[k])
  BY JudgedInOrder
<1> DEFINE c == Cardinality(kept)
           P == {k \in 0..n : ~f[k].fatal => IsFiniteSet(f[k].kept)
                                             /\ Cardinality(f[k].kept) = c + k}
<1>2. c \in Nat
  BY FS_CardinalityType
<1> HIDE DEF c
<1>3. 0 \in P
  BY <1>1, <1>2 DEF Before, c
<1>4. ASSUME NEW k \in 1..n, k - 1 \in P
      PROVE  k \in P
  <2> DEFINE acc == f[k - 1]
             r == rows[k]
             v == Verdict(r, acc.kept)
             next == Taken(acc, r)
  <2>1. /\ next.kept = IF v \in {"keep", "partial"} THEN acc.kept \cup {r} ELSE acc.kept
        /\ next.fatal <=> acc.fatal \/ v = "fatal"
    BY TakenIs
  <2>2. f[k] = next
    BY <1>1
  <2>3. v = "fatal" \/ (v = "keep" /\ \A x \in acc.kept : x.sku # r.sku)
    BY VerdictIs DEF ListVerdict, Identified
  <2>4. ~acc.fatal => IsFiniteSet(acc.kept) /\ Cardinality(acc.kept) = c + (k - 1)
    BY <1>4
  <2> SUFFICES ASSUME ~f[k].fatal
               PROVE  IsFiniteSet(f[k].kept) /\ Cardinality(f[k].kept) = c + k
    OBVIOUS
  <2> HIDE DEF next, v, acc, r
  <2>5. ~acc.fatal /\ v = "keep"
    BY <2>1, <2>2, <2>3
  <2>6. f[k].kept = acc.kept \cup {r} /\ r \notin acc.kept
    BY <2>1, <2>2, <2>3, <2>5
  <2>7. IsFiniteSet(f[k].kept) /\ Cardinality(f[k].kept) = Cardinality(acc.kept) + 1
    BY <2>4, <2>5, <2>6, FS_AddElement
  <2>8. c + (k - 1) + 1 = c + k
    BY <1>2
  <2> QED
    BY <2>4, <2>5, <2>7, <2>8
<1> HIDE DEF P
<1>5. n \in P
  BY <1>3, <1>4, RowByRow
<1> QED
  BY <1>1, <1>5 DEF P, c

-----------------------------------------------------------------------------
(* What the vendor may answer.                                             *)

\* Where a read stands.
Standing ==
    /\ reader \in ReaderNames /\ ListingOK(reader, listing)
    /\ At \in Nat
    /\ reader \in Batched => At = 0

LEMMA ListingIs ==
    ASSUME ListingOK(reader, listing)
    PROVE  /\ listing \in Seq(ToSet(listing)) /\ Len(listing) \in Nat
           /\ DOMAIN listing = 1..Len(listing)
           /\ \A i \in 1..Len(listing) : listing[i] \in ToSet(listing)
<1>1. listing \in Seq(ToSet(listing))
  BY DEF ListingOK
<1>2. Len(listing) \in Nat /\ DOMAIN listing = 1..Len(listing)
  BY <1>1, LenProperties
<1> QED
  BY <1>1, <1>2 DEF ToSet

\* The rows from where the read stands, as many as fit.
LEMMA HonestFacts ==
    ASSUME Standing
    PROVE  /\ HonestRows \in Seq(ToSet(listing)) /\ Len(HonestRows) \in Nat
           /\ DOMAIN HonestRows = 1..Len(HonestRows)
           /\ At <= Len(listing) => At + Len(HonestRows) <= Len(listing)
           /\ \A i \in 1..Len(HonestRows) : HonestRows[i] = listing[At + i]
           /\ MoreToSend <=> At + Len(HonestRows) < Len(listing)
           /\ reader \in Batched => Len(HonestRows) = Len(listing)
<1> DEFINE T == ToSet(listing)
           n == Len(listing)
<1>1. /\ listing \in Seq(T) /\ n \in Nat /\ DOMAIN listing = 1..n
      /\ \A i \in 1..n : listing[i] \in T
  BY ListingIs DEF Standing
<1>2. At \in Nat
  BY DEF Standing
<1>3. CASE reader \in Batched
  <2>1. HonestRows = listing /\ At = 0
    BY <1>3 DEF HonestRows, Standing
  <2> HIDE DEF T, n
  <2>2. \A i \in 1..n : At + i = i
    BY <1>1, <2>1
  <2>3. Len(HonestRows) = n /\ At + n = n
    BY <1>1, <2>1 DEF n
  <2>4. MoreToSend <=> At + n < n
    BY <2>3 DEF MoreToSend, n
  <2> QED
    BY <1>1, <2>1, <2>2, <2>3, <2>4 DEF T, n
<1>4. CASE reader \notin Batched
  <2> DEFINE w == IF At < n THEN n - At ELSE 0
             m == IF ReadPage < Len(Rest) THEN ReadPage ELSE Len(Rest)
  <2>0. w \in Nat /\ (At <= n => w <= n - At)
    BY <1>1, <1>2
  <2> HIDE DEF T, n
  <2>1. /\ Rest \in Seq(T) /\ Len(Rest) = w
        /\ \A i \in 1..w : Rest[i] = listing[At + i]
    <3>1. \A i \in (At + 1)..n : listing[i] \in T
      BY <1>1, <1>2
    <3>2. At + 1 \in Int /\ n \in Int
      BY <1>1, <1>2
    <3>3. /\ SubSeq(listing, At + 1, n) \in Seq(T)
          /\ Len(SubSeq(listing, At + 1, n)) = IF At + 1 <= n THEN n - (At + 1) + 1 ELSE 0
          /\ \A i \in 1..(n - (At + 1) + 1) : SubSeq(listing, At + 1, n)[i] = listing[At + 1 + i - 1]
      BY <3>1, <3>2, SubSeqProperties
    <3>4. Rest = SubSeq(listing, At + 1, n)
      BY DEF Rest, n
    <3>5. \A i \in 1..w : At + 1 + i - 1 = At + i /\ i \in 1..(n - (At + 1) + 1)
      BY <1>1, <1>2
    <3>6. (IF At + 1 <= n THEN n - (At + 1) + 1 ELSE 0) = w
      BY <1>1, <1>2
    <3> QED
      BY <3>3, <3>4, <3>5, <3>6
  <2> HIDE DEF w
  <2>2. m \in Nat /\ m <= w
    BY <2>0, <2>1, ReadPageAssumption
  <2> HIDE DEF m
  <2>3. /\ HonestRows \in Seq(T) /\ Len(HonestRows) = m
        /\ \A i \in 1..m : HonestRows[i] = Rest[i]
    <3>1. \A i \in 1..m : Rest[i] \in T
      <4>1. \A i \in 1..m : i \in 1..Len(Rest)
        BY <2>0, <2>1, <2>2
      <4> QED
        BY <2>1, <4>1, ElementOfSeq
    <3>2. /\ SubSeq(Rest, 1, m) \in Seq(T)
          /\ Len(SubSeq(Rest, 1, m)) = IF 1 <= m THEN m - 1 + 1 ELSE 0
          /\ \A i \in 1..(m - 1 + 1) : SubSeq(Rest, 1, m)[i] = Rest[1 + i - 1]
      BY <2>2, <3>1, SubSeqProperties
    <3>3. HonestRows = SubSeq(Rest, 1, m)
      BY <1>4 DEF HonestRows, m
    <3>4. \A i \in 1..m : 1 + i - 1 = i /\ i \in 1..(m - 1 + 1)
      BY <2>2
    <3> QED
      BY <2>2, <3>2, <3>3, <3>4
  <2>4. DOMAIN HonestRows = 1..m
    BY <2>3, LenProperties
  <2>5. \A i \in 1..m : HonestRows[i] = listing[At + i]
    BY <2>0, <2>1, <2>2, <2>3
  <2>6. At <= n => At + m <= n
    BY <1>1, <1>2, <2>0, <2>2
  <2>7. MoreToSend <=> At + m < n
    BY <2>3 DEF MoreToSend, n
  <2> QED
    BY <1>4, <2>2, <2>3, <2>4, <2>5, <2>6, <2>7 DEF T, n
<1> QED
  BY <1>3, <1>4

\* The kinds of pages.
Straight(a) == a.rows = HonestRows /\ a.next = Fresh /\ (a.more <=> MoreToSend)
Pause(a) == a.rows = <<>> /\ a.next = <<At, 1>> /\ a.more
Replay(a) == a.rows \in {HonestRows, <<>>} /\ a.next \in cursors /\ a.more
Alien(a) ==
    /\ reader \in Asking
    /\ \E x : a.rows = Append(HonestRows, x) /\ x.sku = "stranger"
Plain(a) == Straight(a) \/ (reader \notin Batched /\ (Pause(a) \/ Replay(a)))

\* Pages that withhold nothing, and all pages.
Fair(a) == a \in Pages \/ a \in OddPages
AnyPage(a) == Fair(a) \/ a \in SkewedPages

\* An answer is a record; without its total it is the same answer otherwise.
IsAnswer(a) == a = [rows |-> a.rows, more |-> a.more, next |-> a.next, total |-> a.total]
Alike(a, b) ==
    /\ a.rows = b.rows /\ a.next = b.next /\ a.more = b.more
    /\ a.total = b.total \/ (reader = "bundle" /\ a.total = -1)

LEMMA UntoldIs ==
    ASSUME NEW P, NEW a \in OrUntold(P), \A b \in P : IsAnswer(b)
    PROVE  \E b \in P : Alike(a, b)
<1>1. CASE a \in P
  BY <1>1 DEF Alike
<1>2. ASSUME reader = "bundle", NEW b \in P, a = [b EXCEPT !.total = Unstated]
      PROVE  Alike(a, b)
  <2>1. b = [rows |-> b.rows, more |-> b.more, next |-> b.next, total |-> b.total]
    BY DEF IsAnswer
  <2>2. a = [rows |-> b.rows, more |-> b.more, next |-> b.next, total |-> -1]
    BY <1>2, <2>1 DEF Unstated
  <2>3. a.rows = b.rows /\ a.next = b.next /\ a.total = -1
    BY <2>2
  <2>4. a.more = b.more
    BY <2>2
  <2> QED
    BY <1>2, <2>3, <2>4 DEF Alike
<1>3. a \in P \/ (reader = "bundle" /\ \E b \in P : a = [b EXCEPT !.total = Unstated])
  BY DEF OrUntold
<1> QED
  BY <1>1, <1>2, <1>3

LEMMA HonestIs ==
    /\ IsAnswer(Honest) /\ Straight(Honest) /\ Honest.total = Len(listing)
    /\ Honest = [rows |-> HonestRows, more |-> MoreToSend, next |-> Fresh, total |-> Len(listing)]
<1>1. Honest = [rows |-> HonestRows, more |-> MoreToSend, next |-> Fresh, total |-> Len(listing)]
  BY DEF Honest
<1>2. /\ Honest.rows = HonestRows /\ Honest.next = Fresh /\ Honest.total = Len(listing)
  BY <1>1
<1>3. Honest.more = MoreToSend
  BY <1>1
<1> QED
  BY <1>1, <1>2, <1>3 DEF IsAnswer, Straight

\* The pages of a vendor that sends what is due.
LEMMA HonestPages ==
    ASSUME NEW a \in Pages
    PROVE  /\ Plain(a)
           /\ a.total = Len(listing) \/ (reader = "bundle" /\ a.total = -1)
<1> DEFINE P == {Honest} \cup (IF reader \in Batched THEN {} ELSE {Paused} \cup Replays)
           Right(b) == IsAnswer(b) /\ Plain(b) /\ b.total = Len(listing)
<1>1. Right(Honest)
  BY HonestIs DEF Plain
<1>2. ASSUME reader \notin Batched
      PROVE  Right(Paused)
  <2>1. Paused = [rows |-> <<>>, more |-> TRUE, next |-> <<At, 1>>, total |-> Len(listing)]
    BY DEF Paused, Further
  <2>2. Pause(Paused) /\ IsAnswer(Paused) /\ Paused.total = Len(listing)
    BY <2>1 DEF Pause, IsAnswer
  <2> QED
    BY <1>2, <2>2 DEF Plain
<1>3. ASSUME reader \notin Batched, NEW c \in Known, NEW s \in {HonestRows, <<>>}
      PROVE  Right(Further(c, s))
  <2>1. Further(c, s) = [rows |-> s, more |-> TRUE, next |-> c, total |-> Len(listing)]
    BY DEF Further
  <2>2. c \in cursors
    BY DEF Known
  <2>3. Replay(Further(c, s)) /\ IsAnswer(Further(c, s)) /\ Further(c, s).total = Len(listing)
    BY <2>1, <2>2 DEF Replay, IsAnswer
  <2> QED
    BY <1>3, <2>3 DEF Plain
<1> HIDE DEF Right
<1>4. \A b \in P : Right(b)
  BY <1>1, <1>2, <1>3 DEF Replays
<1>5. a \in OrUntold(P)
  BY DEF Pages
<1> HIDE DEF P
<1>6. PICK b \in P : Alike(a, b)
  BY <1>4, <1>5, UntoldIs DEF Right
<1>7. Right(b)
  BY <1>4
<1> QED
  BY <1>6, <1>7 DEF Alike, Right, Plain, Straight, Pause, Replay

\* Odd pages that withhold nothing.
LEMMA StrangePages ==
    ASSUME Standing, NEW a \in OddPages
    PROVE  /\ a.next = Fresh /\ (a.more <=> MoreToSend)
           /\ Straight(a) \/ Alien(a)
           /\ a.total \in {Len(listing), Len(listing) + 1} \/ (reader = "bundle" /\ a.total = -1)
<1> DEFINE P == {[Honest EXCEPT !.rows = s] : s \in StrangeRows}
                \cup {[Honest EXCEPT !.total = Len(listing) + 1]}
           Right(b) == /\ IsAnswer(b) /\ b.next = Fresh /\ (b.more <=> MoreToSend)
                       /\ Straight(b) \/ Alien(b)
                       /\ b.total \in {Len(listing), Len(listing) + 1}
<1>1. ASSUME NEW b, b = [Honest EXCEPT !.total = Len(listing) + 1]
      PROVE  Right(b)
  <2>1. b = [rows |-> HonestRows, more |-> MoreToSend, next |-> Fresh, total |-> Len(listing) + 1]
    BY <1>1, HonestIs
  <2>2. b.rows = HonestRows /\ b.next = Fresh /\ b.total = Len(listing) + 1 /\ IsAnswer(b)
    BY <2>1 DEF IsAnswer
  <2>3. b.more = MoreToSend
    BY <2>1
  <2> QED
    BY <2>2, <2>3 DEF Straight
<1>2. ASSUME NEW s \in StrangeRows, NEW b, b = [Honest EXCEPT !.rows = s]
      PROVE  Right(b)
  <2>1. b = [rows |-> s, more |-> MoreToSend, next |-> Fresh, total |-> Len(listing)]
    BY <1>2, HonestIs
  <2>2. b.rows = s /\ b.next = Fresh /\ b.total = Len(listing) /\ IsAnswer(b)
    BY <2>1 DEF IsAnswer
  <2>3. b.more = MoreToSend
    BY <2>1
  <2>4. reader \in Asking
    BY DEF StrangeRows
  <2>5. PICK i \in DOMAIN listing : s = Append(HonestRows, [listing[i] EXCEPT !.sku = "stranger"])
    BY <2>4 DEF StrangeRows
  <2> DEFINE x == [listing[i] EXCEPT !.sku = "stranger"]
  <2>6. "sku" \in DOMAIN listing[i]
    BY ListingIs DEF Standing, ListingOK
  <2>7. x.sku = "stranger"
    BY <2>6
  <2>8. s = Append(HonestRows, x)
    BY <2>5
  <2> HIDE DEF x
  <2>9. Alien(b)
    BY <2>2, <2>4, <2>7, <2>8 DEF Alien
  <2> QED
    BY <2>2, <2>3, <2>9
<1> HIDE DEF Right
<1>3. \A b \in P : Right(b)
  BY <1>1, <1>2
<1>4. a \in OrUntold(P)
  BY DEF OddPages
<1> HIDE DEF P
<1>5. PICK b \in P : Alike(a, b)
  BY <1>3, <1>4, UntoldIs DEF Right
<1>6. Right(b)
  BY <1>3
<1> QED
  BY <1>5, <1>6 DEF Alike, Right, Straight, Alien

\* Odd pages that do withhold hold rows of the vendor's only.
LEMMA SkewedRowsKnown ==
    ASSUME Standing, NEW s \in SkewedRows
    PROVE  s \in Seq(ToSet(listing))
<1> DEFINE T == ToSet(listing)
           n == Len(HonestRows)
<1>1. HonestRows \in Seq(T) /\ n \in Nat /\ DOMAIN HonestRows = 1..n
      /\ \A i \in 1..n : HonestRows[i] \in T
  BY HonestFacts, ElementOfSeq
<1> HIDE DEF T, n
<1>2. ASSUME NEW x \in T, s = <<x>> \o HonestRows
      PROVE  s \in Seq(T)
  <2>1. <<x>> \in Seq(T)
    BY <1>2
  <2> QED
    BY <1>1, <1>2, <2>1, ConcatProperties
<1>3. ASSUME NEW i \in 1..n, s = RemoveAt(HonestRows, i)
      PROVE  s \in Seq(T)
  <2> DEFINE p == SubSeq(HonestRows, 1, i - 1)
             q == SubSeq(HonestRows, i + 1, n)
  <2>1. p \in Seq(T)
    BY <1>1, SubSeqProperties
  <2>2. q \in Seq(T)
    BY <1>1, SubSeqProperties
  <2>3. s = p \o q
    BY <1>3 DEF RemoveAt, n
  <2> HIDE DEF p, q
  <2> QED
    BY <2>1, <2>2, <2>3, ConcatProperties
<1>4. ASSUME NEW i \in 1..n, NEW x \in T, s = ReplaceAt(HonestRows, i, x)
      PROVE  s \in Seq(T)
  BY <1>1, <1>4, ExceptSeq DEF ReplaceAt, n
<1> DEFINE C == {ReplaceAt(HonestRows, i, x) : i \in DOMAIN HonestRows, x \in ToSet(listing)}
<1>5. ASSUME s \in C
      PROVE  \E i \in DOMAIN HonestRows, x \in ToSet(listing) : s = ReplaceAt(HonestRows, i, x)
  BY <1>5
<1>6. SkewedRows = {<<x>> \o HonestRows : x \in ToSet(listing)}
                   \cup {RemoveAt(HonestRows, i) : i \in DOMAIN HonestRows} \cup C
  BY DEF SkewedRows
<1> HIDE DEF C
<1>7. \/ \E x \in ToSet(listing) : s = <<x>> \o HonestRows
      \/ \E i \in DOMAIN HonestRows : s = RemoveAt(HonestRows, i)
      \/ s \in C
  BY <1>6
<1> QED
  BY <1>1, <1>2, <1>3, <1>4, <1>5, <1>7 DEF T

LEMMA TwistedPages ==
    ASSUME Standing, NEW a \in SkewedPages
    PROVE  /\ a.rows \in Seq(ToSet(listing)) /\ a.next = Fresh
           /\ a.total \in -1..(Len(listing) + 1)
<1> DEFINE P == {[Honest EXCEPT !.rows = s] : s \in SkewedRows}
                \cup {[Honest EXCEPT !.more = FALSE]}
                \cup {[Honest EXCEPT !.total = @ - 1] : i \in {1} \cap DOMAIN listing}
           n == Len(listing)
           Right(b) == /\ IsAnswer(b) /\ b.rows \in Seq(ToSet(listing)) /\ b.next = Fresh
                       /\ b.total \in -1..(n + 1)
<1>1. n \in Nat /\ DOMAIN listing = 1..n /\ HonestRows \in Seq(ToSet(listing))
  BY ListingIs, HonestFacts DEF Standing
<1>2. Honest = [rows |-> HonestRows, more |-> MoreToSend, next |-> Fresh, total |-> n]
  BY HonestIs
<1> HIDE DEF n
<1>3. ASSUME NEW b, NEW s \in SkewedRows, b = [Honest EXCEPT !.rows = s]
      PROVE  Right(b)
  <2>1. b = [rows |-> s, more |-> MoreToSend, next |-> Fresh, total |-> n]
    BY <1>2, <1>3
  <2>2. b.rows = s /\ b.next = Fresh /\ b.total = n /\ IsAnswer(b)
    BY <2>1 DEF IsAnswer
  <2> QED
    BY <1>1, <2>2, SkewedRowsKnown
<1>4. ASSUME NEW b, b = [Honest EXCEPT !.more = FALSE]
      PROVE  Right(b)
  <2>1. b = [rows |-> HonestRows, more |-> FALSE, next |-> Fresh, total |-> n]
    BY <1>2, <1>4
  <2>2. b.rows = HonestRows /\ b.next = Fresh /\ b.total = n /\ IsAnswer(b)
    BY <2>1 DEF IsAnswer
  <2> QED
    BY <1>1, <2>2
<1>5. ASSUME NEW b, 1 \in DOMAIN listing, b = [Honest EXCEPT !.total = @ - 1]
      PROVE  Right(b)
  <2>1. b = [rows |-> HonestRows, more |-> MoreToSend, next |-> Fresh, total |-> n - 1]
    BY <1>2, <1>5
  <2>2. b.rows = HonestRows /\ b.next = Fresh /\ b.total = n - 1 /\ IsAnswer(b)
    BY <2>1 DEF IsAnswer
  <2>3. n - 1 \in -1..(n + 1)
    BY <1>1
  <2> QED
    BY <1>1, <2>2, <2>3
<1> HIDE DEF Right
<1>6. \A b \in P : Right(b)
  BY <1>3, <1>4, <1>5
<1>7. a \in OrUntold(P)
  BY DEF SkewedPages
<1> HIDE DEF P
<1>8. PICK b \in P : Alike(a, b)
  BY <1>6, <1>7, UntoldIs DEF Right
<1>9. Right(b)
  BY <1>6
<1>10. -1 \in -1..(n + 1)
  BY <1>1
<1> QED
  BY <1>8, <1>9, <1>10 DEF Alike, Right, n

\* The rows of a page, by kind.
LEMMA PlainRows ==
    ASSUME Standing, NEW a, a.rows \in {HonestRows, <<>>}
    PROVE  /\ Len(a.rows) \in Nat /\ DOMAIN a.rows = 1..Len(a.rows)
           /\ \A i \in DOMAIN a.rows : a.rows[i] \in ToSet(listing)
<1>1. CASE a.rows = HonestRows
  <2>1. \A i \in 1..Len(HonestRows) : HonestRows[i] \in ToSet(listing)
    BY HonestFacts, ElementOfSeq
  <2> QED
    BY <1>1, <2>1, HonestFacts
<1>2. CASE a.rows = <<>>
  BY <1>2
<1> QED
  BY <1>1, <1>2

LEMMA AlienRows ==
    ASSUME Standing, NEW a, Alien(a)
    PROVE  /\ Len(a.rows) = Len(HonestRows) + 1 /\ DOMAIN a.rows = 1..Len(a.rows)
           /\ a.rows[Len(a.rows)].sku = "stranger"
           /\ \A i \in 1..Len(HonestRows) : a.rows[i] = HonestRows[i]
           /\ \A i \in DOMAIN a.rows : a.rows[i] \in ToSet(listing) \/ a.rows[i].sku = "stranger"
<1>1. PICK x : a.rows = Append(HonestRows, x) /\ x.sku = "stranger"
  BY DEF Alien
<1>2. HonestRows \in Seq(ToSet(listing)) /\ Len(HonestRows) \in Nat
      /\ DOMAIN HonestRows = 1..Len(HonestRows)
  BY HonestFacts
<1> DEFINE T == ToSet(listing)
           n == Len(HonestRows)
<1>3. \A i \in 1..n : HonestRows[i] \in T
  BY <1>2, ElementOfSeq
<1>4. /\ Len(a.rows) = n + 1 /\ DOMAIN a.rows = 1..(n + 1) /\ a.rows[n + 1] = x
      /\ \A i \in 1..n : a.rows[i] = HonestRows[i]
  <2>1. HonestRows \in Seq(T \cup {x})
    BY <1>2, SeqMonotonic
  <2> HIDE DEF T
  <2> QED
    BY <1>1, <1>2, <2>1
<1> HIDE DEF T, n
<1> QED
  BY <1>1, <1>2, <1>3, <1>4 DEF T, n

-----------------------------------------------------------------------------
(* How far a read has come.                                                *)

\* The first n rows of the vendor's have been received.
SoFar(n, s) == \A i \in 1..n : listing[i] \in s
Gathered(a) == received \cup (ToSet(a.rows) \cap ToSet(listing))

\* While it reads: unless rows were repeated, withheld or miscounted, all rows
\* before its place have been received, each once.
ReadingOK ==
    /\ reader \in Batched => At = 0
    /\ ~skewed => fetched = At /\ At <= Len(listing) /\ SoFar(At, received)

\* What a complete read has answered and counted.
BatchAnswered(k, l, p, n) ==
    /\ reader \in {"prices", "attributes", "zones", "supply_details"} =>
           Asked \subseteq l \cup {r.sku : r \in k}
    /\ reader \in Totalled \cup {"bundle"} => p \in {Unstated, n}
AllReceived(s, n) ==
    /\ SoFar(Len(listing), s)
    /\ reader \in AddedUp \cup Identified => n = Len(listing)

ReadInv ==
    /\ ReadTypeOK
    /\ \A c \in cursors : c[1] \in Nat
    /\ KeptOK(kept) /\ kept \subseteq received
    /\ \A x \in received : Accounted(x, kept, lost)
    /\ reader \in Identified => IsFiniteSet(kept) /\ fetched = Cardinality(kept)
    /\ outcome = "reading" => ReadingOK
    /\ outcome = "done" /\ ~broken => /\ BatchAnswered(kept, lost, promised, fetched)
                                      /\ ~skewed => AllReceived(received, fetched)

LEMMA ReadersKnown ==
    ASSUME reader \in Readers, listing \in Listings[reader]
    PROVE  reader \in ReaderNames /\ ListingOK(reader, listing) /\ Len(listing) \in Nat
<1>1. reader \in ReaderNames /\ ListingOK(reader, listing)
  BY ListingsAssumption DEF ReaderNames
<1> QED
  BY <1>1, ListingIs

LEMMA ReadStarts ==
    ASSUME ReadInit
    PROVE  ReadInv
<1>1. Len(listing) \in Nat
  BY ReadersKnown DEF ReadInit
<1>2. At = 0
  BY DEF ReadInit, At, Blank
<1>3. ReadTypeOK
  <2>1. promised \in -1..(Len(listing) + 1)
    <3>1. -1 \in -1..(Len(listing) + 1)
      BY <1>1
    <3> QED
      BY <3>1 DEF ReadInit, Unstated
  <2>2. odd \in 0..MaxOddPages
    <3>1. 0 \in 0..MaxOddPages
      BY ReadPageAssumption
    <3> QED
      BY <3>1 DEF ReadInit
  <2>3. cursor \in cursors /\ fetched \in Nat /\ broken \in BOOLEAN /\ skewed \in BOOLEAN
        /\ received \subseteq ToSet(listing)
    BY DEF ReadInit
  <2> QED
    BY <2>1, <2>2, <2>3 DEF ReadInit, ReadTypeOK
<1>4. ReadingOK
  BY <1>1, <1>2 DEF ReadInit, ReadingOK, SoFar
<1>5. KeptOK(kept) /\ kept \subseteq received /\ \A x \in received : Accounted(x, kept, lost)
  BY DEF ReadInit, KeptOK
<1>6. IsFiniteSet(kept) /\ fetched = Cardinality(kept)
  BY FS_EmptySet DEF ReadInit
<1>7. \A c \in cursors : c[1] \in Nat
  BY DEF ReadInit, Blank
<1> QED
  BY <1>3, <1>4, <1>5, <1>6, <1>7 DEF ReadInv, ReadInit

\* The pages that are not refused hold rows of the vendor's, but for prices.
LEMMA PageRows ==
    ASSUME Standing, NEW a, AnyPage(a), ~GivesUp(a)
    PROVE  /\ Len(a.rows) \in Nat /\ DOMAIN a.rows = 1..Len(a.rows)
           /\ RowsKnown(a.rows)
           /\ a.next[1] \in Nat \/ a.next \in cursors
           /\ a.total \in -1..(Len(listing) + 1)
<1>0. Len(listing) \in Nat /\ At \in Nat /\ Len(HonestRows) \in Nat
  BY ListingIs, HonestFacts DEF Standing
<1>1. Fresh[1] \in Nat /\ <<At, 1>>[1] \in Nat
  BY <1>0 DEF Fresh
<1>2. a.next = Fresh \/ a.next = <<At, 1>> \/ a.next \in cursors
  BY HonestPages, StrangePages, TwistedPages DEF Plain, Straight, Pause, Replay, AnyPage, Fair
<1>3. a.total \in -1..(Len(listing) + 1)
  <2>1. /\ -1 \in -1..(Len(listing) + 1) /\ Len(listing) \in -1..(Len(listing) + 1)
        /\ Len(listing) + 1 \in -1..(Len(listing) + 1)
    BY <1>0
  <2> QED
    BY <2>1, HonestPages, StrangePages, TwistedPages DEF AnyPage, Fair
<1>4. a.rows \in {HonestRows, <<>>} \/ Alien(a) \/ a.rows \in Seq(ToSet(listing))
  BY HonestPages, StrangePages, TwistedPages DEF Plain, Straight, Pause, Replay, AnyPage, Fair
<1>5. CASE a.rows \in {HonestRows, <<>>}
  BY <1>0, <1>1, <1>2, <1>3, <1>5, PlainRows DEF RowsKnown
<1>6. CASE a.rows \in Seq(ToSet(listing))
  <2>1. Len(a.rows) \in Nat /\ DOMAIN a.rows = 1..Len(a.rows)
    BY <1>6, LenProperties
  <2>2. \A i \in 1..Len(a.rows) : a.rows[i] \in ToSet(listing)
    BY <1>6, ElementOfSeq
  <2> QED
    BY <1>0, <1>1, <1>2, <1>3, <2>1, <2>2 DEF RowsKnown
<1>7. CASE Alien(a)
  <2>1. /\ Len(a.rows) = Len(HonestRows) + 1 /\ DOMAIN a.rows = 1..Len(a.rows)
        /\ a.rows[Len(a.rows)].sku = "stranger"
        /\ \A i \in DOMAIN a.rows : a.rows[i] \in ToSet(listing) \/ a.rows[i].sku = "stranger"
    BY <1>7, AlienRows
  <2>2. reader # "supply_details"
    <3> SUFFICES ASSUME reader = "supply_details"
                 PROVE  FALSE
      OBVIOUS
    <3>1. {a.rows[i].sku : i \in DOMAIN a.rows} = Asked
      BY DEF GivesUp, DetailsStop
    <3>2. Len(a.rows) \in DOMAIN a.rows
      BY <1>0, <2>1
    <3> QED
      BY <2>1, <3>1, <3>2, ListingsAssumption
  <2>3. RowsKnown(a.rows)
    BY <1>7, <2>1, <2>2, ListingsAssumption DEF RowsKnown, Alien
  <2> QED
    BY <1>0, <1>1, <1>2, <1>3, <2>1, <2>3
<1> QED
  BY <1>4, <1>5, <1>6, <1>7

\* What is made of a page that is not refused.
Taking(a, k, l) ==
    /\ KeptOK(k) /\ kept \subseteq k /\ lost \subseteq l
    /\ \A i \in DOMAIN a.rows :
          /\ a.rows[i] \in ToSet(listing) => Accounted(a.rows[i], k, l)
          /\ a.rows[i] \notin ToSet(listing) => reader \in {"prices", "attributes"}
          /\ reader \in {"supply_list", "supply_details"} =>
               a.rows[i] \in k /\ \A r \in kept : r.sku # a.rows[i].sku
    /\ \A r \in k : r \in kept \/ \E i \in DOMAIN a.rows : r = a.rows[i]

LEMMA PageTaken ==
    ASSUME Standing, KeptOK(kept), NEW a, AnyPage(a), ~GivesUp(a), ~Judged(a.rows).fatal
    PROVE  /\ Taking(a, Judged(a.rows).kept, Judged(a.rows).lost)
           /\ reader \in Identified /\ IsFiniteSet(kept) =>
                 /\ IsFiniteSet(Judged(a.rows).kept)
                 /\ Cardinality(Judged(a.rows).kept) = Cardinality(kept) + Len(a.rows)
<1>1. Len(a.rows) \in Nat /\ DOMAIN a.rows = 1..Len(a.rows) /\ RowsKnown(a.rows)
  BY PageRows
<1>2. reader \in ReaderNames /\ ListingOK(reader, listing)
  BY DEF Standing
<1> DEFINE n == Len(a.rows)
           rows == a.rows
<1>3. n \in Nat /\ DOMAIN rows = 1..n /\ RowsKnown(rows) /\ ~Judged(rows).fatal
  BY <1>1
<1>5. reader \in Identified /\ IsFiniteSet(kept) =>
          /\ IsFiniteSet(Judged(rows).kept)
          /\ Cardinality(Judged(rows).kept) = Cardinality(kept) + n
  <2> HIDE DEF n, rows
  <2> QED
    BY <1>3, ListCounted
<1> HIDE DEF n, rows
<1>4. LET j == Judged(rows)
      IN /\ KeptOK(j.kept) /\ kept \subseteq j.kept /\ lost \subseteq j.lost
         /\ \A i \in DOMAIN rows :
               /\ rows[i] \in ToSet(listing) => Accounted(rows[i], j.kept, j.lost)
               /\ rows[i] \notin ToSet(listing) => reader \in {"prices", "attributes"}
               /\ reader \in {"supply_list", "supply_details"} =>
                    rows[i] \in j.kept /\ \A k \in kept : k.sku # rows[i].sku
         /\ \A r \in j.kept : r \in kept \/ \E i \in DOMAIN rows : r = rows[i]
  BY <1>2, <1>3, RowsAccounted
<1>6. Taking(a, Judged(rows).kept, Judged(rows).lost)
  BY <1>4 DEF rows, Taking
<1> QED
  BY <1>5, <1>6 DEF rows, n

\* A row nobody asked for does not pass, but for prices and attributes.
LEMMA AlienRefused ==
    ASSUME Standing, NEW a, NEW k, NEW l, Taking(a, k, l), Alien(a)
    PROVE  reader \in {"prices", "attributes"}
<1>1. /\ Len(a.rows) = Len(HonestRows) + 1 /\ DOMAIN a.rows = 1..Len(a.rows)
      /\ a.rows[Len(a.rows)].sku = "stranger"
  BY AlienRows
<1>2. Len(a.rows) \in DOMAIN a.rows
  BY <1>1, HonestFacts
<1>3. a.rows[Len(a.rows)] \notin ToSet(listing)
  BY <1>1, ListingsAssumption DEF Standing, ListingOK, Alien
<1> QED
  BY <1>2, <1>3 DEF Taking

\* A page with the rows due brings the read forward.
LEMMA RowsAdvance ==
    ASSUME Standing, NEW a, At <= Len(listing), SoFar(At, received),
           \A i \in 1..Len(HonestRows) : i \in DOMAIN a.rows /\ a.rows[i] = HonestRows[i]
    PROVE  SoFar(At + Len(HonestRows), Gathered(a))
<1>1. /\ Len(listing) \in Nat /\ At \in Nat /\ Len(HonestRows) \in Nat
      /\ At + Len(HonestRows) <= Len(listing)
      /\ \A i \in 1..Len(HonestRows) : HonestRows[i] = listing[At + i]
      /\ \A i \in 1..Len(listing) : listing[i] \in ToSet(listing)
  BY ListingIs, HonestFacts DEF Standing
<1> SUFFICES ASSUME NEW i \in 1..(At + Len(HonestRows))
             PROVE  listing[i] \in Gathered(a)
  BY DEF SoFar
<1>2. CASE i \in 1..At
  BY <1>2 DEF SoFar, Gathered
<1>3. CASE i \notin 1..At
  <2>1. PICK p \in 1..Len(HonestRows) : i = At + p
    <3>1. i - At \in 1..Len(HonestRows) /\ i = At + (i - At)
      BY <1>1, <1>3
    <3> QED
      BY <3>1
  <2>2. a.rows[p] = listing[i] /\ p \in DOMAIN a.rows
    BY <1>1, <2>1
  <2>3. listing[i] \in ToSet(listing) /\ listing[i] \in ToSet(a.rows)
    BY <1>1, <2>2 DEF ToSet
  <2> QED
    BY <2>3 DEF Gathered
<1> QED
  BY <1>2, <1>3

\* Rows of a plain page, and what it takes to be the last one.
LEMMA PlainAdvance ==
    ASSUME Standing, NEW a, Plain(a), At <= Len(listing), SoFar(At, received)
    PROVE  /\ Len(a.rows) \in Nat /\ At \in Nat
           /\ SoFar(At + Len(a.rows), Gathered(a)) /\ At + Len(a.rows) <= Len(listing)
           /\ ~a.more => At + Len(a.rows) = Len(listing)
           /\ a.more /\ a.next \notin cursors => a.next[1] = At + Len(a.rows)
<1>1. /\ Len(listing) \in Nat /\ At \in Nat /\ Len(HonestRows) \in Nat
      /\ At + Len(HonestRows) <= Len(listing) /\ DOMAIN HonestRows = 1..Len(HonestRows)
      /\ MoreToSend <=> At + Len(HonestRows) < Len(listing)
      /\ Fresh[1] = At + Len(HonestRows) /\ <<At, 1>>[1] = At
  BY ListingIs, HonestFacts DEF Standing, Fresh
<1> DEFINE forth == /\ Len(a.rows) \in Nat /\ SoFar(At + Len(a.rows), Gathered(a))
                    /\ At + Len(a.rows) <= Len(listing)
<1>2. ASSUME a.rows = <<>>
      PROVE  forth
  <2>1. Len(a.rows) = 0 /\ At + Len(a.rows) = At
    BY <1>1, <1>2
  <2>2. SoFar(At, Gathered(a))
    BY DEF SoFar, Gathered
  <2> QED
    BY <2>1, <2>2
<1>3. ASSUME a.rows = HonestRows
      PROVE  forth
  <2>1. \A i \in 1..Len(HonestRows) : i \in DOMAIN a.rows /\ a.rows[i] = HonestRows[i]
    BY <1>1, <1>3
  <2>2. SoFar(At + Len(HonestRows), Gathered(a))
    BY <2>1, RowsAdvance
  <2> QED
    BY <1>1, <1>3, <2>2
<1>4. Len(a.rows) \in Nat /\ SoFar(At + Len(a.rows), Gathered(a)) /\ At + Len(a.rows) <= Len(listing)
  <2>1. a.rows \in {HonestRows, <<>>}
    BY DEF Plain, Straight, Pause, Replay
  <2> QED
    BY <1>1, <1>2, <1>3, <2>1
<1>5. ~a.more => At + Len(a.rows) = Len(listing)
  BY <1>1 DEF Plain, Straight, Pause, Replay
<1>6. a.more /\ a.next \notin cursors => a.next[1] = At + Len(a.rows)
  <2>1. CASE Straight(a)
    BY <1>1, <2>1 DEF Straight
  <2>2. CASE Pause(a)
    <3>1. At + Len(a.rows) = At /\ a.next[1] = At
      BY <1>1, <2>2 DEF Pause
    <3> QED
      BY <3>1
  <2>3. CASE Replay(a)
    BY <2>3 DEF Replay
  <2> QED
    BY <2>1, <2>2, <2>3 DEF Plain
<1> QED
  BY <1>1, <1>4, <1>5, <1>6

\* The place of the next request, as the reader keeps it.
Onward(a) == IF reader = "local_sale" THEN Now(a) ELSE a.next[1]

\* A page that withholds nothing, taken where nothing was withheld.
TakenFairly(a, k, l) ==
    /\ Standing /\ Fair(a) /\ ~GivesUp(a) /\ Taking(a, k, l)
    /\ fetched = At /\ At <= Len(listing) /\ SoFar(At, received)

\* What it leaves: all rows if it is the last one, or the place of the next.
Leaves(a) ==
    IF LastPage(a)
    THEN ~(reader = "orders" /\ Repeated(a)) => AllReceived(Gathered(a), Now(a))
    ELSE /\ reader \notin Batched
         /\ Onward(a) = Now(a) /\ Now(a) <= Len(listing) /\ SoFar(Now(a), Gathered(a))

LEMMA FairPages ==
    ASSUME NEW a, NEW k, NEW l, TakenFairly(a, k, l)
    PROVE  /\ Plain(a) \/ (reader \in {"prices", "attributes"} /\ Alien(a))
           /\ reader # "bundle" => a.total \in {Len(listing), Len(listing) + 1}
<1>1. Plain(a) \/ Alien(a)
  BY HonestPages, StrangePages DEF TakenFairly, Fair, Plain
<1>2. Alien(a) => reader \in {"prices", "attributes"}
  BY AlienRefused DEF TakenFairly
<1>3. reader # "bundle" => a.total \in {Len(listing), Len(listing) + 1}
  BY HonestPages, StrangePages DEF TakenFairly, Fair
<1> QED
  BY <1>1, <1>2, <1>3

\* Readers that follow a cursor.
LEMMA CursorPage ==
    ASSUME NEW a, NEW k, NEW l, TakenFairly(a, k, l),
           reader \in {"orders", "seller_stock", "supply_list", "bundle"}
    PROVE  Leaves(a)
<1>1. Plain(a) /\ reader \notin Batched \cup Totalled
  BY FairPages DEF Batched, Totalled
<1>2. /\ Len(a.rows) \in Nat /\ At \in Nat
      /\ SoFar(At + Len(a.rows), Gathered(a)) /\ At + Len(a.rows) <= Len(listing)
      /\ ~a.more => At + Len(a.rows) = Len(listing)
      /\ a.more /\ a.next \notin cursors => a.next[1] = At + Len(a.rows)
  BY <1>1, PlainAdvance DEF TakenFairly
<1>3. LastPage(a) <=> ~a.more \/ Repeated(a)
  BY <1>1 DEF LastPage
<1>4. reader # "orders" => ~Repeated(a)
  BY DEF TakenFairly, GivesUp, CursorStops, BundleStops
<1>5. Now(a) = At + Len(a.rows)
  BY DEF TakenFairly, Now
<1>6. CASE LastPage(a)
  <2>1. ASSUME ~(reader = "orders" /\ Repeated(a))
        PROVE  AllReceived(Gathered(a), Now(a))
    <3>1. At + Len(a.rows) = Len(listing)
      BY <1>2, <1>3, <1>4, <1>6, <2>1
    <3> QED
      BY <1>2, <1>5, <3>1 DEF AllReceived
  <2> QED
    BY <1>6, <2>1 DEF Leaves
<1>7. CASE ~LastPage(a)
  <2>1. a.more /\ a.next \notin cursors
    BY <1>3, <1>7 DEF Repeated
  <2>2. Onward(a) = Now(a)
    BY <1>1, <1>2, <1>5, <2>1 DEF Onward, Totalled
  <2> QED
    BY <1>1, <1>2, <1>5, <1>7, <2>2 DEF Leaves
<1> QED
  BY <1>6, <1>7

\* Readers that read up to a total.
LEMMA TotalPage ==
    ASSUME NEW a, NEW k, NEW l, TakenFairly(a, k, l), reader \in Totalled
    PROVE  Leaves(a)
<1>1. Plain(a) /\ reader \notin Batched /\ reader # "orders"
      /\ reader \notin AddedUp \cup Identified
  BY FairPages DEF Batched, Totalled, AddedUp, Identified
<1>2. /\ Len(a.rows) \in Nat /\ At \in Nat
      /\ SoFar(At + Len(a.rows), Gathered(a)) /\ At + Len(a.rows) <= Len(listing)
      /\ a.more /\ a.next \notin cursors => a.next[1] = At + Len(a.rows)
  BY <1>1, PlainAdvance DEF TakenFairly
<1>3. LastPage(a) <=> Now(a) = a.total
  BY <1>1 DEF LastPage
<1>4. Now(a) = At + Len(a.rows)
  BY DEF TakenFairly, Now
<1>5. Len(listing) \in Nat /\ a.total \in {Len(listing), Len(listing) + 1}
  BY FairPages, ListingIs DEF TakenFairly, Standing, Totalled
<1>6. CASE LastPage(a)
  <2>1. Now(a) = Len(listing)
    BY <1>2, <1>3, <1>4, <1>5, <1>6
  <2> QED
    BY <1>1, <1>2, <1>4, <1>6, <2>1 DEF Leaves, AllReceived
<1>7. CASE ~LastPage(a)
  <2>1. Onward(a) = Now(a)
    <3>1. CASE reader = "local_sale"
      BY <3>1 DEF Onward
    <3>2. CASE reader = "products"
      <4>1. ~CatalogStops(a)
        BY <3>2 DEF TakenFairly, GivesUp
      <4>2. ~(Now(a) > a.total) /\ Now(a) # a.total
        BY <1>3, <1>7, <4>1 DEF CatalogStops
      <4>3. Now(a) < a.total
        BY <1>2, <1>4, <1>5, <4>2
      <4>4. a.more /\ a.next \notin cursors
        BY <4>1, <4>3 DEF CatalogStops, Repeated
      <4> QED
        BY <1>2, <1>4, <3>2, <4>4 DEF Onward
    <3> QED
      BY <3>1, <3>2 DEF Totalled
  <2> QED
    BY <1>1, <1>2, <1>4, <1>7, <2>1 DEF Leaves
<1> QED
  BY <1>6, <1>7

\* A batch is answered at once.
LEMMA BatchPage ==
    ASSUME NEW a, NEW k, NEW l, TakenFairly(a, k, l), reader \in Batched
    PROVE  Leaves(a)
<1>1. LastPage(a) /\ reader # "orders"
  BY DEF LastPage, Batched, Totalled
<1>2. /\ At = 0 /\ Len(HonestRows) = Len(listing) /\ Len(HonestRows) \in Nat
      /\ DOMAIN HonestRows = 1..Len(HonestRows)
  BY HonestFacts DEF TakenFairly, Standing
<1>3. Now(a) = Len(a.rows) /\ At + Len(HonestRows) = Len(listing)
  <2>1. Len(a.rows) \in Nat
    BY PageRows DEF TakenFairly, AnyPage
  <2> QED
    BY <1>2, <2>1 DEF TakenFairly, Now
<1>4. CASE Plain(a)
  <2>1. a.rows = HonestRows
    BY <1>4 DEF Plain, Straight
  <2>2. SoFar(Len(listing), Gathered(a))
    BY <1>2, <1>3, <2>1, RowsAdvance DEF TakenFairly
  <2> QED
    BY <1>1, <1>2, <1>3, <2>1, <2>2 DEF Leaves, AllReceived
<1>5. CASE reader \in {"prices", "attributes"} /\ Alien(a)
  <2>1. \A i \in 1..Len(HonestRows) : i \in DOMAIN a.rows /\ a.rows[i] = HonestRows[i]
    BY <1>2, <1>5, AlienRows DEF TakenFairly
  <2>2. SoFar(Len(listing), Gathered(a))
    BY <1>3, <2>1, RowsAdvance DEF TakenFairly
  <2>3. reader \notin AddedUp \cup Identified
    BY <1>5 DEF AddedUp, Identified
  <2> QED
    BY <1>1, <2>2, <2>3 DEF Leaves, AllReceived
<1> QED
  BY <1>4, <1>5, FairPages

LEMMA PageLeaves ==
    ASSUME NEW a, NEW k, NEW l, TakenFairly(a, k, l)
    PROVE  Leaves(a)
<1>1. reader \in ReaderNames
  BY DEF TakenFairly, Standing
<1> QED
  BY <1>1, CursorPage, TotalPage, BatchPage DEF ReaderNames

\* The last page, whatever its rows: every SKU of a batch has an answer or a
\* report, and a stated total is the number of rows.
LEMMA LastAnswers ==
    ASSUME Standing, ReadTypeOK, NEW a, NEW k, NEW l, AnyPage(a), ~GivesUp(a), Taking(a, k, l),
           LastPage(a)
    PROVE  BatchAnswered(Settled(k, l), l \cup Unanswered(k), Due(a), Now(a))
<1> DEFINE s == Settled(k, l)
           m == l \cup Unanswered(k)
<1>1. s \subseteq k /\ \A r \in k : r \in s \/ r.sku \in l
  BY DEF Settled
<1>2. reader \in {"prices", "attributes", "zones"} => Asked \subseteq m \cup {r.sku : r \in s}
  <2> SUFFICES ASSUME reader \in {"prices", "attributes", "zones"}, NEW q \in Asked
               PROVE  q \in l \/ q \in Unanswered(k) \/ \E r \in s : q = r.sku
    OBVIOUS
  <2>1. CASE \A r \in k : q # r.sku
    BY <2>1 DEF Unanswered
  <2> HIDE DEF s
  <2> QED
    BY <1>1, <2>1
<1>3. reader = "supply_details" => Asked \subseteq m \cup {r.sku : r \in s}
  <2> SUFFICES ASSUME reader = "supply_details", NEW q \in Asked
               PROVE  \E r \in s : q = r.sku
    OBVIOUS
  <2>1. {a.rows[i].sku : i \in DOMAIN a.rows} = Asked
    BY DEF GivesUp, DetailsStop
  <2>2. PICK i \in DOMAIN a.rows : q = a.rows[i].sku
    BY <2>1
  <2>3. a.rows[i] \in k
    BY DEF Taking
  <2>4. s = k
    BY DEF Settled
  <2> QED
    BY <2>2, <2>3, <2>4
<1>4. Now(a) \in Nat
  <2>1. Len(a.rows) \in Nat /\ fetched \in Nat
    BY PageRows DEF ReadTypeOK
  <2> QED
    BY <2>1 DEF Now
<1>5. reader \in Totalled => Due(a) = Now(a)
  <2> SUFFICES ASSUME reader \in Totalled
               PROVE  Due(a) = Now(a)
    OBVIOUS
  <2>1. Now(a) = a.total
    BY DEF LastPage, Totalled, Batched
  <2>2. a.total # -1
    BY <1>4, <2>1
  <2> QED
    BY <2>1, <2>2 DEF Due, Unstated
<1>6. reader = "bundle" => Due(a) \in {Unstated, Now(a)}
  <2> SUFFICES ASSUME reader = "bundle"
               PROVE  Due(a) \in {Unstated, Now(a)}
    OBVIOUS
  <2>1. ~BundleStops(a)
    BY DEF GivesUp
  <2>2. ~a.more \/ Repeated(a)
    BY DEF LastPage, Batched, Totalled
  <2> QED
    BY <2>1, <2>2 DEF BundleStops
<1> HIDE DEF s, m
<1> QED
  BY <1>2, <1>3, <1>5, <1>6 DEF BatchAnswered, s, m

-----------------------------------------------------------------------------
(* The steps of a read.                                                    *)

\* What is said of a read is said of its state alone.
LEMMA SameListing ==
    ASSUME reader' = reader, listing' = listing
    PROVE  /\ KeptOK(kept)' <=> KeptOK(kept')
           /\ \A x : Accounted(x, kept, lost)' <=> Accounted(x, kept', lost')
           /\ SoFar(At, received)' <=> SoFar(At', received')
           /\ BatchAnswered(kept, lost, promised, fetched)' <=> BatchAnswered(kept', lost', promised', fetched')
           /\ AllReceived(received, fetched)' <=> AllReceived(received', fetched')
<1>1. \A x : Matters(x)' <=> Matters(x)
  BY DEF Matters
<1>2. KeptOK(kept)' <=> KeptOK(kept')
  BY DEF KeptOK
<1>3. \A x : Accounted(x, kept, lost)' <=> Accounted(x, kept', lost')
  BY <1>1 DEF Accounted
<1>4. SoFar(At, received)' <=> SoFar(At', received')
  BY DEF SoFar
<1>5. BatchAnswered(kept, lost, promised, fetched)' <=> BatchAnswered(kept', lost', promised', fetched')
  BY DEF BatchAnswered
<1>6. AllReceived(received, fetched)' <=> AllReceived(received', fetched')
  BY DEF AllReceived, SoFar
<1> QED
  BY <1>2, <1>3, <1>4, <1>5, <1>6

LEMMA PageStep ==
    ASSUME ReadInv, outcome = "reading", NEW a, TakePage(a), AnyPage(a),
           skewed' \in BOOLEAN, ~skewed' => ~skewed /\ Fair(a),
           odd' \in 0..MaxOddPages, reader' = reader, listing' = listing
    PROVE  ReadInv'
<1> DEFINE k == Judged(a.rows).kept
           l == Judged(a.rows).lost
<1>1. /\ reader \in ReaderNames /\ ListingOK(reader, listing) /\ Len(listing) \in Nat
      /\ ReadingOK /\ ReadTypeOK
  BY ReadersKnown DEF ReadInv, ReadTypeOK
<1>2. Standing
  <2>1. At \in Nat
    BY DEF At, ReadInv, ReadTypeOK
  <2> QED
    BY <1>1, <2>1 DEF Standing, ReadingOK
<1>3. CASE Judged(a.rows).fatal \/ GivesUp(a)
  <2>1. /\ outcome' = "failed"
        /\ UNCHANGED <<cursor, cursors, promised, fetched, kept, lost, broken, received>>
    BY <1>3 DEF TakePage
  <2>2. ReadTypeOK'
    BY <1>1, <2>1 DEF ReadTypeOK
  <2>3. KeptOK(kept)' /\ \A c \in cursors' : c[1] \in Nat
    BY <2>1, SameListing DEF ReadInv
  <2>4. kept' \subseteq received' /\ \A x \in received' : Accounted(x, kept, lost)'
    BY <2>1, SameListing DEF ReadInv
  <2>5. reader' \in Identified' => IsFiniteSet(kept') /\ fetched' = Cardinality(kept')
    BY <2>1 DEF ReadInv, Identified
  <2> QED
    BY <2>1, <2>2, <2>3, <2>4, <2>5 DEF ReadInv
<1>4. CASE ~(Judged(a.rows).fatal \/ GivesUp(a))
  <2>0. /\ Taking(a, k, l)
        /\ reader \in Identified /\ IsFiniteSet(kept) =>
              IsFiniteSet(k) /\ Cardinality(k) = Cardinality(kept) + Len(a.rows)
    BY <1>2, <1>4, PageTaken DEF ReadInv
  <2> HIDE DEF k, l
  <2>1. /\ lost' = l \cup (IF LastPage(a) THEN Unanswered(k) ELSE {})
        /\ kept' = IF LastPage(a) THEN Settled(k, l) ELSE k
        /\ outcome' = IF LastPage(a) THEN "done" ELSE "reading"
        /\ broken' = (\/ broken \/ Undated(a.rows)
                      \/ reader = "orders" /\ Repeated(a)
                      \/ reader = "bundle" /\ LastPage(a) /\ Now(a) = 0)
        /\ fetched' = Now(a) /\ promised' = Due(a)
        /\ cursor' = a.next /\ cursors' = cursors \cup {a.next}
        /\ received' = Gathered(a)
    BY <1>4 DEF TakePage, Gathered, k, l
  <2>2. /\ Len(a.rows) \in Nat /\ DOMAIN a.rows = 1..Len(a.rows)
        /\ a.next[1] \in Nat \/ a.next \in cursors
        /\ a.total \in -1..(Len(listing) + 1)
    BY <1>2, <1>4, PageRows
  <2>3. \A c \in cursors' : c[1] \in Nat
    BY <2>1, <2>2 DEF ReadInv
  <2>4. Settled(k, l) \subseteq k /\ \A r \in k : r \in Settled(k, l) \/ r.sku \in l
    BY DEF Settled
  <2>5. KeptOK(kept')
    BY <2>0, <2>1, <2>4 DEF Taking, KeptOK
  <2>6. k \subseteq Gathered(a)
    BY <2>0 DEF Taking, KeptOK, ReadInv, Gathered, ToSet
  <2>7. kept' \subseteq received'
    BY <2>1, <2>4, <2>6
  <2>8. \A x \in received' : Accounted(x, kept', lost')
    <3>1. \A x \in Gathered(a) : Accounted(x, k, l)
      <4> SUFFICES ASSUME NEW x \in Gathered(a)
                   PROVE  Accounted(x, k, l)
        OBVIOUS
      <4>1. CASE x \in received
        BY <2>0, <4>1 DEF ReadInv, Taking, Accounted
      <4>2. CASE x \in ToSet(a.rows) /\ x \in ToSet(listing)
        BY <2>0, <4>2 DEF Taking, ToSet
      <4> QED
        BY <4>1, <4>2 DEF Gathered
    <3>2. \A x \in Gathered(a) : Accounted(x, kept', lost')
      BY <2>1, <2>4, <3>1 DEF Accounted
    <3> QED
      BY <2>1, <3>2
  <2>9. reader \in Identified => IsFiniteSet(kept') /\ fetched' = Cardinality(kept')
    <3> SUFFICES ASSUME reader \in Identified
                 PROVE  IsFiniteSet(kept') /\ fetched' = Cardinality(kept')
      OBVIOUS
    <3>1. IsFiniteSet(k) /\ Cardinality(k) = fetched + Len(a.rows)
      BY <2>0 DEF ReadInv
    <3>2. Settled(k, l) = k
      BY DEF Settled, Identified
    <3> QED
      BY <2>1, <3>1, <3>2 DEF Now
  <2>10. ReadTypeOK'
    <3>1. promised' \in -1..(Len(listing') + 1)
      BY <1>1, <2>1, <2>2 DEF Due, ReadTypeOK
    <3>2. fetched' \in Nat
      BY <1>1, <2>1, <2>2 DEF Now, ReadTypeOK
    <3>3. broken' \in BOOLEAN
      <4>1. broken \in BOOLEAN
        BY <1>1 DEF ReadTypeOK
      <4> QED
        BY <2>1, <4>1, Zenon
    <3>4. outcome' \in {"reading", "done", "failed"} /\ cursor' \in cursors'
      BY <2>1
    <3>5. reader' \in Readers /\ listing' \in Listings[reader']
      BY <1>1 DEF ReadTypeOK
    <3>6. received' \subseteq ToSet(listing)'
      BY <1>1, <2>1 DEF Gathered, ReadTypeOK
    <3> QED
      BY <3>1, <3>2, <3>3, <3>4, <3>5, <3>6 DEF ReadTypeOK
  <2>11. ~skewed' => Leaves(a)
    <3> SUFFICES ASSUME ~skewed'
                 PROVE  Leaves(a)
      OBVIOUS
    <3>1. ~skewed /\ Fair(a)
      OBVIOUS
    <3>2. TakenFairly(a, k, l)
      BY <1>1, <1>2, <1>4, <2>0, <3>1 DEF TakenFairly, ReadingOK
    <3> QED
      BY <3>2, PageLeaves
  <2>12. CASE LastPage(a)
    <3>1. /\ outcome' = "done" /\ kept' = Settled(k, l) /\ lost' = l \cup Unanswered(k)
          /\ fetched' = Now(a) /\ promised' = Due(a) /\ received' = Gathered(a)
      BY <2>1, <2>12
    <3>2. BatchAnswered(kept', lost', promised', fetched')
      BY <1>1, <1>2, <1>4, <2>0, <2>12, <3>1, LastAnswers
    <3>3. ~broken' => ~(reader = "orders" /\ Repeated(a))
      BY <2>1, Zenon
    <3>4. ~broken' /\ ~skewed' => AllReceived(received', fetched')
      BY <2>11, <2>12, <3>1, <3>3 DEF Leaves
    <3>5. BatchAnswered(kept, lost, promised, fetched)'
      BY <3>2, SameListing
    <3>6. ~broken' /\ ~skewed' => AllReceived(received, fetched)'
      BY <3>4, SameListing
    <3>7. /\ KeptOK(kept)' /\ \A x \in received' : Accounted(x, kept, lost)'
      BY <2>5, <2>8, SameListing
    <3>8. reader' \in Identified' => IsFiniteSet(kept') /\ fetched' = Cardinality(kept')
      BY <2>9 DEF Identified
    <3> QED
      BY <2>3, <2>7, <2>10, <3>1, <3>5, <3>6, <3>7, <3>8 DEF ReadInv
  <2>13. CASE ~LastPage(a)
    <3>1. /\ outcome' = "reading" /\ kept' = k /\ lost' = l
          /\ fetched' = Now(a) /\ received' = Gathered(a)
      BY <2>1, <2>13
    <3>2. At' = Onward(a)
      BY <2>1 DEF At, Onward
    <3>3. reader \notin Batched
      BY <2>13 DEF LastPage, Batched, Totalled
    <3>4. ~skewed' => fetched' = At' /\ At' <= Len(listing) /\ SoFar(At', received')
      BY <2>11, <2>13, <3>1, <3>2 DEF Leaves
    <3>5. ~skewed' => fetched' = At' /\ At' <= Len(listing)' /\ SoFar(At, received)'
      BY <3>4, SameListing
    <3>6. ReadingOK'
      BY <3>3, <3>5 DEF ReadingOK, Batched
    <3>7. /\ KeptOK(kept)' /\ \A x \in received' : Accounted(x, kept, lost)'
      BY <2>5, <2>8, SameListing
    <3>8. reader' \in Identified' => IsFiniteSet(kept') /\ fetched' = Cardinality(kept')
      BY <2>9 DEF Identified
    <3> QED
      BY <2>3, <2>7, <2>10, <3>1, <3>6, <3>7, <3>8 DEF ReadInv
  <2> QED
    BY <2>12, <2>13
<1> QED
  BY <1>3, <1>4

LEMMA ReadInvStep == ReadInv /\ [ReadStep]_readVars => ReadInv'
<1> SUFFICES ASSUME ReadInv, [ReadStep]_readVars
             PROVE  ReadInv'
  OBVIOUS
<1>0. skewed \in BOOLEAN /\ odd \in 0..MaxOddPages /\ MaxOddPages \in Nat
  BY ReadPageAssumption DEF ReadInv, ReadTypeOK
<1>1. CASE ReadHonestPage
  <2>1. PICK a \in Pages : TakePage(a)
    BY <1>1 DEF ReadHonestPage
  <2>2. outcome = "reading" /\ reader' = reader /\ listing' = listing /\ odd' = odd
        /\ skewed' = skewed
    BY <1>1 DEF ReadHonestPage
  <2>3. Fair(a) /\ AnyPage(a)
    BY DEF Fair, AnyPage
  <2> QED
    BY <1>0, <2>1, <2>2, <2>3, PageStep
<1>2. CASE ReadOddPage
  <2>1. outcome = "reading" /\ reader' = reader /\ listing' = listing
        /\ odd' \in 0..MaxOddPages
    BY <1>0, <1>2 DEF ReadOddPage
  <2>2. ASSUME NEW a \in OddPages, TakePage(a), skewed' = skewed
        PROVE  ReadInv'
    <3>1. Fair(a) /\ AnyPage(a)
      BY DEF Fair, AnyPage
    <3> QED
      BY <1>0, <2>1, <2>2, <3>1, PageStep
  <2>3. ASSUME NEW a \in SkewedPages, TakePage(a), skewed' = TRUE
        PROVE  ReadInv'
    <3>1. AnyPage(a)
      BY DEF AnyPage
    <3> QED
      BY <2>1, <2>3, <3>1, PageStep
  <2> QED
    BY <1>2, <2>2, <2>3 DEF ReadOddPage
<1>3. CASE ReadFails
  <2>1. ReadTypeOK' /\ outcome' = "failed"
    BY <1>3 DEF ReadFails, ReadInv, ReadTypeOK
  <2>2. KeptOK(kept)' /\ \A c \in cursors' : c[1] \in Nat
    BY <1>3 DEF ReadFails, ReadInv, KeptOK
  <2>3. kept' \subseteq received' /\ \A x \in received' : Accounted(x, kept, lost)'
    BY <1>3, SameListing DEF ReadFails, ReadInv
  <2>4. reader' \in Identified' => IsFiniteSet(kept') /\ fetched' = Cardinality(kept')
    BY <1>3 DEF ReadFails, ReadInv, Identified
  <2> QED
    BY <2>1, <2>2, <2>3, <2>4 DEF ReadInv
<1>4. CASE UNCHANGED readVars
  BY <1>4 DEF readVars, ReadInv, ReadTypeOK, KeptOK, ReadingOK, BatchAnswered, AllReceived, SoFar,
              Accounted, Matters, Identified, AddedUp, At
<1> QED
  BY <1>1, <1>2, <1>3, <1>4 DEF ReadStep

LEMMA ReadInvAlways == ReadSpec => []ReadInv
BY ReadStarts, ReadInvStep, PTL DEF ReadSpec

(* Every step of a read keeps its counters, its place and its outcome in   *)
(* their types, whatever pages come.                                       *)
THEOREM ReadTypesCorrect == ReadSpec => []ReadTypeOK
<1>1. ReadInv => ReadTypeOK
  BY DEF ReadInv
<1> QED
  BY <1>1, ReadInvAlways, PTL

(* A read that counts as complete accounts for every row it was sent, and  *)
(* for every SKU it asked a batch for, whatever the vendor holds, however  *)
(* many cursors repeat and however many rows are repeated, left out or     *)
(* miscounted; unless some were, what it was sent is all that the vendor   *)
(* holds, each row that is added up once.                                  *)
THEOREM EveryRowAccounted == ReadSpec => []AccountedFor
<1>1. ASSUME ReadInv
      PROVE  AccountedFor
  <2>1. DOMAIN listing = 1..Len(listing)
    BY <1>1, ReadersKnown, ListingIs DEF ReadInv, ReadTypeOK
  <2>2. SoFar(Len(listing), received) => ToSet(listing) \subseteq received
    BY <2>1 DEF SoFar, ToSet
  <2>3. \A x \in received : Matters(x) => x \in kept \/ x.sku \in lost
    BY <1>1 DEF ReadInv, Accounted
  <2>4. kept \subseteq received /\ (reader \in Identified => fetched = Cardinality(kept))
    BY <1>1 DEF ReadInv
  <2>5. outcome = "done" /\ ~broken => /\ BatchAnswered(kept, lost, promised, fetched)
                                       /\ ~skewed => AllReceived(received, fetched)
    BY <1>1 DEF ReadInv
  <2> QED
    BY <2>2, <2>3, <2>4, <2>5 DEF AccountedFor, BatchAnswered, AllReceived
<1> QED
  BY <1>1, ReadInvAlways, PTL

-----------------------------------------------------------------------------
(* The services side by side.                                              *)

\* Whichever service moves, the invariants of all of them stay.
AllInv == TypeOK /\ AttemptsCounted /\ PricesInv /\ ReadInv

(* The services keep their types when they run side by side: the formula   *)
(* the runs check on small instances.                                      *)
THEOREM ServicesTypesCorrect == MCSpec => []ServicesTypeOK
<1>1. MCInit => AllInv
  <2> SUFFICES ASSUME MCInit
               PROVE  AllInv
    OBVIOUS
  <2>1. Init /\ PricesInit /\ ReadInit
    BY DEF MCInit, PricesStart, ReadRests, ClientRests
  <2> QED
    BY <2>1, ClientStarts, InitInv, ReadStarts DEF AllInv
<1>2. AllInv /\ [MCNext]_<<vars, priceVars, readVars, part>> => AllInv'
  <2> SUFFICES ASSUME AllInv, [MCNext]_<<vars, priceVars, readVars, part>>
               PROVE  AllInv'
    OBVIOUS
  <2>1. [Next]_vars /\ [PricesNext]_priceVars /\ [ReadStep]_readVars
    BY DEF MCNext
  <2>2. (TypeOK /\ AttemptsCounted)'
    BY <2>1, TypeStep, AttemptsStep DEF AllInv
  <2>3. PricesInv' /\ ReadInv'
    BY <2>1, PricesStep, ReadInvStep DEF AllInv
  <2> QED
    BY <2>2, <2>3 DEF AllInv
<1>3. AllInv => ServicesTypeOK
  BY DEF AllInv, ServicesTypeOK, PricesInv, ReadInv
<1> QED
  BY <1>1, <1>2, <1>3, PTL DEF MCSpec
===============================================================================
