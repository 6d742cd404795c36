------------------------------- MODULE OzonClient -------------------------------
(***************************************************************************)
(* OzonClient: every request the planner sends to the Ozon Seller API.     *)
(* Threads call post_json with a captured unlock session; the calls share  *)
(* one admission lock, the pacing of requests and the cooldown that an     *)
(* HTTP 429 starts.  The lock is held from admission to the answer of the  *)
(* transport, so a call that paces itself or waits for Ozon keeps all      *)
(* others out; between attempts a call sleeps without the lock.            *)
(*                                                                         *)
(* Time is relative: what the code keeps as a point of time on the clock   *)
(* is here the number of ticks until that point, and Tick lets one pass.   *)
(***************************************************************************)
EXTENDS Naturals

CONSTANTS
    Calls,          \* calls of post_json
    Stock,          \* those to FBO_STOCK_PATH
    Safe,           \* those whose policy is retry_safe
    Cancellable,    \* those with check_cancelled
    NoCall,         \* the admission lock is free
    MaxAttempts,    \* OzonRequestPolicy.max_attempts
    Interval,       \* _REQUEST_INTERVAL_SECONDS
    StockInterval,  \* _STOCK_INTERVAL_SECONDS
    MaxWait,        \* _MAX_SERVER_RETRY_AFTER_SECONDS
    LimitedDelay,   \* min(60, 10 * 2^(attempt-1)), by attempt
    Backoff,        \* _backoff, by attempt
    RetryAfters,    \* values of the Retry-After header; 0: absent
    MaxSession      \* bound: unlock-session transitions

ASSUME CallsAssumption ==
    /\ Stock \subseteq Calls /\ Safe \subseteq Calls /\ Cancellable \subseteq Calls
    /\ NoCall \notin Calls
ASSUME PacingAssumption ==
    /\ MaxAttempts \in Nat \ {0}
    /\ Interval \in Nat /\ StockInterval \in Nat /\ MaxWait \in Nat
    /\ LimitedDelay \in [1..MaxAttempts -> Nat] /\ Backoff \in [1..MaxAttempts -> Nat]
    /\ RetryAfters \subseteq Nat /\ MaxSession \in Nat

VARIABLES
    unlocked, gen,   \* the vault: credentials in memory, session generation
    lock,            \* _request_lock: the call that holds it, or NoCall
    nextRequest,     \* ticks until _next_request
    nextStock,       \* ticks until _next_stock_request
    cooldown,        \* ticks until _cooldown_until
    pc, attempt, session,   \* per call: progress, attempt, captured session
    wait,            \* per call: what is left of its sleep
    answer,          \* per call: the answer of the last transport call
    sent,            \* history, per call: POSTs made
    sinceAny, sinceStock,   \* history: ticks since the last POST, up to Horizon
    owed             \* history: ticks until Ozon accepts requests again

vault == <<unlocked, gen>>
timers == <<nextRequest, nextStock, cooldown>>
calls == <<pc, attempt, session, wait, answer>>
history == <<sent, sinceAny, sinceStock, owed>>
vars == <<vault, lock, timers, calls, history>>

-----------------------------------------------------------------------------
Larger(a, b) == IF a >= b THEN a ELSE b
Smaller(a, b) == IF a <= b THEN a ELSE b
Elapsed(t) == IF t = 0 THEN 0 ELSE t - 1
Horizon == Larger(Interval, StockInterval)

\* 200, 429, another transient status, any other status from 400 on, and a
\* transport exception.  429 and the transient ones may carry Retry-After.
Answer == [kind : {"ok", "error", "exception"}, after : {0}]
          \cup [kind : {"limited", "busy"}, after : RetryAfters]

Active(c) == unlocked /\ session[c] = gen

\* Wrong on purpose: the attempts are counted from zero.
OneAttemptMore(c) == IF c \in Safe THEN MaxAttempts + 1 ELSE 1
\* Wrong on purpose: the policy is not asked.
AttemptsUnasked(c) == MaxAttempts
Attempts(c) == IF c \in Safe THEN MaxAttempts ELSE 1

Goto(c, label) == pc' = [pc EXCEPT ![c] = label]
Fail(c) == Goto(c, "failed")

\* Wrong on purpose: an interrupted call keeps the admission lock.
LockKept(c) == lock
\* _admission: the lock is released on every way out.
Released(c) == IF lock = c THEN NoCall ELSE lock

-----------------------------------------------------------------------------
(* The clock and the vault.                                                *)

Tick ==
    /\ nextRequest' = Elapsed(nextRequest)
    /\ nextStock' = Elapsed(nextStock)
    /\ cooldown' = Elapsed(cooldown)
    /\ wait' = [c \in Calls |-> Elapsed(wait[c])]
    /\ sinceAny' = Smaller(sinceAny + 1, Horizon)
    /\ sinceStock' = Smaller(sinceStock + 1, Horizon)
    /\ owed' = Elapsed(owed)
    /\ UNCHANGED <<vault, lock, pc, attempt, session, answer, sent>>

Transition ==
    /\ gen < MaxSession
    /\ gen' = gen + 1
    /\ unlocked' \in BOOLEAN
    /\ UNCHANGED <<lock, timers, calls, history>>

-----------------------------------------------------------------------------
(* post_json.                                                              *)

\* capture_context, at the call or when the client was bound.
Begin(c) ==
    /\ pc[c] = "idle" /\ unlocked
    /\ session' = [session EXCEPT ![c] = gen]
    /\ Goto(c, "try")
    /\ UNCHANGED <<vault, lock, timers, attempt, wait, answer, history>>

\* The head of the attempts loop.
Try(c) ==
    /\ pc[c] = "try"
    /\ Goto(c, IF Active(c) THEN "admit" ELSE "failed")
    /\ UNCHANGED <<vault, lock, timers, attempt, session, wait, answer, history>>

\* check_cancelled raises: before an attempt, while the lock is awaited,
\* during the two kinds of sleep and after an answer.
Cancelled(c) ==
    /\ c \in Cancellable
    /\ pc[c] \in {"try", "admit", "paced", "answered", "rest"}
    /\ Fail(c)
    /\ lock' = Released(c)
    /\ UNCHANGED <<vault, timers, attempt, session, wait, answer, history>>

\* CREDENTIAL_CONTEXT_CHANGED, or a cooldown longer than the client waits.
Refused(c) ==
    /\ pc[c] = "admit" /\ lock = NoCall
    /\ ~Active(c) \/ cooldown > MaxWait
    /\ Fail(c)
    /\ UNCHANGED <<vault, lock, timers, attempt, session, wait, answer, history>>

Allowed(c) == Larger(Larger(nextRequest, cooldown), IF c \in Stock THEN nextStock ELSE 0)

\* With the lock, the call sleeps until the three limits allow its POST.
Admitted(c) ==
    /\ pc[c] = "admit" /\ lock = NoCall
    /\ Active(c) /\ cooldown <= MaxWait
    /\ lock' = c
    /\ wait' = [wait EXCEPT ![c] = Allowed(c)]
    /\ Goto(c, "paced")
    /\ UNCHANGED <<vault, timers, attempt, session, answer, history>>

\* The session was revoked during the sleep.
RevokedBeforePost(c) ==
    /\ pc[c] = "paced" /\ wait[c] = 0
    /\ ~Active(c)
    /\ Fail(c)
    /\ lock' = Released(c)
    /\ UNCHANGED <<vault, timers, attempt, session, wait, answer, history>>

\* Wrong on purpose: the lock is given back before the transport call.
LockDuringTransportGiven(c) == NoCall
LockDuringTransport(c) == lock

\* Wrong on purpose: any request restarts the pacing of the stock endpoint
\* alone.
PacedStockOnly(c) == IF c \in Stock THEN Interval ELSE nextRequest
PacedFrom(c) == Interval

Post(c) ==
    /\ pc[c] = "paced" /\ wait[c] = 0
    /\ Active(c)
    /\ nextRequest' = PacedFrom(c)
    /\ nextStock' = IF c \in Stock THEN StockInterval ELSE nextStock
    /\ lock' = LockDuringTransport(c)
    /\ Goto(c, "sent")
    /\ sent' = [sent EXCEPT ![c] = @ + 1]
    /\ sinceAny' = 0
    /\ sinceStock' = IF c \in Stock THEN 0 ELSE sinceStock
    /\ UNCHANGED <<vault, cooldown, attempt, session, wait, answer, owed>>

\* The transport answers or raises; a 429 extends the cooldown of all calls
\* before the lock is released.
Answered(c, a) ==
    /\ pc[c] = "sent"
    /\ answer' = [answer EXCEPT ![c] = a]
    /\ cooldown' = IF a.kind = "limited"
                   THEN Larger(cooldown, Larger(a.after, LimitedDelay[attempt[c]]))
                   ELSE cooldown
    /\ owed' = IF a.kind = "limited" THEN Larger(owed, a.after) ELSE owed
    /\ lock' = Released(c)
    /\ Goto(c, "answered")
    /\ UNCHANGED <<vault, nextRequest, nextStock, attempt, session, wait, sent,
                   sinceAny, sinceStock>>

\* A call keeps no answer that it has dealt with.
NoAnswer == [kind |-> "ok", after |-> 0]
Dealt(c) == answer' = [answer EXCEPT ![c] = NoAnswer]

\* Another attempt is allowed and the server does not ask for too long a wait.
Retriable(c) ==
    /\ answer[c].kind \in {"limited", "busy", "exception"}
    /\ attempt[c] < Attempts(c)
    /\ answer[c].after <= MaxWait

\* _retry_delay and _backoff.
RetryDelay(c) ==
    Larger(answer[c].after,
           IF answer[c].kind = "limited" THEN LimitedDelay[attempt[c]]
                                         ELSE Backoff[attempt[c]])

Retry(c) ==
    /\ pc[c] = "answered" /\ Active(c)
    /\ Retriable(c)
    /\ wait' = [wait EXCEPT ![c] = RetryDelay(c)]
    /\ Goto(c, "rest")
    /\ Dealt(c)
    /\ UNCHANGED <<vault, lock, timers, attempt, session, history>>

Rested(c) ==
    /\ pc[c] = "rest" /\ wait[c] = 0
    /\ attempt' = [attempt EXCEPT ![c] = @ + 1]
    /\ Goto(c, "try")
    /\ UNCHANGED <<vault, lock, timers, session, wait, answer, history>>

\* The answer, when it is a JSON object and the session is still active; an
\* error otherwise.
Finish(c) ==
    /\ pc[c] = "answered"
    /\ \/ answer[c].kind = "ok" /\ Active(c) /\ Goto(c, "done")
       \/ ~(Retriable(c) /\ Active(c)) /\ Fail(c)
    /\ Dealt(c)
    /\ UNCHANGED <<vault, lock, timers, attempt, session, wait, history>>

-----------------------------------------------------------------------------
\* No call has been made since the program started or the vault last changed.
Init ==
    /\ unlocked \in BOOLEAN /\ gen = 0
    /\ lock = NoCall
    /\ nextRequest = 0 /\ nextStock = 0 /\ cooldown = 0
    /\ pc = [c \in Calls |-> "idle"]
    /\ attempt = [c \in Calls |-> 1]
    /\ session = [c \in Calls |-> 0]
    /\ wait = [c \in Calls |-> 0]
    /\ answer = [c \in Calls |-> NoAnswer]
    /\ sent = [c \in Calls |-> 0]
    /\ sinceAny = Horizon /\ sinceStock = Horizon /\ owed = 0

\* What the thread of a call does by itself.
Step(c) ==
    \/ Try(c) \/ Refused(c) \/ Admitted(c) \/ RevokedBeforePost(c) \/ Post(c)
    \/ Retry(c) \/ Rested(c) \/ Finish(c)
    \/ \E a \in Answer : Answered(c, a)

Next ==
    \/ Tick \/ Transition
    \/ \E c \in Calls : Begin(c) \/ Cancelled(c) \/ Step(c)

Spec == Init /\ [][Next]_vars

\* Time passes, the thread of a call keeps running, and a transport call
\* ends (its timeout is below 60 seconds).  A call need not begin, and
\* nobody has to cancel it.
FairSpec == Spec /\ WF_vars(Tick) /\ \A c \in Calls : WF_vars(Step(c))

-----------------------------------------------------------------------------
(* Properties.                                                             *)

Labels == {"idle", "try", "admit", "paced", "sent", "answered", "rest", "done", "failed"}

\* The type of every variable.
TypeOK ==
    /\ unlocked \in BOOLEAN /\ gen \in 0..MaxSession
    /\ lock \in Calls \cup {NoCall}
    /\ nextRequest \in Nat /\ nextStock \in Nat /\ cooldown \in Nat
    /\ pc \in [Calls -> Labels]
    /\ attempt \in [Calls -> 1..MaxAttempts]
    /\ session \in [Calls -> 0..MaxSession]
    /\ wait \in [Calls -> Nat]
    /\ answer \in [Calls -> Answer]
    /\ sent \in [Calls -> Nat]
    /\ sinceAny \in 0..Horizon /\ sinceStock \in 0..Horizon /\ owed \in Nat

\* The step in which a call's POST leaves.
Posting(c) == pc[c] = "paced" /\ pc'[c] = "sent"

IntervalsPassed(c) ==
    /\ sinceAny >= Interval
    /\ c \in Stock => sinceStock >= StockInterval

\* Whatever the number of threads, sleeps, cancellations and session
\* changes, two POSTs are never closer than the interval, nor two stock
\* POSTs closer than theirs.
IntervalsKept ==
    [][\A c \in Calls : Posting(c) => IntervalsPassed(c)]_vars

\* No POST leaves within the time Ozon asked every client to wait, also not
\* one of a call that was admitted or slept before the 429 arrived.
CooldownKept == [][\A c \in Calls : Posting(c) => owed = 0]_vars

\* A request that is not safe to repeat, as the creation of a draft, reaches
\* Ozon at most once, whatever it is answered; any other at most MaxAttempts
\* times.
NotRepeated == \A c \in Calls : sent[c] <= IF c \in Safe THEN MaxAttempts ELSE 1

\* A call that began ends: cancellations, errors and revoked sessions leave
\* the lock to the others, and no cooldown makes a call wait for ever.
CallsEnd == \A c \in Calls : pc[c] # "idle" ~> pc[c] \in {"done", "failed"}

=============================================================================
