----------------------------- MODULE DraftPromise -----------------------------
(***************************************************************************)
(* What the draft validation promises to the seller's Ozon cabinet,        *)
(* whoever calls, joins, polls, times out or is revoked in between: a      *)
(* candidate is sent to Ozon as a new draft only when nothing known about  *)
(* its last one forbids it.  One variable per candidate, no calls, no      *)
(* cache and no table of validations in flight.                            *)
(***************************************************************************)
EXTENDS Naturals

CONSTANTS
    Keys,          \* candidate fingerprints
    CacheTTL,      \* how long an answer is repeated instead of asked again
    UnknownTTL,    \* how long an ambiguous create is not sent again
    ResumeTTL,     \* how long an unresolved draft is resumed instead
    MaxTime        \* bound: ticks

VARIABLES
    now,
    create         \* per candidate: the fate of its last create, and since when

promiseVars == <<now, create>>

Answers == {"open", "closed", "unknown", "lost"}

\* How long a create that ended so is not followed by another one.
Rest(fate) ==
    CASE fate = "open" -> ResumeTTL
      [] fate = "unknown" -> UnknownTTL
      [] fate = "closed" -> CacheTTL
      [] fate \in {"none", "resolved", "lost"} -> 0

Init ==
    /\ now = 0
    /\ create = [k \in Keys |-> [fate |-> "none", since |-> 0]]

Tick ==
    /\ now < MaxTime
    /\ now' = now + 1
    /\ UNCHANGED create

\* The only way to a second draft.
Create(k) ==
    /\ create[k].fate # "sent"
    /\ now - create[k].since >= Rest(create[k].fate)
    /\ create' = [create EXCEPT ![k] = [fate |-> "sent", since |-> now]]
    /\ UNCHANGED now

\* Ozon names a draft or refuses, nobody knows, or nobody may know any more.
Answer(k) ==
    /\ create[k].fate = "sent"
    /\ \E fate \in Answers : create' = [create EXCEPT ![k] = [fate |-> fate, since |-> now]]
    /\ UNCHANGED now

Resolve(k) ==
    /\ create[k].fate = "open"
    /\ create' = [create EXCEPT ![k].fate = "resolved"]
    /\ UNCHANGED now

Next == Tick \/ \E k \in Keys : Create(k) \/ Answer(k) \/ Resolve(k)

Spec == Init /\ [][Next]_promiseVars
===============================================================================
