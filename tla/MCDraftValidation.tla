-------------------------- MODULE MCDraftValidation --------------------------
(***************************************************************************)
(* DraftValidation on small instances: constants for TLC.                  *)
(***************************************************************************)
EXTENDS DraftValidation, TLC

CONSTANTS q1, q2, q3, a, b

TwoCalls == {q1, q2}
ThreeCalls == {q1, q2, q3}
OneKey == {a}
TwoKeys == {a, b}

\* Two calls that validate the same candidates in opposite orders.
Crossed == q1 :> <<a, b>> @@ q2 :> <<b, a>>
\* Three calls for one candidate, one after another or overlapping.
Same == q1 :> <<a>> @@ q2 :> <<a>> @@ q3 :> <<a>>
\* The same candidate before and after another one.
Around == q1 :> <<a, b>> @@ q2 :> <<a>>

\* The calls of Same do the same work.
CallSymmetry == Permutations(ThreeCalls)

\* One create per tick, two in three ticks.
Stepped == {[window |-> 1, cap |-> 1], [window |-> 3, cap |-> 2]}
Plenty == {[window |-> 4, cap |-> 4]}

=============================================================================
