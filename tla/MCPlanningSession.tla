-------------------------- MODULE MCPlanningSession --------------------------
(***************************************************************************)
(* PlanningSession on small instances: constants for TLC.                  *)
(***************************************************************************)
EXTENDS PlanningSession, TLC

CONSTANTS s1, s2, r1, q1, d1, e1, e2

OneSync == {s1}
TwoSyncs == {s1, s2}
NoThreads == {}
OneRun == {r1}
OneCheck == {q1}
OneDelete == {d1}
OneEndpoint == {e1}
TwoEndpoints == {e1, e2}
Fixed == {0}
Varies == {0, 1}

=============================================================================
