------------------------- MODULE MCSimulatedTraining -------------------------
(* Two runs, one of two stages and one of a single stage that fails, and    *)
(* two workers of which one may end at any moment.                          *)
EXTENDS SimulatedTraining

CONSTANTS r1, r2

MCStageCount == [r \in Runs |-> IF r = r1 THEN 2 ELSE 1]
MCFailing == {<<r2, 1>>}
=============================================================================
