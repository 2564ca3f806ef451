-------------------------- MODULE MCTrainingSystem --------------------------
(* One node and one run, in the environments a run of TLC explores: long    *)
(* has two stages and short has one; ThreeStages lengthens every run.       *)
EXTENDS TrainingSystem

CONSTANTS long, short

MCStageCount == [r \in Runs |-> IF r = short THEN 1 ELSE 2]
ThreeStages == [r \in Runs |-> 3]

Calm == [runs |-> {long}, stops |-> 1, crashes |-> 0, deaths |-> 0, launches |-> 3,
         lossy |-> FALSE, slow |-> FALSE, races |-> FALSE, main_first |-> TRUE]

(* Supervisors may be killed.                                               *)
Supervised == {[Calm EXCEPT !.stops = 2, !.deaths = 1, !.launches = 4]}
(* The Worker crashes once and a supervisor may be killed; supervisors act  *)
(* after the timeout and one is killed, or all threads begin together, with *)
(* two stages or with a stop; the network loses calls and answers, and the  *)
(* Worker crashes once.                                                     *)
Crashing == [Calm EXCEPT !.crashes = 1]
Slow == [Calm EXCEPT !.slow = TRUE]
Together == [Slow EXCEPT !.main_first = FALSE]
Faults == {[Crashing EXCEPT !.deaths = 1, !.launches = 2],
           [Slow EXCEPT !.deaths = 1],
           [Together EXCEPT !.stops = 0],
           [Together EXCEPT !.runs = {short}],
           [Crashing EXCEPT !.runs = {short}, !.lossy = TRUE]}
StopRace == {Calm}
LostExit == {[Crashing EXCEPT !.runs = {short}]}
(* Nothing fails; two threads watch the run.                                *)
StaleExit == {[Calm EXCEPT !.stops = 0, !.main_first = FALSE]}
=============================================================================
