--------------------------- MODULE MCAnnotation ---------------------------
(* Small instances of the annotation service; a job selects all clips.      *)
EXTENDS AnnotationSystem, TLC

MCClipsOf == [j \in Jobs |-> Clips]

(* Jobs are interchangeable.                                                *)
JobSymmetry == Permutations(Jobs)

(* While a second job competes the jobs are prepared once each and not yet  *)
(* annotated, and the other navigation writer keeps away.                   *)
Rivals == Cardinality({j \in Jobs : job'[j].st # "none"}) > 1
Bounds == Rivals => /\ Len(runs') <= 2
                    /\ \A j \in Jobs, s \in Segs : seg'[j][s].draft = 0
                    /\ \A m \in markers' : m.who # "navigation"

(* The steps of a service that reviews nothing and delivers no handoffs.    *)
FaultsNext ==
    \/ PipelineRequest
    \/ \E j \in Jobs : CancelCommit(j) \/ CancelOwns(j) \/ CancelTold(j) \/ OpConfirm(j)
    \/ NavigationWrites \/ OrphanEnds
    \/ OpRecord \/ OpComplete \/ OpUnlink \/ OpDies \/ OpReplay
    \/ WorkerStep \/ ServiceEnds \/ ServiceStarts
FaultsSpec == Init /\ [][FaultsNext]_vars
=============================================================================
