--------------------------- MODULE AnnotationStore ---------------------------
(***************************************************************************)
(* The annotation ledger (annotation/store.py): jobs, their segments, the  *)
(* runtime runs the annotation Worker executes, the single writer lease,   *)
(* tracking checkpoints, source-clip leases, reviews and the handoffs that *)
(* tell the navigation workflow what happened.  Every operator below that  *)
(* primes a variable is one SQLite transaction (BEGIN IMMEDIATE ... COMMIT)*)
(* of the store.  A request that carries a stale revision or repeats an    *)
(* idempotency key changes nothing and is not an action here.              *)
(***************************************************************************)
EXTENDS Integers, Sequences, FiniteSets

CONSTANTS Jobs,      \* annotation jobs that may be created
          Clips,     \* source clips of the one dataset date
          ClipsOf,   \* ClipsOf[j]: the clips job j selects
          Segs,      \* segments a prepared job can have
          Tasks,     \* navigation tasks
          None,      \* no job, no task, no segment
          MaxRuns,   \* bound on runtime runs
          MaxDraft   \* bound on the draft revisions of a segment or a Fix

ASSUME StoreAssumption ==
    /\ ClipsOf \in [Jobs -> (SUBSET Clips) \ {{}}]
    /\ None \notin Jobs \cup Tasks \cup Segs
    /\ MaxRuns \in Nat /\ MaxDraft \in Nat

VARIABLES job,   \* annotation_jobs
          seg,   \* annotation_segments, with their drafts and revisions
          src,   \* annotation_source_leases: the job that owns a clip
          ckpt,  \* tracking_checkpoints: segment and content tracked
          runs,  \* runtime_runs in order of creation
          lease, \* runtime_leases: the one row "annotation_writer"
          rev,   \* trajectory_review_tasks, Fix drafts, revisions, publications
          hand,  \* workflow_handoffs with their deliveries
          auth   \* annotation_processing_authorities

storeVars == <<job, seg, src, ckpt, runs, lease, rev, hand, auth>>

JobStatus == {"none", "preparing", "waiting_initial_annotation", "tracking",
              "tracked", "postprocessing", "annotated", "failed", "cancelled"}
SegStatus == {"none", "pending_initial_annotation", "draft", "submitted",
              "skipped", "tracking", "tracked", "postprocessing",
              "postprocessing_failed", "annotated"}
RunKind == {"prepare", "tracking", "postprocessing", "fix",
            "compatibility_publish"}
Failure == {"none", "retryable", "final", "recovery_required"}
ProcessingKinds == {"initial_annotation_submitted", "tracking_completed",
                    "postprocessing_completed", "postprocessing_failed"}
ReviewKinds == {"fix_revision_submitted", "review_returned", "review_completed"}

NoLease == [run |-> 0, live |-> FALSE, own |-> FALSE]
NewSegment == [st |-> "none", draft |-> 0, revs |-> <<>>, sub |-> 0,
               rst |-> "none", rsub |-> 0]
NewReview == [st |-> "none", draft |-> 0, fixes |-> <<>>, appr |-> 0,
              task |-> None]

StoreInit ==
    /\ job = [j \in Jobs |-> [st |-> "none", fail |-> "none",
                              cancel |-> FALSE, ref |-> 0]]
    /\ seg = [j \in Jobs |-> [s \in Segs |-> NewSegment]]
    /\ src = [c \in Clips |-> None]
    /\ ckpt = [j \in Jobs |-> {}]
    /\ runs = <<>> /\ lease = NoLease
    /\ rev = [j \in Jobs |-> [s \in Segs |-> NewReview]]
    /\ hand = <<>>
    /\ auth = [j \in Jobs |-> None]

----------------------------------------------------------------------------
(* Shared helpers of the transactions.                                     *)

(* _enqueue_run; d is the Fix draft or Fix revision the run is bound to.   *)
EnqueueRun(j, kind, s, d) ==
    /\ Len(runs) < MaxRuns
    /\ runs' = Append(runs, [job |-> j, kind |-> kind, seg |-> s, d |-> d,
                             st |-> "queued", fail |-> "none",
                             fence |-> FALSE, step |-> "idle"])

Running(r) == r \in DOMAIN runs /\ runs[r].st = "running"

WithoutLease(r) == IF lease.run = r THEN NoLease ELSE lease

(* _finish_run *)
FinishRun(r, st) ==
    /\ runs' = [runs EXCEPT ![r].st = st]
    /\ lease' = WithoutLease(r)

(* _finalize_cancelled_job: the job is cancelled and its clips are free.   *)
WithoutSources(j) == [c \in Clips |-> IF src[c] = j THEN None ELSE src[c]]
FinalizeCancelledJob(j) ==
    /\ job' = [job EXCEPT ![j].st = "cancelled", ![j].cancel = FALSE]
    /\ src' = WithoutSources(j)

(* INSERT INTO workflow_handoffs: the trigger pins a processing handoff to *)
(* the task that is the processing authority at that moment.               *)
Handoff(j, kind, s) ==
    [job |-> j, kind |-> kind, seg |-> s, d |-> "new", used |-> FALSE,
     task |-> IF kind \in ProcessingKinds THEN auth[j] ELSE None]

(* Every segment of j in one of the states of From moves to state to.      *)
MoveSegments(j, From, to) ==
    [seg EXCEPT ![j] = [s \in Segs |->
        IF seg[j][s].st \in From THEN [seg[j][s] EXCEPT !.st = to]
        ELSE seg[j][s]]]

SegmentsIn(j, S) == {s \in Segs : seg[j][s].st \in S}
Resolved(j) == SegmentsIn(j, SegStatus \ {"none", "submitted", "skipped"}) = {}

RunsOf(j, st) == {r \in DOMAIN runs : runs[r].job = j /\ runs[r].st \in st}
LastRun(j) == LET rs == {r \in DOMAIN runs : runs[r].job = j}
              IN CHOOSE r \in rs : \A q \in rs : q <= r

----------------------------------------------------------------------------
(* Jobs and segments, called by users through the Web API.                 *)

(* create_job: refused when a selected clip belongs to another job.        *)
CreateJob(j) ==
    /\ job[j].st = "none"
    /\ \A c \in ClipsOf[j] : src[c] = None
    /\ job' = [job EXCEPT ![j].st = "preparing"]
    /\ src' = [c \in Clips |-> IF c \in ClipsOf[j] THEN j ELSE src[c]]
    /\ EnqueueRun(j, "prepare", None, 0)
    /\ UNCHANGED <<seg, ckpt, lease, rev, hand, auth>>

WaitingJob(j) == job[j].st = "waiting_initial_annotation"

(* save_draft *)
SaveDraft(j, s) ==
    /\ WaitingJob(j)
    /\ seg[j][s].st \in {"pending_initial_annotation", "draft"}
    /\ seg[j][s].draft < MaxDraft
    /\ LET g == seg[j][s]
       IN seg' = [seg EXCEPT ![j][s] =
                     [g EXCEPT !.st = "draft", !.draft = g.draft + 1, !.sub = 0]]
    /\ UNCHANGED <<job, src, ckpt, runs, lease, rev, hand, auth>>

(* Mutant: a second submission points to the revision before it.           *)
SubmitStale(j, s) ==
    /\ WaitingJob(j)
    /\ seg[j][s].st # "none"
    /\ seg[j][s].draft > 0
    /\ Len(seg[j][s].revs) < MaxDraft
    /\ LET g == seg[j][s]
       IN seg' = [seg EXCEPT ![j][s] =
                     [g EXCEPT !.st = "submitted", !.revs = Append(g.revs, g.draft),
                               !.sub = IF g.revs = <<>> THEN 1 ELSE Len(g.revs)]]
    /\ UNCHANGED <<job, src, ckpt, runs, lease, rev, hand, auth>>

(* submit_segment: a complete draft becomes a revision; the segment's own  *)
(* status is not looked at.  The submission that resolves the last segment *)
(* emits the one initial_annotation_submitted handoff of the job.          *)
SubmitSegment(j, s) ==
    /\ WaitingJob(j)
    /\ seg[j][s].st # "none"
    /\ seg[j][s].draft > 0
    /\ Len(seg[j][s].revs) < MaxDraft
    /\ LET g == seg[j][s]
       IN seg' = [seg EXCEPT ![j][s] =
                     [g EXCEPT !.st = "submitted", !.revs = Append(g.revs, g.draft),
                               !.sub = Len(g.revs) + 1]]
    /\ LET resolves == \A t \in Segs \ {s} :
                          seg[j][t].st \in {"none", "submitted", "skipped"}
           emitted == \E h \in DOMAIN hand :
                         hand[h].job = j
                         /\ hand[h].kind = "initial_annotation_submitted"
       IN hand' = IF resolves /\ ~emitted
                  THEN Append(hand, Handoff(j, "initial_annotation_submitted", None))
                  ELSE hand
    /\ UNCHANGED <<job, src, ckpt, runs, lease, rev, auth>>

(* segment_action: reopen, skip, unskip *)
Reopen(j, s) ==
    /\ WaitingJob(j)
    /\ seg[j][s].st = "submitted"
    /\ LET g == seg[j][s]
       IN seg' = [seg EXCEPT ![j][s] =
                     [g EXCEPT !.st = "draft", !.sub = 0, !.rst = "none", !.rsub = 0]]
    /\ UNCHANGED <<job, src, ckpt, runs, lease, rev, hand, auth>>

Skip(j, s) ==
    /\ WaitingJob(j)
    /\ seg[j][s].st \in {"pending_initial_annotation", "draft", "submitted"}
    /\ LET g == seg[j][s]
       IN seg' = [seg EXCEPT ![j][s] =
                     [g EXCEPT !.st = "skipped", !.sub = 0, !.rst = g.st,
                               !.rsub = IF g.st = "submitted" THEN g.sub ELSE 0]]
    /\ UNCHANGED <<job, src, ckpt, runs, lease, rev, hand, auth>>

Unskip(j, s) ==
    /\ WaitingJob(j)
    /\ seg[j][s].st = "skipped"
    /\ LET g == seg[j][s]
       IN seg' = [seg EXCEPT ![j][s] =
                     [g EXCEPT !.st = g.rst, !.sub = g.rsub, !.rst = "none",
                               !.rsub = 0]]
    /\ UNCHANGED <<job, src, ckpt, runs, lease, rev, hand, auth>>

(* start_tracking: every segment resolved and at least one submitted.      *)
TrackingReady(j) ==
    /\ WaitingJob(j)
    /\ Resolved(j)
    /\ SegmentsIn(j, {"submitted"}) # {}
StartTracking(j) ==
    /\ TrackingReady(j)
    /\ job' = [job EXCEPT ![j].st = "tracking"]
    /\ seg' = MoveSegments(j, {"submitted"}, "tracking")
    /\ EnqueueRun(j, "tracking", None, 0)
    /\ UNCHANGED <<src, ckpt, lease, rev, auth>>

(* _cancel_job: queued runs are cancelled; a running one is only asked to  *)
(* stop - unless its publication fence is already recorded, which refuses  *)
(* the request; without a running one the job is cancelled at once.        *)
CancelQueued(j) == [r \in DOMAIN runs |->
                       IF runs[r].job = j /\ runs[r].st = "queued"
                       THEN [runs[r] EXCEPT !.st = "cancelled"] ELSE runs[r]]
(* Mutant: a cancel after the publication fence is accepted.               *)
NeverFenced(j) == FALSE
Fenced(j) == \E r \in RunsOf(j, {"running"}) :
                runs[r].kind = "postprocessing" /\ runs[r].fence
(* Mutant: the clips are given back before the run has stopped.            *)
CancelFreesClips(j) ==
    /\ runs' = CancelQueued(j)
    /\ IF RunsOf(j, {"running"}) # {}
       THEN /\ ~Fenced(j)
            /\ job' = [job EXCEPT ![j].cancel = TRUE]
            /\ src' = WithoutSources(j)
       ELSE FinalizeCancelledJob(j)
    /\ UNCHANGED <<seg, ckpt, lease, rev, hand, auth>>
CancelActiveJob(j) ==
    /\ runs' = CancelQueued(j)
    /\ IF RunsOf(j, {"running"}) # {}
       THEN /\ ~Fenced(j)
            /\ job' = [job EXCEPT ![j].cancel = TRUE]
            /\ UNCHANGED src
       ELSE FinalizeCancelledJob(j)
    /\ UNCHANGED <<seg, ckpt, lease, rev, hand, auth>>

(* complete_no_processable_targets *)
CompleteNoTargets(j) ==
    /\ WaitingJob(j)
    /\ SegmentsIn(j, SegStatus \ {"none"}) # {}
    /\ SegmentsIn(j, SegStatus \ {"none", "skipped"}) = {}
    /\ CancelActiveJob(j)

(* cancel_job *)
CancelJob(j) ==
    /\ job[j].st \notin {"none", "tracked", "annotated", "cancelled"}
    /\ job[j].fail # "recovery_required"
    /\ CancelActiveJob(j)

(* What retry_job and operator_confirm_recovery (disposition retry) share: *)
(* the kind of the last run decides the status the job returns to.         *)
ReturnToStage(j) ==
    LET kind == runs[LastRun(j)].kind
    IN /\ job' = [job EXCEPT ![j] =
                     [st |-> CASE kind = "tracking" -> "tracking"
                               [] kind = "postprocessing" -> "postprocessing"
                               [] OTHER -> "preparing",
                      fail |-> "none", cancel |-> FALSE, ref |-> 0]]
       /\ seg' = CASE kind = "tracking" ->
                        MoveSegments(j, {"submitted", "tracking"}, "tracking")
                   [] kind = "postprocessing" ->
                        MoveSegments(j, {"tracked", "postprocessing",
                                         "postprocessing_failed"}, "postprocessing")
                   [] OTHER -> seg
       /\ EnqueueRun(j, kind, None, 0)
       /\ UNCHANGED <<src, ckpt, lease, rev, hand, auth>>

(* retry_job *)
RetryJob(j) ==
    /\ job[j].st = "failed" /\ job[j].fail = "retryable"
    /\ ReturnToStage(j)

(* begin_postprocessing, called by the navigation task that must be the    *)
(* processing authority of the job.                                        *)
BeginPostprocessing(j, t) ==
    /\ job[j].st = "tracked"
    /\ SegmentsIn(j, {"tracked"}) # {}
    /\ SegmentsIn(j, SegStatus \ {"none", "tracked", "skipped"}) = {}
    /\ auth[j] = t
    /\ job' = [job EXCEPT ![j].st = "postprocessing"]
    /\ seg' = MoveSegments(j, {"tracked"}, "postprocessing")
    /\ EnqueueRun(j, "postprocessing", None, 0)
    /\ UNCHANGED <<src, ckpt, lease, rev, hand, auth>>

----------------------------------------------------------------------------
(* The runtime ledger, called by the annotation Worker.                    *)

(* _recover_interrupted_runs_conn, the runs it finds: running without a    *)
(* live lease of this incarnation (no row, expired, another owner_epoch).  *)
Interrupted == {r \in DOMAIN runs :
                   runs[r].st = "running"
                   /\ ~(lease.run = r /\ lease.live /\ lease.own)}

(* _has_recovery_quarantine_conn *)
RecoveryQuarantine == \E j \in Jobs : job[j].st = "failed"
                                      /\ job[j].fail = "recovery_required"

(* claim_next_run: a queued run whose owner is still in the state that     *)
(* wants it, first in order of creation.                                   *)
LatestPublication(j, s) ==
    LET ps == {r \in DOMAIN runs : runs[r].kind = "compatibility_publish"
                                   /\ runs[r].job = j /\ runs[r].seg = s}
    IN IF ps = {} THEN 0 ELSE CHOOSE r \in ps : \A q \in ps : q <= r
Claimable(r) ==
    LET j == runs[r].job
    IN /\ runs[r].st = "queued"
       /\ CASE runs[r].kind = "prepare" -> job[j].st = "preparing"
            [] runs[r].kind = "fix" ->
                 job[j].st = "annotated" /\ rev[j][runs[r].seg].st = "in_progress"
            [] runs[r].kind = "compatibility_publish" ->
                 /\ job[j].st = "annotated"
                 /\ rev[j][runs[r].seg].st = "approved"
                 /\ rev[j][runs[r].seg].appr = runs[r].d
            [] OTHER -> job[j].st = runs[r].kind
ClaimNextRun(r) ==
    /\ Interrupted = {}
    /\ ~RecoveryQuarantine
    /\ Claimable(r) /\ \A q \in 1 .. r - 1 : ~Claimable(q)
    /\ lease.run = 0 \/ ~lease.live
    /\ lease' = [run |-> r, live |-> TRUE, own |-> TRUE]
    /\ runs' = [runs EXCEPT ![r].st = "running"]
    /\ UNCHANGED <<job, seg, src, ckpt, rev, hand, auth>>

(* runtime_control_state *)
ControlState(r) ==
    IF runs[r].st # "running"
    THEN IF runs[r].fail = "recovery_required" THEN "recovery_required" ELSE "finished"
    ELSE IF job[runs[r].job].cancel THEN "cancel_requested"
    ELSE IF lease.run = r /\ lease.live THEN "continue" ELSE "lease_lost"

(* renew_run_lease *)
RenewLease(r) ==
    /\ lease.run = r
    /\ lease' = [lease EXCEPT !.live = TRUE]
    /\ UNCHANGED <<job, seg, src, ckpt, runs, rev, hand, auth>>

(* start_runtime_step, finish_runtime_step *)
StartStep(r) ==
    /\ Running(r)
    /\ runs' = [runs EXCEPT ![r].step = "started"]
    /\ UNCHANGED <<job, seg, src, ckpt, lease, rev, hand, auth>>
FinishStep(r, ok) ==
    /\ Running(r) /\ runs[r].step = "started"
    /\ runs' = [runs EXCEPT ![r].step = IF ok THEN "idle" ELSE "failed"]
    /\ UNCHANGED <<job, seg, src, ckpt, lease, rev, hand, auth>>

(* begin_postprocessing_publication: the durable fence, refused when a     *)
(* cancel was requested before it.                                         *)
PublicationAllowed(r) == ~job[runs[r].job].cancel
BeginPublication(r) ==
    /\ Running(r) /\ runs[r].kind = "postprocessing"
    /\ job[runs[r].job].st = "postprocessing"
    /\ PublicationAllowed(r)
    /\ runs' = [runs EXCEPT ![r].fence = TRUE, ![r].step = "started"]
    /\ UNCHANGED <<job, seg, src, ckpt, lease, rev, hand, auth>>

(* _require_runtime_step_ledger *)
StepLedgerComplete(r) == runs[r].step = "idle"

(* A completion that finds a requested cancel ends the run as cancelled.   *)
CompleteAsCancelled(r) ==
    /\ Running(r) /\ job[runs[r].job].cancel
    /\ FinishRun(r, "cancelled")
    /\ FinalizeCancelledJob(runs[r].job)
    /\ UNCHANGED <<seg, ckpt, rev, hand, auth>>

(* complete_cancelled_run *)
CompleteCancelledRun(r) ==
    IF runs[r].st = "cancelled" THEN UNCHANGED storeVars
    ELSE CompleteAsCancelled(r)

(* _fail_run_conn.  A requested cancel wins over any failure but           *)
(* recovery_required; a run already failed for recovery keeps that verdict;*)
(* Fix and publication runs leave their job alone; a failed postprocessing *)
(* run tells the navigation workflow.                                      *)
CancelWins(r, f) == f # "recovery_required" /\ Running(r) /\ job[runs[r].job].cancel
AlreadyDecided(r) == runs[r].st = "failed" /\ runs[r].fail = "recovery_required"
FailedRun(r, f) == [runs EXCEPT ![r].st = "failed", ![r].fail = f]
FailJobOf(r, f) ==
    LET j == runs[r].job
    IN IF job[j].st = "cancelled" THEN UNCHANGED <<job, seg, hand>>
       ELSE /\ job' = [job EXCEPT ![j].st = "failed", ![j].fail = f, ![j].ref = r]
            /\ IF runs[r].kind = "postprocessing"
               THEN /\ seg' = MoveSegments(j, {"postprocessing"},
                                           "postprocessing_failed")
                    /\ hand' = IF Running(r)
                               THEN Append(hand, Handoff(j, "postprocessing_failed", None))
                               ELSE hand
               ELSE UNCHANGED <<seg, hand>>
FailRun(r, f) ==
    IF CancelWins(r, f) THEN
        /\ runs' = [runs EXCEPT ![r].st = "cancelled",
                                ![r].step = IF @ = "started" THEN "failed" ELSE @]
        /\ lease' = WithoutLease(r)
        /\ FinalizeCancelledJob(runs[r].job)
        /\ UNCHANGED <<seg, ckpt, rev, hand, auth>>
    ELSE IF AlreadyDecided(r) THEN UNCHANGED storeVars
    ELSE
        /\ runs' = FailedRun(r, f)
        /\ lease' = WithoutLease(r)
        /\ IF runs[r].kind \in {"fix", "compatibility_publish"}
           THEN UNCHANGED <<job, seg, hand>>
           ELSE FailJobOf(r, f)
        /\ UNCHANGED <<src, ckpt, rev, auth>>

(* fail_active_runtime_step *)
FailActiveStep(r) ==
    /\ runs' = [runs EXCEPT ![r].step = IF @ = "started" THEN "failed" ELSE @]
    /\ UNCHANGED <<job, seg, src, ckpt, lease, rev, hand, auth>>

(* complete_prepare; S is the set of segments the runtime prepared.        *)
CompletePrepare(r, S) ==
    LET j == runs[r].job
    IN /\ Running(r) /\ ~job[j].cancel /\ job[j].st = "preparing"
       /\ StepLedgerComplete(r)
       /\ S # {}
       /\ seg' = [seg EXCEPT ![j] = [s \in Segs |->
                     IF s \in S
                     THEN [seg[j][s] EXCEPT !.st = "pending_initial_annotation"]
                     ELSE seg[j][s]]]
       /\ job' = [job EXCEPT ![j].st = "waiting_initial_annotation"]
       /\ FinishRun(r, "succeeded")
       /\ UNCHANGED <<src, ckpt, rev, hand, auth>>

(* Content of the revision a tracking segment was submitted with.          *)
SubmittedContent(j, s) == seg[j][s].revs[seg[j][s].sub]

(* record_tracking_checkpoint: content is what the runtime tracked.        *)
RecordCheckpoint(r, s, content) ==
    LET j == runs[r].job
    IN /\ Running(r) /\ job[j].st = "tracking" /\ ~job[j].cancel
       /\ seg[j][s].sub > 0 /\ content = SubmittedContent(j, s)
       /\ ckpt' = [ckpt EXCEPT ![j] = @ \cup {<<s, content>>}]
       /\ UNCHANGED <<job, seg, src, runs, lease, rev, hand, auth>>

(* complete_tracking *)
CheckpointsComplete(j) ==
    \A s \in SegmentsIn(j, {"tracking"}) : <<s, SubmittedContent(j, s)>> \in ckpt[j]
CompleteTracking(r) ==
    LET j == runs[r].job
    IN /\ Running(r) /\ ~job[j].cancel /\ job[j].st = "tracking"
       /\ StepLedgerComplete(r) /\ CheckpointsComplete(j)
       /\ SegmentsIn(j, {"tracking"}) # {}
       /\ seg' = MoveSegments(j, {"tracking"}, "tracked")
       /\ job' = [job EXCEPT ![j].st = "tracked"]
       /\ hand' = Append(hand, Handoff(j, "tracking_completed", None))
       /\ FinishRun(r, "succeeded")
       /\ UNCHANGED <<src, ckpt, rev, auth>>

(* complete_postprocessing_run, _complete_postprocessing_conn: one pending *)
(* review per postprocessed segment.                                       *)
CompletePostprocessing(r) ==
    LET j == runs[r].job
        done == SegmentsIn(j, {"postprocessing"})
    IN /\ Running(r) /\ runs[r].kind = "postprocessing"
       /\ ~job[j].cancel /\ job[j].st = "postprocessing"
       /\ StepLedgerComplete(r) /\ done # {}
       /\ seg' = MoveSegments(j, {"postprocessing"}, "annotated")
       /\ rev' = [rev EXCEPT ![j] = [s \in Segs |->
                     IF s \in done THEN [rev[j][s] EXCEPT !.st = "pending"]
                     ELSE rev[j][s]]]
       /\ job' = [job EXCEPT ![j].st = "annotated"]
       /\ hand' = Append(hand, Handoff(j, "postprocessing_completed", None))
       /\ FinishRun(r, "succeeded")
       /\ UNCHANGED <<src, ckpt, auth>>

(* Mutant: an interrupted run may be retried from the Web.                 *)
RecoverRetryable(r) == r \in Interrupted /\ FailRun(r, "retryable")

(* _recover_interrupted_runs_conn, the verdict on the run.                 *)
RecoverInterrupted(r) == r \in Interrupted /\ FailRun(r, "recovery_required")
=============================================================================
