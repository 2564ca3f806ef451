-------------------------- MODULE AnnotationReviews --------------------------
(***************************************************************************)
(* The second half of annotation/store.py: trajectory reviews with their   *)
(* Fix drafts, Fix revisions and publications, dataset releases and        *)
(* resets, and the delivery of workflow handoffs to navigation tasks.      *)
(* A compatibility publication is the run that executes it: the two rows   *)
(* are created, started and settled in the same transactions.              *)
(***************************************************************************)
EXTENDS AnnotationStore

CONSTANT MaxHand     \* bound on handoffs, so that returns and resumptions end

VARIABLES released,  \* dataset_releases holds the dataset date
          linked     \* annotation_task_links: tasks linked for processing

reviewVars == <<released, linked>>

(* A queued or running run bound to the review by runtime_run_review_links.*)
FixActive(j, s) == \E r \in RunsOf(j, {"queued", "running"}) :
                      runs[r].kind = "fix" /\ runs[r].seg = s

(* create_fix_session: the first draft of a pending review.                *)
CreateFixSession(j, s) ==
    /\ rev[j][s].st = "pending" /\ rev[j][s].draft = 0
    /\ rev' = [rev EXCEPT ![j][s] = [@ EXCEPT !.st = "in_progress", !.draft = 1]]
    /\ UNCHANGED <<job, seg, src, ckpt, runs, lease, hand, auth, released, linked>>

(* resume_returned_review *)
ResumeReturnedReview(j, s) ==
    /\ rev[j][s].st = "returned" /\ rev[j][s].draft > 0
    /\ rev' = [rev EXCEPT ![j][s].st = "in_progress"]
    /\ UNCHANGED <<job, seg, src, ckpt, runs, lease, hand, auth, released, linked>>


(* apply_fix_command_result: the draft is frozen while a run is active.    *)
ApplyFixCommand(j, s) ==
    /\ rev[j][s].st = "in_progress" /\ rev[j][s].draft \in 1 .. MaxDraft - 1
    /\ ~FixActive(j, s)
    /\ rev' = [rev EXCEPT ![j][s].draft = @ + 1]
    /\ UNCHANGED <<job, seg, src, ckpt, runs, lease, hand, auth, released, linked>>

(* create_fix_revision: a run bound to the current draft is queued.        *)
CreateFixRevision(j, s) ==
    /\ rev[j][s].st = "in_progress" /\ rev[j][s].draft > 0
    /\ ~FixActive(j, s)
    /\ EnqueueRun(j, "fix", s, rev[j][s].draft)
    /\ UNCHANGED <<job, seg, src, ckpt, lease, rev, hand, auth, released, linked>>

(* fix_run_inputs, complete_fix_run: the run still owns its frozen draft.  *)
OwnsDraft(r) ==
    LET v == rev[runs[r].job][runs[r].seg]
    IN v.st = "in_progress" /\ v.draft = runs[r].d
CompleteFixRun(r) ==
    LET j == runs[r].job
        s == runs[r].seg
    IN /\ Running(r) /\ runs[r].kind = "fix"
       /\ OwnsDraft(r) /\ StepLedgerComplete(r)
       /\ rev' = [rev EXCEPT ![j][s].fixes = Append(@, runs[r].d)]
       /\ hand' = Append(hand, Handoff(j, "fix_revision_submitted", s))
       /\ FinishRun(r, "succeeded")
       /\ UNCHANGED <<job, seg, src, ckpt, auth>>

(* decide_review: return or discard, not while a Fix run is active.        *)
DecideReview(j, s, decision) ==
    /\ ~FixActive(j, s) /\ Len(hand) < MaxHand
    /\ rev[j][s].st \in IF decision = "returned" THEN {"in_progress"}
                        ELSE {"pending", "in_progress", "returned"}
    /\ rev' = [rev EXCEPT ![j][s].st = decision]
    /\ hand' = Append(hand, Handoff(j, IF decision = "returned" THEN "review_returned"
                                       ELSE "review_completed", s))
    /\ UNCHANGED <<job, seg, src, ckpt, runs, lease, auth, released, linked>>

(* _enqueue_compatibility_publication *)
EnqueuePublication(j, s, k) == EnqueueRun(j, "compatibility_publish", s, k)

(* Mutant: an older revision is approved.                                  *)
ApproveAnyRevision(j, s, k) ==
    /\ ~FixActive(j, s)
    /\ rev[j][s].st \in {"in_progress", "returned"}
    /\ k \in DOMAIN rev[j][s].fixes
    /\ rev' = [rev EXCEPT ![j][s] = [@ EXCEPT !.st = "approved", !.appr = k]]
    /\ EnqueuePublication(j, s, k)
    /\ UNCHANGED <<job, seg, src, ckpt, lease, hand, auth, released, linked>>

(* approve_fix_revision of revision k: it must come from the latest draft; *)
(* the publication of exactly this revision is queued.                     *)
ApproveFixRevision(j, s, k) ==
    /\ ~FixActive(j, s)
    /\ rev[j][s].st \in {"in_progress", "returned"}
    /\ k \in DOMAIN rev[j][s].fixes
    /\ rev[j][s].fixes[k] = rev[j][s].draft
    /\ rev' = [rev EXCEPT ![j][s] = [@ EXCEPT !.st = "approved", !.appr = k]]
    /\ EnqueuePublication(j, s, k)
    /\ UNCHANGED <<job, seg, src, ckpt, lease, hand, auth, released, linked>>

(* compatibility_publication_inputs, complete_compatibility_publication:   *)
(* the revision of the run is still the approved one.                      *)
Approved(r) ==
    LET v == rev[runs[r].job][runs[r].seg]
    IN v.st = "approved" /\ v.appr = runs[r].d
CompletePublication(r) ==
    /\ Running(r) /\ runs[r].kind = "compatibility_publish"
    /\ Approved(r) /\ StepLedgerComplete(r)
    /\ hand' = Append(hand, Handoff(runs[r].job, "review_completed", runs[r].seg))
    /\ FinishRun(r, "succeeded")
    /\ UNCHANGED <<job, seg, src, ckpt, rev, auth>>

(* retry_compatibility_publication: the latest publication failed.         *)
RetryPublication(j, s) ==
    LET p == LatestPublication(j, s)
    IN /\ rev[j][s].st = "approved"
       /\ p # 0 /\ runs[p].st = "failed" /\ runs[p].d = rev[j][s].appr
       /\ EnqueuePublication(j, s, rev[j][s].appr)
       /\ UNCHANGED <<job, seg, src, ckpt, lease, rev, hand, auth, released, linked>>

----------------------------------------------------------------------------
(* Releases and resets of the dataset date.                                *)

(* asset_lifecycle_snapshot: what a segment of the job that holds the      *)
(* source lease counts as.                                                 *)
Verified(j, s) == rev[j][s].st = "approved"
Publishable(j, s) == /\ Verified(j, s)
                     /\ LatestPublication(j, s) # 0
                     /\ runs[LatestPublication(j, s)].st = "succeeded"
Discarded(j, s) == seg[j][s].st = "skipped" \/ rev[j][s].st = "discarded"

(* dataset_release_candidate *)
ClipReady(c) ==
    /\ src[c] # None
    /\ job[src[c]].st = "annotated"
    /\ \A s \in SegmentsIn(src[c], SegStatus \ {"none"}) :
          Publishable(src[c], s) \/ Discarded(src[c], s)
ReleaseReady ==
    /\ \A c \in Clips : ClipReady(c)
    /\ \E c \in Clips, s \in Segs : src[c] # None /\ Verified(src[c], s)

(* create_dataset_release: the candidate is read again inside the          *)
(* transaction.                                                            *)
CreateDatasetRelease ==
    /\ ~released
    /\ ReleaseReady
    /\ released' = TRUE
    /\ UNCHANGED <<storeVars, linked>>

(* Mutant: a released dataset is reset.                                    *)
ResettableReleased ==
    \A c \in Clips : src[c] # None =>
          /\ job[src[c]].st \notin {"preparing", "waiting_initial_annotation",
                                    "tracking", "postprocessing"}
          /\ RunsOf(src[c], {"queued", "running"}) = {}
          /\ \A s \in Segs : rev[src[c]][s].st # "in_progress"

(* _require_dataset_resettable *)
Resettable ==
    /\ ~released
    /\ \A c \in Clips : src[c] # None =>
          /\ job[src[c]].st \notin {"preparing", "waiting_initial_annotation",
                                    "tracking", "postprocessing"}
          /\ RunsOf(src[c], {"queued", "running"}) = {}
          /\ \A s \in Segs : rev[src[c]][s].st # "in_progress"

(* reset_unreleased_dataset *)
ResetUnreleasedDataset ==
    /\ Resettable
    /\ src' = [c \in Clips |-> None]
    /\ UNCHANGED <<job, seg, ckpt, runs, lease, rev, hand, auth, released, linked>>

----------------------------------------------------------------------------
(* Navigation tasks and the handoffs they are told.                        *)

(* link_navigation_task (processing), _assign_processing_authority: the    *)
(* authority moves only while no run of the job is active; handoffs that   *)
(* had no task are pinned to the new authority.  The key of the request    *)
(* names the task, so a task's second request is a replay.                 *)
LinkProcessing(j, t) ==
    /\ job[j].st # "none"
    /\ t \notin linked
    /\ auth[j] # None => RunsOf(j, {"queued", "running"}) = {}
    /\ linked' = linked \cup {t}
    /\ auth' = [auth EXCEPT ![j] = t]
    /\ hand' = [h \in DOMAIN hand |->
                  IF hand[h].job = j /\ hand[h].kind \in ProcessingKinds
                     /\ hand[h].task = None
                  THEN [hand[h] EXCEPT !.task = t] ELSE hand[h]]
    /\ UNCHANGED <<job, seg, src, ckpt, runs, lease, rev, released>>

(* link_navigation_task (trajectory_fix) *)
LinkFix(j, s, t) ==
    /\ rev[j][s].st # "none" /\ rev[j][s].task = None
    /\ rev' = [rev EXCEPT ![j][s].task = t]
    /\ UNCHANGED <<job, seg, src, ckpt, runs, lease, hand, auth, released, linked>>

(* The navigation task of a handoff: pinned, or through its review's link. *)
TaskOf(h) == IF hand[h].kind \in ProcessingKinds THEN hand[h].task
             ELSE rev[hand[h].job][hand[h].seg].task

(* Mutant: a handoff overtakes an earlier one that waits for its retry.    *)
DeliverableOutOfOrder(h) ==
    TaskOf(h) # None /\ hand[h].d \in {"new", "retry", "expired"}

(* claim_workflow_handoff_delivery: the first handoff that is due and has  *)
(* no undelivered earlier handoff for the same task.  A delivery is        *)
(* expired once its claimer is gone and its lease ran out; one that is to  *)
(* be tried again may not be due yet (available_at).                       *)
Deliverable(h) ==
    /\ TaskOf(h) # None
    /\ hand[h].d \in {"new", "retry", "expired"}
    /\ \A e \in 1 .. h - 1 : TaskOf(e) = TaskOf(h) => hand[e].d = "delivered"
ClaimHandoff(h) ==
    /\ Deliverable(h) /\ \A e \in 1 .. h - 1 : Deliverable(e) => hand[e].d # "new"
    /\ hand' = [hand EXCEPT ![h].d = "running"]
    /\ UNCHANGED <<job, seg, src, ckpt, runs, lease, rev, auth, released, linked>>

(* complete_workflow_handoff_delivery *)
SettleHandoff(h, ok) ==
    /\ hand[h].d = "running"
    /\ hand' = [hand EXCEPT ![h].d = IF ok THEN "delivered" ELSE "retry"]
    /\ UNCHANGED <<job, seg, src, ckpt, runs, lease, rev, auth, released, linked>>

(* mutate with the idempotency key of the handoff: the receipt of a first  *)
(* start_tracking keeps its job revision, which that call itself advanced, *)
(* so a second call is refused as idempotency_key_reused.                  *)
AutoTracking(h) ==
    /\ ~hand[h].used
    /\ StartTracking(hand[h].job)
    /\ hand' = [hand EXCEPT ![h].used = TRUE]
    /\ UNCHANGED reviewVars
=============================================================================
