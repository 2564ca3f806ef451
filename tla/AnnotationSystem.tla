--------------------------- MODULE AnnotationSystem ---------------------------
(***************************************************************************)
(* The annotation service as a whole: users and navigation tasks call the  *)
(* store through the application layer (annotation/application.py), the    *)
(* workflow coordinator (annotation/workflow_coordinator.py) delivers      *)
(* handoffs, the Worker executes runs, another navigation writer competes  *)
(* for the writer lock, and, while the service is down, an operator        *)
(* (annotation/operator_cli.py) resolves what a crash left behind.         *)
(***************************************************************************)
EXTENDS AnnotationWorker

CONSTANTS UserOps    \* the requests of this instance: names tested below

VARIABLES call,      \* a cancel request between its commit and the Worker
          deliv,     \* the handoff being delivered, 0 for none
          dpc,       \* where its delivery is
          opAct,     \* the operator's recorded quarantine action
          covered    \* failure_refs covered by a completed clearance

hostVars == <<call, deliv, dpc, opAct, covered>>
vars == <<storeVars, reviewVars, lockVars, workerVars, hostVars>>

NoAction == [st |-> "none", refs |-> {}, marks |-> {}]

Init ==
    /\ StoreInit /\ LockInit /\ WorkerInit
    /\ released = FALSE /\ linked = {}
    /\ call = [j \in Jobs |-> "none"]
    /\ deliv = 0 /\ dpc = "idle"
    /\ opAct = NoAction /\ covered = {}

Allowed(op) == op \in UserOps /\ up

----------------------------------------------------------------------------
(* Requests of the Web API and of navigation tasks.                        *)

(* AnnotationApplication: create_job, save_draft, submit_segment, the      *)
(* segment actions, start_tracking, complete_no_targets and retry.         *)
PipelineRequest ==
    /\ \E j \in Jobs :
          \/ Allowed("create") /\ CreateJob(j)
          \/ Allowed("retry") /\ RetryJob(j)
          \/ Allowed("track") /\ StartTracking(j) /\ UNCHANGED hand
          \/ Allowed("none_left") /\ CompleteNoTargets(j)
          \/ \E s \in Segs :
                \/ Allowed("draft") /\ SaveDraft(j, s)
                \/ Allowed("submit") /\ SubmitSegment(j, s)
                \/ Allowed("reopen") /\ Reopen(j, s)
                \/ Allowed("skip") /\ Skip(j, s)
                \/ Allowed("skip") /\ Unskip(j, s)
          \/ \E t \in Tasks : Allowed("process") /\ BeginPostprocessing(j, t)
    /\ UNCHANGED <<reviewVars, lockVars, workerVars, hostVars>>

ReviewRequest ==
    /\ \/ \E j \in Jobs, s \in Segs :
             \/ Allowed("fix") /\ CreateFixSession(j, s)
             \/ Allowed("fix") /\ ApplyFixCommand(j, s)
             \/ Allowed("fix") /\ CreateFixRevision(j, s)
             \/ Allowed("return") /\ ResumeReturnedReview(j, s)
             \/ Allowed("return") /\ DecideReview(j, s, "returned")
             \/ Allowed("discard") /\ DecideReview(j, s, "discarded")
             \/ \E k \in DOMAIN rev[j][s].fixes :
                   Allowed("approve") /\ ApproveFixRevision(j, s, k)
             \/ Allowed("retry") /\ RetryPublication(j, s)
       \/ Allowed("release") /\ CreateDatasetRelease
       \/ Allowed("reset") /\ ResetUnreleasedDataset
       \/ \E j \in Jobs, t \in Tasks :
             \/ Allowed("link") /\ LinkProcessing(j, t)
             \/ \E s \in Segs : Allowed("link_fix") /\ LinkFix(j, s, t)
    /\ UNCHANGED <<lockVars, workerVars, hostVars>>

(* job_action "cancel": the ledger commits the request, then the Worker is *)
(* asked whether it executes the job, then told.                           *)
CancelCommit(j) ==
    /\ Allowed("cancel") /\ call[j] = "none"
    /\ CancelJob(j)
    /\ call' = [call EXCEPT ![j] = "owns"]
    /\ UNCHANGED <<deliv, dpc, opAct, covered, reviewVars, lockVars, workerVars>>
CancelOwns(j) ==
    /\ call[j] = "owns"
    /\ call' = [call EXCEPT ![j] = IF OwnsActiveRun(j) THEN "request"
                                   ELSE "none"]
    /\ UNCHANGED <<deliv, dpc, opAct, covered, storeVars, reviewVars, lockVars,
                   workerVars>>
CancelTold(j) ==
    /\ call[j] = "request"
    /\ call' = [call EXCEPT ![j] = "none"]
    /\ RequestCancel(j, "user")
    /\ UNCHANGED <<deliv, dpc, opAct, covered, storeVars, reviewVars, lockVars,
                   up, stopping, pc, cur, cseg, cls, hb, out, pub,
                   ends>>

----------------------------------------------------------------------------
(* The workflow coordinator: AnnotationWorkflowCoordinator.process_once.   *)

DeliveryStarts ==
    /\ up /\ dpc = "idle"
    /\ \E h \in DOMAIN hand :
          /\ ClaimHandoff(h)
          /\ deliv' = h
          /\ dpc' = IF hand[h].kind = "initial_annotation_submitted" THEN "track"
                    ELSE "step"
    /\ UNCHANGED <<call, opAct, covered, lockVars, workerVars>>

(* job_action "tracking" with the key of the handoff.                      *)
DeliveryTracks ==
    /\ dpc = "track"
    /\ \/ AutoTracking(deliv) /\ dpc' = "step"
       \/ /\ hand[deliv].used \/ ~TrackingReady(hand[deliv].job)
          /\ dpc' = "error" /\ UNCHANGED <<storeVars, reviewVars>>
    /\ UNCHANGED <<call, deliv, opAct, covered, lockVars, workerVars>>

(* resume, complete or fail the plan step, then wake the task.             *)
DeliveryStep ==
    /\ dpc = "step"
    /\ dpc' \in IF "step" \in Faults THEN {"ok", "error"} ELSE {"ok"}
    /\ UNCHANGED <<call, deliv, opAct, covered, storeVars, reviewVars, lockVars,
                   workerVars>>
DeliverySettles ==
    /\ dpc \in {"ok", "error"}
    /\ SettleHandoff(deliv, dpc = "ok")
    /\ deliv' = 0 /\ dpc' = "idle"
    /\ UNCHANGED <<call, opAct, covered, lockVars, workerVars>>

----------------------------------------------------------------------------
(* The other navigation writer, and what a dead writer leaves behind.      *)
Navigation == "navigation"
NavigationWrites ==
    /\ "navigation" \in Faults
    /\ \/ Acquire(Navigation)
       \/ \E safe \in BOOLEAN : /\ safe \/ "unkillable" \in Faults
                                /\ Release(Navigation, safe)
       \/ "crash" \in Faults /\ \E alive \in BOOLEAN : WriterDies(Navigation, alive)
    /\ UNCHANGED <<storeVars, reviewVars, workerVars, hostVars>>
OrphanEnds == OrphanExits /\ UNCHANGED <<storeVars, reviewVars, workerVars, hostVars>>

----------------------------------------------------------------------------
(* The operator.  The maintenance lock keeps the service down meanwhile.   *)
Operator == "operator"
RecoveryRefs == {job[j].ref : j \in {i \in Jobs : job[i].st = "failed"
                                       /\ job[i].fail = "recovery_required"}}

(* operator_clear_global_writer_quarantine: the action is recorded with    *)
(* the markers and failures it is about; the clearance takes the flock and *)
(* commits the completion; only then are the markers removed.              *)
OpRecord ==
    /\ "crash" \in Faults
    /\ ~up /\ opAct.st = "none" /\ QuarantinePresent
    /\ opAct' = [st |-> "recorded", refs |-> RecoveryRefs, marks |-> markers]
    /\ UNCHANGED <<call, deliv, dpc, covered, storeVars, reviewVars, lockVars,
                   workerVars>>
OpComplete ==
    /\ ~up /\ opAct.st = "recorded"
    /\ IF Clearable(opAct.marks)
       THEN /\ opAct' = [opAct EXCEPT !.st = "clearing"]
            /\ covered' = covered \cup opAct.refs
            /\ holder' = HeldBy(Operator)
            /\ UNCHANGED <<markers, recoveries>>
       ELSE /\ holder = Nobody
            /\ opAct' = NoAction /\ UNCHANGED <<covered, lockVars>>
    /\ UNCHANGED <<call, deliv, dpc, storeVars, reviewVars, workerVars>>
OpUnlink ==
    /\ opAct.st = "clearing"
    /\ opAct' = NoAction
    /\ holder' = Nobody /\ markers' = markers \ opAct.marks
    /\ UNCHANGED <<recoveries, call, deliv, dpc, covered, storeVars, reviewVars,
                   workerVars>>
(* The operator's process dies between the commit and the unlink; a replay *)
(* of the action removes what is left; when a newer marker is there it is  *)
(* refused and another action is needed.                                   *)
OpDies ==
    /\ opAct.st = "clearing"
    /\ opAct' = [opAct EXCEPT !.st = "completed"]
    /\ holder' = Nobody
    /\ UNCHANGED <<markers, recoveries, call, deliv, dpc, covered, storeVars,
                   reviewVars, workerVars>>
OpReplay ==
    /\ ~up /\ opAct.st = "completed"
    /\ holder = Nobody
    /\ IF markers \subseteq opAct.marks THEN ClearMarkers(markers)
       ELSE UNCHANGED lockVars
    /\ opAct' = NoAction
    /\ UNCHANGED <<call, deliv, dpc, covered, storeVars, reviewVars, workerVars>>

(* operator_confirm_recovery, disposition retry or abandon.                *)
Confirmable(j) ==
    /\ ~up
    /\ job[j].st = "failed" /\ job[j].fail = "recovery_required"
    /\ job[j].ref \in covered
    /\ holder = Nobody /\ ~QuarantinePresent
    /\ RunsOf(j, {"running"}) = {}
OpConfirm(j) ==
    /\ Confirmable(j)
    /\ ReturnToStage(j) \/ CancelActiveJob(j)
    /\ UNCHANGED <<reviewVars, lockVars, workerVars, hostVars>>

----------------------------------------------------------------------------
WorkerStep ==
    /\ \/ Stop \/ HeartbeatCheck \/ HeartbeatRenew \/ HeartbeatRecheck
       \/ HeartbeatFails \/ LeaseExpires \/ Recover \/ Claim \/ Execute
       \/ Capacity \/ SetupTracking \/ NextTarget \/ Bind \/ EnterLock \/ WorkDone
       \/ WorkFails \/ Record \/ Fence \/ Publish \/ Closing \/ PrepareRejected
       \/ Failing \/ Settle \/ Fail \/ Finished
    /\ UNCHANGED <<reviewVars, hostVars>>

(* The process takes its API calls and its delivery with it.               *)
ServiceEnds ==
    /\ ShutDown \/ Crash
    /\ call' = [j \in Jobs |-> "none"] /\ deliv' = 0 /\ dpc' = "idle"
    /\ UNCHANGED <<reviewVars, opAct, covered>>
ServiceStarts ==
    /\ opAct.st # "clearing"
    /\ Restart
    /\ UNCHANGED <<reviewVars, hostVars>>

Next ==
    \/ PipelineRequest \/ ReviewRequest
    \/ \E j \in Jobs : CancelCommit(j) \/ CancelOwns(j) \/ CancelTold(j) \/ OpConfirm(j)
    \/ DeliveryStarts \/ DeliveryTracks \/ DeliveryStep \/ DeliverySettles
    \/ NavigationWrites \/ OrphanEnds
    \/ OpRecord \/ OpComplete \/ OpUnlink \/ OpDies \/ OpReplay
    \/ WorkerStep \/ ServiceEnds \/ ServiceStarts

Spec == Init /\ [][Next]_vars

(* Fairness.  The Worker loop, the heartbeat, an accepted API call and the *)
(* supervisor that restarts the service go on, and the operator's command  *)
(* ends.  A runtime call that is bound to a cancellation context need not  *)
(* return by itself: it may run a model for hours.                         *)
WorkerLoop ==
    /\ \/ Recover \/ Claim \/ Execute \/ Capacity \/ SetupTracking \/ NextTarget
       \/ Bind \/ EnterLock \/ (ctx = "off" /\ WorkDone)
       \/ (WorkFails /\ (ctx = "cancelled" \/ OutputExists))
       \/ Record \/ Fence \/ Publish \/ Closing \/ Failing \/ Settle \/ Fail \/ Finished
    /\ UNCHANGED <<reviewVars, hostVars>>
Heartbeat ==
    /\ HeartbeatCheck \/ HeartbeatRenew \/ HeartbeatRecheck
    /\ UNCHANGED <<reviewVars, hostVars>>
ApiCall == \E j \in Jobs : CancelOwns(j) \/ CancelTold(j)
FairSpec == /\ Spec
            /\ WF_vars(WorkerLoop) /\ WF_vars(Heartbeat) /\ WF_vars(ApiCall)
            /\ WF_vars(ServiceStarts) /\ WF_vars(stopping /\ ServiceEnds)
            /\ WF_vars(OpUnlink \/ OpDies)

----------------------------------------------------------------------------
(* Properties.                                                             *)

(* What was tracked is what the annotator submitted last: the revision a   *)
(* tracked segment points to is its last draft and has a checkpoint, after *)
(* any number of reopened, skipped, retried and resumed attempts           *)
(* (store.py complete_tracking, retry_job).                                *)
TrackedMatchesSubmitted ==
    \A j \in Jobs, s \in Segs :
        seg[j][s].st \in {"tracked", "postprocessing", "postprocessing_failed",
                          "annotated"}
        => /\ seg[j][s].sub > 0 /\ SubmittedContent(j, s) = seg[j][s].draft
           /\ <<s, SubmittedContent(j, s)>> \in ckpt[j]

(* Two jobs never work on one clip: from its creation until it is          *)
(* cancelled a job holds the source lease of every clip it selected        *)
(* (store.py create_job, _finalize_cancelled_job).  A dataset reset takes  *)
(* the leases of its jobs away and is left out where this is checked.      *)
ActiveJobOwnsClips ==
    \A j \in Jobs : job[j].st \notin {"none", "cancelled"}
                     => \A c \in ClipsOf[j] : src[c] = j

(* begin_postprocessing_publication: "cancellation that wins first still   *)
(* prevents publication" and one that comes later is refused, so no        *)
(* cancelled job has compatibility output on disk - unless the publisher   *)
(* itself failed halfway, or an operator has decided about a run of the    *)
(* job that a crash interrupted, whose output then stays behind.           *)
CancelledLeavesNoOutput ==
    \A j \in Jobs : job[j].st = "cancelled" =>
        \/ pub[j] = "no"
        \/ pub[j] = "partial" /\ "publication" \in Faults
        \/ \E r \in covered : r \in DOMAIN runs /\ runs[r].job = j

(* Tracking output without a checkpoint is not trusted: the run that wrote *)
(* it is still executing or has failed as recovery_required, which the Web *)
(* cannot retry (worker.py tracking loop, _recover_interrupted_runs).      *)
UnrecordedOutputIsQuarantined ==
    \A o \in out :
        \/ \E c \in 1 .. MaxDraft : <<o.seg, c>> \in ckpt[o.job]
        \/ runs[o.run].st = "running"
        \/ runs[o.run].fail = "recovery_required"

(* A pending cancellation only ever waits for a job somebody cancelled: it *)
(* cannot hit a later, innocent run of a job that was retried              *)
(* (runtime.py NavigationAnnotationRuntimeDriver._pending_cancellations).  *)
NoStaleCancellation ==
    stopping \/ \A j \in pend : job[j].cancel \/ job[j].st \in {"cancelled", "failed"}

(* A requested cancel reaches the run wherever it is, also a runtime call  *)
(* that would never return by itself, and ends the job.                    *)
CancelEndsRun ==
    \A j \in Jobs : job[j].cancel ~> job[j].st \in {"cancelled", "failed"}

(* What is approved and published is the last state of the reviewed draft. *)
ApprovedMatchesDraft ==
    \A j \in Jobs, s \in Segs :
        rev[j][s].st = "approved"
        => /\ rev[j][s].fixes[rev[j][s].appr] = rev[j][s].draft
           /\ LatestPublication(j, s) # 0
           /\ runs[LatestPublication(j, s)].d = rev[j][s].appr

(* A released dataset stays releasable: no later request may take a clip,  *)
(* a review or a publication it was built from away                        *)
(* (store.py create_dataset_release, _require_dataset_resettable).         *)
ReleasedStaysReady == released => ReleaseReady

(* A task learns of the steps of its job in the order they happened        *)
(* (store.py claim_workflow_handoff_delivery): what it is told last about  *)
(* the processing or a review comes after every processing step before it. *)
(* A task that follows the reviews of one job and takes over another one   *)
(* later is told of that job's past only then.                             *)
HandoffsInOrder ==
    \A h \in DOMAIN hand : hand[h].d = "delivered" =>
        \A e \in 1 .. h - 1 :
            /\ TaskOf(e) = TaskOf(h) /\ hand[e].kind \in ProcessingKinds
            /\ hand[h].kind \in ProcessingKinds \/ hand[e].job = hand[h].job
            => hand[e].d = "delivered"

(* No writer enters over the unfinished work of another: while a writer    *)
(* holds the lock the only active marker is its own (writer_lock.py).      *)
WriterExclusive ==
    \A w \in Writers \ {Operator} :
        holder = HeldBy(w) =>
            {m \in markers : m.kind = "active"} = {ActiveMarker(w)}
=============================================================================
