--------------------------- MODULE AnnotationWorker ---------------------------
(***************************************************************************)
(* The annotation Worker (annotation/worker.py) and the runtimes it drives *)
(* (annotation/runtime.py, postprocessing_runtime.py, fix_runtime.py): one *)
(* loop claims a run, executes it under the navigation writer lock and     *)
(* records its end, while a heartbeat renews the lease and watches for     *)
(* cancellation.  Only prepare and track are bound to a cancellation       *)
(* context; a cancel that arrives outside a bound call waits in pend for   *)
(* the next one.  The maintenance lock admits one service process, so      *)
(* there is one Worker, and a crash starts a new incarnation of it.        *)
(***************************************************************************)
EXTENDS AnnotationReviews, WriterLock

CONSTANTS Faults,    \* the faults of this instance: names tested below
          MaxEnds    \* bound on how often the service process ends

VARIABLES up,        \* the service process is running
          stopping,  \* Worker.stop was called
          pc,        \* where the Worker is
          cur,       \* the run it executes, 0 when idle
          cseg,      \* the segment being tracked
          cls,       \* class of the exception being handled
          ctx,       \* the bound CancellationContext: off, clear or cancelled
          pend,      \* NavigationAnnotationRuntimeDriver._pending_cancellations
          reasons,   \* Worker._cancel_reasons
          hb,        \* the heartbeat task
          out,       \* tracking outputs on disk, with the run that wrote them
          pub,       \* compatibility output of a job: no, partial or done
          ends       \* how often the service process has ended

workerVars == <<up, stopping, pc, cur, cseg, cls, ctx, pend, reasons, hb, out, pub,
                ends>>

Me == "annotation"

WorkerInit ==
    /\ up = TRUE /\ stopping = FALSE /\ pc = "idle" /\ cur = 0 /\ cseg = None
    /\ cls = "none" /\ ctx = "off" /\ pend = {} /\ hb = "off"
    /\ reasons = [j \in Jobs |-> "none"]
    /\ out = {} /\ pub = [j \in Jobs |-> "no"] /\ ends = 0

CurJob == runs[cur].job
CurKind == runs[cur].kind
At(p) == up /\ pc = p
Goto(p) == pc' = p
(* An exception of class c leaves the try block of _execute_run.           *)
Raise(c) == pc' = "failing" /\ cls' = c

----------------------------------------------------------------------------
(* Cancellation.                                                           *)

(* Mutant: a cancel outside a bound call is dropped.                       *)
CancelBoundOnly(j) ==
    /\ ctx' = IF cur # 0 /\ j = CurJob /\ ctx # "off" THEN "cancelled" ELSE ctx
    /\ UNCHANGED pend

(* NavigationAnnotationRuntimeDriver.cancel *)
CancelRuntime(j) ==
    IF cur # 0 /\ j = CurJob /\ ctx # "off"
    THEN ctx' = "cancelled" /\ UNCHANGED pend
    ELSE pend' = pend \cup {j} /\ UNCHANGED ctx

(* Worker.request_cancel *)
RequestCancel(j, why) ==
    /\ reasons' = [reasons EXCEPT ![j] = why]
    /\ CancelRuntime(j)

(* _active_run: a run that is claimed is not yet the active one.           *)
ActiveRun == cur # 0 /\ pc # "claimed"
OwnsActiveRun(j) == ActiveRun /\ CurJob = j

(* Worker.stop: the graceful shutdown of the service.                      *)
Stop ==
    /\ "stop" \in Faults
    /\ up /\ ~stopping /\ ends < MaxEnds
    /\ stopping' = TRUE
    /\ IF ActiveRun
       THEN /\ reasons' = [reasons EXCEPT ![CurJob] =
                              IF @ = "none" THEN "shutdown" ELSE @]
            /\ CancelRuntime(CurJob)
       ELSE UNCHANGED <<reasons, ctx, pend>>
    /\ UNCHANGED <<up, pc, cur, cseg, cls, hb, out, pub, storeVars, lockVars,
                   ends>>

(* _heartbeat: one turn of its loop, the renewal, and the second look at   *)
(* the ledger after a renewal that found no lease.                         *)
HeartbeatCheck ==
    /\ hb = "check"
    /\ CASE ControlState(cur) = "continue" ->
              hb' = "renew" /\ UNCHANGED <<reasons, ctx, pend>>
         [] ControlState(cur) = "finished" ->
              hb' = "off" /\ UNCHANGED <<reasons, ctx, pend>>
         [] OTHER ->
              /\ hb' = "off"
              /\ RequestCancel(CurJob, IF ControlState(cur) = "cancel_requested"
                                       THEN "user" ELSE "lease_lost")
    /\ UNCHANGED <<up, stopping, pc, cur, cseg, cls, out, pub, storeVars,
                   lockVars, ends>>
HeartbeatRenew ==
    /\ hb = "renew"
    /\ IF lease.run = cur THEN RenewLease(cur) /\ hb' = "check"
       ELSE hb' = "recheck" /\ UNCHANGED storeVars
    /\ UNCHANGED <<up, stopping, pc, cur, cseg, cls, ctx, pend, reasons, out,
                   pub,
                   lockVars, ends>>
(* Mutant: a lease that is gone because the run has ended counts as lost.  *)
HeartbeatLost ==
    /\ hb = "recheck"
    /\ hb' = "off" /\ RequestCancel(CurJob, "lease_lost")
    /\ UNCHANGED <<up, stopping, pc, cur, cseg, cls, out, pub, storeVars,
                   lockVars, ends>>
HeartbeatRecheck ==
    /\ hb = "recheck"
    /\ CASE ControlState(cur) = "continue" ->
              hb' = "check" /\ UNCHANGED <<reasons, ctx, pend>>
         [] ControlState(cur) = "finished" ->
              hb' = "off" /\ UNCHANGED <<reasons, ctx, pend>>
         [] OTHER ->
              /\ hb' = "off"
              /\ RequestCancel(CurJob, IF ControlState(cur) = "cancel_requested"
                                       THEN "user" ELSE "lease_lost")
    /\ UNCHANGED <<up, stopping, pc, cur, cseg, cls, out, pub, storeVars,
                   lockVars, ends>>
HeartbeatFails ==
    /\ "heartbeat" \in Faults
    /\ hb # "off"
    /\ hb' = "off"
    /\ RequestCancel(CurJob, "heartbeat_failed")
    /\ UNCHANGED <<up, stopping, pc, cur, cseg, cls, out, pub, storeVars,
                   lockVars, ends>>

(* No renewal reached the ledger for lease_seconds.                        *)
LeaseExpires ==
    /\ "stall" \in Faults
    /\ lease.live /\ lease.own
    /\ lease' = [lease EXCEPT !.live = FALSE]
    /\ UNCHANGED <<job, seg, src, ckpt, runs, rev, hand, auth>>
    /\ UNCHANGED <<workerVars, lockVars>>

----------------------------------------------------------------------------
(* The Worker loop.                                                        *)

(* _recover_interrupted_runs: quarantine markers first, then the verdict.  *)
Recover ==
    /\ At("idle") /\ ~stopping
    /\ \E r \in Interrupted : RecoverInterrupted(r)
    /\ EnsureQuarantine(Cardinality(Interrupted))
    /\ UNCHANGED workerVars

(* claim_next_run, in a thread; back in the loop, _execute makes the run   *)
(* the active one and starts the heartbeat.                                *)
Claim ==
    /\ At("idle") /\ ~stopping
    /\ ~QuarantinePresent
    /\ \E r \in DOMAIN runs : ClaimNextRun(r) /\ cur' = r
    /\ Goto("claimed")
    /\ UNCHANGED <<up, stopping, cseg, cls, ctx, pend, reasons, hb, out, pub,
                   lockVars, ends>>
Execute ==
    /\ At("claimed")
    /\ Goto("capacity") /\ hb' = "check"
    /\ UNCHANGED <<up, stopping, cur, cseg, cls, ctx, pend, reasons, out, pub,
                   storeVars, lockVars, ends>>

(* postprocessing_inputs, fix_run_inputs, compatibility_publication_inputs:*)
(* what the Worker reads from the ledger before it starts.                 *)
ProcessingInputs(r) == SegmentsIn(runs[r].job, {"postprocessing"}) # {}
InputsReady(r) == CASE runs[r].kind = "postprocessing" -> ProcessingInputs(r)
                    [] runs[r].kind = "fix" -> OwnsDraft(r)
                    [] runs[r].kind = "compatibility_publish" -> Approved(r)
                    [] OTHER -> TRUE

(* preflight_capacity, and the branch on the kind of the run.              *)
Capacity ==
    /\ At("capacity")
    /\ \/ /\ "capacity" \in Faults
          /\ Raise("retryable")
       \/ /\ InputsReady(cur)
          /\ Goto(CASE CurKind = "prepare" -> "bind"
                    [] CurKind = "tracking" -> "setup"
                    [] OTHER -> "lock")
          /\ UNCHANGED cls
    /\ UNCHANGED <<up, stopping, cur, cseg, ctx, pend, reasons, hb, out, pub,
                   storeVars, lockVars, ends>>

(* tracking: inputs, validate_tracking_inputs and the YAML files, recorded *)
(* as the step initial_annotation; the step tracking is then started.      *)
SetupTracking ==
    /\ At("setup")
    /\ \/ Goto("next") /\ StartStep(cur) /\ UNCHANGED cls
       \/ /\ "inputs" \in Faults
          /\ Raise("final") /\ UNCHANGED storeVars
    /\ UNCHANGED <<up, stopping, cur, cseg, ctx, pend, reasons, hb, out, pub,
                   lockVars, ends>>

(* The loop over the targets: a committed checkpoint is verified           *)
(* (verify_checkpoint), any other target is tracked.                       *)
Untracked == {s \in SegmentsIn(CurJob, {"tracking"}) :
                 <<s, SubmittedContent(CurJob, s)>> \notin ckpt[CurJob]}
NextTarget ==
    /\ At("next")
    /\ \/ \E s \in Untracked : cseg' = s /\ Goto("bind") /\ UNCHANGED cls
       \/ Untracked = {} /\ Goto("closing") /\ UNCHANGED <<cseg, cls>>
       \/ /\ "artifacts" \in Faults /\ ckpt[CurJob] # {}
          /\ Raise("recovery_required") /\ UNCHANGED cseg
    /\ UNCHANGED <<up, stopping, cur, ctx, pend, reasons, hb, out, pub,
                   storeVars, lockVars, ends>>

(* _run_bound: a pending cancellation cancels the new context at once.     *)
Bind ==
    /\ At("bind")
    /\ pend' = pend \ {CurJob}
    /\ IF CurJob \in pend
       THEN Raise("cancelled") /\ UNCHANGED ctx
       ELSE Goto("lock") /\ ctx' = "clear" /\ UNCHANGED cls
    /\ UNCHANGED <<up, stopping, cur, cseg, reasons, hb, out, pub, storeVars,
                   lockVars, ends>>

(* The writer lock of a runtime call and, taken once more, of the          *)
(* publication: entered, or refused because of a marker, an error no       *)
(* classification knows.                                                   *)
EnterLock ==
    /\ At("lock") \/ At("fence")
    /\ \/ /\ Acquire(Me)
          /\ Goto(IF pc = "lock" THEN "work" ELSE "locked")
          /\ UNCHANGED <<cls, ctx>>
       \/ Refused(Me) /\ Raise("final") /\ ctx' = "off"
    /\ UNCHANGED <<up, stopping, cur, cseg, pend, reasons, hb, out, pub,
                   storeVars, ends>>

(* Where the Worker goes on after a runtime call.                          *)
AfterWork == CASE CurKind = "tracking" -> "record"
               [] CurKind = "postprocessing" -> "fence"
               [] OTHER -> "closing"
OutputExists == \E o \in out : o.job = CurJob /\ o.seg = cseg

(* What each runtime leaves behind when it returns.  prepare and run keep  *)
(* their results in directories of their own, which the completing         *)
(* transaction records; track publishes the output of its target beside    *)
(* the tracked data; publish_bound_revision commits the Fix file.          *)
PrepareReturns == CurKind = "prepare" /\ UNCHANGED <<out, pub>>
TrackReturns ==
    /\ CurKind = "tracking" /\ ~OutputExists
    /\ out' = out \cup {[job |-> CurJob, seg |-> cseg, run |-> cur]}
    /\ UNCHANGED pub
ProcessingReturns == CurKind = "postprocessing" /\ UNCHANGED <<out, pub>>
FixReturns == CurKind = "fix" /\ UNCHANGED <<out, pub>>
RevisionPublished ==
    /\ CurKind = "compatibility_publish"
    /\ pub' = [pub EXCEPT ![CurJob] = "done"]
    /\ UNCHANGED out
WorkDone ==
    /\ At("work")
    /\ \/ PrepareReturns \/ TrackReturns \/ ProcessingReturns \/ FixReturns
       \/ RevisionPublished
    /\ Release(Me, TRUE)
    /\ ctx' = "off"
    /\ Goto(AfterWork)
    /\ UNCHANGED <<up, stopping, cur, cseg, cls, pend, reasons, hb, storeVars,
                   ends>>

(* The call raises.  A cancelled context kills the process group of the    *)
(* command (run_command); when its death cannot be verified the lock keeps *)
(* its marker and the run needs an operator.                               *)
CommandKilled == ctx = "cancelled" /\ Raise("cancelled") /\ Release(Me, TRUE)
CommandSurvives ==
    /\ ctx = "cancelled" /\ "unkillable" \in Faults
    /\ Raise("recovery_required") /\ Release(Me, FALSE)

(* Inputs that changed are final, what a command or a directory refuses    *)
(* may be tried again; track finds output of a run nobody recorded.  The   *)
(* class makes no difference for a Fix or publication run.                 *)
PrepareRaises == CurKind = "prepare" /\ \E c \in {"retryable", "final"} : Raise(c)
TrackRaises ==
    CurKind = "tracking" /\ \E c \in {"retryable", "final", "recovery_required"} : Raise(c)
ProcessingRaises ==
    CurKind = "postprocessing" /\ \E c \in {"retryable", "final"} : Raise(c)
FixRaises == CurKind \in {"fix", "compatibility_publish"} /\ Raise("final")
OutputConflict ==
    CurKind = "tracking" /\ OutputExists /\ Raise("recovery_required") /\ Release(Me, TRUE)
WorkFails ==
    /\ At("work")
    /\ \/ CommandKilled \/ CommandSurvives \/ OutputConflict
       \/ /\ "runtime" \in Faults
          /\ PrepareRaises \/ TrackRaises \/ ProcessingRaises
          /\ Release(Me, TRUE)
       \/ /\ "fix" \in Faults
          /\ FixRaises
          /\ Release(Me, TRUE)
    /\ ctx' = "off"
    /\ UNCHANGED <<up, stopping, cur, cseg, pend, reasons, hb, out, pub,
                   storeVars, ends>>

(* record_tracking_checkpoint; a refusal (cancel requested) finds output   *)
(* without a checkpoint: tracking_ledger_closure_pending.                  *)
Record ==
    /\ At("record")
    /\ \/ /\ RecordCheckpoint(cur, cseg, SubmittedContent(CurJob, cseg))
          /\ Goto("next") /\ UNCHANGED cls
       \/ job[CurJob].cancel /\ Raise("recovery_required") /\ UNCHANGED storeVars
    /\ UNCHANGED <<up, stopping, cur, cseg, ctx, pend, reasons, hb, out, pub,
                   lockVars, ends>>

(* publish_candidates, inside the lock: the fence is recorded, or the      *)
(* cancel came first and the lock is left again.                           *)
Fence ==
    /\ At("locked")
    /\ \/ BeginPublication(cur) /\ Goto("publish") /\ UNCHANGED <<cls, lockVars>>
       \/ /\ ~PublicationAllowed(cur) /\ Raise("cancelled")
          /\ Release(Me, TRUE) /\ UNCHANGED storeVars
    /\ UNCHANGED <<up, stopping, cur, cseg, ctx, pend, reasons, hb, out, pub,
                   ends>>

(* CompatibilityPublisher.publish and finish_runtime_step; any failure in  *)
(* it is publication_recovery_required, which _safe_runtime_failure does   *)
(* not know and lets the Web retry.                                        *)
Publish ==
    /\ At("publish")
    /\ Release(Me, TRUE)
    /\ \/ /\ pub' = [pub EXCEPT ![CurJob] = "done"]
          /\ FinishStep(cur, TRUE)
          /\ Goto("closing") /\ UNCHANGED cls
       \/ /\ "publication" \in Faults
          /\ pub' = [pub EXCEPT ![CurJob] = "partial"]
          /\ Raise("retryable") /\ UNCHANGED storeVars
    /\ UNCHANGED <<up, stopping, cur, cseg, ctx, pend, reasons, hb, out, ends>>

(* The end of a run: the open step is finished, then one transaction       *)
(* completes the run or, when a cancel was requested, cancels it.          *)
CompletionOf(r) ==
    CASE CurKind = "prepare" -> \E S \in SUBSET Segs : CompletePrepare(r, S)
      [] CurKind = "tracking" -> CompleteTracking(r)
      [] CurKind = "postprocessing" -> CompletePostprocessing(r)
      [] CurKind = "fix" -> CompleteFixRun(r)
      [] OTHER -> CompletePublication(r)
Closing ==
    /\ At("closing")
    /\ \/ runs[cur].step = "started" /\ FinishStep(cur, TRUE) /\ Goto("closing")
       \/ runs[cur].step = "idle" /\ CompletionOf(cur) /\ Goto("done")
       \/ runs[cur].step = "idle" /\ CompleteAsCancelled(cur) /\ Goto("done")
    /\ UNCHANGED <<up, stopping, cur, cseg, cls, ctx, pend, reasons, hb, out,
                   pub,
                   lockVars, ends>>

(* complete_prepare with an empty or invalid preparation result.           *)
PrepareRejected ==
    /\ At("closing") /\ CurKind = "prepare" /\ "inputs" \in Faults
    /\ ~job[CurJob].cancel
    /\ FailRun(cur, "final") /\ Goto("done")
    /\ UNCHANGED <<up, stopping, cur, cseg, cls, ctx, pend, reasons, hb, out,
                   pub,
                   lockVars, ends>>

(* The except block of _execute_run: fail_active_runtime_step; then the    *)
(* durable cancel flag is read; then _safe_runtime_failure decides.        *)
Failing ==
    /\ At("failing")
    /\ FailActiveStep(cur) /\ Goto("settle")
    /\ UNCHANGED <<up, stopping, cur, cseg, cls, ctx, pend, reasons, hb, out,
                   pub,
                   lockVars, ends>>
Settle ==
    /\ At("settle")
    /\ IF job[CurJob].cancel /\ cls # "recovery_required"
       THEN CompleteCancelledRun(cur) /\ Goto("done")
       ELSE Goto("fail") /\ UNCHANGED storeVars
    /\ UNCHANGED <<up, stopping, cur, cseg, cls, ctx, pend, reasons, hb, out,
                   pub,
                   lockVars, ends>>
(* A cancelled runtime call without a durable cancel request: interrupted  *)
(* by shutdown it may be retried, otherwise an operator must look.         *)
InterruptedAs == IF reasons[CurJob] = "shutdown" THEN "retryable"
                 ELSE "recovery_required"
Fail ==
    /\ At("fail")
    /\ FailRun(cur, IF cls = "cancelled" THEN InterruptedAs ELSE cls)
    /\ Goto("done")
    /\ UNCHANGED <<up, stopping, cur, cseg, cls, ctx, pend, reasons, hb, out,
                   pub,
                   lockVars, ends>>

(* The finally block of _execute. *)
Finished ==
    /\ At("done")
    /\ Goto("idle") /\ cur' = 0 /\ cseg' = None /\ cls' = "none" /\ hb' = "off"
    /\ reasons' = [reasons EXCEPT ![CurJob] = "none"]
    /\ UNCHANGED <<up, stopping, ctx, pend, out, pub, storeVars, lockVars,
                   ends>>

(* The process ends: after stop once the loop is idle, or at any point.    *)
(* What it was delivering is due again when the delivery lease runs out.   *)
Ended ==
    /\ up' = FALSE /\ ends' = ends + 1
    /\ stopping' = FALSE /\ pc' = "idle" /\ cur' = 0
    /\ cseg' = None /\ cls' = "none" /\ ctx' = "off" /\ pend' = {} /\ hb' = "off"
    /\ reasons' = [j \in Jobs |-> "none"]
    /\ lease' = [lease EXCEPT !.own = FALSE]
    /\ hand' = [h \in DOMAIN hand |->
                  IF hand[h].d = "running" THEN [hand[h] EXCEPT !.d = "expired"]
                  ELSE hand[h]]
    /\ UNCHANGED <<out, job, seg, src, ckpt, runs, rev, auth>>
ShutDown == stopping /\ At("idle") /\ Ended /\ UNCHANGED <<pub, lockVars>>

(* A process that dies in the publisher leaves any part of its output, one  *)
(* that dies in recover_interrupted_runs the markers without the verdict.   *)
Recovering == At("idle") /\ ~stopping /\ Interrupted # {}
Publishing == At("publish") \/ (At("work") /\ CurKind = "compatibility_publish")
Crash ==
    /\ "crash" \in Faults
    /\ up /\ ends < MaxEnds
    /\ Ended
    /\ \/ UNCHANGED pub
       \/ Publishing /\ \E x \in {"partial", "done"} : pub' = [pub EXCEPT ![CurJob] = x]
    /\ \/ holder = HeldBy(Me) /\ \E alive \in BOOLEAN : WriterDies(Me, alive)
       \/ holder # HeldBy(Me) /\ UNCHANGED lockVars
       \/ Recovering /\ EnsureQuarantine(Cardinality(Interrupted))
Restart ==
    /\ ~up
    /\ up' = TRUE
    /\ UNCHANGED <<stopping, pc, cur, cseg, cls, ctx, pend, reasons, hb, out,
                   pub,
                   storeVars, lockVars, ends>>
=============================================================================
