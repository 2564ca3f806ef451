--------------------------- MODULE TrainingCenter ---------------------------
(***************************************************************************)
(* The center's side of real training: what the store does when the Worker *)
(* of the node polls for actions, reports the result of one, or delivers   *)
(* the next update of a run (training/store.py, poll_training_actions,     *)
(* finish_training_action, apply_training_run_updates).                    *)
(*                                                                         *)
(* Here the Worker is any authenticated client: Next allows every message  *)
(* the API accepts, in any order, so what holds of Spec holds whatever the *)
(* Worker does.  TrainingSystem composes the same actions with the Worker  *)
(* the repository ships.  A refused message (lost claim, gap or repeat in  *)
(* the sequence numbers) changes nothing.                                  *)
(***************************************************************************)
EXTENDS TrainingStore

CONSTANTS MaxSeq,     \* bound on the updates of one run
          MaxClaims   \* bound on the claims of one action

ASSUME CenterBoundAssumption == MaxSeq \in Nat /\ MaxClaims \in Nat

VARIABLE seq          \* seq[r]: training_runs.execution_update_seq

centerVars == <<status, control, stages, gpuLease, portLease, actions, artifacts, seq>>

(* What the Worker reports of a run.  "report" stands for the kinds that    *)
(* touch neither status, stages, leases nor actions: accepted, heartbeat,   *)
(* log, metric and checkpoint.                                              *)
Outcomes == {"succeeded", "failed", "cancelled", "lost"}
Updates(r) ==
    [kind: {"report", "started"}, stage: StagesOf(r), status: {"none"}]
      \cup [kind: {"exited"}, stage: StagesOf(r), status: Outcomes]
      \cup [kind: {"reconciliation"}, stage: StagesOf(r),
            status: {"running", "unresolved", "lost"}]

CenterTypeOK == TypeOK /\ seq \in [Runs -> Nat]

CenterInit == StoreInit /\ seq = [r \in Runs |-> 0]

-----------------------------------------------------------------------------
(* poll_training_actions                                                    *)

(* A faulty Requeued: a status the schema does not have.                     *)
RequeuedExpired(ids) == SetStatus(actions, ids, "expired")

(* A claim lasts 45 seconds; which running claims have expired when the     *)
(* Worker polls is a matter of time, so any set of them may have.           *)
Requeued(ids) == SetStatus(actions, ids, "queued")

(* A faulty Eligible: stops are offered for running runs.                    *)
EligibleStopWhileRunning(acts, i) ==
    /\ acts[i].status = "queued"
    /\ \/ acts[i].kind = "stop" /\ status[acts[i].run] = "running"
       \/ acts[i].kind = "start" /\ status[acts[i].run] \in {"queued", "preparing"}

(* A stop is offered while the run waits for one, a start while no Worker   *)
(* has reported the stage.                                                  *)
Eligible(acts, i) ==
    /\ acts[i].status = "queued"
    /\ \/ acts[i].kind = "stop" /\ status[acts[i].run] = "stop_requested"
       \/ acts[i].kind = "start" /\ status[acts[i].run] \in {"queued", "preparing"}

(* Stops first, then by id.                                                 *)
Before(acts, i, j) ==
    \/ acts[i].kind = "stop" /\ acts[j].kind = "start"
    \/ acts[i].kind = acts[j].kind /\ i <= j

FirstEligible(acts, i) ==
    /\ i \in DOMAIN acts
    /\ Eligible(acts, i)
    /\ \A j \in DOMAIN acts : Eligible(acts, j) => Before(acts, i, j)

(* The claim: a fresh token; the first claim of a start takes the run out   *)
(* of the queue and its stage out of "pending".                             *)
Claim(acts, i) ==
    LET a == acts[i] IN
    /\ a.claim < MaxClaims
    /\ actions' = [j \in DOMAIN acts |->
                     IF j = i THEN [a EXCEPT !.status = "running", !.claim = @ + 1]
                              ELSE acts[j]]
    /\ IF a.kind = "start" /\ status[a.run] = "queued"
       THEN /\ status' = [status EXCEPT ![a.run] = "preparing"]
            /\ control' = [control EXCEPT ![a.run] = "connected"]
       ELSE UNCHANGED <<status, control>>
    /\ stages' = IF a.kind = "start" /\ stages[a.run][a.stage] = "pending"
                 THEN [stages EXCEPT ![a.run][a.stage] = "preparing"]
                 ELSE stages
    /\ UNCHANGED <<gpuLease, portLease, artifacts, seq>>

PollClaim(ids, i) ==
    /\ ids \subseteq {j \in DOMAIN actions : actions[j].status = "running"}
    /\ FirstEligible(Requeued(ids), i)
    /\ Claim(Requeued(ids), i)

PollEmpty(ids) ==
    /\ ids \subseteq {j \in DOMAIN actions : actions[j].status = "running"}
    /\ \A j \in DOMAIN actions : ~Eligible(Requeued(ids), j)
    /\ actions' = Requeued(ids)
    /\ UNCHANGED <<status, control, stages, gpuLease, portLease, artifacts, seq>>

-----------------------------------------------------------------------------
(* finish_training_action: only the holder of the current claim settles an  *)
(* action.                                                                  *)

(* A faulty ClaimHeld: a settled action may be settled again.                *)
ClaimHeldTokenOnly(i, token) == i \in DOMAIN actions /\ actions[i].claim = token

ClaimHeld(i, token) ==
    /\ i \in DOMAIN actions
    /\ actions[i].status = "running"
    /\ actions[i].claim = token

Unresolved(r, sts) ==
    control' = [control EXCEPT ![r] = IF status[r] \in sts THEN "unresolved" ELSE @]

ActionSucceeded(i, token) ==
    /\ ClaimHeld(i, token)
    /\ actions' = SetStatus(actions, {i}, "succeeded")
    /\ UNCHANGED <<status, control, stages, gpuLease, portLease, artifacts, seq>>

(* A start that may have left a process behind keeps the run and its leases. *)
StartUnresolved(i, token) ==
    /\ ClaimHeld(i, token)
    /\ actions[i].kind = "start"
    /\ actions' = SetStatus(actions, {i}, "failed")
    /\ Unresolved(actions[i].run, {"preparing", "running", "stop_requested"})
    /\ UNCHANGED <<status, stages, gpuLease, portLease, artifacts, seq>>

(* Any other failed start ends the run: cancelled if a stop was waiting.    *)
StartFailed(i, token) ==
    /\ ClaimHeld(i, token)
    /\ actions[i].kind = "start"
    /\ LET r == actions[i].run
           failed == SetStatus(actions, {i}, "failed")
       IN  IF status[r] = "stop_requested"
           THEN FinishIn(r, "cancelled", stages[r],
                         SetStatus(failed, ActionsOf(failed, r, {"stop"}, Open), "succeeded"))
           ELSE FinishIn(r, "failed", stages[r], failed)
    /\ UNCHANGED <<artifacts, seq>>

StopFailed(i, token) ==
    /\ ClaimHeld(i, token)
    /\ actions[i].kind = "stop"
    /\ actions' = SetStatus(actions, {i}, "failed")
    /\ Unresolved(actions[i].run, {"stop_requested"})
    /\ UNCHANGED <<status, stages, gpuLease, portLease, artifacts, seq>>

-----------------------------------------------------------------------------
(* apply_training_run_updates: update number k of run r is applied when it  *)
(* is the next one.  Applying it also marks the run connected, unless its   *)
(* process is unresolved.                                                   *)

NextUpdate(r, k) ==
    /\ IsReal(r)
    /\ k = seq[r] + 1
    /\ seq' = [seq EXCEPT ![r] = k]

Connected(r) ==
    control' = [control EXCEPT ![r] = IF @ = "unresolved" THEN @ ELSE "connected"]

StartActions(r, n, sts) ==
    {i \in ActionsOf(actions, r, {"start"}, sts) : actions[i].stage = n}

ApplyReport(r, k, u) ==
    /\ u.kind = "report"
    /\ NextUpdate(r, k)
    /\ Connected(r)
    /\ UNCHANGED <<status, stages, gpuLease, portLease, actions, artifacts>>

ApplyStarted(r, k, u) ==
    /\ u.kind = "started"
    /\ NextUpdate(r, k)
    /\ stages' = [stages EXCEPT ![r][u.stage] =
                    IF @ \in {"pending", "preparing", "running"} THEN "running" ELSE @]
    /\ status' = [status EXCEPT ![r] =
                    IF @ \in {"queued", "preparing", "running"} THEN "running" ELSE @]
    /\ actions' = SetStatus(actions, StartActions(r, u.stage, {"running"}), "succeeded")
    /\ Connected(r)
    /\ UNCHANGED <<gpuLease, portLease, artifacts>>

ApplyUnresolved(r, k, u) ==
    /\ u.kind = "reconciliation" /\ u.status = "unresolved"
    /\ NextUpdate(r, k)
    /\ control' = [control EXCEPT ![r] = "unresolved"]
    /\ UNCHANGED <<status, stages, gpuLease, portLease, actions, artifacts>>

(* The run and the stage become running whatever they were.                 *)
ApplyStillRunning(r, k, u) ==
    /\ u.kind = "reconciliation" /\ u.status = "running"
    /\ NextUpdate(r, k)
    /\ stages' = [stages EXCEPT ![r][u.stage] = "running"]
    /\ status' = [status EXCEPT ![r] = "running"]
    /\ control' = [control EXCEPT ![r] = "connected"]
    /\ UNCHANGED <<gpuLease, portLease, actions, artifacts>>

(* "exited", and a reconciliation that found the process lost.  The open    *)
(* start action of the stage is settled first, then one of four cases.      *)
IsExit(u) == u.kind = "exited" \/ (u.kind = "reconciliation" /\ u.status = "lost")

ExitActions(r, n) == SetStatus(actions, StartActions(r, n, Open), "succeeded")

StopsSettled(acts, r) ==
    SetStatus(acts, ActionsOf(acts, r, {"stop"}, Open), "succeeded")

ExitWhileStopping(r, n) ==
    /\ status[r] = "stop_requested"
    /\ FinishIn(r, "cancelled", stages[r], StopsSettled(ExitActions(r, n), r))
    /\ UNCHANGED artifacts

ExitUnsuccessful(r, n, outcome) ==
    /\ status[r] # "stop_requested"
    /\ outcome # "succeeded"
    /\ FinishIn(r, outcome, [stages[r] EXCEPT ![n] = outcome],
                \* a cancelled exit also settles the running stop action
                IF outcome = "cancelled"
                THEN LET acts == ExitActions(r, n)
                     IN  SetStatus(acts, ActionsOf(acts, r, {"stop"}, {"running"}), "succeeded")
                ELSE ExitActions(r, n))
    /\ UNCHANGED artifacts

(* training_artifacts only ever grows.                                      *)
StageOutput(r, n) == Append(artifacts[r], [kind |-> "stage_output", stage |-> n])

ExitToNextStage(r, n) ==
    LET done == [stages[r] EXCEPT ![n] = "succeeded"] IN
    /\ status[r] # "stop_requested"
    /\ Len(actions) < MaxActions
    /\ \E m \in DOMAIN done :
         /\ NextPending(done, m)
         /\ stages' = [stages EXCEPT ![r] = [done EXCEPT ![m] = "preparing"]]
         /\ actions' = QueueAction(ExitActions(r, n), r, "start", m)
    /\ status' = [status EXCEPT ![r] = "preparing"]
    /\ artifacts' = [artifacts EXCEPT ![r] = StageOutput(r, n)]
    /\ Connected(r)
    /\ UNCHANGED <<gpuLease, portLease>>

(* A faulty ExitLastStage: the model of the version is not registered.       *)
ExitLastStageNoModel(r, n) ==
    LET done == [stages[r] EXCEPT ![n] = "succeeded"] IN
    /\ status[r] # "stop_requested"
    /\ NoPending(done)
    /\ FinishIn(r, "succeeded", done, ExitActions(r, n))
    /\ artifacts' = [artifacts EXCEPT ![r] = StageOutput(r, n)]

ExitLastStage(r, n) ==
    LET done == [stages[r] EXCEPT ![n] = "succeeded"] IN
    /\ status[r] # "stop_requested"
    /\ NoPending(done)
    /\ FinishIn(r, "succeeded", done, ExitActions(r, n))
    /\ artifacts' = [artifacts EXCEPT ![r] =
                       Append(StageOutput(r, n), [kind |-> "version_model", stage |-> n])]

ApplyExited(r, k, u) ==
    /\ IsExit(u)
    /\ NextUpdate(r, k)
    /\ \/ ExitWhileStopping(r, u.stage)
       \/ ExitUnsuccessful(r, u.stage, u.status)
       \/ u.status = "succeeded" /\ ExitToNextStage(r, u.stage)
       \/ u.status = "succeeded" /\ ExitLastStage(r, u.stage)

ApplyUpdate(r, k, u) ==
    \/ ApplyReport(r, k, u)
    \/ ApplyStarted(r, k, u)
    \/ ApplyUnresolved(r, k, u)
    \/ ApplyStillRunning(r, k, u)
    \/ ApplyExited(r, k, u)

-----------------------------------------------------------------------------
(* The center with any client: a user, and a Worker that may say anything.  *)

UserStep ==
    \E r \in Runs :
        \/ \E gs \in (SUBSET Gpus) \ {{}}, wantsPort \in BOOLEAN :
              CreateRun(r, gs, wantsPort, "real") /\ UNCHANGED seq
        \/ StopRun(r) /\ UNCHANGED seq

PollStep ==
    \E ids \in SUBSET DOMAIN actions :
        \/ \E i \in DOMAIN actions : PollClaim(ids, i)
        \/ PollEmpty(ids)

ResultStep ==
    \E i \in DOMAIN actions : \E token \in 0 .. MaxClaims :
        \/ ActionSucceeded(i, token)
        \/ StartUnresolved(i, token)
        \/ StartFailed(i, token)
        \/ StopFailed(i, token)

UpdateStep ==
    \E r \in Runs : \E k \in 1 .. MaxSeq, u \in Updates(r) : ApplyUpdate(r, k, u)

CenterNext == UserStep \/ PollStep \/ ResultStep \/ UpdateStep

CenterSpec == CenterInit /\ [][CenterNext]_centerVars

-----------------------------------------------------------------------------
(* Properties, for every message sequence an authenticated Worker may send. *)

(* An ended run has no stage left that a late "exited succeeded" could      *)
(* start: _finish_in closes pending stages and no update reopens one.       *)
EndedRunHasNoPendingStage ==
    \A r \in Runs : status[r] \in Terminal => NoPending(stages[r])

(* However often a stop is requested, expires and is retried, a run has at  *)
(* most one stop action open.                                               *)
AtMostOneOpenStop ==
    \A i, j \in DOMAIN actions :
        /\ actions[i].run = actions[j].run
        /\ actions[i].kind = "stop" /\ actions[j].kind = "stop"
        /\ actions[i].status \in Open /\ actions[j].status \in Open
        => i = j

(* A run that ended "succeeded" has registered the model of its version.    *)
SucceededHasModel ==
    \A r \in Runs : status[r] = "succeeded" =>
        \E a \in DOMAIN artifacts[r] : artifacts[r][a].kind = "version_model"

(* A settled action is never claimed, requeued or settled differently: a    *)
(* retry by the Worker cannot undo a result the center has recorded.        *)
SettledActionsStay ==
    [][\A i \in DOMAIN actions :
          actions[i].status \notin Open => actions'[i] = actions[i]]_centerVars
=============================================================================
