------------------------ MODULE TrainingCenterProofs ------------------------
(***************************************************************************)
(* Proofs about TrainingCenter, for any number of runs, stages, GPUs and   *)
(* ports, any queue and sequence bounds, and a Worker that may send any    *)
(* message the API accepts.  The inductive invariant is the conjunction of *)
(* the type invariant, LeasesOnlyWhileActive and EndedRunHasNoPendingStage: *)
(* the last two speak of status, leases and stages, and each transaction   *)
(* is shown to keep them given that every column has its type.             *)
(***************************************************************************)
EXTENDS TrainingCenter, TrainingStoreProofs

CenterInv ==
    /\ CenterTypeOK
    /\ LeasesOnlyWhileActive
    /\ EndedRunHasNoPendingStage

(* The bounds of CenterNext on claims and sequence numbers play no part in  *)
(* the proofs: a Worker may send any number.                                *)
ResultMessage ==
    \E i \in DOMAIN actions : \E token :
        \/ ActionSucceeded(i, token)
        \/ StartUnresolved(i, token)
        \/ StartFailed(i, token)
        \/ StopFailed(i, token)

UpdateMessage ==
    \E r \in Runs : \E k \in Nat, u \in Updates(r) : ApplyUpdate(r, k, u)

MessageNext == UserStep \/ PollStep \/ ResultMessage \/ UpdateMessage

MessageSpec == CenterInit /\ [][MessageNext]_centerVars

(* CenterNext is one bounded choice of messages.                            *)
LEMMA CenterSendsMessages == CenterSpec => MessageSpec
<1>1. 1 .. MaxSeq \subseteq Nat
  BY CenterBoundAssumption
<1>2. ResultStep => ResultMessage
  BY Zenon DEF ResultStep, ResultMessage
<1>3. UpdateStep => UpdateMessage
  <2>. SUFFICES ASSUME UpdateStep PROVE UpdateMessage
    OBVIOUS
  <2>1. PICK r \in Runs : \E k \in 1 .. MaxSeq, u \in Updates(r) : ApplyUpdate(r, k, u)
    BY Zenon DEF UpdateStep
  <2>2. PICK k \in 1 .. MaxSeq, u \in Updates(r) : ApplyUpdate(r, k, u)
    BY <2>1, Zenon
  <2>3. k \in Nat
    BY <1>1
  <2>. QED  BY <2>2, <2>3, Zenon DEF UpdateMessage
<1>4. [CenterNext]_centerVars => [MessageNext]_centerVars
  BY <1>2, <1>3 DEF CenterNext, MessageNext
<1>. QED  BY <1>4, PTL DEF CenterSpec, MessageSpec

-----------------------------------------------------------------------------
(* Any transaction that ends with _finish_in keeps the invariant: the run   *)
(* ends, its leases go, and no stage of it is left pending.                 *)
LEMMA FinishInKeepsInv ==
    ASSUME CenterInv,
           NEW r \in Runs, NEW st \in Terminal, NEW ss \in StageRows(r),
           NEW acts \in Seq(Action),
           st # "succeeded" \/ NoPending(ss),
           FinishIn(r, st, ss, acts),
           artifacts' \in [Runs -> Seq(Artifact)],
           seq' \in [Runs -> Nat]
    PROVE  CenterInv'
<1> USE DEF CenterInv, CenterTypeOK, TypeOK
<1>1. status' = [status EXCEPT ![r] = st] /\ status' \in [Runs -> RunStatus]
  BY DEF FinishIn, RunStatus
<1>2. control' \in [Runs -> ControlStatus]
  BY DEF FinishIn, ControlStatus
<1>3. /\ stages' = [stages EXCEPT ![r] = ClosedStages(ss, st)]
      /\ stages' = [q \in Runs |-> stages'[q]]
      /\ \A q \in Runs : stages'[q] = IF q = r THEN ClosedStages(ss, st) ELSE stages[q]
  BY DEF FinishIn
<1>4. \A q \in Runs : stages'[q] \in [StagesOf(q) -> StageStatus]
  BY <1>3, ClosedStagesType DEF StageRows
<1>5. /\ gpuLease' \in [Gpus -> Runs \cup {None}]
      /\ \A g \in Gpus : gpuLease'[g] = IF gpuLease[g] = r THEN None ELSE gpuLease[g]
  BY DEF FinishIn, WithoutRun
<1>6. /\ portLease' \in [Ports -> Runs \cup {None}]
      /\ \A p \in Ports : portLease'[p] = IF portLease[p] = r THEN None ELSE portLease[p]
  BY DEF FinishIn, WithoutRun
<1>7. actions' \in Seq(Action)
  BY SetStatusType DEF FinishIn, ActionStatus
<1>8. CenterTypeOK'
  BY <1>1, <1>2, <1>3, <1>4, <1>5, <1>6, <1>7
<1>9. LeasesOnlyWhileActive'
  BY <1>1, <1>5, <1>6, NoneAssumption DEF LeasesOnlyWhileActive
<1>10. EndedRunHasNoPendingStage'
  BY <1>1, <1>3, ClosedStagesType DEF EndedRunHasNoPendingStage
<1> QED BY <1>8, <1>9, <1>10

(* A transaction that changes neither a lease nor the stages, and moves a   *)
(* run only between active states, keeps the invariant.                     *)
LEMMA ActiveStepKeepsInv ==
    ASSUME CenterInv, CenterTypeOK',
           gpuLease' = gpuLease, portLease' = portLease, stages' = stages,
           \A r \in Runs : \/ status'[r] = status[r]
                           \/ status[r] \in Active /\ status'[r] \in Active
    PROVE  CenterInv'
<1> USE DEF CenterInv, CenterTypeOK, TypeOK
<1>1. LeasesOnlyWhileActive'
  BY NoneAssumption DEF LeasesOnlyWhileActive
<1>2. EndedRunHasNoPendingStage'
  BY DEF EndedRunHasNoPendingStage, Active, Terminal
<1> QED BY <1>1, <1>2

-----------------------------------------------------------------------------
(* create_run keeps the invariant: it leases to a run that becomes active.  *)
LEMMA CreateRunKeepsInv ==
    ASSUME CenterInv, NEW r \in Runs, NEW gs \in SUBSET Gpus, NEW wantsPort \in BOOLEAN,
           CreateRun(r, gs, wantsPort, "real"), UNCHANGED seq
    PROVE  CenterInv'
<1> USE DEF CenterInv, CenterTypeOK, TypeOK
<1>1. /\ status[r] = "absent"
      /\ status' = [status EXCEPT ![r] = "queued"]
      /\ status' \in [Runs -> RunStatus]
      /\ status'[r] = "queued"
      /\ \A q \in Runs \ {r} : status'[q] = status[q]
  BY DEF CreateRun, RunStatus, Active
<1>2. control' \in [Runs -> ControlStatus]
  BY DEF CreateRun, ControlStatus
<1>3. actions' \in Seq(Action)
  BY QueueActionType DEF CreateRun
<1>4. /\ gpuLease' \in [Gpus -> Runs \cup {None}]
      /\ \A g \in Gpus : gpuLease'[g] \in {r, gpuLease[g]}
  BY DEF CreateRun, LeaseGpus
<1>5. /\ portLease' \in [Ports -> Runs \cup {None}]
      /\ \A p \in Ports : portLease'[p] \in {r, portLease[p]}
  BY DEF CreateRun, LeasePort
<1>6. UNCHANGED <<stages, artifacts, seq>>
  BY DEF CreateRun
<1>7. CenterTypeOK'
  BY <1>1, <1>2, <1>3, <1>4, <1>5, <1>6
<1>8. LeasesOnlyWhileActive'
  BY <1>1, <1>4, <1>5, NoneAssumption DEF LeasesOnlyWhileActive, Active
<1>9. EndedRunHasNoPendingStage'
  BY <1>1, <1>6 DEF EndedRunHasNoPendingStage, Terminal
<1> QED BY <1>7, <1>8, <1>9

(* stop_run keeps the invariant: a queued run is finished, any other waits. *)
LEMMA StopRunKeepsInv ==
    ASSUME CenterInv, NEW r \in Runs, StopRun(r), UNCHANGED seq
    PROVE  CenterInv'
<1> USE DEF CenterInv, CenterTypeOK, TypeOK
<1>1. CASE StopQueuedRun(r)
  <2>1. stages[r] \in StageRows(r)
    BY DEF StageRows
  <2>2. UNCHANGED artifacts /\ FinishIn(r, "cancelled", stages[r], actions)
    BY <1>1 DEF StopQueuedRun
  <2> QED BY <2>1, <2>2, FinishInKeepsInv DEF Terminal
<1>2. CASE RequestStop(r)
  <2>1. actions' \in Seq(Action)
    <3>1. QueueAction(actions, r, "stop", 0) \in Seq(Action)
      BY QueueActionType
    <3> QED BY <1>2, <3>1 DEF RequestStop
  <2>2. /\ status' \in [Runs -> RunStatus]
        /\ status[r] \in Active /\ status'[r] \in Active
        /\ \A q \in Runs \ {r} : status'[q] = status[q]
    BY <1>2 DEF RequestStop, RunStatus, Active
  <2>3. UNCHANGED <<control, stages, gpuLease, portLease, artifacts>>
    BY <1>2 DEF RequestStop
  <2>4. CenterTypeOK'
    BY <2>1, <2>2, <2>3
  <2> HIDE DEF CenterInv, CenterTypeOK, TypeOK
  <2> QED BY <2>2, <2>3, <2>4, ActiveStepKeepsInv
<1> QED BY <1>1, <1>2 DEF StopRun

-----------------------------------------------------------------------------
(* poll_training_actions keeps the invariant: a claim takes a stage out of  *)
(* "pending" and a run out of "queued", and touches no lease.               *)
LEMMA PollKeepsInv ==
    ASSUME CenterInv, PollStep
    PROVE  CenterInv'
<1> USE DEF CenterInv, CenterTypeOK, TypeOK
<1>1. PICK ids \in SUBSET DOMAIN actions :
        (\E i \in DOMAIN actions : PollClaim(ids, i)) \/ PollEmpty(ids)
  BY DEF PollStep
<1> DEFINE acts == Requeued(ids)
<1>2. acts \in Seq(Action) /\ DOMAIN acts = DOMAIN actions
  BY SetStatusType DEF Requeued, ActionStatus
<1> HIDE DEF acts
<1>3. CASE PollEmpty(ids)
  <2>1. actions' = acts
    BY <1>3 DEF PollEmpty, acts
  <2>2. UNCHANGED <<status, control, stages, gpuLease, portLease, artifacts, seq>>
    BY <1>3 DEF PollEmpty
  <2>3. CenterTypeOK'
    BY <1>2, <2>1, <2>2
  <2> HIDE DEF CenterInv, CenterTypeOK, TypeOK
  <2> QED BY <2>2, <2>3, ActiveStepKeepsInv
<1>4. ASSUME NEW i \in DOMAIN actions, PollClaim(ids, i) PROVE CenterInv'
  <2> DEFINE a == acts[i]
  <2>1. Claim(acts, i) /\ Eligible(acts, i) /\ i \in DOMAIN acts
    BY <1>4, <1>2 DEF PollClaim, FirstEligible, acts
  <2>2. a \in Action /\ a.run \in Runs /\ a.stage \in Nat /\ a.claim \in Nat
    <3>1. a \in Action
      BY <1>2, <2>1
    <3> HIDE DEF a
    <3> QED BY <3>1 DEF Action
  <2>3. actions' \in Seq(Action)
    <3>1. actions' = [j \in 1 .. Len(acts) |->
             IF j = i THEN [a EXCEPT !.status = "running", !.claim = @ + 1] ELSE acts[j]]
      BY <1>2, <2>1 DEF Claim
    <3> HIDE DEF a
    <3>2. [a EXCEPT !.status = "running", !.claim = @ + 1] \in Action
      <4>1. [a EXCEPT !.status = "running"] \in Action
        BY <2>2 DEF Action, ActionStatus
      <4>2. ASSUME NEW b \in Action, NEW c \in Nat PROVE [b EXCEPT !.claim = c] \in Action
        BY DEF Action
      <4>3. [a EXCEPT !.status = "running", !.claim = @ + 1] =
              [[a EXCEPT !.status = "running"] EXCEPT !.claim = a.claim + 1]
        OBVIOUS
      <4>4. a.claim + 1 \in Nat
        BY <2>2
      <4> QED BY <4>1, <4>2, <4>3, <4>4
    <3> QED BY <1>2, <3>1, <3>2
  <2>4. UNCHANGED <<gpuLease, portLease, artifacts, seq>>
    BY <2>1 DEF Claim
  <2>5. /\ status' \in [Runs -> RunStatus]
        /\ control' \in [Runs -> ControlStatus]
        /\ \A q \in Runs : \/ status'[q] = status[q]
                           \/ status[q] \in Active /\ status'[q] \in Active
    <3> DEFINE first == a.kind = "start" /\ status[a.run] = "queued"
    <3>1. /\ status' = IF first THEN [status EXCEPT ![a.run] = "preparing"] ELSE status
          /\ control' = IF first THEN [control EXCEPT ![a.run] = "connected"] ELSE control
      BY <2>1 DEF Claim
    <3> HIDE DEF a
    <3>2. CASE first
      BY <2>2, <3>1, <3>2 DEF RunStatus, Active, ControlStatus
    <3>3. CASE ~first
      BY <3>1, <3>3
    <3> QED BY <3>2, <3>3
  <2>6. /\ stages' = [q \in Runs |-> stages'[q]]
        /\ \A q \in Runs : stages'[q] \in [StagesOf(q) -> StageStatus]
        /\ \A q \in Runs : \A n \in StagesOf(q) :
              stages'[q][n] = "pending" => stages[q][n] = "pending"
    BY <2>1, <2>2 DEF Claim, StageStatus
  <2>7. LeasesOnlyWhileActive'
    BY <2>4, <2>5, NoneAssumption DEF LeasesOnlyWhileActive
  <2>8. EndedRunHasNoPendingStage'
    BY <2>5, <2>6 DEF EndedRunHasNoPendingStage, NoPending, Active, Terminal
  <2> QED BY <2>3, <2>4, <2>5, <2>6, <2>7, <2>8
<1> QED BY <1>1, <1>3, <1>4

-----------------------------------------------------------------------------
(* finish_training_action keeps the invariant: it changes only control and  *)
(* the action, or ends the run through _finish_in.                          *)
LEMMA ResultKeepsInv ==
    ASSUME CenterInv, NEW i \in DOMAIN actions, NEW token,
           \/ ActionSucceeded(i, token)
           \/ StartUnresolved(i, token)
           \/ StartFailed(i, token)
           \/ StopFailed(i, token)
    PROVE  CenterInv'
<1> DEFINE r == actions[i].run
           failed == SetStatus(actions, {i}, "failed")
<1>1. actions \in Seq(Action) /\ \A q \in Runs : stages[q] \in StageRows(q)
  BY DEF CenterInv, CenterTypeOK, TypeOK, StageRows
<1>2. r \in Runs
  <2>1. actions[i] \in Action
    BY <1>1
  <2> QED BY <2>1 DEF Action
<1>3. failed \in Seq(Action) /\ SetStatus(actions, {i}, "succeeded") \in Seq(Action)
  BY <1>1, SetStatusType DEF ActionStatus
<1>4. CASE StartFailed(i, token)
  <2>1. artifacts' \in [Runs -> Seq(Artifact)] /\ seq' \in [Runs -> Nat]
    BY <1>4 DEF StartFailed, CenterInv, CenterTypeOK, TypeOK
  <2> DEFINE settled == SetStatus(failed, ActionsOf(failed, r, {"stop"}, Open), "succeeded")
  <2>2. settled \in Seq(Action)
    BY <1>3, SetStatusType DEF ActionStatus
  <2>3. \/ FinishIn(r, "cancelled", stages[r], settled)
        \/ FinishIn(r, "failed", stages[r], failed)
    BY <1>4 DEF StartFailed
  <2> HIDE DEF r, failed, settled
  <2> QED BY <1>1, <1>2, <1>3, <2>1, <2>2, <2>3, FinishInKeepsInv DEF Terminal
<1>5. CASE ActionSucceeded(i, token) \/ StartUnresolved(i, token) \/ StopFailed(i, token)
  <2>1. /\ status' = status /\ stages' = stages /\ gpuLease' = gpuLease
        /\ portLease' = portLease /\ artifacts' = artifacts /\ seq' = seq
    BY <1>5 DEF ActionSucceeded, StartUnresolved, StopFailed
  <2>2. actions' \in Seq(Action)
    BY <1>3, <1>5 DEF ActionSucceeded, StartUnresolved, StopFailed
  <2>3. control' \in [Runs -> ControlStatus]
    BY <1>5 DEF ActionSucceeded, StartUnresolved, StopFailed, Unresolved, ControlStatus,
                CenterInv, CenterTypeOK, TypeOK
  <2>4. CenterTypeOK'
    BY <2>1, <2>2, <2>3 DEF CenterInv, CenterTypeOK, TypeOK
  <2> QED BY <2>1, <2>4, ActiveStepKeepsInv
<1> QED BY <1>4, <1>5

-----------------------------------------------------------------------------
(* apply_training_run_updates, the updates that end nothing.                *)
LEMMA ProgressKeepsInv ==
    ASSUME CenterInv, NEW r \in Runs, NEW k \in Nat, NEW u \in Updates(r),
           \/ ApplyReport(r, k, u)
           \/ ApplyStarted(r, k, u)
           \/ ApplyUnresolved(r, k, u)
           \/ ApplyStillRunning(r, k, u)
    PROVE  CenterInv'
<1> USE DEF CenterInv, CenterTypeOK, TypeOK
<1>1. seq' \in [Runs -> Nat]
  BY DEF ApplyReport, ApplyStarted, ApplyUnresolved, ApplyStillRunning, NextUpdate
<1>2. control' \in [Runs -> ControlStatus]
  BY DEF ApplyReport, ApplyStarted, ApplyUnresolved, ApplyStillRunning, Connected,
         ControlStatus
<1>3. gpuLease' = gpuLease /\ portLease' = portLease /\ artifacts' = artifacts
  BY DEF ApplyReport, ApplyStarted, ApplyUnresolved, ApplyStillRunning
<1>4. actions' \in Seq(Action)
  <2>1. SetStatus(actions, StartActions(r, u.stage, {"running"}), "succeeded") \in Seq(Action)
    BY SetStatusType DEF ActionStatus
  <2> QED BY <2>1 DEF ApplyReport, ApplyStarted, ApplyUnresolved, ApplyStillRunning
<1>5. /\ status' \in [Runs -> RunStatus]
      /\ \A q \in Runs : status'[q] = status[q] \/ status'[q] \in Active
  BY DEF ApplyReport, ApplyStarted, ApplyUnresolved, ApplyStillRunning, RunStatus, Active
<1>6. /\ stages' = [q \in Runs |-> stages'[q]]
      /\ \A q \in Runs : stages'[q] \in [StagesOf(q) -> StageStatus]
      /\ \A q \in Runs : \A n \in StagesOf(q) :
            stages'[q][n] = "pending" => stages[q][n] = "pending"
  <2>1. CASE stages' = stages
    BY <2>1
  <2>2. ASSUME NEW st \in StageStatus \ {"pending"},
               stages' = [stages EXCEPT ![r][u.stage] = st]
        PROVE  <1>6!:
    BY <2>2
  <2>3. CASE ApplyReport(r, k, u) \/ ApplyUnresolved(r, k, u)
    BY <2>1, <2>3 DEF ApplyReport, ApplyUnresolved
  <2>4. CASE ApplyStarted(r, k, u)
    <3> DEFINE old == stages[r][u.stage]
    <3>1. stages' = [stages EXCEPT ![r][u.stage] =
                       IF old \in {"pending", "preparing", "running"} THEN "running" ELSE old]
      BY <2>4 DEF ApplyStarted
    <3>2. u.stage \in StagesOf(r)
      BY DEF Updates
    <3>3. (IF old \in {"pending", "preparing", "running"} THEN "running" ELSE old)
             \in StageStatus \ {"pending"}
      BY <3>2 DEF StageStatus
    <3> HIDE DEF old
    <3> QED BY <2>2, <3>1, <3>3
  <2>5. CASE ApplyStillRunning(r, k, u)
    BY <2>2, <2>5 DEF ApplyStillRunning, StageStatus
  <2> QED BY <2>3, <2>4, <2>5
<1>7. LeasesOnlyWhileActive'
  BY <1>3, <1>5, NoneAssumption DEF LeasesOnlyWhileActive
<1>8. EndedRunHasNoPendingStage'
  <2> SUFFICES ASSUME NEW q \in Runs, status'[q] \in Terminal
               PROVE  NoPending(stages'[q])
    BY DEF EndedRunHasNoPendingStage, NoPending
  <2>1. NoPending(stages[q])
    BY <1>5 DEF EndedRunHasNoPendingStage, Active, Terminal
  <2> QED BY <1>6, <2>1 DEF NoPending
<1> QED BY <1>1, <1>2, <1>3, <1>4, <1>5, <1>6, <1>7, <1>8

(* The updates that end a stage.  Only ExitToNextStage goes on, and it is   *)
(* disabled for an ended run, none of whose stages is pending.              *)
LEMMA ExitKeepsInv ==
    ASSUME CenterInv, NEW r \in Runs, NEW k \in Nat, NEW u \in Updates(r),
           ApplyExited(r, k, u)
    PROVE  CenterInv'
<1> DEFINE n == u.stage
           done == [stages[r] EXCEPT ![n] = "succeeded"]
           acts == ExitActions(r, n)
<1>1. /\ seq' \in [Runs -> Nat]
      /\ actions \in Seq(Action)
      /\ artifacts \in [Runs -> Seq(Artifact)]
      /\ \A q \in Runs : stages[q] \in StageRows(q)
  BY DEF ApplyExited, NextUpdate, CenterInv, CenterTypeOK, TypeOK, StageRows
<1>2. n \in Nat /\ (IsExit(u) => u.status \in Terminal)
  BY DEF Updates, StagesOf, IsExit, Outcomes, Terminal
<1>3. acts \in Seq(Action)
  BY <1>1, SetStatusType DEF ExitActions, ActionStatus
<1>4. done \in StageRows(r)
  BY <1>1 DEF StageRows, StageStatus, Terminal
<1>5. StageOutput(r, n) \in Seq(Artifact)
  <2>1. [kind |-> "stage_output", stage |-> n] \in Artifact
    BY <1>2 DEF Artifact
  <2> QED BY <1>1, <2>1 DEF StageOutput
<1>6. CASE ExitWhileStopping(r, n)
  <2>1. StopsSettled(acts, r) \in Seq(Action)
    BY <1>3, SetStatusType DEF StopsSettled, ActionStatus
  <2>2. FinishIn(r, "cancelled", stages[r], StopsSettled(acts, r)) /\ artifacts' = artifacts
    BY <1>6 DEF ExitWhileStopping
  <2> QED BY <1>1, <2>1, <2>2, FinishInKeepsInv DEF Terminal
<1>7. CASE ExitUnsuccessful(r, n, u.status)
  <2> DEFINE ss == [stages[r] EXCEPT ![n] = u.status]
             settled == SetStatus(acts, ActionsOf(acts, r, {"stop"}, {"running"}), "succeeded")
  <2>1. u.status \in Terminal \ {"succeeded"}
    BY <1>2, <1>7 DEF ExitUnsuccessful, ApplyExited
  <2>2. ss \in StageRows(r)
    BY <1>1, <2>1 DEF StageRows, StageStatus
  <2>3. settled \in Seq(Action)
    BY <1>3, SetStatusType DEF ActionStatus
  <2>4. \/ FinishIn(r, u.status, ss, settled)
        \/ FinishIn(r, u.status, ss, acts)
    BY <1>7 DEF ExitUnsuccessful
  <2>5. artifacts' = artifacts
    BY <1>7 DEF ExitUnsuccessful
  <2> HIDE DEF n, acts, ss, settled
  <2> QED BY <1>1, <1>3, <2>1, <2>2, <2>3, <2>4, <2>5, FinishInKeepsInv
<1>8. CASE ExitLastStage(r, n)
  <2>1. NoPending(done) /\ FinishIn(r, "succeeded", done, acts)
    BY <1>8 DEF ExitLastStage
  <2>2. [kind |-> "version_model", stage |-> n] \in Artifact
    BY <1>2 DEF Artifact
  <2>3. artifacts' \in [Runs -> Seq(Artifact)]
    BY <1>1, <1>5, <1>8, <2>2 DEF ExitLastStage
  <2> HIDE DEF n, acts, done
  <2> QED BY <1>1, <1>3, <1>4, <2>1, <2>3, FinishInKeepsInv DEF Terminal
<1>9. CASE ExitToNextStage(r, n)
  <2>1. PICK m \in DOMAIN done :
          /\ NextPending(done, m)
          /\ stages' = [stages EXCEPT ![r] = [done EXCEPT ![m] = "preparing"]]
          /\ actions' = QueueAction(acts, r, "start", m)
    BY <1>9 DEF ExitToNextStage
  <2>2. m \in StagesOf(r) /\ m \in Nat /\ done[m] = "pending"
    <3> HIDE DEF done
    <3>1. DOMAIN done = 1 .. StageCount[r]
      BY <1>4 DEF StageRows, StagesOf
    <3> QED BY <2>1, <3>1, StageCountAssumption DEF StagesOf, NextPending
  <2>3. /\ gpuLease' = gpuLease /\ portLease' = portLease
        /\ status' = [status EXCEPT ![r] = "preparing"]
        /\ artifacts' = [artifacts EXCEPT ![r] = StageOutput(r, n)]
    BY <1>9 DEF ExitToNextStage
  <2>4. control' \in [Runs -> ControlStatus]
    BY <1>9 DEF ExitToNextStage, Connected, ControlStatus, CenterInv, CenterTypeOK, TypeOK
  <2>5. actions' \in Seq(Action)
    BY <1>3, <2>1, <2>2, QueueActionType
  <2>6. artifacts' \in [Runs -> Seq(Artifact)]
    BY <1>1, <1>5, <2>3
  <2>7. [done EXCEPT ![m] = "preparing"] \in StageRows(r)
    BY <1>4 DEF StageRows, StageStatus
  <2>8. /\ stages' = [q \in Runs |-> stages'[q]]
        /\ \A q \in Runs : stages'[q] \in [StagesOf(q) -> StageStatus]
        /\ \A q \in Runs \ {r} : stages'[q] = stages[q]
    BY <2>1, <2>7 DEF CenterInv, CenterTypeOK, TypeOK, StageRows
  <2>9. /\ status' \in [Runs -> RunStatus]
        /\ status'[r] = "preparing"
        /\ \A q \in Runs \ {r} : status'[q] = status[q]
    BY <2>3 DEF RunStatus, Active, CenterInv, CenterTypeOK, TypeOK
  <2>10. CenterTypeOK'
    BY <1>1, <2>3, <2>4, <2>5, <2>6, <2>8, <2>9 DEF CenterInv, CenterTypeOK, TypeOK
  <2>11. LeasesOnlyWhileActive'
    BY <2>3, <2>9, NoneAssumption
       DEF LeasesOnlyWhileActive, Active, CenterInv, CenterTypeOK, TypeOK
  <2>12. EndedRunHasNoPendingStage'
    BY <2>8, <2>9 DEF EndedRunHasNoPendingStage, Terminal, CenterInv
  <2> QED BY <2>10, <2>11, <2>12 DEF CenterInv
<1> HIDE DEF n
<1> QED BY <1>6, <1>7, <1>8, <1>9 DEF ApplyExited, n

-----------------------------------------------------------------------------
(* The initial state, in which no run exists, satisfies the invariant.      *)
LEMMA InitInv == CenterInit => CenterInv
<1> SUFFICES ASSUME CenterInit PROVE CenterInv
  OBVIOUS
<1> USE DEF CenterInit, StoreInit
<1>1. CenterTypeOK
  BY DEF CenterTypeOK, TypeOK, RunStatus, ControlStatus, StageStatus
<1>2. LeasesOnlyWhileActive
  BY DEF LeasesOnlyWhileActive
<1>3. EndedRunHasNoPendingStage
  BY DEF EndedRunHasNoPendingStage, Terminal
<1> QED BY <1>1, <1>2, <1>3 DEF CenterInv

(* Every transaction of the center keeps the invariant.                     *)
LEMMA NextInv == CenterInv /\ [MessageNext]_centerVars => CenterInv'
<1> SUFFICES ASSUME CenterInv, [MessageNext]_centerVars PROVE CenterInv'
  OBVIOUS
<1>1. CASE UserStep
  BY <1>1, CreateRunKeepsInv, StopRunKeepsInv DEF UserStep
<1>2. CASE PollStep
  BY <1>2, PollKeepsInv
<1>3. CASE ResultMessage
  BY <1>3, ResultKeepsInv DEF ResultMessage
<1>4. CASE UpdateMessage
  <2> PICK r \in Runs : \E k \in Nat, u \in Updates(r) : ApplyUpdate(r, k, u)
    BY <1>4 DEF UpdateMessage
  <2>1. PICK k \in Nat, u \in Updates(r) : ApplyUpdate(r, k, u)
    OBVIOUS
  <2> QED BY <2>1, ProgressKeepsInv, ExitKeepsInv DEF ApplyUpdate
<1>5. CASE UNCHANGED centerVars
  <2>1. /\ status' = status /\ control' = control /\ stages' = stages
        /\ gpuLease' = gpuLease /\ portLease' = portLease /\ actions' = actions
        /\ artifacts' = artifacts /\ seq' = seq
    BY <1>5 DEF centerVars
  <2>2. CenterTypeOK'
    BY <2>1 DEF CenterInv, CenterTypeOK, TypeOK
  <2> QED BY <2>1, <2>2, ActiveStepKeepsInv
<1> QED BY <1>1, <1>2, <1>3, <1>4, <1>5 DEF MessageNext

(* It holds whatever messages are sent.                                     *)
LEMMA MessagesKeepInv == MessageSpec => []CenterInv
BY InitInv, NextInv, PTL DEF MessageSpec

(* The inductive invariant holds in every behaviour of the center.          *)
THEOREM CenterInvariant == CenterSpec => []CenterInv
BY MessagesKeepInv, CenterSendsMessages, PTL

(* Every column keeps its type, whatever an authenticated Worker sends.     *)
THEOREM CenterTypeCorrect == CenterSpec => []CenterTypeOK
<1>1. CenterInv => CenterTypeOK
  BY DEF CenterInv
<1> QED BY CenterInvariant, <1>1, PTL

(* A GPU or master port is never leased to a run that has ended, for every  *)
(* number of runs, GPUs and ports and every sequence of messages.           *)
THEOREM LeasesCorrect == CenterSpec => []LeasesOnlyWhileActive
<1>1. CenterInv => LeasesOnlyWhileActive
  BY DEF CenterInv
<1> QED BY CenterInvariant, <1>1, PTL

(* An ended run has no pending stage, so no late update can start one.      *)
THEOREM EndedRunsClosed == CenterSpec => []EndedRunHasNoPendingStage
<1>1. CenterInv => EndedRunHasNoPendingStage
  BY DEF CenterInv
<1> QED BY CenterInvariant, <1>1, PTL

-----------------------------------------------------------------------------
(* The action queue, the artifacts and the leases.  Both properties of the  *)
(* queue follow from one fact about a step: it rewrites rows that are still *)
(* open, keeping their run, kind and stage, and appends at most one row - a *)
(* stop only when the run has none open, and the start of a later stage     *)
(* only on the news that a stage ended well.  The last part shows that the center    *)
(* implements the abstract lease ledger.                                    *)

(* b holds the rows of a, of which only open ones have changed.             *)
Rewritten(a, b) ==
    /\ b \in Seq(Action)
    /\ DOMAIN b = DOMAIN a
    /\ \A i \in DOMAIN a : /\ b[i].run = a[i].run
                           /\ b[i].kind = a[i].kind
                           /\ b[i].stage = a[i].stage
                           /\ a[i].status \notin Open => b[i] = a[i]

(* b is a with its open rows rewritten and a row for run r appended.        *)
Queued(a, b, r, kind, n) ==
    \E c : /\ Rewritten(a, c)
           /\ b = QueueAction(c, r, kind, n)

(* What a step does to the action table when N are the runs it is told have *)
(* ended a stage well.                                                      *)
TableStep(N) ==
    \/ Rewritten(actions, actions')
    \/ \E r \in Runs : \E n \in StagesOf(r) :
          /\ status'[r] # "absent"
          /\ Queued(actions, actions', r, "start", n)
          /\ n = 1 \/ r \in N
    \/ \E r \in Runs : /\ status'[r] # "absent"
                       /\ ActionsOf(actions, r, {"stop"}, Open) = {}
                       /\ Queued(actions, actions', r, "stop", 0)

-----------------------------------------------------------------------------
(* Setting the status of open rows rewrites the table.                      *)
LEMMA SetStatusRewrites ==
    ASSUME NEW acts \in Seq(Action), NEW ids, NEW st \in ActionStatus,
           \A i \in ids \cap DOMAIN acts : acts[i].status \in Open
    PROVE  Rewritten(acts, SetStatus(acts, ids, st))
<1>1. /\ SetStatus(acts, ids, st) \in Seq(Action)
      /\ DOMAIN SetStatus(acts, ids, st) = DOMAIN acts
  BY SetStatusType
<1>2. ASSUME NEW i \in DOMAIN acts
      PROVE  /\ SetStatus(acts, ids, st)[i].run = acts[i].run
             /\ SetStatus(acts, ids, st)[i].kind = acts[i].kind
             /\ SetStatus(acts, ids, st)[i].stage = acts[i].stage
             /\ acts[i].status \notin Open => SetStatus(acts, ids, st)[i] = acts[i]
  <2>1. acts[i] \in Action
    OBVIOUS
  <2>2. SetStatus(acts, ids, st)[i] = IF i \in ids THEN [acts[i] EXCEPT !.status = st] ELSE acts[i]
    BY DEF SetStatus
  <2>3. /\ [acts[i] EXCEPT !.status = st].run = acts[i].run
        /\ [acts[i] EXCEPT !.status = st].kind = acts[i].kind
        /\ [acts[i] EXCEPT !.status = st].stage = acts[i].stage
    BY <2>1 DEF Action
  <2> QED BY <2>2, <2>3
<1> QED BY <1>1, <1>2 DEF Rewritten

(* Two rewritings of open rows are one.                                     *)
LEMMA RewrittenTwice ==
    ASSUME NEW a, NEW b, NEW c, Rewritten(a, b), Rewritten(b, c)
    PROVE  Rewritten(a, c)
<1> SUFFICES ASSUME NEW i \in DOMAIN a
             PROVE  /\ c[i].run = a[i].run
                    /\ c[i].kind = a[i].kind
                    /\ c[i].stage = a[i].stage
                    /\ a[i].status \notin Open => c[i] = a[i]
  BY DEF Rewritten
<1> QED BY DEF Rewritten

(* _finish_in cancels queued actions and touches no other.                  *)
LEMMA FinishInRewrites ==
    ASSUME NEW r, NEW st, NEW ss, NEW acts, Rewritten(actions, acts),
           FinishIn(r, st, ss, acts)
    PROVE  Rewritten(actions, actions')
<1> DEFINE ids == ActionsOf(acts, r, {"start", "stop"}, {"queued"})
<1>1. acts \in Seq(Action)
  BY DEF Rewritten
<1>2. \A i \in ids \cap DOMAIN acts : acts[i].status \in Open
  BY DEF ActionsOf, Open
<1>3. actions' = SetStatus(acts, ids, "cancelled")
  BY DEF FinishIn
<1> HIDE DEF ids
<1>4. Rewritten(acts, SetStatus(acts, ids, "cancelled"))
  BY <1>1, <1>2, SetStatusRewrites DEF ActionStatus
<1> QED BY <1>3, <1>4, RewrittenTwice

(* Settling the open rows of a run rewrites the table.                      *)
LEMMA SettleRewrites ==
    ASSUME NEW a, NEW acts, Rewritten(a, acts), NEW r, NEW kinds, NEW sts \in SUBSET Open
    PROVE  Rewritten(a, SetStatus(acts, ActionsOf(acts, r, kinds, sts), "succeeded"))
<1> DEFINE ids == ActionsOf(acts, r, kinds, sts)
<1>1. acts \in Seq(Action)
  BY DEF Rewritten
<1>2. \A i \in ids \cap DOMAIN acts : acts[i].status \in Open
  BY DEF ActionsOf
<1> HIDE DEF ids
<1>3. Rewritten(acts, SetStatus(acts, ids, "succeeded"))
  BY <1>1, <1>2, SetStatusRewrites DEF ActionStatus
<1>4. Rewritten(a, SetStatus(acts, ids, "succeeded"))
  BY <1>3, RewrittenTwice
<1> QED BY <1>4 DEF ids

(* An unchanged table, and one in which the start of a stage was settled.   *)
LEMMA ExitActionsRewrites ==
    ASSUME actions \in Seq(Action), NEW r, NEW n
    PROVE  /\ Rewritten(actions, actions)
           /\ Rewritten(actions, ExitActions(r, n))
<1>1. Rewritten(actions, actions)
  BY DEF Rewritten
<1>2. \A i \in StartActions(r, n, Open) \cap DOMAIN actions : actions[i].status \in Open
  BY DEF StartActions, ActionsOf
<1>3. Rewritten(actions, ExitActions(r, n))
  BY <1>2, SetStatusRewrites DEF ExitActions, ActionStatus
<1> QED BY <1>1, <1>3

-----------------------------------------------------------------------------
(* create_run and stop_run queue at most one action; stop_run queues a stop *)
(* only when none is open.                                                  *)
LEMMA UserTableStep ==
    ASSUME CenterInv, UserStep, NEW N
    PROVE  TableStep(N)
<1>0. actions \in Seq(Action) /\ status \in [Runs -> RunStatus]
  BY DEF CenterInv, CenterTypeOK, TypeOK
<1>1. Rewritten(actions, actions)
  BY <1>0, ExitActionsRewrites
<1>2. ASSUME NEW r \in Runs, NEW gs, NEW wantsPort, CreateRun(r, gs, wantsPort, "real")
      PROVE  TableStep(N)
  <2>1. actions' = QueueAction(actions, r, "start", 1) /\ status' = [status EXCEPT ![r] = "queued"]
    BY <1>2 DEF CreateRun
  <2>2. Queued(actions, actions', r, "start", 1)
    BY <1>1, <2>1 DEF Queued
  <2>3. status'[r] # "absent"
    BY <1>0, <2>1
  <2>4. 1 \in StagesOf(r)
    BY StageCountAssumption DEF StagesOf
  <2> QED BY <2>2, <2>3, <2>4 DEF TableStep
<1>3. ASSUME NEW r \in Runs, StopQueuedRun(r) PROVE TableStep(N)
  <2>1. FinishIn(r, "cancelled", stages[r], actions)
    BY <1>3 DEF StopQueuedRun
  <2> QED BY <1>1, <2>1, FinishInRewrites DEF TableStep
<1>4. ASSUME NEW r \in Runs, RequestStop(r) PROVE TableStep(N)
  <2>1. CASE actions' = actions
    BY <1>1, <2>1 DEF TableStep
  <2>2. CASE /\ ActionsOf(actions, r, {"stop"}, Open) = {}
             /\ actions' = QueueAction(actions, r, "stop", 0)
    <3>1. Queued(actions, actions', r, "stop", 0)
      BY <1>1, <2>2 DEF Queued
    <3>2. status'[r] # "absent"
      BY <1>0, <1>4 DEF RequestStop
    <3> QED BY <2>2, <3>1, <3>2 DEF TableStep
  <2> QED BY <1>4, <2>1, <2>2 DEF RequestStop
<1> QED BY <1>2, <1>3, <1>4 DEF UserStep, StopRun

(* A poll requeues running actions and claims a queued one.                 *)
LEMMA PollTableStep ==
    ASSUME CenterInv, PollStep, NEW N
    PROVE  TableStep(N)
<1>0. actions \in Seq(Action)
  BY DEF CenterInv, CenterTypeOK, TypeOK
<1>1. PICK ids \in SUBSET DOMAIN actions :
        (\E i \in DOMAIN actions : PollClaim(ids, i)) \/ PollEmpty(ids)
  BY DEF PollStep
<1> DEFINE acts == Requeued(ids)
<1>2. Rewritten(actions, acts)
  <2>1. \A i \in ids \cap DOMAIN actions : actions[i].status \in Open
    BY <1>1 DEF PollClaim, PollEmpty, Open
  <2> QED BY <1>0, <2>1, SetStatusRewrites DEF Requeued, ActionStatus
<1>3. CASE PollEmpty(ids)
  BY <1>2, <1>3 DEF PollEmpty, TableStep
<1>4. ASSUME NEW i \in DOMAIN actions, PollClaim(ids, i) PROVE TableStep(N)
  <2> HIDE DEF acts
  <2>1. Claim(acts, i) /\ Eligible(acts, i) /\ i \in DOMAIN acts
    BY <1>4 DEF PollClaim, FirstEligible, acts
  <2> DEFINE a == acts[i]
             b == [a EXCEPT !.status = "running", !.claim = @ + 1]
  <2>2. actions' = [j \in DOMAIN acts |-> IF j = i THEN b ELSE acts[j]]
    BY <2>1 DEF Claim
  <2>3. a.status \in Open
    BY <2>1 DEF Eligible, Open
  <2>4. a \in Action
    BY <1>2, <2>1 DEF Rewritten
  <2>5. b.run = a.run /\ b.kind = a.kind /\ b.stage = a.stage
    <3> HIDE DEF a
    <3> QED BY <2>4 DEF Action
  <2>6. actions' \in Seq(Action)
    <3>1. CenterInv'
      BY PollKeepsInv
    <3> QED BY <3>1 DEF CenterInv, CenterTypeOK, TypeOK
  <2>7. Rewritten(acts, actions')
    <3> HIDE DEF b
    <3> QED BY <2>2, <2>3, <2>5, <2>6 DEF Rewritten
  <2> QED BY <1>2, <2>7, RewrittenTwice DEF TableStep
<1> QED BY <1>1, <1>3, <1>4

(* The result of an action settles it, and perhaps ends its run.            *)
LEMMA ResultTableStep ==
    ASSUME CenterInv, NEW i \in DOMAIN actions, NEW token,
           \/ ActionSucceeded(i, token)
           \/ StartUnresolved(i, token)
           \/ StartFailed(i, token)
           \/ StopFailed(i, token),
           NEW N
    PROVE  TableStep(N)
<1>0. actions \in Seq(Action)
  BY DEF CenterInv, CenterTypeOK, TypeOK
<1>1. \A j \in {i} \cap DOMAIN actions : actions[j].status \in Open
  BY DEF ActionSucceeded, StartUnresolved, StartFailed, StopFailed, ClaimHeld, Open
<1> DEFINE failed == SetStatus(actions, {i}, "failed")
<1>2. Rewritten(actions, failed) /\ Rewritten(actions, SetStatus(actions, {i}, "succeeded"))
  BY <1>0, <1>1, SetStatusRewrites DEF ActionStatus
<1>3. CASE StartFailed(i, token)
  <2> DEFINE r == actions[i].run
             settled == SetStatus(failed, ActionsOf(failed, r, {"stop"}, Open), "succeeded")
  <2>1. \/ FinishIn(r, "cancelled", stages[r], settled)
        \/ FinishIn(r, "failed", stages[r], failed)
    BY <1>3 DEF StartFailed
  <2> HIDE DEF failed, r
  <2>2. Rewritten(actions, settled)
    BY <1>2, SettleRewrites
  <2> HIDE DEF settled
  <2> QED BY <1>2, <2>1, <2>2, FinishInRewrites DEF TableStep
<1>4. CASE ActionSucceeded(i, token) \/ StartUnresolved(i, token) \/ StopFailed(i, token)
  BY <1>2, <1>4 DEF ActionSucceeded, StartUnresolved, StopFailed, TableStep
<1> QED BY <1>3, <1>4

(* An update settles open actions, and perhaps queues the next start.       *)
LEMMA UpdateTableStep ==
    ASSUME CenterInv, NEW r \in Runs, NEW k \in Nat, NEW u \in Updates(r),
           ApplyUpdate(r, k, u),
           NEW N, u.status = "succeeded" => r \in N
    PROVE  TableStep(N)
<1>0. actions \in Seq(Action) /\ status \in [Runs -> RunStatus]
  BY DEF CenterInv, CenterTypeOK, TypeOK
<1> DEFINE acts == ExitActions(r, u.stage)
<1>1. Rewritten(actions, actions) /\ Rewritten(actions, acts)
  BY <1>0, ExitActionsRewrites
<1>2. CASE ApplyReport(r, k, u) \/ ApplyUnresolved(r, k, u) \/ ApplyStillRunning(r, k, u)
  BY <1>1, <1>2 DEF ApplyReport, ApplyUnresolved, ApplyStillRunning, TableStep
<1>3. CASE ApplyStarted(r, k, u)
  <2> DEFINE ids == StartActions(r, u.stage, {"running"})
  <2>1. actions' = SetStatus(actions, ids, "succeeded")
    BY <1>3 DEF ApplyStarted
  <2>2. \A i \in ids \cap DOMAIN actions : actions[i].status \in Open
    BY DEF StartActions, ActionsOf, Open
  <2> HIDE DEF ids
  <2> QED BY <1>0, <2>1, <2>2, SetStatusRewrites DEF TableStep, ActionStatus
<1> HIDE DEF acts
<1>4. CASE ExitWhileStopping(r, u.stage)
  <2>1. FinishIn(r, "cancelled", stages[r], StopsSettled(acts, r))
    BY <1>4 DEF ExitWhileStopping, acts
  <2>2. Rewritten(actions, StopsSettled(acts, r))
    BY <1>1, SettleRewrites DEF StopsSettled
  <2> QED BY <2>1, <2>2, FinishInRewrites DEF TableStep
<1>5. CASE ExitUnsuccessful(r, u.stage, u.status)
  <2> DEFINE settled == SetStatus(acts, ActionsOf(acts, r, {"stop"}, {"running"}), "succeeded")
             ss == [stages[r] EXCEPT ![u.stage] = u.status]
  <2>1. FinishIn(r, u.status, ss, settled) \/ FinishIn(r, u.status, ss, acts)
    BY <1>5 DEF ExitUnsuccessful, acts
  <2>2. Rewritten(actions, settled)
    BY <1>1, SettleRewrites DEF Open
  <2> HIDE DEF settled, ss
  <2> QED BY <1>1, <2>1, <2>2, FinishInRewrites DEF TableStep
<1>6. CASE ExitLastStage(r, u.stage)
  <2> DEFINE done == [stages[r] EXCEPT ![u.stage] = "succeeded"]
  <2>1. FinishIn(r, "succeeded", done, acts)
    BY <1>6 DEF ExitLastStage, acts
  <2> HIDE DEF done
  <2> QED BY <1>1, <2>1, FinishInRewrites DEF TableStep
<1>7. CASE u.status = "succeeded" /\ ExitToNextStage(r, u.stage)
  <2>1. PICK m \in DOMAIN [stages[r] EXCEPT ![u.stage] = "succeeded"] :
          actions' = QueueAction(acts, r, "start", m)
    BY <1>7 DEF ExitToNextStage, acts
  <2>2. m \in StagesOf(r)
    <3>1. DOMAIN stages[r] = StagesOf(r)
      BY DEF CenterInv, CenterTypeOK, TypeOK
    <3> QED BY <2>1, <3>1
  <2>3. status'[r] # "absent"
    BY <1>0, <1>7 DEF ExitToNextStage
  <2>4. Queued(actions, actions', r, "start", m)
    BY <1>1, <2>1 DEF Queued
  <2> QED BY <1>7, <2>2, <2>3, <2>4 DEF TableStep
<1> QED BY <1>2, <1>3, <1>4, <1>5, <1>6, <1>7 DEF ApplyUpdate, ApplyExited

(* Every step of the center rewrites open rows and appends at most one.     *)
LEMMA EveryTableStep ==
    ASSUME CenterInv, [MessageNext]_centerVars
    PROVE  TableStep(Runs)
<1>1. CASE UserStep
  BY <1>1, UserTableStep
<1>2. CASE PollStep
  BY <1>2, PollTableStep
<1>3. CASE ResultMessage
  BY <1>3, ResultTableStep DEF ResultMessage
<1>4. CASE UpdateMessage
  <2>1. PICK r \in Runs : \E k \in Nat, u \in Updates(r) : ApplyUpdate(r, k, u)
    BY <1>4 DEF UpdateMessage
  <2>2. PICK k \in Nat, u \in Updates(r) : ApplyUpdate(r, k, u)
    BY <2>1
  <2> QED BY <2>2, UpdateTableStep
<1>5. CASE UNCHANGED centerVars
  <2>1. actions' = actions
    BY <1>5 DEF centerVars
  <2>2. Rewritten(actions, actions)
    BY ExitActionsRewrites DEF CenterInv, CenterTypeOK, TypeOK
  <2> QED BY <2>1, <2>2 DEF TableStep
<1> QED BY <1>1, <1>2, <1>3, <1>4, <1>5 DEF MessageNext

-----------------------------------------------------------------------------
(* A step of the table leaves at most one stop of a run open.               *)
LEMMA TableStepKeepsOneStop ==
    ASSUME actions \in Seq(Action), AtMostOneOpenStop, TableStep(Runs)
    PROVE  AtMostOneOpenStop'
<1> DEFINE OpenStop(acts, i) == acts[i].kind = "stop" /\ acts[i].status \in Open
           Single(acts) == \A i, j \in DOMAIN acts :
              acts[i].run = acts[j].run /\ OpenStop(acts, i) /\ OpenStop(acts, j) => i = j
<1>1. ASSUME NEW acts, Rewritten(actions, acts) PROVE Single(acts)
  <2>1. \A i \in DOMAIN acts : i \in DOMAIN actions /\ acts[i].run = actions[i].run
                                /\ (OpenStop(acts, i) => OpenStop(actions, i))
    BY <1>1 DEF Rewritten
  <2> QED BY <2>1 DEF AtMostOneOpenStop
<1>2. ASSUME NEW acts \in Seq(Action), NEW r, NEW kind, NEW n
      PROVE  LET b == QueueAction(acts, r, kind, n) IN
             /\ \A i \in DOMAIN b : (i \in DOMAIN acts /\ b[i] = acts[i]) \/ i = Len(acts) + 1
             /\ b[Len(acts) + 1].run = r /\ b[Len(acts) + 1].kind = kind
  BY DEF QueueAction
<1>3. CASE Rewritten(actions, actions')
  BY <1>1, <1>3 DEF AtMostOneOpenStop
<1>4. ASSUME NEW r \in Runs, NEW n, Queued(actions, actions', r, "start", n)
      PROVE  Single(actions')
  <2>1. PICK acts : Rewritten(actions, acts) /\ actions' = QueueAction(acts, r, "start", n)
    BY <1>4 DEF Queued
  <2>2. Single(acts) /\ acts \in Seq(Action)
    BY <1>1, <2>1 DEF Rewritten
  <2>3. \A i \in DOMAIN actions' : OpenStop(actions', i) => i \in DOMAIN acts /\ actions'[i] = acts[i]
    BY <1>2, <2>1, <2>2
  <2> QED BY <2>2, <2>3
<1>5. ASSUME NEW r \in Runs, ActionsOf(actions, r, {"stop"}, Open) = {},
             Queued(actions, actions', r, "stop", 0)
      PROVE  Single(actions')
  <2>1. PICK acts : Rewritten(actions, acts) /\ actions' = QueueAction(acts, r, "stop", 0)
    BY <1>5 DEF Queued
  <2>2. Single(acts) /\ acts \in Seq(Action)
    BY <1>1, <2>1 DEF Rewritten
  <2>3. \A i \in DOMAIN acts : acts[i].run = r => ~OpenStop(acts, i)
    BY <1>5, <2>1 DEF Rewritten, ActionsOf
  <2>4. \A i \in DOMAIN actions' : \/ i \in DOMAIN acts /\ actions'[i] = acts[i]
                                   \/ i = Len(acts) + 1 /\ actions'[i].run = r
    BY <1>2, <2>1, <2>2
  <2> QED BY <2>2, <2>3, <2>4
<1> QED BY <1>3, <1>4, <1>5 DEF TableStep, AtMostOneOpenStop

(* A step of the table leaves settled rows alone.                           *)
LEMMA TableStepKeepsSettled ==
    ASSUME TableStep(Runs)
    PROVE  \A i \in DOMAIN actions :
              actions[i].status \notin Open => actions'[i] = actions[i]
<1>1. CASE Rewritten(actions, actions')
  BY <1>1 DEF Rewritten
<1>2. ASSUME NEW r, NEW kind, NEW n, Queued(actions, actions', r, kind, n)
      PROVE  \A i \in DOMAIN actions :
                actions[i].status \notin Open => actions'[i] = actions[i]
  <2>1. PICK acts : Rewritten(actions, acts) /\ actions' = QueueAction(acts, r, kind, n)
    BY <1>2 DEF Queued
  <2>2. \A i \in DOMAIN acts : actions'[i] = acts[i]
    BY <2>1 DEF QueueAction, Rewritten
  <2> QED BY <2>1, <2>2 DEF Rewritten
<1> QED BY <1>1, <1>2 DEF TableStep

(* So no messages leave two stops of a run open.                            *)
LEMMA MessagesKeepOneStop == MessageSpec => []AtMostOneOpenStop
<1>1. CenterInit => AtMostOneOpenStop
  BY DEF CenterInit, StoreInit, AtMostOneOpenStop
<1>2. CenterInv /\ AtMostOneOpenStop /\ [MessageNext]_centerVars => AtMostOneOpenStop'
  BY EveryTableStep, TableStepKeepsOneStop DEF CenterInv, CenterTypeOK, TypeOK
<1> QED BY <1>1, <1>2, MessagesKeepInv, PTL DEF MessageSpec

(* However often a stop is requested, expires and is retried, whatever the  *)
(* Worker sends, a run has at most one stop action open (stop_run).         *)
THEOREM OneOpenStop == CenterSpec => []AtMostOneOpenStop
BY MessagesKeepOneStop, CenterSendsMessages, PTL

(* Nor does any message change a settled action.                            *)
LEMMA MessagesKeepSettled == MessageSpec => SettledActionsStay
<1>1. CenterInv /\ [MessageNext]_centerVars =>
        [\A i \in DOMAIN actions :
            actions[i].status \notin Open => actions'[i] = actions[i]]_centerVars
  BY EveryTableStep, TableStepKeepsSettled
<1> QED BY <1>1, MessagesKeepInv, PTL DEF MessageSpec, SettledActionsStay

(* A settled action is never claimed, requeued or settled differently, in   *)
(* any step of the center.                                                  *)
THEOREM SettledActionsFinal == CenterSpec => SettledActionsStay
BY MessagesKeepSettled, CenterSendsMessages, PTL

-----------------------------------------------------------------------------
(* Only the exit of the last stage ends a run well, and it registers the    *)
(* model in the same transaction; no artifact is ever removed.              *)
LEMMA ModelStep ==
    ASSUME CenterInv, SucceededHasModel, [MessageNext]_centerVars
    PROVE  SucceededHasModel'
<1> DEFINE Model(r) == \E a \in DOMAIN artifacts[r] : artifacts[r][a].kind = "version_model"
<1>0. /\ status \in [Runs -> RunStatus]
      /\ artifacts \in [Runs -> Seq(Artifact)]
  BY DEF CenterInv, CenterTypeOK, TypeOK
<1>1. CASE /\ artifacts' = artifacts
           /\ \A r \in Runs : status'[r] = "succeeded" => status[r] = "succeeded"
  BY <1>1 DEF SucceededHasModel
<1>2. ASSUME NEW r, NEW st, NEW ss, NEW acts, FinishIn(r, st, ss, acts), st # "succeeded"
      PROVE  \A q \in Runs : status'[q] = "succeeded" => status[q] = "succeeded"
  BY <1>0, <1>2 DEF FinishIn
<1>3. CASE UserStep
  <2>1. ASSUME NEW r \in Runs, NEW gs, NEW wantsPort, CreateRun(r, gs, wantsPort, "real")
        PROVE  SucceededHasModel'
    BY <1>0, <1>1, <2>1 DEF CreateRun
  <2>2. ASSUME NEW r \in Runs, StopRun(r) PROVE SucceededHasModel'
    BY <1>0, <1>1, <1>2, <2>2 DEF StopRun, StopQueuedRun, RequestStop
  <2> QED BY <1>3, <2>1, <2>2 DEF UserStep
<1>4. CASE PollStep
  <2>1. ASSUME NEW acts, NEW i, Claim(acts, i) PROVE SucceededHasModel'
    <3>1. artifacts' = artifacts
      BY <2>1 DEF Claim
    <3>2. status' = status \/ status' = [status EXCEPT ![acts[i].run] = "preparing"]
      BY <2>1 DEF Claim
    <3> QED BY <1>0, <1>1, <3>1, <3>2
  <2>2. ASSUME NEW ids, PollEmpty(ids) PROVE SucceededHasModel'
    BY <1>1, <2>2 DEF PollEmpty
  <2> QED BY <1>4, <2>1, <2>2 DEF PollStep, PollClaim
<1>5. CASE ResultMessage
  <2>0. PICK i \in DOMAIN actions : \E token :
          \/ ActionSucceeded(i, token)
          \/ StartUnresolved(i, token)
          \/ StartFailed(i, token)
          \/ StopFailed(i, token)
    BY <1>5, Zenon DEF ResultMessage
  <2>1. PICK token :
          \/ ActionSucceeded(i, token)
          \/ StartUnresolved(i, token)
          \/ StartFailed(i, token)
          \/ StopFailed(i, token)
    BY <2>0, Zenon
  <2>2. CASE StartFailed(i, token)
    <3>1. artifacts' = artifacts
      BY <2>2 DEF StartFailed
    <3>2. \E st, ss, acts : st # "succeeded" /\ FinishIn(actions[i].run, st, ss, acts)
      BY <2>2 DEF StartFailed
    <3> QED BY <1>1, <1>2, <3>1, <3>2
  <2>3. CASE ActionSucceeded(i, token) \/ StartUnresolved(i, token) \/ StopFailed(i, token)
    BY <1>1, <2>3 DEF ActionSucceeded, StartUnresolved, StopFailed
  <2> QED BY <2>1, <2>2, <2>3
<1>6. CASE UpdateMessage
  <2>1. PICK r \in Runs : \E k \in Nat, u \in Updates(r) : ApplyUpdate(r, k, u)
    BY <1>6 DEF UpdateMessage
  <2>2. PICK k \in Nat, u \in Updates(r) : ApplyUpdate(r, k, u)
    BY <2>1
  <2>3. CASE ApplyReport(r, k, u) \/ ApplyUnresolved(r, k, u)
    BY <1>1, <2>3 DEF ApplyReport, ApplyUnresolved
  <2>4. CASE ApplyStarted(r, k, u) \/ ApplyStillRunning(r, k, u)
    BY <1>0, <1>1, <2>4 DEF ApplyStarted, ApplyStillRunning
  <2>5. CASE ExitWhileStopping(r, u.stage) \/ ExitUnsuccessful(r, u.stage, u.status)
    <3>1. artifacts' = artifacts
      BY <2>5 DEF ExitWhileStopping, ExitUnsuccessful
    <3>2. \E st, ss, acts : st # "succeeded" /\ FinishIn(r, st, ss, acts)
      BY <2>5 DEF ExitWhileStopping, ExitUnsuccessful
    <3> QED BY <1>1, <1>2, <3>1, <3>2
  <2> DEFINE out == StageOutput(r, u.stage)
  <2>6. /\ out \in Seq(Artifact)
        /\ Len(out) = Len(artifacts[r]) + 1
        /\ \A a \in DOMAIN artifacts[r] : a \in DOMAIN out /\ out[a] = artifacts[r][a]
    <3>1. u.stage \in Nat
      BY StageCountAssumption DEF Updates, StagesOf
    <3>2. [kind |-> "stage_output", stage |-> u.stage] \in Artifact
      BY <3>1 DEF Artifact
    <3> QED BY <1>0, <3>2 DEF StageOutput
  <2> HIDE DEF out
  <2>7. CASE ExitToNextStage(r, u.stage)
    <3>1. /\ artifacts' = [artifacts EXCEPT ![r] = out]
          /\ status' = [status EXCEPT ![r] = "preparing"]
      BY <2>7 DEF ExitToNextStage, out
    <3> QED BY <1>0, <3>1 DEF SucceededHasModel
  <2>8. CASE ExitLastStage(r, u.stage)
    <3> DEFINE model == [kind |-> "version_model", stage |-> u.stage]
    <3>1. /\ artifacts' = [artifacts EXCEPT ![r] = Append(out, model)]
          /\ status' = [status EXCEPT ![r] = "succeeded"]
      BY <2>8 DEF ExitLastStage, FinishIn, out
    <3>2. artifacts'[r] = Append(out, model) /\ \A q \in Runs \ {r} : artifacts'[q] = artifacts[q]
      BY <1>0, <3>1
    <3>3. /\ Len(out) + 1 \in DOMAIN Append(out, model)
          /\ Append(out, model)[Len(out) + 1].kind = "version_model"
      BY <2>6
    <3>4. \A q \in Runs \ {r} : status'[q] = status[q]
      BY <1>0, <3>1
    <3> HIDE DEF model
    <3> QED BY <3>2, <3>3, <3>4 DEF SucceededHasModel
  <2> QED BY <2>2, <2>3, <2>4, <2>5, <2>7, <2>8 DEF ApplyUpdate, ApplyExited
<1>7. CASE UNCHANGED centerVars
  BY <1>1, <1>7 DEF centerVars
<1> QED BY <1>3, <1>4, <1>5, <1>6, <1>7 DEF MessageNext

(* It holds whatever messages are sent.                                     *)
LEMMA MessagesKeepModels == MessageSpec => []SucceededHasModel
<1>1. CenterInit => SucceededHasModel
  BY DEF CenterInit, StoreInit, SucceededHasModel
<1> QED BY <1>1, ModelStep, MessagesKeepInv, PTL DEF MessageSpec

(* A run reported "succeeded" has its model in the library, whatever order  *)
(* of exits, stops and reconciliations the center was sent.                 *)
THEOREM SucceededRunsHaveModels == CenterSpec => []SucceededHasModel
BY MessagesKeepModels, CenterSendsMessages, PTL

-----------------------------------------------------------------------------
(* The center implements the abstract lease ledger: creating a run is a     *)
(* grant, ending a run that holds something is a release, and every other   *)
(* transaction leaves the ledger alone.                                     *)
(*                                                                          *)
(* That a message can never release or grant for a run the center does not  *)
(* know needs three facts of every state, LedgerInv: only created runs have *)
(* a control status, only created runs have actions, and a run with a port  *)
(* has a GPU.                                                               *)
LedgerInv ==
    /\ \A r \in Runs : status[r] = "absent" => control[r] = "none"
    /\ \A i \in DOMAIN actions : status[actions[i].run] # "absent"
    /\ PortNeedsGpu

(* A step of the ledger that gives no control status to a run that does not *)
(* exist.                                                                   *)
LeaseStep ==
    /\ LeaseMove
    /\ \A r \in Runs : status'[r] = "absent" => control'[r] = control[r]

-----------------------------------------------------------------------------
(* A transaction that ends with _finish_in for a known run releases it.     *)
LEMMA FinishInLeaseStep ==
    ASSUME CenterInv, NEW r \in Runs, NEW st \in Terminal, NEW ss, NEW acts,
           status[r] # "absent", FinishIn(r, st, ss, acts)
    PROVE  LeaseStep
<1>1. status \in [Runs -> RunStatus] /\ control \in [Runs -> ControlStatus]
  BY DEF CenterInv, CenterTypeOK, TypeOK
<1>2. EndsRuns({r})
  BY <1>1 DEF FinishIn, WithoutRun, EndsRuns, Terminal, CenterInv, CenterTypeOK, TypeOK
<1>3. \A q \in Runs : status'[q] = "absent" => control'[q] = control[q]
  BY <1>1 DEF FinishIn, Terminal
<1> QED BY <1>2, <1>3 DEF LeaseStep, LeaseMove

(* create_run and stop_run.                                                 *)
LEMMA UserLeaseStep ==
    ASSUME CenterInv, UserStep
    PROVE  LeaseStep
<1>0. status \in [Runs -> RunStatus] /\ control \in [Runs -> ControlStatus]
  BY DEF CenterInv, CenterTypeOK, TypeOK
<1>1. ASSUME NEW r \in Runs, NEW gs \in (SUBSET Gpus) \ {{}}, NEW wantsPort \in BOOLEAN,
             CreateRun(r, gs, wantsPort, "real")
      PROVE  LeaseStep
  <2>1. CreatesRun(r, gs)
    <3>1. gs # {} /\ LeaseGpus(r, gs) /\ LeasePort(r, wantsPort)
      BY <1>1, Zenon DEF CreateRun
    <3>2. /\ status[r] = "absent" /\ status'[r] # "absent"
          /\ \A q \in Runs \ {r} : status'[q] = status[q]
      BY <1>0, <1>1 DEF CreateRun
    <3> QED BY <3>1, <3>2, Zenon DEF CreatesRun
  <2>2. \A q \in Runs : status'[q] = "absent" => control'[q] = control[q]
    BY <1>0, <1>1 DEF CreateRun
  <2> QED BY <2>1, <2>2 DEF LeaseStep, LeaseMove
<1>2. ASSUME NEW r \in Runs, StopQueuedRun(r) PROVE LeaseStep
  BY <1>2, FinishInLeaseStep DEF StopQueuedRun, Terminal
<1>3. ASSUME NEW r \in Runs, RequestStop(r) PROVE LeaseStep
  BY <1>0, <1>3 DEF RequestStop, LeaseStep, LeaseMove, KeepsLeases, Active
<1> QED BY <1>1, <1>2, <1>3 DEF UserStep, StopRun

(* poll_training_actions never touches a lease.                             *)
LEMMA PollLeaseStep ==
    ASSUME CenterInv, PollStep
    PROVE  LeaseStep
<1>0. status \in [Runs -> RunStatus] /\ control \in [Runs -> ControlStatus]
  BY DEF CenterInv, CenterTypeOK, TypeOK
<1>1. ASSUME NEW acts, NEW i, Claim(acts, i) PROVE LeaseStep
  <2> DEFINE q == acts[i].run
  <2>1. gpuLease' = gpuLease /\ portLease' = portLease
    BY <1>1 DEF Claim
  <2>2. \/ status' = status /\ control' = control
        \/ /\ status[q] = "queued"
           /\ status' = [status EXCEPT ![q] = "preparing"]
           /\ control' = [control EXCEPT ![q] = "connected"]
    BY <1>1 DEF Claim
  <2> HIDE DEF q
  <2> QED BY <1>0, <2>1, <2>2 DEF LeaseStep, LeaseMove, KeepsLeases
<1>2. ASSUME NEW ids, PollEmpty(ids) PROVE LeaseStep
  BY <1>2 DEF PollEmpty, LeaseStep, LeaseMove, KeepsLeases
<1> QED BY <1>1, <1>2 DEF PollStep, PollClaim

(* finish_training_action: the run of an action is one the center knows.    *)
LEMMA ResultLeaseStep ==
    ASSUME CenterInv, LedgerInv, NEW i \in DOMAIN actions, NEW token,
           \/ ActionSucceeded(i, token)
           \/ StartUnresolved(i, token)
           \/ StartFailed(i, token)
           \/ StopFailed(i, token)
    PROVE  LeaseStep
<1> DEFINE r == actions[i].run
<1>0. status \in [Runs -> RunStatus] /\ control \in [Runs -> ControlStatus]
  BY DEF CenterInv, CenterTypeOK, TypeOK
<1>1. r \in Runs /\ status[r] # "absent"
  <2>1. actions[i] \in Action
    BY DEF CenterInv, CenterTypeOK, TypeOK
  <2> QED BY <2>1 DEF Action, LedgerInv
<1>2. CASE StartFailed(i, token)
  <2>1. \E st \in Terminal : \E ss, acts : FinishIn(r, st, ss, acts)
    BY <1>2 DEF StartFailed, Terminal
  <2> HIDE DEF r
  <2> QED BY <1>1, <2>1, FinishInLeaseStep
<1>3. CASE ActionSucceeded(i, token) \/ StartUnresolved(i, token) \/ StopFailed(i, token)
  <2>1. gpuLease' = gpuLease /\ portLease' = portLease /\ status' = status
    BY <1>3 DEF ActionSucceeded, StartUnresolved, StopFailed
  <2>2. control' = control \/ \E c : control' = [control EXCEPT ![r] = c]
    BY <1>3 DEF ActionSucceeded, StartUnresolved, StopFailed, Unresolved
  <2> HIDE DEF r
  <2> QED BY <1>0, <1>1, <2>1, <2>2 DEF LeaseStep, LeaseMove, KeepsLeases
<1> QED BY <1>2, <1>3

(* apply_training_run_updates: only a run with a control status is updated, *)
(* so the run is one the center knows.                                      *)
LEMMA UpdateLeaseStep ==
    ASSUME CenterInv, LedgerInv, NEW r \in Runs, NEW k, NEW u \in Updates(r),
           ApplyUpdate(r, k, u)
    PROVE  LeaseStep
<1>0. status \in [Runs -> RunStatus] /\ control \in [Runs -> ControlStatus]
  BY DEF CenterInv, CenterTypeOK, TypeOK
<1>1. status[r] # "absent"
  BY DEF ApplyUpdate, ApplyReport, ApplyStarted, ApplyUnresolved, ApplyStillRunning,
         ApplyExited, NextUpdate, IsReal, LedgerInv
<1>2. ASSUME gpuLease' = gpuLease, portLease' = portLease,
             status' = status \/ \E st : st # "absent" /\ status' = [status EXCEPT ![r] = st],
             \E c : control' = [control EXCEPT ![r] = c]
      PROVE  LeaseStep
  BY <1>0, <1>1, <1>2 DEF LeaseStep, LeaseMove, KeepsLeases
<1>3. CASE ApplyReport(r, k, u) \/ ApplyUnresolved(r, k, u) \/ ApplyStillRunning(r, k, u)
  <2>1. /\ gpuLease' = gpuLease /\ portLease' = portLease
        /\ status' = status \/ status' = [status EXCEPT ![r] = "running"]
        /\ \E c : control' = [control EXCEPT ![r] = c]
    BY <1>3 DEF ApplyReport, ApplyUnresolved, ApplyStillRunning, Connected
  <2> QED BY <1>2, <2>1
<1>4. CASE ApplyStarted(r, k, u)
  <2>1. /\ gpuLease' = gpuLease /\ portLease' = portLease
        /\ status' = [status EXCEPT ![r] =
                        IF status[r] \in {"queued", "preparing", "running"}
                        THEN "running" ELSE status[r]]
        /\ \E c : control' = [control EXCEPT ![r] = c]
    BY <1>4 DEF ApplyStarted, Connected
  <2> QED BY <1>1, <1>2, <2>1
<1>5. CASE ExitToNextStage(r, u.stage)
  <2>1. /\ gpuLease' = gpuLease /\ portLease' = portLease
        /\ status' = [status EXCEPT ![r] = "preparing"]
        /\ \E c : control' = [control EXCEPT ![r] = c]
    BY <1>5 DEF ExitToNextStage, Connected
  <2> QED BY <1>2, <2>1
<1>6. CASE \/ ExitWhileStopping(r, u.stage)
           \/ IsExit(u) /\ ExitUnsuccessful(r, u.stage, u.status)
           \/ ExitLastStage(r, u.stage)
  <2>1. IsExit(u) => u.status \in Terminal
    BY DEF Updates, IsExit, Outcomes, Terminal
  <2>2. \E st \in Terminal : \E ss, acts : FinishIn(r, st, ss, acts)
    BY <1>6, <2>1 DEF ExitWhileStopping, ExitUnsuccessful, ExitLastStage, Terminal
  <2> QED BY <1>1, <2>2, FinishInLeaseStep
<1> QED BY <1>3, <1>4, <1>5, <1>6 DEF ApplyUpdate, ApplyExited

(* Every transaction keeps the leases, ends a known run or creates one.     *)
LEMMA EveryLeaseStep ==
    ASSUME CenterInv, LedgerInv, [MessageNext]_centerVars
    PROVE  LeaseStep
<1>1. CASE UserStep
  BY <1>1, UserLeaseStep
<1>2. CASE PollStep
  BY <1>2, PollLeaseStep
<1>3. CASE ResultMessage
  BY <1>3, ResultLeaseStep DEF ResultMessage
<1>4. CASE UpdateMessage
  BY <1>4, UpdateLeaseStep DEF UpdateMessage
<1>5. CASE UNCHANGED centerVars
  BY <1>5 DEF centerVars, LeaseStep, LeaseMove, KeepsLeases
<1> QED BY <1>1, <1>2, <1>3, <1>4, <1>5 DEF MessageNext

-----------------------------------------------------------------------------
(* The rows of the action table name runs the center knows.                 *)
LEMMA ActionsNameKnownRuns ==
    ASSUME CenterInv, LedgerInv, TableStep(Runs),
           \A r \in Runs : status[r] # "absent" => status'[r] # "absent"
    PROVE  \A i \in DOMAIN actions' : status'[actions'[i].run] # "absent"
<1>0. actions \in Seq(Action) /\ \A i \in DOMAIN actions : actions[i].run \in Runs
  <2>1. actions \in Seq(Action)
    BY DEF CenterInv, CenterTypeOK, TypeOK
  <2>2. \A i \in DOMAIN actions : actions[i] \in Action
    BY <2>1
  <2> QED BY <2>1, <2>2 DEF Action
<1>1. ASSUME NEW acts, Rewritten(actions, acts)
      PROVE  \A i \in DOMAIN acts : status'[acts[i].run] # "absent"
  BY <1>0, <1>1 DEF Rewritten, LedgerInv
<1>2. ASSUME NEW r \in Runs, NEW kind, NEW n, status'[r] # "absent",
             Queued(actions, actions', r, kind, n)
      PROVE  \A i \in DOMAIN actions' : status'[actions'[i].run] # "absent"
  <2>1. PICK acts : Rewritten(actions, acts) /\ actions' = QueueAction(acts, r, kind, n)
    BY <1>2 DEF Queued
  <2>2. \A i \in DOMAIN actions' : \/ i \in DOMAIN acts /\ actions'[i] = acts[i]
                                   \/ actions'[i].run = r
    BY <2>1 DEF QueueAction, Rewritten
  <2> QED BY <1>1, <1>2, <2>1, <2>2
<1> QED BY <1>1, <1>2 DEF TableStep

(* Every transaction keeps LedgerInv.                                       *)
LEMMA LedgerInvStep ==
    ASSUME CenterInv, LedgerInv, [MessageNext]_centerVars
    PROVE  LedgerInv'
<1>1. LeaseStep /\ TableStep(Runs)
  BY EveryLeaseStep, EveryTableStep
<1>2. LeaseTypes
  BY DEF LeaseTypes, CenterInv, CenterTypeOK, TypeOK
<1>3. /\ PortNeedsGpu'
      /\ \A r \in Runs : status[r] # "absent" => status'[r] # "absent"
  BY <1>1, <1>2, MoveKeepsPorts DEF LeaseStep, LedgerInv
<1>4. \A r \in Runs : status'[r] = "absent" => control'[r] = "none"
  BY <1>1, <1>3 DEF LeaseStep, LedgerInv
<1>5. \A i \in DOMAIN actions' : status'[actions'[i].run] # "absent"
  BY <1>1, <1>3, ActionsNameKnownRuns
<1> QED BY <1>3, <1>4, <1>5 DEF LedgerInv

-----------------------------------------------------------------------------
(* The start of the center is the start of the ledger.                      *)
LEMMA LedgerStart ==
    ASSUME CenterInit
    PROVE  Ledger!Init
BY DEF CenterInit, StoreInit, Ledger!Init, LeasePhase

(* Every transaction is a step of the ledger or leaves it alone.            *)
LEMMA LedgerStepRefined ==
    ASSUME CenterInv, LedgerInv, [MessageNext]_centerVars
    PROVE  [Ledger!Next]_(Ledger!ledgerVars)
<1>1. LeaseMove
  BY EveryLeaseStep DEF LeaseStep
<1>2. LeaseTypes
  BY DEF LeaseTypes, CenterInv, CenterTypeOK, TypeOK
<1> QED BY <1>1, <1>2, MoveRefines DEF LedgerInv

(* The strengthening the refinement needs holds whatever is sent.           *)
LEMMA MessagesKeepLedgerInv == MessageSpec => []LedgerInv
<1>1. CenterInit => LedgerInv
  BY DEF CenterInit, StoreInit, LedgerInv, PortNeedsGpu
<1> QED BY <1>1, LedgerInvStep, MessagesKeepInv, PTL DEF MessageSpec

(* It holds in every behaviour of the center.                               *)
THEOREM LedgerInvariant == CenterSpec => []LedgerInv
BY MessagesKeepLedgerInv, CenterSendsMessages, PTL

(* Every sequence of messages is a behaviour of the lease ledger.           *)
LEMMA MessagesImplementLedger == MessageSpec => LedgerSpec
<1>1. CenterInit => Ledger!Init
  BY LedgerStart
<1>2. CenterInv /\ LedgerInv /\ [MessageNext]_centerVars => [Ledger!Next]_(Ledger!ledgerVars)
  BY LedgerStepRefined
<1> QED BY <1>1, <1>2, MessagesKeepInv, MessagesKeepLedgerInv, PTL
        DEF MessageSpec, LedgerSpec, Ledger!Spec

(* Whatever an authenticated Worker sends, and however many runs compete,   *)
(* all leases of a run are granted in one step, once, to free resources,    *)
(* and given back in one step: the center implements the lease ledger.      *)
THEOREM CenterImplementsLedger == CenterSpec => LedgerSpec
BY MessagesImplementLedger, CenterSendsMessages, PTL

-----------------------------------------------------------------------------
(* The starts.  A run has begun when its first stage has left "pending",    *)
(* which it does when its first start action is claimed, or the run ends.   *)
(* As long as nothing is reported of a run that has not begun, each stage   *)
(* gets at most one start action: create_run queues that of the first       *)
(* stage, and an exit that of a stage it takes out of "pending".            *)
Begun(r) == stages[r][1] # "pending"

StartsOnce ==
    \A i, j \in DOMAIN actions :
        /\ actions[i].kind = "start" /\ actions[j].kind = "start"
        /\ actions[i].run = actions[j].run /\ actions[i].stage = actions[j].stage
        => i = j

(* What is known of action a.                                               *)
BeginningOK(a) ==
    /\ a.kind = "start" => a.stage \in StagesOf(a.run)
    /\ a.kind = "start" /\ a.stage # 1 => stages[a.run][a.stage] # "pending"
    /\ a.kind = "stop" \/ a.stage # 1 => Begun(a.run)

Beginnings ==
    /\ StartsOnce
    /\ \A i \in DOMAIN actions : BeginningOK(actions[i])
    /\ \A r \in Runs : status[r] \notin {"absent", "queued"} => Begun(r)

(* What a step does to the stages of runs: none becomes pending, and a run  *)
(* that leaves the queue has begun.                                         *)
StagesClose ==
    /\ \A r \in Runs : \A n \in StagesOf(r) :
          stages'[r][n] = "pending" => stages[r][n] = "pending"
    /\ \A r \in Runs : status'[r] \notin {"absent", "queued"} => Begun(r)'

(* And to the action table.                                                 *)
Opens ==
    \/ Rewritten(actions, actions')
    \/ \E r \in Runs : status[r] = "absent" /\ Queued(actions, actions', r, "start", 1)
    \/ \E r \in Runs : \E m \in StagesOf(r) :
          /\ Begun(r)
          /\ stages[r][m] = "pending" /\ stages'[r][m] # "pending"
          /\ Queued(actions, actions', r, "start", m)
    \/ \E r \in Runs : Begun(r) /\ Queued(actions, actions', r, "stop", 0)

(* Every run has a first stage.                                             *)
LEMMA FirstStage == \A r \in Runs : 1 \in StagesOf(r)
BY StageCountAssumption DEF StagesOf

(* A run stays begun.                                                       *)
LEMMA StaysBegun ==
    ASSUME StagesClose
    PROVE  \A r \in Runs : Begun(r) => Begun(r)'
BY FirstStage, Zenon DEF StagesClose, Begun

(* What is known of the rows of the table.                                  *)
LEMMA TableRows ==
    ASSUME CenterInv
    PROVE  /\ actions \in Seq(Action)
           /\ \A i \in DOMAIN actions : /\ actions[i] \in Action
                                        /\ actions[i].run \in Runs
                                        /\ actions[i].kind \in {"start", "stop"}
<1>0. actions \in Seq(Action)
  BY DEF CenterInv, CenterTypeOK, TypeOK
<1>1. \A i \in DOMAIN actions : actions[i] \in Action
  BY <1>0
<1>2. \A a \in Action : a.run \in Runs /\ a.kind \in {"start", "stop"}
  BY DEF Action
<1>. QED  BY <1>0, <1>1, <1>2

(* A queued row comes after the rewritten ones.                             *)
LEMMA QueuedRows ==
    ASSUME NEW a, NEW b, NEW r, NEW kind, NEW n, Queued(a, b, r, kind, n)
    PROVE  \E k : /\ k \notin DOMAIN a
                  /\ DOMAIN b = DOMAIN a \cup {k}
                  /\ b[k].run = r /\ b[k].kind = kind /\ b[k].stage = n
                  /\ \A i \in DOMAIN a : /\ b[i].run = a[i].run
                                         /\ b[i].kind = a[i].kind
                                         /\ b[i].stage = a[i].stage
                                         /\ a[i].status \notin Open => b[i] = a[i]
<1>1. PICK c : Rewritten(a, c) /\ b = QueueAction(c, r, kind, n)
  BY DEF Queued
<1>2. c \in Seq(Action)
  BY <1>1 DEF Rewritten
<1>3. /\ Len(c) + 1 \notin DOMAIN c
      /\ DOMAIN b = DOMAIN c \cup {Len(c) + 1}
      /\ b[Len(c) + 1] = [run |-> r, kind |-> kind, stage |-> n, status |-> "queued", claim |-> 0]
      /\ \A i \in DOMAIN c : b[i] = c[i]
  BY <1>1, <1>2 DEF QueueAction
<1>. QED  BY <1>1, <1>3 DEF Rewritten

(* A step that opens no stage twice keeps the starts apart.                 *)
LEMMA BeginningsStep ==
    ASSUME CenterInv, LedgerInv, Beginnings, StagesClose, Opens
    PROVE  Beginnings'
<1>1. \A i \in DOMAIN actions : actions[i].run \in Runs /\ status[actions[i].run] # "absent"
  BY TableRows, Zenon DEF LedgerInv
<1>2. \A r \in Runs : Begun(r) => Begun(r)'
  BY StaysBegun
<1>3. \A i \in DOMAIN actions : \A b :
         b.run = actions[i].run /\ b.kind = actions[i].kind /\ b.stage = actions[i].stage
            => BeginningOK(b)'
  BY <1>1, <1>2, Zenon DEF Beginnings, BeginningOK, StagesClose
<1>4. CASE Rewritten(actions, actions')
  <2>1. \A i \in DOMAIN actions' : /\ i \in DOMAIN actions
                                   /\ actions'[i].run = actions[i].run
                                   /\ actions'[i].kind = actions[i].kind
                                   /\ actions'[i].stage = actions[i].stage
    BY <1>4, Zenon DEF Rewritten
  <2>2. StartsOnce'
    BY <2>1, Zenon DEF Beginnings, StartsOnce
  <2>. QED  BY <1>3, <2>1, <2>2, Zenon DEF Beginnings, StagesClose
<1>5. ASSUME NEW r \in Runs, NEW kind \in {"start", "stop"}, NEW n,
             Queued(actions, actions', r, kind, n),
             kind = "start" => \A i \in DOMAIN actions :
                ~(actions[i].kind = "start" /\ actions[i].run = r /\ actions[i].stage = n),
             kind = "start" => n \in StagesOf(r),
             kind = "start" /\ n # 1 => stages'[r][n] # "pending",
             kind = "stop" \/ n # 1 => Begun(r)
      PROVE  Beginnings'
  <2>1. PICK k : /\ k \notin DOMAIN actions
                 /\ DOMAIN actions' = DOMAIN actions \cup {k}
                 /\ actions'[k].run = r /\ actions'[k].kind = kind /\ actions'[k].stage = n
                 /\ \A i \in DOMAIN actions : /\ actions'[i].run = actions[i].run
                                              /\ actions'[i].kind = actions[i].kind
                                              /\ actions'[i].stage = actions[i].stage
                                              /\ actions[i].status \notin Open =>
                                                    actions'[i] = actions[i]
    BY <1>5, QueuedRows
  <2>2. BeginningOK(actions[k])'
    BY <1>2, <1>5, <2>1, Zenon DEF BeginningOK
  <2>3. \A i \in DOMAIN actions' : i # k => i \in DOMAIN actions
    BY <2>1, Zenon
  <2>4. StartsOnce'
    <3>. SUFFICES ASSUME NEW i \in DOMAIN actions', NEW j \in DOMAIN actions',
                         actions'[i].kind = "start", actions'[j].kind = "start",
                         actions'[i].run = actions'[j].run, actions'[i].stage = actions'[j].stage
                  PROVE  i = j
      BY Zenon DEF StartsOnce
    <3>1. CASE i # k /\ j # k
      BY <2>1, <2>3, <3>1, Zenon DEF Beginnings, StartsOnce
    <3>2. CASE i = k /\ j # k
      BY <1>5, <2>1, <2>3, <3>2, Zenon
    <3>3. CASE i # k /\ j = k
      BY <1>5, <2>1, <2>3, <3>3, Zenon
    <3>. QED  BY <3>1, <3>2, <3>3, Zenon
  <2>5. \A i \in DOMAIN actions' : BeginningOK(actions[i])'
    BY <1>3, <2>1, <2>2, <2>3, Zenon
  <2>. QED  BY <2>4, <2>5, Zenon DEF Beginnings, StagesClose
<1>6. ASSUME NEW r \in Runs, status[r] = "absent", Queued(actions, actions', r, "start", 1)
      PROVE  Beginnings'
  <2>1. \A i \in DOMAIN actions : actions[i].run # r
    BY <1>1, <1>6, Zenon
  <2>. QED  BY <1>5, <1>6, <2>1, FirstStage, Zenon
<1>7. ASSUME NEW r \in Runs, NEW m \in StagesOf(r), Begun(r),
             stages[r][m] = "pending", stages'[r][m] # "pending",
             Queued(actions, actions', r, "start", m)
      PROVE  Beginnings'
  <2>1. m # 1
    BY <1>7 DEF Begun
  <2>2. \A i \in DOMAIN actions :
          ~(actions[i].kind = "start" /\ actions[i].run = r /\ actions[i].stage = m)
    BY <1>7, <2>1, Zenon DEF Beginnings, BeginningOK
  <2>. QED  BY <1>5, <1>7, <2>2, Zenon
<1>8. ASSUME NEW r \in Runs, Begun(r), Queued(actions, actions', r, "stop", 0)
      PROVE  Beginnings'
  <2>1. "stop" # "start"
    OBVIOUS
  <2>. QED  BY <1>5, <1>8, <2>1, Zenon
<1>. QED  BY <1>4, <1>6, <1>7, <1>8, Zenon DEF Opens

(* What a step of the center that claims nothing does besides: a row stays  *)
(* as it is, or is settled.                                                 *)
Settles(a, b) ==
    /\ DOMAIN a \subseteq DOMAIN b
    /\ \A i \in DOMAIN a : b[i] = a[i] \/ b[i].status \notin Open

(* Setting a status that is not open settles rows.                          *)
LEMMA SetStatusSettles ==
    ASSUME NEW acts \in Seq(Action), NEW ids, NEW st \in ActionStatus \ Open
    PROVE  /\ Settles(acts, SetStatus(acts, ids, st))
           /\ \A i \in ids \cap DOMAIN acts : SetStatus(acts, ids, st)[i].status \notin Open
<1>1. \A i \in DOMAIN acts : acts[i] \in Action
  OBVIOUS
<1>2. \A a \in Action : [a EXCEPT !.status = st].status = st
  BY DEF Action
<1>. QED  BY <1>1, <1>2 DEF SetStatus, Settles

(* Settling twice settles.                                                  *)
LEMMA SettlesTwice ==
    ASSUME NEW a, NEW b, NEW c, Settles(a, b), Settles(b, c)
    PROVE  Settles(a, c)
BY Zenon DEF Settles

(* An appended row settles nothing.                                         *)
LEMMA QueueSettles ==
    ASSUME NEW acts \in Seq(Action), NEW r, NEW kind, NEW n
    PROVE  Settles(acts, QueueAction(acts, r, kind, n))
BY DEF QueueAction, Settles

(* _finish_in settles what it cancels, and closes the stages of its run.    *)
LEMMA FinishInCloses ==
    ASSUME CenterInv, Beginnings, NEW r \in Runs, NEW st \in Terminal, NEW ss \in StageRows(r),
           NEW acts \in Seq(Action), Settles(actions, acts),
           st # "succeeded" \/ NoPending(ss),
           \A n \in StagesOf(r) : ss[n] = "pending" => stages[r][n] = "pending",
           FinishIn(r, st, ss, acts)
    PROVE  StagesClose /\ Settles(actions, actions')
<1>1. /\ status \in [Runs -> RunStatus]
      /\ stages = [q \in Runs |-> stages[q]]
  BY DEF CenterInv, CenterTypeOK, TypeOK
<1>2. /\ stages'[r] = ClosedStages(ss, st)
      /\ \A q \in Runs \ {r} : stages'[q] = stages[q] /\ status'[q] = status[q]
  BY <1>1 DEF FinishIn
<1>3. \A n \in StagesOf(r) : ClosedStages(ss, st)[n] # "pending"
  <2>1. ClosedStages(ss, st) \in StageRows(r) /\ NoPending(ClosedStages(ss, st))
    BY ClosedStagesType
  <2>. QED  BY <2>1 DEF StageRows, NoPending
<1>4. \A q \in Runs : status'[q] \notin {"absent", "queued"} => Begun(q)'
  <2>1. Begun(r)'
    BY <1>2, <1>3, FirstStage DEF Begun
  <2>2. \A q \in Runs \ {r} : status'[q] \notin {"absent", "queued"} => Begun(q)'
    BY <1>2, Zenon DEF Beginnings, Begun
  <2>. QED  BY <2>1, <2>2, Zenon
<1>5. StagesClose
  BY <1>2, <1>3, <1>4, Zenon DEF StagesClose
<1>6. Settles(acts, actions')
  <2>1. actions' = SetStatus(acts, ActionsOf(acts, r, {"start", "stop"}, {"queued"}), "cancelled")
    BY DEF FinishIn
  <2>2. "cancelled" \in ActionStatus \ Open
    BY DEF ActionStatus, Open
  <2>. QED  BY <2>1, <2>2, SetStatusSettles, Zenon
<1>. QED  BY <1>5, <1>6, SettlesTwice, Zenon

(* create_run and stop_run.                                                 *)
LEMMA UserOpens ==
    ASSUME CenterInv, LedgerInv, Beginnings, UserStep
    PROVE  StagesClose /\ Opens /\ Settles(actions, actions')
<1>0. /\ actions \in Seq(Action)
      /\ status \in [Runs -> RunStatus]
      /\ \A q \in Runs : stages[q] \in StageRows(q)
  BY DEF CenterInv, CenterTypeOK, TypeOK, StageRows
<1>1. Rewritten(actions, actions) /\ Settles(actions, actions)
  BY <1>0, ExitActionsRewrites DEF Settles
<1>2. ASSUME NEW r \in Runs, NEW gs, NEW wantsPort, CreateRun(r, gs, wantsPort, "real")
      PROVE  StagesClose /\ Opens /\ Settles(actions, actions')
  <2>1. /\ status[r] = "absent" /\ stages' = stages
        /\ actions' = QueueAction(actions, r, "start", 1)
        /\ status'[r] = "queued"
        /\ \A q \in Runs \ {r} : status'[q] = status[q]
    BY <1>0, <1>2 DEF CreateRun
  <2>2. Queued(actions, actions', r, "start", 1)
    BY <1>1, <2>1 DEF Queued
  <2>3. StagesClose
    BY <2>1 DEF StagesClose, Beginnings, Begun
  <2>4. Settles(actions, actions')
    BY <1>0, <2>1, QueueSettles
  <2>. QED  BY <2>1, <2>2, <2>3, <2>4, Zenon DEF Opens
<1>3. ASSUME NEW r \in Runs, StopQueuedRun(r)
      PROVE  StagesClose /\ Opens /\ Settles(actions, actions')
  <2>1. FinishIn(r, "cancelled", stages[r], actions)
    BY <1>3 DEF StopQueuedRun
  <2>2. StagesClose /\ Settles(actions, actions')
    BY <1>0, <1>1, <2>1, FinishInCloses DEF Terminal
  <2>3. Rewritten(actions, actions')
    BY <1>1, <2>1, FinishInRewrites
  <2>. QED  BY <2>2, <2>3 DEF Opens
<1>4. ASSUME NEW r \in Runs, RequestStop(r)
      PROVE  StagesClose /\ Opens /\ Settles(actions, actions')
  <2>1. /\ stages' = stages
        /\ status[r] \notin {"absent", "queued"}
        /\ \A q \in Runs \ {r} : status'[q] = status[q]
    BY <1>0, <1>4 DEF RequestStop, Active
  <2>2. Begun(r)
    BY <2>1, Zenon DEF Beginnings
  <2>3. StagesClose
    <3>1. \A q \in Runs : Begun(q)' = Begun(q)
      BY <2>1 DEF Begun
    <3>2. \A q \in Runs : status'[q] \notin {"absent", "queued"} => Begun(q)
      BY <2>1, <2>2, Zenon DEF Beginnings
    <3>. QED  BY <2>1, <3>1, <3>2 DEF StagesClose
  <2>4. CASE actions' = actions
    BY <1>1, <2>3, <2>4 DEF Opens
  <2>5. CASE actions' = QueueAction(actions, r, "stop", 0)
    <3>1. Queued(actions, actions', r, "stop", 0)
      BY <1>1, <2>5 DEF Queued
    <3>2. Settles(actions, actions')
      BY <1>0, <2>5, QueueSettles
    <3>. QED  BY <2>2, <2>3, <3>1, <3>2, Zenon DEF Opens
  <2>. QED  BY <1>4, <2>4, <2>5 DEF RequestStop
<1>. QED  BY <1>2, <1>3, <1>4 DEF UserStep, StopRun

(* A claim takes its stage out of "pending" when it takes its run out of    *)
(* the queue; in any case the run has begun then.                           *)
LEMMA ClaimOpens ==
    ASSUME CenterInv, Beginnings, NEW ids \in SUBSET DOMAIN actions,
           NEW i \in DOMAIN actions, PollClaim(ids, i)
    PROVE  /\ StagesClose /\ Opens
           /\ stages'[actions[i].run][1] # "pending"
<1> DEFINE acts == Requeued(ids)
           r == actions[i].run
           n == actions[i].stage
<1>0. /\ actions \in Seq(Action)
      /\ status \in [Runs -> RunStatus]
      /\ stages = [q \in Runs |-> stages[q]]
      /\ \A q \in Runs : stages[q] \in [StagesOf(q) -> StageStatus]
      /\ r \in Runs /\ actions[i].kind \in {"start", "stop"}
  BY TableRows DEF CenterInv, CenterTypeOK, TypeOK
<1>1. Rewritten(actions, acts)
  <2>1. \A j \in ids \cap DOMAIN actions : actions[j].status \in Open
    BY DEF PollClaim, Open
  <2>. QED  BY <1>0, <2>1, SetStatusRewrites DEF Requeued, ActionStatus
<1>2. acts[i].run = r /\ acts[i].kind = actions[i].kind /\ acts[i].stage = n
  BY <1>1 DEF Rewritten
<1>3. Claim(acts, i)
  BY DEF PollClaim
<1> HIDE DEF acts
<1>4. /\ \/ status' = status
         \/ actions[i].kind = "start" /\ status' = [status EXCEPT ![r] = "preparing"]
      /\ \/ stages' = stages /\ ~(actions[i].kind = "start" /\ stages[r][n] = "pending")
         \/ actions[i].kind = "start" /\ stages' = [stages EXCEPT ![r][n] = "preparing"]
  BY <1>2, <1>3 DEF Claim
<1>5. BeginningOK(actions[i])
  BY DEF Beginnings
<1>6. actions[i].kind = "start" => n \in StagesOf(r)
  BY <1>5 DEF BeginningOK
<1> HIDE DEF r, n
<1>7. \A q \in Runs : \A m \in StagesOf(q) :
          stages'[q][m] = "pending" => stages[q][m] = "pending"
  BY <1>0, <1>4, <1>6
<1>8. actions[i].kind = "start" => stages'[r][n] # "pending"
  BY <1>0, <1>4, <1>6
<1>9. stages'[r][1] # "pending"
  <2>1. CASE actions[i].kind = "start" /\ n = 1
    BY <1>8, <2>1
  <2>2. CASE ~(actions[i].kind = "start" /\ n = 1)
    <3>1. Begun(r)
      BY <1>0, <1>5, <2>2 DEF BeginningOK, r, n
    <3>. QED  BY <1>0, <1>7, <3>1, FirstStage DEF Begun, r
  <2>. QED  BY <2>1, <2>2
<1>10. \A q \in Runs : Begun(q) => Begun(q)'
  BY <1>7, FirstStage DEF Begun
<1>11. \A q \in Runs \ {r} : status'[q] = status[q]
  BY <1>0, <1>4
<1>12. StagesClose
  BY <1>7, <1>9, <1>10, <1>11, Zenon DEF StagesClose, Beginnings, Begun
<1>13. Rewritten(actions, actions')
  <2>1. PollStep
    BY DEF PollStep
  <2>2. TableStep({})
    BY <2>1, PollTableStep
  <2>3. DOMAIN actions' = DOMAIN actions
    BY <1>1, <1>3 DEF Claim, Rewritten
  <2>4. ASSUME NEW q, NEW kind, NEW m, Queued(actions, actions', q, kind, m) PROVE FALSE
    BY <2>3, <2>4, QueuedRows
  <2>. QED  BY <2>2, <2>4, Zenon DEF TableStep
<1>. QED  BY <1>9, <1>12, <1>13 DEF Opens, r

(* A poll that finds nothing to claim.                                      *)
LEMMA PollEmptyOpens ==
    ASSUME CenterInv, Beginnings, NEW ids \in SUBSET DOMAIN actions, PollEmpty(ids)
    PROVE  StagesClose /\ Opens
<1>0. actions \in Seq(Action)
  BY DEF CenterInv, CenterTypeOK, TypeOK
<1>1. Rewritten(actions, actions')
  <2>1. \A j \in ids \cap DOMAIN actions : actions[j].status \in Open
    BY DEF PollEmpty, Open
  <2>2. Rewritten(actions, Requeued(ids))
    BY <1>0, <2>1, SetStatusRewrites DEF Requeued, ActionStatus
  <2>. QED  BY <2>2 DEF PollEmpty
<1>2. StagesClose
  BY DEF PollEmpty, StagesClose, Beginnings, Begun
<1>. QED  BY <1>1, <1>2 DEF Opens

(* The result of an action settles it.                                      *)
LEMMA ResultOpens ==
    ASSUME CenterInv, Beginnings, NEW i \in DOMAIN actions, NEW token,
           \/ ActionSucceeded(i, token)
           \/ StartUnresolved(i, token)
           \/ StartFailed(i, token)
           \/ StopFailed(i, token)
    PROVE  /\ StagesClose /\ Opens /\ Settles(actions, actions')
           /\ actions'[i].status \notin Open
<1> DEFINE r == actions[i].run
           failed == SetStatus(actions, {i}, "failed")
<1>0. /\ actions \in Seq(Action)
      /\ \A q \in Runs : stages[q] \in StageRows(q)
      /\ r \in Runs
  BY TableRows DEF CenterInv, CenterTypeOK, TypeOK, StageRows
<1>1. \A j \in {i} \cap DOMAIN actions : actions[j].status \in Open
  BY DEF ActionSucceeded, StartUnresolved, StartFailed, StopFailed, ClaimHeld, Open
<1>2. /\ failed \in Seq(Action)
      /\ Rewritten(actions, failed)
      /\ Rewritten(actions, SetStatus(actions, {i}, "succeeded"))
  BY <1>0, <1>1, SetStatusRewrites DEF ActionStatus, Rewritten
<1>3. /\ Settles(actions, failed) /\ failed[i].status \notin Open
      /\ Settles(actions, SetStatus(actions, {i}, "succeeded"))
      /\ SetStatus(actions, {i}, "succeeded")[i].status \notin Open
  <2>1. "failed" \in ActionStatus \ Open /\ "succeeded" \in ActionStatus \ Open
    BY DEF ActionStatus, Open
  <2>2. i \in {i} \cap DOMAIN actions
    OBVIOUS
  <2>. QED  BY <1>0, <2>1, <2>2, SetStatusSettles, Zenon
<1>4. CASE StartFailed(i, token)
  <2> DEFINE settled == SetStatus(failed, ActionsOf(failed, r, {"stop"}, Open), "succeeded")
  <2>1. \/ FinishIn(r, "cancelled", stages[r], settled)
        \/ FinishIn(r, "failed", stages[r], failed)
    BY <1>4 DEF StartFailed
  <2> HIDE DEF failed, r
  <2>2. Rewritten(actions, settled)
    BY <1>2, SettleRewrites
  <2>3. settled \in Seq(Action) /\ Settles(failed, settled)
    BY <1>2, <2>2, SetStatusSettles DEF ActionStatus, Open, Rewritten
  <2>4. Settles(actions, settled)
    BY <1>3, <2>3, SettlesTwice
  <2>5. settled[i].status \notin Open
    BY <1>3, <2>3 DEF Settles, failed
  <2>6. PICK st \in Terminal, acts \in {settled, failed} :
          st # "succeeded" /\ FinishIn(r, st, stages[r], acts)
    BY <2>1 DEF Terminal
  <2>7. /\ acts \in Seq(Action) /\ Settles(actions, acts) /\ Rewritten(actions, acts)
        /\ acts[i].status \notin Open /\ i \in DOMAIN acts
    BY <1>2, <1>3, <2>2, <2>3, <2>4, <2>5, <2>6 DEF Rewritten
  <2> HIDE DEF settled
  <2>8. StagesClose /\ Settles(actions, actions')
    BY <1>0, <2>6, <2>7, FinishInCloses
  <2>9. Opens
    BY <2>6, <2>7, FinishInRewrites DEF Opens
  <2>10. actions'[i].status \notin Open
    <3>1. actions' = SetStatus(acts, ActionsOf(acts, r, {"start", "stop"}, {"queued"}), "cancelled")
      BY <2>6 DEF FinishIn
    <3>2. Settles(acts, actions')
      BY <2>7, <3>1, SetStatusSettles DEF ActionStatus, Open
    <3>. QED  BY <2>7, <3>2 DEF Settles
  <2>. QED  BY <2>8, <2>9, <2>10
<1>5. CASE ActionSucceeded(i, token) \/ StartUnresolved(i, token) \/ StopFailed(i, token)
  <2>1. /\ status' = status /\ stages' = stages
        /\ \/ actions' = failed
           \/ actions' = SetStatus(actions, {i}, "succeeded")
    BY <1>5 DEF ActionSucceeded, StartUnresolved, StopFailed
  <2>2. StagesClose
    BY <2>1 DEF StagesClose, Beginnings, Begun
  <2>. QED  BY <1>2, <1>3, <2>1, <2>2 DEF Opens
<1>. QED  BY <1>4, <1>5

(* A step that leaves the stages of begun runs alone, or takes them out of  *)
(* "pending", and moves only begun runs.                                    *)
LEMMA BegunMoves ==
    ASSUME Beginnings, NEW r \in Runs, Begun(r),
           \A q \in Runs \ {r} : stages'[q] = stages[q] /\ status'[q] = status[q],
           \A n \in StagesOf(r) : stages'[r][n] = "pending" => stages[r][n] = "pending"
    PROVE  StagesClose
<1>1. \A q \in Runs : \A n \in StagesOf(q) :
          stages'[q][n] = "pending" => stages[q][n] = "pending"
  BY Zenon
<1>2. \A q \in Runs : Begun(q) => Begun(q)'
  BY <1>1, FirstStage, Zenon DEF Begun
<1>3. \A q \in Runs : status'[q] \notin {"absent", "queued"} => Begun(q)'
  BY <1>2, Zenon DEF Beginnings
<1>. QED  BY <1>1, <1>3, Zenon DEF StagesClose

(* An update of a run that has begun.                                       *)
LEMMA UpdateOpens ==
    ASSUME CenterInv, Beginnings, NEW r \in Runs, NEW k \in Nat, NEW u \in Updates(r),
           Begun(r), ApplyUpdate(r, k, u)
    PROVE  StagesClose /\ Opens /\ Settles(actions, actions')
<1> DEFINE n == u.stage
           done == [stages[r] EXCEPT ![n] = "succeeded"]
           acts == ExitActions(r, n)
<1>0. /\ actions \in Seq(Action)
      /\ status \in [Runs -> RunStatus]
      /\ stages = [q \in Runs |-> stages[q]]
      /\ \A q \in Runs : stages[q] \in StageRows(q)
  BY DEF CenterInv, CenterTypeOK, TypeOK, StageRows
<1>1. /\ Rewritten(actions, actions) /\ Settles(actions, actions)
      /\ Rewritten(actions, acts) /\ acts \in Seq(Action)
  BY <1>0, ExitActionsRewrites DEF Settles, Rewritten
<1>2. Settles(actions, acts)
  BY <1>0, SetStatusSettles DEF ExitActions, ActionStatus, Open
<1>3. IsExit(u) => u.status \in Terminal
  BY DEF Updates, IsExit, Outcomes, Terminal
<1>4. done \in StageRows(r) /\ \A m \in StagesOf(r) : done[m] = "pending" => stages[r][m] = "pending"
  BY <1>0 DEF StageRows, StageStatus, Terminal
<1>5. CASE ApplyReport(r, k, u) \/ ApplyUnresolved(r, k, u) \/ ApplyStillRunning(r, k, u)
  <2>1. actions' = actions
    BY <1>5 DEF ApplyReport, ApplyUnresolved, ApplyStillRunning
  <2>2. /\ stages' = stages \/ stages' = [stages EXCEPT ![r][n] = "running"]
        /\ status' = status \/ status' = [status EXCEPT ![r] = "running"]
    BY <1>5 DEF ApplyReport, ApplyUnresolved, ApplyStillRunning
  <2> HIDE DEF n
  <2>3. /\ \A q \in Runs \ {r} : stages'[q] = stages[q] /\ status'[q] = status[q]
        /\ \A m \in StagesOf(r) : stages'[r][m] = "pending" => stages[r][m] = "pending"
    BY <1>0, <2>2 DEF StageRows
  <2>4. StagesClose
    BY <2>3, BegunMoves
  <2>. QED  BY <1>1, <2>1, <2>4 DEF Opens
<1>6. CASE ApplyStarted(r, k, u)
  <2> DEFINE ids == StartActions(r, n, {"running"})
             st == IF stages[r][n] \in {"pending", "preparing", "running"} THEN "running"
                   ELSE stages[r][n]
             rs == IF status[r] \in {"queued", "preparing", "running"} THEN "running" ELSE status[r]
  <2>1. /\ actions' = SetStatus(actions, ids, "succeeded")
        /\ stages' = [stages EXCEPT ![r][n] = st]
        /\ status' = [status EXCEPT ![r] = rs]
    BY <1>6 DEF ApplyStarted
  <2>2. \A i \in ids \cap DOMAIN actions : actions[i].status \in Open
    BY DEF StartActions, ActionsOf, Open
  <2>3. st = "pending" => FALSE
    OBVIOUS
  <2> HIDE DEF ids, st, rs, n
  <2>4. Rewritten(actions, actions') /\ Settles(actions, actions')
    BY <1>0, <2>1, <2>2, SetStatusRewrites, SetStatusSettles DEF ActionStatus, Open
  <2>5. /\ \A q \in Runs \ {r} : stages'[q] = stages[q] /\ status'[q] = status[q]
        /\ \A m \in StagesOf(r) : stages'[r][m] = "pending" => stages[r][m] = "pending"
    BY <1>0, <2>1, <2>3 DEF StageRows
  <2>6. StagesClose
    BY <2>5, BegunMoves
  <2>. QED  BY <2>4, <2>6 DEF Opens
<1>7. ASSUME NEW st \in Terminal, NEW ss \in StageRows(r), NEW as,
             Rewritten(actions, as), Settles(actions, as),
             st # "succeeded" \/ NoPending(ss),
             \A m \in StagesOf(r) : ss[m] = "pending" => stages[r][m] = "pending",
             FinishIn(r, st, ss, as)
      PROVE  StagesClose /\ Opens /\ Settles(actions, actions')
  <2>1. as \in Seq(Action)
    BY <1>7 DEF Rewritten
  <2>2. StagesClose /\ Settles(actions, actions')
    BY <1>7, <2>1, FinishInCloses
  <2>3. Rewritten(actions, actions')
    BY <1>7, FinishInRewrites
  <2>. QED  BY <2>2, <2>3 DEF Opens
<1> HIDE DEF acts, done
<1>8. ASSUME NEW sts \in SUBSET Open
      PROVE  LET as == SetStatus(acts, ActionsOf(acts, r, {"stop"}, sts), "succeeded")
             IN  Rewritten(actions, as) /\ Settles(actions, as)
  <2> DEFINE as == SetStatus(acts, ActionsOf(acts, r, {"stop"}, sts), "succeeded")
  <2>1. Rewritten(actions, as)
    BY <1>1, SettleRewrites
  <2>2. Settles(acts, as)
    BY <1>1, SetStatusSettles DEF ActionStatus, Open
  <2>. QED  BY <1>2, <2>1, <2>2, SettlesTwice
<1>9. CASE ExitWhileStopping(r, n)
  <2> DEFINE as == SetStatus(acts, ActionsOf(acts, r, {"stop"}, Open), "succeeded")
  <2>1. FinishIn(r, "cancelled", stages[r], as)
    BY <1>9 DEF ExitWhileStopping, StopsSettled, acts
  <2>2. Rewritten(actions, as) /\ Settles(actions, as)
    BY <1>8
  <2> HIDE DEF as
  <2>. QED  BY <1>0, <1>7, <2>1, <2>2 DEF Terminal
<1>10. CASE IsExit(u) /\ ExitUnsuccessful(r, n, u.status)
  <2> DEFINE ss == [stages[r] EXCEPT ![n] = u.status]
             as == SetStatus(acts, ActionsOf(acts, r, {"stop"}, {"running"}), "succeeded")
  <2>1. FinishIn(r, u.status, ss, as) \/ FinishIn(r, u.status, ss, acts)
    BY <1>10 DEF ExitUnsuccessful, acts
  <2>2. Rewritten(actions, as) /\ Settles(actions, as)
    BY <1>8 DEF Open
  <2>3. u.status \in Terminal \ {"succeeded"}
    BY <1>3, <1>10 DEF ExitUnsuccessful
  <2>4. /\ ss \in StageRows(r)
        /\ \A m \in StagesOf(r) : ss[m] = "pending" => stages[r][m] = "pending"
    BY <1>0, <2>3 DEF StageRows, StageStatus, Terminal
  <2> HIDE DEF as, ss
  <2>. QED  BY <1>1, <1>2, <1>7, <2>1, <2>2, <2>3, <2>4
<1>11. CASE ExitLastStage(r, n)
  <2>1. NoPending(done) /\ FinishIn(r, "succeeded", done, acts)
    BY <1>11 DEF ExitLastStage, acts, done
  <2>. QED  BY <1>1, <1>2, <1>4, <1>7, <2>1 DEF Terminal
<1>12. CASE ExitToNextStage(r, n)
  <2>1. PICK m \in DOMAIN done :
          /\ NextPending(done, m)
          /\ stages' = [stages EXCEPT ![r] = [done EXCEPT ![m] = "preparing"]]
          /\ actions' = QueueAction(acts, r, "start", m)
    BY <1>12 DEF ExitToNextStage, acts, done
  <2>2. m \in StagesOf(r) /\ stages[r][m] = "pending"
    BY <1>4, <2>1 DEF StageRows, NextPending
  <2>3. status' = [status EXCEPT ![r] = "preparing"]
    BY <1>12 DEF ExitToNextStage
  <2>4. /\ \A q \in Runs \ {r} : stages'[q] = stages[q] /\ status'[q] = status[q]
        /\ stages'[r] = [done EXCEPT ![m] = "preparing"]
    BY <1>0, <2>1, <2>3
  <2>5. /\ stages'[r][m] # "pending"
        /\ \A j \in StagesOf(r) : stages'[r][j] = "pending" => stages[r][j] = "pending"
    BY <1>4, <2>2, <2>4 DEF StageRows
  <2>6. StagesClose
    BY <2>4, <2>5, BegunMoves
  <2>7. Queued(actions, actions', r, "start", m)
    BY <1>1, <2>1 DEF Queued
  <2>8. Settles(actions, actions')
    <3>1. Settles(acts, actions')
      BY <1>1, <2>1, QueueSettles
    <3>. QED  BY <1>2, <3>1, SettlesTwice
  <2>. QED  BY <2>2, <2>5, <2>6, <2>7, <2>8, Zenon DEF Opens
<1> HIDE DEF n
<1>. QED  BY <1>5, <1>6, <1>9, <1>10, <1>11, <1>12 DEF ApplyUpdate, ApplyExited, n
=============================================================================
