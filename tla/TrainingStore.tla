---------------------------- MODULE TrainingStore ----------------------------
(***************************************************************************)
(* The run tables of the training center (training/store.py): runs, their  *)
(* ordered stages, GPU and master-port leases, the queue of actions for    *)
(* the node's Worker, and the artifacts of a model version.  Every method  *)
(* of the store runs in one BEGIN IMMEDIATE transaction, so each one is a  *)
(* single atomic action here.                                              *)
(*                                                                         *)
(* This module holds the state, the helpers every operation shares, and    *)
(* the two operations of the user: create a run and stop a run.  A request *)
(* that is refused (a stale state revision, a reused idempotency key, an   *)
(* unknown run) changes nothing and is a stuttering step.                  *)
(***************************************************************************)
EXTENDS Integers, Sequences, FiniteSets

CONSTANTS Runs,        \* the runs that may be created
          Gpus,        \* the GPUs of the node
          Ports,       \* master ports 29500..29600, as an interval of numbers
          StageCount,  \* StageCount[r]: number of stages of the workflow of r
          MaxActions,  \* bound on the length of the action queue
          None         \* "no run"

ASSUME StageCountAssumption == StageCount \in [Runs -> Nat \ {0}]
ASSUME NoneAssumption == None \notin Runs
ASSUME BoundAssumption == MaxActions \in Nat
ASSUME PortsAssumption == Ports \subseteq Nat

VARIABLES
    status,     \* status[r]: training_runs.status, "absent" before creation
    control,    \* control[r]: training_runs.execution_control_status
    stages,     \* stages[r][n]: training_stages.status of stage n
    gpuLease,   \* gpuLease[g]: the run gpu_leases names for g, or None
    portLease,  \* portLease[p]: the run port_leases names for p, or None
    actions,    \* training_execution_actions in id order
    artifacts   \* artifacts[r]: training_artifacts of r's version, in order

storeVars == <<status, control, stages, gpuLease, portLease, actions, artifacts>>

Terminal == {"succeeded", "failed", "cancelled", "lost"}
Active == {"queued", "preparing", "running", "stop_requested"}
RunStatus == {"absent"} \cup Active \cup Terminal
ControlStatus == {"none", "unreachable", "connected", "unresolved"}
StageStatus == {"pending", "preparing", "running", "skipped"} \cup Terminal
ActionStatus == {"queued", "running", "succeeded", "failed", "cancelled"}
Open == {"queued", "running"}

StagesOf(r) == 1 .. StageCount[r]

(* claim counts the times the action was claimed: the n-th claim token of  *)
(* an action is the number n, so a token of an earlier claim never matches. *)
Action == [run: Runs, kind: {"start", "stop"}, stage: Nat,
           status: ActionStatus, claim: Nat]

Artifact == [kind: {"stage_output", "version_model"}, stage: Nat]

(* Every column has a value of its type.  A run keeps one row per stage of  *)
(* its workflow for ever (training_stages is only ever updated).            *)
TypeOK ==
    /\ status \in [Runs -> RunStatus]
    /\ control \in [Runs -> ControlStatus]
    /\ stages = [r \in Runs |-> stages[r]]
    /\ \A r \in Runs : stages[r] \in [StagesOf(r) -> StageStatus]
    /\ gpuLease \in [Gpus -> Runs \cup {None}]
    /\ portLease \in [Ports -> Runs \cup {None}]
    /\ actions \in Seq(Action)
    /\ artifacts \in [Runs -> Seq(Artifact)]

StoreInit ==
    /\ status = [r \in Runs |-> "absent"]
    /\ control = [r \in Runs |-> "none"]
    /\ stages = [r \in Runs |-> [n \in StagesOf(r) |-> "pending"]]
    /\ gpuLease = [g \in Gpus |-> None]
    /\ portLease = [p \in Ports |-> None]
    /\ actions = << >>
    /\ artifacts = [r \in Runs |-> << >>]

-----------------------------------------------------------------------------
(* Helpers: the row updates that several operations make.                  *)

(* A run of execution_mode 'real' is the one with a control status.        *)
IsReal(r) == control[r] # "none"

(* The rows of the action table of run r with a kind and a status in sets. *)
ActionsOf(acts, r, kinds, sts) ==
    {i \in DOMAIN acts : /\ acts[i].run = r
                         /\ acts[i].kind \in kinds
                         /\ acts[i].status \in sts}

(* UPDATE training_execution_actions SET status=st for the rows in ids.    *)
SetStatus(acts, ids, st) ==
    [i \in DOMAIN acts |-> IF i \in ids THEN [acts[i] EXCEPT !.status = st]
                                        ELSE acts[i]]

(* _queue_training_action_in *)
QueueAction(acts, r, kind, n) ==
    Append(acts, [run |-> r, kind |-> kind, stage |-> n,
                  status |-> "queued", claim |-> 0])

(* A faulty ClosedStages, for mutation: a failure forgets the pending stages. *)
ClosedStagesLeavesPending(ss, st) ==
    [n \in DOMAIN ss |-> IF ss[n] \in {"preparing", "running"} THEN st ELSE ss[n]]

(* Stages a finished run leaves open are closed with it: a cancelled run    *)
(* cancels them; a failed or lost one fails the stage that was under way    *)
(* and skips those that never began; a succeeded one leaves them alone.     *)
ClosedStages(ss, st) ==
    [n \in DOMAIN ss |->
        IF st = "succeeded" THEN ss[n]
        ELSE IF ss[n] \in {"preparing", "running"} THEN st
        ELSE IF ss[n] = "pending" THEN IF st = "cancelled" THEN st ELSE "skipped"
        ELSE ss[n]]

(* A faulty WithoutRun: the leases of an ended run are kept.                 *)
WithoutRunKeepsLease(lease, r) == lease

(* DELETE FROM gpu_leases / port_leases WHERE run_id = r                    *)
WithoutRun(lease, r) ==
    [x \in DOMAIN lease |-> IF lease[x] = r THEN None ELSE lease[x]]

(* A faulty FinishIn: port_leases is forgotten.                              *)
FinishInKeepsPort(r, st, ss, acts) ==
    /\ status' = [status EXCEPT ![r] = st]
    /\ control' = [control EXCEPT ![r] = IF IsReal(r) THEN "connected" ELSE @]
    /\ stages' = [stages EXCEPT ![r] = ClosedStages(ss, st)]
    /\ gpuLease' = WithoutRun(gpuLease, r)
    /\ portLease' = portLease
    /\ actions' = SetStatus(acts, ActionsOf(acts, r, {"start", "stop"}, {"queued"}),
                            "cancelled")

(* _finish_in: the last writes of every transaction that ends a run, over   *)
(* the stages ss of r and the actions acts its earlier writes left.         *)
FinishIn(r, st, ss, acts) ==
    /\ status' = [status EXCEPT ![r] = st]
    /\ control' = [control EXCEPT ![r] = IF IsReal(r) THEN "connected" ELSE @]
    /\ stages' = [stages EXCEPT ![r] = ClosedStages(ss, st)]
    /\ gpuLease' = WithoutRun(gpuLease, r)
    /\ portLease' = WithoutRun(portLease, r)
    /\ actions' = SetStatus(acts, ActionsOf(acts, r, {"start", "stop"}, {"queued"}),
                            "cancelled")

(* A faulty NextPending: the filter on the status is forgotten.              *)
NextPendingAny(ss, n) == n \in DOMAIN ss /\ \A m \in DOMAIN ss : n <= m

(* The lowest-numbered stage of ss that is still pending is n.              *)
NextPending(ss, n) ==
    /\ n \in DOMAIN ss
    /\ ss[n] = "pending"
    /\ \A m \in DOMAIN ss : ss[m] = "pending" => n <= m

NoPending(ss) == \A m \in DOMAIN ss : ss[m] # "pending"

-----------------------------------------------------------------------------
(* create_run: the requested GPUs must all be free; a run that asks for a   *)
(* master port gets the first free one, and is refused when all are leased. *)
(* The checks on the model revision, the node and the dataset splits can    *)
(* only refuse the request.  A real run also queues the action that starts  *)
(* its first stage.                                                         *)

FirstFreePort(p) ==
    /\ p \in Ports
    /\ portLease[p] = None
    /\ \A q \in Ports : portLease[q] = None => p <= q

LeasePort(r, wantsPort) ==
    \/ ~wantsPort /\ portLease' = portLease
    \/ /\ wantsPort
       /\ \E p \in Ports : /\ FirstFreePort(p)
                           /\ portLease' = [portLease EXCEPT ![p] = r]

LeaseGpus(r, gs) ==
    /\ \A g \in gs : gpuLease[g] = None
    /\ gpuLease' = [g \in Gpus |-> IF g \in gs THEN r ELSE gpuLease[g]]

CreateRun(r, gs, wantsPort, mode) ==
    /\ status[r] = "absent"
    /\ mode = "real" => Len(actions) < MaxActions
    /\ LeaseGpus(r, gs)
    /\ LeasePort(r, wantsPort)
    /\ status' = [status EXCEPT ![r] = "queued"]
    /\ control' = [control EXCEPT ![r] = IF mode = "real" THEN "unreachable" ELSE "none"]
    /\ actions' = IF mode = "real" THEN QueueAction(actions, r, "start", 1) ELSE actions
    /\ UNCHANGED <<stages, artifacts>>

(* stop_run: a run that no Worker has taken up is cancelled at once; any    *)
(* other active run waits for its Worker, and a real run gets a stop action *)
(* unless one is still open.                                                *)
StopQueuedRun(r) ==
    /\ status[r] = "queued"
    /\ FinishIn(r, "cancelled", stages[r], actions)
    /\ UNCHANGED artifacts

(* A faulty RequestStop: every request queues a stop action.                 *)
RequestStopAlwaysQueues(r) ==
    /\ status[r] \in Active \ {"queued"}
    /\ Len(actions) < MaxActions
    /\ status' = [status EXCEPT ![r] = "stop_requested"]
    /\ actions' = QueueAction(actions, r, "stop", 0)
    /\ UNCHANGED <<control, stages, gpuLease, portLease, artifacts>>

RequestStop(r) ==
    /\ status[r] \in Active \ {"queued"}
    /\ status' = [status EXCEPT ![r] = "stop_requested"]
    /\ IF IsReal(r) /\ ActionsOf(actions, r, {"stop"}, Open) = {}
       THEN /\ Len(actions) < MaxActions
            /\ actions' = QueueAction(actions, r, "stop", 0)
       ELSE actions' = actions
    /\ UNCHANGED <<control, stages, gpuLease, portLease, artifacts>>

StopRun(r) == StopQueuedRun(r) \/ RequestStop(r)

-----------------------------------------------------------------------------
(* What every way of executing runs must keep.                              *)

(* A GPU or a master port is leased only to a run that has not ended: every *)
(* transaction that writes a terminal status also deletes the leases, and   *)
(* none that runs later, on a late or repeated update, creates one.         *)
LeasesOnlyWhileActive ==
    /\ \A g \in Gpus : gpuLease[g] # None => status[gpuLease[g]] \in Active
    /\ \A p \in Ports : portLease[p] # None => status[portLease[p]] \in Active

(* The store implements the abstract ledger: all leases of a run are granted *)
(* in one step, once, and released together, whoever ends the run (_finish_in *)
(* from a stop, an exit, a failed start or the recovery of stale runs).       *)
LeasePhase ==
    [r \in Runs |-> IF status[r] = "absent" THEN "new"
                    ELSE IF \E g \in Gpus : gpuLease[g] = r THEN "holding"
                    ELSE "done"]

Ledger == INSTANCE LeaseLedger WITH phase <- LeasePhase

LedgerSpec == Ledger!Spec
=============================================================================
