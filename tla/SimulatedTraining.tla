-------------------------- MODULE SimulatedTraining --------------------------
(***************************************************************************)
(* Simulated training (training/worker.py): a worker of the center takes a *)
(* queued simulation run, holds a lease of ten seconds on it, and renews   *)
(* the lease with every step it records.  A worker may end at any moment,  *)
(* or lose its lease to the clock while it still believes it owns the run; *)
(* any worker may then declare the run lost.                               *)
(***************************************************************************)
EXTENDS TrainingStore

CONSTANTS
    Workers,    \* worker ids; a restarted worker has a new one
    Mortal,     \* the workers that may end
    NoWorker,   \* owner_id NULL
    TotalSteps, \* steps of a stage
    Failing     \* the pairs <<run, stage>> with parameter simulate_failure

ASSUME SimulationAssumption ==
    /\ NoWorker \notin Workers
    /\ Mortal \subseteq Workers
    /\ TotalSteps \in Nat \ {0}

VARIABLES
    created,   \* the runs in the order of their ids
    owner,     \* owner[r]: training_runs.owner_id
    expired,   \* expired[r]: lease_expires_at has passed
    worker     \* worker[k]: where worker k stands

simVars == <<status, control, stages, gpuLease, portLease, actions, artifacts,
             created, owner, expired, worker>>

Resting == [pc |-> "idle", run |-> None, stage |-> 0, step |-> 0]

SimInit ==
    /\ StoreInit
    /\ created = << >>
    /\ owner = [r \in Runs |-> NoWorker]
    /\ expired = [r \in Runs |-> FALSE]
    /\ worker = [k \in Workers |-> Resting]

-----------------------------------------------------------------------------
(* The store's operations on simulation runs.                               *)

(* _finish_in clears the owner and the lease with the rest.                 *)
FinishSimulation(r, st, ss) ==
    /\ FinishIn(r, st, ss, actions)
    /\ owner' = [owner EXCEPT ![r] = NoWorker]
    /\ expired' = [expired EXCEPT ![r] = FALSE]

Renew(r) == expired' = [expired EXCEPT ![r] = FALSE]

(* The lowest-numbered stage of r with a status in sts is n.                *)
FirstStage(r, n, sts) ==
    /\ n \in StagesOf(r)
    /\ stages[r][n] \in sts
    /\ \A m \in StagesOf(r) : stages[r][m] \in sts => n <= m

SetStage(r, n, st) == [stages EXCEPT ![r][n] = st]

UserCreatesSimulation(r, gs, wantsPort) ==
    /\ CreateRun(r, gs, wantsPort, "simulation")
    /\ created' = Append(created, r)
    /\ UNCHANGED <<owner, expired, worker>>

UserStopsSimulation(r) ==
    /\ \/ StopQueuedRun(r)
       \/ RequestStop(r)
    /\ UNCHANGED <<created, owner, expired, worker>>

(* claim_next_run: the oldest queued run; its first stage, which is pending *)
(* in every queued run, is prepared.                                        *)
FirstQueued(r) ==
    \E i \in DOMAIN created :
        /\ created[i] = r
        /\ status[r] = "queued"
        /\ \A j \in 1 .. i - 1 : status[created[j]] # "queued"

ClaimNextRun(k, r) ==
    /\ worker[k].pc = "idle"
    /\ FirstQueued(r)
    /\ status' = [status EXCEPT ![r] = "preparing"]
    /\ \E n \in StagesOf(r) : FirstStage(r, n, {"pending"})
                              /\ stages' = SetStage(r, n, "preparing")
    /\ owner' = [owner EXCEPT ![r] = k]
    /\ Renew(r)
    /\ worker' = [worker EXCEPT ![k].pc = "transition", ![k].run = r]
    /\ UNCHANGED <<control, gpuLease, portLease, actions, artifacts, created>>

-----------------------------------------------------------------------------
(* _simulate: each call of the store first checks that the worker still     *)
(* owns the run, then whether a stop was requested.                         *)

Simulating(k) == worker[k].pc \in {"transition", "step", "finish", "fail"}

(* A faulty Owns: the owner is not compared.                                 *)
OwnsUnchecked(k) == TRUE

Owns(k) == owner[worker[k].run] = k
Rest(k) == worker' = [worker EXCEPT ![k] = Resting]

(* worker_lease_lost: the worker drops the run.                             *)
LeaseLost(k) ==
    /\ Simulating(k) /\ ~Owns(k)
    /\ Rest(k)
    /\ UNCHANGED <<storeVars, created, owner, expired>>

StopSeen(k) ==
    LET r == worker[k].run IN
    /\ Simulating(k) /\ Owns(k)
    /\ status[r] = "stop_requested"
    /\ FinishSimulation(r, "cancelled", stages[r])
    /\ Rest(k)
    /\ UNCHANGED <<artifacts, created>>

(* A faulty Proceeds: a requested stop is overlooked.                        *)
ProceedsThroughStop(k, pc) == worker[k].pc = pc /\ Owns(k)

(* The worker goes on with its run at step pc.                              *)
Proceeds(k, pc) == worker[k].pc = pc /\ Owns(k) /\ status[worker[k].run] # "stop_requested"

TransitionRunning(k) ==
    LET r == worker[k].run IN
    /\ Proceeds(k, "transition")
    /\ status' = [status EXCEPT ![r] = "running"]
    /\ \E n \in StagesOf(r) :
         /\ FirstStage(r, n, {"preparing"})
         /\ stages' = SetStage(r, n, "running")
         /\ worker' = [worker EXCEPT ![k].pc = "step", ![k].stage = n, ![k].step = 1]
    /\ UNCHANGED <<control, gpuLease, portLease, actions, artifacts, created, owner, expired>>

(* A failing stage ends at half of its steps.                               *)
AfterStep(k) ==
    LET w == worker[k] IN
    IF <<w.run, w.stage>> \in Failing /\ w.step >= TotalSteps \div 2
    THEN [w EXCEPT !.pc = "fail"]
    ELSE IF w.step = TotalSteps THEN [w EXCEPT !.pc = "finish"]
    ELSE [w EXCEPT !.step = @ + 1]

AppendStep(k) ==
    LET w == worker[k] IN
    /\ Proceeds(k, "step")
    /\ status[w.run] = "running" /\ stages[w.run][w.stage] = "running"
    /\ Renew(w.run)
    /\ worker' = [worker EXCEPT ![k] = AfterStep(k)]
    /\ UNCHANGED <<storeVars, created, owner>>

FinishStage(k) ==
    LET r == worker[k].run
        n == worker[k].stage
        done == [stages[r] EXCEPT ![n] = "succeeded"]
        output == Append(artifacts[r], [kind |-> "stage_output", stage |-> n])
    IN
    /\ Proceeds(k, "finish")
    /\ stages[r][n] \in {"running", "preparing"}
    /\ \/ \E m \in StagesOf(r) :
            /\ NextPending(done, m)
            /\ stages' = [stages EXCEPT ![r] = [done EXCEPT ![m] = "preparing"]]
            /\ artifacts' = [artifacts EXCEPT ![r] = output]
            /\ Renew(r)
            /\ worker' = [worker EXCEPT ![k].pc = "transition"]
            /\ UNCHANGED <<status, control, gpuLease, portLease, actions, owner>>
       \/ /\ NoPending(done)
          /\ artifacts' = [artifacts EXCEPT ![r] =
                             Append(output, [kind |-> "version_model", stage |-> n])]
          /\ FinishSimulation(r, "succeeded", done)
          /\ Rest(k)
    /\ UNCHANGED created

FailStage(k) ==
    LET r == worker[k].run IN
    /\ Proceeds(k, "fail")
    /\ FinishSimulation(r, "failed", [stages[r] EXCEPT ![worker[k].stage] = "failed"])
    /\ Rest(k)
    /\ UNCHANGED <<artifacts, created>>

(* Any other exception in the worker: finish_run with status "failed".      *)
WorkerError(k) ==
    LET r == worker[k].run IN
    /\ Simulating(k) /\ Proceeds(k, worker[k].pc)
    /\ \E n \in StagesOf(r) :
         /\ FirstStage(r, n, {"running", "preparing"})
         /\ FinishSimulation(r, "failed", [stages[r] EXCEPT ![n] = "failed"])
    /\ Rest(k)
    /\ UNCHANGED <<artifacts, created>>

-----------------------------------------------------------------------------
(* A faulty Stale: runs that never reached their first step are overlooked.  *)
StaleRunningOnly == {r \in Runs : status[r] = "running" /\ owner[r] # NoWorker /\ expired[r]}

(* recover_stale_runs, which a worker calls between claims and steps when   *)
(* it is due: all runs whose lease has passed end in one transaction.       *)
Stale == {r \in Runs : /\ status[r] \in {"preparing", "running", "stop_requested"}
                       /\ owner[r] # NoWorker /\ expired[r]}

RecoverStaleRuns(k) ==
    /\ worker[k].pc \in {"idle", "step"}
    /\ Stale # {}
    /\ status' = [r \in Runs |-> IF r \in Stale THEN "lost" ELSE status[r]]
    /\ stages' = [r \in Runs |-> IF r \in Stale THEN ClosedStages(stages[r], "lost")
                                               ELSE stages[r]]
    /\ gpuLease' = [g \in Gpus |-> IF gpuLease[g] \in Stale THEN None ELSE gpuLease[g]]
    /\ portLease' = [p \in Ports |-> IF portLease[p] \in Stale THEN None ELSE portLease[p]]
    /\ owner' = [r \in Runs |-> IF r \in Stale THEN NoWorker ELSE owner[r]]
    /\ expired' = [r \in Runs |-> expired[r] /\ r \notin Stale]
    /\ UNCHANGED <<control, actions, artifacts, created, worker>>

(* Ten seconds pass without a renewal.                                      *)
LeaseExpires(r) ==
    /\ owner[r] # NoWorker /\ ~expired[r]
    /\ expired' = [expired EXCEPT ![r] = TRUE]
    /\ UNCHANGED <<storeVars, created, owner, worker>>

(* The worker's process ends, or its stop event is set.                     *)
WorkerEnds(k) ==
    /\ k \in Mortal /\ worker[k].pc # "gone"
    /\ worker' = [worker EXCEPT ![k] = [Resting EXCEPT !.pc = "gone"]]
    /\ UNCHANGED <<storeVars, created, owner, expired>>

-----------------------------------------------------------------------------
WorkerStep(k) ==
    \/ \E r \in Runs : ClaimNextRun(k, r)
    \/ LeaseLost(k) \/ StopSeen(k)
    \/ TransitionRunning(k) \/ AppendStep(k) \/ FinishStage(k) \/ FailStage(k)
    \/ WorkerError(k)

SimNext ==
    \/ \E r \in Runs : \/ \E gs \in (SUBSET Gpus) \ {{}}, wantsPort \in BOOLEAN :
                             UserCreatesSimulation(r, gs, wantsPort)
                       \/ UserStopsSimulation(r)
                       \/ LeaseExpires(r)
    \/ \E k \in Workers : WorkerStep(k) \/ RecoverStaleRuns(k) \/ WorkerEnds(k)

(* Workers loop until they end; a lease that is not renewed passes with     *)
(* time.                                                                    *)
SimFairness ==
    /\ \A k \in Workers : WF_simVars(WorkerStep(k)) /\ WF_simVars(RecoverStaleRuns(k))
    /\ \A r \in Runs : WF_simVars(LeaseExpires(r))

SimSpec == SimInit /\ [][SimNext]_simVars /\ SimFairness

-----------------------------------------------------------------------------
(* An ended run is never touched again: a worker that lost its lease to the *)
(* clock, and whose run another worker declared lost, cannot record a       *)
(* result, register an artifact or reopen a stage.                          *)
EndedRunFrozen ==
    [][\A r \in Runs : status[r] \in Terminal =>
          /\ status'[r] = status[r]
          /\ stages'[r] = stages[r]
          /\ artifacts'[r] = artifacts[r]]_simVars

(* A stop that was accepted is never overtaken by the result of a worker    *)
(* that was already finishing: the run ends cancelled, or lost.             *)
StopNotOvertaken ==
    [][\A r \in Runs : status[r] = "stop_requested" =>
          status'[r] \in {"stop_requested", "cancelled", "lost"}]_simVars

(* Every run ends, and frees its leases, though workers end in the middle   *)
(* of a run or lose their leases.                                           *)
EveryRunEnds == \A r \in Runs : status[r] = "queued" ~> status[r] \in Terminal
=============================================================================
