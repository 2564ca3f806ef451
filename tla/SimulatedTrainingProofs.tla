---------------------- MODULE SimulatedTrainingProofs ----------------------
(***************************************************************************)
(* Proofs about SimulatedTraining, for any number of runs, stages, GPUs,   *)
(* ports and workers.  The invariant that carries them is that a run with  *)
(* an owner is under way: _finish_in and recover_stale_runs clear the      *)
(* owner in the transaction that ends the run, so the ownership test at    *)
(* the start of every store call of a worker also tells it that the run    *)
(* is still there to be changed.                                           *)
(*                                                                         *)
(* Every step is first shown to be one of four changes of the run tables   *)
(* (StoreStep); the properties then follow from those four.                *)
(***************************************************************************)
EXTENDS SimulatedTraining, TrainingStoreProofs

Position == [pc: {"idle", "transition", "step", "finish", "fail", "gone"},
             run: Runs \cup {None}, stage: Nat, step: Nat]

RowTypes ==
    /\ status \in [Runs -> RunStatus]
    /\ stages = [r \in Runs |-> stages[r]]
    /\ artifacts = [r \in Runs |-> artifacts[r]]
    /\ owner \in [Runs -> Workers \cup {NoWorker}]

WorkerInv ==
    /\ worker \in [Workers -> Position]
    /\ \A k \in Workers : Simulating(k) => worker[k].run \in Runs

OwnedRunsActive == \A r \in Runs : owner[r] # NoWorker => status[r] \in Active \ {"queued"}

SimInv ==
    /\ RowTypes
    /\ LeaseTypes
    /\ WorkerInv
    /\ OwnedRunsActive
    /\ LeasesOnlyWhileActive
    /\ PortNeedsGpu

-----------------------------------------------------------------------------
(* The four changes of the run tables.                                      *)

OnlyRows(rs) ==
    /\ RowTypes'
    /\ \A q \in Runs \ rs : /\ status'[q] = status[q]
                            /\ stages'[q] = stages[q]
                            /\ artifacts'[q] = artifacts[q]
                            /\ owner'[q] = owner[q]

Nothing == OnlyRows({}) /\ gpuLease' = gpuLease /\ portLease' = portLease

Advances(r) ==
    /\ OnlyRows({r})
    /\ gpuLease' = gpuLease /\ portLease' = portLease
    /\ status[r] \in Active /\ status'[r] \in Active \ {"queued"}
    /\ status[r] = "stop_requested" => status'[r] = "stop_requested"

Ends(rs) ==
    /\ OnlyRows(rs)
    /\ gpuLease' = [g \in Gpus |-> IF gpuLease[g] \in rs THEN None ELSE gpuLease[g]]
    /\ portLease' = [p \in Ports |-> IF portLease[p] \in rs THEN None ELSE portLease[p]]
    /\ \A r \in rs : /\ status[r] \in Active /\ status'[r] \in Terminal
                     /\ owner'[r] = NoWorker
                     /\ status[r] = "stop_requested" => status'[r] \in {"cancelled", "lost"}

Begins(r, gs) ==
    /\ OnlyRows({r})
    /\ CreatesRun(r, gs)
    /\ status'[r] = "queued"
    /\ owner'[r] = owner[r]

StoreStep ==
    \/ Nothing
    \/ \E r \in Runs : Advances(r)
    \/ \E rs \in SUBSET Runs : Ends(rs)
    \/ \E r \in Runs, gs \in SUBSET Gpus : Begins(r, gs)

-----------------------------------------------------------------------------
(* What follows from the four changes.                                      *)

(* They are moves of the lease ledger.                                      *)
LEMMA StoreStepMoves ==
    ASSUME StoreStep
    PROVE  LeaseMove
<1>1. ASSUME Nothing PROVE KeepsLeases
  BY <1>1 DEF Nothing, OnlyRows, KeepsLeases
<1>2. ASSUME NEW r \in Runs, Advances(r) PROVE KeepsLeases
  BY <1>2 DEF Advances, OnlyRows, KeepsLeases, Active
<1>3. ASSUME NEW rs \in SUBSET Runs, Ends(rs) PROVE EndsRuns(rs)
  BY <1>3 DEF Ends, OnlyRows, EndsRuns, Active, Terminal
<1>4. ASSUME NEW r \in Runs, NEW gs \in SUBSET Gpus, Begins(r, gs) PROVE CreatesRun(r, gs)
  BY <1>4 DEF Begins
<1> QED BY <1>1, <1>2, <1>3, <1>4 DEF StoreStep, LeaseMove

(* They keep types, ownership and leases.                                   *)
LEMMA StoreStepKeepsInv ==
    ASSUME SimInv, StoreStep, WorkerInv'
    PROVE  SimInv'
<1> USE DEF SimInv
<1>1. RowTypes'
  BY DEF StoreStep, Nothing, Advances, Ends, Begins, OnlyRows
<1>2. ASSUME Nothing PROVE LeaseTypes' /\ OwnedRunsActive' /\ LeasesOnlyWhileActive'
  BY <1>2, NoneAssumption DEF Nothing, OnlyRows, LeaseTypes, OwnedRunsActive, LeasesOnlyWhileActive
<1>3. ASSUME NEW r \in Runs, Advances(r)
      PROVE  LeaseTypes' /\ OwnedRunsActive' /\ LeasesOnlyWhileActive'
  BY <1>3, NoneAssumption DEF Advances, OnlyRows, LeaseTypes, OwnedRunsActive, LeasesOnlyWhileActive
<1>4. ASSUME NEW rs \in SUBSET Runs, Ends(rs)
      PROVE  LeaseTypes' /\ OwnedRunsActive' /\ LeasesOnlyWhileActive'
  <2>1. LeaseTypes'
    BY <1>4 DEF Ends, LeaseTypes
  <2>2. OwnedRunsActive'
    BY <1>4 DEF Ends, OnlyRows, OwnedRunsActive
  <2>3. ASSUME NEW g \in Gpus, gpuLease'[g] # None PROVE status'[gpuLease'[g]] \in Active
    BY <1>4, <2>3 DEF Ends, OnlyRows, LeaseTypes, LeasesOnlyWhileActive
  <2>4. ASSUME NEW p \in Ports, portLease'[p] # None PROVE status'[portLease'[p]] \in Active
    BY <1>4, <2>4 DEF Ends, OnlyRows, LeaseTypes, LeasesOnlyWhileActive
  <2> QED BY <2>1, <2>2, <2>3, <2>4 DEF LeasesOnlyWhileActive
<1>5. ASSUME NEW r \in Runs, NEW gs \in SUBSET Gpus, Begins(r, gs)
      PROVE  LeaseTypes' /\ OwnedRunsActive' /\ LeasesOnlyWhileActive'
  <2>1. /\ \A g \in Gpus : gpuLease'[g] \in {r, gpuLease[g]}
        /\ gpuLease' \in [Gpus -> Runs \cup {None}]
    BY <1>5 DEF Begins, CreatesRun, LeaseGpus, LeaseTypes
  <2>2. /\ \A p \in Ports : portLease'[p] \in {r, portLease[p]}
        /\ portLease' \in [Ports -> Runs \cup {None}]
    BY <1>5 DEF Begins, CreatesRun, LeasePort, LeaseTypes
  <2>3. OwnedRunsActive'
    BY <1>5 DEF Begins, OnlyRows, CreatesRun, OwnedRunsActive, Active
  <2>4. LeasesOnlyWhileActive'
    BY <1>5, <2>1, <2>2 DEF Begins, OnlyRows, LeasesOnlyWhileActive, LeaseTypes, Active
  <2> QED BY <2>1, <2>2, <2>3, <2>4 DEF LeaseTypes
<1>6. LeaseMove
  BY StoreStepMoves
<1>7. PortNeedsGpu'
  BY <1>6, MoveKeepsPorts
<1> QED BY <1>1, <1>2, <1>3, <1>4, <1>5, <1>7 DEF StoreStep

(* They leave ended runs alone.                                             *)
LEMMA StoreStepFreezes ==
    ASSUME StoreStep, NEW r \in Runs, status[r] \in Terminal
    PROVE  /\ status'[r] = status[r]
           /\ stages'[r] = stages[r]
           /\ artifacts'[r] = artifacts[r]
<1>1. CASE Nothing
  BY <1>1 DEF Nothing, OnlyRows
<1>2. CASE \E q \in Runs : Advances(q)
  BY <1>2 DEF Advances, OnlyRows, Active, Terminal
<1>3. CASE \E rs \in SUBSET Runs : Ends(rs)
  BY <1>3 DEF Ends, OnlyRows, Active, Terminal
<1>4. CASE \E q \in Runs, gs \in SUBSET Gpus : Begins(q, gs)
  BY <1>4 DEF Begins, OnlyRows, CreatesRun, Terminal
<1> QED BY <1>1, <1>2, <1>3, <1>4 DEF StoreStep

(* They answer a stop only by cancelling the run or losing it.              *)
LEMMA StoreStepHonoursStop ==
    ASSUME StoreStep, NEW r \in Runs, status[r] = "stop_requested"
    PROVE  status'[r] \in {"stop_requested", "cancelled", "lost"}
<1>1. CASE Nothing
  BY <1>1 DEF Nothing, OnlyRows
<1>2. CASE \E q \in Runs : Advances(q)
  BY <1>2 DEF Advances, OnlyRows
<1>3. CASE \E rs \in SUBSET Runs : Ends(rs)
  BY <1>3 DEF Ends, OnlyRows
<1>4. CASE \E q \in Runs, gs \in SUBSET Gpus : Begins(q, gs)
  BY <1>4 DEF Begins, OnlyRows, CreatesRun
<1> QED BY <1>1, <1>2, <1>3, <1>4 DEF StoreStep

-----------------------------------------------------------------------------
(* Every step is one of the four changes.                                   *)

(* The last transaction of a run (_finish_in).                              *)
LEMMA FinishEnds ==
    ASSUME SimInv, NEW r \in Runs, NEW st \in Terminal, NEW ss,
           FinishIn(r, st, ss, actions), status[r] \in Active,
           owner' \in [Runs -> Workers \cup {NoWorker}], owner'[r] = NoWorker,
           \A q \in Runs \ {r} : owner'[q] = owner[q],
           status[r] = "stop_requested" => st \in {"cancelled", "lost"},
           artifacts' = artifacts \/ \E a : artifacts' = [artifacts EXCEPT ![r] = a]
    PROVE  Ends({r})
<1> USE DEF SimInv, RowTypes, LeaseTypes
<1>1. /\ status' = [status EXCEPT ![r] = st]
      /\ stages' = [stages EXCEPT ![r] = ClosedStages(ss, st)]
  BY DEF FinishIn
<1>2. artifacts' = [q \in Runs |-> artifacts'[q]] /\ \A q \in Runs \ {r} : artifacts'[q] = artifacts[q]
  OBVIOUS
<1>3. OnlyRows({r})
  BY <1>1, <1>2 DEF OnlyRows, RunStatus
<1>4. /\ gpuLease' = [g \in Gpus |-> IF gpuLease[g] \in {r} THEN None ELSE gpuLease[g]]
      /\ portLease' = [p \in Ports |-> IF portLease[p] \in {r} THEN None ELSE portLease[p]]
  BY DEF FinishIn, WithoutRun
<1> QED BY <1>1, <1>3, <1>4 DEF Ends

(* create_run and stop_run.                                                 *)
LEMMA UserStoreStep ==
    ASSUME SimInv, NEW r \in Runs,
           \/ \E gs \in (SUBSET Gpus) \ {{}}, wantsPort \in BOOLEAN :
                 UserCreatesSimulation(r, gs, wantsPort)
           \/ UserStopsSimulation(r)
    PROVE  StoreStep
<1>0. RowTypes /\ LeaseTypes
  BY DEF SimInv
<1>1. ASSUME NEW gs \in (SUBSET Gpus) \ {{}}, NEW wantsPort \in BOOLEAN,
             UserCreatesSimulation(r, gs, wantsPort)
      PROVE  Begins(r, gs)
  <2>1. CreateRun(r, gs, wantsPort, "simulation") /\ owner' = owner
    BY <1>1 DEF UserCreatesSimulation
  <2>2. /\ status[r] = "absent" /\ status' = [status EXCEPT ![r] = "queued"]
        /\ stages' = stages /\ artifacts' = artifacts
    BY <2>1 DEF CreateRun
  <2>3. OnlyRows({r}) /\ status'[r] = "queued"
    BY <1>0, <2>1, <2>2 DEF OnlyRows, RowTypes, RunStatus, Active
  <2>4. gs # {} /\ LeaseGpus(r, gs) /\ LeasePort(r, wantsPort)
    BY <2>1, Zenon DEF CreateRun
  <2>5. CreatesRun(r, gs)
    BY <2>2, <2>3, <2>4 DEF CreatesRun, OnlyRows
  <2> QED BY <2>1, <2>3, <2>5 DEF Begins
<1>2. CASE UserStopsSimulation(r) /\ StopQueuedRun(r)
  <2>1. /\ FinishIn(r, "cancelled", stages[r], actions) /\ artifacts' = artifacts
        /\ owner' = owner /\ status[r] = "queued"
    BY <1>2 DEF StopQueuedRun, UserStopsSimulation
  <2>2. owner[r] = NoWorker
    BY <2>1 DEF SimInv, OwnedRunsActive
  <2>3. Ends({r})
    BY <1>0, <2>1, <2>2, FinishEnds DEF RowTypes, Terminal, Active
  <2> QED BY <2>3 DEF StoreStep
<1>3. CASE UserStopsSimulation(r) /\ RequestStop(r)
  <2>1. /\ status[r] \in Active /\ status' = [status EXCEPT ![r] = "stop_requested"]
        /\ stages' = stages /\ artifacts' = artifacts /\ owner' = owner
        /\ gpuLease' = gpuLease /\ portLease' = portLease
    BY <1>3 DEF RequestStop, UserStopsSimulation
  <2>2. Advances(r)
    BY <1>0, <2>1 DEF Advances, OnlyRows, RowTypes, RunStatus, Active
  <2> QED BY <2>2 DEF StoreStep
<1> QED BY <1>1, <1>2, <1>3 DEF UserStopsSimulation, StoreStep

(* claim_next_run takes a queued run.                                       *)
LEMMA ClaimStoreStep ==
    ASSUME SimInv, NEW k \in Workers, NEW r \in Runs, ClaimNextRun(k, r)
    PROVE  StoreStep
<1>1. status[r] = "queued" /\ status' = [status EXCEPT ![r] = "preparing"]
  BY DEF ClaimNextRun, FirstQueued
<1>2. /\ owner' = [owner EXCEPT ![r] = k] /\ artifacts' = artifacts
      /\ gpuLease' = gpuLease /\ portLease' = portLease
      /\ \E n : stages' = SetStage(r, n, "preparing")
  BY DEF ClaimNextRun
<1>3. Advances(r)
  BY <1>1, <1>2 DEF Advances, OnlyRows, SimInv, RowTypes, RunStatus, Active, SetStage
<1> QED BY <1>3 DEF StoreStep

(* A worker that lost its lease touches no table.                           *)
LEMMA QuietStoreStep ==
    ASSUME SimInv, UNCHANGED <<storeVars, owner>>
    PROVE  StoreStep
<1>1. Nothing
  BY DEF Nothing, OnlyRows, storeVars, SimInv, RowTypes
<1> QED BY <1>1 DEF StoreStep

(* The calls of a worker that still owns its run and saw no stop.           *)
LEMMA ProgressStoreStep ==
    ASSUME SimInv, NEW k \in Workers,
           TransitionRunning(k) \/ AppendStep(k) \/ FinishStage(k) \/ FailStage(k)
             \/ WorkerError(k) \/ StopSeen(k)
    PROVE  StoreStep
<1> DEFINE r == worker[k].run
           n == worker[k].stage
           done == [stages[r] EXCEPT ![n] = "succeeded"]
<1>0. Simulating(k) /\ Owns(k)
  BY DEF TransitionRunning, AppendStep, FinishStage, FailStage, WorkerError, StopSeen,
         Proceeds, Simulating
<1>1. r \in Runs /\ status[r] \in Active /\ status[r] # "queued" /\ RowTypes
  BY <1>0, SimulationAssumption DEF SimInv, WorkerInv, OwnedRunsActive, Owns
<1>2. ASSUME NEW st \in Terminal, NEW ss, FinishSimulation(r, st, ss),
             status[r] = "stop_requested" => st = "cancelled",
             artifacts' = artifacts \/ \E a : artifacts' = [artifacts EXCEPT ![r] = a]
      PROVE  StoreStep
  <2> HIDE DEF r
  <2>1. FinishIn(r, st, ss, actions) /\ owner' = [owner EXCEPT ![r] = NoWorker]
    BY <1>2 DEF FinishSimulation
  <2>2. /\ owner' \in [Runs -> Workers \cup {NoWorker}]
        /\ owner'[r] = NoWorker
        /\ \A q \in Runs \ {r} : owner'[q] = owner[q]
    BY <1>1, <2>1 DEF RowTypes
  <2>3. status[r] = "stop_requested" => st \in {"cancelled", "lost"}
    BY <1>2
  <2>4. Ends({r})
    BY <1>1, <1>2, <2>1, <2>2, <2>3, FinishEnds
  <2> QED BY <1>1, <2>4 DEF StoreStep
<1>3. CASE TransitionRunning(k)
  <2>1. /\ status[r] # "stop_requested" /\ status' = [status EXCEPT ![r] = "running"]
        /\ owner' = owner /\ artifacts' = artifacts
        /\ gpuLease' = gpuLease /\ portLease' = portLease
        /\ \E m : stages' = SetStage(r, m, "running")
    BY <1>3 DEF TransitionRunning, Proceeds
  <2> HIDE DEF r
  <2>2. Advances(r)
    BY <1>1, <2>1 DEF Advances, OnlyRows, RowTypes, RunStatus, Active, SetStage
  <2> QED BY <1>1, <2>2 DEF StoreStep
<1>4. CASE AppendStep(k)
  BY <1>4, QuietStoreStep DEF AppendStep
<1>5. CASE FinishStage(k)
  <2>1. CASE /\ status' = status /\ owner' = owner
             /\ gpuLease' = gpuLease /\ portLease' = portLease
             /\ \E a : artifacts' = [artifacts EXCEPT ![r] = a]
             /\ \E ss : stages' = [stages EXCEPT ![r] = ss]
    <3> HIDE DEF r
    <3>1. Advances(r)
      BY <1>1, <2>1 DEF Advances, OnlyRows, RowTypes
    <3> QED BY <1>1, <3>1 DEF StoreStep
  <2>2. CASE /\ FinishSimulation(r, "succeeded", done)
             /\ \E a : artifacts' = [artifacts EXCEPT ![r] = a]
    <3>1. status[r] # "stop_requested"
      BY <1>5 DEF FinishStage, Proceeds
    <3> HIDE DEF r, done
    <3> QED BY <1>2, <2>2, <3>1 DEF Terminal
  <2> QED BY <1>5, <2>1, <2>2 DEF FinishStage
<1>6. CASE FailStage(k) \/ WorkerError(k)
  <2>1. status[r] # "stop_requested" /\ artifacts' = artifacts
    BY <1>6 DEF FailStage, WorkerError, Proceeds
  <2>2. \E ss : FinishSimulation(r, "failed", ss)
    BY <1>6 DEF FailStage, WorkerError
  <2> HIDE DEF r
  <2> QED BY <1>2, <2>1, <2>2 DEF Terminal
<1>7. CASE StopSeen(k)
  <2>1. FinishSimulation(r, "cancelled", stages[r]) /\ artifacts' = artifacts
    BY <1>7 DEF StopSeen
  <2> HIDE DEF r
  <2> QED BY <1>2, <2>1 DEF Terminal
<1> QED BY <1>3, <1>4, <1>5, <1>6, <1>7

(* recover_stale_runs ends every stale run, in one transaction.             *)
LEMMA RecoverStoreStep ==
    ASSUME SimInv, NEW k \in Workers, RecoverStaleRuns(k)
    PROVE  StoreStep
<1>1. Stale \in SUBSET Runs /\ \A r \in Stale : status[r] \in Active
  BY DEF Stale, Active
<1>2. /\ status' = [r \in Runs |-> IF r \in Stale THEN "lost" ELSE status[r]]
      /\ stages' = [r \in Runs |-> IF r \in Stale THEN ClosedStages(stages[r], "lost")
                                                 ELSE stages[r]]
      /\ gpuLease' = [g \in Gpus |-> IF gpuLease[g] \in Stale THEN None ELSE gpuLease[g]]
      /\ portLease' = [p \in Ports |-> IF portLease[p] \in Stale THEN None ELSE portLease[p]]
      /\ owner' = [r \in Runs |-> IF r \in Stale THEN NoWorker ELSE owner[r]]
      /\ artifacts' = artifacts
  BY DEF RecoverStaleRuns
<1> HIDE DEF Stale
<1>3. OnlyRows(Stale)
  BY <1>1, <1>2 DEF OnlyRows, SimInv, RowTypes, RunStatus, Terminal
<1>4. Ends(Stale)
  BY <1>1, <1>2, <1>3 DEF Ends, Terminal
<1> QED BY <1>1, <1>4 DEF StoreStep

(* Every step of users, workers and the clock.                              *)
LEMMA EveryStoreStep ==
    ASSUME SimInv, [SimNext]_simVars
    PROVE  StoreStep
<1>1. ASSUME NEW r \in Runs, LeaseExpires(r) PROVE StoreStep
  BY <1>1, QuietStoreStep DEF LeaseExpires
<1>2. ASSUME NEW k \in Workers, LeaseLost(k) \/ WorkerEnds(k) PROVE StoreStep
  BY <1>2, QuietStoreStep DEF LeaseLost, WorkerEnds
<1>3. CASE UNCHANGED simVars
  BY <1>3, QuietStoreStep DEF simVars, storeVars
<1>4. ASSUME NEW k \in Workers, WorkerStep(k) PROVE StoreStep
  BY <1>2, <1>4, ClaimStoreStep, ProgressStoreStep DEF WorkerStep
<1>5. ASSUME NEW k \in Workers, RecoverStaleRuns(k) PROVE StoreStep
  BY <1>5, RecoverStoreStep
<1> QED BY <1>1, <1>2, <1>3, <1>4, <1>5, UserStoreStep DEF SimNext

-----------------------------------------------------------------------------
(* A worker that is simulating has a run.                                   *)
LEMMA WorkerStepKeeps ==
    ASSUME SimInv, [SimNext]_simVars
    PROVE  WorkerInv'
<1> USE DEF WorkerInv
<1>0. WorkerInv
  BY DEF SimInv
<1>1. Resting \in Position /\ [Resting EXCEPT !.pc = "gone"] \in Position
  BY DEF Resting, Position
<1>2. CASE worker' = worker
  BY <1>0, <1>2 DEF Simulating
<1>3. ASSUME NEW k \in Workers, NEW w \in Position, worker' = [worker EXCEPT ![k] = w],
             w.pc \in {"transition", "step", "finish", "fail"} => w.run \in Runs
      PROVE  WorkerInv'
  BY <1>0, <1>3 DEF Simulating
<1>4. ASSUME NEW k \in Workers, WorkerEnds(k) \/ Rest(k) PROVE WorkerInv'
  <2>1. \/ worker' = [worker EXCEPT ![k] = Resting]
        \/ worker' = [worker EXCEPT ![k] = [Resting EXCEPT !.pc = "gone"]]
    BY <1>4 DEF WorkerEnds, Rest
  <2>2. Resting.pc = "idle" /\ [Resting EXCEPT !.pc = "gone"].pc = "gone"
    BY DEF Resting
  <2> QED BY <1>1, <1>3, <2>1, <2>2
<1>5. ASSUME NEW k \in Workers, NEW r \in Runs, ClaimNextRun(k, r) PROVE WorkerInv'
  <2> DEFINE w == [worker[k] EXCEPT !.pc = "transition", !.run = r]
  <2>1. worker' = [worker EXCEPT ![k] = w]
    BY <1>0, <1>5 DEF ClaimNextRun
  <2>2. w \in Position /\ w.run = r
    BY <1>0 DEF Position
  <2> HIDE DEF w
  <2> QED BY <1>3, <2>1, <2>2
<1>6. ASSUME NEW k \in Workers, TransitionRunning(k) PROVE WorkerInv'
  <2>1. PICK n \in StagesOf(worker[k].run) :
          worker' = [worker EXCEPT ![k].pc = "step", ![k].stage = n, ![k].step = 1]
    BY <1>6 DEF TransitionRunning
  <2>2. worker[k].run \in Runs
    BY <1>0, <1>6 DEF TransitionRunning, Proceeds, Simulating
  <2>3. n \in Nat
    BY <2>2, StageCountAssumption DEF StagesOf
  <2> DEFINE w == [worker[k] EXCEPT !.pc = "step", !.stage = n, !.step = 1]
  <2>4. worker' = [worker EXCEPT ![k] = w]
    BY <1>0, <2>1
  <2>5. w \in Position /\ w.run = worker[k].run
    BY <1>0, <2>3 DEF Position
  <2> HIDE DEF w
  <2> QED BY <1>3, <2>2, <2>4, <2>5
<1>7. ASSUME NEW k \in Workers, AppendStep(k) PROVE WorkerInv'
  <2>1. worker' = [worker EXCEPT ![k] = AfterStep(k)]
    BY <1>7 DEF AppendStep
  <2>2. worker[k].run \in Runs /\ worker[k] \in Position
    BY <1>0, <1>7 DEF AppendStep, Proceeds, Simulating
  <2>3. AfterStep(k) \in Position /\ AfterStep(k).run = worker[k].run
    <3> DEFINE w == worker[k]
    <3>1. ASSUME NEW pc \in {"fail", "finish"}
          PROVE  [w EXCEPT !.pc = pc] \in Position /\ [w EXCEPT !.pc = pc].run = w.run
      BY <2>2 DEF Position
    <3>2. [w EXCEPT !.step = @ + 1] \in Position /\ [w EXCEPT !.step = @ + 1].run = w.run
      BY <2>2 DEF Position
    <3>3. AfterStep(k) \in {[w EXCEPT !.pc = "fail"], [w EXCEPT !.pc = "finish"],
                            [w EXCEPT !.step = @ + 1]}
      BY DEF AfterStep
    <3> HIDE DEF w
    <3> QED BY <3>1, <3>2, <3>3 DEF w
  <2> QED BY <1>3, <2>1, <2>2, <2>3
<1>8. ASSUME NEW k \in Workers, FinishStage(k), ~Rest(k) PROVE WorkerInv'
  <2>1. worker' = [worker EXCEPT ![k].pc = "transition"]
    BY <1>8 DEF FinishStage
  <2>2. worker[k].run \in Runs
    BY <1>0, <1>8 DEF FinishStage, Proceeds, Simulating
  <2> DEFINE w == [worker[k] EXCEPT !.pc = "transition"]
  <2>3. worker' = [worker EXCEPT ![k] = w]
    BY <1>0, <2>1
  <2>4. w \in Position /\ w.run = worker[k].run
    BY <1>0 DEF Position
  <2> HIDE DEF w
  <2> QED BY <1>3, <2>2, <2>3, <2>4
<1>9. ASSUME NEW k \in Workers, WorkerStep(k) PROVE WorkerInv'
  BY <1>4, <1>5, <1>6, <1>7, <1>8, <1>9
     DEF WorkerStep, LeaseLost, StopSeen, FailStage, WorkerError
<1>10. ASSUME NEW r \in Runs,
              \/ \E gs, wantsPort : UserCreatesSimulation(r, gs, wantsPort)
              \/ UserStopsSimulation(r)
              \/ LeaseExpires(r)
       PROVE  WorkerInv'
  BY <1>2, <1>10 DEF UserCreatesSimulation, UserStopsSimulation, LeaseExpires
<1>11. ASSUME NEW k \in Workers, RecoverStaleRuns(k) PROVE WorkerInv'
  BY <1>2, <1>11 DEF RecoverStaleRuns
<1>12. CASE UNCHANGED simVars
  BY <1>2, <1>12 DEF simVars
<1> HIDE DEF WorkerInv
<1> QED BY <1>4, <1>9, <1>10, <1>11, <1>12 DEF SimNext

(* The invariant holds initially: no run exists, every worker is idle.      *)
LEMMA SimInitInv == SimInit => SimInv
<1> SUFFICES ASSUME SimInit PROVE SimInv
  OBVIOUS
<1> USE DEF SimInit, StoreInit
<1>1. RowTypes /\ LeaseTypes /\ PortNeedsGpu /\ OwnedRunsActive /\ LeasesOnlyWhileActive
  BY DEF RowTypes, LeaseTypes, PortNeedsGpu, OwnedRunsActive, LeasesOnlyWhileActive, RunStatus
<1>2. WorkerInv
  BY DEF WorkerInv, Resting, Position, Simulating
<1> QED BY <1>1, <1>2 DEF SimInv

(* A run with an owner is under way, a worker that simulates has a run, and *)
(* leases are those of active runs, in every behaviour.                     *)
THEOREM SimInvariant == SimInit /\ [][SimNext]_simVars => []SimInv
<1>1. SimInv /\ [SimNext]_simVars => SimInv'
  BY EveryStoreStep, WorkerStepKeeps, StoreStepKeepsInv
<1> QED BY <1>1, SimInitInv, PTL

(* No GPU or master port is leased to an ended simulation run.              *)
THEOREM SimLeasesCorrect == SimSpec => []LeasesOnlyWhileActive
<1>1. SimInv => LeasesOnlyWhileActive
  BY DEF SimInv
<1> QED BY <1>1, SimInvariant, PTL DEF SimSpec

(* An ended run is never touched again, however late a worker that lost its *)
(* lease acts, for any number of workers (the ownership test of the store). *)
THEOREM EndedRunsFrozen == SimSpec => EndedRunFrozen
<1>1. SimInv /\ [SimNext]_simVars =>
        [\A r \in Runs : status[r] \in Terminal =>
            /\ status'[r] = status[r]
            /\ stages'[r] = stages[r]
            /\ artifacts'[r] = artifacts[r]]_simVars
  BY EveryStoreStep, StoreStepFreezes
<1> QED BY <1>1, SimInvariant, PTL DEF SimSpec, EndedRunFrozen

(* A stop that was accepted ends the run as cancelled or lost, never with   *)
(* the result of a worker that was already finishing.                       *)
THEOREM StopsHonoured == SimSpec => StopNotOvertaken
<1>1. SimInv /\ [SimNext]_simVars =>
        [\A r \in Runs : status[r] = "stop_requested" =>
            status'[r] \in {"stop_requested", "cancelled", "lost"}]_simVars
  BY EveryStoreStep, StoreStepHonoursStop
<1> QED BY <1>1, SimInvariant, PTL DEF SimSpec, StopNotOvertaken

(* The simulated training implements the lease ledger too: the recovery of  *)
(* several stale runs is one release.                                       *)
THEOREM SimImplementsLedger == SimSpec => LedgerSpec
<1>1. SimInit => Ledger!Init
  BY DEF SimInit, StoreInit, Ledger!Init, LeasePhase
<1>2. SimInv /\ [SimNext]_simVars => [Ledger!Next]_(Ledger!ledgerVars)
  BY EveryStoreStep, StoreStepMoves, MoveRefines DEF SimInv
<1> QED BY <1>1, <1>2, SimInvariant, PTL DEF SimSpec, LedgerSpec, Ledger!Spec
=============================================================================
