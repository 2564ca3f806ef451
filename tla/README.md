# DataPilot: TLA+ models, checks and proofs

The repository (DataPilot, `vla_data_juicer_agents`) prepares robot navigation
data with LLM agents, has people annotate and review it, copies the datasets to
GPU machines and trains models there. This directory models the parts of it in
which databases, daemons, threads, detached processes and people have to agree
about who does what: the training center and its Worker, the data plane,
navigation plans, annotation, and the web conversation with its agents.

## 1. Inventory

Paths are below `src/vla_data_juicer_agents/`.

| Component | State it keeps | Operations | Talks to | Hard behaviour |
|---|---|---|---|---|
| Run store of the training center (`training/store.py`) | runs, stages, GPU and port leases, execution actions, update numbers, artifacts (SQLite) | `create_run`, `stop_run`, `poll_training_actions`, `finish_training_action`, `apply_training_run_updates` | API, Worker (HTTP) | late, repeated and doubled updates; expiring claims; everything released together |
| Worker: execution (`training_worker/execution.py`, `supervisor.py`) | supervisor state files, launch decisions, processes | start, resume, stop, observe | ledger, center, processes | restart between any two steps, launch timeouts, kill races |
| Worker: ledger and outbox (`training_worker/ledger.py`) | `worker_runs`, `worker_run_updates` (SQLite) | record, update, enqueue, acknowledge, reconcile | the three threads | three threads without a common lock |
| Worker: daemon (`training_worker/daemon.py`, `client.py`) | threads | poll, publish, flush, reconcile at start, node commands | center | lost calls and answers |
| Simulated training (`training/worker.py`) | owner and lease of a simulation run | claim, step, finish, recover | run store | expired leases, dying workers |
| Nodes and models (`training/store.py`, `deployment.py`, `api.py`) | nodes, tokens, verification requests | register, install, enrol, disable, verify | Worker, SSH | late answers of a former revision |
| Dataset transfer (`training/datasets.py`, store, `training_worker/datasets.py`) | manifests, transfers, replicas, node commands | create, pause, cancel, retry, remove | Worker | expiring claims, lost results, half-written directories |
| Navigation writer lock (`navigation/writer_lock.py`) | flock, active and quarantine markers | acquire, release, quarantine, clear | every writer of navigation data | markers outlive processes, children inherit the flock |
| Navigation (`navigation/`) | tasks, plans, steps, staged results, human-decision handoffs | submit, activate, claim, stage, finalize, recover | agents, annotation, writer lock | a host that dies in a step, plans given up while they run |
| Annotation (`annotation/`) | jobs, segments, runs, checkpoints, clip leases, reviews, handoffs | draft, submit, track, post-process, review, publish, release, reset | navigation, web, operator | cancel races, output without record, operator recovery |
| Web sessions (`web/session_store.py`, `agent_session.py`) | turns, reply leases, response authority, bindings, outbox | start turn, append event, claim, complete | agent runtime, browser | events of former owners, claims that expire |
| Agent runtime (`runtime/agentscope_runtime.py`) | event logs, runs of agents, inboxes (Redis) | delegate, control, wake, project, recover | AgentScope (external), both databases | two databases without a common transaction |
| Event translation, evaluation, tools and TUI, front end | none of the above | - | - | not modelled |

What makes the system correct: a GPU is leased to at most one live run and
freed exactly when that run ends; a stage is trained once, after its
predecessor; a stop and an exit reach the center; a stale worker cannot change
an ended run; a disabled node is locked out; a replica called ready is on disk;
navigation data has one writer, and nobody works over what a dead writer left;
a plan step is invoked once; what is tracked, approved and released is what the
annotator submitted and the reviewer saw; the final answer of a turn comes from
the agent that owns it.

## 2. Modules

```
LeaseLedger              abstract: leases are granted once and released together
TrainingStore            run tables, create_run, stop_run, _finish_in
 |-- TrainingCenter      + actions and updates of real training (any Worker)
 |     `-- TrainingWorker      + ledger, outbox, threads, processes
 |           `-- TrainingSystem      center and Worker composed, fairness
 `-- SimulatedTraining   + workers of the simulation mode
TrainingNodes            nodes, tokens, deployment, model verification
 `-- DatasetTransfers    + sources, transfers, node commands, replicas
       `-- DataPlane     + the Worker's threads, directories, losses, restarts
WriterLock               flock and marker files
NavigationPlans          tasks, plans, steps, results, decisions
 `-- NavigationExecution (with WriterLock) + tools, coordinator, decisions, faults
AnnotationStore          jobs, segments, runs, clip leases
 `-- AnnotationReviews   + fixes, reviews, publications, releases, handoffs
       `-- AnnotationWorker (with WriterLock) + Worker loop, heartbeat, runtime
             `-- AnnotationSystem    + users, coordinator, other writer, operator
WebSessions              the database of one conversation
 `-- AgentRuntime        + runs of agents, event logs, bridge, Redis
       `-- AgentDelegation     + delegation, control, recovery, properties
```

`MC*` modules give the constants of the runs. Proofs are in
`TrainingStoreProofs`, `TrainingCenterProofs`, `TrainingSystemProofs`,
`SimulatedTrainingProofs`, `DataPlaneProofs`, `NavigationProofs`,
`AnnotationProofs` and `SequenceFacts` (section 5).

Every store method runs in one `BEGIN IMMEDIATE` transaction and is one action
(or one operator on the database). A request refused for a stale revision, a
repeated idempotency key or invalid input changes nothing and is not an action.
An operator that appears before a definition with a comment "mutant" or "a
faulty ..." is a plausible bug of that definition: it is used by no
specification and shows that a property can fail.

**TrainingStore.** `status`, `control`, `stages`, `gpuLease`, `portLease`,
`actions`, `artifacts` are the columns of the same names. `FinishIn` is
`_finish_in` with all its writes. `StageCount` is the workflow of a run. The
repository's lease table is per node, and the model has one node.

**TrainingCenter.** `PollClaim`, `PollEmpty`, the four outcomes of
`finish_training_action` and the update kinds of `_apply_training_update_in`.
Its next-state relation lets an arbitrary authenticated client send any of
these at any time (`CenterSpec`, the subject of proofs; the runs check the same
properties of TrainingSystem); expiry of a 45 s claim is a free choice. Kinds that change
no run state (accepted, heartbeat, log, metric, checkpoint) are one action.

**TrainingWorker.** A step of a thread is one ledger transaction, one file
operation or one process call. `th[t].pc` is the program counter of `_start`,
`_resume_launch_intent`, `_stop`, `_observe_supervisor` or
`reconciliation_updates`; what a thread carries across steps (the row it
listed, the state file it read, the number it read, the pid it saw) is explicit,
so stale reads are behaviours. Observing a supervisor takes five steps: the row
is listed, the state file is read (`ObserveRead`), the process is looked for and
the row written (`Judge`), the row is read again (`Report`), and its update is
given a number and stored (`EnqueueRead`, `EnqueueWrite`); main's
reconciliation is cut in the same places (`MainProbe`, `MainWrite`,
`MainReport`). `sups` are supervisors with their child; `file` and `decision` are
the two files by which they talk to the Worker. Children end with either code
at any time. A pid is never reused (the Worker compares start marker and argv
digest).

**TrainingSystem.** HTTP: each call is carried out and answered, lost, or
carried out with its answer lost. A behaviour keeps to one record `env` of the
constant `Environments`: which runs, how many stops, crashes, killed
supervisors and launches, whether calls are lost, supervisors are slow, the
main thread reconciles before the others start, and `enqueue_update` calls
overlap.

**SimulatedTraining.** `claim_next_run`, `transition_running`, `append_step`,
`finish_stage`, `finish_run`, `recover_stale_runs` and the loop that calls
them. The 10 s lease is a flag that the clock may set.

**LeaseLedger.** `Grant` gives a run that never held anything a set of free
GPUs (and ports) in one step, `Release` takes everything back from a set of
runs in one step. `LedgerSpec` (in TrainingStore) maps a run to `new`,
`holding` or `done`.

**TrainingNodes, DatasetTransfers, DataPlane.** Rows of nodes, verification
requests, transfers, replicas and node commands, the API handlers that sequence
several transactions, the SSH installation as one step that succeeds or fails,
and the two Worker threads that take commands with the copy thread they start.
A deployment ends in two transactions: the token of the attempt is consumed
(`DeployInvalidates`), then its outcome is recorded (`DeployFinishes`).
A result that is not answered is not sent again. Claims of transfers (30 min)
may expire under the Worker's hands; stops and removals are assumed to end
within their 90 s (`Expiring`). Directory listings are left out.

**WriterLock.** `holder` is the flock, which dies with the last process that
holds it, also a child; `markers` survive everything but an operator.

**NavigationPlans, NavigationExecution.** `plans` holds the rows of a plan, its
steps, its outbox of staged results and its human-decision handoff; `act[x]` is
where a tool thread, the workflow tool, a decision or the coordinator is.
Annotation jobs advance by themselves here (`AnnotationAdvances`; they have
modules of their own) and the agent's chat is external. Validation and
observation are the free choice of a plan. `LockingIn` are the steps whose
capability has `locks_navigation_target`. The lease of a decision's delivery
expires by the clock alone (`LeaseRunsOut`), so that a live delivery can be
claimed again, and the distributed lock of 600 s may run out under a live
submission, so that two submissions overlap (`SubmitAgain`). The workflow tool
fails on any exception of the gateway (`GatewayRaises`).

**AnnotationStore, AnnotationReviews, AnnotationWorker, AnnotationSystem.**
The rows of `annotation/store.py`; the Worker's loop with `pc`, the bound
cancellation context `ctx` and the pending cancellations `pend`; outputs on
disk (`out`, `pub`); the operator's commands, possible only while the service
is down. `Claim` is the transaction that hands the run out and `Execute` makes
it the run that cancels look for; the writer lock of the publication is taken
in one step and the fence recorded in the next; a crash leaves a publication
undone, partial or whole, and may fall between the quarantine marker of an
interrupted run and the verdict on it (`Recovering`). `UserOps` and `Faults` select the requests and faults of an instance.

**WebSessions, AgentRuntime, AgentDelegation.** `db` is the database of one
conversation (contract v1); operators map it to what a transaction commits.
Everything else runs on one asyncio loop and is cut only where it awaits:
`hand` are the coroutines that carry outbox items, `runs` the local agent runs,
`stream` and `pos` the event logs and the bridge's cursors. The agents are
external: a run emits events in any order the framework permits; a resumed run
emits no `REPLY_START`. The program may stop between any two transactions of a
call that delegates a task (`CallStartDies`, `CallContinueDies`). A workflow
step may put its task to wait for the workbench (`ToolWaits`). `Elapsed` assumes
that a claim of 300 s does not expire under a coroutine that still runs: no
timeout in the code guarantees it, and `LiveRunKeepsTask` rests on it. Linked-fix
starts, milestones, session management and resource leases are left out.

## 3. Runs

| Run | Checks | Situation |
|---|---|---|
| `system_supervised` | `ProcessesAreLeased`, `AtMostOneOpenStop`, `LedgerSpec`, `StopSettles`, `RecordedExitRecovered` | two stops, one supervisor killed, launches fail, no Worker crash |
| `system_faults` | `FirstStageFirst`, `StageTrainedOnce`, `OneTrainerPerStage`, `OutboxDeliverable`, `CenterTypeOK`, `LeasesOnlyWhileActive`, `EndedRunHasNoPendingStage`, `SucceededHasModel`, `SettledActionsStay` | four environments: crash and killed supervisor; racing threads and slow supervisors; slow and killed supervisor; losses and crash |
| `simulated` | `EndedRunFrozen`, `StopNotOvertaken`, `EveryRunEnds` | a worker ends, leases expire, exceptions |
| `data_plane` | `DisabledIsLockedOut`, `VerifiedIsCurrent`, `UnremovedReplicaOnDisk`, `OneTransferRunning` | losses, restarts of both sides, failing disk and SSH, expired claims |
| `navigation` | `InvokedOnce`, `GivenUpMeansDead`, `DecisionConsumedOnce`, `OneLivePlan` | crashes, failing writes, repeated deliveries, user takes over |
| `annotation_pipeline` | `TrackedMatchesSubmitted`, `CancelledLeavesNoOutput`, `NoStaleCancellation`, `CancelEndsRun` | cancels, retries, restart, failing runtime, a publisher that fails halfway |
| `annotation_faults` | `UnrecordedOutputIsQuarantined`, `WriterExclusive`, `ActiveJobOwnsClips` | every fault the Worker handles, another writer, an operator, two jobs that want one clip |
| `annotation_reviews` | `ApprovedMatchesDraft`, `ReleasedStaysReady`, `HandoffsInOrder` | reviews, release and reset with failing steps |
| `web_sessions` | `FinalByOwner`, `DeferredIsShown`, `LiveRunKeepsTask`, `EndedFreesSlot`, `HintOnce` | nine conversations, failing calls, restarts |
| `system_stop_race` | `SucceededMeansTrained`: **violated** | no fault |
| `system_lost_exit` | `RecordedExitRecovered`: **violated** | one Worker crash |
| `system_stale_exit` | `StagesInOrder`: **violated** | no fault, three stages, two threads watch the run |

What a property says is in the comment above it. Some carry the condition under
which the code keeps them: `StageTrainedOnce` is about a Worker that has not crashed,
lost no call and was not interrupted by overlapping `enqueue_update` calls,
`OneTrainerPerStage` about supervisors that are not killed and act in time;
`ProcessesAreLeased`, `StopSettles` and `RecordedExitRecovered` are checked
without Worker crashes and with main's reconciliation over before the other
threads begin (section 4: without that, a stop can be lost at the start of the
Worker),
`UnremovedReplicaOnDisk` is about releases no removal of which was ever handed
to the Worker (section 4 says why), `ActiveJobOwnsClips` is about requests other than a dataset reset,
`CancelledLeavesNoOutput` exempts what a publisher that failed halfway left, and
jobs of which an operator has decided about an interrupted run. (The run reaches
the first, not the second; the theorem covers both.)
`StagesInOrder` is what the documentation promises; the code keeps it for two
stages and not for three (section 4). `FirstStageFirst` is what it keeps for
every number of stages.

### Bounds

- system runs: one node and one run of two stages (one where crashes and losses
  multiply the states, three in `system_stale_exit`), one GPU, two claims per
  action, three or four launches, at most one crash and one killed supervisor.
  All findings appear within them. Deadlock is checked here: the Worker polls
  for ever. In the other runs behaviours stop at the bounds or when everything
  has ended, and deadlock is not checked.
- `simulated`: two runs (two stages; one stage that fails), two GPUs and one
  port to compete for, two workers of which one is mortal, two steps per stage.
- `data_plane`: six situations (a machine registered, installed and removed; a
  model verified on a node that may be disabled; inventories; one dataset moved
  while the Worker restarts; two datasets at once; a machine registered again
  that still holds a replica of its former row), two claims per command, one
  restart.
- `navigation`: two tasks of one session, plans of a human and a processing step
  or of a workflow step; a behaviour has one task with two plans and two
  faults, two tasks with one plan and one fault, or two tasks, two plans and no
  fault.
- annotation: one clip and one segment; three runs of the Worker, six in
  `annotation_reviews`; one end of the service, two in `annotation_faults` (so
  that recovery itself can be cut off and repeated, with the marker of the
  first attempt beside that of the second); two interchangeable jobs in
  `annotation_faults`, each prepared once and not annotated while both exist
  (the action constraint `Bounds`). The service crashes in
  `annotation_pipeline` and `annotation_faults` and is stopped gracefully in
  `annotation_faults`.
  A second draft revision makes "what was submitted" and "what is drafted now"
  differ.
- `web_sessions`: two tasks, four turns, three replies of a session, two
  restarts at most; `MaxLag` bounds how far an event log may run ahead of its
  reader. The start state of the later conversations is one the first reaches.

The runs explore 13,496 (`system_supervised`), 2.6 million (`system_faults`),
271,510 (`web_sessions`), 460,102 (`data_plane`), 1,885,843 (`navigation`),
328,352, 2,765,871 and 859,699 states (`annotation_pipeline`, `_faults`,
`_reviews`); the longest takes four minutes.

### Where the model is coarser than the code

- `enqueue_update` calls do not overlap (`races = FALSE` in every environment of
  the runs, though `ledger.py:353` permits it): `StageTrainedOnce`,
  `OutboxDeliverable` and `OutboxNeverBlocks` are to be read under it.
- `ResetUnreleasedDataset` is the final transaction (`annotation/store.py:1879`);
  the removal of files around it is left out, and `ReleasedStaysReady` speaks
  about ledger rows.
- the 300 s of an outbox claim outlast the coroutine that holds it (`Elapsed`),
  and the idempotency marker of a pushed hint does not expire.
- copying, installing and publishing are one step each, or one that fails
  halfway.

### Fairness

`Fairness` (TrainingSystem): each thread of the daemon takes its next step,
supervisors run, and the Worker keeps polling, publishing and flushing; these
are loops in threads that catch their exceptions, under a service that systemd
restarts. Nothing is assumed of users, of the training processes or of faults.
`SimFairness`: workers loop and an unrenewed lease expires; workers in `Mortal`
may end. `FairSpec` (AnnotationSystem): the Worker's loop and heartbeat go on,
a cancel request that has committed reaches the Worker, a service that is down
is started again, one that was told to stop ends, and an operator's command
ends. A bound runtime call need not return by itself: `CancelEndsRun` rests on
the cancellation reaching it.

## 4. Findings

1. **A stopped run becomes "succeeded"** (`system_stop_race`, no fault). Stage 1
   ends with code 0 while the user stops the run. The stop reports `exited
   cancelled`; the monitor thread, with the row it had listed, reports `exited
   succeeded`. `training/store.py:2920` never asks whether the run has ended:
   the second update finds no pending stage, registers stage 1 as the model and
   sets the run to succeeded, against `README.md:196`.
2. **A recorded exit is lost at a Worker crash** (`system_lost_exit`). The
   ledger row becomes terminal in one transaction (`execution.py:887`) and the
   update is enqueued in the next; a crash between them hides the run from
   reconciliation, against `deployment/systemd/README.md:62`. The run keeps its
   GPUs.

3. **A stage starts before the one before it was trained**
   (`system_stale_exit`, no fault, three stages or more). `_observe_supervisor`
   reads the state file its row names but reports the exit for the stage the
   ledger has when it looks again (`execution.py:890`). A thread that read the
   row of stage 1 and goes on when stage 2 is being launched reports `exited
   succeeded` for stage 2, and the center starts stage 3, against `README.md:196`
   and `docs/training-model-integration.md:245`. With two stages the same stale
   report makes the run `succeeded` although stage 2 was not trained. What does
   hold is proved: no later stage is trained before the first one has ended
   well (`FirstStagesFirst`).

The models reach some other behaviours a maintainer may want to know of. They
are outside what the runs claim (see the conditions above and the notes of the
hazards in PROJECT.json):

- a ready replica with nothing on disk, without any fault. One thread of the
  Worker has claimed a transfer when the user cancels it; the other handles the
  stop, finds no active transfer and reports success, and the transfer is
  started all the same. The dataset is asked for again. The first transfer
  finishes; the second finds the directory in place (`datasets.py`,
  `_matching_replica`) and is about to report success when the user removes the
  replica. Directory and row go, then the late result inserts a ready replica
  (`store.py:4858`) that training runs are given, although
  `docs/training-model-integration.md:117` calls `local_root` the path of the
  data on the node. It takes two transfers and four commands, one more than the
  situations of `data_plane` have; the attempt to prove that every ready replica
  is on disk failed at this result, and TLC then found the 22 steps in the
  situation `Case("data", {d1}, 2, 4, 0)`;
- a restarted Worker reports `reconciliation running`, which overwrites
  `stop_requested`; the queued stop is not offered again (`store.py:2914`). It
  takes no crash in the middle of a run: main reconciles only after the other
  threads have begun (`daemon.py:324-354`), and when its first pass finds a run
  launched meanwhile, its report loses the stop in the same way;
- a second process trains a stage beside the first (`execution.py:336`) after a
  Worker crash or a lost answer together with a killed supervisor, and after a
  crash with slow supervisors: an accepted launch that is recorded again keeps
  its token (`execution.py:371`), so the late supervisor of the first attempt
  obeys the commit written for the second (`supervisor.py:64`);
- two overlapping `enqueue_update` calls that take one number end the action of
  one of them without a result; its start is offered again and the stage is
  trained a second time (`ledger.py:353`);
- a crash after the commit decision
  lets a stop free the lease of a child that still starts; a lost result makes
  an ended stage train again;
- a launch stopped before its supervisor was attached makes `reconcile_active_runs` convert `None` at every start (`ledger.py:439`);
- cancelling a transfer that was retried can leave its partial directory;
- after a dataset reset a failed job can be retried although its clips have
  been freed (`annotation/store.py:1866-1885` keeps it retryable and
  `retry_job`, line 5570, does not look at the source leases);
- a heartbeat that fails, or a lease that runs out, cancels a job nobody asked
  to cancel; between two runtime calls that cancellation waits, also for the run
  of a later stage (`runtime.py` `_pending_cancellations`);
- a failed agent run leaves the turn running (`session_store.py:3281`), and a
  prompt cannot be resumed after a restart (`session_store.py:1080`).

## 5. Proofs

TLAPS checks these for every value of the constants that satisfies the
assumptions below: any number of runs, GPUs, nodes, jobs, clips and threads,
and all bounds.

| Module | Theorem | States |
|---|---|---|
| TrainingCenterProofs | `CenterInvariant`, `CenterTypeCorrect`, `LeasesCorrect`, `EndedRunsClosed` | `CenterInv`; its parts `CenterTypeOK`, `LeasesOnlyWhileActive`, `EndedRunHasNoPendingStage` |
| | `OneOpenStop`, `SettledActionsFinal`, `SucceededRunsHaveModels`, `LedgerInvariant`, `CenterImplementsLedger` | `AtMostOneOpenStop`, `SettledActionsStay`, `SucceededHasModel`; `CenterSpec => LedgerSpec` |
| TrainingSystemProofs | `SystemInvariant`, `WorkerSendsMessages` | `SystemInv`; the system implements the center with an open client |
| | `SystemLeases`, `SystemEndedRuns`, `SystemActions`, `SystemModels`, `SystemImplementsLedger` | the promises of the center, of the whole system |
| | `FirstStagesFirst`, `OutboxNeverBlocks` | `FirstStageFirst`; `OutboxDeliverable` where no two `enqueue_update` calls overlap |
| | `StagesTrainedOnce` | `StageTrainedOnce`, with either schedule of a starting Worker |
| SimulatedTrainingProofs | `SimInvariant`, `SimLeasesCorrect`, `EndedRunsFrozen`, `StopsHonoured`, `SimImplementsLedger` | the same leases for simulation; `EndedRunFrozen`, `StopNotOvertaken`; `SimSpec => LedgerSpec` |
| DataPlaneProofs | `DisabledNodesLockedOut`, `VerifiedModelsCurrent`, `OneTransferAtATime`, `UnremovedReplicasOnDisk` | `DisabledIsLockedOut`, `VerifiedIsCurrent`, `OneTransferRunning`, `UnremovedReplicaOnDisk` of `PlaneSpec` |
| NavigationProofs | `NavigationInvariant`, `StepsInvokedOnce`, `GivenUpStepsDead`, `DecisionsConsumedOnce`, `OnePlanLives` | `NavInv`; `InvokedOnce`, `GivenUpMeansDead`, `DecisionConsumedOnce`, `OneLivePlan` |
| AnnotationProofs | `WritersExclusive`, `ActiveJobsOwnClips` | `WriterExclusive`; `ActiveJobOwnsClips` when no dataset is reset |
| | `TrackedSegmentsMatch`, `UnrecordedOutputQuarantined`, `CancelledJobsLeaveNoOutput` | `TrackedMatchesSubmitted`, `UnrecordedOutputIsQuarantined`, `CancelledLeavesNoOutput` |
| | `ApprovedReviewsMatch`, `ReleasesStayReady`, `HandoffsToldInOrder` | `ApprovedMatchesDraft`, `ReleasedStaysReady`, `HandoffsInOrder` |
| | `CancellationsStayWithJob` | `NoStaleCancellation` when no heartbeat fails and no lease runs out |

Assumptions, all evaluated by the runs: `StageCountAssumption` (every workflow
has a stage, as `create_run` enforces), `NoneAssumption` ("no run" is not a
run), `PortsAssumption`, `BoundAssumption`, `CenterBoundAssumption` (numbers),
`SimulationAssumption`, `ReleasesAssumption` (finitely many releases),
`WritersAssumption`, `StoreAssumption` (a job selects at least one clip, and
"nothing" is no job, task or segment),
`PlansAssumption`, `InvokersAssumption` (tool threads write under the lock, and
are none of the other actors) and `OneDecisionAssumption` (a plan has at most
one human step: `plan_validation.py:841` refuses a repeated action).
`ActiveJobsOwnClips` has one hypothesis, `"reset" \notin UserOps`: the reset is
the request after which the property fails (section 4). `OutboxNeverBlocks` has
one, `~env.races`: the environments in which no other thread's `enqueue_update`
(`ledger.py:353`) comes between the two steps of one. `StagesTrainedOnce` has
none but the condition the property itself states: main may reconcile before or
after the other threads begin. `CancellationsStayWithJob` has one, `{"heartbeat", "stall"} \cap Faults = {}`, the environments of the run
that checks the property: with those faults it fails (section 4).

**Center.** `CenterInv` is types, leases and closed stages together. Neither
safety property is inductive without the types: what an update leaves alone is
known only when rows and domains are. `FinishInKeepsInv`: any transaction that
ends in `_finish_in` keeps the invariant, whatever it wrote before, if it leaves
no pending stage when it reports success. `ActiveStepKeepsInv`: a transaction
that touches neither leases nor stages and moves runs only among active states
keeps it. A late exit can reopen an ended run only through `ExitToNextStage`,
which needs a pending stage; `running` reconciliation reopens a run without
giving it a lease.

**Action queue.** Each step rewrites only open rows, keeps their run and kind
and appends at most one row, a stop only when none is open (`TableStep`). From
that one fact follow both `AtMostOneOpenStop` and `SettledActionsStay`.
`SucceededHasModel` follows because status `succeeded` and the `version_model`
row are written by one transaction and artifacts are never removed.

**Center and Worker.** The center's lemmas are stated for `MessageSpec`, the
center whose client may send any message about a stage the run has, with no
bound on claims or updates. `WorkerSendsMessages` shows that every step of
threads, supervisors, processes, network and crashes is, for the center, such a
message or a stutter; so everything proved of the center holds of the system,
`LedgerSpec` included. The inductive invariant is `SystemInv`: whatever is kept
about a run - supervisor, state file, ledger row, waiting update, action, and
what each thread carries at its program counter (`ThreadOK`) - names a stage of
that run, and mentions a later stage, or a good exit, only if a process of the
run's first stage has ended well. `FirstStageFirst` alone is not inductive: a
start of stage 2 follows from an update, which follows from a state file or a
row read many steps earlier, and every place such a report rests in between has
to be in the invariant. The attempt to prove `StagesInOrder` failed at the step
that reports an exit for the row's present stage, which became finding 3.

**Outbox.** `NumbersInv`: the numbers that wait in a run's outbox lie between
the last one applied by the center and the last one given out, without a gap,
and a thread that holds a number between its two steps holds the next one, alone
(`~env.races`). A lost answer leaves the applied number waiting, a crash drops
the number a thread held, the acknowledgement removes what has been applied;
each keeps this, and with it the oldest waiting number is the expected one or
the one before (`OldestIsNext`).

**One training per stage.** Center and Worker each hold half of the reason.
In the center a stage has at most one start action (`StartsOnce`), because the
action is queued by the transaction that takes the stage out of `pending`; that
an update cannot take stage 2 out of `pending` before the first start was claimed
needs that nothing is reported of a run that has not begun (`Touched`). In the
Worker the thread that carries out a start holds its claim until its result has
been applied (`Held`), records one launch and spawns one supervisor on its way
(`Past`, `RowsOnce`, `SupsOnce`), and never finds its own launch recorded before,
so it never resumes one. `CalmInv` is the conjunction, with `NumbersInv`, which
keeps a doubled number from ending the thread in the middle of a start. The
proof shows more than the property says: one supervisor at most, not one child.
Where a crash, a lost answer or main's own exit ends a thread, the start is
offered again and resumed; then the property rests on files and launch tokens,
and TLC finds it violated when answers are lost. TLC checked the
invariant under both schedules of a starting Worker (150,590 states).

**Refinement.** `LedgerInv` adds to `CenterInv` that a run not yet created has
no control status and no action, and that a port is held only with a GPU.
Every step then is a `LeaseMove`: it changes no lease, grants to one new run,
or clears the leases of the runs it ends, and `LeaseStep` maps these to
stuttering, `Grant` and `Release`. The `phase` of the abstract ledger is a
function of the concrete state, so no history is needed.

**Simulation.** `SimInv`: rows, leases and workers are typed, and a run that
has an owner is under way. The lemma `StoreStep` reduces every action to one of
four changes of the run tables; the two action properties are read off from
these, and the refinement reuses `LeaseStep`.

**Data plane.** `NodesInv` is the property with the row types of nodes and
tokens; every action of the three modules is a `RowStep`, one node's row at a
time. `ModelInv` is the type of the model's row with the property. `CommandsInv` is
the shape of transfer and command rows with the property; it is kept because a
step either claims nothing (rows keep kind and node, new rows are queued) or
claims commands of a node that has no transfer running.
`DiskInv` is for the replicas. `RowsOK`: every command names a transfer or a
replica there is, every row a release. `WorkerOK`: what a thread holds is a
command of its kind that was handed out, and a transfer about to be reported as
a success has its directory in place (`SuccessIsPlaced`). Neither half can be
left out: a replica is offered by a result, and what is on disk when the result
is applied was read by the Worker steps before. Between the two, a directory can
only go by a removal that was handed out (`RemovalTaken`), which once true stays
true; that is the exception the property makes, and the one it needs. Each
transaction is a `TablesStep(S)`: rows stay about the same things, and replicas
are offered anew only of the releases `S`; the lemma `DiskStepKeeps` then asks
that the releases of `S` are in place. TLC checked `RowsOK` and `WorkerOK` on the
instance of `data_plane` before they were proved.
The theorems are about `PlaneSpec`, from the empty database and without the
situations that bound the run.

**Navigation.** None of the four properties is inductive. That a step is
invoked once needs that a step about to be invoked is not `pending` and was
not invoked before, which a second tool could spoil between claim and
invocation were it not kept out by the writer lock: `LockOK` says that a tool
past the lock's entry holds it, `ActorsOK` on which step of which plan every
actor stands. That recovery gives up only dead work is the same argument.
That a decision is consumed once needs the handoff: a consumed decision is
never again both pending and undelivered, and its step is decided, so neither a
repeated submission nor an expired lease starts a second delivery (`ChatsOK`,
`HumanOK`). `NotesOK` is needed because the coordinator stages what it is told
again, not what it read. TLC checked `NavInv` on the instance of the
`navigation` run (1,885,843 states). Every transaction is
shown to be one of three kinds (`Gentle`, `Firm`, `Loose`) on one row, and then
one actor moves (`ActorMoves`).

**Annotation.** `WriterExclusive` is inductive by itself once every action is
shown to move the lock in one of the ways of `LockStep`. `ActiveJobOwnsClips`
is not: the Worker and the coordinator write a job's status through the run or
the handoff they hold, and would revive a job that was never created. `ClipsInv`
adds what those writes rest on: a run names a job, a created one unless the run
belongs to a review (`RunsOK`), a handoff names a job (`HandoffsOK`), a busy
Worker holds a run and a delivery a handoff (`PlacesOK`), and rows have their
shape (`JobsOK`). TLC checked `ClipsInv` on three instances before it was
proved. `StoreStep` and `PlaceStep` say what a step may do to jobs and clips
and to the Worker's place.

**Annotation ledger.** The other seven theorems are about transactions. Every step
of users, Worker, heartbeat, coordinator and operator is shown once to be a
transaction of the ledger, together with what its caller has made sure of
(`EveryTransaction`: for instance that the run it writes to is the one the Worker
holds), and each invariant is then kept by each kind of transaction.
`TrackedMatchesSubmitted` needs that a checkpoint exists for the draft that a
tracked segment was submitted with (`SegmentsInv`), since a resumed run trusts
the checkpoints of a former one. `ApprovedMatchesDraft` needs that an approval,
the last fix and the last publication agree (`ReviewsInv`); `ReleasedStaysReady`
that a job has at most one run under way, in the stage its status names
(`StageInv`): otherwise a late run could take a finished job back.
`CancelledLeavesNoOutput` needs where output may come from (`OutputInv`): a fenced
run and a cancel request exclude each other. `UnrecordedOutputIsQuarantined`
needs what the Worker holds in its hands at each place of its loop
(`TracedInv`); `HandoffsInOrder` that the addressee of a handoff changes only when
a task is linked (`AuthorityInv`), and the order itself for handoffs still on
their way (`HandoffInv`). `NoStaleCancellation` needs `CancelInv`: a job that was
cancelled, or that needs an operator, stays so while the service is up
(`DoomedStays`: a Web retry takes neither); an API call between its commit and the
Worker, and every cancellation that waits, is for such a job; the Worker that is
busy holds the live lease of its run (`LeaseHeld`), so the heartbeat finds a lost
lease only where an operator is needed (`DoneOK`, `KindsOK`).

`TrainingStoreProofs` and `SequenceFacts` hold the lemmas about `SetStatus`,
`FinishIn`, appended rows and updated rows that the others cite.

**Only model-checked.** The liveness properties (`StopSettles`,
`RecordedExitRecovered`, `EveryRunEnds`, `CancelEndsRun`): the prover has no
rules for fairness and ENABLED. And, not proved, the safety properties
`ProcessesAreLeased` and `OneTrainerPerStage` of
TrainingSystem, and those of the web conversation: their inductive invariants
have to say for every program counter of several threads what is known there of
files, process ids and launch tokens, or of coroutines.

## 6. Not modelled, and what is next

Not modelled: request validation and projections of the API; contents of logs,
metrics, checkpoints, media and manifests, tracking and geometry; the SSH
script and the rsync protocol; the AgentScope framework; event translation
(stateless); evaluation (offline scoring of recorded sessions in a sandbox, no
shared state); tools, TUI and front end; of the web sessions the older
contract, creation and deletion of sessions, and resource leases.

Next, in order: `OneTrainerPerStage` and `ProcessesAreLeased` of TrainingSystem,
`HintOnce` of the web conversation.
