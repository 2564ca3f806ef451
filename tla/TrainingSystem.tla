--------------------------- MODULE TrainingSystem ---------------------------
(***************************************************************************)
(* Center and Worker together.  The Worker calls the center over HTTP: a   *)
(* call may be lost, or carried out with its answer lost.  The Worker      *)
(* repeats what was not answered: an unanswered update stays in the        *)
(* outbox, an action whose result did not arrive is offered again when its *)
(* claim expires.                                                          *)
(***************************************************************************)
EXTENDS TrainingWorker

systemVars == <<status, control, stages, gpuLease, portLease, actions, artifacts, seq,
                ledger, outbox, file, decision, sups, th, crashes, deaths>>

SystemInit == CenterInit /\ WorkerInit

UserCreates(r, gs) ==
    /\ CreateRun(r, gs, TRUE, "real")
    /\ UNCHANGED seq
    /\ UNCHANGED workerVars

UserStops(r) ==
    /\ Cardinality(ActionsOf(actions, r, {"stop"}, ActionStatus)) < env.stops
    /\ StopRun(r)
    /\ UNCHANGED seq
    /\ UNCHANGED workerVars

(* The action thread polls; the answer with the claimed action may be lost. *)
WorkerPolls(ids, i) ==
    /\ th["act"].pc = "idle" /\ ThreadsMayRun /\ SupervisorsSettled
    /\ PollClaim(ids, i)
    /\ \/ TakeAction(i, actions'[i].claim, actions[i].kind, actions[i].run, actions[i].stage)
       \/ env.lossy /\ UNCHANGED workerVars

WorkerPollsInVain(ids) ==
    /\ th["act"].pc = "idle" /\ ThreadsMayRun
    /\ PollEmpty(ids)
    /\ UNCHANGED workerVars

(* The result of the action: applied if the claim is still held.            *)
ApplyResult(i, token, res) ==
    \/ res = "succeeded" /\ ActionSucceeded(i, token)
    \/ res = "unresolved" /\ StartUnresolved(i, token)
    \/ res = "failed" /\ (StartFailed(i, token) \/ StopFailed(i, token))

Publish ==
    LET a == th["act"] IN
    /\ a.pc = "publish"
    /\ Go("act", "idle")
    /\ \/ ApplyResult(a.id, a.claim, a.res)
       \/ ~ClaimHeld(a.id, a.claim) /\ UNCHANGED centerVars
    /\ UNCHANGED <<ledger, outbox, file, decision, sups, crashes, deaths>>

PublishLost ==
    /\ env.lossy
    /\ th["act"].pc = "publish"
    /\ Go("act", "idle")
    /\ UNCHANGED centerVars
    /\ UNCHANGED <<ledger, outbox, file, decision, sups, crashes, deaths>>

(* The next update is applied and acknowledged, or its answer is lost; the  *)
(* last one applied is acknowledged when it is repeated.  Any other number  *)
(* is refused and stays in the outbox.                                      *)
Flush(r, e) ==
    /\ Oldest(r, e)
    /\ ApplyUpdate(r, e.k, e.u)
    /\ Acknowledge(r, e.k) \/ (env.lossy /\ UNCHANGED outbox)
    /\ UNCHANGED <<ledger, file, decision, sups, th, crashes, deaths>>

FlushRepeated(r, e) ==
    /\ Oldest(r, e)
    /\ e.k = seq[r]
    /\ Acknowledge(r, e.k)
    /\ UNCHANGED centerVars
    /\ UNCHANGED <<ledger, file, decision, sups, th, crashes, deaths>>

-----------------------------------------------------------------------------
User == \E r \in env.runs : \/ \E gs \in (SUBSET Gpus) \ {{}} : UserCreates(r, gs)
                            \/ UserStops(r)

Http == \/ \E ids \in SUBSET DOMAIN actions :
              (\E i \in DOMAIN actions : WorkerPolls(ids, i)) \/ WorkerPollsInVain(ids)
        \/ Publish
        \/ PublishLost
        \/ \E r \in Runs : \E e \in outbox[r] : Flush(r, e) \/ FlushRepeated(r, e)

ActionThread ==
    \/ StartDecide \/ LaunchFails \/ RecordLaunch \/ SpawnSupervisor
    \/ AwaitSupervisor \/ AwaitFails \/ Attach \/ WriteCommit
    \/ AwaitTraining \/ AwaitTrainingFails \/ SetRunning \/ ActOk
    \/ ResumeRelaunch \/ ResumeUnresolved \/ ResumeLaunch
    \/ StopDecide \/ StopRead \/ WriteCancel \/ StopKill \/ StopRecord

MonitorThread == \E r \in Runs : MonitorList(r)

MainThread ==
    (\E r \in Runs : MainList(r)) \/ MainRelist \/ MainProbe \/ MainWrite \/ MainReport

SupervisorStep(p) == SupervisorBoot(p) \/ SupervisorDecide(p) \/ SupervisorSpawn(p)

Observes == \E t \in Threads : ObserveRead(t) \/ Judge(t) \/ Report(t)

Enqueues == \E t \in Threads : EnqueueRead(t) \/ EnqueueWrite(t)

Processes == \E p \in DOMAIN sups : \/ SupervisorStep(p)
                                    \/ \E c \in {"ok", "bad"} : ChildExits(p, c)

Kills == \E p \in DOMAIN sups : SupervisorKilled(p)

Under(Act) == Act /\ UNCHANGED env

SystemNext ==
    \/ Under(User) \/ Under(Http)
    \/ Under(ActionThread) \/ Under(MonitorThread) \/ Under(MainThread)
    \/ Under(Observes) \/ Under(Enqueues)
    \/ Under(Processes) \/ Under(Kills) \/ Under(WorkerCrash)

SystemSpec == SystemInit /\ [][SystemNext]_<<systemVars, env>>

(* Scheduling.  Every thread of the Worker is a loop that systemd keeps      *)
(* alive, supervisors are processes of their own, and the Worker calls the   *)
(* center again and again.  Nothing is assumed of the user, nor that a       *)
(* training process ever ends.                                               *)
Fairness ==
    /\ WF_systemVars(ActionThread)
    /\ WF_systemVars(MonitorThread)
    /\ WF_systemVars(MainThread)
    /\ \A t \in Threads : WF_systemVars(ObserveRead(t) \/ Judge(t) \/ Report(t))
    /\ \A t \in Threads : WF_systemVars(EnqueueRead(t) \/ EnqueueWrite(t))
    /\ WF_systemVars(\E p \in DOMAIN sups : SupervisorStep(p))
    /\ WF_systemVars(\E ids \in SUBSET DOMAIN actions, i \in DOMAIN actions :
                         WorkerPolls(ids, i))
    /\ WF_systemVars(Publish)
    /\ WF_systemVars(\E r \in Runs : \E e \in outbox[r] : Flush(r, e) \/ FlushRepeated(r, e))

FairSystemSpec == SystemSpec /\ Fairness

-----------------------------------------------------------------------------
(* A child process trains only on GPUs its run has leased: the center never *)
(* frees a GPU (_finish_in deletes the lease) while a process the Worker    *)
(* launched, and perhaps was told to stop, may still use it.                *)
ProcessesAreLeased ==
    \A p \in DOMAIN sups : ChildAlive(p) => \E g \in Gpus : gpuLease[g] = sups[p].run

(* The Worker has run without interruption: it has not crashed (an end by   *)
(* an exception of its main thread counts as a crash), no call or answer is *)
(* lost, and no exception ends a thread in the middle of an action (two     *)
(* enqueue_update calls that overlap).                                      *)
Uninterrupted == crashes = 0 /\ ~env.lossy /\ ~env.races

(* An uninterrupted Worker trains no stage twice, however slow supervisors  *)
(* are and whether they are killed: retries of a start, by the center or by *)
(* the action thread, never commit a second supervisor for a stage whose    *)
(* child was started.                                                       *)
StageTrainedOnce ==
    Uninterrupted => \A p, q \in DOMAIN sups :
        /\ sups[p].run = sups[q].run /\ sups[p].stage = sups[q].stage
        /\ sups[p].child # "none" /\ sups[q].child # "none"
        => p = q

(* Two processes never train one stage at the same time, and so never write *)
(* one output directory together: a launch that was under way when the      *)
(* Worker ended is resumed, cancelled or left unresolved, and started again *)
(* only when nothing of it is left.  The lock that tells is held by the     *)
(* supervisor: one that is killed, from outside or by the action thread     *)
(* that gave up waiting for it, leaves its child without the lock.  So this *)
(* is about supervisors that are not killed and act in time.                *)
OneTrainerPerStage ==
    deaths = 0 /\ ~env.slow => \A p, q \in DOMAIN sups :
        /\ sups[p].run = sups[q].run /\ sups[p].stage = sups[q].stage
        /\ ChildAlive(p) /\ ChildAlive(q)
        => p = q

(* No stage is trained before the stage before it has ended well.           *)
StagesInOrder ==
    \A p \in DOMAIN sups : sups[p].child # "none" /\ sups[p].stage > 1 =>
        \E q \in DOMAIN sups : /\ sups[q].run = sups[p].run
                               /\ sups[q].stage = sups[p].stage - 1
                               /\ sups[q].child = "ok"

(* The first stage of run r has been trained to a good end.                 *)
FirstStageTrained(r) ==
    \E q \in DOMAIN sups : sups[q].run = r /\ sups[q].stage = 1 /\ sups[q].child = "ok"

(* No later stage is trained before the first one has ended well: however   *)
(* "exited" updates are doubled, delayed, filed under another stage or      *)
(* mixed with stops and crashes, each goes back to a process that really    *)
(* ended well, and the first such process of a run trained stage 1.         *)
FirstStageFirst ==
    \A p \in DOMAIN sups :
        sups[p].child # "none" /\ sups[p].stage > 1 => FirstStageTrained(sups[p].run)

(* A run reported "succeeded", whose model enters the version library, has  *)
(* trained every one of its stages to the end.                              *)
SucceededMeansTrained ==
    \A r \in Runs : status[r] = "succeeded" =>
        \A n \in StagesOf(r) : \E p \in DOMAIN sups :
            sups[p].run = r /\ sups[p].stage = n /\ sups[p].child = "ok"

(* The oldest update in the outbox is the one the center expects, or the    *)
(* one it applied last: _flush stops at the first refusal, so anything else *)
(* would block all later updates of the run for ever.                       *)
OutboxDeliverable ==
    \A r \in Runs : \A e \in outbox[r] : Oldest(r, e) => e.k \in {seq[r], seq[r] + 1}

(* A stop the user asked for takes effect, or is flagged for a person: the  *)
(* run ends, or its control status becomes "unresolved".                    *)
StopSettles ==
    \A r \in Runs : status[r] = "stop_requested" ~>
        (status[r] \in Terminal \/ control[r] = "unresolved")

(* An exit the supervisor has recorded reaches the center: the stage is     *)
(* closed there, or the run is flagged "unresolved" for a person.           *)
RecordedExitRecovered ==
    \A r \in Runs : \A n \in StagesOf(r) :
        file[r][n].status = "exited" ~>
            (stages[r][n] \in Terminal \cup {"skipped"} \/ control[r] = "unresolved")
=============================================================================
