------------------------- MODULE NavigationExecution -------------------------
(***************************************************************************)
(* Execution of navigation plans (navigation/plan_execution.py) by the     *)
(* tools of the agent, by the annotation workflow coordinator and by human *)
(* decisions (runtime/agentscope_runtime.py).  A processing tool runs in a *)
(* thread under the navigation writer lock; the workflow tool and a human  *)
(* decision run on the event loop, one at a time; the coordinator has a    *)
(* thread of its own.  All of them stage a result, write the evidence file *)
(* and finalize the step, in separate transactions.                        *)
(***************************************************************************)
EXTENDS NavigationPlans, WriterLock

CONSTANTS Invokers,  \* threads of processing tools
          Scenarios  \* bounds on tasks, plans and disturbances, one of
                     \* which a behaviour keeps to

ASSUME ScenariosAssumption ==
    \A s \in Scenarios : /\ s.tasks \in 1 .. NumTasks /\ s.plans \in 1 .. MaxPlans
                         /\ s.faults \in Nat
ASSUME InvokersAssumption ==
    Invokers \subseteq Writers /\ Invokers \cap {"workflow", "human", "coordinator"} = {}

VARIABLES act,       \* what each actor is doing
          evid,      \* execution evidence on disk: plan, step, result
          ann,       \* external: the annotation job of a task
          notes,     \* workflow handoffs the coordinator has to deliver
          chat,      \* external: the tool call a human decision answers
          ran,       \* how often the function of a plan step was invoked
          scenario   \* the bounds that are left to this behaviour

execVars == <<act, evid, ann, notes, chat, ran, scenario>>
vars == <<planVars, lockVars, execVars>>

OnLoop == {"workflow", "human"}
Actors == Invokers \cup OnLoop \cup {"coordinator"}
Idle == [pc |-> "idle", p |-> 0, i |-> 0, to |-> "none", wrote |-> FALSE,
         cancelled |-> FALSE]

Init ==
    /\ PlansInit /\ LockInit
    /\ act = [x \in Actors |-> Idle]
    /\ evid = {}
    /\ ann = [t \in Tasks |-> "none"]
    /\ notes = [t \in Tasks |-> <<>>]
    /\ chat = [p \in 1 .. MaxPlans |-> 0]
    /\ ran = {}
    /\ scenario \in Scenarios

(* A user's control request, a failure of the disk, the chat, the gateway  *)
(* or the process, a slow delivery, an operator's reset.                   *)
Fault(f) ==
    /\ f \in scenario.kinds /\ scenario.faults > 0
    /\ scenario' = [scenario EXCEPT !.faults = @ - 1]

At(x, pc) == act[x].pc = pc
P(x) == act[x].p
I(x) == act[x].i
Goto(x, pc) == act' = [act EXCEPT ![x].pc = pc]
Leave(x) == act' = [act EXCEPT ![x] = Idle]

(* The event loop runs one of its actors until that one awaits.            *)
LoopFree(x) == x \in OnLoop =>
                  \A y \in OnLoop \ {x} : act[y].pc \in {"idle", "chat"}

(* End of a tool call; a processing tool leaves the writer lock.           *)
Return(x) ==
    /\ Leave(x)
    /\ IF holder = HeldBy(x) THEN Release(x, TRUE) ELSE UNCHANGED lockVars

----------------------------------------------------------------------------
(* Tasks, plans and user control.                                          *)

(* start_navigation_agent_task_v1, refused while another task's tool is    *)
(* writing (find_running_target_writer); _start_linked_trajectory_fix.     *)
TargetWriter == \E p \in DOMAIN plans : \E i \in Steps(p) : LocksNow(p, i)
StartTask(t) ==
    /\ t <= scenario.tasks
    /\ \/ ~TargetWriter /\ CreateTaskAttempt(t)
       \/ \E parent \in Tasks : CreateLinkedFix(t, parent)
    /\ UNCHANGED <<lockVars, execVars>>

(* submit_complete_plan: a validated plan is activated.                    *)
SubmitPlan(t, ph) ==
    /\ task[t] \in {"active", "needs_replan"}
    /\ Len(plans) < scenario.plans /\ Activate(t, ph)
    /\ UNCHANGED <<lockVars, execVars>>

Background(t) == {x \in Invokers : act[x].pc # "idle" /\ TaskOf(P(x)) = t}

(* control_navigation_agent_task: stop or cancel is requested, running     *)
(* tools are cancelled; once none is left the request is settled           *)
(* (_finalize_navigation_control).                                         *)
RequestControl(t, s) ==
    /\ Fault("control")
    /\ s = "pausing" => task[t] = "active"
    /\ UpdateTask(t, s)
    /\ act' = [x \in Actors |-> IF x \in Background(t)
                                THEN [act[x] EXCEPT !.cancelled = TRUE] ELSE act[x]]
    /\ UNCHANGED <<lockVars, evid, ann, notes, chat, ran>>
SettleControl(t) ==
    /\ Background(t) = {}
    /\ \/ task[t] = "pausing" /\ UpdateTask(t, "paused")
       \/ task[t] = "cancelling" /\ UpdateTask(t, "cancelled")
    /\ UNCHANGED <<lockVars, execVars>>

(* continue_navigation_agent_task *)
ContinueTask(t) ==
    /\ task[t] \in {"paused", "needs_replan", "waiting_user"}
    /\ UpdateTask(t, "active")
    /\ UNCHANGED <<lockVars, execVars>>

(* reset_navigation_dataset: under the writer lock.                        *)
ResetDataset ==
    /\ Fault("reset")
    /\ holder = Nobody /\ ~QuarantinePresent
    /\ CancelForReset
    /\ UNCHANGED <<lockVars, act, evid, ann, notes, chat, ran>>

----------------------------------------------------------------------------
(* _finalize_staged_result, by any actor: the staged row is read, the      *)
(* evidence is looked for and written, the row is looked at again and the  *)
(* step finalized.  Who wrote the evidence and finds no row deletes it.    *)
Evidence(p, i, to) == [p |-> p, i |-> i, to |-> to]
NextAfter(x) == IF x = "human" THEN "deliver"
                ELSE IF x = "coordinator" THEN "wake" ELSE "idle"
ReadStaged(x) ==
    /\ At(x, "read") /\ LoopFree(x)
    /\ LET b == plans[P(x)].box[I(x)]
       IN IF b = NoBox THEN Return(x)
          ELSE /\ act' = [act EXCEPT ![x].to = b.to, ![x].pc =
                             IF Evidence(P(x), I(x), b.to) \in evid THEN "attach"
                             ELSE "write"]
               /\ UNCHANGED lockVars
    /\ UNCHANGED <<planVars, evid, ann, notes, chat, ran, scenario>>
WriteEvidence(x) ==
    /\ At(x, "write") /\ LoopFree(x)
    /\ \/ /\ evid' = evid \cup {Evidence(P(x), I(x), act[x].to)}
          /\ act' = [act EXCEPT ![x].pc = "attach", ![x].wrote = TRUE]
          /\ UNCHANGED <<lockVars, scenario>>
       \/ Fault("disk") /\ Return(x) /\ UNCHANGED evid
    /\ UNCHANGED <<planVars, ann, notes, chat, ran>>
AttachEvidence(x) ==
    /\ At(x, "attach") /\ LoopFree(x)
    /\ IF plans[P(x)].box[I(x)] # NoBox
       THEN Goto(x, "final") /\ UNCHANGED <<evid, lockVars>>
       ELSE /\ evid' = IF act[x].wrote
                       THEN evid \ {Evidence(P(x), I(x), act[x].to)} ELSE evid
            /\ Return(x)
    /\ UNCHANGED <<planVars, ann, notes, chat, ran, scenario>>
Finalize(x) ==
    /\ At(x, "final") /\ LoopFree(x)
    /\ IF Finalizable(P(x), I(x))
       THEN /\ FinalizeStep(P(x), I(x))
            /\ IF NextAfter(x) = "idle" THEN Return(x)
               ELSE /\ act' = [act EXCEPT ![x] = [Idle EXCEPT !.pc = NextAfter(x),
                                   !.p = P(x), !.to = IF x = "human" THEN "none" ELSE act[x].to]]
                    /\ UNCHANGED lockVars
       ELSE Return(x) /\ UNCHANGED planVars
    /\ UNCHANGED <<evid, ann, notes, chat, ran, scenario>>

----------------------------------------------------------------------------
(* Processing tools: make_invoke and _invoke_plan_step.                    *)

ToolStarts(x, p) ==
    /\ act[x].pc = "idle"
    /\ x = CHOOSE y \in Invokers : act[y].pc = "idle"
    /\ task[TaskOf(p)] = "active" /\ Newest(TaskOf(p))
    /\ LET i == CurrentStep(p)
       IN /\ i # 0 /\ Kind(p, i) = "process"
          /\ act' = [act EXCEPT ![x] = [Idle EXCEPT !.pc = "lock", !.p = p, !.i = i]]
    /\ UNCHANGED <<planVars, lockVars, evid, ann, notes, chat, ran, scenario>>
(* Mutant: the tool runs outside the writer lock.                          *)
ToolSkipsLock(x) ==
    /\ At(x, "lock") /\ Goto(x, "gate")
    /\ UNCHANGED <<lockVars, planVars, evid, ann, notes, chat, ran, scenario>>
ToolLocks(x) ==
    /\ At(x, "lock")
    /\ \/ Acquire(x) /\ Goto(x, "gate")
       \/ Refused(x) /\ Leave(x)
    /\ UNCHANGED <<planVars, evid, ann, notes, chat, ran, scenario>>

(* _gate_step and what it finds: a staged result is finalized, a running   *)
(* claim without one is given up, anything else is checked and claimed.    *)
PreconditionsHold(ok) == IF ok THEN UNCHANGED scenario ELSE Fault("changed")
Gate(x) ==
    LET p == P(x)
        i == I(x)
    IN /\ At(x, "gate")
       /\ IF act[x].cancelled \/ ~(Executable(p, i) \/ Terminalizable(p, i))
          THEN Return(x) /\ UNCHANGED <<planVars, scenario>>
          ELSE IF plans[p].box[i] # NoBox
          THEN Goto(x, "read") /\ UNCHANGED <<planVars, lockVars, scenario>>
          ELSE IF plans[p].step[i] = "running"
          THEN /\ Return(x)
               /\ IF Recoverable(p, i) THEN RecoverRunningStep(p, i)
                  ELSE UNCHANGED planVars
               /\ UNCHANGED scenario
          ELSE /\ \E ok \in BOOLEAN : /\ PreconditionsHold(ok)
                                     /\ Goto(x, IF ok THEN "claim" ELSE "replan")
               /\ UNCHANGED <<planVars, lockVars>>
       /\ UNCHANGED <<evid, ann, notes, chat, ran>>

(* _record_changed_preconditions *)
ChangedPreconditions(x) ==
    /\ At(x, "replan")
    /\ Return(x)
    /\ IF Replannable(P(x)) THEN MarkNeedsReplan(P(x)) ELSE UNCHANGED planVars
    /\ UNCHANGED <<evid, ann, notes, chat, ran, scenario>>
Claim(x) ==
    /\ At(x, "claim") /\ x \in Invokers
    /\ IF Claimable(P(x), I(x))
       THEN ClaimStep(P(x), I(x)) /\ Goto(x, "run") /\ UNCHANGED lockVars
       ELSE Return(x) /\ UNCHANGED planVars
    /\ UNCHANGED <<evid, ann, notes, chat, ran, scenario>>

(* The function runs; a cancelled turn or an exception is a failed result. *)
RunStep(x) ==
    /\ At(x, "run")
    /\ ran' = ran \cup {<<P(x), I(x), 1 + Cardinality({r \in ran : r[1] = P(x)
                                                          /\ r[2] = I(x)})>>}
    /\ \E to \in IF act[x].cancelled THEN {"failed"} ELSE {"completed", "failed"} :
          act' = [act EXCEPT ![x].pc = "stage", ![x].to = to]
    /\ UNCHANGED <<planVars, lockVars, evid, ann, notes, chat, scenario>>
StageRun(x) ==
    /\ At(x, "stage") /\ x \in Invokers
    /\ \/ /\ Stageable(P(x), I(x), act[x].to, {"running"})
          /\ StageResult(P(x), I(x), act[x].to, {"running"})
          /\ Goto(x, "read") /\ UNCHANGED <<lockVars, scenario>>
       \/ /\ IF Stageable(P(x), I(x), act[x].to, {"running"}) THEN Fault("disk")
             ELSE UNCHANGED scenario
          /\ Return(x)
          /\ IF Recoverable(P(x), I(x)) THEN RecoverRunningStep(P(x), I(x))
             ELSE UNCHANGED planVars
    /\ UNCHANGED <<evid, ann, notes, chat, ran>>

(* A result over the outbox limit is recorded as failed, and the plan is   *)
(* given up once that is final.                                            *)
Oversized(x) ==
    /\ Fault("oversize") /\ x \in Invokers
    /\ At(x, "final") /\ act[x].to = "failed"
    /\ Finalizable(P(x), I(x))
    /\ FinalizeStep(P(x), I(x)) /\ Goto(x, "oversized")
    /\ UNCHANGED <<lockVars, evid, ann, notes, chat, ran>>
OversizedReplan(x) ==
    /\ At(x, "oversized")
    /\ Return(x)
    /\ IF Terminalized(P(x), I(x)) THEN TerminalizedNeedsReplan(P(x), I(x))
       ELSE UNCHANGED planVars
    /\ UNCHANGED <<evid, ann, notes, chat, ran, scenario>>

----------------------------------------------------------------------------
(* The annotation workflow tool: make_annotation_workflow_action.          *)

W == "workflow"
WorkflowStarts(p) ==
    /\ act[W].pc = "idle" /\ LoopFree(W)
    /\ task[TaskOf(p)] \in {"active", "waiting_user"}
    /\ LET i == CurrentStep(p)
       IN /\ i # 0 /\ Kind(p, i) = "workflow" /\ Executable(p, i)
          /\ plans[p].step[i] \in {"pending", "running", "waiting_user"}
          /\ act' = [act EXCEPT ![W] = [Idle EXCEPT !.p = p, !.i = i,
                        !.to = plans[p].step[i],
                        !.pc = IF plans[p].box[i] # NoBox THEN "read"
                               ELSE IF plans[p].step[i] = "pending" THEN "claim"
                               ELSE "begin"]]
    /\ UNCHANGED <<planVars, lockVars, evid, ann, notes, chat, ran, scenario>>
WorkflowClaims ==
    /\ At(W, "claim")
    /\ IF Claimable(P(W), I(W))
       THEN /\ ClaimStep(P(W), I(W))
            /\ act' = [act EXCEPT ![W].pc = "begin", ![W].to = "running"]
       ELSE Leave(W) /\ UNCHANGED planVars
    /\ UNCHANGED <<lockVars, evid, ann, notes, chat, ran, scenario>>

(* An exception of the gateway, for a job that failed or for any other     *)
(* reason, before or after the job was created.                            *)
GatewayRaises(t) ==
    /\ (ann[t] = "failed" /\ UNCHANGED scenario) \/ Fault("gateway")
    /\ ann' \in {ann, [ann EXCEPT ![t] = IF @ = "none" THEN "waiting" ELSE @]}

(* The gateway creates the job or reports how far it is; act.to is the     *)
(* status of the step as the tool knows it.                                *)
WorkflowBegins ==
    LET p == P(W)
        i == I(W)
        t == TaskOf(p)
        seen == act[W].to
    IN /\ At(W, "begin")
       /\ \/ /\ GatewayRaises(t)
             /\ IF seen = "running" /\ Stageable(p, i, "failed", {"running"})
                THEN StageResult(p, i, "failed", {"running"}) /\ Goto(W, "read")
                ELSE Leave(W) /\ UNCHANGED planVars
          \/ /\ ann[t] \in {"none", "waiting"}
             /\ ann' = [ann EXCEPT ![t] = "waiting"]
             /\ IF seen = "waiting_user" THEN Leave(W) ELSE Goto(W, "await")
             /\ UNCHANGED <<planVars, scenario>>
          \/ /\ ann[t] = "running"
             /\ Leave(W)
             /\ IF seen = "waiting_user" /\ Resumable(p, i)
                THEN ResumeWorkflowStep(p, i) ELSE UNCHANGED planVars
             /\ UNCHANGED <<ann, scenario>>
          \/ /\ ann[t] = "completed"
             /\ IF Stageable(p, i, "completed", {seen})
                THEN StageResult(p, i, "completed", {seen}) /\ Goto(W, "read")
                ELSE Leave(W) /\ UNCHANGED planVars
             /\ UNCHANGED <<ann, scenario>>
       /\ UNCHANGED <<lockVars, evid, notes, chat, ran>>
WorkflowAwaits ==
    /\ At(W, "await")
    /\ Leave(W)
    /\ IF Awaitable(P(W), I(W)) THEN AwaitWorkflowStep(P(W), I(W))
       ELSE UNCHANGED planVars
    /\ UNCHANGED <<lockVars, evid, ann, notes, chat, ran, scenario>>

(* The annotation service, as far as a plan sees it (AnnotationSystem has  *)
(* the rest): the annotator submits, the runs end well or not, and each    *)
(* step is told to the coordinator through a handoff.                      *)
AnnotationAdvances(t) ==
    /\ \E s \in {"running", "completed", "failed"} :
          /\ \/ ann[t] = "waiting" /\ s = "running"
             \/ ann[t] = "running" /\ s \in {"completed", "failed"}
          /\ ann' = [ann EXCEPT ![t] = s]
          /\ notes' = [notes EXCEPT ![t] = Append(@, s)]
    /\ UNCHANGED <<planVars, lockVars, act, evid, chat, ran, scenario>>

----------------------------------------------------------------------------
(* The coordinator: resume_, complete_ and fail_annotation_workflow_step.  *)

C == "coordinator"
Told(t) == Head(notes[t])
Delivered(t) == notes' = [notes EXCEPT ![t] = Tail(@)]
OpenWorkflowStep(t) ==
    LET p == LatestPlan(t)
    IN IF p = 0 \/ plans[p].st # "active" THEN 0
       ELSE LET i == CurrentStep(p)
            IN IF i # 0 /\ Kind(p, i) = "workflow"
                  /\ plans[p].step[i] \in {"pending", "waiting_user", "running"}
               THEN i ELSE 0
CoordinatorResumes(t) ==
    LET p == LatestPlan(t)
        i == OpenWorkflowStep(t)
    IN /\ At(C, "idle") /\ notes[t] # <<>> /\ Told(t) = "running"
       /\ i # 0 /\ Resumable(p, i)
       /\ ResumeWorkflowStep(p, i)
       /\ Delivered(t)
       /\ UNCHANGED <<lockVars, act, evid, ann, chat, ran, scenario>>

(* The step's status is read first and expected by the staged result.      *)
CoordinatorReads(t) ==
    LET p == LatestPlan(t)
        i == OpenWorkflowStep(t)
    IN /\ At(C, "idle") /\ notes[t] # <<>> /\ Told(t) \in {"completed", "failed"}
       /\ i # 0
       /\ act' = [act EXCEPT ![C] = [Idle EXCEPT !.pc = "stage", !.p = p, !.i = i,
                                                 !.to = plans[p].step[i]]]
       /\ UNCHANGED <<planVars, lockVars, evid, ann, notes, chat, ran, scenario>>
CoordinatorStages ==
    LET p == P(C)
        i == I(C)
        to == Told(TaskOf(p))
    IN /\ At(C, "stage")
       /\ IF Stageable(p, i, to, {act[C].to})
          THEN StageResult(p, i, to, {act[C].to}) /\ Goto(C, "read")
          ELSE /\ IF plans[p].box[i] = NoBox THEN Leave(C) ELSE Goto(C, "read")
               /\ UNCHANGED planVars
       /\ UNCHANGED <<lockVars, evid, ann, notes, chat, ran, scenario>>
(* A delivery that finds its step already done, and the end of the others: *)
(* a task that waited for the user is active again.                        *)
CoordinatorWakes ==
    LET t == TaskOf(P(C))
    IN /\ At(C, "wake")
       /\ Leave(C)
       /\ IF task[t] = "waiting_user" /\ Newest(t) THEN UpdateTask(t, "active")
          ELSE UNCHANGED planVars
       /\ IF act[C].to = Told(t) /\ (task[t] = "waiting_user" => Newest(t))
          THEN Delivered(t) ELSE UNCHANGED notes
       /\ UNCHANGED <<lockVars, evid, ann, chat, ran, scenario>>
CoordinatorSkips(t) ==
    LET p == LatestPlan(t)
    IN /\ At(C, "idle") /\ notes[t] # <<>> /\ Told(t) # "running"
       /\ p # 0 /\ OpenWorkflowStep(t) = 0
       /\ \E i \in Steps(p) : Kind(p, i) = "workflow" /\ plans[p].step[i] = Told(t)
       /\ IF task[t] = "waiting_user" /\ Newest(t) THEN UpdateTask(t, "active")
          ELSE UNCHANGED planVars
       /\ Delivered(t)
       /\ UNCHANGED <<lockVars, act, evid, ann, chat, ran, scenario>>

----------------------------------------------------------------------------
(* Human decisions: prepare_plan_human_decision, submit_human_decision.    *)

H == "human"
PrepareDecision(p) ==
    LET i == CurrentStep(p)
    IN /\ LoopFree(H) /\ act[H].pc = "idle"
       /\ i # 0 /\ Kind(p, i) = "human" /\ Executable(p, i)
       /\ plans[p].hand.st # "recovery_required"
       /\ \E ok \in BOOLEAN :
             /\ PreconditionsHold(ok)
             /\ IF ok THEN MarkWaitingUser(p, i)
                ELSE IF plans[p].step[i] = "waiting_user" THEN AnchorRecovery(p, i)
                ELSE MarkNeedsReplan(p)
       /\ UNCHANGED <<lockVars, act, evid, ann, notes, chat, ran>>

(* submit_human_decision for a decision that is on record: one that was    *)
(* delivered or consumed is acknowledged.  The lock on a decision is taken *)
(* for 600 s and not renewed, so a second submission can pass while the    *)
(* chat run of the first one goes on; the delivery lease of the first is   *)
(* then found expired, and the delivery ambiguous.                         *)
(* Mutant: a consumed tool call is still reported as submitted.            *)
ConsumedUnseen(p) == FALSE
Consumed(p) == chat[p] > 0
Delivering(p) == P(H) = p /\ act[H].pc \in {"chat", "settle"}
SubmitAgain(p) ==
    /\ LoopFree(H) /\ (act[H].pc = "idle" \/ Delivering(p))
    /\ \/ act[H].pc = "idle" /\ plans[p].hand.del = "delivered" /\ Acknowledge(p)
       \/ Consumed(p) /\ MarkConsumed(p)
       \/ /\ Delivering(p) /\ ~Consumed(p)
          /\ Newest(TaskOf(p)) /\ plans[p].hand.del = "expired" /\ NeedsRecovery(p)
    /\ UNCHANGED <<lockVars, execVars>>
SubmitDecision(p, choice) ==
    LET i == CurrentStep(p)
    IN /\ LoopFree(H) /\ act[H].pc = "idle"
       /\ i # 0 /\ Kind(p, i) = "human"
       /\ StageDecision(p, i, choice)
       /\ act' = [act EXCEPT ![H] = [Idle EXCEPT !.pc = "read", !.p = p, !.i = i]]
       /\ UNCHANGED <<lockVars, evid, ann, notes, chat, ran, scenario>>
(* ... and one the agent has not seen yet goes on where it stopped; under  *)
(* recovery that ends with the step, for it is not delivered any more.     *)
ResubmitDecision(p) ==
    /\ LoopFree(H) /\ act[H].pc = "idle"
    /\ Newest(TaskOf(p)) /\ ~Consumed(p)
    /\ plans[p].hand.st \in {"pending", "recovery_required"}
    /\ \E i \in Steps(p) :
          /\ Kind(p, i) = "human"
          /\ act' = [act EXCEPT ![H] =
                 IF plans[p].box[i] # NoBox THEN [Idle EXCEPT !.pc = "read", !.p = p, !.i = i]
                 ELSE IF plans[p].hand.st = "pending"
                 THEN [Idle EXCEPT !.pc = "deliver", !.p = p] ELSE Idle]
    /\ UNCHANGED <<planVars, lockVars, evid, ann, notes, chat, ran, scenario>>

(* claim_human_decision_delivery: claimed, or an expired lease makes the   *)
(* delivery ambiguous for ever.                                            *)
DeliverDecision ==
    LET p == P(H)
    IN /\ At(H, "deliver") /\ LoopFree(H)
       /\ \/ ClaimDelivery(p) /\ Goto(H, "chat")
          \/ plans[p].hand.del = "expired" /\ NeedsRecovery(p) /\ Leave(H)
          \/ /\ ~Deliverable(p) /\ plans[p].hand.del # "expired"
             /\ Leave(H) /\ UNCHANGED planVars
       /\ UNCHANGED <<lockVars, evid, ann, notes, chat, ran, scenario>>

(* External: the agent run consumes the result, fails before it does, or   *)
(* is cancelled and leaves the delivery to its lease.                      *)
ChatConsumes ==
    /\ At(H, "chat")
    /\ chat' = [chat EXCEPT ![P(H)] = IF @ < 2 THEN @ + 1 ELSE @]
    /\ Goto(H, "settle")
    /\ UNCHANGED <<planVars, lockVars, evid, ann, notes, ran, scenario>>
ChatFails ==
    /\ At(H, "chat") /\ Fault("chat")
    /\ Goto(H, "settle") \/ Leave(H)
    /\ UNCHANGED <<planVars, lockVars, evid, ann, notes, chat, ran>>

(* run_with_claim after the agent run: what the chat holds decides, not    *)
(* whether the run raised an error.                                        *)
DeliverySettles ==
    LET p == P(H)
    IN /\ At(H, "settle") /\ LoopFree(H)
       /\ IF ~Consumed(p)
          THEN /\ Leave(H)
               /\ \/ FinishDelivery(p, FALSE) \/ NeedsRecovery(p)
                  \/ plans[p].hand.st # "pending" /\ UNCHANGED planVars
          ELSE IF plans[p].hand.del = "delivered"
          THEN /\ IF plans[p].hand.st = "pending" THEN Acknowledge(p)
                  ELSE UNCHANGED planVars
               /\ Leave(H)
          ELSE IF plans[p].hand.st \in {"pending", "recovery_required"}
          THEN (FinishDelivery(p, TRUE) \/ MarkConsumed(p)) /\ UNCHANGED act
          ELSE Leave(H) /\ UNCHANGED planVars
       /\ UNCHANGED <<lockVars, evid, ann, notes, chat, ran, scenario>>

(* The delivery lease runs out after 60 s, whether or not the service that *)
(* took it is still delivering.                                            *)
LeaseRunsOut(p) ==
    /\ plans[p].hand.del = "delivering"
    /\ IF Delivering(p) THEN Fault("slow") ELSE UNCHANGED scenario
    /\ SetHand(p, [plans[p].hand EXCEPT !.del = "expired"])
    /\ UNCHANGED <<lockVars, act, evid, ann, notes, chat, ran>>

(* recover_human_decision_handoff, on an operator's request.               *)
RecoverHandoff(p) ==
    /\ QuarantineHandoff(p)
    /\ UNCHANGED <<lockVars, execVars>>

----------------------------------------------------------------------------
(* The service dies and is started again: threads and coroutines are gone, *)
(* the marker of a writer stays, and perhaps a child that holds the lock; an *)
(* operator clears the markers before writers are admitted again.  (In a   *)
(* service that does nothing a restart changes nothing.)                   *)
Crash ==
    /\ Fault("crash") /\ \E x \in Actors : act[x].pc # "idle"
    /\ act' = [x \in Actors |-> Idle]
    /\ IF \E x \in Invokers : holder = HeldBy(x)
       THEN \E x \in Invokers, alive \in BOOLEAN :
               holder = HeldBy(x) /\ WriterDies(x, alive)
       ELSE UNCHANGED lockVars
    /\ UNCHANGED <<planVars, evid, ann, notes, chat, ran>>
OperatorClears ==
    /\ QuarantinePresent /\ ClearMarkers(markers)
    /\ UNCHANGED <<planVars, execVars>>
ChildEnds == OrphanExits /\ UNCHANGED <<planVars, execVars>>

Next ==
    \/ \E t \in Tasks :
          \/ StartTask(t) \/ ContinueTask(t) \/ SettleControl(t)
          \/ AnnotationAdvances(t)
          \/ CoordinatorResumes(t) \/ CoordinatorReads(t) \/ CoordinatorSkips(t)
          \/ \E ph \in Phases : SubmitPlan(t, ph)
          \/ \E s \in {"pausing", "cancelling"} : RequestControl(t, s)
    \/ \E p \in DOMAIN plans :
          \/ WorkflowStarts(p) \/ PrepareDecision(p) \/ SubmitAgain(p)
          \/ ResubmitDecision(p) \/ LeaseRunsOut(p) \/ RecoverHandoff(p)
          \/ \E choice \in {"confirm", "guide"} : SubmitDecision(p, choice)
          \/ \E x \in Invokers : ToolStarts(x, p)
    \/ \E x \in Invokers :
          \/ ToolLocks(x) \/ Gate(x) \/ ChangedPreconditions(x) \/ Claim(x)
          \/ RunStep(x) \/ StageRun(x) \/ Oversized(x) \/ OversizedReplan(x)
    \/ \E x \in Actors :
          ReadStaged(x) \/ WriteEvidence(x) \/ AttachEvidence(x) \/ Finalize(x)
    \/ WorkflowClaims \/ WorkflowBegins \/ WorkflowAwaits
    \/ CoordinatorStages \/ CoordinatorWakes
    \/ DeliverDecision \/ ChatConsumes \/ ChatFails \/ DeliverySettles
    \/ ResetDataset \/ Crash \/ OperatorClears \/ ChildEnds

Spec == Init /\ [][Next]_vars

----------------------------------------------------------------------------
(* Properties.                                                             *)

(* claim_step: "exactly-once invocation".  The function of a plan step is  *)
(* never invoked twice, whatever crashed, was retried or recovered.        *)
InvokedOnce == \A r \in ran : r[3] = 1

(* recover_running_step_without_result gives a claim up because its        *)
(* invocation is dead: no thread is still executing a step of a plan that  *)
(* was given up (the writer lock is what makes this true).  An operator    *)
(* who quarantines a handoff gives the plan up whatever runs.              *)
GivenUpMeansDead ==
    \A x \in Invokers :
        act[x].pc \in {"run", "stage"} /\ plans[P(x)].hand.st # "quarantined" =>
            plans[P(x)].st = "active" /\ plans[P(x)].step[I(x)] = "running"

(* A decision of the user reaches the agent at most once, though the       *)
(* request, the delivery and its acknowledgement are retried.              *)
DecisionConsumedOnce == \A p \in DOMAIN plans : chat[p] <= 1

(* activate: a task has one active plan, and work of a plan that was       *)
(* superseded is never left behind in the ledger.                          *)
OneLivePlan ==
    \A p, q \in DOMAIN plans :
        plans[p].task = plans[q].task /\ p < q =>
            plans[p].st # "active" /\ (plans[p].st = "superseded" => ~InFlight(p))

=============================================================================
