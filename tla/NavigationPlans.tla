--------------------------- MODULE NavigationPlans ---------------------------
(***************************************************************************)
(* The navigation ledger (navigation/task_store.py, plan_store.py): tasks, *)
(* their immutable plans, the status of every plan step, the outbox of     *)
(* staged step results and the handoffs of human decisions.  Every         *)
(* operator that primes a variable is one BEGIN IMMEDIATE transaction.     *)
(* All tasks are about overlapping segments of one dataset date.           *)
(***************************************************************************)
EXTENDS Integers, Sequences, FiniteSets

CONSTANTS NumTasks,   \* bound on navigation tasks, numbered as they are created
          SessionOf,  \* the durable session pair a task belongs to
          Phases,     \* plan phases of this instance
          StepsOf,    \* StepsOf[ph]: the kinds of the steps of a plan
          LockingIn,  \* LockingIn[ph]: the steps of a plan that lock their target
          OutcomeOf,  \* OutcomeOf[ph]: what the task has achieved with such a plan
          MaxPlans    \* bound on plans ever accepted

ASSUME PlansAssumption ==
    /\ StepsOf \in [Phases -> Seq({"human", "workflow", "process"}) \ {<<>>}]
    /\ LockingIn \in [Phases -> SUBSET Nat]
    /\ OutcomeOf \in [Phases -> {"none", "fix_pending", "review_completed"}]
    /\ MaxPlans \in Nat /\ NumTasks \in Nat

(* plan_validation.py: "A business action may appear only once in one      *)
(* Plan", and one action asks the user.                                    *)
ASSUME OneDecisionAssumption ==
    \A ph \in Phases : \A i, j \in DOMAIN StepsOf[ph] :
        StepsOf[ph][i] = "human" /\ StepsOf[ph][j] = "human" => i = j

VARIABLES task,     \* navigation_tasks.status
          outcome,  \* navigation_task_outcomes.completion_outcome
          plans     \* navigation_plans with their steps, outbox and handoff

planVars == <<task, outcome, plans>>

Tasks == 1 .. NumTasks
TaskStatus == {"none", "active", "waiting_user", "pausing", "paused",
               "cancelling", "completed", "failed", "cancelled", "needs_replan"}
TerminalTask == {"completed", "failed", "cancelled"}
StepStatus == {"pending", "running", "waiting_user", "completed", "failed",
               "needs_replan"}

(* NAVIGATION_TASK_STATUS_TRANSITIONS *)
Transitions ==
    [s \in TaskStatus |->
        CASE s = "active" -> {"waiting_user", "pausing", "cancelling",
                              "completed", "failed", "needs_replan"}
          [] s = "waiting_user" -> {"active", "cancelling", "completed"}
          [] s = "pausing" -> {"paused", "cancelling", "failed"}
          [] s = "paused" -> {"active", "cancelling"}
          [] s = "cancelling" -> {"cancelled", "failed"}
          [] s = "needs_replan" -> {"active", "cancelling", "failed"}
          [] OTHER -> {}]

NoBox == [to |-> "none", exp |-> {}]
NoHand == [st |-> "none", del |-> "none"]

PlansInit ==
    /\ task = [t \in Tasks |-> "none"]
    /\ outcome = [t \in Tasks |-> "none"]
    /\ plans = <<>>

----------------------------------------------------------------------------
(* Reads.                                                                  *)

(* authorize_navigation_task_write: the task is its session's newest one.  *)
Newest(t) ==
    \A u \in t + 1 .. NumTasks : task[u] # "none" => SessionOf[u] # SessionOf[t]

Kind(p, i) == StepsOf[plans[p].phase][i]
Steps(p) == DOMAIN plans[p].step
TaskOf(p) == plans[p].task

(* get_current_step: the first step that is not completed, 0 for none.     *)
CurrentStep(p) ==
    IF \E i \in Steps(p) : plans[p].step[i] # "completed"
    THEN CHOOSE i \in Steps(p) :
            /\ plans[p].step[i] # "completed"
            /\ \A j \in 1 .. i - 1 : plans[p].step[j] = "completed"
    ELSE 0

(* read_execution_snapshot: what the executor of the newest task sees.     *)
Executable(p, i) ==
    Newest(TaskOf(p)) /\ plans[p].st = "active" /\ i = CurrentStep(p)

(* read_claim_terminalization_snapshot: a claim whose result is staged may *)
(* be finished although its session has a newer task.                      *)
Terminalizable(p, i) ==
    /\ plans[p].st = "active" /\ plans[p].step[i] = "running"
    /\ plans[p].box[i] # NoBox
    /\ \A j \in 1 .. i - 1 : plans[p].step[j] = "completed"

(* get_latest_accepted_for_task: the newest active or completed plan of the *)
(* phase that was accepted last (accepted_plan_phase).                      *)
LatestPlan(t) ==
    LET all == {p \in DOMAIN plans : plans[p].task = t}
        ps == {p \in all : /\ plans[p].st \in {"active", "completed"}
                           /\ \A q \in all : (\A r \in all : r <= q)
                                 => plans[q].phase = plans[p].phase}
    IN IF ps = {} THEN 0 ELSE CHOOSE p \in ps : \A q \in ps : q <= p

(* _active_plan_has_in_flight_work, _task_has_in_flight_work *)
InFlight(p) ==
    \/ \E i \in Steps(p) : \/ plans[p].step[i] \in {"running", "waiting_user"}
                           \/ plans[p].box[i] # NoBox
    \/ plans[p].hand.st \in {"pending", "recovery_required"}
TaskInFlight(t) == \E p \in DOMAIN plans : plans[p].task = t /\ InFlight(p)

(* A plan that is invalidated takes its unfinished steps with it.          *)
Unfinished(p, st) == [i \in Steps(p) |-> IF plans[p].step[i] = "completed"
                                         THEN "completed" ELSE st]
Invalidated(p) == [plans EXCEPT ![p].st = "invalidated",
                                ![p].step = Unfinished(p, "needs_replan")]

----------------------------------------------------------------------------
(* Tasks.                                                                  *)

(* create_task_attempt *)
CreateTaskAttempt(t) ==
    /\ task[t] = "none" /\ \A u \in 1 .. t - 1 : task[u] # "none"
    /\ task' = [task EXCEPT ![t] = "active"]
    /\ UNCHANGED <<outcome, plans>>

(* create_linked_trajectory_fix_attempt: the parent has finished           *)
(* processing and is neither changed nor reopened.                         *)
CreateLinkedFix(t, parent) ==
    /\ task[parent] = "completed" /\ outcome[parent] = "fix_pending"
    /\ CreateTaskAttempt(t)

(* update_task_for_session with a status: the transition is validated.     *)
UpdateTask(t, s) ==
    /\ Newest(t)
    /\ s \in Transitions[task[t]]
    /\ task' = [task EXCEPT ![t] = s]
    /\ UNCHANGED <<outcome, plans>>

(* cancel_nonterminal_for_dataset_reset *)
CancelForReset ==
    LET ts == {t \in Tasks : task[t] \notin TerminalTask \cup {"none"}}
    IN /\ task' = [t \in Tasks |-> IF t \in ts THEN "cancelled" ELSE task[t]]
       /\ plans' = [p \in DOMAIN plans |->
              IF plans[p].task \notin ts THEN plans[p]
              ELSE [plans[p] EXCEPT
                      !.box = [i \in Steps(p) |-> NoBox],
                      !.hand.st = IF @ = "none" THEN @ ELSE "quarantined",
                      !.step = IF plans[p].st = "active"
                               THEN Unfinished(p, "failed") ELSE @,
                      !.st = IF @ = "active" THEN "invalidated" ELSE @]]
       /\ UNCHANGED outcome

----------------------------------------------------------------------------
(* Plans and steps.                                                        *)

(* Mutant: a new plan supersedes one that still has work in flight.        *)
ActivateInFlight(t, ph) ==
    /\ Newest(t)
    /\ Len(plans) < MaxPlans
    /\ plans' = Append([p \in DOMAIN plans |->
                          IF plans[p].task = t /\ plans[p].st = "active"
                          THEN [plans[p] EXCEPT !.st = "superseded"]
                          ELSE plans[p]],
                       [task |-> t, phase |-> ph, st |-> "active",
                        step |-> [i \in DOMAIN StepsOf[ph] |-> "pending"],
                        box |-> [i \in DOMAIN StepsOf[ph] |-> NoBox],
                        hand |-> NoHand])
    /\ UNCHANGED <<task, outcome>>

(* activate: refused while any plan of the task has work in flight.        *)
Activate(t, ph) ==
    /\ Newest(t)
    /\ Len(plans) < MaxPlans
    /\ ~TaskInFlight(t)
    /\ plans' = Append([p \in DOMAIN plans |->
                          IF plans[p].task = t /\ plans[p].st = "active"
                          THEN [plans[p] EXCEPT !.st = "superseded"]
                          ELSE plans[p]],
                       [task |-> t, phase |-> ph, st |-> "active",
                        step |-> [i \in DOMAIN StepsOf[ph] |-> "pending"],
                        box |-> [i \in DOMAIN StepsOf[ph] |-> NoBox],
                        hand |-> NoHand])
    /\ UNCHANGED <<task, outcome>>

(* claim_step: NOT_CLAIMABLE, NAVIGATION_DATA_BUSY or CLAIMED.  Of two     *)
(* steps that lock their target (locks_navigation_target) one runs at a time. *)
Locks(p, i) == i \in LockingIn[plans[p].phase]
LocksNow(q, j) == plans[q].st = "active" /\ Locks(q, j) /\ plans[q].step[j] = "running"
Busy(p, i) ==
    /\ Locks(p, i)
    /\ \E q \in DOMAIN plans : \E j \in Steps(q) :
          <<q, j>> # <<p, i>> /\ LocksNow(q, j)
Claimable(p, i) ==
    /\ Newest(TaskOf(p)) /\ plans[p].st = "active"
    /\ plans[p].step[i] = "pending"
    /\ ~Busy(p, i)
ClaimStep(p, i) ==
    /\ Claimable(p, i)
    /\ plans' = [plans EXCEPT ![p].step[i] = "running"]
    /\ UNCHANGED <<task, outcome>>

(* mark_waiting_user *)
MarkWaitingUser(p, i) ==
    /\ Newest(TaskOf(p)) /\ plans[p].st = "active"
    /\ plans[p].step[i] = "pending"
    /\ plans' = [plans EXCEPT ![p].step[i] = "waiting_user"]
    /\ UNCHANGED <<task, outcome>>

(* resume_waiting_workflow_step *)
Resumable(p, i) ==
    /\ Newest(TaskOf(p)) /\ plans[p].st = "active"
    /\ \/ plans[p].step[i] = "running" /\ task[TaskOf(p)] = "active"
       \/ /\ plans[p].step[i] = "waiting_user"
          /\ task[TaskOf(p)] \in {"waiting_user", "active"}
ResumeWorkflowStep(p, i) ==
    /\ Resumable(p, i)
    /\ plans' = [plans EXCEPT ![p].step[i] = "running"]
    /\ task' = [task EXCEPT ![TaskOf(p)] = "active"]
    /\ UNCHANGED outcome

(* mark_workflow_step_waiting_user *)
Awaitable(p, i) ==
    /\ Newest(TaskOf(p)) /\ plans[p].st = "active"
    /\ plans[p].step[i] \in {"pending", "running"}
    /\ task[TaskOf(p)] \in {"active", "waiting_user"}
AwaitWorkflowStep(p, i) ==
    /\ Awaitable(p, i)
    /\ plans' = [plans EXCEPT ![p].step[i] = "waiting_user"]
    /\ task' = [task EXCEPT ![TaskOf(p)] = "waiting_user"]
    /\ UNCHANGED outcome

(* stage_step_result: exp are the statuses the step may have when the      *)
(* result is applied.  A second, equal staging returns the first one.      *)
Stageable(p, i, to, exp) ==
    IF plans[p].box[i] # NoBox THEN plans[p].box[i] = [to |-> to, exp |-> exp]
    ELSE plans[p].st = "active" /\ plans[p].step[i] \in exp
StageResult(p, i, to, exp) ==
    /\ Stageable(p, i, to, exp)
    /\ plans' = [plans EXCEPT ![p].box[i] = [to |-> to, exp |-> exp]]
    /\ UNCHANGED <<task, outcome>>

(* finalize_staged_step: the step takes the staged status.  The last step  *)
(* completes the plan, and the task when the plan ended with a validation; *)
(* a failed step fails the task.  The status of the task is not looked at. *)
Finalizable(p, i) ==
    /\ plans[p].box[i] # NoBox
    /\ plans[p].st = "active"
    /\ plans[p].step[i] \in plans[p].box[i].exp
CompletesPlan(p, i) ==
    /\ plans[p].box[i].to = "completed"
    /\ \A j \in Steps(p) \ {i} : plans[p].step[j] = "completed"
FinalizeStep(p, i) ==
    LET t == TaskOf(p)
        to == plans[p].box[i].to
        last == CompletesPlan(p, i)
        achieved == OutcomeOf[plans[p].phase]
    IN /\ Finalizable(p, i)
       /\ plans' = [plans EXCEPT ![p].step[i] = to, ![p].box[i] = NoBox,
                                 ![p].st = IF last THEN "completed" ELSE @]
       /\ task' = IF last
                  THEN [task EXCEPT ![t] = IF achieved = "none" THEN "active"
                                           ELSE "completed"]
                  ELSE IF to = "failed" THEN [task EXCEPT ![t] = "failed"]
                  ELSE task
       /\ outcome' = IF last /\ achieved # "none"
                     THEN [outcome EXCEPT ![t] = achieved] ELSE outcome

(* recover_running_step_without_result: the claim of a dead invocation is  *)
(* given up; blocked by an open handoff of the same task and phase.        *)
HandoffOpen(p) ==
    \E q \in DOMAIN plans :
        /\ plans[q].task = plans[p].task /\ plans[q].phase = plans[p].phase
        /\ plans[q].hand.st \in {"pending", "recovery_required"}
Recoverable(p, i) ==
    /\ plans[p].st = "active" /\ plans[p].step[i] = "running"
    /\ plans[p].box[i] = NoBox
    /\ ~HandoffOpen(p)
(* Mutant: the claim is given back instead of given up.                    *)
RecoverByRetry(p, i) ==
    /\ Recoverable(p, i)
    /\ plans' = [plans EXCEPT ![p].step[i] = "pending"]
    /\ UNCHANGED <<task, outcome>>
RecoverRunningStep(p, i) ==
    /\ Recoverable(p, i)
    /\ plans' = Invalidated(p)
    /\ task' = [task EXCEPT ![TaskOf(p)] = "needs_replan"]
    /\ UNCHANGED outcome

(* mark_needs_replan *)
Replannable(p) == Newest(TaskOf(p)) /\ plans[p].st = "active" /\ ~InFlight(p)
MarkNeedsReplan(p) ==
    /\ Replannable(p)
    /\ plans' = Invalidated(p)
    /\ task' = [task EXCEPT ![TaskOf(p)] = "needs_replan"]
    /\ UNCHANGED outcome

(* mark_terminalized_claim_needs_replan: after an oversized result, which  *)
(* was recorded as failed.                                                 *)
Terminalized(p, i) ==
    /\ plans[p].step[i] \in {"completed", "failed"} /\ plans[p].box[i] = NoBox
    /\ plans[p].st = "active" /\ ~InFlight(p)
TerminalizedNeedsReplan(p, i) ==
    /\ Terminalized(p, i)
    /\ plans' = Invalidated(p)
    /\ task' = [task EXCEPT ![TaskOf(p)] = "needs_replan"]
    /\ UNCHANGED outcome

----------------------------------------------------------------------------
(* Handoffs of human decisions.                                            *)

SetHand(p, h) == plans' = [plans EXCEPT ![p].hand = h]
                 /\ UNCHANGED <<task, outcome>>

(* stage_human_decision_handoff: the handoff and the result of the step    *)
(* are stored together; the first decision wins.                           *)
StageDecision(p, i, choice) ==
    /\ Newest(TaskOf(p)) /\ plans[p].hand.st = "none"
    /\ plans[p].st = "active" /\ plans[p].step[i] \in {"pending", "waiting_user"}
    /\ plans' = [plans EXCEPT
           ![p].hand = [st |-> "pending", del |-> "none"],
           ![p].box[i] = [to |-> IF choice = "confirm" THEN "completed" ELSE "failed",
                          exp |-> {"pending", "waiting_user"}]]
    /\ UNCHANGED <<task, outcome>>

(* claim_human_decision_delivery *)
Deliverable(p) == plans[p].hand.st = "pending" /\ plans[p].hand.del = "none"
ClaimDelivery(p) ==
    Deliverable(p) /\ SetHand(p, [plans[p].hand EXCEPT !.del = "delivering"])

(* mark_human_decision_recovery_required, also reached through an expired  *)
(* delivery lease; a delivered handoff is left alone.                      *)
NeedsRecovery(p) ==
    /\ plans[p].hand.st = "pending" /\ plans[p].hand.del # "delivered"
    /\ SetHand(p, [st |-> "recovery_required", del |-> "recovery_required"])

(* ... and its second form, which anchors a request nobody answered yet.   *)
AnchorRecovery(p, i) ==
    /\ Newest(TaskOf(p)) /\ plans[p].hand.st = "none"
    /\ plans[p].st = "active" /\ plans[p].step[i] = "waiting_user"
    /\ SetHand(p, [st |-> "recovery_required", del |-> "recovery_required"])

(* finish_human_decision_delivery with the token of the claim, though its  *)
(* lease may have expired: only another claim looks at that.               *)
FinishDelivery(p, delivered) ==
    /\ plans[p].hand.st = "pending" /\ plans[p].hand.del \in {"delivering", "expired"}
    /\ SetHand(p, [plans[p].hand EXCEPT !.del = IF delivered THEN "delivered"
                                                ELSE "none"])

(* mark_consumed_human_decision_delivery *)
MarkConsumed(p) ==
    /\ plans[p].hand.st \in {"pending", "recovery_required"}
    /\ plans[p].hand.del # "delivered"
    /\ SetHand(p, [plans[p].hand EXCEPT !.st = "pending", !.del = "delivered"])

(* acknowledge_human_decision_handoff *)
Acknowledge(p) == plans[p].hand.st = "pending" /\ SetHand(p, NoHand)

(* quarantine_human_decision_handoff: the plan is given up with it.        *)
QuarantineHandoff(p) ==
    /\ plans[p].hand.st = "recovery_required"
    /\ plans' = [Invalidated(p) EXCEPT
           ![p].hand.st = "quarantined",
           ![p].box = [i \in Steps(p) |-> IF Kind(p, i) = "human" THEN NoBox
                                          ELSE plans[p].box[i]]]
    /\ task' = [task EXCEPT ![TaskOf(p)] = "needs_replan"]
    /\ UNCHANGED outcome
=============================================================================
