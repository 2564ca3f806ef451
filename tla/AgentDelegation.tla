-------------------------- MODULE AgentDelegation --------------------------
(***************************************************************************)
(* What crosses the two databases of a conversation: a task is started,    *)
(* continued, stopped or cancelled by a tool of the Router, an answer of   *)
(* the user resumes it, the user interrupts it, the workbench wakes it, and *)
(* a loop recovers what a crash or a failure left in between               *)
(* (runtime/agentscope_runtime.py, web/agent_session.py).  A hand is one   *)
(* such coroutine: "call" in the Router's tool, "answer" in the user's     *)
(* request, "loop" in the recovery loop; its pc is the await it is at.     *)
(***************************************************************************)
EXTENDS AgentRuntime

At(h, pc) == hand[h].pc = pc
Step(h, pc) == Hand(h, [hand[h] EXCEPT !.pc = pc])
NewHand(pc, k, n, t) ==
    [NoHand EXCEPT !.pc = pc, !.item = k, !.turn = n, !.task = t,
                   !.rev = task[t].rev, !.was = task[t].status, !.bound = db.binding[t],
                   !.seen = IF db.turns[n].lease = "open" THEN db.turns[n].producer ELSE "closed"]

(* An item is completed only by the worker that holds it.                   *)
Release(d, k, h, status) == IF Holds(d, k, h) THEN Complete(d, k, status) ELSE d

(* The Router's tool returns to the agent.                                  *)
Returns(h) ==
    /\ Hand(h, NoHand)
    /\ IF h = "call" THEN Emit("router", <<Tool(runs["router"].r, "completed")>>)
                     ELSE UNCHANGED stream

RouterCalls == Emit("router", <<Tool(runs["router"].r, "running")>>)
RouterActs == runs["router"].pc = "on" /\ At("call", "idle") /\ ActiveTurn(db) # 0
(* The tools that change a task need the revision the Router was shown.     *)
InContext(t) ==
    /\ RouterActs /\ runs["router"].turn = ActiveTurn(db)
    /\ db.binding[t].slot = "open" /\ task[t].rev = runs["router"].snap

-----------------------------------------------------------------------------
(* A delegation that fails.  _handle_v1_delegation_failure: a task that was *)
(* just started fails, one that was continued can be adjusted.              *)
Undelegated(k, op) ==
    IF k.status # "active" THEN k
    ELSE Moved(k, IF op = "start" THEN "failed" ELSE "needs_replan")
DelegationFailure(d, t, op, k) ==
    IF d.binding[t].slot # "open" THEN d
    ELSE IF op = "start" THEN EndBinding(d, t, "failed")
    ELSE UpdateBinding(d, t, k.status)
FailsAt(h, found, d) ==
    LET t == hand[h].task
        op == hand[h].item[1]
        k == Undelegated(found, op)
    IN /\ task' = [task EXCEPT ![t] = k]
       /\ db' = DelegationFailure(Release(d, hand[h].item, h, "failed"), t, op, k)
       /\ Step(h, "settle")
Fails(h, d) == FailsAt(h, task[hand[h].task], d)

(* The last step of a control or of a failure: the system controller takes  *)
(* the turn over and ends it, unless it has ended.                          *)
Ending(d, n) == IF n # 0 /\ d.turns[n].lease = "open" THEN SystemFinal(d, n, "completed") ELSE d
HandSettles(h) ==
    /\ At(h, "settle")
    /\ db' = Ending(db, hand[h].turn)
    /\ Returns(h)
    /\ UNCHANGED <<task, work, behind, pos, runs, halt, bus, crashes>>

-----------------------------------------------------------------------------
(* start_navigation_agent_task_v1: the task is bound with an order to start *)
(* it, which the call claims; another writer of the data refuses it.        *)
CallStart(t) ==
    /\ RouterActs /\ CanBindTask(db, t)
    /\ LET n == ActiveTurn(db)
           k == <<"start", t, 0>>
           d == Claim(BindTask(db, t, n), k, "call")
       IN \/ /\ db' = d
             /\ task' = [task EXCEPT ![t] = [status |-> "active", rev |-> 1]]
             /\ Hand("call", NewHand("ensure", k, n, t))
          \/ /\ faulty
             /\ db' = EndBinding(Complete(d, k, "failed"), t, "failed")
             /\ Hand("call", NewHand("settle", k, n, t))
             /\ UNCHANGED task
    /\ RouterCalls
    /\ UNCHANGED <<work, behind, pos, runs, halt, bus, crashes>>

(* The program stops between these transactions, which are of two           *)
(* databases: the order is there, claimed or not, and the task is not.      *)
CallStartDies(t) ==
    /\ RouterActs /\ CanBindTask(db, t)
    /\ LET bound == BindTask(db, t, ActiveTurn(db))
       IN \E d \in {bound, Claim(bound, <<"start", t, 0>>, "call")} : Restarted(d)
    /\ RouterCalls
    /\ UNCHANGED task

(* The session exists; the Router hands the turn over.                      *)
CallHandsOver ==
    /\ At("call", "ensure")
    /\ \/ /\ Owns(db, "router", hand["call"].turn)
          /\ db' = Handover(db, hand["call"].turn, "navigation")
          /\ Step("call", "launch")
          /\ UNCHANGED task
       \/ /\ faulty \/ ~Owns(db, "router", hand["call"].turn)
          /\ Fails("call", db)
    /\ UNCHANGED <<work, behind, runVars, halt, bus, crashes>>

(* The run is accepted, or refused because one is running or by a failure.  *)
HandLaunches(h) ==
    /\ At(h, "launch")
    /\ LET t == hand[h].task
           n == hand[h].turn
       IN \/ /\ CanSpawn(t)
             /\ IF h = "loop" /\ hand[h].item[1] = "start"
                THEN Spawn(Complete(db, hand[h].item, "completed"), t, n) /\ Hand(h, NoHand)
                ELSE Spawn(db, t, n) /\ Step(h, "publish")
             /\ UNCHANGED task
          \/ /\ ~CanSpawn(t)
             /\ Fails(h, NotSpawned(db, t, n))
             /\ UNCHANGED <<runs, pos>>
          \/ /\ faulty
             /\ Fails(h, db)
             /\ UNCHANGED <<runs, pos>>
    /\ UNCHANGED <<work, behind, stream, halt, bus, crashes>>

(* The task strip was told; the order is done.                              *)
HandPublishes(h) ==
    /\ At(h, "publish")
    /\ db' = Release(db, hand[h].item, h, "completed")
    /\ Returns(h)
    /\ UNCHANGED <<task, work, behind, pos, runs, halt, bus, crashes>>

(* continue_navigation_agent_task_v1: a task that stands still goes on with *)
(* the user's message.  Its revision is used up before the turn is handed   *)
(* over, which is refused to a Router that no longer holds it.              *)
Standing == {"paused", "waiting_user", "needs_replan"}
Guided(k) == [k EXCEPT !.rev = @ + 1]
Continued(t, n) ==
    Claim(HandoverWith(db, n, <<"continue", t, n>>), <<"continue", t, n>>, "call")
CallContinue(t) ==
    /\ InContext(t) /\ task[t].status \in Standing
    /\ LET n == ActiveTurn(db) IN
       \/ /\ Owns(db, "router", n)
          /\ db' = ResumeBinding(Continued(t, n), t)
          /\ task' = [task EXCEPT ![t] = Moved(Guided(@), "active")]
          /\ Hand("call", NewHand("launch", <<"continue", t, n>>, n, t))
          /\ RouterCalls
       \/ /\ ~Owns(db, "router", n)
          /\ task' = [task EXCEPT ![t] = Guided(@)]
          /\ UNCHANGED <<db, hand, stream>>
    /\ UNCHANGED <<work, behind, pos, runs, halt, bus, crashes>>

(* The program stops before the hand-over, before the claim, before the     *)
(* task is active or before its binding is.                                 *)
CallContinueDies(t) ==
    /\ InContext(t) /\ task[t].status \in Standing
    /\ LET n == ActiveTurn(db)
           k == Guided(task[t])
       IN /\ Owns(db, "router", n)
          /\ \/ /\ task' = [task EXCEPT ![t] = k]
                /\ \E d \in {db, HandoverWith(db, n, <<"continue", t, n>>), Continued(t, n)} :
                      Restarted(d)
             \/ /\ task' = [task EXCEPT ![t] = Moved(k, "active")]
                /\ Restarted(Continued(t, n))
    /\ RouterCalls

-----------------------------------------------------------------------------
(* control_navigation_agent_task_v1.  The agent's session joins the turn    *)
(* before the request is judged.                                            *)
Going(action) == IF action = "stop" THEN "pausing" ELSE "cancelling"
Gone(action) == IF action = "stop" THEN "paused" ELSE "cancelled"
CanControl(t, action) == Going(action) \in Moves[task[t].status]
Cancelled(t) == [runs EXCEPT ![t].cancelled = Local(t)]
Finalized(d, t, action) ==
    IF action = "cancel" THEN EndBinding(d, t, "cancelled") ELSE UpdateBinding(d, t, "paused")
CallControl(t, action) ==
    /\ InContext(t)
    /\ LET n == ActiveTurn(db)
           d == Bind(db, t, n)
           v == NewHand("cancel", <<action>>, n, t)
       IN \/ /\ CanControl(t, action)
             /\ MoveTo(t, Going(action))
             /\ db' = UpdateBinding(d, t, Going(action))
             /\ runs' = Cancelled(t)
             /\ Hand("call", [v EXCEPT !.rev = @ + 1])
             /\ RouterCalls
          \/ /\ task[t].status \in {Going(action), Gone(action)}
             /\ LET over == task[t].status = Going(action) /\ t \notin behind IN
                /\ task' = IF over THEN [task EXCEPT ![t] = Moved(@, Gone(action))] ELSE task
                /\ db' = IF over THEN Finalized(d, t, action) ELSE UpdateBinding(d, t, task[t].status)
             /\ Hand("call", [v EXCEPT !.pc = "settle"])
             /\ RouterCalls
             /\ UNCHANGED runs
          \/ /\ ~CanControl(t, action) /\ task[t].status \notin {Going(action), Gone(action)}
             /\ db' = d
             /\ UNCHANGED <<task, runs, hand, stream>>
    /\ UNCHANGED <<work, behind, pos, halt, bus, crashes>>

(* After the cancel was published: the control ends here or, with an        *)
(* operation in the background, when that ends.  A task that moved          *)
(* meanwhile makes the call fail.                                           *)
ControlEnds ==
    /\ At("call", "cancel")
    /\ LET t == hand["call"].task
           action == hand["call"].item[1]
       IN \/ /\ t \in behind
             /\ Step("call", "settle")
             /\ UNCHANGED <<task, db, stream>>
          \/ /\ t \notin behind /\ task[t].rev = hand["call"].rev
             /\ MoveTo(t, Gone(action))
             /\ db' = Finalized(db, t, action)
             /\ Step("call", "settle")
             /\ UNCHANGED stream
          \/ /\ t \notin behind /\ task[t].rev # hand["call"].rev
             /\ Returns("call")
             /\ UNCHANGED <<task, db>>
    /\ UNCHANGED <<work, behind, pos, runs, halt, bus, crashes>>

-----------------------------------------------------------------------------
(* The user interrupts.  A navigation task of the running turn is stopped;  *)
(* otherwise the runs of the turn are cancelled.  Whatever turn is running  *)
(* in the end is interrupted.                                               *)
Stoppable(n) ==
    {t \in Tasks : n # 0 /\ db.bound[t] = n /\ task[t].status \in {"active", "pausing", "paused"}}
UserInterrupts ==
    /\ halt.pc = "idle"
    /\ LET n == ActiveTurn(db) IN
       \/ \E t \in Stoppable(n) :
            /\ task' = IF task[t].status = "active" THEN [task EXCEPT ![t] = Moved(@, "pausing")] ELSE task
            /\ db' = IF db.binding[t].status \in {"pausing", "paused"} THEN db
                     ELSE UpdateBinding(db, t, "pausing")
            /\ runs' = Cancelled(t)
            /\ halt' = [pc |-> "cancel", task |-> t, turn |-> n]
       \/ /\ Stoppable(n) = {}
          /\ runs' = [s \in Sessions |->
                  IF Local(s) /\ (IF n = 0 THEN s = "router" ELSE db.bound[s] = n)
                  THEN [runs[s] EXCEPT !.cancelled = TRUE] ELSE runs[s]]
          /\ halt' = [pc |-> "last", task |-> None, turn |-> n]
          /\ UNCHANGED <<task, db>>
    /\ UNCHANGED <<work, behind, stream, pos, hand, bus, crashes>>
HaltStops ==
    /\ halt.pc = "cancel"
    /\ LET t == halt.task IN
       IF t \in behind THEN UNCHANGED <<task, db>>
       ELSE /\ task' = [task EXCEPT ![t] = FinalizeTask(@, "stop")]
            /\ db' = FinalizeBinding(db, t, "stop")
    /\ halt' = [halt EXCEPT !.pc = "settle"]
    /\ UNCHANGED <<work, behind, runVars, hand, bus, crashes>>
HaltSettles ==
    /\ halt.pc = "settle"
    /\ db' = Ending(db, halt.turn)
    /\ halt' = [halt EXCEPT !.pc = "last"]
    /\ UNCHANGED <<task, work, behind, runVars, hand, bus, crashes>>
HaltInterrupts ==
    /\ halt.pc = "last"
    /\ db' = InterruptActiveTurn(db)
    /\ halt' = NoHalt
    /\ UNCHANGED <<task, work, behind, runVars, hand, bus, crashes>>

-----------------------------------------------------------------------------
(* An answer.  submit_interaction_response: the question is consumed, then  *)
(* a turn for the answer is opened; a running turn refuses the second, and  *)
(* only the same answer sent again delivers it.                             *)
UserAnswers(i) ==
    /\ At("answer", "idle") /\ Len(db.turns) < MaxTurns
    /\ LET t == db.prompts[i].task
           fresh == Consumable(db, i, task[t].rev)
           d == IF fresh THEN Consume(db, i) ELSE db
       IN /\ fresh \/ db.prompts[i].status = "resolved"
          /\ IF CanAnswer(d, i)
             THEN /\ db' = InteractionTurn(d, i)
                  /\ Hand("answer", [NoHand EXCEPT !.pc = "deliver", !.item = <<"resume", t, i>>,
                                                   !.task = t])
             ELSE /\ db' = d
                  /\ UNCHANGED hand
    /\ UNCHANGED <<task, work, behind, runVars, halt, bus, crashes>>

(* _process_claimed_interaction_resume_v1, up to its first await.  A resume *)
(* that raises is tried three times.                                        *)
ResumeRaised(h, d, v) ==
    LET t == v.task
        out == d.outbox[v.item].tries >= MaxTries
        k == IF out /\ task[t].status = "active" THEN Moved(task[t], "needs_replan") ELSE task[t]
        c == Complete(d, v.item, IF out THEN "failed" ELSE "pending")
    IN /\ task' = [task EXCEPT ![t] = k]
       /\ db' = IF out /\ c.binding[t].slot = "open" THEN UpdateBinding(c, t, k.status) ELSE c
       /\ Hand(h, IF out THEN [v EXCEPT !.pc = "settle"] ELSE NoHand)
Resumes(h, d, k) ==
    LET n == d.outbox[k].turn
        t == k[2]
        r == d.prompts[k[3]].reply
        v == [NoHand EXCEPT !.pc = "decide", !.item = k, !.turn = n, !.task = t]
    IN IF Transferable(d, t, r, n)
       THEN /\ db' = Bind(TransferReply(d, t, r, n), t, n)
            /\ Hand(h, v)
            /\ UNCHANGED task
       ELSE ResumeRaised(h, d, v)
AnswerDelivers ==
    /\ At("answer", "deliver")
    /\ LET k == hand["answer"].item IN
       \/ Due(db, k) /\ Resumes("answer", Claim(db, k, "answer"), k)
       \/ /\ db.outbox[k].status # "pending"
          /\ Hand("answer", NoHand) /\ UNCHANGED <<db, task>>
    /\ UNCHANGED <<work, behind, runVars, halt, bus, crashes>>

(* submit_human_decision: an answer the agent has taken before is accepted  *)
(* without a run; otherwise the paused reply goes on in a new run.  The     *)
(* user's choice may end the task.                                          *)
ResumedRun(d, t, i) ==
    [NoRun EXCEPT !.pc = "resume", !.r = d.prompts[i].reply, !.lease = LeaseFor(d, ActiveTurn(d), t)]
Chosen(k, stop) ==
    IF k.status # "waiting_user" THEN k
    ELSE IF stop THEN [status |-> "cancelled", rev |-> k.rev + 2] ELSE Moved(k, "active")
ChosenBinding(d, t, stop) ==
    IF d.binding[t].slot # "open" THEN d
    ELSE IF stop THEN EndBinding(d, t, "cancelled") ELSE ResumeBinding(d, t)
ResumeDecides(h, stop) ==
    /\ At(h, "decide")
    /\ LET t == hand[h].task
           i == hand[h].item[3]
           taken == <<t, db.prompts[i].reply>> \in bus.told
           d == IF taken \/ ActiveTurn(db) = 0 THEN db ELSE RegisterPending(db, ActiveTurn(db), t)
       IN \/ /\ taken \/ CanSpawn(t)
             /\ runs' = IF taken THEN runs ELSE [runs EXCEPT ![t] = ResumedRun(db, t, i)]
             /\ task' = [task EXCEPT ![t] = Chosen(@, stop)]
             /\ db' = ChosenBinding(d, t, stop)
             /\ Step(h, "publish")
          \/ /\ faulty \/ (~taken /\ ~CanSpawn(t))
             /\ ResumeRaised(h, db, hand[h])
             /\ UNCHANGED runs
          \/ /\ faulty
             /\ db' = Release(Ending(db, hand[h].turn), hand[h].item, h, "failed")
             /\ Hand(h, NoHand)
             /\ UNCHANGED <<task, runs>>
    /\ UNCHANGED <<work, behind, stream, pos, halt, bus, crashes>>

-----------------------------------------------------------------------------
(* The recovery loop.  First it settles controls whose callback was lost.   *)
Held(d, h) == {k \in DOMAIN d.outbox : Holds(d, k, h)}
LoopRests == At("loop", "idle") /\ Held(db, "loop") = {}
LoopControls(t) ==
    /\ LoopRests /\ ~LocalActive(t)
    /\ \/ task[t].status \in {"pausing", "cancelling"}
       \/ task[t].status \in {"paused", "cancelled"} /\ db.bound[t] # 0
    /\ LET action == Control(task[t]) IN
       IF task[t].status \in {"pausing", "cancelling"}
       THEN /\ task' = [task EXCEPT ![t] = FinalizeTask(@, action)]
            /\ db' = FinalizeBinding(db, t, action)
       ELSE UNCHANGED <<task, db>>
    /\ Hand("loop", [NoHand EXCEPT !.pc = "settle", !.task = t, !.turn = db.bound[t]])
    /\ UNCHANGED <<work, behind, runVars, halt, bus, crashes>>

(* Then it claims the orders that are due, and works through them.          *)
Orders == {"start", "continue", "resume", "system"}
(* A claim lasts 300 s.  Assumed, for no timeout in the code says so: no    *)
(* coroutine that holds one awaits longer than that.                        *)
Elapsed == At("call", "idle") /\ At("answer", "idle") /\ halt.pc = "idle"
(* Mutant: an order that somebody holds is claimed as well.                *)
DueOrdersAtOnce(d) ==
    {k \in DOMAIN d.outbox : k[1] \in Orders /\ d.outbox[k].status \in {"pending", "claimed"}}
DueOrders(d) ==
    {k \in DOMAIN d.outbox : /\ k[1] \in Orders /\ Due(d, k)
                             /\ d.outbox[k].status = "claimed" => Elapsed}
LoopClaims ==
    /\ LoopRests /\ DueOrders(db) # {}
    /\ db' = [db EXCEPT !.outbox = [k \in DOMAIN db.outbox |->
                  IF k \in DueOrders(db) THEN Claim(db, k, "loop").outbox[k] ELSE db.outbox[k]]]
    /\ UNCHANGED <<task, work, behind, runVars, hand, halt, bus, crashes>>

(* A deferred event is appended when no turn is running any more.           *)
(* Mutant: it is appended while another turn is running.                   *)
LoopReplaysAnyway(s, e) ==
    LET k == <<"system", s, e>> IN
    /\ At("loop", "idle") /\ Holds(db, k, "loop")
    /\ db' = Advance(Receive(db, s, e, db.outbox[k].event), s, e)
    /\ Hand("loop", [NoHand EXCEPT !.pc = "publish", !.item = k])
    /\ UNCHANGED <<task, work, behind, runVars, halt, bus, crashes>>
LoopReplays(s, e) ==
    LET k == <<"system", s, e>> IN
    /\ At("loop", "idle") /\ Holds(db, k, "loop")
    /\ IF ActiveTurn(db) # 0
       THEN db' = Complete(db, k, "pending") /\ UNCHANGED hand
       ELSE /\ db' = Advance(Receive(db, s, e, db.outbox[k].event), s, e)
            /\ Hand("loop", [NoHand EXCEPT !.pc = "publish", !.item = k])
    /\ UNCHANGED <<task, work, behind, runVars, halt, bus, crashes>>

LoopResumes(t, i) ==
    /\ At("loop", "idle") /\ Holds(db, <<"resume", t, i>>, "loop")
    /\ Resumes("loop", db, <<"resume", t, i>>)
    /\ UNCHANGED <<work, behind, runVars, halt, bus, crashes>>

(* An order to start or to continue: what the loop reads of the turn and of *)
(* the task is from before the session is ensured.                          *)
LoopTakes(k) ==
    /\ At("loop", "idle") /\ Holds(db, k, "loop") /\ k[1] \in {"start", "continue"}
    /\ LET t == k[2]
           n == db.outbox[k].turn
           v == NewHand("ensure", k, n, t)
           create == k[1] = "start" /\ task[t].status = "none"
       IN /\ task' = IF create THEN [task EXCEPT ![t] = [status |-> "active", rev |-> 1]] ELSE task
          /\ IF k[1] = "continue" /\ v.seen = "closed"
             THEN db' = Complete(db, k, "completed") /\ UNCHANGED hand
             ELSE Hand("loop", v) /\ UNCHANGED db
    /\ UNCHANGED <<work, behind, runVars, halt, bus, crashes>>

(* The last run recorded for the turn; one that nobody runs is over.        *)
LastRun(n, t) ==
    IF db.turns[n].run = "running" /\ ~LocalActive(t) THEN "none" ELSE db.turns[n].run
Noted(d, n, t) ==
    IF d.turns[n].run = "running" /\ ~LocalActive(t) THEN SetRun(d, n, "interrupted") ELSE d

LoopEnsuresStart ==
    /\ At("loop", "ensure") /\ hand["loop"].item[1] = "start"
    /\ LET v == hand["loop"]
           run == LastRun(v.turn, v.task)
           d == Noted(IF v.seen = "router" THEN Handover(db, v.turn, "navigation") ELSE db, v.turn, v.task)
           mine == \/ v.seen = "router" /\ Owns(db, "router", v.turn)
                   \/ v.seen = "navigation"
       IN \/ /\ v.seen = "closed"
             /\ db' = Complete(db, v.item, "completed") /\ Hand("loop", NoHand)
             /\ UNCHANGED task
          \/ /\ mine /\ run = "none"
             /\ db' = d /\ Step("loop", "launch")
             /\ UNCHANGED task
          \/ /\ mine /\ run \in {"running", "completed"}
             /\ db' = Complete(d, v.item, "completed") /\ Hand("loop", NoHand)
             /\ UNCHANGED task
          \/ /\ v.seen # "closed" /\ (~mine \/ run \in {"failed", "interrupted"})
             /\ Fails("loop", IF mine THEN d ELSE db)
    /\ UNCHANGED <<work, behind, runVars, halt, bus, crashes>>

(* A task that stood still when it was read is made active at the revision  *)
(* it had then, and its binding with it.  When either has moved meanwhile,  *)
(* the order fails, or waits if a run was accepted for it.                  *)
LoopEnsuresContinue ==
    /\ At("loop", "ensure") /\ hand["loop"].item[1] = "continue"
    /\ LET v == hand["loop"]
           t == v.task
           run == LastRun(v.turn, t)
           spawn == run \in {"none", "failed", "interrupted"}
           moves == v.was \in Standing /\ (spawn \/ run = "running")
           binds == (v.was = "active" \/ moves) /\ (v.bound.status # "active" \/ v.bound.wait # 0)
           stale == moves /\ task[t].rev # v.rev
           late == stale \/ (binds /\ db.binding[t] # v.bound)
           k == IF moves /\ ~stale THEN Moved(task[t], "active") ELSE task[t]
           d == Noted(db, v.turn, t)
       IN \/ /\ v.seen # "navigation"
             /\ Fails("loop", db)
          \/ /\ v.seen = "navigation" /\ late
             /\ IF spawn THEN FailsAt("loop", k, d)
                ELSE /\ task' = [task EXCEPT ![t] = k]
                     /\ db' = Complete(d, v.item, "pending")
                     /\ Hand("loop", NoHand)
          \/ /\ v.seen = "navigation" /\ ~late
             /\ task' = [task EXCEPT ![t] = k]
             /\ db' = IF binds THEN ResumeBinding(d, t) ELSE d
             /\ Step("loop", IF spawn THEN "launch" ELSE "publish")
    /\ UNCHANGED <<work, behind, runVars, halt, bus, crashes>>

(* An agent with a wake-up or with messages left in its inbox is run, if it *)
(* is idle; a wake-up for one that runs is dropped.                         *)
Idle(t) == [runs EXCEPT ![t] = [NoRun EXCEPT !.pc = "woken"]]
LoopWakes(t) ==
    /\ LoopRests /\ t \in bus.wakeups
    /\ bus' = [bus EXCEPT !.wakeups = @ \ {t}]
    /\ runs' = IF LocalActive(t) THEN runs ELSE Idle(t)
    /\ UNCHANGED <<db, task, work, behind, stream, pos, hand, halt, crashes>>
LoopFindsInbox(t) ==
    /\ LoopRests /\ ~LocalActive(t) /\ \E m \in bus.inbox : m[1] = t
    /\ runs' = Idle(t)
    /\ UNCHANGED <<db, task, work, behind, stream, pos, hand, halt, bus, crashes>>

-----------------------------------------------------------------------------
(* wake_navigation_task_from_workbench: the hint is pushed to the inbox     *)
(* once and a wake-up queued once, each with a marker in Redis written with *)
(* it and a receipt in the database written after it.  The caller tries     *)
(* again until both receipts are there.                                     *)
Dispatched(t, h) == Enqueued(db, <<"inbox", t, h>>) /\ Enqueued(db, <<"wakeup", t, h>>)
WakeBegins(t, h) ==
    /\ bus.pc = "idle" /\ ~Dispatched(t, h)
    /\ task[t].status # "none" /\ db.binding[t].slot = "open"
    /\ bus' = [bus EXCEPT !.pc = "ensure", !.hint = h, !.task = t]
    /\ UNCHANGED <<db, task, work, behind, runVars, hand, halt, crashes>>
WakeOpensTurn ==
    /\ bus.pc = "ensure" /\ Len(db.turns) < MaxTurns
    /\ db' = WorkflowTurn(db, bus.task, bus.hint)
    /\ bus' = [bus EXCEPT !.pc = "push"]
    /\ UNCHANGED <<task, work, behind, runVars, hand, halt, crashes>>

(* _redis_xadd_once: the marker and the entry are written together.         *)
(* Mutant: only the receipt in the database is looked at.                  *)
MarkedByReceipt(kind) == Enqueued(db, <<kind, bus.task, bus.hint>>)
Marked(kind) == <<kind, bus.task, bus.hint>> \in bus.sent
WakePushes ==
    /\ bus.pc = "push"
    /\ bus' = IF Marked("inbox") THEN [bus EXCEPT !.pc = "pushed"]
              ELSE [bus EXCEPT !.pc = "pushed", !.sent = @ \cup {<<"inbox", bus.task, bus.hint>>},
                               !.inbox = @ \cup {<<bus.task, bus.hint>>},
                               !.pushed = Append(@, <<bus.task, bus.hint>>)]
    /\ UNCHANGED <<db, task, work, behind, runVars, hand, halt, crashes>>
WakeQueues ==
    /\ bus.pc = "pushed"
    /\ db' = Receipt(db, <<"inbox", bus.task, bus.hint>>)
    /\ bus' = IF Marked("wakeup") THEN [bus EXCEPT !.pc = "queued"]
              ELSE [bus EXCEPT !.pc = "queued", !.sent = @ \cup {<<"wakeup", bus.task, bus.hint>>},
                               !.wakeups = @ \cup {bus.task}]
    /\ UNCHANGED <<task, work, behind, runVars, hand, halt, crashes>>
WakeEnds ==
    /\ bus.pc = "queued"
    /\ db' = Receipt(db, <<"wakeup", bus.task, bus.hint>>)
    /\ bus' = [bus EXCEPT !.pc = "idle"]
    /\ UNCHANGED <<task, work, behind, runVars, hand, halt, crashes>>

-----------------------------------------------------------------------------
(* The steps, by who takes them.                                            *)
Kinds == {"text", "silent", "await", "invalid"}
Outcomes == {"completed", "partial", "failed"}

Users == SubmitTurn
Interrupts == UserInterrupts \/ HaltStops \/ HaltSettles \/ HaltInterrupts
RouterRuns ==
    \/ RunBegins("router")
    \/ \E kind \in {"text", "silent"} : RunEnds("router", kind)
    \/ RouterTimesOut
    \/ RunCancelled("router")
AgentRuns ==
    \E t \in Tasks :
       \/ RunBegins(t)
       \/ \E kind \in Kinds : RunEnds(t, kind)
       \/ RunFails(t)
       \/ RunCancelled(t)
Tools ==
    \E t \in Tasks :
       \/ ToolStarts(t)
       \/ \E outcome \in Outcomes : ToolEnds(t, outcome)
       \/ ToolWaits(t)
LongTools ==
    \E t \in Tasks :
       \/ ToolStarts(t)
       \/ ToolEnds(t, "background")
       \/ \E outcome \in Outcomes : BackgroundEnds(t, outcome)
Bridges == \E s \in Sessions : BridgeReads(s)
Crashes == Crash \/ \E s \in Sessions : BridgeDies(s)
Starting == (\E t \in Tasks : CallStart(t)) \/ CallHandsOver \/ HandLaunches("call") \/ HandPublishes("call")
             \/ HandSettles("call")
Continuing == \E t \in Tasks : CallContinue(t)
StartingDies == \E t \in Tasks : CallStartDies(t)
ContinuingDies == \E t \in Tasks : CallContinueDies(t)
Controlling == ControlEnds \/ \E t \in Tasks, action \in {"stop", "cancel"} : CallControl(t, action)
Asking == \E t \in Tasks : RunAsks(t) \/ RunResumes(t)
Answering ==
    \/ \E i \in DOMAIN db.prompts : UserAnswers(i)
    \/ AnswerDelivers
    \/ \E stop \in BOOLEAN : ResumeDecides("answer", stop)
    \/ HandPublishes("answer")
    \/ HandSettles("answer")
Recovering ==
    \/ \E t \in Tasks : LoopControls(t)
    \/ LoopClaims
    \/ \E k \in Held(db, "loop") : LoopTakes(k)
    \/ LoopEnsuresStart
    \/ LoopEnsuresContinue
    \/ HandLaunches("loop")
    \/ HandPublishes("loop")
    \/ HandSettles("loop")
Replaying == \E s \in Sessions : \E e \in 1..Len(stream[s]) : LoopReplays(s, e)
Resuming ==
    \/ \E i \in DOMAIN db.prompts : LoopResumes(db.prompts[i].task, i)
    \/ \E stop \in BOOLEAN : ResumeDecides("loop", stop)
Waking == \E t \in Tasks : LoopWakes(t) \/ LoopFindsInbox(t) \/ RunIdles(t)
Hinting ==
    \/ \E t \in Tasks, h \in Hints : WakeBegins(t, h)
    \/ WakeOpensTurn
    \/ WakePushes
    \/ WakeQueues
    \/ WakeEnds

Next ==
    /\ \/ Users \/ Interrupts \/ RouterRuns \/ AgentRuns \/ Tools \/ LongTools \/ Bridges \/ Crashes
       \/ StartingDies \/ ContinuingDies \/ Starting \/ Continuing \/ Controlling \/ Asking \/ Answering
       \/ Recovering \/ Replaying \/ Resuming \/ Waking \/ Hinting
    /\ UNCHANGED faulty

Spec == RuntimeInit /\ [][Next]_webVars

-----------------------------------------------------------------------------
(* The final answer of a turn comes from the producer that holds its        *)
(* authority when it ends, whatever buffered events an earlier producer     *)
(* still has in its log.                                                    *)
FinalByOwner ==
    \A n \in DOMAIN db.turns :
       db.turns[n].final # "none" => db.turns[n].final = db.turns[n].producer

(* An event that had to wait for a turn is shown before its order is done:  *)
(* nothing that wants the user's attention is lost in the outbox.           *)
DeferredIsShown ==
    \A k \in DOMAIN db.outbox :
       /\ k[1] = "system" /\ db.outbox[k].status = "completed" /\ Attention(db.outbox[k].event)
       => <<k[2], k[3]>> \in db.shown

(* A task is not reported failed or cancelled while the run that was        *)
(* started for it goes on: an order to start is carried out by one worker.  *)
LiveRunKeepsTask ==
    \A t \in Tasks :
       /\ Local(t) /\ ~runs[t].cancelled
       /\ Enqueued(db, <<"start", t, 0>>) /\ db.outbox[<<"start", t, 0>>].turn = runs[t].turn
       => task[t].status \notin {"failed", "cancelled"}

(* A task that is over frees its slot in the conversation, also when the    *)
(* program stops between its two databases: the event that ended it is then *)
(* still unread and its second projection frees the slot.  (Only a turn     *)
(* that someone else answers or the user interrupts mutes that event.)      *)
EndedFreesSlot ==
    \A t \in Tasks :
       /\ task[t].status = "completed" /\ db.binding[t].slot = "open"
       /\ \A n \in DOMAIN db.turns : /\ db.turns[n].producer = "navigation"
                                     /\ db.turns[n].status # "interrupted"
       => pos[t] < Len(stream[t])

(* A workbench event reaches the inbox of its agent once, however often the *)
(* dispatch is tried again.                                                 *)
HintOnce == \A i, j \in DOMAIN bus.pushed : bus.pushed[i] = bus.pushed[j] => i = j

=============================================================================
