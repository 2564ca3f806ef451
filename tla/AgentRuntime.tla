---------------------------- MODULE AgentRuntime ----------------------------
(***************************************************************************)
(* The runtime of a conversation: runtime/agentscope_runtime.py and        *)
(* web/agent_session.py over the database of WebSessions.  Everything runs *)
(* on one event loop, so a coroutine is cut only where it awaits.  The     *)
(* agents themselves are external: a run of an agent emits events to the   *)
(* log of its session (Redis, which survives the program), and the bridge  *)
(* reads each log in order.  The tasks and the plan ledger live in the     *)
(* navigation database, separate from the database of the conversation.    *)
(***************************************************************************)
EXTENDS WebSessions

CONSTANTS
    Hints,          \* workbench events sent to a task
    MaxTurns,       \* bound on the turns of the conversation
    MaxReplies,     \* bound on the replies of one session
    MaxCrashes      \* bound on the restarts of the program

VARIABLES
    task,           \* navigation tasks: status and revision
    work,           \* task -> state of its accepted plan
    behind,         \* tasks with an operation still running in the background
    stream,         \* session -> log of events
    pos,            \* session -> last event the bridge has read
    runs,           \* session -> the local run of its agent
    hand,           \* the coroutines that carry work of the outbox
    halt,           \* the interruption asked for by the user
    bus,            \* inboxes, wake-ups and markers in Redis, and the wake call
    crashes,
    faulty          \* whether calls to Redis and to the agent service may fail

runVars == <<stream, pos, runs>>
busVars == <<halt, bus>>
webVars == <<db, task, work, behind, stream, pos, runs, hand, halt, bus, crashes, faulty>>

Hands == {"call", "loop", "answer"}
NoRun == [pc |-> "none", r |-> 0, turn |-> 0, lease |-> 0, snap |-> 0, tool |-> FALSE,
          cancelled |-> FALSE]
NoHand == [pc |-> "idle", item |-> <<>>, turn |-> 0, task |-> None, rev |-> 0, was |-> "none",
           bound |-> NoBinding, seen |-> "none"]
NoHalt == [pc |-> "idle", task |-> None, turn |-> 0]
NoBus == [inbox |-> {}, wakeups |-> {}, sent |-> {}, pushed |-> <<>>, told |-> {},
          pc |-> "idle", hint |-> 0, task |-> None]
NoTask == [status |-> "none", rev |-> 0]

RuntimeInit ==
    /\ DbInit
    /\ task = [t \in Tasks |-> NoTask]
    /\ work = [t \in Tasks |-> "none"]
    /\ behind = {}
    /\ stream = [s \in Sessions |-> <<>>]
    /\ pos = [s \in Sessions |-> 0]
    /\ runs = [s \in Sessions |-> NoRun]
    /\ hand = [h \in Hands |-> NoHand]
    /\ halt = NoHalt /\ bus = NoBus /\ crashes = 0 /\ faulty \in BOOLEAN

(* A run of the agent, or an operation it left in the background.           *)
Local(s) == runs[s].pc # "none"
LocalActive(s) == Local(s) \/ s \in behind
Hand(h, v) == hand' = [hand EXCEPT ![h] = v]
Emit(s, evs) == stream' = [stream EXCEPT ![s] = @ \o evs]

(* NAVIGATION_TASK_STATUS_TRANSITIONS.                                      *)
Moves ==
    [none         |-> {}, completed |-> {}, failed |-> {}, cancelled |-> {},
     active       |-> {"waiting_user", "pausing", "cancelling", "completed", "failed", "needs_replan"},
     waiting_user |-> {"active", "cancelling", "completed"},
     pausing      |-> {"paused", "cancelling", "failed"},
     paused       |-> {"active", "cancelling"},
     cancelling   |-> {"cancelled", "failed"},
     needs_replan |-> {"active", "cancelling", "failed"}]
Moved(k, status) == [status |-> status, rev |-> k.rev + 1]
MoveTo(t, status) == task' = [task EXCEPT ![t] = Moved(@, status)]

(* Events of an agent.                                                      *)
Event(raw, r, call, tool, kind) ==
    [raw |-> raw, reply |-> r, call |-> call, tool |-> tool, kind |-> kind]
Began(r) == Event("REPLY_START", r, 0, "none", "none")
Tool(r, status) == Event("TOOL", r, r, status, "none")
Asked(r) == Event("ASK", r, 0, "none", "none")
Ended(r, kind) == Event("REPLY_END", r, 0, "none", kind)
Replies(s) == Cardinality({e \in DOMAIN stream[s] : stream[s][e].raw = "REPLY_START"})

-----------------------------------------------------------------------------
(* _start_agent_run after its awaits: the session is bound to the turn, a   *)
(* lease registered, the run recorded and spawned.  Then the cursor jumps   *)
(* to the end of the log as it was read before.  One run per session.       *)
CanSpawn(s) == ~Local(s)
Started(d, s, n) ==
    LET b == RegisterPending(Bind(d, s, n), n, s)
        r == IF s = "router" THEN b ELSE SetRun(b, n, "running")
    IN Advance(r, s, Len(stream[s]))
NewRun(d, s, n) ==
    [NoRun EXCEPT !.pc = "start", !.turn = n, !.lease = LeaseFor(Bind(d, s, n), n, s)]
Spawn(d, s, n) ==
    /\ db' = Started(d, s, n)
    /\ runs' = [runs EXCEPT ![s] = NewRun(d, s, n)]
    /\ pos' = [pos EXCEPT ![s] = Len(stream[s])]

(* A refused spawn leaves the binding, and takes lease and run back.        *)
NotSpawned(d, s, n) ==
    LET b == RegisterPending(Bind(d, s, n), n, s)
    IN SetRun(DiscardPending(b, LeaseFor(Bind(d, s, n), n, s)), n, "failed")

-----------------------------------------------------------------------------
(* The user.  submit_turn: the turn is opened, then the Router is started;  *)
(* a start that fails takes the turn back.                                  *)
SubmitTurn ==
    /\ CanBeginTurn(db) /\ Len(db.turns) < MaxTurns
    /\ LET n == Len(db.turns) + 1
           d == BeginUserTurn(db, n)
       IN \/ CanSpawn("router") /\ Spawn(d, "router", n)
          \/ /\ faulty \/ ~CanSpawn("router")
             /\ db' = AbortInitialTurn(d, n)
             /\ UNCHANGED <<runs, pos>>
    /\ UNCHANGED <<task, work, behind, stream, hand, halt, bus, crashes>>

-----------------------------------------------------------------------------
(* Runs.  The agent starts its reply; the Router's context holds the        *)
(* revision of the open task as it is then.                                 *)
Focus == IF OpenSlots(db) = {} THEN None ELSE CHOOSE t \in OpenSlots(db) : TRUE
RunBegins(s) ==
    /\ Replies(s) < MaxReplies
    /\ runs[s].pc = "start" \/ (runs[s].pc = "woken" /\ \E m \in bus.inbox : m[1] = s)
    /\ LET r == Replies(s) + 1 IN
       /\ Emit(s, <<Began(r)>>)
       /\ runs' = [runs EXCEPT ![s] = [@ EXCEPT !.pc = "on", !.r = r,
                       !.snap = IF s = "router" /\ Focus # None THEN task[Focus].rev ELSE 0]]
    /\ bus' = [bus EXCEPT !.inbox = {m \in @ : m[1] # s}]
    /\ UNCHANGED <<db, task, work, behind, pos, hand, halt, crashes>>

(* A run that continues a reply the user was asked in: the agent takes the  *)
(* answer, and goes on without a new start event.                           *)
RunResumes(t) ==
    /\ runs[t].pc = "resume"
    /\ runs' = [runs EXCEPT ![t].pc = "on"]
    /\ bus' = [bus EXCEPT !.told = @ \cup {<<t, runs[t].r>>}]
    /\ UNCHANGED <<db, task, work, behind, stream, pos, hand, halt, crashes>>
(* A run that was only woken finds nothing in the inbox.                    *)
RunIdles(t) ==
    /\ runs[t].pc = "woken" /\ {m \in bus.inbox : m[1] = t} = {}
    /\ runs' = [runs EXCEPT ![t] = NoRun]
    /\ UNCHANGED <<db, task, work, behind, stream, pos, hand, halt, bus, crashes>>

(* The agent ends its reply; the run is over and was completed.             *)
Finished(d, s) ==
    IF s # "router" /\ runs[s].turn # 0 /\ d.turns[runs[s].turn].run = "running"
    THEN SetRun(d, runs[s].turn, "completed") ELSE d
RunEnds(s, kind) ==
    /\ runs[s].pc = "on"
    /\ s = "router" => hand["call"].pc = "idle" /\ kind \in {"text", "silent"}
    /\ Emit(s, <<Ended(runs[s].r, kind)>>)
    /\ db' = Finished(db, s)
    /\ runs' = [runs EXCEPT ![s] = NoRun]
    /\ UNCHANGED <<task, work, behind, pos, hand, halt, bus, crashes>>

(* A navigation agent calls a tool of its plan.  The call ends, or goes on  *)
(* in the background.                                                       *)
ToolStarts(t) ==
    /\ runs[t].pc = "on" /\ ~runs[t].tool
    /\ Emit(t, <<Tool(runs[t].r, "running")>>)
    /\ runs' = [runs EXCEPT ![t].pc = "tool"]
    /\ work' = [work EXCEPT ![t] = "running"]
    /\ UNCHANGED <<db, task, behind, pos, hand, halt, bus, crashes>>
ToolEnds(t, outcome) ==
    /\ runs[t].pc = "tool"
    /\ outcome \in {"completed", "partial", "failed", "background"}
    /\ Emit(t, <<Tool(runs[t].r, IF outcome = "background" THEN outcome ELSE "completed")>>)
    /\ runs' = [runs EXCEPT ![t] = [@ EXCEPT !.pc = "on", !.tool = TRUE]]
    /\ work' = [work EXCEPT ![t] = outcome]
    /\ behind' = IF outcome = "background" THEN behind \cup {t} ELSE behind
    /\ UNCHANGED <<db, task, pos, hand, halt, bus, crashes>>

(* A step that waits for the workbench: the task waits with it, in the      *)
(* transaction that marks the step.                                         *)
ToolWaits(t) ==
    /\ runs[t].pc = "tool" /\ task[t].status \in {"active", "waiting_user"}
    /\ Emit(t, <<Tool(runs[t].r, "completed")>>)
    /\ runs' = [runs EXCEPT ![t] = [@ EXCEPT !.pc = "on", !.tool = TRUE]]
    /\ work' = [work EXCEPT ![t] = "waiting_user"]
    /\ MoveTo(t, "waiting_user")
    /\ UNCHANGED <<db, behind, pos, hand, halt, bus, crashes>>

(* The background operation of a task ends; its result waits in the inbox   *)
(* of the agent, which is woken.  What a stop or a cancellation left to     *)
(* this moment is finished.                                                 *)
Control(k) == IF k.status \in {"pausing", "paused"} THEN "stop" ELSE "cancel"
FinalizeTask(k, action) ==
    IF action = "stop" /\ k.status = "pausing" THEN Moved(k, "paused")
    ELSE IF action = "cancel" /\ k.status = "cancelling" THEN Moved(k, "cancelled") ELSE k
FinalizeBinding(d, t, action) ==
    IF action = "cancel" THEN EndBinding(d, t, "cancelled")
    ELSE IF d.binding[t].slot = "open" THEN UpdateBinding(d, t, "paused") ELSE d
(* The callback is registered after the control has awaited the cancel.     *)
Armed(t) ==
    /\ task[t].status \in {"pausing", "cancelling"}
    /\ ~(hand["call"].pc = "cancel" /\ hand["call"].task = t)
    /\ ~(halt.pc = "cancel" /\ halt.task = t)
BackgroundEnds(t, outcome) ==
    /\ t \in behind /\ outcome \in {"completed", "partial", "failed"}
    /\ behind' = behind \ {t}
    /\ work' = [work EXCEPT ![t] = outcome]
    /\ IF Armed(t)
       THEN /\ task' = [task EXCEPT ![t] = FinalizeTask(@, Control(@))]
            /\ db' = FinalizeBinding(db, t, Control(task[t]))
       ELSE UNCHANGED <<task, db>>
    /\ bus' = [bus EXCEPT !.inbox = @ \cup {<<t, 0>>}, !.wakeups = @ \cup {t}]
    /\ UNCHANGED <<runVars, hand, halt, crashes>>

(* The agent asks the user; the run pauses on the tool call.                *)
RunAsks(t) ==
    /\ runs[t].pc = "on"
    /\ Emit(t, <<Asked(runs[t].r)>>)
    /\ db' = Finished(db, t)
    /\ runs' = [runs EXCEPT ![t] = NoRun]
    /\ UNCHANGED <<task, work, behind, pos, hand, halt, bus, crashes>>

(* A run that ends by an exception fails its lease; a navigation run fails  *)
(* its task as well, unless it was only woken or resumed.                   *)
FailTask(k) ==
    IF k.status \in {"active", "pausing", "cancelling", "needs_replan"} THEN Moved(k, "failed") ELSE k
FailRun(d, s, k) ==
    LET u == IF s # "router" /\ runs[s].turn # 0 /\ d.turns[runs[s].turn].run = "running"
             THEN SetRun(d, runs[s].turn, "failed") ELSE d
        b == IF s # "router" /\ runs[s].turn # 0 /\ k.status = "failed"
             THEN EndBinding(u, s, "failed") ELSE u
    IN IF runs[s].lease = 0 THEN b ELSE FailLease(b, runs[s].lease)
RunFails(t) ==
    /\ faulty /\ Local(t) /\ t # "router"
    /\ LET k == IF runs[t].turn # 0 THEN FailTask(task[t]) ELSE task[t] IN
       /\ task' = [task EXCEPT ![t] = k]
       /\ db' = FailRun(db, t, k)
    /\ runs' = [runs EXCEPT ![t] = NoRun]
    /\ UNCHANGED <<work, behind, stream, pos, hand, halt, bus, crashes>>

(* The Router's run is limited in time; a tool it was calling is cancelled  *)
(* where it awaits, and its claim on the outbox is left to run out.         *)
Dropped(d, h) ==
    LET k == hand[h].item IN
    IF k # <<>> /\ Holds(d, k, h) THEN [d EXCEPT !.outbox[k].by = "dead"] ELSE d
RouterTimesOut ==
    /\ faulty /\ Local("router")
    /\ db' = FailRun(Dropped(db, "call"), "router", NoTask)
    /\ runs' = [runs EXCEPT !["router"] = NoRun]
    /\ Hand("call", NoHand)
    /\ UNCHANGED <<task, work, behind, stream, pos, halt, bus, crashes>>

(* A cancelled run ends where it awaits, without an event.                  *)
RunCancelled(s) ==
    /\ Local(s) /\ runs[s].cancelled
    /\ LET d == IF s = "router" THEN Dropped(db, "call") ELSE db IN
       db' = IF s # "router" /\ runs[s].turn # 0 /\ d.turns[runs[s].turn].run = "running"
             THEN SetRun(d, runs[s].turn, "interrupted") ELSE d
    /\ runs' = [runs EXCEPT ![s] = NoRun]
    /\ IF s = "router" THEN Hand("call", NoHand) ELSE UNCHANGED hand
    /\ UNCHANGED <<task, work, behind, stream, pos, halt, bus, crashes>>

-----------------------------------------------------------------------------
(* The bridge: one worker per session reads the log in order, projects each *)
(* event to what the user may see and appends it.  The projection of a      *)
(* navigation event already changes the task, its binding and its question, *)
(* in transactions of their own.                                            *)
Bare(v) ==
    [NoEvent EXCEPT !.raw = v.raw, !.reply = v.reply, !.call = v.call, !.tool = v.tool]

(* Nothing of a reply of another turn, or of a producer that no longer      *)
(* holds the authority, is public.                                          *)
Muted(s, v) ==
    \/ KnownTurn(db, s, v) # 0 /\ KnownTurn(db, s, v) # db.bound[s]
    \/ db.bound[s] # 0 /\ ~(/\ db.turns[db.bound[s]].lease = "open"
                            /\ db.turns[db.bound[s]].producer = Role(s))

(* A navigation reply in a system turn, or in none, is an update in the     *)
(* background; a workflow boundary gives the system turn a meaning.         *)
InBackground(t) == db.bound[t] = 0 \/ db.turns[db.bound[t]].origin = "system"
Semantic(t) == db.bound[t] # 0 /\ db.turns[db.bound[t]].origin = "system"
                               /\ db.turns[db.bound[t]].key # 0

(* _sync_task_state_on_specialist_final_v1: where the plan puts the task    *)
(* when its agent ends with a text.                                         *)
Settling(t) ==
    IF t \in behind \/ task[t].status \in {"completed", "paused", "pausing", "cancelled", "cancelling"}
    THEN "none"
    ELSE IF work[t] \in {"completed", "waiting_user"} THEN work[t]
    ELSE IF \/ work[t] \in {"partial", "failed"}
            \/ task[t].status = "active" /\ ~InBackground(t) /\ work[t] \notin {"running", "background"}
    THEN "needs_replan"
    ELSE "none"
Settles(t) ==
    Settling(t) # "none" /\ Settling(t) \in Moves[task[t].status] \cup {task[t].status}
SettledTask(t) ==
    IF Settles(t) /\ task[t].status # Settling(t) THEN Moved(task[t], Settling(t)) ELSE task[t]
(* Mutant: a task found completed needs nothing any more.                  *)
SettledOnce(d, t) ==
    IF t \notin behind /\ task[t].status # "completed" /\ Settles(t) /\ Settling(t) = "completed"
    THEN EndBinding(d, t, "completed")
    ELSE IF Settles(t) /\ d.binding[t].slot = "open" THEN UpdateBinding(d, t, Settling(t)) ELSE d
SettledBinding(d, t) ==
    IF t \notin behind /\ (task[t].status = "completed" \/ (Settles(t) /\ Settling(t) = "completed"))
    THEN EndBinding(d, t, "completed")
    ELSE IF Settles(t) /\ d.binding[t].slot = "open" THEN UpdateBinding(d, t, Settling(t)) ELSE d

(* What one event does to the task, to the conversation and what is shown.  *)
Shown(v, final, ask, state) ==
    [Bare(v) EXCEPT !.final = final, !.ask = ask, !.state = state]
Effect(d, k, p) == [db |-> d, task |-> k, shown |-> p]
FinalEffect(t, v) ==
    LET k == SettledTask(t)
        quiet == InBackground(t) /\ ~Semantic(t) /\ k.status = "active"
    IN Effect(SettledBinding(db, t), k, Shown(v, ~quiet, FALSE, k.status))

(* _apply_navigation_await_user_disposition_v1: a second, different request *)
(* raises, and so does a task that does not run.                            *)
AwaitAccepted(t, e) ==
    /\ db.binding[t].slot = "open"
    /\ \/ task[t].status = "active"
       \/ /\ task[t].status = "waiting_user"
          /\ db.binding[t].wait = e \/ db.binding[t].status = "active"
AwaitEffect(t, e, v) ==
    LET k == IF task[t].status = "active" THEN Moved(task[t], "waiting_user") ELSE task[t]
    IN Effect(WaitBinding(db, t, e), k, Shown(v, TRUE, FALSE, "waiting_user"))

(* _recover_invalid_navigation_disposition_v1.                              *)
InvalidAccepted(t) ==
    db.binding[t].slot = "open" /\ task[t].status \in {"active", "waiting_user", "needs_replan"}
InvalidEffect(t, v) ==
    LET k == IF task[t].status = "active" THEN Moved(task[t], "needs_replan") ELSE task[t]
    IN Effect(UpdateBinding(db, t, k.status), k, Shown(v, TRUE, FALSE, k.status))

(* A question in the log: the task waits, and the question is recorded for  *)
(* the revision the task has then.                                          *)
AskEffect(t, v) ==
    LET k == IF task[t].status = "active" THEN Moved(task[t], "waiting_user") ELSE task[t]
    IN Effect(CreatePrompt(UpdateBinding(db, t, "waiting_user"), t, v.reply, k.rev), k,
              Shown(v, FALSE, TRUE, "waiting_user"))

(* A disposition is not applied while a question of the task is open.       *)
Applies(t, v) == v.kind \in {"await", "invalid"} /\ OpenPrompts(db, t) = {}
Projectable(s, e) ==
    LET v == stream[s][e] IN
    ~Muted(s, v) /\ s # "router" /\ Applies(s, v) =>
        IF v.kind = "await" THEN AwaitAccepted(s, e) ELSE InvalidAccepted(s)
Projection(s, e) ==
    LET v == stream[s][e]
        k == IF s = "router" THEN NoTask ELSE task[s]
    IN IF Muted(s, v) THEN Effect(db, k, Bare(v))
       ELSE IF s = "router" THEN Effect(db, k, Shown(v, v.kind = "text", FALSE, "none"))
       ELSE IF v.raw = "ASK" THEN AskEffect(s, v)
       ELSE IF v.kind = "text" THEN FinalEffect(s, v)
       ELSE IF ~Applies(s, v) THEN Effect(db, k, Bare(v))
       ELSE IF v.kind = "await" THEN AwaitEffect(s, e, v) ELSE InvalidEffect(s, v)
TaskAfter(s, f) == IF s = "router" THEN task ELSE [task EXCEPT ![s] = f.task]

BridgeReads(s) ==
    /\ pos[s] < Len(stream[s])
    /\ LET e == pos[s] + 1
           f == Projection(s, e)
       IN /\ Projectable(s, e) /\ ~AppendRefused(f.db, s, e, f.shown)
          /\ task' = TaskAfter(s, f)
          /\ db' = AppendBatch(f.db, s, e, f.shown)
          /\ pos' = [pos EXCEPT ![s] = e]
    /\ UNCHANGED <<work, behind, stream, runs, hand, halt, bus, crashes>>

-----------------------------------------------------------------------------
(* The program stops and starts again.  Runs, callbacks and coroutines are  *)
(* lost, claims are left to run out, a plan step without a result is given  *)
(* up, and the bridge repairs the conversation before it reads on.          *)
Abandoned(d) ==
    [d EXCEPT !.outbox = [k \in DOMAIN d.outbox |->
        IF d.outbox[k].status = "claimed" THEN [d.outbox[k] EXCEPT !.by = "dead"] ELSE d.outbox[k]]]
Repaired(d) == EndBackgroundTools(ReleaseStaleReplies(CloseResidues(Abandoned(d))))
Restarted(d) ==
    /\ crashes < MaxCrashes
    /\ crashes' = crashes + 1
    /\ db' = Repaired(d)
    /\ pos' = d.cursor
    /\ behind' = {}
    /\ work' = [t \in Tasks |-> IF work[t] \in {"running", "background"} THEN "failed" ELSE work[t]]
    /\ runs' = [s \in Sessions |-> NoRun]
    /\ hand' = [h \in Hands |-> NoHand]
    /\ halt' = NoHalt
    /\ bus' = [bus EXCEPT !.pc = "idle"]
Crash == Restarted(db) /\ UNCHANGED <<task, stream>>
(* The same between the projection of an event and its append, or between   *)
(* the task and the rest of the projection.                                 *)
BridgeDies(s) ==
    /\ pos[s] < Len(stream[s]) /\ Projectable(s, pos[s] + 1)
    /\ LET f == Projection(s, pos[s] + 1) IN
       /\ f.db # db
       /\ task' = TaskAfter(s, f)
       /\ \E d \in {db, f.db} : Restarted(d)
    /\ UNCHANGED stream
=============================================================================
