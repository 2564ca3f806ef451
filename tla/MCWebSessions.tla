--------------------------- MODULE MCWebSessions ---------------------------
(* Conversations explored one by one.  "delegate": the user's message makes *)
(* the Router start a task, whose agent runs and answers, while calls fail  *)
(* or the program restarts.  "behind": a tool goes on in the background and *)
(* the agent reports when it ends.  "ask": the agent asks, the user answers *)
(* while the program restarts.  "control": the user stops, cancels or       *)
(* continues the task; "late": so he continues it when an operation in the  *)
(* background has just woken the agent.  "hint": the workbench wakes it.    *)
EXTENDS AgentDelegation, TLC, SequencesExt

CONSTANTS Scenarios, MaxLag, t1, t2

VARIABLE scenario

mcVars == <<scenario, webVars>>

Case(what, tasks, turns, replies, cr, fails, kinds, outcomes) ==
    [what |-> what, tasks |-> tasks, turns |-> turns, replies |-> replies, crashes |-> cr, faulty |-> fails,
     kinds |-> kinds, outcomes |-> outcomes]

MCScenarios ==
    {Case("delegate", {t1}, 1, 1, 1, TRUE, Kinds, Outcomes),
     Case("behind", {t1}, 2, 2, 1, FALSE, {"text"}, {"completed"}),
     Case("ask", {t1}, 3, 2, 1, TRUE, {"text"}, {}),
     Case("control", {t1, t2}, 2, 2, 1, FALSE, {"text", "await"}, {}),
     Case("control", {t1}, 2, 2, 1, TRUE, {"text", "silent"}, {"completed"}),
     Case("control", {t1}, 3, 3, 0, FALSE, {"text", "silent"}, {"completed"}),
     Case("late", {t1}, 2, 2, 0, TRUE, {"text", "await"}, {"partial"}),
     Case("halt", {t1}, 2, 2, 1, TRUE, {"text"}, {"completed"}),
     Case("hint", {t1}, 2, 2, 1, TRUE, {"text", "await", "invalid"}, {})}


(* A conversation whose first turn was handed over: the Router's run is     *)
(* over and the agent of the task is about to start.                        *)
Delegated ==
    /\ db = [turns   |-> <<[Turn("user", 1, "navigation") EXCEPT !.run = "running"]>>,
             bound   |-> [s \in Sessions |-> IF s \in {"router", t1} THEN 1 ELSE 0],
             cursor  |-> [s \in Sessions |-> IF s = "router" THEN 4 ELSE 0],
             replies |-> <<Lease(1, "router", 1, "running"), Lease(1, t1, 0, "pending")>>,
             tools   |-> (<<1, "router", 1>> :> "running"),
             binding |-> [t \in Tasks |-> IF t = t1 THEN [status |-> "active", slot |-> "open", wait |-> 0]
                                               ELSE NoBinding],
             prompts |-> <<>>,
             outbox  |-> (<<"start", t1, 0>> :>
                             [Item("completed", 1, NoEvent) EXCEPT !.tries = 1]),
             shown   |-> {}]
    /\ task = [t \in Tasks |-> IF t = t1 THEN [status |-> "active", rev |-> 1] ELSE NoTask]
    /\ stream = [s \in Sessions |-> IF s # "router" THEN <<>>
                    ELSE <<Began(1), Tool(1, "running"), Tool(1, "completed"), Ended(1, "silent")>>]
    /\ pos = [s \in Sessions |-> IF s = "router" THEN 4 ELSE 0]
    /\ runs = [s \in Sessions |-> IF s # t1 THEN NoRun
                                  ELSE [NoRun EXCEPT !.pc = "start", !.turn = 1, !.lease = 2]]
    /\ work = [t \in Tasks |-> "none"] /\ behind = {} /\ crashes = 0
    /\ hand = [h \in Hands |-> NoHand] /\ halt = NoHalt /\ bus = NoBus

MCInit ==
    /\ scenario \in Scenarios
    /\ IF scenario.what = "delegate" THEN RuntimeInit ELSE Delegated
    /\ faulty = scenario.faulty

Bounds ==
    /\ Len(db'.turns) <= scenario.turns /\ crashes' <= scenario.crashes
    /\ \A s \in Sessions :
          /\ Len(stream'[s]) - pos'[s] <= MaxLag
          /\ stream'[s] # stream[s] =>
                Replies(s)' <= scenario.replies /\ Last(stream'[s]).kind \in scenario.kinds \cup {"none"}
    /\ \A t \in Tasks : task'[t].status # "none" => t \in scenario.tasks
    /\ \A t \in Tasks : work'[t] \in Outcomes => work'[t] \in scenario.outcomes

In(whats, Act) ==
    scenario.what \in whats /\ UNCHANGED <<scenario, faulty>> /\ Act /\ Bounds

MCNext ==
    \/ In({"delegate", "behind", "ask", "control", "late", "halt"}, Users)
    \/ In({"halt"}, Interrupts)
    \/ In({"delegate", "behind", "ask", "control", "late"}, RouterRuns)
    \/ In({"delegate", "behind", "ask", "control", "late", "halt", "hint"}, AgentRuns)
    \/ In({"delegate", "halt"}, Tools)
    \/ In({"behind", "control", "late", "halt"}, LongTools)
    \/ In({"delegate", "behind", "ask", "control", "late", "halt", "hint"}, Bridges)
    \/ In({"delegate", "behind", "ask", "control", "late", "halt", "hint"}, Crashes)
    \/ In({"delegate", "control", "late"}, Starting)
    \/ In({"control", "late"}, Continuing)
    \/ In({"delegate", "control"}, StartingDies)
    \/ In({"control"}, ContinuingDies)
    \/ In({"control"}, Controlling)
    \/ In({"ask"}, Asking)
    \/ In({"ask"}, Answering)
    \/ In({"delegate", "behind", "ask", "control", "late", "halt", "hint"}, Recovering)
    \/ In({"behind", "ask"}, Replaying)
    \/ In({"ask"}, Resuming)
    \/ In({"behind", "late", "hint"}, Waking)
    \/ In({"hint"}, Hinting)

MCSpec == MCInit /\ [][MCNext]_mcVars
=============================================================================
