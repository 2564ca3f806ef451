--------------------------- MODULE TrainingWorker ---------------------------
(***************************************************************************)
(* The Training Worker of a node (training_worker/): its durable ledger    *)
(* and outbox, the threads of the daemon that use them, and the processes  *)
(* it launches.  Each stage of a run is trained by a child process under a *)
(* supervisor process; both survive a restart of the Worker and talk to it *)
(* only through files: the supervisor's state file, and the launch         *)
(* decision (commit or cancel) the Worker writes for it.                   *)
(*                                                                         *)
(* A step of a thread is one ledger transaction, one file read or write,   *)
(* or one process call.  Three threads touch runs: "act" carries out the   *)
(* center's actions, "mon" watches running processes every second, "main"  *)
(* reconciles the ledger once after every start of the Worker.  Updates    *)
(* that change no run state at the center (accepted, heartbeat, log,       *)
(* metric, checkpoint) are left out of the outbox.                         *)
(***************************************************************************)
EXTENDS TrainingCenter

CONSTANT
    Environments      \* the faults and schedules to explore, see env

ASSUME WorkerBoundAssumption ==
    Environments \subseteq
       [runs       : SUBSET Runs, \* the runs users create
        stops      : Nat,        \* bound on the stop actions they cause
        crashes    : Nat,        \* bound on crashes of the Worker process
        deaths     : Nat,        \* bound on supervisors killed from outside
        launches   : Nat,        \* bound on supervisor processes ever started
        lossy      : BOOLEAN,    \* may an HTTP call or its answer be lost?
        slow       : BOOLEAN,    \* may a supervisor take longer than 10 s to act?
        races      : BOOLEAN,    \* may two enqueue_update calls overlap?
        main_first : BOOLEAN]    \* does main reconcile before the other threads begin?

VARIABLES
    ledger,    \* ledger[r]: row of worker_runs
    outbox,    \* outbox[r]: rows of worker_run_updates
    file,      \* file[r][n]: state file of the supervisor of stage n
    decision,  \* decision[r][n]: launch-commit file of stage n
    sups,      \* supervisor processes ever started; the index is the pid
    th,        \* th[t]: where thread t stands, with its local variables
    crashes,   \* how often the Worker process has ended, as far as it is counted
    deaths,    \* supervisors killed from outside
    env        \* what may happen to the node; fixed in a behaviour

workerVars == <<ledger, outbox, file, decision, sups, th, crashes, deaths>>

Threads == {"act", "mon", "main"}
LedgerStates == {"absent", "accepted", "running", "stopping",
                 "succeeded", "failed", "cancelled", "unknown"}
ActiveStates == {"running", "stopping"}

NoUpdate == [kind |-> "none", stage |-> 0, status |-> "none"]
NoFile == [status |-> "none", token |-> 0, pid |-> 0, code |-> "none"]
NoDecision == [token |-> 0, what |-> "none"]
NoRow == [state |-> "absent", stage |-> 0, token |-> 0, pid |-> 0, seq |-> 0]

(* Local variables of a thread.  pc: next step; then: step after an         *)
(* enqueue; todo: runs main has not reconciled yet; run, stage: row dealt   *)
(* with; upd, k: the update being enqueued and the number read for it; id,  *)
(* claim: the center's action; pid: the supervisor; flag: a resumed launch, *)
(* a stop of a launch, or a matched probe; res: result or state to write.   *)
Idle == [pc |-> "idle", then |-> "idle", todo |-> {}, run |-> None, stage |-> 0,
         upd |-> NoUpdate, k |-> 0, id |-> 0, claim |-> 0, pid |-> 0,
         flag |-> FALSE, res |-> "none"]

(* The threads of a Worker that has just started.                           *)
Started == [t \in Threads |-> IF t = "main" THEN [Idle EXCEPT !.todo = env.runs] ELSE Idle]

WorkerInit ==
    /\ env \in Environments
    /\ ledger = [r \in Runs |-> NoRow]
    /\ outbox = [r \in Runs |-> {}]
    /\ file = [r \in Runs |-> [n \in StagesOf(r) |-> NoFile]]
    /\ decision = [r \in Runs |-> [n \in StagesOf(r) |-> NoDecision]]
    /\ sups = << >>
    /\ th = Started
    /\ crashes = 0
    /\ deaths = 0

SupAlive(p) == p \in DOMAIN sups /\ sups[p].st # "gone"
ChildAlive(p) == p \in DOMAIN sups /\ sups[p].child = "alive"

SetLedger(r, st) == ledger' = [ledger EXCEPT ![r].state = st]

(* Thread t goes on at step pc; at "idle" it forgets its local variables.   *)
Local(t, pc) == IF pc = "idle" THEN [Idle EXCEPT !.todo = th[t].todo \ {th[t].run}]
                ELSE [th[t] EXCEPT !.pc = pc, !.then = "idle", !.upd = NoUpdate, !.k = 0]
Go(t, pc) == th' = [th EXCEPT ![t] = Local(t, pc)]

(* run_forever starts the other threads before main reconciles; the tamer    *)
(* schedule main_first lets main finish before they do anything.         *)
ThreadsMayRun == env.main_first => th["main"] = Idle

(* The Worker process ends, and systemd starts it again.  An end by an        *)
(* exception of the main thread is counted only when it is the first: it    *)
(* uses up nothing of the bound on crashes and may repeat for ever.         *)
ProcessEnds ==
    /\ th' = Started
    /\ crashes' = IF crashes = 0 THEN 1 ELSE crashes

(* A supervisor has a step of its own to take.                               *)
SupervisorBusy(p) ==
    LET d == decision[sups[p].run][sups[p].stage] IN
    \/ sups[p].st \in {"boot", "decided"}
    \/ sups[p].st = "waiting" /\ d.token = sups[p].token /\ d.what # "none"

(* The action thread waits up to 10 s for a supervisor, and a restart of the *)
(* Worker or an expired claim takes longer than that.  Unless the node is    *)
(* slow, a supervisor left behind has settled when the thread polls again.   *)
SupervisorsSettled == env.slow \/ \A p \in DOMAIN sups : ~SupervisorBusy(p)

(* Thread t begins to enqueue update u of run r, to go on at step pc.       *)
Enqueue(t, r, u, pc) ==
    th' = [th EXCEPT ![t].pc = "enqueue", ![t].run = r, ![t].upd = u, ![t].then = pc]

-----------------------------------------------------------------------------
(* ledger.enqueue_update: the number is read before the transaction that    *)
(* stores the update begins.                                                *)

EnqueueRead(t) ==
    /\ th[t].pc = "enqueue" /\ th[t].k = 0
    /\ env.races \/ \A s \in Threads : th[s].k = 0
    /\ th' = [th EXCEPT ![t].k = ledger[th[t].run].seq + 1]
    /\ UNCHANGED <<centerVars, ledger, outbox, file, decision, sups, crashes, deaths>>

(* A number still waiting in the outbox violates its UNIQUE constraint: the *)
(* transaction rolls back and the exception ends the action or the tick,    *)
(* and in the main thread the whole process.                                *)
EnqueueWrite(t) ==
    LET r == th[t].run  k == th[t].k IN
    /\ th[t].pc = "enqueue" /\ k > 0
    /\ IF \E e \in outbox[r] : e.k = k
       THEN /\ IF t = "main" THEN ProcessEnds
                             ELSE th' = [th EXCEPT ![t] = Idle] /\ UNCHANGED crashes
            /\ UNCHANGED <<ledger, outbox>>
       ELSE /\ ledger' = [ledger EXCEPT ![r].seq = k]
            /\ outbox' = [outbox EXCEPT ![r] = @ \cup {[k |-> k, u |-> th[t].upd]}]
            /\ Go(t, th[t].then)
            /\ UNCHANGED crashes
    /\ UNCHANGED <<centerVars, file, decision, sups, deaths>>

(* _flush sends the oldest waiting update; an answer acknowledges it.       *)
Oldest(r, e) == e \in outbox[r] /\ \A f \in outbox[r] : e.k <= f.k

(* A faulty Acknowledge: one update too many is forgotten.                   *)
AcknowledgeOneMore(r, k) == outbox' = [outbox EXCEPT ![r] = {e \in @ : e.k > k + 1}]

Acknowledge(r, k) == outbox' = [outbox EXCEPT ![r] = {e \in @ : e.k > k}]

-----------------------------------------------------------------------------
(* _observe_supervisor, for the row that thread t read earlier: the state   *)
(* file of the row's stage is read; the supervisor it names is judged, and  *)
(* the verdict written to the ledger; then the row is read again and the    *)
(* verdict enqueued for the stage it has by now.  What the thread read, and *)
(* then its verdict, is kept in res, the supervisor in pid.                 *)

(* A faulty ExitStatus: the exit code is ignored.                            *)
ExitStatusAlwaysGood(code) == "succeeded"

ExitStatus(code) == IF code = "ok" THEN "succeeded" ELSE "failed"

(* Where thread t goes on when it has observed a supervisor.                *)
Observed(t) == CASE t = "act" -> "ok" [] t = "mon" -> "idle" [] t = "main" -> "list"

ObserveRead(t) ==
    LET f == file[th[t].run][th[t].stage] IN
    /\ th[t].pc = "observe"
    /\ IF f.status = "none" THEN Go(t, Observed(t))
       ELSE th' = [th EXCEPT ![t].pc = "judge", ![t].pid = f.pid,
                             ![t].res = IF f.status = "exited" THEN ExitStatus(f.code)
                                                               ELSE f.status]
    /\ UNCHANGED <<centerVars, ledger, outbox, file, decision, sups, crashes, deaths>>

(* A state file that had no child yet names no child to look for.           *)
WhatIsLeft(x) == IF x.res = "running" /\ ChildAlive(x.pid) THEN "unresolved" ELSE "lost"

(* A faulty Judge: an exit is recorded and not reported.                     *)
JudgeSilently(t) ==
    LET x == th[t]  r == x.run IN
    /\ x.pc = "judge"
    /\ \/ /\ x.res \in {"succeeded", "failed"}
          /\ SetLedger(r, x.res)
          /\ Go(t, Observed(t))
       \/ /\ x.res \in {"waiting", "running"} /\ ~SupAlive(x.pid)
          /\ SetLedger(r, "unknown")
          /\ th' = [th EXCEPT ![t].pc = "report", ![t].res = WhatIsLeft(x)]
       \/ /\ x.res \in {"waiting", "running"} /\ SupAlive(x.pid)
          /\ Go(t, Observed(t))
          /\ UNCHANGED ledger
    /\ UNCHANGED <<centerVars, outbox, file, decision, sups, crashes, deaths>>

Judge(t) ==
    LET x == th[t]  r == x.run IN
    /\ x.pc = "judge"
    /\ \/ /\ x.res \in {"succeeded", "failed"}
          /\ SetLedger(r, x.res)
          /\ th' = [th EXCEPT ![t].pc = "report"]
       \/ /\ x.res \in {"waiting", "running"} /\ ~SupAlive(x.pid)
          /\ SetLedger(r, "unknown")
          /\ th' = [th EXCEPT ![t].pc = "report", ![t].res = WhatIsLeft(x)]
       \/ /\ x.res \in {"waiting", "running"} /\ SupAlive(x.pid)
          /\ Go(t, Observed(t))
          /\ UNCHANGED ledger
    /\ UNCHANGED <<centerVars, outbox, file, decision, sups, crashes, deaths>>

(* The update that tells the center of verdict st on stage n.               *)
News(st, n) == [kind |-> IF st \in {"unresolved", "lost"} THEN "reconciliation" ELSE "exited",
                stage |-> n, status |-> st]

Report(t) ==
    /\ th[t].pc = "report"
    /\ Enqueue(t, th[t].run, News(th[t].res, ledger[th[t].run].stage), Observed(t))
    /\ UNCHANGED <<centerVars, ledger, outbox, file, decision, sups, crashes, deaths>>

(* Thread t reads the row of r from list_active_runs and goes on at pc.     *)
ReadRow(t, r, pc) ==
    th' = [th EXCEPT ![t].pc = pc, ![t].run = r, ![t].stage = ledger[r].stage]

(* tick: list the active runs, then observe each of them.                   *)
MonitorList(r) ==
    /\ th["mon"].pc = "idle"
    /\ ThreadsMayRun
    /\ ledger[r].state \in ActiveStates
    /\ ReadRow("mon", r, "observe")
    /\ UNCHANGED <<centerVars, ledger, outbox, file, decision, sups, crashes, deaths>>

-----------------------------------------------------------------------------
(* reconciliation_updates, once per start of the Worker, in the main        *)
(* thread: observe the runs that are active, then list the active runs      *)
(* again, probe the supervisor of each, and write back the state it was     *)
(* listed with, or "unknown".  Runs are taken one after the other.          *)

MainList(r) ==
    /\ th["main"].pc = "idle" /\ r \in th["main"].todo
    /\ ReadRow("main", r, IF ledger[r].state \in ActiveStates THEN "observe" ELSE "list")
    /\ UNCHANGED <<centerVars, ledger, outbox, file, decision, sups, crashes, deaths>>

MainRelist ==
    LET r == th["main"].run IN
    /\ th["main"].pc = "list"
    /\ IF ledger[r].state \in ActiveStates
       THEN th' = [th EXCEPT !["main"].pc = "probe", !["main"].pid = ledger[r].pid,
                             !["main"].res = ledger[r].state]
       ELSE Go("main", "idle")
    /\ UNCHANGED <<centerVars, ledger, outbox, file, decision, sups, crashes, deaths>>

(* A listed run without a pid (a launch stopped before its supervisor was   *)
(* known) raises TypeError, which ends the process; it is started again.    *)
MainProbe ==
    /\ th["main"].pc = "probe"
    /\ IF th["main"].pid = 0 THEN ProcessEnds
       ELSE /\ th' = [th EXCEPT !["main"].pc = "write",
                                !["main"].flag = SupAlive(th["main"].pid)]
            /\ UNCHANGED crashes
    /\ UNCHANGED <<centerVars, ledger, outbox, file, decision, sups, deaths>>

MainWrite ==
    LET m == th["main"] IN
    /\ m.pc = "write"
    /\ SetLedger(m.run, IF m.flag THEN m.res ELSE "unknown")
    /\ th' = [th EXCEPT !["main"].pc = "reconcile"]
    /\ UNCHANGED <<centerVars, outbox, file, decision, sups, crashes, deaths>>

(* Then the row is read again; when the supervisor was missing, the state   *)
(* file of the stage it has by now tells whether a child is left.           *)
MainReport ==
    LET m == th["main"]
        n == ledger[m.run].stage
        f == file[m.run][n]
    IN
    /\ m.pc = "reconcile"
    /\ Enqueue("main", m.run,
               [kind |-> "reconciliation", stage |-> n,
                status |-> IF m.flag THEN "running"
                           ELSE IF f.status \in {"running", "exited"} /\ ChildAlive(f.pid)
                                THEN "unresolved" ELSE "lost"],
               "idle")
    /\ UNCHANGED <<centerVars, ledger, outbox, file, decision, sups, crashes, deaths>>

-----------------------------------------------------------------------------
(* The action thread: handle_action.  TakeAction receives action i of the   *)
(* center with its claim; Publish (in TrainingSystem) sends the result.     *)

Finish(res) == th' = [th EXCEPT !["act"].pc = "publish", !["act"].res = res]

TakeAction(i, claim, kind, r, n) ==
    /\ th["act"].pc = "idle"
    /\ th' = [th EXCEPT !["act"] = [Idle EXCEPT !.pc = kind, !.id = i, !.claim = claim,
                                                !.run = r, !.stage = n]]
    /\ UNCHANGED <<ledger, outbox, file, decision, sups, crashes, deaths>>

(* The child of supervisor p ends with code c; a supervisor that is alive   *)
(* records it in its state file and ends too.                               *)
ChildEnds(p, c) ==
    LET s == sups[p] IN
    /\ sups' = [sups EXCEPT ![p].child = c, ![p].st = "gone"]
    /\ file' = IF s.st = "running"
               THEN [file EXCEPT ![s.run][s.stage] =
                       [status |-> "exited", token |-> s.token, pid |-> p, code |-> c]]
               ELSE file

(* _terminate_failed_supervisor: the supervisor gets SIGTERM, and SIGKILL   *)
(* two seconds later.  One that has read "commit" may be past the place     *)
(* where SIGTERM stops it: its child starts, and outlives it.               *)
Terminate(p) ==
    \/ /\ sups' = [sups EXCEPT ![p].st = "gone"]
       /\ UNCHANGED file
    \/ /\ sups[p].st = "decided"
       /\ sups' = [sups EXCEPT ![p].st = "gone", ![p].child = "alive"]
       /\ file' = [file EXCEPT ![sups[p].run][sups[p].stage] =
                     [status |-> "running", token |-> sups[p].token, pid |-> p, code |-> "none"]]

(* The same, when the state file it was judged by names a child: that child *)
(* is killed first, whoever its supervisor is.                              *)
TerminateWithChild(p, f) ==
    IF f.status = "running" /\ ChildAlive(f.pid)
    THEN /\ sups' = [sups EXCEPT ![p].st = "gone", ![f.pid].st = "gone",
                                 ![f.pid].child = "bad"]
         /\ file' = IF SupAlive(f.pid)
                    THEN [file EXCEPT ![sups[f.pid].run][sups[f.pid].stage] =
                            [f EXCEPT !.status = "exited", !.code = "bad"]]
                    ELSE file
    ELSE Terminate(p)

(* The row that record_process_observation writes for a launch: the token   *)
(* of an accepted launch is kept, any other is one the run has not had.     *)
LaunchRow(row, n) ==
    [row EXCEPT !.state = "accepted", !.stage = n, !.pid = 0,
                !.token = IF row.state = "accepted" THEN @ ELSE @ + 1]

SameLaunch(row, n) == row.stage = n /\ row.state = "accepted"

(* _start: decide from the row of the run; go on to resume an accepted      *)
(* launch, or prepare a new one.  LaunchFails: a check of the node, or the  *)
(* call that starts the supervisor, fails.                                  *)
StartDecide ==
    LET a == th["act"]  row == ledger[a.run] IN
    /\ a.pc = "start"
    /\ \/ row.stage = a.stage /\ row.state = "running" /\ Finish("succeeded")
       \/ SameLaunch(row, a.stage) /\ Go("act", "resume")
       \/ /\ row.state \in ActiveStates
          /\ ~(row.stage = a.stage /\ row.state = "running")
          /\ Finish("failed")
       \/ /\ row.state \notin ActiveStates /\ ~SameLaunch(row, a.stage)
          /\ Go("act", "prepare")
    /\ UNCHANGED <<centerVars, ledger, outbox, file, decision, sups, crashes, deaths>>

LaunchFails ==
    /\ th["act"].pc \in {"prepare", "spawn"}
    /\ Finish("failed")
    /\ UNCHANGED <<centerVars, ledger, outbox, file, decision, sups, crashes, deaths>>

RecordLaunch ==
    LET a == th["act"] IN
    /\ a.pc = "prepare"
    /\ ledger' = [ledger EXCEPT ![a.run] = LaunchRow(@, a.stage)]
    /\ Go("act", "spawn")
    /\ UNCHANGED <<centerVars, outbox, file, decision, sups, crashes, deaths>>

SpawnSupervisor ==
    LET a == th["act"] IN
    /\ a.pc = "spawn"
    /\ Len(sups) < env.launches
    /\ sups' = Append(sups, [run |-> a.run, stage |-> a.stage, st |-> "boot",
                             token |-> ledger[a.run].token, child |-> "none"])
    /\ th' = [th EXCEPT !["act"].pc = "await", !["act"].pid = Len(sups) + 1]
    /\ UNCHANGED <<centerVars, ledger, outbox, file, decision, crashes, deaths>>

(* _wait_for_supervisor returns the first state file it sees; a file of     *)
(* another launch or of another supervisor ends the attempt.                *)
AwaitSupervisor ==
    LET a == th["act"]  f == file[a.run][a.stage] IN
    /\ a.pc = "await"
    /\ f.status # "none"
    /\ IF f.token = ledger[a.run].token /\ f.pid = a.pid
       THEN Go("act", "attach") /\ UNCHANGED <<sups, file>>
       ELSE Finish("failed") /\ TerminateWithChild(a.pid, f)
    /\ UNCHANGED <<centerVars, ledger, outbox, decision, crashes, deaths>>

AwaitFails ==
    LET a == th["act"] IN
    /\ a.pc = "await"
    /\ file[a.run][a.stage].status = "none"
    /\ ~SupAlive(a.pid) \/ env.slow
    /\ Finish("failed")
    /\ Terminate(a.pid)
    /\ UNCHANGED <<centerVars, ledger, outbox, decision, crashes, deaths>>

(* attach_launch_supervisor; when the row is no longer accepted a new       *)
(* launch fails, a resumed one ends with an exception and no result.        *)
Attach ==
    LET a == th["act"] IN
    /\ a.pc = "attach"
    /\ \/ /\ ledger[a.run].state = "accepted"
          /\ ledger' = [ledger EXCEPT ![a.run].pid = a.pid]
          /\ Go("act", "commit")
          /\ UNCHANGED <<sups, file>>
       \/ /\ ledger[a.run].state # "accepted"
          /\ IF a.flag THEN Go("act", "idle") /\ UNCHANGED <<sups, file>>
                       ELSE Finish("failed") /\ TerminateWithChild(a.pid, file[a.run][a.stage])
          /\ UNCHANGED ledger
    /\ UNCHANGED <<centerVars, outbox, decision, crashes, deaths>>

WriteCommit ==
    LET a == th["act"] IN
    /\ a.pc = "commit"
    /\ decision' = [decision EXCEPT ![a.run][a.stage] =
                      [token |-> ledger[a.run].token, what |-> "commit"]]
    /\ Go("act", "launched")
    /\ UNCHANGED <<centerVars, ledger, outbox, file, sups, crashes, deaths>>

(* _wait_for_training_start: a supervisor of this process that has ended    *)
(* counts as started; a resumed launch can only look at the file.           *)
AwaitTraining ==
    LET a == th["act"]  f == file[a.run][a.stage] IN
    /\ a.pc = "launched"
    /\ \/ f.status \in {"running", "exited"} /\ f.token = ledger[a.run].token
       \/ ~a.flag /\ ~SupAlive(a.pid)
    /\ Go("act", "setRunning")
    /\ UNCHANGED <<centerVars, ledger, outbox, file, decision, sups, crashes, deaths>>

AwaitTrainingFails ==
    LET a == th["act"]  f == file[a.run][a.stage] IN
    /\ a.pc = "launched"
    /\ f.status \notin {"running", "exited"}
    /\ \/ /\ a.flag /\ (env.slow \/ ~SupAlive(f.pid))
          /\ Finish("unresolved") /\ UNCHANGED <<sups, file>>
       \/ /\ ~a.flag /\ env.slow /\ SupAlive(a.pid)
          /\ Finish("failed") /\ Terminate(a.pid)
    /\ UNCHANGED <<centerVars, ledger, outbox, decision, crashes, deaths>>

(* The row becomes running and "started" is enqueued; a resumed launch then *)
(* observes its supervisor.                                                 *)
SetRunning ==
    LET a == th["act"] IN
    /\ a.pc = "setRunning"
    /\ SetLedger(a.run, "running")
    /\ Enqueue("act", a.run, [kind |-> "started", stage |-> a.stage, status |-> "none"],
               IF a.flag THEN "observe" ELSE "ok")
    /\ UNCHANGED <<centerVars, outbox, file, decision, sups, crashes, deaths>>

ActOk ==
    /\ th["act"].pc = "ok"
    /\ Finish("succeeded")
    /\ UNCHANGED <<centerVars, ledger, outbox, file, decision, sups, crashes, deaths>>

-----------------------------------------------------------------------------
(* _resume_launch_intent: what became of a launch that was recorded before  *)
(* the Worker stopped, judged from the supervisor's state file.             *)

Relaunch(r, n) ==
    \/ file[r][n].status = "none" /\ ~SupAlive(ledger[r].pid)
    \/ /\ file[r][n].status = "waiting"
       /\ file[r][n].token = ledger[r].token
       /\ ~SupAlive(file[r][n].pid)

LaunchUnresolved(r, n) ==
    LET f == file[r][n] IN
    \/ f.status = "none" /\ SupAlive(ledger[r].pid)
    \/ f.status # "none" /\ f.token # ledger[r].token
    \/ f.status = "running" /\ ~SupAlive(f.pid)

ResumeRelaunch ==
    LET a == th["act"] IN
    /\ a.pc = "resume"
    /\ Relaunch(a.run, a.stage)
    /\ file' = [file EXCEPT ![a.run][a.stage] = NoFile]
    /\ Go("act", "prepare")
    /\ UNCHANGED <<centerVars, ledger, outbox, decision, sups, crashes, deaths>>

ResumeUnresolved ==
    LET a == th["act"] IN
    /\ a.pc = "resume"
    /\ LaunchUnresolved(a.run, a.stage)
    /\ Finish("unresolved")
    /\ UNCHANGED <<centerVars, ledger, outbox, file, decision, sups, crashes, deaths>>

ResumeLaunch ==
    LET a == th["act"]  f == file[a.run][a.stage] IN
    /\ a.pc = "resume"
    /\ f.status # "none" /\ f.token = ledger[a.run].token
    /\ f.status = "exited" \/ SupAlive(f.pid)
    /\ th' = [th EXCEPT !["act"].flag = TRUE, !["act"].pid = f.pid,
                        !["act"].pc = IF f.status = "exited" THEN "setRunning" ELSE "attach"]
    /\ UNCHANGED <<centerVars, ledger, outbox, file, decision, sups, crashes, deaths>>

-----------------------------------------------------------------------------
(* _stop                                                                    *)

StopDecide ==
    LET a == th["act"]  row == ledger[a.run] IN
    /\ a.pc = "stop"
    /\ \/ row.state = "cancelled" /\ Finish("succeeded") /\ UNCHANGED ledger
       \/ /\ row.state \notin {"cancelled", "accepted", "running", "stopping"}
          /\ Finish("failed") /\ UNCHANGED ledger
       \/ /\ row.state \in {"accepted", "running", "stopping"}
          /\ SetLedger(a.run, "stopping")
          /\ th' = [th EXCEPT !["act"].pc = "stopRead", !["act"].stage = row.stage,
                              !["act"].flag = (row.state = "accepted")]
    /\ UNCHANGED <<centerVars, outbox, file, decision, sups, crashes, deaths>>

(* The child to kill is the one the state file names now, before the cancel *)
(* decision is written.                                                     *)
StopRead ==
    LET a == th["act"]  f == file[a.run][a.stage] IN
    /\ a.pc = "stopRead"
    /\ th' = [th EXCEPT !["act"].pc = IF a.flag THEN "stopCancel" ELSE "stopKill",
                        !["act"].pid = IF f.status \in {"running", "exited"} THEN f.pid ELSE 0]
    /\ UNCHANGED <<centerVars, ledger, outbox, file, decision, sups, crashes, deaths>>

WriteCancel ==
    LET a == th["act"] IN
    /\ a.pc = "stopCancel"
    /\ decision' = [decision EXCEPT ![a.run][a.stage] =
                      [token |-> ledger[a.run].token, what |-> "cancel"]]
    /\ Go("act", "stopKill")
    /\ UNCHANGED <<centerVars, ledger, outbox, file, sups, crashes, deaths>>

(* A faulty StopKill: the process group is not killed.                       *)
StopKillForgotten ==
    /\ th["act"].pc = "stopKill"
    /\ Go("act", "stopped")
    /\ UNCHANGED <<centerVars, ledger, outbox, file, decision, sups, crashes, deaths>>

(* SIGTERM, and SIGKILL when the child is still there after the timeout: a  *)
(* child that handles SIGTERM may end with either exit code.                *)
StopKill ==
    LET a == th["act"] IN
    /\ a.pc = "stopKill"
    /\ IF ChildAlive(a.pid) THEN \E c \in {"ok", "bad"} : ChildEnds(a.pid, c)
                            ELSE UNCHANGED <<sups, file>>
    /\ Go("act", "stopped")
    /\ UNCHANGED <<centerVars, ledger, outbox, decision, crashes, deaths>>

StopRecord ==
    LET a == th["act"] IN
    /\ a.pc = "stopped"
    /\ SetLedger(a.run, "cancelled")
    /\ th' = [th EXCEPT !["act"].pc = "report", !["act"].res = "cancelled"]
    /\ UNCHANGED <<centerVars, outbox, file, decision, sups, crashes, deaths>>

-----------------------------------------------------------------------------
(* run_supervisor.  The stage's lock file lets one supervisor past "boot".  *)

SupervisorBoot(p) ==
    LET s == sups[p]
        locked == \E q \in DOMAIN sups : /\ sups[q].run = s.run /\ sups[q].stage = s.stage
                                         /\ sups[q].st \in {"waiting", "decided", "running"}
    IN
    /\ s.st = "boot"
    /\ sups' = [sups EXCEPT ![p].st = IF locked THEN "gone" ELSE "waiting"]
    /\ file' = IF locked THEN file
               ELSE [file EXCEPT ![s.run][s.stage] =
                       [status |-> "waiting", token |-> s.token, pid |-> p, code |-> "none"]]
    /\ UNCHANGED <<centerVars, ledger, outbox, decision, th, crashes, deaths>>

SupervisorDecide(p) ==
    LET s == sups[p]  d == decision[s.run][s.stage] IN
    /\ s.st = "waiting"
    /\ d.token = s.token /\ d.what # "none"
    /\ sups' = [sups EXCEPT ![p].st = IF d.what = "commit" THEN "decided" ELSE "gone"]
    /\ UNCHANGED <<centerVars, ledger, outbox, file, decision, th, crashes, deaths>>

(* A faulty SupervisorSpawn: the supervisor does not wait for its child.     *)
SupervisorSpawnDetached(p) ==
    LET s == sups[p] IN
    /\ s.st = "decided"
    /\ sups' = [sups EXCEPT ![p].st = "gone", ![p].child = "alive"]
    /\ file' = [file EXCEPT ![s.run][s.stage] =
                  [status |-> "running", token |-> s.token, pid |-> p, code |-> "none"]]
    /\ UNCHANGED <<centerVars, ledger, outbox, decision, th, crashes, deaths>>

SupervisorSpawn(p) ==
    LET s == sups[p] IN
    /\ s.st = "decided"
    /\ sups' = [sups EXCEPT ![p].st = "running", ![p].child = "alive"]
    /\ file' = [file EXCEPT ![s.run][s.stage] =
                  [status |-> "running", token |-> s.token, pid |-> p, code |-> "none"]]
    /\ UNCHANGED <<centerVars, ledger, outbox, decision, th, crashes, deaths>>

ChildExits(p, c) ==
    /\ ChildAlive(p)
    /\ ChildEnds(p, c)
    /\ UNCHANGED <<centerVars, ledger, outbox, decision, th, crashes, deaths>>

-----------------------------------------------------------------------------
(* Failures of the node: the supervisor is killed, or the Worker process    *)
(* ends and is started again by systemd.                                    *)

SupervisorKilled(p) ==
    /\ SupAlive(p)
    /\ deaths < env.deaths
    /\ deaths' = deaths + 1
    /\ sups' = [sups EXCEPT ![p].st = "gone"]
    /\ UNCHANGED <<centerVars, ledger, outbox, file, decision, th, crashes>>

WorkerCrash ==
    /\ crashes < env.crashes
    /\ crashes' = crashes + 1
    /\ th' = Started
    /\ UNCHANGED <<centerVars, ledger, outbox, file, decision, sups, deaths>>
=============================================================================
