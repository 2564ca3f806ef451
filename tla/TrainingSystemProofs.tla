------------------------ MODULE TrainingSystemProofs ------------------------
(***************************************************************************)
(* Proofs about the center and the Worker the repository ships, together:  *)
(* for any number of runs, stages, GPUs and ports, and whatever faults the *)
(* environment allows.                                                     *)
(*                                                                         *)
(*   - the Worker sends only messages the center's API accepts, so every   *)
(*     promise of the center holds of the system;                          *)
(*   - no later stage of a run is trained before its first one has ended   *)
(*     well;                                                               *)
(*   - where no two enqueue_update calls overlap, the outbox never blocks; *)
(*   - a Worker that nothing has interrupted trains no stage twice.        *)
(*                                                                         *)
(* Nothing the Worker writes about a run - supervisor, state file, row of  *)
(* the ledger, update, action - mentions a later stage, or reports a good  *)
(* exit, unless a process of the run's first stage has ended well: that is *)
(* the inductive invariant of the second part.  The first part needs its   *)
(* other half, that whatever is written names a stage of the run's.  The   *)
(* last two have invariants of their own, NumbersInv and CalmInv.          *)
(***************************************************************************)
EXTENDS TrainingSystem, TrainingCenterProofs, SequenceFacts

-----------------------------------------------------------------------------
(* Rows are read field by field; all that is said of their type is which    *)
(* fields they have.                                                        *)
IsSupervisor(s) ==
    s = [run |-> s.run, stage |-> s.stage, st |-> s.st, token |-> s.token, child |-> s.child]
IsFile(f) == f = [status |-> f.status, token |-> f.token, pid |-> f.pid, code |-> f.code]
IsRow(w) ==
    w = [state |-> w.state, stage |-> w.stage, token |-> w.token, pid |-> w.pid, seq |-> w.seq]
IsThread(x) ==
    x = [pc |-> x.pc, then |-> x.then, todo |-> x.todo, run |-> x.run, stage |-> x.stage,
         upd |-> x.upd, k |-> x.k, id |-> x.id, claim |-> x.claim, pid |-> x.pid,
         flag |-> x.flag, res |-> x.res]

(* A stage after the first.                                                 *)
Later(n) == n > 1

(* The runs whose first stage a process has trained to a good end, and      *)
(* those the ledger has a row for.                                          *)
TrainedIn(ss) ==
    {r \in Runs : \E q \in DOMAIN ss : ss[q].run = r /\ ss[q].stage = 1 /\ ss[q].child = "ok"}
KnownIn(l) == {r \in Runs : l[r].state # "absent"}

(* Places of a thread at which its stage is one of its run's, and at which  *)
(* the ledger has a row for its run.                                        *)
StagePlaces == {"start", "resume", "prepare", "spawn", "await", "attach", "commit", "launched",
                "setRunning", "observe"}
KnownPlaces == {"enqueue", "observe", "judge", "report", "probe", "write", "reconcile",
                "resume", "spawn", "await", "attach", "commit", "launched", "setRunning",
                "stopRead", "stopCancel", "stopKill", "stopped"}

(* Places at which a thread holds a state it has read, or its verdict.      *)
ResultPlaces == {"judge", "report", "probe", "write"}
Verdicts == {"succeeded", "failed", "cancelled", "unresolved", "lost"}

(* What a state file says of its supervisor.                                *)
FileStates == {"none", "waiting", "running", "exited"}

(* What is written, when T are the trained runs and K the known ones.       *)
NewsOK(r, u, T) == u \in Updates(r) /\ (u.status = "succeeded" => r \in T)

SupervisorOK(s, T) ==
    /\ IsSupervisor(s)
    /\ s.run \in Runs /\ s.stage \in StagesOf(s.run)
    /\ Later(s.stage) => s.run \in T
    /\ s.st \in {"boot", "waiting", "decided"} => s.child = "none"

FileOK(r, f, T) == IsFile(f) /\ f.status \in FileStates /\ (f.code = "ok" => r \in T)

RowOK(r, w, T) ==
    /\ IsRow(w)
    /\ w.state # "absent" => w.stage \in StagesOf(r)
    /\ Later(w.stage) => r \in T

ResultOK(x, T) ==
    /\ x.res \notin {"absent", "accepted"}
    /\ x.pc = "report" => x.res \in Verdicts
    /\ x.pc \in {"judge", "report"} /\ x.res = "succeeded" => x.run \in T

ThreadOK(x, T, K) ==
    /\ IsThread(x)
    /\ x.pc # "idle" => x.run \in Runs
    /\ x.pc \in StagePlaces => x.stage \in StagesOf(x.run)
    /\ x.pc \in KnownPlaces => x.run \in K
    /\ x.pc = "enqueue" => /\ x.then \in {"idle", "list", "ok", "observe"}
                           /\ x.then = "observe" => x.stage \in StagesOf(x.run)
                           /\ NewsOK(x.run, x.upd, T)
    /\ x.pc \in ResultPlaces => ResultOK(x, T)
    /\ x.pc # "idle" /\ Later(x.stage) => x.run \in T

ActionOK(a, T) ==
    /\ a.kind = "start" => a.stage \in StagesOf(a.run)
    /\ Later(a.stage) => a.run \in T

SupsOK(ss, T) == IsSequence(ss) /\ \A p \in DOMAIN ss : SupervisorOK(ss[p], T)

FilesOK(ff, T) ==
    /\ ff = [r \in Runs |-> ff[r]]
    /\ \A r \in Runs : ff[r] = [n \in StagesOf(r) |-> ff[r][n]]
    /\ \A r \in Runs : \A n \in StagesOf(r) : FileOK(r, ff[r][n], T)

RowsOK(l, T) == l = [r \in Runs |-> l[r]] /\ \A r \in Runs : RowOK(r, l[r], T)

OutboxOK(o, T) ==
    /\ o = [r \in Runs |-> o[r]]
    /\ \A r \in Runs : \A e \in o[r] : NewsOK(r, e.u, T)

ThreadsOK(h, T, K) ==
    h = [t \in Threads |-> h[t]] /\ \A t \in Threads : ThreadOK(h[t], T, K)

ActionsOK(acts, T) == \A i \in DOMAIN acts : ActionOK(acts[i], T)

WorkerInv ==
    /\ SupsOK(sups, TrainedIn(sups))
    /\ FilesOK(file, TrainedIn(sups))
    /\ RowsOK(ledger, TrainedIn(sups))
    /\ OutboxOK(outbox, TrainedIn(sups))
    /\ ThreadsOK(th, TrainedIn(sups), KnownIn(ledger))

SystemInv ==
    CenterInv /\ WorkerInv /\ ActionsOK(actions, TrainedIn(sups)) /\ env \in Environments

-----------------------------------------------------------------------------
(* More trained runs and more known runs leave everything in order.         *)
LEMMA MoreIsFine ==
    ASSUME NEW T, NEW T2, T \subseteq T2, NEW K, NEW K2, K \subseteq K2
    PROVE  /\ \A ss : SupsOK(ss, T) => SupsOK(ss, T2)
           /\ \A ff : FilesOK(ff, T) => FilesOK(ff, T2)
           /\ \A l : RowsOK(l, T) => RowsOK(l, T2)
           /\ \A o : OutboxOK(o, T) => OutboxOK(o, T2)
           /\ \A h : ThreadsOK(h, T, K) => ThreadsOK(h, T2, K2)
           /\ \A acts : ActionsOK(acts, T) => ActionsOK(acts, T2)
<1>1. \A s : SupervisorOK(s, T) => SupervisorOK(s, T2)
  BY Zenon DEF SupervisorOK
<1>2. \A r, f : FileOK(r, f, T) => FileOK(r, f, T2)
  BY Zenon DEF FileOK
<1>3. \A r, w : RowOK(r, w, T) => RowOK(r, w, T2)
  BY Zenon DEF RowOK
<1>4. \A r, u : NewsOK(r, u, T) => NewsOK(r, u, T2)
  BY Zenon DEF NewsOK
<1>5. \A x : ThreadOK(x, T, K) => ThreadOK(x, T2, K2)
  BY <1>4, Zenon DEF ThreadOK, ResultOK
<1>6. \A a : ActionOK(a, T) => ActionOK(a, T2)
  BY Zenon DEF ActionOK
<1>7. \A ss : SupsOK(ss, T) => SupsOK(ss, T2)
  BY <1>1, Zenon DEF SupsOK
<1>8. \A ff : FilesOK(ff, T) => FilesOK(ff, T2)
  BY <1>2, Zenon DEF FilesOK
<1>9. \A l : RowsOK(l, T) => RowsOK(l, T2)
  BY <1>3, Zenon DEF RowsOK
<1>10. \A o : OutboxOK(o, T) => OutboxOK(o, T2)
  BY <1>4, Zenon DEF OutboxOK
<1>11. \A h : ThreadsOK(h, T, K) => ThreadsOK(h, T2, K2)
  BY <1>5, Zenon DEF ThreadsOK
<1>12. \A acts : ActionsOK(acts, T) => ActionsOK(acts, T2)
  BY <1>6, Zenon DEF ActionsOK
<1>. QED  BY <1>7, <1>8, <1>9, <1>10, <1>11, <1>12, Zenon

(* So it is enough to look at what a step changes.                          *)
LEMMA StepInOrder ==
    ASSUME WorkerInv, ActionsOK(actions, TrainedIn(sups)),
           TrainedIn(sups) \subseteq TrainedIn(sups'),
           KnownIn(ledger) \subseteq KnownIn(ledger'),
           sups' = sups \/ SupsOK(sups', TrainedIn(sups')),
           file' = file \/ FilesOK(file', TrainedIn(sups')),
           ledger' = ledger \/ RowsOK(ledger', TrainedIn(sups')),
           outbox' = outbox \/ OutboxOK(outbox', TrainedIn(sups')),
           th' = th \/ ThreadsOK(th', TrainedIn(sups'), KnownIn(ledger')),
           actions' = actions \/ ActionsOK(actions', TrainedIn(sups'))
    PROVE  WorkerInv' /\ ActionsOK(actions', TrainedIn(sups'))
<1>1. \A NT, NK : TrainedIn(sups) \subseteq NT /\ KnownIn(ledger) \subseteq NK =>
         /\ SupsOK(sups, NT) /\ FilesOK(file, NT) /\ RowsOK(ledger, NT) /\ OutboxOK(outbox, NT)
         /\ ThreadsOK(th, NT, NK) /\ ActionsOK(actions, NT)
  <2>1. ASSUME NEW NT, NEW NK, TrainedIn(sups) \subseteq NT, KnownIn(ledger) \subseteq NK
        PROVE  /\ SupsOK(sups, NT) /\ FilesOK(file, NT) /\ RowsOK(ledger, NT)
               /\ OutboxOK(outbox, NT) /\ ThreadsOK(th, NT, NK) /\ ActionsOK(actions, NT)
    BY <2>1, MoreIsFine, Zenon DEF WorkerInv
  <2>. QED  BY <2>1, Zenon
<1>2. /\ SupsOK(sups', TrainedIn(sups')) /\ FilesOK(file', TrainedIn(sups'))
      /\ RowsOK(ledger', TrainedIn(sups')) /\ OutboxOK(outbox', TrainedIn(sups'))
      /\ ThreadsOK(th', TrainedIn(sups'), KnownIn(ledger'))
      /\ ActionsOK(actions', TrainedIn(sups'))
  BY <1>1, Zenon
<1>. QED  BY <1>2, Zenon DEF WorkerInv

(* A stage of a run that is not a later one is the first.                   *)
LEMMA FirstOrLater ==
    ASSUME NEW r \in Runs, NEW n \in StagesOf(r), ~Later(n)
    PROVE  n = 1
BY StageCountAssumption DEF StagesOf, Later

-----------------------------------------------------------------------------
(* The steps of a thread.  y is thread x at another place, with other local *)
(* variables, but dealing with the same row.                                *)
Keeps(x, y) ==
    IsThread(y) /\ y.run = x.run /\ y.stage = x.stage /\ y.then = x.then /\ y.upd = x.upd

(* A thread that forgets its variables is in order, and so are all threads  *)
(* of a Worker that has just started.                                       *)
LEMMA IdleOK ==
    ASSUME NEW T, NEW K, NEW d
    PROVE  ThreadOK([Idle EXCEPT !.todo = d], T, K) /\ ThreadOK(Idle, T, K)
<1>0. IsThread(Idle) /\ Idle.pc = "idle"
  BY DEF IsThread, Idle
<1>1. IsThread([Idle EXCEPT !.todo = d]) /\ [Idle EXCEPT !.todo = d].pc = "idle"
  BY <1>0 DEF IsThread
<1>2. \A x : IsThread(x) /\ x.pc = "idle" => ThreadOK(x, T, K)
  BY DEF ThreadOK, StagePlaces, KnownPlaces, ResultPlaces
<1>3. ThreadOK(Idle, T, K)
  BY <1>0, <1>2, Zenon
<1>4. ThreadOK([Idle EXCEPT !.todo = d], T, K)
  BY <1>1, <1>2
<1>. QED  BY <1>3, <1>4

(* The threads of a Worker that has just started are in order.              *)
LEMMA StartedOK ==
    ASSUME NEW T, NEW K
    PROVE  ThreadsOK(Started, T, K)
<1>1. \A t \in Threads : Started[t] = [Idle EXCEPT !.todo = env.runs] \/ Started[t] = Idle
  BY DEF Started
<1>2. Started = [t \in Threads |-> Started[t]]
  BY Zenon DEF Started
<1>3. ThreadOK([Idle EXCEPT !.todo = env.runs], T, K) /\ ThreadOK(Idle, T, K)
  BY IdleOK
<1>4. \A t \in Threads : ThreadOK(Started[t], T, K)
  BY <1>1, <1>3
<1>. QED  BY <1>2, <1>4, Zenon DEF ThreadsOK

(* Replacing one thread by one that is in order.                            *)
LEMMA OneThread ==
    ASSUME NEW h, NEW T, NEW K, ThreadsOK(h, T, K), NEW t \in Threads, NEW y, ThreadOK(y, T, K)
    PROVE  ThreadsOK([h EXCEPT ![t] = y], T, K)
<1>1. \A s \in Threads : [h EXCEPT ![t] = y][s] = IF s = t THEN y ELSE h[s]
  BY Zenon DEF ThreadsOK
<1>2. [h EXCEPT ![t] = y] = [s \in Threads |-> [h EXCEPT ![t] = y][s]]
  BY Zenon DEF ThreadsOK
<1>. QED  BY <1>1, <1>2, Zenon DEF ThreadsOK

(* A thread that moves on with its row is in order at a place that asks     *)
(* nothing of the row that is not so.                                       *)
LEMMA MovedOK ==
    ASSUME NEW T, NEW K, NEW x, ThreadOK(x, T, K), x.pc # "idle", NEW y, Keeps(x, y),
           y.pc # "enqueue", y.pc \in ResultPlaces => ResultOK(y, T),
           y.pc \in StagePlaces => x.stage \in StagesOf(x.run),
           y.pc \in KnownPlaces => x.run \in K
    PROVE  ThreadOK(y, T, K)
BY Zenon DEF ThreadOK, Keeps

(* Go: the thread continues at pc, or is done.                              *)
LEMMA GoOK ==
    ASSUME NEW T, NEW K, ThreadsOK(th, T, K), NEW t \in Threads, NEW pc, Go(t, pc),
           th[t].pc # "idle", pc # "enqueue", pc \notin ResultPlaces,
           pc \in StagePlaces => th[t].stage \in StagesOf(th[t].run),
           pc \in KnownPlaces => th[t].run \in K
    PROVE  ThreadsOK(th', T, K)
<1>. DEFINE x == th[t]
            a == [x EXCEPT !.pc = pc]
            b == [a EXCEPT !.then = "idle"]
            c == [b EXCEPT !.upd = NoUpdate]
            y == [c EXCEPT !.k = 0]
<1>1. ThreadOK(x, T, K) /\ IsThread(x)
  BY Zenon DEF ThreadsOK, ThreadOK
<1>2. th' = [th EXCEPT ![t] = Local(t, pc)]
  BY Zenon DEF Go
<1>3. CASE pc = "idle"
  <2>1. Local(t, pc) = [Idle EXCEPT !.todo = th[t].todo \ {th[t].run}]
    BY <1>3, Zenon DEF Local
  <2>. QED  BY <1>2, <2>1, IdleOK, OneThread, Zenon
<1>4. CASE pc # "idle"
  <2>1. Local(t, pc) = y
    BY <1>4, Zenon DEF Local
  <2>2. IsThread(y) /\ y.pc = pc /\ y.run = x.run /\ y.stage = x.stage
    <3>. HIDE DEF x
    <3>1. IsThread(a) /\ a.pc = pc /\ a.run = x.run /\ a.stage = x.stage
      BY <1>1 DEF IsThread
    <3>. HIDE DEF a
    <3>2. IsThread(b) /\ b.pc = pc /\ b.run = x.run /\ b.stage = x.stage
      BY <3>1 DEF IsThread
    <3>. HIDE DEF b
    <3>3. IsThread(c) /\ c.pc = pc /\ c.run = x.run /\ c.stage = x.stage
      BY <3>2 DEF IsThread
    <3>. HIDE DEF c
    <3>. QED  BY <3>3 DEF IsThread
  <2>3. ThreadOK(y, T, K)
    <3>. HIDE DEF y
    <3>. QED  BY <1>1, <1>4, <2>2, Zenon DEF ThreadOK
  <2>. QED  BY <1>2, <2>1, <2>3, OneThread, Zenon
<1>. QED  BY <1>3, <1>4

(* The action thread has a result.                                          *)
LEMMA FinishOK ==
    ASSUME NEW T, NEW K, ThreadsOK(th, T, K), NEW res, Finish(res), th["act"].pc # "idle"
    PROVE  ThreadsOK(th', T, K)
<1>. DEFINE x == th["act"]
            y == [x EXCEPT !.pc = "publish"]
            z == [y EXCEPT !.res = res]
<1>0. "act" \in Threads
  BY DEF Threads
<1>1. ThreadOK(x, T, K) /\ IsThread(x)
  BY <1>0, Zenon DEF ThreadsOK, ThreadOK
<1>2. th' = [th EXCEPT !["act"] = z]
  BY Zenon DEF Finish
<1>. HIDE DEF x
<1>3. Keeps(x, y) /\ y.pc = "publish"
  BY <1>1 DEF Keeps, IsThread
<1>. HIDE DEF y
<1>4. Keeps(y, z) /\ z.pc = y.pc
  BY <1>3 DEF Keeps, IsThread
<1>5. Keeps(x, z) /\ z.pc = "publish"
  BY <1>3, <1>4, Zenon DEF Keeps
<1>. HIDE DEF z
<1>6. ThreadOK(z, T, K)
  <2>1. /\ z.pc # "enqueue" /\ z.pc \notin StagePlaces /\ z.pc \notin KnownPlaces
        /\ z.pc \notin ResultPlaces
    BY <1>5 DEF StagePlaces, KnownPlaces, ResultPlaces
  <2>2. x.pc # "idle"
    BY DEF x
  <2>. QED  BY <1>1, <1>5, <2>1, <2>2, MovedOK, Zenon
<1>. QED  BY <1>0, <1>2, <1>6, OneThread, Zenon

(* A thread begins to enqueue an update of its run.                         *)
LEMMA EnqueueOK ==
    ASSUME NEW T, NEW K, ThreadsOK(th, T, K), NEW t \in Threads, NEW u, NEW pc,
           Enqueue(t, th[t].run, u, pc), th[t].pc # "idle",
           th[t].run \in K, NewsOK(th[t].run, u, T), pc \in {"idle", "list", "ok", "observe"},
           pc = "observe" => th[t].stage \in StagesOf(th[t].run)
    PROVE  ThreadsOK(th', T, K)
<1>. DEFINE x == th[t]
            a == [x EXCEPT !.pc = "enqueue"]
            b == [a EXCEPT !.run = th[t].run]
            c == [b EXCEPT !.upd = u]
            d == [c EXCEPT !.then = pc]
<1>1. ThreadOK(x, T, K) /\ IsThread(x)
  BY Zenon DEF ThreadsOK, ThreadOK
<1>2. th' = [th EXCEPT ![t] = d]
  BY Zenon DEF Enqueue
<1>. HIDE DEF x
<1>3. IsThread(a) /\ a.pc = "enqueue" /\ a.stage = x.stage
  BY <1>1 DEF Keeps, IsThread
<1>. HIDE DEF a
<1>4. IsThread(b) /\ b.pc = "enqueue" /\ b.stage = x.stage /\ b.run = th[t].run
  BY <1>3 DEF IsThread
<1>. HIDE DEF b
<1>5. IsThread(c) /\ c.pc = "enqueue" /\ c.stage = x.stage /\ c.run = th[t].run /\ c.upd = u
  BY <1>4 DEF IsThread
<1>. HIDE DEF c
<1>6. /\ IsThread(d) /\ d.pc = "enqueue" /\ d.stage = x.stage /\ d.run = x.run /\ d.upd = u
      /\ d.then = pc
  BY <1>5 DEF IsThread, x
<1>. HIDE DEF d
<1>7. ThreadOK(d, T, K)
  <2>1. /\ x.pc # "idle" /\ x.run \in K /\ NewsOK(x.run, u, T)
        /\ pc = "observe" => x.stage \in StagesOf(x.run)
    BY Zenon DEF x
  <2>2. d.pc \notin StagePlaces /\ d.pc # "idle" /\ d.pc \notin ResultPlaces
    BY <1>6 DEF StagePlaces, ResultPlaces
  <2>. QED  BY <1>1, <1>6, <2>1, <2>2, Zenon DEF ThreadOK
<1>. QED  BY <1>2, <1>7, OneThread, Zenon

(* A thread reads the row of a run from the list of runs.                   *)
LEMMA ReadRowOK ==
    ASSUME NEW T, ThreadsOK(th, T, KnownIn(ledger)), RowsOK(ledger, T),
           NEW t \in Threads, NEW r \in Runs, NEW pc \in {"observe", "list"},
           ReadRow(t, r, pc), pc = "observe" => ledger[r].state # "absent"
    PROVE  ThreadsOK(th', T, KnownIn(ledger))
<1>. DEFINE x == th[t]
            a == [x EXCEPT !.pc = pc]
            b == [a EXCEPT !.run = r]
            c == [b EXCEPT !.stage = ledger[r].stage]
<1>1. IsThread(x)
  BY Zenon DEF ThreadsOK, ThreadOK
<1>2. th' = [th EXCEPT ![t] = c]
  BY Zenon DEF ReadRow
<1>. HIDE DEF x
<1>3. IsThread(a) /\ a.pc = pc
  BY <1>1 DEF Keeps, IsThread
<1>. HIDE DEF a
<1>4. IsThread(b) /\ b.pc = pc /\ b.run = r
  BY <1>3 DEF IsThread
<1>. HIDE DEF b
<1>5. IsThread(c) /\ c.pc = pc /\ c.run = r /\ c.stage = ledger[r].stage
  BY <1>4 DEF IsThread
<1>. HIDE DEF c
<1>6. ThreadOK(c, T, KnownIn(ledger))
  <2>1. RowOK(r, ledger[r], T)
    BY Zenon DEF RowsOK
  <2>2. pc = "observe" => r \in KnownIn(ledger) /\ ledger[r].stage \in StagesOf(r)
    BY <2>1, Zenon DEF KnownIn, RowOK
  <2>3. Later(ledger[r].stage) => r \in T
    BY <2>1, Zenon DEF RowOK
  <2>4. /\ c.pc # "enqueue" /\ c.pc \notin ResultPlaces
        /\ c.pc # "observe" => c.pc \notin StagePlaces /\ c.pc \notin KnownPlaces
    BY <1>5 DEF StagePlaces, KnownPlaces, ResultPlaces
  <2>. QED  BY <1>5, <2>2, <2>3, <2>4, Zenon DEF ThreadOK
<1>. QED  BY <1>2, <1>6, OneThread, Zenon

(* A thread moves on with its row, its other variables set anew.            *)
LEMMA ShiftOK ==
    ASSUME NEW T, NEW K, ThreadsOK(th, T, K), NEW t \in Threads, NEW y, Keeps(th[t], y),
           th' = [th EXCEPT ![t] = y], th[t].pc # "idle", y.pc # "enqueue",
           y.pc \in ResultPlaces => ResultOK(y, T),
           y.pc \in StagePlaces => th[t].stage \in StagesOf(th[t].run),
           y.pc \in KnownPlaces => th[t].run \in K
    PROVE  ThreadsOK(th', T, K)
<1>1. ThreadOK(th[t], T, K)
  BY Zenon DEF ThreadsOK
<1>2. ThreadOK(y, T, K)
  BY <1>1, MovedOK, Zenon
<1>. QED  BY <1>2, OneThread, Zenon

-----------------------------------------------------------------------------
(* The processes.  s2 is supervisor s later: what it trains stays the same, *)
(* a good end is final, and only a supervisor past its decision has a child.*)
Succeeds(s, s2) ==
    /\ IsSupervisor(s2) /\ s2.run = s.run /\ s2.stage = s.stage
    /\ s.child = "ok" => s2.child = "ok"
    /\ s2.st \in {"boot", "waiting", "decided"} => s2.child = "none"

(* What a step of the processes leaves behind.                              *)
ProcessesOK ==
    /\ TrainedIn(sups) \subseteq TrainedIn(sups')
    /\ SupsOK(sups', TrainedIn(sups'))
    /\ FilesOK(file', TrainedIn(sups'))

(* Supervisors that go on leave the trained runs trained.                   *)
LEMMA SupsGoOn ==
    ASSUME NEW ss, SupsOK(ss, TrainedIn(ss)), NEW new, DOMAIN new = DOMAIN ss,
           new = [q \in DOMAIN new |-> new[q]],
           \A q \in DOMAIN ss : new[q] = ss[q] \/ Succeeds(ss[q], new[q])
    PROVE  TrainedIn(ss) \subseteq TrainedIn(new) /\ SupsOK(new, TrainedIn(new))
<1>1. \A q \in DOMAIN ss : /\ new[q].run = ss[q].run /\ new[q].stage = ss[q].stage
                           /\ ss[q].child = "ok" => new[q].child = "ok"
  BY Zenon DEF Succeeds
<1>2. TrainedIn(ss) \subseteq TrainedIn(new)
  <2>. SUFFICES ASSUME NEW r \in TrainedIn(ss) PROVE r \in TrainedIn(new)
    OBVIOUS
  <2>1. PICK q \in DOMAIN ss : ss[q].run = r /\ ss[q].stage = 1 /\ ss[q].child = "ok"
    BY Zenon DEF TrainedIn
  <2>2. r \in Runs
    BY Zenon DEF TrainedIn
  <2>. QED  BY <1>1, <2>1, <2>2, Zenon DEF TrainedIn
<1>3. IsSequence(new)
  BY SequenceRewritten, Zenon DEF SupsOK
<1>4. \A q \in DOMAIN ss : SupervisorOK(new[q], TrainedIn(new))
  <2>. SUFFICES ASSUME NEW q \in DOMAIN ss PROVE SupervisorOK(new[q], TrainedIn(new))
    OBVIOUS
  <2>1. SupervisorOK(ss[q], TrainedIn(ss))
    BY Zenon DEF SupsOK
  <2>2. CASE new[q] = ss[q]
    BY <1>2, <2>1, <2>2, Zenon DEF SupervisorOK
  <2>3. CASE Succeeds(ss[q], new[q])
    BY <1>2, <2>1, <2>3, Zenon DEF SupervisorOK, Succeeds
  <2>. QED  BY <2>2, <2>3, Zenon
<1>. QED  BY <1>2, <1>3, <1>4, Zenon DEF SupsOK

(* A state file is written.                                                 *)
LEMMA FileWritten ==
    ASSUME NEW ff, NEW T, FilesOK(ff, T), NEW r, NEW n, NEW f,
           r \in Runs /\ n \in StagesOf(r) => FileOK(r, f, T)
    PROVE  FilesOK([ff EXCEPT ![r][n] = f], T)
<1>. DEFINE new == [ff EXCEPT ![r][n] = f]
<1>1. /\ new = [q \in Runs |-> new[q]]
      /\ \A q \in Runs : new[q] = IF q = r THEN [ff[r] EXCEPT ![n] = f] ELSE ff[q]
  BY Zenon DEF FilesOK
<1>. HIDE DEF new
<1>2. \A q \in Runs : /\ new[q] = [m \in StagesOf(q) |-> new[q][m]]
                      /\ \A m \in StagesOf(q) :
                            new[q][m] = ff[q][m] \/ (q = r /\ m = n /\ new[q][m] = f)
  BY <1>1 DEF FilesOK
<1>3. \A q \in Runs : \A m \in StagesOf(q) : FileOK(q, new[q][m], T)
  BY <1>2, Zenon DEF FilesOK
<1>. QED  BY <1>1, <1>2, <1>3, Zenon DEF FilesOK, new

(* The state file of a supervisor says what its row says.                   *)
LEMMA ExitFileOK ==
    ASSUME NEW T, NEW r, NEW st \in FileStates, NEW k, NEW p, NEW c, c = "ok" => r \in T
    PROVE  FileOK(r, [status |-> st, token |-> k, pid |-> p, code |-> c], T)
BY DEF FileOK, IsFile

(* A child ends: with a good code its run is trained, because the stage is  *)
(* the first one, or was already, because it is a later one.                *)
LEMMA ChildEndsOK ==
    ASSUME SupsOK(sups, TrainedIn(sups)), FilesOK(file, TrainedIn(sups)),
           NEW p, ChildAlive(p), NEW c \in {"ok", "bad"}, ChildEnds(p, c)
    PROVE  ProcessesOK
<1>. DEFINE s == sups[p]
            new == [run |-> s.run, stage |-> s.stage, st |-> "gone", token |-> s.token,
                    child |-> c]
<1>0. p \in DOMAIN sups /\ s.child = "alive"
  BY Zenon DEF ChildAlive
<1>1. SupervisorOK(s, TrainedIn(sups))
  BY <1>0, Zenon DEF SupsOK
<1>2. /\ DOMAIN sups' = DOMAIN sups /\ sups' = [q \in DOMAIN sups' |-> sups'[q]]
      /\ \A q \in DOMAIN sups : q # p => sups'[q] = sups[q]
      /\ sups'[p] = new
  <2>1. sups' = [sups EXCEPT ![p].child = c, ![p].st = "gone"]
    BY Zenon DEF ChildEnds
  <2>2. IsSupervisor(s)
    BY <1>1, Zenon DEF SupervisorOK
  <2>3. sups = [q \in DOMAIN sups |-> sups[q]]
    BY DEF SupsOK, IsSequence
  <2>. DEFINE a == [s EXCEPT !.child = c]
              b == [a EXCEPT !.st = "gone"]
  <2>4. /\ DOMAIN sups' = DOMAIN sups /\ sups' = [q \in DOMAIN sups' |-> sups'[q]]
        /\ \A q \in DOMAIN sups : q # p => sups'[q] = sups[q]
        /\ sups'[p] = b
    BY <1>0, <2>1, <2>3, Zenon
  <2>5. b = new
    <3>. HIDE DEF s
    <3>1. a = [run |-> s.run, stage |-> s.stage, st |-> s.st, token |-> s.token, child |-> c]
      BY <2>2 DEF IsSupervisor
    <3>. HIDE DEF a
    <3>. QED  BY <3>1
  <2>. QED  BY <2>4, <2>5, Zenon
<1>3. Succeeds(s, new)
  BY <1>0 DEF Succeeds, IsSupervisor
<1>4. TrainedIn(sups) \subseteq TrainedIn(sups') /\ SupsOK(sups', TrainedIn(sups'))
  BY <1>2, <1>3, SupsGoOn, Zenon
<1>5. c = "ok" => s.run \in TrainedIn(sups')
  <2>. SUFFICES ASSUME c = "ok" PROVE s.run \in TrainedIn(sups')
    OBVIOUS
  <2>1. s.run \in Runs /\ s.stage \in StagesOf(s.run)
    BY <1>1, Zenon DEF SupervisorOK
  <2>2. CASE Later(s.stage)
    BY <1>1, <1>4, <2>2, Zenon DEF SupervisorOK
  <2>3. CASE ~Later(s.stage)
    <3>1. s.stage = 1
      BY <2>1, <2>3, FirstOrLater, Zenon
    <3>2. sups'[p].run = s.run /\ sups'[p].stage = 1 /\ sups'[p].child = "ok"
      <4>1. new.run = s.run /\ new.stage = s.stage /\ new.child = c
        OBVIOUS
      <4>. QED  BY <1>2, <3>1, <4>1, Zenon
    <3>. QED  BY <1>0, <1>2, <2>1, <3>2, Zenon DEF TrainedIn
  <2>. QED  BY <2>2, <2>3
<1>6. FilesOK(file, TrainedIn(sups'))
  BY <1>4, MoreIsFine, Zenon
<1>7. FilesOK(file', TrainedIn(sups'))
  <2>1. CASE file' = file
    BY <1>6, <2>1, Zenon
  <2>2. CASE file' = [file EXCEPT ![s.run][s.stage] =
                        [status |-> "exited", token |-> s.token, pid |-> p, code |-> c]]
    <3>1. FileOK(s.run, [status |-> "exited", token |-> s.token, pid |-> p, code |-> c],
                 TrainedIn(sups'))
      BY <1>5, ExitFileOK, Zenon DEF FileStates
    <3>2. FilesOK([file EXCEPT ![s.run][s.stage] =
                        [status |-> "exited", token |-> s.token, pid |-> p, code |-> c]],
                  TrainedIn(sups'))
      BY <1>6, <3>1, FileWritten, Zenon
    <3>. QED  BY <2>2, <3>2, Zenon
  <2>. QED  BY <2>1, <2>2, Zenon DEF ChildEnds
<1>. QED  BY <1>4, <1>7, Zenon DEF ProcessesOK

(* A supervisor moves to another place.                                     *)
LEMMA PlaceChanged ==
    ASSUME SupsOK(sups, TrainedIn(sups)), NEW p, NEW st,
           p \in DOMAIN sups /\ st \in {"boot", "waiting", "decided"} => sups[p].child = "none",
           sups' = [sups EXCEPT ![p].st = st]
    PROVE  TrainedIn(sups) \subseteq TrainedIn(sups') /\ SupsOK(sups', TrainedIn(sups'))
<1>. DEFINE s == sups[p]
            a == [s EXCEPT !.st = st]
<1>1. sups = [q \in DOMAIN sups |-> sups[q]]
  BY DEF SupsOK, IsSequence
<1>2. /\ DOMAIN sups' = DOMAIN sups /\ sups' = [q \in DOMAIN sups' |-> sups'[q]]
      /\ \A q \in DOMAIN sups : q # p => sups'[q] = sups[q]
      /\ p \in DOMAIN sups => sups'[p] = a
  BY <1>1, Zenon
<1>3. p \in DOMAIN sups => Succeeds(s, a)
  <2>. SUFFICES ASSUME p \in DOMAIN sups PROVE Succeeds(s, a)
    OBVIOUS
  <2>1. IsSupervisor(s) /\ (st \in {"boot", "waiting", "decided"} => s.child = "none")
    BY Zenon DEF SupsOK, SupervisorOK
  <2>. HIDE DEF s
  <2>. QED  BY <2>1 DEF Succeeds, IsSupervisor
<1>4. \A q \in DOMAIN sups : sups'[q] = sups[q] \/ Succeeds(sups[q], sups'[q])
  BY <1>2, <1>3, Zenon
<1>. QED  BY <1>2, <1>4, SupsGoOn, Zenon

(* A supervisor starts its child.                                           *)
LEMMA ChildStarted ==
    ASSUME SupsOK(sups, TrainedIn(sups)), NEW p, NEW st \in {"running", "gone"},
           sups[p].st = "decided",
           sups' = [sups EXCEPT ![p].st = st, ![p].child = "alive"]
    PROVE  TrainedIn(sups) \subseteq TrainedIn(sups') /\ SupsOK(sups', TrainedIn(sups'))
<1>. DEFINE s == sups[p]
            a == [s EXCEPT !.st = st]
            b == [a EXCEPT !.child = "alive"]
<1>1. sups = [q \in DOMAIN sups |-> sups[q]]
  BY DEF SupsOK, IsSequence
<1>2. /\ DOMAIN sups' = DOMAIN sups /\ sups' = [q \in DOMAIN sups' |-> sups'[q]]
      /\ \A q \in DOMAIN sups : q # p => sups'[q] = sups[q]
      /\ p \in DOMAIN sups => sups'[p] = b
  BY <1>1, Zenon
<1>3. p \in DOMAIN sups => Succeeds(s, b)
  <2>. SUFFICES ASSUME p \in DOMAIN sups PROVE Succeeds(s, b)
    OBVIOUS
  <2>1. IsSupervisor(s) /\ s.child = "none"
    BY Zenon DEF SupsOK, SupervisorOK
  <2>. HIDE DEF s
  <2>2. IsSupervisor(a) /\ a.run = s.run /\ a.stage = s.stage /\ a.st = st
    BY <2>1 DEF IsSupervisor
  <2>. HIDE DEF a
  <2>3. IsSupervisor(b) /\ b.run = s.run /\ b.stage = s.stage /\ b.st = st
    BY <2>2 DEF IsSupervisor
  <2>. HIDE DEF b
  <2>. QED  BY <2>1, <2>3 DEF Succeeds
<1>4. \A q \in DOMAIN sups : sups'[q] = sups[q] \/ Succeeds(sups[q], sups'[q])
  BY <1>2, <1>3, Zenon
<1>5. DOMAIN sups' = DOMAIN sups /\ sups' = [q \in DOMAIN sups' |-> sups'[q]]
  BY <1>2, Zenon
<1>. HIDE DEF a, b, s
<1>. QED  BY <1>4, <1>5, SupsGoOn

(* A state file without an exit code is written, or none.                   *)
LEMMA FileWithoutCode ==
    ASSUME NEW T, NEW T2, T \subseteq T2, FilesOK(file, T), NEW r, NEW n,
           NEW w \in FileStates, NEW k, NEW q,
           \/ file' = file
           \/ file' = [file EXCEPT ![r][n] =
                          [status |-> w, token |-> k, pid |-> q, code |-> "none"]]
    PROVE  FilesOK(file', T2)
<1>1. FilesOK(file, T2)
  BY MoreIsFine, Zenon
<1>2. FileOK(r, [status |-> w, token |-> k, pid |-> q, code |-> "none"], T2)
  BY DEF FileOK, IsFile, FileStates
<1>3. FilesOK([file EXCEPT ![r][n] =
                 [status |-> w, token |-> k, pid |-> q, code |-> "none"]], T2)
  BY <1>1, <1>2, FileWritten, Zenon
<1>. QED  BY <1>1, <1>3, Zenon

(* _terminate_failed_supervisor.                                            *)
LEMMA TerminateOK ==
    ASSUME SupsOK(sups, TrainedIn(sups)), FilesOK(file, TrainedIn(sups)), NEW p, Terminate(p)
    PROVE  ProcessesOK
<1>1. CASE sups' = [sups EXCEPT ![p].st = "gone"] /\ UNCHANGED file
  <2>1. TrainedIn(sups) \subseteq TrainedIn(sups') /\ SupsOK(sups', TrainedIn(sups'))
    BY <1>1, PlaceChanged
  <2>2. FilesOK(file', TrainedIn(sups'))
    BY <1>1, <2>1, MoreIsFine, Zenon
  <2>. QED  BY <2>1, <2>2, Zenon DEF ProcessesOK
<1>2. CASE /\ sups[p].st = "decided"
           /\ sups' = [sups EXCEPT ![p].st = "gone", ![p].child = "alive"]
           /\ file' = [file EXCEPT ![sups[p].run][sups[p].stage] =
                  [status |-> "running", token |-> sups[p].token, pid |-> p, code |-> "none"]]
  <2>1. TrainedIn(sups) \subseteq TrainedIn(sups') /\ SupsOK(sups', TrainedIn(sups'))
    BY <1>2, ChildStarted
  <2>2. FilesOK(file', TrainedIn(sups'))
    BY <1>2, <2>1, FileWithoutCode, Zenon DEF FileStates
  <2>. QED  BY <2>1, <2>2, Zenon DEF ProcessesOK
<1>. QED  BY <1>1, <1>2, Zenon DEF Terminate

(* The same, with the child the state file names killed first.              *)
LEMMA TerminateWithChildOK ==
    ASSUME SupsOK(sups, TrainedIn(sups)), FilesOK(file, TrainedIn(sups)), NEW p, NEW f,
           IsFile(f), TerminateWithChild(p, f)
    PROVE  ProcessesOK
<1>1. CASE f.status = "running" /\ ChildAlive(f.pid)
  <2>. DEFINE q == f.pid
  <2>1. /\ sups' = [sups EXCEPT ![p].st = "gone", ![q].st = "gone", ![q].child = "bad"]
        /\ \/ file' = file
           \/ file' = [file EXCEPT ![sups[q].run][sups[q].stage] =
                         [f EXCEPT !.status = "exited", !.code = "bad"]]
    BY <1>1, Zenon DEF TerminateWithChild
  <2>2. q \in DOMAIN sups /\ sups[q].child = "alive"
    BY <1>1, Zenon DEF ChildAlive
  <2>3. sups = [x \in DOMAIN sups |-> sups[x]]
    BY DEF SupsOK, IsSequence
  <2>4. \A x \in DOMAIN sups : IsSupervisor(sups[x])
    BY Zenon DEF SupsOK, SupervisorOK
  <2>. HIDE DEF q
  <2>5. /\ DOMAIN sups' = DOMAIN sups /\ sups' = [x \in DOMAIN sups' |-> sups'[x]]
        /\ \A x \in DOMAIN sups : sups'[x] = sups[x] \/ Succeeds(sups[x], sups'[x])
    <3>. DEFINE a == [sups EXCEPT ![p].st = "gone"]
                b == [a EXCEPT ![q].st = "gone"]
                c == [b EXCEPT ![q].child = "bad"]
    <3>1. sups' = c
      BY <2>1, Zenon
    <3>2. /\ DOMAIN a = DOMAIN sups /\ a = [x \in DOMAIN a |-> a[x]]
          /\ \A x \in DOMAIN sups : IF x = p THEN a[x] = [sups[x] EXCEPT !.st = "gone"]
                                             ELSE a[x] = sups[x]
      BY <2>3
    <3>3. \A x \in DOMAIN sups : x = p => /\ IsSupervisor(a[x]) /\ a[x].run = sups[x].run
                                          /\ a[x].stage = sups[x].stage /\ a[x].st = "gone"
                                          /\ a[x].child = sups[x].child
      <4>. SUFFICES ASSUME NEW x \in DOMAIN sups, x = p
                    PROVE  /\ IsSupervisor(a[x]) /\ a[x].run = sups[x].run
                           /\ a[x].stage = sups[x].stage /\ a[x].st = "gone"
                           /\ a[x].child = sups[x].child
        OBVIOUS
      <4>1. a[x] = [sups[x] EXCEPT !.st = "gone"] /\ IsSupervisor(sups[x])
        BY <2>4, <3>2
      <4>. HIDE DEF a
      <4>. QED  BY <4>1 DEF IsSupervisor
    <3>. HIDE DEF a
    <3>4. /\ DOMAIN b = DOMAIN sups /\ b = [x \in DOMAIN b |-> b[x]]
          /\ \A x \in DOMAIN sups : IF x = q THEN b[x] = [a[x] EXCEPT !.st = "gone"]
                                             ELSE b[x] = a[x]
      BY <3>2
    <3>5. /\ IsSupervisor(b[q]) /\ b[q].run = sups[q].run /\ b[q].stage = sups[q].stage
          /\ b[q].st = "gone"
      <4>1. /\ b[q] = [a[q] EXCEPT !.st = "gone"]
            /\ IsSupervisor(a[q]) /\ a[q].run = sups[q].run /\ a[q].stage = sups[q].stage
        BY <2>2, <2>4, <3>2, <3>3, <3>4, Zenon
      <4>. HIDE DEF b
      <4>. QED  BY <4>1 DEF IsSupervisor
    <3>. HIDE DEF b
    <3>6. /\ DOMAIN c = DOMAIN sups /\ c = [x \in DOMAIN c |-> c[x]]
          /\ \A x \in DOMAIN sups : IF x = q THEN c[x] = [b[x] EXCEPT !.child = "bad"]
                                             ELSE c[x] = b[x]
      BY <3>4
    <3>7. /\ IsSupervisor(c[q]) /\ c[q].run = sups[q].run /\ c[q].stage = sups[q].stage
          /\ c[q].st = "gone"
      <4>1. c[q] = [b[q] EXCEPT !.child = "bad"]
        BY <2>2, <3>6
      <4>. HIDE DEF c
      <4>. QED  BY <3>5, <4>1 DEF IsSupervisor
    <3>. HIDE DEF c
    <3>8. ASSUME NEW x \in DOMAIN sups PROVE c[x] = sups[x] \/ Succeeds(sups[x], c[x])
      <4>1. CASE x = q
        BY <2>2, <3>7, <4>1 DEF Succeeds
      <4>2. CASE x # q /\ x = p
        <5>1. c[x] = a[x]
          BY <3>4, <3>6, <4>2, Zenon
        <5>2. /\ IsSupervisor(c[x]) /\ c[x].run = sups[x].run
              /\ c[x].stage = sups[x].stage /\ c[x].st = "gone"
              /\ c[x].child = sups[x].child
          BY <3>3, <4>2, <5>1, Zenon
        <5>. QED  BY <5>2 DEF Succeeds
      <4>3. CASE x # q /\ x # p
        BY <3>2, <3>4, <3>6, <4>3, Zenon
      <4>. QED  BY <4>1, <4>2, <4>3
    <3>. QED  BY <3>1, <3>6, <3>8, Zenon
  <2>6. TrainedIn(sups) \subseteq TrainedIn(sups') /\ SupsOK(sups', TrainedIn(sups'))
    BY <2>5, SupsGoOn, Zenon
  <2>7. FilesOK(file, TrainedIn(sups'))
    BY <2>6, MoreIsFine, Zenon
  <2>8. FileOK(sups[q].run, [f EXCEPT !.status = "exited", !.code = "bad"], TrainedIn(sups'))
    <3>1. [f EXCEPT !.status = "exited", !.code = "bad"] =
            [status |-> "exited", token |-> f.token, pid |-> f.pid, code |-> "bad"]
      <4>. DEFINE g == [f EXCEPT !.status = "exited"]
      <4>1. g = [status |-> "exited", token |-> f.token, pid |-> f.pid, code |-> f.code]
        BY DEF IsFile
      <4>2. [f EXCEPT !.status = "exited", !.code = "bad"] = [g EXCEPT !.code = "bad"]
        BY Zenon
      <4>. HIDE DEF g
      <4>. QED  BY <4>1, <4>2
    <3>2. FileOK(sups[q].run, [status |-> "exited", token |-> f.token, pid |-> f.pid,
                               code |-> "bad"], TrainedIn(sups'))
      BY ExitFileOK DEF FileStates
    <3>. QED  BY <3>1, <3>2, Zenon
  <2>9. FilesOK(file', TrainedIn(sups'))
    <3>1. FilesOK([file EXCEPT ![sups[q].run][sups[q].stage] =
                     [f EXCEPT !.status = "exited", !.code = "bad"]], TrainedIn(sups'))
      BY <2>7, <2>8, FileWritten, Zenon
    <3>. QED  BY <2>1, <2>7, <3>1, Zenon
  <2>. QED  BY <2>6, <2>9, Zenon DEF ProcessesOK
<1>2. CASE ~(f.status = "running" /\ ChildAlive(f.pid))
  <2>1. Terminate(p)
    BY <1>2, Zenon DEF TerminateWithChild
  <2>. QED  BY <2>1, TerminateOK, Zenon
<1>. QED  BY <1>1, <1>2

-----------------------------------------------------------------------------
(* A row of the ledger is written, for a known run or to make it known.     *)
LEMMA RowWritten ==
    ASSUME NEW T, RowsOK(ledger, T), NEW r \in Runs, NEW w, RowOK(r, w, T), w.state # "absent",
           ledger' = [ledger EXCEPT ![r] = w]
    PROVE  /\ RowsOK(ledger', T)
           /\ KnownIn(ledger) \subseteq KnownIn(ledger') /\ r \in KnownIn(ledger')
<1>1. /\ ledger' = [q \in Runs |-> ledger'[q]]
      /\ \A q \in Runs : ledger'[q] = IF q = r THEN w ELSE ledger[q]
  BY Zenon DEF RowsOK
<1>2. \A q \in Runs : RowOK(q, ledger'[q], T)
  BY <1>1, Zenon DEF RowsOK
<1>3. KnownIn(ledger) \subseteq KnownIn(ledger') /\ r \in KnownIn(ledger')
  BY <1>1, Zenon DEF KnownIn
<1>. QED  BY <1>1, <1>2, <1>3, Zenon DEF RowsOK

(* A known run gets another state.                                          *)
LEMMA StateSet ==
    ASSUME NEW T, RowsOK(ledger, T), NEW r \in KnownIn(ledger), NEW st, st # "absent",
           SetLedger(r, st)
    PROVE  RowsOK(ledger', T) /\ KnownIn(ledger) \subseteq KnownIn(ledger')
<1>. DEFINE w == [ledger[r] EXCEPT !.state = st]
<1>1. r \in Runs /\ RowOK(r, ledger[r], T) /\ ledger[r].state # "absent"
  BY Zenon DEF KnownIn, RowsOK
<1>2. ledger' = [ledger EXCEPT ![r] = w]
  BY Zenon DEF SetLedger
<1>3. IsRow(w) /\ w.stage = ledger[r].stage /\ w.state = st
  <2>. DEFINE v == ledger[r]
  <2>1. IsRow(v)
    BY <1>1, Zenon DEF RowOK
  <2>. HIDE DEF v
  <2>2. IsRow([v EXCEPT !.state = st]) /\ [v EXCEPT !.state = st].stage = v.stage
          /\ [v EXCEPT !.state = st].state = st
    BY <2>1 DEF IsRow
  <2>. QED  BY <2>2 DEF v
<1>. HIDE DEF w
<1>4. RowOK(r, w, T) /\ w.state # "absent"
  BY <1>1, <1>3, Zenon DEF RowOK
<1>. QED  BY <1>1, <1>2, <1>4, RowWritten, Zenon

(* What a step of the Worker leaves behind: it changes what it may, and     *)
(* leaves it in order.                                                      *)
StepOK ==
    /\ TrainedIn(sups) \subseteq TrainedIn(sups')
    /\ KnownIn(ledger) \subseteq KnownIn(ledger')
    /\ sups' = sups \/ SupsOK(sups', TrainedIn(sups'))
    /\ file' = file \/ FilesOK(file', TrainedIn(sups'))
    /\ ledger' = ledger \/ RowsOK(ledger', TrainedIn(sups'))
    /\ outbox' = outbox \/ OutboxOK(outbox', TrainedIn(sups'))
    /\ th' = th \/ ThreadsOK(th', TrainedIn(sups'), KnownIn(ledger'))

Threaded == ThreadsOK(th', TrainedIn(sups), KnownIn(ledger))

(* A step that changes one thread.                                          *)
LEMMA ThreadStep ==
    ASSUME UNCHANGED <<sups, file, ledger, outbox>>, Threaded
    PROVE  StepOK
<1>1. sups' = sups /\ file' = file /\ ledger' = ledger /\ outbox' = outbox
  OBVIOUS
<1>2. ThreadsOK(th', TrainedIn(sups'), KnownIn(ledger'))
  BY <1>1, Zenon DEF Threaded
<1>. QED  BY <1>1, <1>2, Zenon DEF StepOK

(* A step that changes one thread and the processes.                        *)
LEMMA ProcessStep ==
    ASSUME UNCHANGED <<ledger, outbox>>, th' = th \/ Threaded, ProcessesOK
    PROVE  StepOK
<1>1. ledger' = ledger /\ outbox' = outbox
  OBVIOUS
<1>2. TrainedIn(sups) \subseteq TrainedIn(sups')
  BY Zenon DEF ProcessesOK
<1>3. th' = th \/ ThreadsOK(th', TrainedIn(sups'), KnownIn(ledger'))
  <2>1. ASSUME Threaded PROVE ThreadsOK(th', TrainedIn(sups'), KnownIn(ledger))
    BY <1>2, <2>1, MoreIsFine, Zenon DEF Threaded
  <2>. QED  BY <1>1, <2>1, Zenon
<1>. QED  BY <1>1, <1>2, <1>3, Zenon DEF StepOK, ProcessesOK

(* A step that changes one thread and the ledger.                           *)
LEMMA LedgerStep ==
    ASSUME UNCHANGED <<sups, file, outbox>>, Threaded,
           RowsOK(ledger', TrainedIn(sups)), KnownIn(ledger) \subseteq KnownIn(ledger')
    PROVE  StepOK
<1>1. sups' = sups /\ file' = file /\ outbox' = outbox
  OBVIOUS
<1>2. ThreadsOK(th', TrainedIn(sups), KnownIn(ledger'))
  BY MoreIsFine, Zenon DEF Threaded
<1>3. TrainedIn(sups') = TrainedIn(sups)
  BY <1>1, Zenon
<1>4. ThreadsOK(th', TrainedIn(sups'), KnownIn(ledger')) /\ RowsOK(ledger', TrainedIn(sups'))
  BY <1>2, <1>3, Zenon
<1>. QED  BY <1>1, <1>3, <1>4, Zenon DEF StepOK

(* What is known of the action thread, or any thread that is not idle.      *)
LEMMA ThreadFacts ==
    ASSUME WorkerInv, NEW t \in Threads
    PROVE  /\ ThreadsOK(th, TrainedIn(sups), KnownIn(ledger))
           /\ ThreadOK(th[t], TrainedIn(sups), KnownIn(ledger))
           /\ IsThread(th[t])
           /\ th[t].pc # "idle" => th[t].run \in Runs
           /\ th[t].pc \in StagePlaces => th[t].stage \in StagesOf(th[t].run)
           /\ th[t].pc \in KnownPlaces => th[t].run \in KnownIn(ledger)
           /\ th[t].pc \in ResultPlaces => ResultOK(th[t], TrainedIn(sups))
           /\ th[t].pc # "idle" /\ Later(th[t].stage) => th[t].run \in TrainedIn(sups)
BY Zenon DEF WorkerInv, ThreadsOK, ThreadOK

-----------------------------------------------------------------------------
(* The outbox.                                                              *)
LEMMA EnqueueReadStep ==
    ASSUME WorkerInv, NEW t \in Threads, EnqueueRead(t)
    PROVE  StepOK
<1>. DEFINE x == th[t]
            y == [x EXCEPT !.k = ledger[th[t].run].seq + 1]
<1>1. ThreadOK(x, TrainedIn(sups), KnownIn(ledger)) /\ IsThread(x)
  BY ThreadFacts, Zenon
<1>2. th' = [th EXCEPT ![t] = y]
  BY Zenon DEF EnqueueRead
<1>3. Keeps(x, y) /\ y.pc = x.pc /\ y.res = x.res
  <2>. HIDE DEF x
  <2>. QED  BY <1>1 DEF Keeps, IsThread
<1>4. ThreadOK(y, TrainedIn(sups), KnownIn(ledger))
  <2>. HIDE DEF y
  <2>1. y.pc \notin ResultPlaces
    BY <1>3 DEF EnqueueRead, ResultPlaces
  <2>. QED  BY <1>1, <1>3, <2>1, Zenon DEF Keeps, ThreadOK
<1>5. Threaded
  BY <1>2, <1>4, ThreadFacts, OneThread, Zenon DEF Threaded
<1>. QED  BY <1>5, ThreadStep DEF EnqueueRead

(* An update that is in order goes to the outbox.                           *)
LEMMA EnqueueWriteStep ==
    ASSUME WorkerInv, NEW t \in Threads, EnqueueWrite(t)
    PROVE  StepOK
<1>. DEFINE r == th[t].run
            k == th[t].k
            e == [k |-> k, u |-> th[t].upd]
            T == TrainedIn(sups)
            K == KnownIn(ledger)
<1>1. /\ ThreadOK(th[t], T, K) /\ ThreadsOK(th, T, K) /\ th[t].pc = "enqueue"
      /\ sups' = sups /\ file' = file
  BY ThreadFacts, Zenon DEF EnqueueWrite
<1>2. r \in Runs /\ r \in K /\ NewsOK(r, th[t].upd, T)
  BY <1>1 DEF ThreadOK, KnownPlaces
<1>3. CASE th' \in {Started, [th EXCEPT ![t] = Idle]} /\ UNCHANGED <<ledger, outbox>>
  <2>1. ThreadsOK(Started, T, K) /\ ThreadsOK([th EXCEPT ![t] = Idle], T, K)
    BY <1>1, StartedOK, IdleOK, OneThread, Zenon
  <2>2. Threaded
    BY <1>3, <2>1, Zenon DEF Threaded
  <2>. QED  BY <1>1, <1>3, <2>2, ThreadStep
<1>4. CASE /\ ledger' = [ledger EXCEPT ![r].seq = k]
           /\ outbox' = [outbox EXCEPT ![r] = @ \cup {e}]
           /\ Go(t, th[t].then)
  <2>1. Threaded
    <3>1. /\ th[t].then \in {"idle", "list", "ok", "observe"}
          /\ th[t].then = "observe" => th[t].stage \in StagesOf(th[t].run)
      BY <1>1, Zenon DEF ThreadOK
    <3>2. /\ th[t].then # "enqueue" /\ th[t].then \notin ResultPlaces
          /\ th[t].then \in StagePlaces => th[t].stage \in StagesOf(th[t].run)
          /\ th[t].pc # "idle"
      BY <1>1, <3>1 DEF StagePlaces, ResultPlaces
    <3>. QED  BY <1>1, <1>2, <1>4, <3>2, GoOK, Zenon DEF Threaded
  <2>2. RowsOK(ledger', T) /\ K \subseteq KnownIn(ledger')
    <3>. DEFINE v == ledger[r]
                w == [v EXCEPT !.seq = k]
    <3>1. RowOK(r, v, T) /\ v.state # "absent"
      BY <1>2, Zenon DEF WorkerInv, RowsOK, KnownIn
    <3>2. ledger' = [ledger EXCEPT ![r] = w]
      BY <1>4, Zenon
    <3>. HIDE DEF v
    <3>3. IsRow(w) /\ w.stage = v.stage /\ w.state = v.state
      BY <3>1 DEF IsRow, RowOK
    <3>. HIDE DEF w
    <3>4. RowOK(r, w, T) /\ w.state # "absent"
      BY <3>1, <3>3, Zenon DEF RowOK
    <3>. QED  BY <1>2, <3>2, <3>4, RowWritten, Zenon DEF WorkerInv
  <2>3. OutboxOK(outbox', T)
    <3>1. /\ outbox = [q \in Runs |-> outbox[q]]
          /\ \A q \in Runs : \A f \in outbox[q] : NewsOK(q, f.u, T)
      BY Zenon DEF WorkerInv, OutboxOK
    <3>2. /\ outbox' = [q \in Runs |-> outbox'[q]]
          /\ \A q \in Runs : outbox'[q] = IF q = r THEN outbox[r] \cup {e} ELSE outbox[q]
      BY <1>4, <3>1, Zenon
    <3>3. e.u = th[t].upd
      OBVIOUS
    <3>. HIDE DEF e, r
    <3>4. \A q \in Runs : \A f \in outbox'[q] : f \in outbox[q] \/ (q = r /\ f = e)
      BY <3>2, Zenon
    <3>5. \A q \in Runs : \A f \in outbox'[q] : NewsOK(q, f.u, T)
      BY <1>2, <3>1, <3>3, <3>4, Zenon
    <3>. QED  BY <3>2, <3>5, Zenon DEF OutboxOK
  <2>4. ThreadsOK(th', T, KnownIn(ledger'))
    BY <2>1, <2>2, MoreIsFine, Zenon DEF Threaded
  <2>5. TrainedIn(sups') = T
    BY <1>1, Zenon
  <2>. HIDE DEF T, K
  <2>6. /\ OutboxOK(outbox', TrainedIn(sups')) /\ RowsOK(ledger', TrainedIn(sups'))
        /\ ThreadsOK(th', TrainedIn(sups'), KnownIn(ledger'))
    BY <2>2, <2>3, <2>4, <2>5, Zenon
  <2>. QED  BY <1>1, <2>2, <2>5, <2>6, Zenon DEF StepOK, T, K
<1>. QED  BY <1>3, <1>4, Zenon DEF EnqueueWrite, ProcessEnds

-----------------------------------------------------------------------------
(* What a thread may report of a stage of its run: an exit that is not good *)
(* at any time, a good one only of a trained run.                           *)
LEMMA ReportsOK ==
    ASSUME NEW T, NEW r \in Runs, NEW n \in StagesOf(r)
    PROVE  /\ NewsOK(r, [kind |-> "started", stage |-> n, status |-> "none"], T)
           /\ \A st \in {"failed", "cancelled"} :
                 NewsOK(r, [kind |-> "exited", stage |-> n, status |-> st], T)
           /\ r \in T => NewsOK(r, [kind |-> "exited", stage |-> n, status |-> "succeeded"], T)
           /\ \A st \in {"running", "unresolved", "lost"} :
                 NewsOK(r, [kind |-> "reconciliation", stage |-> n, status |-> st], T)
BY DEF NewsOK, Updates, Outcomes

(* What is known of a row, and of a state file.                             *)
LEMMA RowFacts ==
    ASSUME WorkerInv, NEW r \in Runs
    PROVE  /\ IsRow(ledger[r])
           /\ r \in KnownIn(ledger) => ledger[r].stage \in StagesOf(r)
           /\ ledger[r].state # "absent" => r \in KnownIn(ledger)
           /\ Later(ledger[r].stage) => r \in TrainedIn(sups)
           /\ \A n \in StagesOf(r) : /\ IsFile(file[r][n])
                                     /\ file[r][n].status \in FileStates
                                     /\ file[r][n].code = "ok" => r \in TrainedIn(sups)
BY Zenon DEF WorkerInv, RowsOK, RowOK, FilesOK, FileOK, KnownIn

(* Thread t moves on with its row, and nothing else happens.                *)
LEMMA ShiftStep ==
    ASSUME WorkerInv, NEW t \in Threads, NEW y, Keeps(th[t], y), th' = [th EXCEPT ![t] = y],
           th[t].pc # "idle", y.pc # "enqueue",
           y.pc \in ResultPlaces => ResultOK(y, TrainedIn(sups)),
           y.pc \in StagePlaces => th[t].stage \in StagesOf(th[t].run),
           y.pc \in KnownPlaces => th[t].run \in KnownIn(ledger)
    PROVE  Threaded
BY ThreadFacts, ShiftOK, Zenon DEF Threaded

(* Thread t goes to pc.                                                     *)
LEMMA GoStep ==
    ASSUME WorkerInv, NEW t \in Threads, NEW pc, Go(t, pc), th[t].pc # "idle", pc # "enqueue",
           pc \notin ResultPlaces,
           pc \in StagePlaces => th[t].pc \in StagePlaces,
           pc \in KnownPlaces => th[t].pc \in KnownPlaces
    PROVE  Threaded
BY ThreadFacts, GoOK, Zenon DEF Threaded

(* The action thread has a result.                                          *)
LEMMA FinishStep ==
    ASSUME WorkerInv, NEW res, Finish(res), th["act"].pc # "idle"
    PROVE  Threaded
<1>1. "act" \in Threads
  BY DEF Threads
<1>. QED  BY <1>1, ThreadFacts, FinishOK, Zenon DEF Threaded

(* Thread t writes a verdict to its row, which is known, and goes on.       *)
LEMMA VerdictStep ==
    ASSUME WorkerInv, NEW t \in Threads, th[t].run \in KnownIn(ledger),
           NEW st, st # "absent", SetLedger(th[t].run, st), Threaded,
           UNCHANGED <<sups, file, outbox>>
    PROVE  StepOK
<1>1. RowsOK(ledger', TrainedIn(sups)) /\ KnownIn(ledger) \subseteq KnownIn(ledger')
  BY StateSet, Zenon DEF WorkerInv
<1>. QED  BY <1>1, LedgerStep

(* Thread x goes to another place with another supervisor or result; it     *)
(* deals with the same row and the same action.                             *)
Renews(x, y) ==
    /\ Keeps(x, y) /\ y.k = x.k /\ y.id = x.id /\ y.claim = x.claim /\ y.flag = x.flag

(* It is then at place pc, with res.                                        *)
RenewsAt(x, y, pc, res) == Renews(x, y) /\ y.pc = pc /\ y.res = res

LEMMA RenewsField ==
    ASSUME NEW x, IsThread(x), NEW v
    PROVE  /\ Renews(x, [x EXCEPT !.pc = v]) /\ [x EXCEPT !.pc = v].pc = v
           /\ [x EXCEPT !.pc = v].res = x.res
           /\ Renews(x, [x EXCEPT !.pid = v]) /\ [x EXCEPT !.pid = v].pc = x.pc
           /\ Renews(x, [x EXCEPT !.res = v]) /\ [x EXCEPT !.res = v].pc = x.pc
           /\ [x EXCEPT !.res = v].res = v
BY DEF Renews, Keeps, IsThread

LEMMA RenewsTwice ==
    ASSUME NEW x, NEW y, NEW z, Renews(x, y), Renews(y, z)
    PROVE  Renews(x, z)
BY Zenon DEF Renews, Keeps

(* The ways the observers go on: to another place only,                     *)
LEMMA RenewsPlace ==
    ASSUME NEW x, IsThread(x), NEW pc, NEW y, y = [x EXCEPT !.pc = pc]
    PROVE  Renews(x, y) /\ Keeps(x, y) /\ y.k = x.k /\ y.pc = pc /\ y.res = x.res
<1>. DEFINE a == [x EXCEPT !.pc = pc]
<1>1. Renews(x, a) /\ a.pc = pc /\ a.res = x.res
  BY RenewsField, Zenon
<1>2. y = a
  OBVIOUS
<1>. HIDE DEF a
<1>. QED  BY <1>1, <1>2, Zenon DEF Renews

(* with another result,                                                     *)
LEMMA RenewsResult ==
    ASSUME NEW x, IsThread(x), NEW pc, NEW res
    PROVE  RenewsAt(x, [[x EXCEPT !.pc = pc] EXCEPT !.res = res], pc, res)
<1>. DEFINE a == [x EXCEPT !.pc = pc]
            c == [a EXCEPT !.res = res]
<1>1. Renews(x, a) /\ a.pc = pc
  BY RenewsField, Zenon
<1>. HIDE DEF a
<1>2. IsThread(a)
  BY <1>1, Zenon DEF Renews, Keeps
<1>3. Renews(a, c) /\ c.pc = a.pc /\ c.res = res
  BY <1>2, RenewsField, Zenon
<1>. HIDE DEF c
<1>4. Renews(x, c) /\ c.pc = pc /\ c.res = res
  BY <1>1, <1>3, RenewsTwice, Zenon
<1>5. RenewsAt(x, c, pc, res)
  BY <1>4, Zenon DEF RenewsAt
<1>. QED  BY <1>5, Zenon DEF a, c

(* or with another supervisor and another result.                           *)
LEMMA RenewsMany ==
    ASSUME NEW x, IsThread(x), NEW pc, NEW p, NEW res
    PROVE  RenewsAt(x, [[[x EXCEPT !.pc = pc] EXCEPT !.pid = p] EXCEPT !.res = res], pc, res)
<1>. DEFINE a == [x EXCEPT !.pc = pc]
            b == [a EXCEPT !.pid = p]
            d == [b EXCEPT !.res = res]
<1>1. Renews(x, a) /\ a.pc = pc
  BY RenewsField, Zenon
<1>. HIDE DEF a
<1>2. IsThread(a)
  BY <1>1, Zenon DEF Renews, Keeps
<1>3. Renews(a, b) /\ b.pc = a.pc
  BY <1>2, RenewsField, Zenon
<1>. HIDE DEF b
<1>4. IsThread(b)
  BY <1>3, Zenon DEF Renews, Keeps
<1>5. Renews(b, d) /\ d.pc = b.pc /\ d.res = res
  BY <1>4, RenewsField, Zenon
<1>. HIDE DEF d
<1>6. Renews(x, b)
  BY <1>1, <1>3, RenewsTwice, Zenon
<1>7. Renews(x, d)
  BY <1>5, <1>6, RenewsTwice, Zenon
<1>8. d.pc = pc /\ d.res = res
  BY <1>1, <1>3, <1>5, Zenon
<1>9. RenewsAt(x, d, pc, res)
  BY <1>7, <1>8, Zenon DEF RenewsAt
<1>. QED  BY <1>9, Zenon DEF a, b, d

(* A thread that has observed a supervisor goes on.                         *)
LEMMA ObservedStep ==
    ASSUME WorkerInv, NEW t \in Threads, th[t].pc # "idle", Go(t, Observed(t))
    PROVE  Threaded
<1>1. Observed(t) \in {"idle", "list", "ok"}
  BY DEF Observed, Threads
<1>2. /\ Observed(t) # "enqueue" /\ Observed(t) \notin ResultPlaces
      /\ Observed(t) \notin StagePlaces /\ Observed(t) \notin KnownPlaces
  BY <1>1 DEF StagePlaces, KnownPlaces, ResultPlaces
<1>. QED  BY <1>2, GoStep, Zenon

(* The state file is read: a good exit is one of a trained run.             *)
LEMMA ObserveReadStep ==
    ASSUME WorkerInv, NEW t \in Threads, ObserveRead(t)
    PROVE  StepOK
<1>. DEFINE x == th[t]
            f == file[x.run][x.stage]
            res == IF f.status = "exited" THEN ExitStatus(f.code) ELSE f.status
            y == [[[x EXCEPT !.pc = "judge"] EXCEPT !.pid = f.pid] EXCEPT !.res = res]
<1>1. x.pc = "observe" /\ UNCHANGED <<sups, file, ledger, outbox>>
  BY DEF ObserveRead
<1>2. x.run \in Runs /\ x.stage \in StagesOf(x.run) /\ x.run \in KnownIn(ledger) /\ IsThread(x)
  <2>1. x.pc \in StagePlaces /\ x.pc \in KnownPlaces /\ x.pc # "idle"
    BY <1>1 DEF StagePlaces, KnownPlaces
  <2>. QED  BY <2>1, ThreadFacts, Zenon
<1>3. CASE Go(t, Observed(t))
  <2>1. Threaded
    BY <1>1, <1>3, ObservedStep
  <2>. QED  BY <1>1, <2>1, ThreadStep
<1>4. CASE th' = [th EXCEPT ![t] = y]
  <2>1. res \notin {"absent", "accepted"} /\ (res = "succeeded" => x.run \in TrainedIn(sups))
    <3>1. f.status \in FileStates /\ (f.code = "ok" => x.run \in TrainedIn(sups))
      BY <1>2, RowFacts, Zenon
    <3>. HIDE DEF f
    <3>. QED  BY <3>1 DEF ExitStatus, FileStates
  <2>. HIDE DEF res, f
  <2>7. RenewsAt(x, y, "judge", res)
    BY <1>2, RenewsMany, Zenon
  <2>2. Keeps(x, y) /\ y.pc = "judge" /\ y.res = res
    BY <2>7, Zenon DEF RenewsAt, Renews
  <2>. HIDE DEF y
  <2>3. ResultOK(y, TrainedIn(sups))
    BY <2>1, <2>2 DEF ResultOK, Keeps
  <2>4. y.pc # "enqueue" /\ y.pc \notin StagePlaces /\ x.pc # "idle"
    BY <1>1, <2>2 DEF StagePlaces
  <2>5. Threaded
    BY <1>2, <1>4, <2>2, <2>3, <2>4, ShiftStep, Zenon
  <2>. QED  BY <1>1, <2>5, ThreadStep
<1>. QED  BY <1>3, <1>4, Zenon DEF ObserveRead

(* The supervisor is judged, and the verdict written to the ledger.         *)
LEMMA JudgeStep ==
    ASSUME WorkerInv, NEW t \in Threads, Judge(t)
    PROVE  StepOK
<1>. DEFINE x == th[t]
<1>1. x.pc = "judge" /\ x.pc # "idle" /\ UNCHANGED <<sups, file, outbox>>
  BY DEF Judge
<1>2. x.run \in KnownIn(ledger) /\ IsThread(x) /\ ResultOK(x, TrainedIn(sups))
  <2>1. x.pc \in KnownPlaces /\ x.pc \in ResultPlaces
    BY <1>1 DEF KnownPlaces, ResultPlaces
  <2>. QED  BY <2>1, ThreadFacts, Zenon
<1>3. ASSUME NEW y, Keeps(x, y), y.pc = "report", ResultOK(y, TrainedIn(sups)),
             th' = [th EXCEPT ![t] = y]
      PROVE  Threaded
  <2>1. y.pc # "enqueue" /\ y.pc \notin StagePlaces
    BY <1>3 DEF StagePlaces
  <2>. QED  BY <1>1, <1>2, <1>3, <2>1, ShiftStep, Zenon
<1>4. CASE /\ x.res \in {"succeeded", "failed"} /\ SetLedger(x.run, x.res)
           /\ th' = [th EXCEPT ![t].pc = "report"]
  <2>. DEFINE y == [x EXCEPT !.pc = "report"]
  <2>1. th' = [th EXCEPT ![t] = y]
    BY <1>4, Zenon
  <2>2. Keeps(x, y) /\ y.pc = "report" /\ y.res = x.res
    BY <1>2, RenewsPlace
  <2>. HIDE DEF y
  <2>3. ResultOK(y, TrainedIn(sups))
    BY <1>1, <1>2, <1>4, <2>2 DEF ResultOK, Keeps, Verdicts
  <2>4. Threaded
    BY <1>3, <2>1, <2>2, <2>3, Zenon
  <2>5. x.res # "absent"
    BY <1>4
  <2>. QED  BY <1>1, <1>2, <1>4, <2>4, <2>5, VerdictStep
<1>5. CASE /\ SetLedger(x.run, "unknown")
           /\ th' = [th EXCEPT ![t].pc = "report", ![t].res = WhatIsLeft(x)]
  <2>. DEFINE res == WhatIsLeft(x)
              y == [[x EXCEPT !.pc = "report"] EXCEPT !.res = res]
  <2>1. th' = [th EXCEPT ![t] = y]
    BY <1>5, Zenon
  <2>7. RenewsAt(x, y, "report", res)
    BY <1>2, RenewsResult, Zenon
  <2>2. Keeps(x, y) /\ y.pc = "report" /\ y.res = res
    BY <2>7, Zenon DEF RenewsAt, Renews
  <2>3. res \in {"unresolved", "lost"}
    BY DEF WhatIsLeft
  <2>. HIDE DEF y, res
  <2>4. ResultOK(y, TrainedIn(sups))
    BY <2>2, <2>3 DEF ResultOK, Verdicts
  <2>5. Threaded
    BY <1>3, <2>1, <2>2, <2>4, Zenon
  <2>6. "unknown" # "absent"
    OBVIOUS
  <2>. QED  BY <1>1, <1>2, <1>5, <2>5, <2>6, VerdictStep
<1>6. CASE Go(t, Observed(t)) /\ UNCHANGED ledger
  <2>1. Threaded
    BY <1>1, <1>6, ObservedStep
  <2>. QED  BY <1>1, <1>6, <2>1, ThreadStep
<1>. QED  BY <1>4, <1>5, <1>6, Zenon DEF Judge

(* The verdict is enqueued: a good exit only of a trained run, whatever     *)
(* stage it is reported for.                                                *)
LEMMA ReportStep ==
    ASSUME WorkerInv, NEW t \in Threads, Report(t)
    PROVE  StepOK
<1>. DEFINE x == th[t]
            n == ledger[x.run].stage
            u == News(x.res, n)
<1>1. x.pc = "report" /\ x.pc # "idle" /\ UNCHANGED <<sups, file, ledger, outbox>>
  BY DEF Report
<1>2. x.run \in Runs /\ x.run \in KnownIn(ledger) /\ ResultOK(x, TrainedIn(sups))
  <2>1. x.pc \in KnownPlaces /\ x.pc \in ResultPlaces
    BY <1>1 DEF KnownPlaces, ResultPlaces
  <2>. QED  BY <1>1, <2>1, ThreadFacts, Zenon
<1>3. n \in StagesOf(x.run)
  BY <1>2, RowFacts, Zenon
<1>4. NewsOK(x.run, u, TrainedIn(sups))
  <2>. HIDE DEF n
  <2>1. x.res \in Verdicts /\ (x.res = "succeeded" => x.run \in TrainedIn(sups))
    BY <1>1, <1>2 DEF ResultOK
  <2>. HIDE DEF x
  <2>. QED  BY <1>2, <1>3, <2>1, ReportsOK DEF News, Verdicts
<1>5. Observed(t) \in {"idle", "list", "ok", "observe"} /\ Observed(t) # "observe"
  BY DEF Observed, Threads
<1>6. Threaded
  <2>1. Enqueue(t, x.run, u, Observed(t))
    BY Zenon DEF Report
  <2>. HIDE DEF u, n
  <2>. QED  BY <1>1, <1>2, <1>4, <1>5, <2>1, ThreadFacts, EnqueueOK, Zenon DEF Threaded
<1>. QED  BY <1>1, <1>6, ThreadStep

(* The monitor.                                                             *)
LEMMA MonitorStep ==
    ASSUME WorkerInv, MonitorThread
    PROVE  StepOK
<1>0. "mon" \in Threads
  BY DEF Threads
<1>1. ASSUME NEW r \in Runs, MonitorList(r) PROVE StepOK
  <2>1. ReadRow("mon", r, "observe") /\ ledger[r].state # "absent"
    BY <1>1 DEF MonitorList, ActiveStates
  <2>2. Threaded
    <3>1. "observe" \in {"observe", "list"}
      OBVIOUS
    <3>. QED  BY <1>0, <2>1, <3>1, ThreadFacts, ReadRowOK, Zenon DEF Threaded, WorkerInv
  <2>. QED  BY <1>1, <2>2, ThreadStep DEF MonitorList
<1>. QED  BY <1>1, Zenon DEF MonitorThread

(* The main thread.                                                         *)
LEMMA MainStep ==
    ASSUME WorkerInv, MainThread
    PROVE  StepOK
<1>. DEFINE x == th["main"]
<1>0. "main" \in Threads
  BY DEF Threads
<1>1. ASSUME NEW r \in Runs, MainList(r) PROVE StepOK
  <2>. DEFINE pc == IF ledger[r].state \in ActiveStates THEN "observe" ELSE "list"
  <2>1. /\ ReadRow("main", r, pc) /\ pc \in {"observe", "list"}
        /\ pc = "observe" => ledger[r].state # "absent"
    BY <1>1 DEF MainList, ActiveStates
  <2>. HIDE DEF pc
  <2>2. Threaded
    BY <1>0, <2>1, ThreadFacts, ReadRowOK, Zenon DEF Threaded, WorkerInv
  <2>. QED  BY <1>1, <2>2, ThreadStep DEF MainList
<1>3. CASE MainRelist
  <2>. DEFINE r == x.run
              a == [x EXCEPT !.pc = "probe"]
              b == [a EXCEPT !.pid = ledger[r].pid]
              c == [b EXCEPT !.res = ledger[r].state]
  <2>0. x.pc # "idle" /\ r \in Runs
    <3>1. x.pc = "list"
      BY <1>3, Zenon DEF MainRelist
    <3>2. x.pc # "idle"
      BY <3>1
    <3>. QED  BY <1>0, <3>2, ThreadFacts, Zenon
  <2>1. CASE ledger[r].state \in ActiveStates /\ th' = [th EXCEPT !["main"] = c]
    <3>1. ledger[r].state # "absent"
      BY <2>1 DEF ActiveStates
    <3>2. r \in KnownIn(ledger)
      BY <2>0, <3>1, Zenon DEF KnownIn
    <3>3. Keeps(x, c) /\ c.pc = "probe" /\ c.res = ledger[r].state
      <4>1. IsThread(x)
        BY <1>0, ThreadFacts, Zenon
      <4>. HIDE DEF x, r
      <4>2. Keeps(x, a) /\ a.pc = "probe"
        BY <4>1 DEF Keeps, IsThread
      <4>. HIDE DEF a
      <4>3. Keeps(a, b) /\ b.pc = "probe"
        BY <4>2 DEF Keeps, IsThread
      <4>. HIDE DEF b
      <4>4. Keeps(b, c) /\ c.pc = "probe" /\ c.res = ledger[r].state
        BY <4>3 DEF Keeps, IsThread
      <4>. HIDE DEF c
      <4>. QED  BY <4>2, <4>3, <4>4, Zenon DEF Keeps
    <3>. HIDE DEF c
    <3>4. c.pc # "enqueue" /\ c.pc \notin StagePlaces /\ ResultOK(c, TrainedIn(sups))
      <4>1. c.res \notin {"absent", "accepted"}
        BY <2>1, <3>3 DEF ActiveStates
      <4>. QED  BY <3>3, <4>1 DEF StagePlaces, ResultOK
    <3>5. Threaded
      BY <1>0, <2>0, <2>1, <3>2, <3>3, <3>4, ShiftStep, Zenon
    <3>. QED  BY <1>3, <3>5, ThreadStep DEF MainRelist
  <2>2. CASE Go("main", "idle")
    <3>1. /\ "idle" # "enqueue" /\ "idle" \notin StagePlaces /\ "idle" \notin KnownPlaces
          /\ "idle" \notin ResultPlaces
      BY DEF StagePlaces, KnownPlaces, ResultPlaces
    <3>2. Threaded
      BY <1>0, <2>0, <2>2, <3>1, GoStep, Zenon
    <3>. QED  BY <1>3, <3>2, ThreadStep DEF MainRelist
  <2>. QED  BY <1>3, <2>1, <2>2, Zenon DEF MainRelist
<1>4. CASE MainProbe
  <2>. DEFINE a == [x EXCEPT !.pc = "write"]
              b == [a EXCEPT !.flag = SupAlive(x.pid)]
  <2>0. x.pc = "probe" /\ x.pc # "idle" /\ x.pc \in KnownPlaces /\ x.pc \in ResultPlaces
    BY <1>4 DEF MainProbe, KnownPlaces, ResultPlaces
  <2>1. CASE th' = Started
    <3>1. Threaded
      BY <2>1, StartedOK, Zenon DEF Threaded
    <3>. QED  BY <1>4, <3>1, ThreadStep DEF MainProbe
  <2>2. CASE th' = [th EXCEPT !["main"] = b]
    <3>1. Keeps(x, b) /\ b.pc = "write" /\ b.res = x.res
      <4>1. IsThread(x)
        BY <1>0, ThreadFacts, Zenon
      <4>. HIDE DEF x
      <4>2. Keeps(x, a) /\ a.pc = "write" /\ a.res = x.res
        BY <4>1 DEF Keeps, IsThread
      <4>. HIDE DEF a
      <4>3. Keeps(a, b) /\ b.pc = "write" /\ b.res = a.res
        BY <4>2 DEF Keeps, IsThread
      <4>. HIDE DEF b
      <4>. QED  BY <4>2, <4>3, Zenon DEF Keeps
    <3>. HIDE DEF b
    <3>2. b.pc # "enqueue" /\ b.pc \notin StagePlaces
      BY <3>1 DEF StagePlaces
    <3>3. x.run \in KnownIn(ledger) /\ x.res \notin {"absent", "accepted"}
      BY <1>0, <2>0, ThreadFacts, Zenon DEF ResultOK
    <3>4. ResultOK(b, TrainedIn(sups))
      BY <3>1, <3>3 DEF ResultOK
    <3>5. Threaded
      BY <1>0, <2>0, <2>2, <3>1, <3>2, <3>3, <3>4, ShiftStep, Zenon
    <3>. QED  BY <1>4, <3>5, ThreadStep DEF MainProbe
  <2>. QED  BY <1>4, <2>1, <2>2, Zenon DEF MainProbe, ProcessEnds
<1>5. CASE MainWrite
  <2>. DEFINE y == [x EXCEPT !.pc = "reconcile"]
              w == IF x.flag THEN x.res ELSE "unknown"
  <2>1. /\ SetLedger(x.run, w) /\ th' = [th EXCEPT !["main"] = y]
        /\ UNCHANGED <<sups, file, outbox>>
    BY <1>5 DEF MainWrite
  <2>2. x.pc # "idle" /\ x.pc \in KnownPlaces /\ x.pc \in ResultPlaces
    BY <1>5 DEF MainWrite, KnownPlaces, ResultPlaces
  <2>3. x.run \in KnownIn(ledger) /\ x.res # "absent" /\ IsThread(x)
    BY <1>0, <2>2, ThreadFacts, Zenon DEF ResultOK
  <2>4. w # "absent"
    BY <2>3
  <2>. HIDE DEF w
  <2>5. Keeps(x, y) /\ y.pc = "reconcile"
    BY <2>3, RenewsPlace
  <2>. HIDE DEF y
  <2>6. y.pc # "enqueue" /\ y.pc \notin StagePlaces /\ y.pc \notin ResultPlaces
    BY <2>5 DEF StagePlaces, ResultPlaces
  <2>7. Threaded
    BY <1>0, <2>1, <2>2, <2>3, <2>5, <2>6, ShiftStep, Zenon
  <2>. QED  BY <1>0, <2>1, <2>3, <2>4, <2>7, VerdictStep
<1>6. CASE MainReport
  <2>. DEFINE r == x.run
              n == ledger[r].stage
              f == file[r][n]
              st == IF x.flag THEN "running"
                    ELSE IF f.status \in {"running", "exited"} /\ ChildAlive(f.pid)
                         THEN "unresolved" ELSE "lost"
              u == [kind |-> "reconciliation", stage |-> n, status |-> st]
  <2>1. Enqueue("main", r, u, "idle") /\ UNCHANGED <<sups, file, ledger, outbox>>
    BY <1>6 DEF MainReport
  <2>2. x.pc # "idle" /\ x.pc \in KnownPlaces
    BY <1>6 DEF MainReport, KnownPlaces
  <2>3. r \in KnownIn(ledger)
    BY <1>0, <2>2, ThreadFacts, Zenon
  <2>4. r \in Runs /\ n \in StagesOf(r)
    BY <2>3, RowFacts, Zenon DEF KnownIn
  <2>5. st \in {"running", "unresolved", "lost"}
    OBVIOUS
  <2>. HIDE DEF st
  <2>6. NewsOK(r, u, TrainedIn(sups))
    BY <2>4, <2>5, ReportsOK, Zenon
  <2>7. "idle" \in {"idle", "list", "ok", "observe"} /\ "idle" # "observe"
    OBVIOUS
  <2>8. Threaded
    BY <1>0, <2>1, <2>2, <2>3, <2>6, <2>7, ThreadFacts, EnqueueOK, Zenon DEF Threaded
  <2>. QED  BY <2>1, <2>8, ThreadStep
<1>. QED  BY <1>1, <1>3, <1>4, <1>5, <1>6, Zenon DEF MainThread

-----------------------------------------------------------------------------
(* The action thread: a start.                                              *)

(* What is known of the action thread at one of its places.                 *)
LEMMA ActFacts ==
    ASSUME WorkerInv, th["act"].pc # "idle"
    PROVE  /\ "act" \in Threads /\ IsThread(th["act"]) /\ th["act"].run \in Runs
           /\ IsRow(ledger[th["act"].run])
           /\ ledger[th["act"].run].state # "absent" => th["act"].run \in KnownIn(ledger)
           /\ th["act"].run \in KnownIn(ledger) =>
                 ledger[th["act"].run].stage \in StagesOf(th["act"].run)
           /\ th["act"].pc \in StagePlaces => th["act"].stage \in StagesOf(th["act"].run)
           /\ th["act"].pc \in KnownPlaces => th["act"].run \in KnownIn(ledger)
           /\ Later(th["act"].stage) => th["act"].run \in TrainedIn(sups)
<1>1. "act" \in Threads
  BY DEF Threads
<1>. QED  BY <1>1, ThreadFacts, RowFacts, Zenon

(* The action thread goes on, ends or fails; no row is written.             *)
LEMMA QuietStep ==
    ASSUME WorkerInv, UNCHANGED <<sups, file, ledger, outbox>>, th["act"].pc # "idle",
           \/ \E res : Finish(res)
           \/ \E pc : /\ Go("act", pc)
                      /\ pc \notin {"enqueue", "judge", "report", "probe", "write"}
                      /\ pc \in StagePlaces => th["act"].stage \in StagesOf(th["act"].run)
                      /\ pc \in KnownPlaces => th["act"].run \in KnownIn(ledger)
    PROVE  StepOK
<1>1. ASSUME NEW res, Finish(res) PROVE StepOK
  BY <1>1, FinishStep, ThreadStep
<1>2. ASSUME NEW pc, Go("act", pc),
             pc \notin {"enqueue", "judge", "report", "probe", "write"},
             pc \in StagePlaces => th["act"].stage \in StagesOf(th["act"].run),
             pc \in KnownPlaces => th["act"].run \in KnownIn(ledger)
      PROVE  StepOK
  <2>1. pc # "enqueue" /\ pc \notin ResultPlaces
    BY <1>2 DEF ResultPlaces
  <2>2. Threaded
    BY <1>2, <2>1, ActFacts, ThreadFacts, GoOK, Zenon DEF Threaded
  <2>. QED  BY <2>2, ThreadStep
<1>. QED  BY <1>1, <1>2, Zenon

(* Deciding changes only the place of the thread.                           *)
LEMMA StartDecideStep ==
    ASSUME WorkerInv, StartDecide
    PROVE  StepOK
<1>. DEFINE a == th["act"]
            row == ledger[a.run]
<1>1. /\ a.pc = "start" /\ a.pc # "idle" /\ a.pc \in StagePlaces
      /\ UNCHANGED <<sups, file, ledger, outbox>>
  BY DEF StartDecide, StagePlaces
<1>2. \/ \E res : Finish(res)
      \/ SameLaunch(row, a.stage) /\ Go("act", "resume")
      \/ Go("act", "prepare")
  BY Zenon DEF StartDecide
<1>3. CASE SameLaunch(row, a.stage) /\ Go("act", "resume")
  <2>1. row.state # "absent" /\ "resume" \notin {"enqueue", "judge", "report", "probe", "write"}
    BY <1>3 DEF SameLaunch
  <2>2. a.run \in KnownIn(ledger) /\ a.stage \in StagesOf(a.run)
    BY <1>1, <2>1, ActFacts, Zenon
  <2>. QED  BY <1>1, <1>3, <2>1, <2>2, QuietStep
<1>4. CASE Go("act", "prepare")
  <2>1. /\ "prepare" \notin {"enqueue", "judge", "report", "probe", "write"}
        /\ "prepare" \notin KnownPlaces
    BY DEF KnownPlaces
  <2>2. a.stage \in StagesOf(a.run)
    BY <1>1, ActFacts, Zenon
  <2>. QED  BY <1>1, <1>4, <2>1, <2>2, QuietStep
<1>5. CASE \E res : Finish(res)
  BY <1>1, <1>5, QuietStep
<1>. QED  BY <1>2, <1>3, <1>4, <1>5

(* The row of a launch is for the stage the action names.                   *)
LEMMA RecordLaunchStep ==
    ASSUME WorkerInv, RecordLaunch
    PROVE  StepOK
<1>. DEFINE a == th["act"]
            r == a.run
            n == a.stage
            w == LaunchRow(ledger[r], n)
            T == TrainedIn(sups)
<1>1. /\ a.pc = "prepare" /\ a.pc # "idle" /\ a.pc \in StagePlaces
      /\ UNCHANGED <<sups, file, outbox>> /\ Go("act", "spawn")
  BY DEF RecordLaunch, StagePlaces
<1>2. ledger' = [ledger EXCEPT ![r] = w]
  BY Zenon DEF RecordLaunch
<1>3. r \in Runs /\ n \in StagesOf(r) /\ (Later(n) => r \in T) /\ IsRow(ledger[r])
  BY <1>1, ActFacts, Zenon
<1>4. IsRow(w) /\ w.state = "accepted" /\ w.stage = n
  <2>. DEFINE v == ledger[r]
              b == [v EXCEPT !.state = "accepted"]
              c == [b EXCEPT !.stage = n]
              d == [c EXCEPT !.pid = 0]
              k == IF v.state = "accepted" THEN v.token ELSE v.token + 1
              e == [d EXCEPT !.token = k]
  <2>1. w = e
    <3>1. IsRow(v)
      BY <1>3, Zenon
    <3>2. d.token = v.token
      <4>. HIDE DEF v, n
      <4>. QED  BY <3>1 DEF IsRow
    <3>3. w = [d EXCEPT !.token = IF v.state = "accepted" THEN d.token ELSE d.token + 1]
      BY Zenon DEF LaunchRow
    <3>. HIDE DEF d, v, w
    <3>4. e = [d EXCEPT !.token = IF v.state = "accepted" THEN v.token ELSE v.token + 1]
      BY Zenon
    <3>. QED  BY <3>2, <3>3, <3>4
  <2>2. IsRow(v)
    BY <1>3, Zenon
  <2>. HIDE DEF v, k, n, w
  <2>3. IsRow(b) /\ b.state = "accepted"
    BY <2>2 DEF IsRow
  <2>. HIDE DEF b
  <2>4. IsRow(c) /\ c.state = "accepted" /\ c.stage = n
    BY <2>3 DEF IsRow
  <2>. HIDE DEF c
  <2>5. IsRow(d) /\ d.state = "accepted" /\ d.stage = n
    BY <2>4 DEF IsRow
  <2>. HIDE DEF d
  <2>6. IsRow(e) /\ e.state = "accepted" /\ e.stage = n
    BY <2>5 DEF IsRow
  <2>. QED  BY <2>1, <2>6, Zenon
<1>. HIDE DEF w
<1>5. RowOK(r, w, T) /\ w.state # "absent"
  BY <1>3, <1>4 DEF RowOK
<1>6. /\ RowsOK(ledger', T) /\ KnownIn(ledger) \subseteq KnownIn(ledger')
      /\ r \in KnownIn(ledger')
  BY <1>2, <1>3, <1>5, RowWritten, Zenon DEF WorkerInv
<1>7. ThreadsOK(th', T, KnownIn(ledger'))
  <2>1. ThreadsOK(th, T, KnownIn(ledger'))
    BY <1>6, MoreIsFine, Zenon DEF WorkerInv
  <2>2. "spawn" # "enqueue" /\ "spawn" \notin ResultPlaces
    BY DEF ResultPlaces
  <2>. QED  BY <1>1, <1>3, <1>6, <2>1, <2>2, ActFacts, GoOK, Zenon
<1>8. TrainedIn(sups') = T
  BY <1>1
<1>. HIDE DEF T
<1>9. ThreadsOK(th', TrainedIn(sups'), KnownIn(ledger')) /\ RowsOK(ledger', TrainedIn(sups'))
  BY <1>6, <1>7, <1>8, Zenon
<1>. QED  BY <1>1, <1>6, <1>8, <1>9, Zenon DEF StepOK, T

(* A new supervisor is given the stage of the action, and is in order.      *)
LEMMA SpawnSupervisorStep ==
    ASSUME WorkerInv, SpawnSupervisor
    PROVE  StepOK
<1>. DEFINE a == th["act"]
            s == [run |-> a.run, stage |-> a.stage, st |-> "boot",
                  token |-> ledger[a.run].token, child |-> "none"]
            k == Len(sups) + 1
            y == [a EXCEPT !.pc = "await"]
            z == [y EXCEPT !.pid = k]
<1>1. /\ a.pc = "spawn" /\ a.pc # "idle" /\ a.pc \in StagePlaces /\ a.pc \in KnownPlaces
      /\ UNCHANGED <<file, ledger, outbox>>
  BY DEF SpawnSupervisor, StagePlaces, KnownPlaces
<1>2. sups' = Append(sups, s) /\ th' = [th EXCEPT !["act"] = z]
  BY Zenon DEF SpawnSupervisor
<1>3. /\ a.run \in Runs /\ a.stage \in StagesOf(a.run) /\ a.run \in KnownIn(ledger)
      /\ Later(a.stage) => a.run \in TrainedIn(sups)
      /\ IsThread(a) /\ "act" \in Threads
  BY <1>1, ActFacts, Zenon
<1>4. Grown(sups, sups', s)
  BY <1>2, SequenceGrows, Zenon DEF WorkerInv, SupsOK
<1>5. PICK q : /\ IsSequence(sups') /\ DOMAIN sups' = DOMAIN sups \cup {q}
               /\ \A p \in DOMAIN sups : sups'[p] = sups[p]
               /\ sups'[q] = s
  BY <1>4, Zenon DEF Grown
<1>6. TrainedIn(sups) \subseteq TrainedIn(sups')
  BY <1>5, Zenon DEF TrainedIn
<1>7. SupsOK(sups', TrainedIn(sups'))
  <2>1. SupervisorOK(s, TrainedIn(sups'))
    <3>1. IsSupervisor(s) /\ s.run = a.run /\ s.stage = a.stage /\ s.child = "none"
      BY DEF IsSupervisor
    <3>. HIDE DEF s
    <3>. QED  BY <1>3, <1>6, <3>1, Zenon DEF SupervisorOK
  <2>2. \A p \in DOMAIN sups : SupervisorOK(sups[p], TrainedIn(sups'))
    BY <1>6, MoreIsFine, Zenon DEF WorkerInv, SupsOK
  <2>. HIDE DEF s
  <2>3. \A p \in DOMAIN sups' : SupervisorOK(sups'[p], TrainedIn(sups'))
    BY <1>5, <2>1, <2>2, Zenon
  <2>. QED  BY <1>5, <2>3, Zenon DEF SupsOK
<1>8. FilesOK(file', TrainedIn(sups'))
  BY <1>1, <1>6, MoreIsFine, Zenon DEF WorkerInv
<1>9. Threaded
  <2>1. Keeps(a, z) /\ z.pc = "await"
    <3>. HIDE DEF a, k
    <3>1. Keeps(a, y) /\ y.pc = "await"
      BY <1>3 DEF Keeps, IsThread
    <3>. HIDE DEF y
    <3>2. Keeps(y, z) /\ z.pc = "await"
      BY <3>1 DEF Keeps, IsThread
    <3>. HIDE DEF z
    <3>. QED  BY <3>1, <3>2, Zenon DEF Keeps
  <2>. HIDE DEF z
  <2>2. z.pc # "enqueue" /\ z.pc \notin ResultPlaces
    BY <2>1 DEF ResultPlaces
  <2>. QED  BY <1>1, <1>2, <1>3, <2>1, <2>2, ShiftStep, Zenon
<1>10. ProcessesOK
  BY <1>6, <1>7, <1>8, Zenon DEF ProcessesOK
<1>. QED  BY <1>1, <1>9, <1>10, ProcessStep

(* A supervisor that is given up ends, and perhaps its child with it.       *)
LEMMA GiveUpStep ==
    ASSUME WorkerInv, UNCHANGED <<ledger, outbox>>, th["act"].pc # "idle",
           NEW res, Finish(res),
           NEW p, \/ Terminate(p)
                  \/ \E f : IsFile(f) /\ TerminateWithChild(p, f)
    PROVE  StepOK
<1>1. ProcessesOK
  BY TerminateOK, TerminateWithChildOK, Zenon DEF WorkerInv
<1>2. Threaded
  BY FinishStep, Zenon
<1>. QED  BY <1>1, <1>2, ProcessStep

(* Waiting for the supervisor.                                              *)
LEMMA AwaitSupervisorStep ==
    ASSUME WorkerInv, AwaitSupervisor \/ AwaitFails
    PROVE  StepOK
<1>. DEFINE a == th["act"]
            f == file[a.run][a.stage]
<1>1. /\ a.pc = "await" /\ a.pc # "idle" /\ a.pc \in StagePlaces /\ a.pc \in KnownPlaces
      /\ UNCHANGED <<ledger, outbox>>
  BY DEF AwaitSupervisor, AwaitFails, StagePlaces, KnownPlaces
<1>2. a.run \in Runs /\ a.stage \in StagesOf(a.run) /\ a.run \in KnownIn(ledger)
  BY <1>1, ActFacts, Zenon
<1>3. IsFile(f)
  BY <1>2, RowFacts, Zenon
<1>4. \/ Go("act", "attach") /\ UNCHANGED <<sups, file>>
      \/ Finish("failed") /\ TerminateWithChild(a.pid, f)
      \/ Finish("failed") /\ Terminate(a.pid)
  BY Zenon DEF AwaitSupervisor, AwaitFails
<1>5. CASE Go("act", "attach") /\ UNCHANGED <<sups, file>>
  <2>1. "attach" \notin {"enqueue", "judge", "report", "probe", "write"}
    OBVIOUS
  <2>. QED  BY <1>1, <1>2, <1>5, <2>1, QuietStep
<1>6. CASE Finish("failed") /\ TerminateWithChild(a.pid, f)
  BY <1>1, <1>3, <1>6, GiveUpStep, Zenon
<1>7. CASE Finish("failed") /\ Terminate(a.pid)
  BY <1>1, <1>7, GiveUpStep, Zenon
<1>. QED  BY <1>4, <1>5, <1>6, <1>7

(* The row learns its pid, or the launch is given up.                       *)
LEMMA AttachStep ==
    ASSUME WorkerInv, Attach
    PROVE  StepOK
<1>. DEFINE a == th["act"]
            r == a.run
            f == file[a.run][a.stage]
            T == TrainedIn(sups)
<1>1. /\ a.pc = "attach" /\ a.pc # "idle" /\ a.pc \in StagePlaces /\ a.pc \in KnownPlaces
      /\ UNCHANGED outbox
  BY DEF Attach, StagePlaces, KnownPlaces
<1>2. r \in Runs /\ a.stage \in StagesOf(r) /\ r \in KnownIn(ledger)
  BY <1>1, ActFacts, Zenon
<1>3. IsFile(f)
  BY <1>2, RowFacts, Zenon
<1>4. CASE /\ ledger' = [ledger EXCEPT ![r].pid = a.pid] /\ Go("act", "commit")
           /\ UNCHANGED <<sups, file>>
  <2>. DEFINE v == ledger[r]
              w == [v EXCEPT !.pid = a.pid]
  <2>1. RowOK(r, v, T) /\ v.state # "absent"
    BY <1>2, Zenon DEF WorkerInv, RowsOK, KnownIn
  <2>2. ledger' = [ledger EXCEPT ![r] = w]
    BY <1>4, Zenon
  <2>3. IsRow(w) /\ w.stage = v.stage /\ w.state = v.state
    <3>. DEFINE k == a.pid
    <3>. HIDE DEF v, k
    <3>. QED  BY <2>1 DEF IsRow, RowOK
  <2>. HIDE DEF w
  <2>4. RowOK(r, w, T) /\ w.state # "absent"
    <3>. HIDE DEF v
    <3>. QED  BY <2>1, <2>3, Zenon DEF RowOK
  <2>5. RowsOK(ledger', T) /\ KnownIn(ledger) \subseteq KnownIn(ledger')
    BY <1>2, <2>2, <2>4, RowWritten, Zenon DEF WorkerInv
  <2>6. Threaded
    <3>1. "commit" # "enqueue" /\ "commit" \notin ResultPlaces
      BY DEF ResultPlaces
    <3>. QED  BY <1>1, <1>2, <1>4, <3>1, ActFacts, ThreadFacts, GoOK, Zenon DEF Threaded
  <2>. QED  BY <1>1, <1>4, <2>5, <2>6, LedgerStep
<1>5. CASE Go("act", "idle") /\ UNCHANGED <<sups, file, ledger>>
  <2>1. /\ "idle" \notin {"enqueue", "judge", "report", "probe", "write"}
        /\ "idle" \notin StagePlaces /\ "idle" \notin KnownPlaces
    BY DEF StagePlaces, KnownPlaces
  <2>. QED  BY <1>1, <1>5, <2>1, QuietStep
<1>6. CASE Finish("failed") /\ TerminateWithChild(a.pid, f) /\ UNCHANGED ledger
  <2>1. UNCHANGED <<ledger, outbox>>
    BY <1>1, <1>6
  <2>. QED  BY <1>1, <1>3, <1>6, <2>1, GiveUpStep, Zenon
<1>. QED  BY <1>4, <1>5, <1>6 DEF Attach

(* Waiting for the child, once the decision is written.                     *)
LEMMA AwaitTrainingStep ==
    ASSUME WorkerInv, WriteCommit \/ AwaitTraining \/ AwaitTrainingFails
    PROVE  StepOK
<1>. DEFINE a == th["act"]
<1>1. /\ a.pc \in {"commit", "launched"} /\ a.pc # "idle"
      /\ a.pc \in StagePlaces /\ a.pc \in KnownPlaces
      /\ UNCHANGED <<ledger, outbox>>
  BY DEF WriteCommit, AwaitTraining, AwaitTrainingFails, StagePlaces, KnownPlaces
<1>2. a.run \in Runs /\ a.stage \in StagesOf(a.run) /\ a.run \in KnownIn(ledger)
  BY <1>1, ActFacts, Zenon
<1>3. CASE WriteCommit
  <2>1. /\ Go("act", "launched") /\ UNCHANGED <<sups, file>>
        /\ "launched" \notin {"enqueue", "judge", "report", "probe", "write"}
    BY <1>3 DEF WriteCommit
  <2>. QED  BY <1>1, <1>2, <2>1, QuietStep
<1>4. CASE AwaitTraining
  <2>1. /\ Go("act", "setRunning") /\ UNCHANGED <<sups, file>>
        /\ "setRunning" \notin {"enqueue", "judge", "report", "probe", "write"}
    BY <1>4 DEF AwaitTraining
  <2>. QED  BY <1>1, <1>2, <2>1, QuietStep
<1>5. CASE AwaitTrainingFails
  <2>1. \/ Finish("unresolved") /\ UNCHANGED <<sups, file>>
        \/ Finish("failed") /\ Terminate(a.pid)
    BY <1>5, Zenon DEF AwaitTrainingFails
  <2>2. CASE Finish("unresolved") /\ UNCHANGED <<sups, file>>
    BY <1>1, <2>2, QuietStep
  <2>3. CASE Finish("failed") /\ Terminate(a.pid)
    BY <1>1, <2>3, GiveUpStep, Zenon
  <2>. QED  BY <2>1, <2>2, <2>3
<1>. QED  BY <1>3, <1>4, <1>5

(* "started" is reported.                                                   *)
LEMMA RunningStep ==
    ASSUME WorkerInv, SetRunning \/ ActOk \/ LaunchFails
    PROVE  StepOK
<1>. DEFINE a == th["act"]
<1>1. CASE SetRunning
  <2>. DEFINE pc == IF a.flag THEN "observe" ELSE "ok"
              u == [kind |-> "started", stage |-> a.stage, status |-> "none"]
  <2>1. /\ a.pc # "idle" /\ a.pc \in StagePlaces /\ a.pc \in KnownPlaces
        /\ UNCHANGED <<sups, file, outbox>>
    BY <1>1 DEF SetRunning, StagePlaces, KnownPlaces
  <2>2. SetLedger(a.run, "running") /\ Enqueue("act", a.run, u, pc)
    BY <1>1, Zenon DEF SetRunning
  <2>3. /\ a.run \in Runs /\ a.stage \in StagesOf(a.run) /\ a.run \in KnownIn(ledger)
        /\ "act" \in Threads
    BY <2>1, ActFacts, Zenon
  <2>4. NewsOK(a.run, u, TrainedIn(sups))
    BY <2>3, ReportsOK, Zenon
  <2>5. pc \in {"idle", "list", "ok", "observe"} /\ "running" # "absent"
    OBVIOUS
  <2>6. Threaded
    BY <2>1, <2>2, <2>3, <2>4, <2>5, ThreadFacts, EnqueueOK, Zenon DEF Threaded
  <2>. QED  BY <2>1, <2>2, <2>3, <2>5, <2>6, VerdictStep, Zenon
<1>3. CASE ActOk \/ LaunchFails
  <2>1. /\ a.pc # "idle" /\ UNCHANGED <<sups, file, ledger, outbox>>
        /\ \E res : Finish(res)
    BY <1>3 DEF ActOk, LaunchFails
  <2>. QED  BY <2>1, QuietStep
<1>. QED  BY <1>1, <1>3

(* A launch is resumed, or made again without the old state file.           *)
LEMMA ResumeStep ==
    ASSUME WorkerInv, ResumeRelaunch \/ ResumeUnresolved \/ ResumeLaunch
    PROVE  StepOK
<1>. DEFINE a == th["act"]
            f == file[a.run][a.stage]
<1>1. /\ a.pc = "resume" /\ a.pc # "idle" /\ a.pc \in StagePlaces /\ a.pc \in KnownPlaces
      /\ UNCHANGED <<sups, ledger, outbox>>
  BY DEF ResumeRelaunch, ResumeUnresolved, ResumeLaunch, StagePlaces, KnownPlaces
<1>2. /\ a.run \in Runs /\ a.stage \in StagesOf(a.run) /\ a.run \in KnownIn(ledger)
      /\ "act" \in Threads /\ IsThread(a)
  BY <1>1, ActFacts, Zenon
<1>3. CASE ResumeRelaunch
  <2>1. Go("act", "prepare") /\ file' = [file EXCEPT ![a.run][a.stage] = NoFile]
    BY <1>3, Zenon DEF ResumeRelaunch
  <2>2. "prepare" # "enqueue" /\ "prepare" \notin ResultPlaces /\ "prepare" \notin KnownPlaces
    BY DEF ResultPlaces, KnownPlaces
  <2>3. Threaded
    BY <1>1, <1>2, <2>1, <2>2, ThreadFacts, GoOK, Zenon DEF Threaded
  <2>4. FilesOK(file', TrainedIn(sups))
    BY <2>1, FileWithoutCode, Zenon DEF WorkerInv, NoFile, FileStates
  <2>5. sups' = sups
    BY <1>1
  <2>6. ProcessesOK
    BY <2>4, <2>5, Zenon DEF ProcessesOK, WorkerInv
  <2>. QED  BY <1>1, <2>3, <2>6, ProcessStep
<1>4. CASE ResumeUnresolved
  <2>1. UNCHANGED file /\ \E res : Finish(res)
    BY <1>4 DEF ResumeUnresolved
  <2>. QED  BY <1>1, <2>1, QuietStep
<1>5. CASE ResumeLaunch
  <2>. DEFINE k == f.pid
              pc == IF f.status = "exited" THEN "setRunning" ELSE "attach"
              yes == TRUE
              x == [a EXCEPT !.flag = yes]
              y == [x EXCEPT !.pid = k]
              z == [y EXCEPT !.pc = pc]
  <2>1. th' = [th EXCEPT !["act"] = z] /\ UNCHANGED file
    BY <1>5, Zenon DEF ResumeLaunch
  <2>2. pc \notin {"enqueue", "judge", "report", "probe", "write"}
    OBVIOUS
  <2>. HIDE DEF pc, k, yes
  <2>3. Keeps(a, z) /\ z.pc = pc
    <3>. HIDE DEF a
    <3>1. Keeps(a, x)
      BY <1>2 DEF Keeps, IsThread
    <3>. HIDE DEF x
    <3>2. Keeps(x, y)
      BY <3>1 DEF Keeps, IsThread
    <3>. HIDE DEF y
    <3>3. Keeps(y, z) /\ z.pc = pc
      BY <3>2 DEF Keeps, IsThread
    <3>. HIDE DEF z
    <3>. QED  BY <3>1, <3>2, <3>3, Zenon DEF Keeps
  <2>. HIDE DEF z
  <2>4. z.pc # "enqueue" /\ z.pc \notin ResultPlaces
    BY <2>2, <2>3 DEF ResultPlaces
  <2>5. Threaded
    BY <1>1, <1>2, <2>1, <2>3, <2>4, ShiftStep, Zenon
  <2>. QED  BY <1>1, <2>1, <2>5, ThreadStep
<1>. QED  BY <1>3, <1>4, <1>5

-----------------------------------------------------------------------------
(* The action thread: a stop.                                               *)
LEMMA StopStep ==
    ASSUME WorkerInv, StopDecide \/ StopRead \/ WriteCancel \/ StopKill \/ StopRecord
    PROVE  StepOK
<1>. DEFINE a == th["act"]
            r == a.run
            T == TrainedIn(sups)
<1>1. CASE StopDecide
  <2>. DEFINE row == ledger[r]
  <2>1. a.pc = "stop" /\ a.pc # "idle" /\ UNCHANGED <<sups, file, outbox>>
    BY <1>1 DEF StopDecide
  <2>2. CASE (\E res : Finish(res)) /\ UNCHANGED ledger
    <3>1. UNCHANGED <<sups, file, ledger, outbox>>
      BY <2>1, <2>2
    <3>. QED  BY <2>1, <2>2, <3>1, QuietStep
  <2>3. CASE /\ row.state \in {"accepted", "running", "stopping"}
             /\ SetLedger(r, "stopping")
             /\ th' = [th EXCEPT !["act"].pc = "stopRead", !["act"].stage = row.stage,
                                 !["act"].flag = (row.state = "accepted")]
    <3>1. row.state # "absent"
      BY <2>3
    <3>2. /\ "act" \in Threads /\ IsThread(a) /\ r \in Runs /\ r \in KnownIn(ledger)
          /\ ThreadOK(a, T, KnownIn(ledger))
      BY <2>1, <3>1, ActFacts, ThreadFacts, Zenon
    <3>3. RowsOK(ledger', T) /\ KnownIn(ledger) \subseteq KnownIn(ledger')
      BY <2>3, <3>2, StateSet DEF WorkerInv
    <3>. DEFINE n == row.stage
                g == (row.state = "accepted")
                x == [a EXCEPT !.pc = "stopRead"]
                y == [x EXCEPT !.stage = n]
                z == [y EXCEPT !.flag = g]
    <3>4. th' = [th EXCEPT !["act"] = z]
      BY <2>3, Zenon
    <3>5. Later(n) => r \in T
      BY <3>2, RowFacts, Zenon
    <3>. HIDE DEF g, n
    <3>6. IsThread(z) /\ z.pc = "stopRead" /\ z.run = a.run /\ z.stage = n
      <4>. HIDE DEF a
      <4>1. IsThread(x) /\ x.pc = "stopRead" /\ x.run = a.run
        BY <3>2 DEF IsThread
      <4>. HIDE DEF x
      <4>2. IsThread(y) /\ y.pc = "stopRead" /\ y.run = a.run /\ y.stage = n
        BY <4>1 DEF IsThread
      <4>. HIDE DEF y
      <4>. QED  BY <4>2 DEF IsThread
    <3>. HIDE DEF z
    <3>7. ThreadOK(z, T, KnownIn(ledger))
      <4>1. z.pc \notin StagePlaces /\ z.pc # "enqueue" /\ z.pc \notin ResultPlaces
        BY <3>6 DEF StagePlaces, ResultPlaces
      <4>. QED  BY <3>2, <3>5, <3>6, <4>1, Zenon DEF ThreadOK
    <3>8. Threaded
      BY <3>2, <3>4, <3>7, ThreadFacts, OneThread, Zenon DEF Threaded
    <3>. QED  BY <2>1, <3>3, <3>8, LedgerStep
  <2>. QED  BY <1>1, <2>2, <2>3, Zenon DEF StopDecide
<1>2. CASE StopRead
  <2>. DEFINE f == file[r][a.stage]
              pc == IF a.flag THEN "stopCancel" ELSE "stopKill"
              k == IF f.status \in {"running", "exited"} THEN f.pid ELSE 0
              x == [a EXCEPT !.pc = pc]
              y == [x EXCEPT !.pid = k]
  <2>1. a.pc # "idle" /\ a.pc \in KnownPlaces /\ UNCHANGED <<sups, file, ledger, outbox>>
    BY <1>2 DEF StopRead, KnownPlaces
  <2>2. "act" \in Threads /\ IsThread(a) /\ r \in KnownIn(ledger)
    BY <2>1, ActFacts, Zenon
  <2>3. th' = [th EXCEPT !["act"] = y]
    BY <1>2, Zenon DEF StopRead
  <2>4. pc \in {"stopCancel", "stopKill"}
    OBVIOUS
  <2>. HIDE DEF pc, k
  <2>5. Keeps(a, y) /\ y.pc = pc
    <3>. HIDE DEF a
    <3>1. Keeps(a, x) /\ x.pc = pc
      BY <2>2 DEF Keeps, IsThread
    <3>. HIDE DEF x
    <3>2. Keeps(x, y) /\ y.pc = x.pc
      BY <3>1 DEF Keeps, IsThread
    <3>. HIDE DEF y
    <3>. QED  BY <3>1, <3>2, Zenon DEF Keeps
  <2>. HIDE DEF y
  <2>6. y.pc # "enqueue" /\ y.pc \notin ResultPlaces /\ y.pc \notin StagePlaces
    BY <2>4, <2>5 DEF ResultPlaces, StagePlaces
  <2>7. Threaded
    BY <2>1, <2>2, <2>3, <2>5, <2>6, ShiftStep, Zenon
  <2>. QED  BY <2>1, <2>7, ThreadStep
<1>3. CASE WriteCancel
  <2>1. /\ a.pc # "idle" /\ a.pc \in KnownPlaces /\ UNCHANGED <<sups, file, ledger, outbox>>
        /\ Go("act", "stopKill")
        /\ "stopKill" \notin {"enqueue", "judge", "report", "probe", "write"}
        /\ "stopKill" \notin StagePlaces
    BY <1>3 DEF WriteCancel, KnownPlaces, StagePlaces
  <2>2. r \in KnownIn(ledger)
    BY <2>1, ActFacts, Zenon
  <2>. QED  BY <2>1, <2>2, QuietStep
<1>4. CASE StopKill
  <2>1. /\ a.pc # "idle" /\ a.pc \in KnownPlaces /\ UNCHANGED <<ledger, outbox>>
        /\ Go("act", "stopped")
        /\ "stopped" \notin ResultPlaces /\ "stopped" # "enqueue" /\ "stopped" \notin StagePlaces
    BY <1>4 DEF StopKill, KnownPlaces, StagePlaces, ResultPlaces
  <2>2. r \in KnownIn(ledger) /\ "act" \in Threads
    BY <2>1, ActFacts, Zenon
  <2>3. Threaded
    BY <2>1, <2>2, ThreadFacts, GoOK, Zenon DEF Threaded
  <2>4. CASE ChildAlive(a.pid) /\ \E c \in {"ok", "bad"} : ChildEnds(a.pid, c)
    <3>1. ProcessesOK
      BY <2>4, ChildEndsOK, Zenon DEF WorkerInv
    <3>. QED  BY <2>1, <2>3, <3>1, ProcessStep
  <2>5. CASE UNCHANGED <<sups, file>>
    <3>1. UNCHANGED <<sups, file, ledger, outbox>>
      BY <2>1, <2>5
    <3>. QED  BY <2>3, <3>1, ThreadStep
  <2>. QED  BY <1>4, <2>4, <2>5, Zenon DEF StopKill
<1>5. CASE StopRecord
  <2>. DEFINE y == [[a EXCEPT !.pc = "report"] EXCEPT !.res = "cancelled"]
  <2>1. /\ a.pc # "idle" /\ a.pc \in KnownPlaces /\ UNCHANGED <<sups, file, outbox>>
        /\ SetLedger(r, "cancelled")
    BY <1>5 DEF StopRecord, KnownPlaces
  <2>2. th' = [th EXCEPT !["act"] = y]
    BY <1>5, Zenon DEF StopRecord
  <2>3. r \in KnownIn(ledger) /\ "act" \in Threads /\ IsThread(a)
    BY <2>1, ActFacts, Zenon
  <2>0. RenewsAt(a, y, "report", "cancelled")
    BY <2>3, RenewsResult, Zenon
  <2>4. Keeps(a, y) /\ y.pc = "report" /\ y.res = "cancelled"
    BY <2>0, Zenon DEF RenewsAt, Renews
  <2>. HIDE DEF y
  <2>5. y.pc # "enqueue" /\ y.pc \notin StagePlaces /\ ResultOK(y, T)
    BY <2>4 DEF StagePlaces, ResultOK, Verdicts
  <2>6. Threaded
    BY <2>1, <2>2, <2>3, <2>4, <2>5, ShiftStep, Zenon
  <2>7. "cancelled" # "absent"
    OBVIOUS
  <2>. QED  BY <2>1, <2>3, <2>6, <2>7, VerdictStep, Zenon
<1>. QED  BY <1>1, <1>2, <1>3, <1>4, <1>5

(* Whatever the action thread does.                                         *)
LEMMA ActionThreadStep ==
    ASSUME WorkerInv, ActionThread
    PROVE  StepOK
BY StartDecideStep, RunningStep, RecordLaunchStep, SpawnSupervisorStep, AwaitSupervisorStep,
   AttachStep, AwaitTrainingStep, ResumeStep, StopStep, Zenon DEF ActionThread

-----------------------------------------------------------------------------
(* The supervisors, and the failures of the node.                           *)
LEMMA SupervisorsStep ==
    ASSUME WorkerInv, Processes
    PROVE  StepOK
<1>1. PICK p \in DOMAIN sups : SupervisorStep(p) \/ \E c \in {"ok", "bad"} : ChildExits(p, c)
  BY Zenon DEF Processes
<1>. DEFINE s == sups[p]
<1>2. SupsOK(sups, TrainedIn(sups)) /\ FilesOK(file, TrainedIn(sups))
  BY Zenon DEF WorkerInv
<1>3. s.st \in {"boot", "waiting", "decided"} => s.child = "none"
  BY <1>2, Zenon DEF SupsOK, SupervisorOK
<1>4. UNCHANGED <<ledger, outbox, th>>
  BY <1>1 DEF SupervisorStep, SupervisorBoot, SupervisorDecide, SupervisorSpawn, ChildExits
<1>5. CASE SupervisorBoot(p)
  <2>1. PICK st \in {"gone", "waiting"} :
             /\ s.st = "boot" /\ sups' = [sups EXCEPT ![p].st = st]
             /\ \/ file' = file
                \/ file' = [file EXCEPT ![s.run][s.stage] =
                       [status |-> "waiting", token |-> s.token, pid |-> p, code |-> "none"]]
    BY <1>5, Zenon DEF SupervisorBoot
  <2>2. s.child = "none"
    BY <1>3, <2>1
  <2>3. TrainedIn(sups) \subseteq TrainedIn(sups') /\ SupsOK(sups', TrainedIn(sups'))
    BY <1>2, <2>1, <2>2, PlaceChanged, Zenon
  <2>4. FilesOK(file', TrainedIn(sups'))
    <3>1. CASE file' = file
      BY <1>2, <2>3, <3>1, MoreIsFine, Zenon
    <3>2. CASE file' = [file EXCEPT ![s.run][s.stage] =
                       [status |-> "waiting", token |-> s.token, pid |-> p, code |-> "none"]]
      BY <1>2, <2>3, <3>2, FileWithoutCode, Zenon DEF FileStates
    <3>. QED  BY <2>1, <3>1, <3>2
  <2>. QED  BY <1>4, <2>3, <2>4, ProcessStep DEF ProcessesOK
<1>6. CASE SupervisorDecide(p)
  <2>1. PICK st \in {"gone", "decided"} :
             s.st = "waiting" /\ sups' = [sups EXCEPT ![p].st = st] /\ file' = file
    BY <1>6 DEF SupervisorDecide
  <2>2. s.child = "none"
    BY <1>3, <2>1
  <2>3. TrainedIn(sups) \subseteq TrainedIn(sups') /\ SupsOK(sups', TrainedIn(sups'))
    BY <1>2, <2>1, <2>2, PlaceChanged, Zenon
  <2>4. FilesOK(file', TrainedIn(sups'))
    BY <1>2, <2>1, <2>3, MoreIsFine, Zenon
  <2>. QED  BY <1>4, <2>3, <2>4, ProcessStep DEF ProcessesOK
<1>7. CASE SupervisorSpawn(p)
  <2>1. /\ s.st = "decided"
        /\ sups' = [sups EXCEPT ![p].st = "running", ![p].child = "alive"]
        /\ file' = [file EXCEPT ![s.run][s.stage] =
                       [status |-> "running", token |-> s.token, pid |-> p, code |-> "none"]]
    BY <1>7, Zenon DEF SupervisorSpawn
  <2>2. "running" \in {"running", "gone"}
    OBVIOUS
  <2>3. TrainedIn(sups) \subseteq TrainedIn(sups') /\ SupsOK(sups', TrainedIn(sups'))
    BY <1>2, <2>1, <2>2, ChildStarted, Zenon
  <2>4. FilesOK(file', TrainedIn(sups'))
    BY <1>2, <2>1, <2>3, FileWithoutCode, Zenon DEF FileStates
  <2>. QED  BY <1>4, <2>3, <2>4, ProcessStep DEF ProcessesOK
<1>8. CASE \E c \in {"ok", "bad"} : ChildExits(p, c)
  <2>1. ChildAlive(p) /\ \E c \in {"ok", "bad"} : ChildEnds(p, c)
    BY <1>8, Zenon DEF ChildExits
  <2>2. ProcessesOK
    BY <1>2, <2>1, ChildEndsOK, Zenon
  <2>. QED  BY <1>4, <2>2, ProcessStep
<1>. QED  BY <1>1, <1>5, <1>6, <1>7, <1>8, Zenon DEF SupervisorStep

(* A supervisor dies, or the Worker and all that its threads knew.          *)
LEMMA FailureStep ==
    ASSUME WorkerInv, Kills \/ WorkerCrash
    PROVE  StepOK
<1>1. CASE Kills
  <2>1. PICK p \in DOMAIN sups : /\ sups' = [sups EXCEPT ![p].st = "gone"]
                                 /\ UNCHANGED <<ledger, outbox, th, file>>
    BY <1>1 DEF Kills, SupervisorKilled
  <2>2. TrainedIn(sups) \subseteq TrainedIn(sups') /\ SupsOK(sups', TrainedIn(sups'))
    BY <2>1, PlaceChanged DEF WorkerInv
  <2>3. FilesOK(file', TrainedIn(sups'))
    BY <2>1, <2>2, MoreIsFine DEF WorkerInv
  <2>. QED  BY <2>1, <2>2, <2>3, ProcessStep DEF ProcessesOK
<1>2. CASE WorkerCrash
  <2>1. th' = Started /\ UNCHANGED <<sups, file, ledger, outbox>>
    BY <1>2 DEF WorkerCrash
  <2>2. Threaded
    BY <2>1, StartedOK, Zenon DEF Threaded
  <2>. QED  BY <2>1, <2>2, ThreadStep
<1>. QED  BY <1>1, <1>2

-----------------------------------------------------------------------------
(* Center and Worker.  The table of actions stays in order: an action for a *)
(* later stage is queued only on the news that a stage of the run ended     *)
(* well.                                                                    *)
LEMMA ActionsStayOK ==
    ASSUME NEW T, ActionsOK(actions, T), NEW N, N \subseteq T, TableStep(N)
    PROVE  ActionsOK(actions', T)
<1>1. ASSUME NEW b, Rewritten(actions, b) PROVE ActionsOK(b, T)
  <2>. SUFFICES ASSUME NEW i \in DOMAIN b PROVE ActionOK(b[i], T)
    BY Zenon DEF ActionsOK
  <2>1. /\ i \in DOMAIN actions /\ b[i].run = actions[i].run
        /\ b[i].kind = actions[i].kind /\ b[i].stage = actions[i].stage
    BY <1>1, Zenon DEF Rewritten
  <2>2. ActionOK(actions[i], T)
    BY <2>1, Zenon DEF ActionsOK
  <2>. QED  BY <2>1, <2>2, Zenon DEF ActionOK
<1>2. ASSUME NEW r, NEW kind, NEW n, Queued(actions, actions', r, kind, n),
             kind = "start" => n \in StagesOf(r), Later(n) => r \in T
      PROVE  ActionsOK(actions', T)
  <2>1. PICK c : Rewritten(actions, c) /\ actions' = QueueAction(c, r, kind, n)
    BY <1>2, Zenon DEF Queued
  <2>. DEFINE a == [run |-> r, kind |-> kind, stage |-> n, status |-> "queued", claim |-> 0]
  <2>2. ActionsOK(c, T) /\ IsSequence(c)
    BY <1>1, <2>1, SequenceOf DEF Rewritten
  <2>3. Grown(c, actions', a)
    BY <2>1, <2>2, SequenceGrows, Zenon DEF QueueAction
  <2>4. ActionOK(a, T)
    BY <1>2 DEF ActionOK
  <2>. HIDE DEF a
  <2>5. PICK m : /\ DOMAIN actions' = DOMAIN c \cup {m}
                 /\ \A i \in DOMAIN c : actions'[i] = c[i]
                 /\ actions'[m] = a
    BY <2>3, Zenon DEF Grown
  <2>6. \A i \in DOMAIN actions' : ActionOK(actions'[i], T)
    BY <2>2, <2>4, <2>5, Zenon DEF ActionsOK
  <2>. QED  BY <2>6, Zenon DEF ActionsOK
<1>3. ~Later(1) /\ ~Later(0)
  BY DEF Later
<1>4. ASSUME NEW r \in Runs, NEW n \in StagesOf(r),
             Queued(actions, actions', r, "start", n), n = 1 \/ r \in N
      PROVE  ActionsOK(actions', T)
  <2>1. Later(n) => r \in T
    BY <1>3, <1>4, Zenon
  <2>. QED  BY <1>2, <1>4, <2>1, Zenon
<1>5. ASSUME NEW r \in Runs, Queued(actions, actions', r, "stop", 0)
      PROVE  ActionsOK(actions', T)
  <2>1. "stop" # "start"
    OBVIOUS
  <2>. QED  BY <1>2, <1>3, <1>5, <2>1, Zenon
<1>. QED  BY <1>1, <1>4, <1>5, Zenon DEF TableStep

(* A step in which the Worker does nothing.                                 *)
LEMMA NothingStep ==
    ASSUME WorkerInv, UNCHANGED <<sups, file, ledger, outbox, th>>
    PROVE  StepOK
<1>1. sups' = sups /\ file' = file /\ ledger' = ledger /\ outbox' = outbox /\ th' = th
  OBVIOUS
<1>. QED  BY <1>1, Zenon DEF StepOK

(* What a step between center and Worker leaves behind.                     *)
Talked ==
    /\ MessageNext \/ UNCHANGED centerVars
    /\ \E N : N \subseteq TrainedIn(sups) /\ TableStep(N)
    /\ StepOK
    /\ sups' = sups

(* A step that is no message leaves the table as it is.                     *)
LEMMA SameTable ==
    ASSUME CenterInv, UNCHANGED centerVars
    PROVE  TableStep({})
<1>1. actions' = actions
  BY DEF centerVars
<1>2. Rewritten(actions, actions)
  BY ExitActionsRewrites DEF CenterInv, CenterTypeOK, TypeOK
<1>. QED  BY <1>1, <1>2, Zenon DEF TableStep

(* The user.                                                                *)
LEMMA UserTalks ==
    ASSUME SystemInv, User
    PROVE  Talked
<1>1. env.runs \subseteq Runs
  BY WorkerBoundAssumption DEF SystemInv
<1>2. PICK r \in env.runs : \/ \E gs \in (SUBSET Gpus) \ {{}} : UserCreates(r, gs)
                            \/ UserStops(r)
  BY Zenon DEF User
<1>3. UserStep /\ UNCHANGED workerVars
  <2>1. r \in Runs /\ TRUE \in BOOLEAN
    BY <1>1
  <2>. QED  BY <1>2, <2>1, Zenon DEF UserStep, UserCreates, UserStops
<1>4. TableStep({})
  BY <1>3, UserTableStep, Zenon DEF SystemInv
<1>5. sups' = sups /\ UNCHANGED <<sups, file, ledger, outbox, th>>
  BY <1>3 DEF workerVars
<1>6. StepOK
  BY <1>5, NothingStep DEF SystemInv
<1>7. {} \subseteq TrainedIn(sups)
  OBVIOUS
<1>. QED  BY <1>3, <1>4, <1>5, <1>6, <1>7, Zenon DEF Talked, MessageNext

(* The Worker polls: an action it takes names a stage of the run, unless it *)
(* is a stop.                                                               *)
LEMMA PollTalks ==
    ASSUME SystemInv, NEW ids \in SUBSET DOMAIN actions,
           (\E i \in DOMAIN actions : WorkerPolls(ids, i)) \/ WorkerPollsInVain(ids)
    PROVE  Talked
<1>. DEFINE T == TrainedIn(sups)
            K == KnownIn(ledger)
<1>1. PollStep
  BY Zenon DEF PollStep, WorkerPolls, WorkerPollsInVain
<1>2. TableStep({})
  BY <1>1, PollTableStep, Zenon DEF SystemInv
<1>3. WorkerInv /\ ActionsOK(actions, T) /\ actions \in Seq(Action)
  BY DEF SystemInv, CenterInv, CenterTypeOK, TypeOK
<1>4. CASE UNCHANGED workerVars
  <2>1. sups' = sups /\ UNCHANGED <<sups, file, ledger, outbox, th>>
    BY <1>4 DEF workerVars
  <2>2. StepOK
    BY <1>3, <2>1, NothingStep
  <2>3. {} \subseteq T
    OBVIOUS
  <2>. QED  BY <1>1, <1>2, <2>1, <2>2, <2>3, Zenon DEF Talked, MessageNext
<1>5. ASSUME NEW i \in DOMAIN actions, NEW claim,
             TakeAction(i, claim, actions[i].kind, actions[i].run, actions[i].stage)
      PROVE  Talked
  <2>. DEFINE act == actions[i]
              pc == act.kind
              r == act.run
              n == act.stage
              a == [Idle EXCEPT !.pc = pc]
              b == [a EXCEPT !.id = i]
              c == [b EXCEPT !.claim = claim]
              d == [c EXCEPT !.run = r]
              e == [d EXCEPT !.stage = n]
  <2>1. th' = [th EXCEPT !["act"] = e] /\ UNCHANGED <<sups, file, ledger, outbox>>
    BY <1>5, Zenon DEF TakeAction
  <2>2. pc \in {"start", "stop"} /\ r \in Runs
    <3>1. act \in Action
      BY <1>3
    <3>. HIDE DEF act
    <3>. QED  BY <3>1 DEF Action
  <2>3. ActionOK(act, T)
    BY <1>3, Zenon DEF ActionsOK
  <2>4. (pc = "start" => n \in StagesOf(r)) /\ (Later(n) => r \in T)
    BY <2>3, Zenon DEF ActionOK
  <2>. HIDE DEF pc, r, n, T, K
  <2>5. IsThread(e) /\ e.pc = pc /\ e.run = r /\ e.stage = n
    <3>0. IsThread(Idle)
      BY DEF IsThread, Idle
    <3>1. IsThread(a) /\ a.pc = pc
      BY <3>0 DEF IsThread
    <3>. HIDE DEF a
    <3>2. IsThread(b) /\ b.pc = pc
      BY <3>1 DEF IsThread
    <3>. HIDE DEF b
    <3>3. IsThread(c) /\ c.pc = pc
      BY <3>2 DEF IsThread
    <3>. HIDE DEF c
    <3>4. IsThread(d) /\ d.pc = pc /\ d.run = r
      BY <3>3 DEF IsThread
    <3>. HIDE DEF d
    <3>. QED  BY <3>4 DEF IsThread
  <2>. HIDE DEF e
  <2>6. ThreadOK(e, T, K)
    <3>1. /\ e.pc # "enqueue" /\ e.pc \notin KnownPlaces /\ e.pc \notin ResultPlaces
          /\ e.pc \in StagePlaces => pc = "start"
      BY <2>2, <2>5 DEF KnownPlaces, ResultPlaces, StagePlaces
    <3>. QED  BY <2>2, <2>4, <2>5, <3>1, Zenon DEF ThreadOK
  <2>7. Threaded
    <3>1. "act" \in Threads
      BY DEF Threads
    <3>. QED  BY <1>3, <2>1, <2>6, <3>1, ThreadFacts, OneThread, Zenon DEF Threaded, T, K
  <2>8. StepOK
    BY <2>1, <2>7, ThreadStep
  <2>9. {} \subseteq TrainedIn(sups) /\ sups' = sups
    BY <2>1
  <2>. QED  BY <1>1, <1>2, <2>8, <2>9, Zenon DEF Talked, MessageNext
<1>. QED  BY <1>4, <1>5, Zenon DEF WorkerPolls, WorkerPollsInVain

(* The result of an action is one the center accepts, or changes nothing.   *)
LEMMA PublishTalks ==
    ASSUME SystemInv, Publish \/ PublishLost
    PROVE  Talked
<1>. DEFINE a == th["act"]
<1>1. /\ a.pc # "idle" /\ Go("act", "idle")
      /\ UNCHANGED <<sups, file, ledger, outbox>>
      /\ \/ ApplyResult(a.id, a.claim, a.res)
         \/ UNCHANGED centerVars
  BY DEF Publish, PublishLost
<1>2. /\ "idle" \notin {"enqueue", "judge", "report", "probe", "write"}
      /\ "idle" \notin StagePlaces /\ "idle" \notin KnownPlaces
  BY DEF StagePlaces, KnownPlaces
<1>3. StepOK
  BY <1>1, <1>2, QuietStep DEF SystemInv
<1>4. CASE UNCHANGED centerVars
  <2>1. TableStep({}) /\ {} \subseteq TrainedIn(sups)
    BY <1>4, SameTable DEF SystemInv
  <2>. QED  BY <1>1, <1>3, <1>4, <2>1 DEF Talked
<1>5. CASE ApplyResult(a.id, a.claim, a.res)
  <2>. DEFINE i == a.id
              token == a.claim
  <2>1. \/ ActionSucceeded(i, token) \/ StartUnresolved(i, token)
        \/ StartFailed(i, token) \/ StopFailed(i, token)
    BY <1>5, Zenon DEF ApplyResult
  <2>2. i \in DOMAIN actions
    BY <2>1, Zenon DEF ActionSucceeded, StartUnresolved, StartFailed, StopFailed, ClaimHeld
  <2>3. ResultMessage
    BY <2>1, <2>2, Zenon DEF ResultMessage
  <2>4. TableStep({})
    BY <2>1, <2>2, ResultTableStep, Zenon DEF SystemInv
  <2>5. {} \subseteq TrainedIn(sups) /\ sups' = sups
    BY <1>1
  <2>. QED  BY <1>3, <2>3, <2>4, <2>5, Zenon DEF Talked, MessageNext
<1>. QED  BY <1>1, <1>4, <1>5

(* An update of the outbox is one the center accepts; when it says that a   *)
(* stage ended well, the run is trained.                                    *)
LEMMA FlushTalks ==
    ASSUME SystemInv, NEW r \in Runs, NEW e \in outbox[r], Flush(r, e) \/ FlushRepeated(r, e)
    PROVE  Talked
<1>. DEFINE T == TrainedIn(sups)
            u == e.u
            k == e.k
<1>1. /\ UNCHANGED <<sups, file, ledger, th>> /\ sups' = sups
      /\ outbox' = outbox \/ Acknowledge(r, k)
  BY DEF Flush, FlushRepeated
<1>2. OutboxOK(outbox, T)
  BY Zenon DEF SystemInv, WorkerInv
<1>3. outbox' = outbox \/ OutboxOK(outbox', T)
  <2>. SUFFICES ASSUME Acknowledge(r, k) PROVE OutboxOK(outbox', T)
    BY <1>1
  <2>1. outbox = [q \in Runs |-> outbox[q]]
    BY <1>2, Zenon DEF OutboxOK
  <2>2. /\ outbox' = [q \in Runs |-> outbox'[q]]
        /\ \A q \in Runs : outbox'[q] \subseteq outbox[q]
    BY <2>1 DEF Acknowledge
  <2>. QED  BY <1>2, <2>2, Zenon DEF OutboxOK
<1>4. StepOK
  <2>1. /\ sups' = sups /\ file' = file /\ ledger' = ledger /\ th' = th
    BY <1>1
  <2>2. TrainedIn(sups') = T
    BY <2>1, Zenon
  <2>. HIDE DEF T
  <2>3. outbox' = outbox \/ OutboxOK(outbox', TrainedIn(sups'))
    BY <1>3, <2>2, Zenon
  <2>. QED  BY <2>1, <2>3, Zenon DEF StepOK
<1>5. CASE Flush(r, e)
  <2>1. u \in Updates(r) /\ (u.status = "succeeded" => r \in T)
    BY <1>2, Zenon DEF OutboxOK, NewsOK
  <2>2. ApplyUpdate(r, k, u)
    BY <1>5, Zenon DEF Flush
  <2>3. k \in Nat
    <3>1. k = seq[r] + 1
      BY <2>2, Zenon DEF ApplyUpdate, ApplyReport, ApplyStarted, ApplyUnresolved,
                         ApplyStillRunning, ApplyExited, NextUpdate
    <3>2. seq[r] \in Nat
      BY DEF SystemInv, CenterInv, CenterTypeOK
    <3>. HIDE DEF k
    <3>. QED  BY <3>1, <3>2
  <2>4. UpdateMessage
    BY <2>1, <2>2, <2>3, Zenon DEF UpdateMessage
  <2>5. TableStep(T)
    BY <2>1, <2>2, <2>3, UpdateTableStep, Zenon DEF SystemInv
  <2>. QED  BY <1>1, <1>4, <2>4, <2>5, Zenon DEF Talked, MessageNext
<1>6. CASE FlushRepeated(r, e)
  <2>1. UNCHANGED centerVars
    BY <1>6, Zenon DEF FlushRepeated
  <2>2. TableStep({}) /\ {} \subseteq T
    BY <2>1, SameTable DEF SystemInv
  <2>. QED  BY <1>1, <1>4, <2>1, <2>2 DEF Talked
<1>. QED  BY <1>5, <1>6

(* What the threads, the processes and the failures of the node do is no    *)
(* business of the center's.                                                *)
LEMMA WorkerAlone ==
    ASSUME \/ ActionThread \/ MonitorThread \/ MainThread \/ Observes
           \/ Enqueues \/ Processes \/ Kills \/ WorkerCrash
    PROVE  UNCHANGED centerVars
<1>1. CASE ActionThread
  <2>1. ASSUME \/ StartDecide \/ LaunchFails \/ RecordLaunch \/ SpawnSupervisor
               \/ AwaitSupervisor \/ AwaitFails \/ Attach
        PROVE  UNCHANGED centerVars
    BY <2>1 DEF StartDecide, LaunchFails, RecordLaunch, SpawnSupervisor, AwaitSupervisor, AwaitFails,
           Attach
  <2>2. ASSUME \/ WriteCommit \/ AwaitTraining \/ AwaitTrainingFails \/ SetRunning
               \/ ActOk
        PROVE  UNCHANGED centerVars
    BY <2>2 DEF WriteCommit, AwaitTraining, AwaitTrainingFails, SetRunning, ActOk
  <2>3. ASSUME \/ ResumeRelaunch \/ ResumeUnresolved \/ ResumeLaunch \/ StopDecide
               \/ StopRead \/ WriteCancel \/ StopKill \/ StopRecord
        PROVE  UNCHANGED centerVars
    BY <2>3 DEF ResumeRelaunch, ResumeUnresolved, ResumeLaunch, StopDecide, StopRead, WriteCancel,
           StopKill, StopRecord
  <2>. QED  BY <1>1, <2>1, <2>2, <2>3, Zenon DEF ActionThread
<1>2. CASE MonitorThread
  BY <1>2, Zenon DEF MonitorThread, MonitorList
<1>3. CASE MainThread
  BY <1>3, Zenon DEF MainThread, MainList, MainRelist, MainProbe, MainWrite, MainReport
<1>4. CASE Enqueues
  BY <1>4, Zenon DEF Enqueues, EnqueueRead, EnqueueWrite
<1>5. CASE Processes
  BY <1>5, Zenon DEF Processes, SupervisorStep, SupervisorBoot, SupervisorDecide,
                     SupervisorSpawn, ChildExits
<1>6. CASE Kills \/ WorkerCrash
  BY <1>6, Zenon DEF Kills, SupervisorKilled, WorkerCrash
<1>7. CASE Observes
  BY <1>7, Zenon DEF Observes, ObserveRead, Judge, Report
<1>. QED  BY <1>1, <1>2, <1>3, <1>4, <1>5, <1>6, <1>7

(* Every step of the system keeps the invariant, and is one the center      *)
(* allows its clients or does not concern it.                               *)
LEMMA SystemStep ==
    ASSUME SystemInv, [SystemNext]_<<systemVars, env>>
    PROVE  SystemInv' /\ [MessageNext]_centerVars
<1>. DEFINE Alone == \/ ActionThread \/ MonitorThread \/ MainThread \/ Observes
                     \/ Enqueues \/ Processes \/ Kills \/ WorkerCrash
<1>0. CenterInv /\ WorkerInv /\ ActionsOK(actions, TrainedIn(sups)) /\ env \in Environments
  BY Zenon DEF SystemInv
<1>1. CASE Alone /\ env' = env
  <2>1. UNCHANGED centerVars /\ actions' = actions
    BY <1>1, WorkerAlone DEF centerVars
  <2>2. StepOK
    <3>1. ASSUME Enqueues PROVE StepOK
      BY <1>0, <3>1, EnqueueReadStep, EnqueueWriteStep, Zenon DEF Enqueues
    <3>2. ASSUME Observes PROVE StepOK
      BY <1>0, <3>2, ObserveReadStep, JudgeStep, ReportStep, Zenon DEF Observes
    <3>. QED  BY <1>0, <1>1, <3>1, <3>2, ActionThreadStep, MonitorStep, MainStep, SupervisorsStep,
                 FailureStep, Zenon
  <2>3. WorkerInv' /\ ActionsOK(actions', TrainedIn(sups'))
    BY <1>0, <2>1, <2>2, StepInOrder, Zenon DEF StepOK
  <2>4. CenterInv'
    BY <1>0, <2>1, NextInv
  <2>. QED  BY <1>0, <1>1, <2>1, <2>3, <2>4 DEF SystemInv
<1>2. CASE Talked /\ env' = env
  <2>1. [MessageNext]_centerVars
    BY <1>2 DEF Talked
  <2>2. CenterInv'
    BY <1>0, <2>1, NextInv
  <2>3. ActionsOK(actions', TrainedIn(sups))
    BY <1>0, <1>2, ActionsStayOK, Zenon DEF Talked
  <2>4. ActionsOK(actions', TrainedIn(sups'))
    BY <1>2, <2>3, Zenon DEF Talked
  <2>5. StepOK
    BY <1>2, Zenon DEF Talked
  <2>6. WorkerInv'
    BY <1>0, <2>4, <2>5, StepInOrder, Zenon DEF StepOK
  <2>. QED  BY <1>0, <1>2, <2>1, <2>2, <2>4, <2>6 DEF SystemInv
<1>3. CASE UNCHANGED <<systemVars, env>>
  <2>1. /\ UNCHANGED centerVars /\ actions' = actions /\ env' = env
        /\ UNCHANGED <<sups, file, ledger, outbox, th>>
    BY <1>3 DEF systemVars, centerVars
  <2>2. StepOK
    BY <1>0, <2>1, NothingStep
  <2>3. WorkerInv' /\ ActionsOK(actions', TrainedIn(sups'))
    BY <1>0, <2>1, <2>2, StepInOrder, Zenon DEF StepOK
  <2>4. CenterInv'
    BY <1>0, <2>1, NextInv
  <2>. QED  BY <1>0, <2>1, <2>3, <2>4 DEF SystemInv
<1>4. ASSUME User \/ Http PROVE Talked
  <2>1. ASSUME Http PROVE Talked
    BY <2>1, PollTalks, PublishTalks, FlushTalks, Zenon DEF Http
  <2>. QED  BY <1>4, <2>1, UserTalks
<1>5. CASE SystemNext
  BY <1>1, <1>2, <1>4, <1>5, Zenon DEF SystemNext, Under
<1>. QED  BY <1>3, <1>5

(* Before anything has happened nothing is written.                         *)
LEMMA SystemStart == SystemInit => SystemInv /\ CenterInit
<1>. SUFFICES ASSUME SystemInit PROVE SystemInv /\ CenterInit
  OBVIOUS
<1>. DEFINE T == TrainedIn(sups)
            K == KnownIn(ledger)
<1>1. CenterInit /\ CenterInv
  BY InitInv, Zenon DEF SystemInit
<1>2. /\ env \in Environments /\ th = Started /\ sups = << >>
      /\ ledger = [r \in Runs |-> NoRow] /\ outbox = [r \in Runs |-> {}]
      /\ file = [r \in Runs |-> [n \in StagesOf(r) |-> NoFile]]
  BY Zenon DEF SystemInit, WorkerInit
<1>. HIDE DEF T, K
<1>3. ThreadsOK(th, T, K)
  BY <1>2, StartedOK, Zenon
<1>4. SupsOK(sups, T)
  <2>1. << >> \in Seq({}) /\ DOMAIN << >> = {}
    OBVIOUS
  <2>2. IsSequence(sups) /\ DOMAIN sups = {}
    BY <1>2, <2>1, SequenceOf, Zenon
  <2>. QED  BY <2>2, Zenon DEF SupsOK
<1>5. FilesOK(file, T)
  <2>1. \A r : FileOK(r, NoFile, T)
    BY DEF FileOK, FileStates, IsFile, NoFile
  <2>2. \A r \in Runs : file[r] = [n \in StagesOf(r) |-> NoFile]
    BY <1>2, Zenon
  <2>3. file = [r \in Runs |-> file[r]]
    BY <1>2, Zenon
  <2>4. \A r \in Runs : /\ file[r] = [n \in StagesOf(r) |-> file[r][n]]
                        /\ \A n \in StagesOf(r) : file[r][n] = NoFile
    BY <2>2
  <2>. QED  BY <2>1, <2>3, <2>4, Zenon DEF FilesOK
<1>6. RowsOK(ledger, T)
  <2>1. \A r : RowOK(r, NoRow, T)
    BY DEF RowOK, IsRow, NoRow, Later
  <2>2. ledger = [r \in Runs |-> ledger[r]] /\ \A r \in Runs : ledger[r] = NoRow
    BY <1>2, Zenon
  <2>. QED  BY <2>1, <2>2, Zenon DEF RowsOK
<1>7. OutboxOK(outbox, T)
  <2>1. outbox = [r \in Runs |-> outbox[r]] /\ \A r \in Runs : outbox[r] = {}
    BY <1>2, Zenon
  <2>. QED  BY <2>1 DEF OutboxOK
<1>8. ActionsOK(actions, T)
  <2>1. actions = << >> /\ DOMAIN << >> = {}
    BY <1>1 DEF CenterInit, StoreInit
  <2>. QED  BY <2>1, Zenon DEF ActionsOK
<1>. QED  BY <1>1, <1>2, <1>3, <1>4, <1>5, <1>6, <1>7, <1>8, Zenon DEF SystemInv, WorkerInv, T, K

-----------------------------------------------------------------------------
(* Whatever the threads, the processes, the network and the crashes do,     *)
(* every message of the Worker is one the center's API accepts, about a     *)
(* stage the run has, and whatever a later stage is mentioned by stands     *)
(* behind a trained first one.                                              *)
THEOREM SystemInvariant == SystemSpec => []SystemInv
BY SystemStart, SystemStep, PTL DEF SystemSpec

(* The system implements the open-client center: a Worker the center need   *)
(* not trust in anything, of which the repository's is one.                 *)
THEOREM WorkerSendsMessages == SystemSpec => MessageSpec
<1>1. SystemInv /\ [SystemNext]_<<systemVars, env>> => [MessageNext]_centerVars
  BY SystemStep
<1>2. SystemSpec => CenterInit
  BY SystemStart DEF SystemSpec
<1>. QED  BY <1>1, <1>2, SystemInvariant, PTL DEF SystemSpec, MessageSpec

(* So its promises hold of the system, with no bound on claims or updates:  *)
(* GPUs and ports are leased to active runs only (_finish_in).              *)
THEOREM SystemLeases == SystemSpec => []LeasesOnlyWhileActive
<1>1. CenterInv => LeasesOnlyWhileActive
  BY DEF CenterInv
<1>. QED  BY <1>1, WorkerSendsMessages, MessagesKeepInv, PTL

(* A run the system has ended has no stage left that could still start.     *)
THEOREM SystemEndedRuns == SystemSpec => []EndedRunHasNoPendingStage
<1>1. CenterInv => EndedRunHasNoPendingStage
  BY DEF CenterInv
<1>. QED  BY <1>1, WorkerSendsMessages, MessagesKeepInv, PTL

(* At most one stop action of a run is open, and a settled action stays as  *)
(* it is, through crashes, lost answers and repeated claims.                *)
THEOREM SystemActions == SystemSpec => []AtMostOneOpenStop /\ SettledActionsStay
BY WorkerSendsMessages, MessagesKeepOneStop, MessagesKeepSettled, PTL

(* A run of the system that has succeeded has registered its model.         *)
THEOREM SystemModels == SystemSpec => []SucceededHasModel
BY WorkerSendsMessages, MessagesKeepModels, PTL

(* The system implements the abstract lease ledger.                         *)
THEOREM SystemImplementsLedger == SystemSpec => LedgerSpec
BY WorkerSendsMessages, MessagesImplementLedger, PTL

(* No process trains a later stage of a run before one has trained its      *)
(* first stage to a good end, though an exit may be reported for the wrong  *)
(* stage (_observe_supervisor), twice, or after a restart.                  *)
THEOREM FirstStagesFirst == SystemSpec => []FirstStageFirst
<1>1. SystemInv => FirstStageFirst
  <2>. SUFFICES ASSUME SystemInv, NEW p \in DOMAIN sups, sups[p].stage > 1
                PROVE  FirstStageTrained(sups[p].run)
    BY DEF FirstStageFirst
  <2>1. SupervisorOK(sups[p], TrainedIn(sups))
    BY Zenon DEF SystemInv, WorkerInv, SupsOK
  <2>2. Later(sups[p].stage)
    BY DEF Later
  <2>3. sups[p].run \in TrainedIn(sups)
    BY <2>1, <2>2, Zenon DEF SupervisorOK
  <2>. QED  BY <2>3, Zenon DEF TrainedIn, FirstStageTrained
<1>. QED  BY <1>1, SystemInvariant, PTL

-----------------------------------------------------------------------------
(* The outbox, when no two enqueue_update calls overlap.  The numbers that  *)
(* wait in it lie between the last one the center has applied and the last  *)
(* one given out, with no gap; a thread that holds a number holds the next, *)
(* and no other thread holds one.                                           *)
NumbersOK(o, lo, hi) ==
    /\ hi \in Nat /\ lo <= hi
    /\ \A e \in o : e.k \in lo .. hi
    /\ \A k \in lo + 1 .. hi : \E e \in o : e.k = k

NumbersInv ==
    /\ \A r \in Runs : NumbersOK(outbox[r], seq[r], ledger[r].seq)
    /\ \A t \in Threads : th[t].k # 0 =>
          /\ th[t].pc = "enqueue" /\ th[t].k = ledger[th[t].run].seq + 1
          /\ \A s \in Threads : th[s].k # 0 => s = t

(* A step that gives out, stores and acknowledges no number.                *)
ThreadsKeep == \A t \in Threads : th'[t] = th[t] \/ th'[t].k = 0
RowsKeep == \A r \in Runs : ledger'[r].seq = ledger[r].seq
KeepsNumbers == seq' = seq /\ outbox' = outbox /\ ThreadsKeep /\ RowsKeep

(* Such a step keeps the numbers in order.                                  *)
LEMMA NumbersKept ==
    ASSUME WorkerInv, NumbersInv, KeepsNumbers
    PROVE  NumbersInv'
<1>1. /\ seq' = seq /\ outbox' = outbox
      /\ \A r \in Runs : ledger'[r].seq = ledger[r].seq
      /\ \A t \in Threads : th'[t] = th[t] \/ th'[t].k = 0
  BY Zenon DEF KeepsNumbers, ThreadsKeep, RowsKeep
<1>3. \A r \in Runs : NumbersOK(outbox'[r], seq'[r], ledger'[r].seq)
  BY <1>1, Zenon DEF NumbersInv
<1>4. \A t \in Threads : th'[t].k # 0 =>
          /\ th'[t].pc = "enqueue" /\ th'[t].k = ledger'[th'[t].run].seq + 1
          /\ \A s \in Threads : th'[s].k # 0 => s = t
  <2>. SUFFICES ASSUME NEW t \in Threads, th'[t].k # 0
                PROVE  /\ th'[t].pc = "enqueue" /\ th'[t].k = ledger'[th'[t].run].seq + 1
                       /\ \A s \in Threads : th'[s].k # 0 => s = t
    OBVIOUS
  <2>1. th'[t] = th[t] /\ th[t].k # 0
    BY <1>1, Zenon
  <2>2. /\ th[t].pc = "enqueue" /\ th[t].k = ledger[th[t].run].seq + 1
        /\ \A s \in Threads : th[s].k # 0 => s = t
    BY <2>1, Zenon DEF NumbersInv
  <2>3. th[t].pc # "idle"
    BY <2>2
  <2>4. th[t].run \in Runs
    BY <2>3, ThreadFacts, Zenon
  <2>5. ledger'[th[t].run].seq = ledger[th[t].run].seq
    BY <1>1, <2>4, Zenon
  <2>6. \A s \in Threads : th'[s].k # 0 => s = t
    BY <1>1, <2>2, Zenon
  <2>. QED  BY <2>1, <2>2, <2>5, <2>6, Zenon
<1>. QED  BY <1>3, <1>4, Zenon DEF NumbersInv

(* A thread that is not enqueueing moves on without a number.               *)
LEMMA MovesOn ==
    ASSUME WorkerInv, NumbersInv, NEW t \in Threads, NEW y, th' = [th EXCEPT ![t] = y],
           th[t].pc # "enqueue", y.k = th[t].k
    PROVE  ThreadsKeep
<1>1. th = [s \in Threads |-> th[s]]
  BY Zenon DEF WorkerInv, ThreadsOK
<1>2. \A s \in Threads : th'[s] = IF s = t THEN y ELSE th[s]
  BY <1>1, Zenon
<1>3. th[t].k = 0
  BY Zenon DEF NumbersInv
<1>. QED  BY <1>2, <1>3, Zenon DEF ThreadsKeep

(* A thread that goes on has no number.                                     *)
LEMMA GoForgets ==
    ASSUME WorkerInv, NEW t \in Threads, NEW pc, Go(t, pc)
    PROVE  th'[t].k = 0 /\ \A s \in Threads : s # t => th'[s] = th[s]
<1>. DEFINE x == th[t]
<1>0. IsThread(x) /\ th = [s \in Threads |-> th[s]]
  BY ThreadFacts, Zenon DEF WorkerInv, ThreadsOK
<1>1. th' = [th EXCEPT ![t] = Local(t, pc)]
  BY Zenon DEF Go
<1>2. \A s \in Threads : th'[s] = IF s = t THEN Local(t, pc) ELSE th[s]
  BY <1>0, <1>1, Zenon
<1>3. Local(t, pc).k = 0
  <2>. DEFINE a == [x EXCEPT !.pc = pc]
              b == [a EXCEPT !.then = "idle"]
              c == [b EXCEPT !.upd = NoUpdate]
              y == [c EXCEPT !.k = 0]
  <2>1. CASE pc = "idle"
    <3>. DEFINE d == th[t].todo \ {th[t].run}
    <3>1. Local(t, pc) = [Idle EXCEPT !.todo = d]
      BY <2>1, Zenon DEF Local
    <3>. HIDE DEF d
    <3>. QED  BY <3>1 DEF Idle
  <2>2. CASE pc # "idle"
    <3>1. Local(t, pc) = y
      BY <2>2, Zenon DEF Local
    <3>. HIDE DEF x
    <3>2. IsThread(a)
      BY <1>0 DEF IsThread
    <3>. HIDE DEF a
    <3>3. IsThread(b)
      BY <3>2 DEF IsThread
    <3>. HIDE DEF b
    <3>4. IsThread(c)
      BY <3>3 DEF IsThread
    <3>. HIDE DEF c
    <3>5. y.k = 0
      BY <3>4 DEF IsThread
    <3>. QED  BY <3>1, <3>5, Zenon
  <2>. QED  BY <2>1, <2>2
<1>. QED  BY <1>2, <1>3, Zenon

(* So does one that goes on by any of the ways threads go on.               *)
LEMMA WaysOn ==
    ASSUME WorkerInv, NumbersInv, NEW t \in Threads,
           \/ th' = th
           \/ th' = Started
           \/ \E pc : Go(t, pc)
           \/ \E res : t = "act" /\ th[t].pc # "enqueue" /\ Finish(res)
           \/ \E r, u, pc : th[t].pc # "enqueue" /\ Enqueue(t, r, u, pc)
           \/ \E r, pc : th[t].pc # "enqueue" /\ ReadRow(t, r, pc)
    PROVE  ThreadsKeep
<1>. DEFINE x == th[t]
<1>0. IsThread(x) /\ th = [s \in Threads |-> th[s]]
  BY ThreadFacts, Zenon DEF WorkerInv, ThreadsOK
<1>1. CASE th' = th
  BY <1>1, Zenon DEF ThreadsKeep
<1>2. CASE th' = Started
  <2>1. Idle.k = 0
    BY DEF Idle
  <2>2. [Idle EXCEPT !.todo = env.runs].k = 0
    BY DEF Idle
  <2>. QED  BY <1>2, <2>1, <2>2 DEF Started, ThreadsKeep
<1>3. ASSUME NEW pc, Go(t, pc) PROVE ThreadsKeep
  BY <1>3, GoForgets, Zenon DEF ThreadsKeep
<1>4. ASSUME NEW res, t = "act", th[t].pc # "enqueue", Finish(res) PROVE ThreadsKeep
  <2>. DEFINE a == [x EXCEPT !.pc = "publish"]
              y == [a EXCEPT !.res = res]
  <2>1. th' = [th EXCEPT ![t] = y]
    BY <1>4, Zenon DEF Finish
  <2>2. y.k = x.k
    <3>. HIDE DEF x
    <3>1. IsThread(a) /\ a.k = x.k
      BY <1>0 DEF IsThread
    <3>. HIDE DEF a
    <3>. QED  BY <3>1 DEF IsThread
  <2>. HIDE DEF y
  <2>. QED  BY <1>4, <2>1, <2>2, MovesOn, Zenon
<1>5. ASSUME NEW r, NEW u, NEW pc, th[t].pc # "enqueue", Enqueue(t, r, u, pc) PROVE ThreadsKeep
  <2>. DEFINE a == [x EXCEPT !.pc = "enqueue"]
              b == [a EXCEPT !.run = r]
              c == [b EXCEPT !.upd = u]
              y == [c EXCEPT !.then = pc]
  <2>1. th' = [th EXCEPT ![t] = y]
    BY <1>5, Zenon DEF Enqueue
  <2>2. y.k = x.k
    <3>. HIDE DEF x
    <3>1. IsThread(a) /\ a.k = x.k
      BY <1>0 DEF IsThread
    <3>. HIDE DEF a
    <3>2. IsThread(b) /\ b.k = x.k
      BY <3>1 DEF IsThread
    <3>. HIDE DEF b
    <3>3. IsThread(c) /\ c.k = x.k
      BY <3>2 DEF IsThread
    <3>. HIDE DEF c
    <3>. QED  BY <3>3 DEF IsThread
  <2>. HIDE DEF y
  <2>. QED  BY <1>5, <2>1, <2>2, MovesOn, Zenon
<1>6. ASSUME NEW r, NEW pc, th[t].pc # "enqueue", ReadRow(t, r, pc) PROVE ThreadsKeep
  <2>. DEFINE n == ledger[r].stage
              a == [x EXCEPT !.pc = pc]
              b == [a EXCEPT !.run = r]
              y == [b EXCEPT !.stage = n]
  <2>1. th' = [th EXCEPT ![t] = y]
    BY <1>6, Zenon DEF ReadRow
  <2>. HIDE DEF n
  <2>2. y.k = x.k
    <3>. HIDE DEF x
    <3>1. IsThread(a) /\ a.k = x.k
      BY <1>0 DEF IsThread
    <3>. HIDE DEF a
    <3>2. IsThread(b) /\ b.k = x.k
      BY <3>1 DEF IsThread
    <3>. HIDE DEF b
    <3>. QED  BY <3>2 DEF IsThread
  <2>. HIDE DEF y
  <2>. QED  BY <1>6, <2>1, <2>2, MovesOn, Zenon
<1>. QED  BY <1>1, <1>2, <1>3, <1>4, <1>5, <1>6

(* Writing a state, a launch or a pid leaves the numbers of the rows alone. *)
LEMMA RowsAlone ==
    ASSUME WorkerInv,
           \/ ledger' = ledger
           \/ \E r, st : SetLedger(r, st)
           \/ \E r, n : ledger' = [ledger EXCEPT ![r] = LaunchRow(@, n)]
           \/ \E r, p : ledger' = [ledger EXCEPT ![r].pid = p]
    PROVE  RowsKeep
<1>1. ledger = [q \in Runs |-> ledger[q]] /\ \A q \in Runs : IsRow(ledger[q])
  BY RowFacts, Zenon DEF WorkerInv, RowsOK
<1>2. ASSUME NEW r, NEW w, ledger' = [ledger EXCEPT ![r] = w],
             IsRow(ledger[r]) => w.seq = ledger[r].seq
      PROVE  RowsKeep
  <2>1. \A q \in Runs : ledger'[q] = IF q = r THEN w ELSE ledger[q]
    BY <1>1, <1>2, Zenon
  <2>. QED  BY <1>1, <1>2, <2>1, Zenon DEF RowsKeep
<1>3. CASE ledger' = ledger
  BY <1>3, Zenon DEF RowsKeep
<1>4. ASSUME NEW r, NEW st, SetLedger(r, st) PROVE RowsKeep
  <2>. DEFINE v == ledger[r]
              w == [v EXCEPT !.state = st]
  <2>1. ledger' = [ledger EXCEPT ![r] = w]
    BY <1>4, Zenon DEF SetLedger
  <2>2. IsRow(v) => w.seq = v.seq
    <3>. HIDE DEF v
    <3>. QED  BY DEF IsRow
  <2>. HIDE DEF w
  <2>. QED  BY <1>2, <2>1, <2>2, Zenon
<1>5. ASSUME NEW r, NEW p, ledger' = [ledger EXCEPT ![r].pid = p] PROVE RowsKeep
  <2>. DEFINE v == ledger[r]
              w == [v EXCEPT !.pid = p]
  <2>1. ledger' = [ledger EXCEPT ![r] = w]
    BY <1>5, Zenon
  <2>2. IsRow(v) => w.seq = v.seq
    <3>. HIDE DEF v
    <3>. QED  BY DEF IsRow
  <2>. HIDE DEF w
  <2>. QED  BY <1>2, <2>1, <2>2, Zenon
<1>6. ASSUME NEW r, NEW n, ledger' = [ledger EXCEPT ![r] = LaunchRow(@, n)] PROVE RowsKeep
  <2>. DEFINE v == ledger[r]
              w == LaunchRow(v, n)
              b == [v EXCEPT !.state = "accepted"]
              c == [b EXCEPT !.stage = n]
              d == [c EXCEPT !.pid = 0]
  <2>1. ledger' = [ledger EXCEPT ![r] = w]
    BY <1>6, Zenon
  <2>2. IsRow(v) => w.seq = v.seq
    <3>. SUFFICES ASSUME IsRow(v) PROVE w.seq = v.seq
      OBVIOUS
    <3>. DEFINE k == IF v.state = "accepted" THEN d.token ELSE d.token + 1
    <3>1. w = [d EXCEPT !.token = k]
      BY Zenon DEF LaunchRow
    <3>. HIDE DEF v, w, k
    <3>2. IsRow(b) /\ b.seq = v.seq
      BY DEF IsRow
    <3>. HIDE DEF b
    <3>3. IsRow(c) /\ c.seq = v.seq
      BY <3>2 DEF IsRow
    <3>. HIDE DEF c
    <3>4. IsRow(d) /\ d.seq = v.seq
      BY <3>3 DEF IsRow
    <3>. HIDE DEF d
    <3>. QED  BY <3>1, <3>4 DEF IsRow
  <2>. HIDE DEF w
  <2>. QED  BY <1>2, <2>1, <2>2, Zenon
<1>. QED  BY <1>3, <1>4, <1>5, <1>6

(* A thread that observes a supervisor gives out no number.                 *)
LEMMA ObserversKeep ==
    ASSUME WorkerInv, NumbersInv, Observes
    PROVE  outbox' = outbox /\ ThreadsKeep /\ RowsKeep
<1>1. PICK t \in Threads : ObserveRead(t) \/ Judge(t) \/ Report(t)
  BY Zenon DEF Observes
<1>. DEFINE x == th[t]
<1>2. outbox' = outbox /\ x.pc # "enqueue"
  BY <1>1 DEF ObserveRead, Judge, Report
<1>3. IsThread(x)
  BY ThreadFacts, Zenon
<1>4. RowsKeep
  <2>1. ledger' = ledger \/ \E r, st : SetLedger(r, st)
    BY <1>1, Zenon DEF ObserveRead, Judge, Report
  <2>. QED  BY <2>1, RowsAlone, Zenon
<1>5. ASSUME NEW y, y.k = x.k, th' = [th EXCEPT ![t] = y] PROVE ThreadsKeep
  BY <1>2, <1>5, MovesOn, Zenon
<1>6. ASSUME ObserveRead(t) PROVE ThreadsKeep
  <2>. DEFINE f == file[x.run][x.stage]
              p == f.pid
              res == IF f.status = "exited" THEN ExitStatus(f.code) ELSE f.status
              y == [[[x EXCEPT !.pc = "judge"] EXCEPT !.pid = p] EXCEPT !.res = res]
  <2>1. Go(t, Observed(t)) \/ th' = [th EXCEPT ![t] = y]
    BY <1>6, Zenon DEF ObserveRead
  <2>. HIDE DEF f, p, res
  <2>5. RenewsAt(x, y, "judge", res)
    BY <1>3, RenewsMany, Zenon
  <2>2. y.k = x.k
    BY <2>5, Zenon DEF RenewsAt, Renews
  <2>. HIDE DEF y
  <2>3. CASE Go(t, Observed(t))
    BY <1>2, <2>3, WaysOn, Zenon
  <2>. QED  BY <1>5, <2>1, <2>2, <2>3, Zenon
<1>7. ASSUME Judge(t) PROVE ThreadsKeep
  <2>. DEFINE y == [x EXCEPT !.pc = "report"]
              res == WhatIsLeft(x)
              z == [[x EXCEPT !.pc = "report"] EXCEPT !.res = res]
  <2>1. Go(t, Observed(t)) \/ th' = [th EXCEPT ![t] = y] \/ th' = [th EXCEPT ![t] = z]
    BY <1>7, Zenon DEF Judge
  <2>. HIDE DEF res
  <2>2. y.k = x.k
    BY <1>3, RenewsPlace
  <2>5. RenewsAt(x, z, "report", res)
    BY <1>3, RenewsResult, Zenon
  <2>4. z.k = x.k
    BY <2>5, Zenon DEF RenewsAt, Renews
  <2>. HIDE DEF y, z
  <2>3. CASE Go(t, Observed(t))
    BY <1>2, <2>3, WaysOn, Zenon
  <2>. QED  BY <1>5, <2>1, <2>2, <2>3, <2>4, Zenon
<1>8. ASSUME Report(t) PROVE ThreadsKeep
  <2>1. \E r, u, pc : Enqueue(t, r, u, pc)
    BY <1>8, Zenon DEF Report
  <2>. QED  BY <1>2, <2>1, WaysOn, Zenon
<1>. QED  BY <1>1, <1>2, <1>4, <1>6, <1>7, <1>8, Zenon

(* Nor does the monitor, nor the main thread.                               *)
LEMMA WatchersKeep ==
    ASSUME WorkerInv, NumbersInv, MonitorThread \/ MainThread
    PROVE  outbox' = outbox /\ ThreadsKeep /\ RowsKeep
<1>0. "mon" \in Threads /\ "main" \in Threads
  BY DEF Threads
<1>2. CASE MonitorThread
  <2>1. ASSUME NEW r \in Runs, MonitorList(r) PROVE outbox' = outbox /\ ThreadsKeep /\ RowsKeep
    <3>1. /\ outbox' = outbox /\ ledger' = ledger /\ ReadRow("mon", r, "observe")
          /\ th["mon"].pc # "enqueue"
      BY <2>1 DEF MonitorList
    <3>. QED  BY <1>0, <3>1, WaysOn, RowsAlone, Zenon
  <2>. QED  BY <1>2, <2>1, Zenon DEF MonitorThread
<1>3. CASE MainThread
  <2>. DEFINE x == th["main"]
  <2>0. IsThread(x)
    BY <1>0, ThreadFacts, Zenon
  <2>1. ASSUME NEW r \in Runs, MainList(r) PROVE outbox' = outbox /\ ThreadsKeep /\ RowsKeep
    <3>1. /\ outbox' = outbox /\ ledger' = ledger /\ \E pc : ReadRow("main", r, pc)
          /\ th["main"].pc # "enqueue"
      BY <2>1 DEF MainList
    <3>. QED  BY <1>0, <3>1, WaysOn, RowsAlone, Zenon
  <2>3. CASE MainRelist
    <3>. DEFINE p == ledger[x.run].pid
                st == ledger[x.run].state
                a == [x EXCEPT !.pc = "probe"]
                b == [a EXCEPT !.pid = p]
                y == [b EXCEPT !.res = st]
    <3>1. /\ outbox' = outbox /\ ledger' = ledger /\ x.pc # "enqueue"
          /\ th' = [th EXCEPT !["main"] = y] \/ Go("main", "idle")
      BY <2>3 DEF MainRelist
    <3>2. y.k = x.k
      <4>. HIDE DEF p, st, x
      <4>1. IsThread(a) /\ a.k = x.k
        BY <2>0 DEF IsThread
      <4>. HIDE DEF a
      <4>2. IsThread(b) /\ b.k = x.k
        BY <4>1 DEF IsThread
      <4>. HIDE DEF b
      <4>. QED  BY <4>2 DEF IsThread
    <3>. HIDE DEF y
    <3>. QED  BY <1>0, <3>1, <3>2, WaysOn, MovesOn, RowsAlone, Zenon
  <2>4. CASE MainProbe
    <3>. DEFINE g == SupAlive(x.pid)
                a == [x EXCEPT !.pc = "write"]
                y == [a EXCEPT !.flag = g]
    <3>1. /\ outbox' = outbox /\ ledger' = ledger /\ x.pc # "enqueue"
          /\ th' = [th EXCEPT !["main"] = y] \/ th' = Started
      BY <2>4 DEF MainProbe, ProcessEnds
    <3>2. y.k = x.k
      <4>. HIDE DEF g, x
      <4>1. IsThread(a) /\ a.k = x.k
        BY <2>0 DEF IsThread
      <4>. HIDE DEF a
      <4>. QED  BY <4>1 DEF IsThread
    <3>. HIDE DEF y
    <3>. QED  BY <1>0, <3>1, <3>2, WaysOn, MovesOn, RowsAlone, Zenon
  <2>5. CASE MainWrite
    <3>. DEFINE y == [x EXCEPT !.pc = "reconcile"]
    <3>1. /\ outbox' = outbox /\ x.pc # "enqueue"
          /\ \E st : SetLedger(x.run, st)
          /\ th' = [th EXCEPT !["main"] = y]
      BY <2>5 DEF MainWrite
    <3>2. y.k = x.k
      BY <2>0, RenewsPlace
    <3>. HIDE DEF y
    <3>. QED  BY <1>0, <3>1, <3>2, MovesOn, RowsAlone, Zenon
  <2>6. CASE MainReport
    <3>1. /\ outbox' = outbox /\ ledger' = ledger /\ x.pc # "enqueue"
          /\ \E u : Enqueue("main", x.run, u, "idle")
      BY <2>6 DEF MainReport
    <3>. QED  BY <1>0, <3>1, WaysOn, RowsAlone, Zenon
  <2>. QED  BY <1>3, <2>1, <2>3, <2>4, <2>5, <2>6, Zenon DEF MainThread
<1>. QED  BY <1>2, <1>3

(* Nor does the action thread.                                              *)
LEMMA ActionsKeep ==
    ASSUME WorkerInv, NumbersInv, ActionThread
    PROVE  outbox' = outbox /\ ThreadsKeep /\ RowsKeep
<1>. DEFINE x == th["act"]
<1>0. "act" \in Threads /\ IsThread(x)
  BY ThreadFacts, Zenon DEF Threads
<1>1. ASSUME outbox' = outbox, x.pc # "enqueue",
             \/ \E pc : Go("act", pc)
             \/ \E res : Finish(res)
             \/ \E r, u, pc : Enqueue("act", r, u, pc),
             \/ ledger' = ledger
             \/ \E r, st : SetLedger(r, st)
             \/ \E r, n : ledger' = [ledger EXCEPT ![r] = LaunchRow(@, n)]
             \/ \E r, p : ledger' = [ledger EXCEPT ![r].pid = p]
      PROVE  outbox' = outbox /\ ThreadsKeep /\ RowsKeep
  BY <1>0, <1>1, WaysOn, RowsAlone, Zenon
<1>2. CASE StartDecide \/ LaunchFails \/ AwaitSupervisor \/ AwaitFails
  <2>1. /\ outbox' = outbox /\ x.pc # "enqueue" /\ ledger' = ledger
        /\ (\E pc : Go("act", pc)) \/ \E res : Finish(res)
    BY <1>2 DEF StartDecide, LaunchFails, AwaitSupervisor, AwaitFails
  <2>. QED  BY <1>1, <2>1, Zenon
<1>3. CASE \/ WriteCommit \/ AwaitTraining \/ AwaitTrainingFails \/ ActOk
           \/ ResumeRelaunch \/ ResumeUnresolved
  <2>1. /\ outbox' = outbox /\ x.pc # "enqueue" /\ ledger' = ledger
        /\ (\E pc : Go("act", pc)) \/ \E res : Finish(res)
    BY <1>3 DEF WriteCommit, AwaitTraining, AwaitTrainingFails, ActOk, ResumeRelaunch,
                ResumeUnresolved
  <2>. QED  BY <1>1, <2>1, Zenon
<1>4. CASE WriteCancel \/ StopKill
  <2>1. /\ outbox' = outbox /\ x.pc # "enqueue" /\ ledger' = ledger
        /\ \E pc : Go("act", pc)
    BY <1>4 DEF WriteCancel, StopKill
  <2>. QED  BY <1>1, <2>1, Zenon
<1>5. CASE RecordLaunch
  <2>1. outbox' = outbox /\ x.pc # "enqueue"
    BY <1>5 DEF RecordLaunch
  <2>2. /\ \E pc : Go("act", pc)
        /\ \E r, n : ledger' = [ledger EXCEPT ![r] = LaunchRow(@, n)]
    BY <1>5, Zenon DEF RecordLaunch
  <2>. QED  BY <1>1, <2>1, <2>2, Zenon
<1>6. CASE Attach
  <2>1. outbox' = outbox /\ x.pc # "enqueue"
    BY <1>6 DEF Attach
  <2>2. /\ (\E pc : Go("act", pc)) \/ \E res : Finish(res)
        /\ ledger' = ledger \/ \E r, p : ledger' = [ledger EXCEPT ![r].pid = p]
    BY <1>6, Zenon DEF Attach
  <2>. QED  BY <1>1, <2>1, <2>2, Zenon
<1>7. CASE SetRunning
  <2>1. outbox' = outbox /\ x.pc # "enqueue"
    BY <1>7 DEF SetRunning
  <2>2. /\ \E r, u, pc : Enqueue("act", r, u, pc)
        /\ \E r, st : SetLedger(r, st)
    BY <1>7, Zenon DEF SetRunning
  <2>. QED  BY <1>1, <2>1, <2>2, Zenon
<1>8. CASE StopRecord
  <2>. DEFINE y == [[x EXCEPT !.pc = "report"] EXCEPT !.res = "cancelled"]
  <2>1. outbox' = outbox /\ x.pc # "enqueue"
    BY <1>8 DEF StopRecord
  <2>2. (\E r, st : SetLedger(r, st)) /\ th' = [th EXCEPT !["act"] = y]
    BY <1>8, Zenon DEF StopRecord
  <2>4. RenewsAt(x, y, "report", "cancelled")
    BY <1>0, RenewsResult, Zenon
  <2>3. y.k = x.k
    BY <2>4, Zenon DEF RenewsAt, Renews
  <2>. HIDE DEF y
  <2>. QED  BY <1>0, <2>1, <2>2, <2>3, MovesOn, RowsAlone, Zenon
<1>9. CASE SpawnSupervisor
  <2>. DEFINE k == Len(sups) + 1
              a == [x EXCEPT !.pc = "await"]
              y == [a EXCEPT !.pid = k]
  <2>1. /\ outbox' = outbox /\ ledger' = ledger /\ x.pc # "enqueue"
        /\ th' = [th EXCEPT !["act"] = y]
    BY <1>9 DEF SpawnSupervisor
  <2>. HIDE DEF k
  <2>2. y.k = x.k
    <3>. HIDE DEF x
    <3>1. IsThread(a) /\ a.k = x.k
      BY <1>0 DEF IsThread
    <3>. HIDE DEF a
    <3>. QED  BY <3>1 DEF IsThread
  <2>. HIDE DEF y
  <2>. QED  BY <1>0, <2>1, <2>2, MovesOn, RowsAlone, Zenon
<1>10. CASE ResumeLaunch
  <2>. DEFINE f == file[x.run][x.stage]
              yes == TRUE
              p == f.pid
              pc == IF f.status = "exited" THEN "setRunning" ELSE "attach"
              a == [x EXCEPT !.flag = yes]
              b == [a EXCEPT !.pid = p]
              y == [b EXCEPT !.pc = pc]
  <2>1. outbox' = outbox /\ ledger' = ledger /\ x.pc # "enqueue"
    BY <1>10 DEF ResumeLaunch
  <2>2. th' = [th EXCEPT !["act"] = y]
    BY <1>10, Zenon DEF ResumeLaunch
  <2>. HIDE DEF yes, p, pc
  <2>3. y.k = x.k
    <3>. HIDE DEF x
    <3>1. IsThread(a) /\ a.k = x.k
      BY <1>0 DEF IsThread
    <3>. HIDE DEF a
    <3>2. IsThread(b) /\ b.k = x.k
      BY <3>1 DEF IsThread
    <3>. HIDE DEF b
    <3>. QED  BY <3>2 DEF IsThread
  <2>. HIDE DEF y
  <2>. QED  BY <1>0, <2>1, <2>2, <2>3, MovesOn, RowsAlone, Zenon
<1>11. CASE StopDecide
  <2>. DEFINE n == ledger[x.run].stage
              g == (ledger[x.run].state = "accepted")
              a == [x EXCEPT !.pc = "stopRead"]
              b == [a EXCEPT !.stage = n]
              y == [b EXCEPT !.flag = g]
  <2>1. outbox' = outbox /\ x.pc # "enqueue"
    BY <1>11 DEF StopDecide
  <2>2. \/ (\E res : Finish(res)) /\ ledger' = ledger
        \/ (\E r, st : SetLedger(r, st)) /\ th' = [th EXCEPT !["act"] = y]
    BY <1>11, Zenon DEF StopDecide
  <2>. HIDE DEF n, g
  <2>3. y.k = x.k
    <3>. HIDE DEF x
    <3>1. IsThread(a) /\ a.k = x.k
      BY <1>0 DEF IsThread
    <3>. HIDE DEF a
    <3>2. IsThread(b) /\ b.k = x.k
      BY <3>1 DEF IsThread
    <3>. HIDE DEF b
    <3>. QED  BY <3>2 DEF IsThread
  <2>. HIDE DEF y
  <2>4. CASE (\E res : Finish(res)) /\ ledger' = ledger
    BY <1>1, <2>1, <2>4, Zenon
  <2>5. CASE (\E r, st : SetLedger(r, st)) /\ th' = [th EXCEPT !["act"] = y]
    BY <1>0, <2>1, <2>3, <2>5, MovesOn, RowsAlone, Zenon
  <2>. QED  BY <2>2, <2>4, <2>5
<1>12. CASE StopRead
  <2>. DEFINE f == file[x.run][x.stage]
              p == IF f.status \in {"running", "exited"} THEN f.pid ELSE 0
              pc == IF x.flag THEN "stopCancel" ELSE "stopKill"
              a == [x EXCEPT !.pc = pc]
              y == [a EXCEPT !.pid = p]
  <2>1. outbox' = outbox /\ ledger' = ledger /\ x.pc # "enqueue"
    BY <1>12 DEF StopRead
  <2>2. th' = [th EXCEPT !["act"] = y]
    BY <1>12, Zenon DEF StopRead
  <2>. HIDE DEF p, pc
  <2>3. y.k = x.k
    <3>. HIDE DEF x
    <3>1. IsThread(a) /\ a.k = x.k
      BY <1>0 DEF IsThread
    <3>. HIDE DEF a
    <3>. QED  BY <3>1 DEF IsThread
  <2>. HIDE DEF y
  <2>. QED  BY <1>0, <2>1, <2>2, <2>3, MovesOn, RowsAlone, Zenon
<1>. QED  BY <1>2, <1>3, <1>4, <1>5, <1>6, <1>7, <1>8, <1>9, <1>10, <1>11, <1>12, Zenon
          DEF ActionThread

(* The numbers of one run: one more is given out and stored.                *)
LEMMA NumberStored ==
    ASSUME NEW o, NEW lo \in Nat, NEW hi, NumbersOK(o, lo, hi), NEW e, e.k = hi + 1
    PROVE  NumbersOK(o \cup {e}, lo, hi + 1)
BY DEF NumbersOK

(* The center applies the next one, and it may be acknowledged.             *)
LEMMA NumberApplied ==
    ASSUME NEW o, NEW lo \in Nat, NEW hi, NumbersOK(o, lo, hi), NEW e \in o, e.k = lo + 1,
           \A f \in o : e.k <= f.k
    PROVE  NumbersOK(o, lo + 1, hi) /\ NumbersOK({f \in o : f.k > lo + 1}, lo + 1, hi)
BY DEF NumbersOK

(* The last one applied is acknowledged.                                    *)
LEMMA NumberAcknowledged ==
    ASSUME NEW o, NEW lo \in Nat, NEW hi, NumbersOK(o, lo, hi)
    PROVE  NumbersOK({f \in o : f.k > lo}, lo, hi)
BY DEF NumbersOK

(* The oldest number that waits is the one expected, or the last applied.   *)
LEMMA OldestIsNext ==
    ASSUME NEW o, NEW lo \in Nat, NEW hi, NumbersOK(o, lo, hi), NEW e \in o,
           \A f \in o : e.k <= f.k
    PROVE  e.k \in {lo, lo + 1}
BY DEF NumbersOK

(* enqueue_update reads a number, alone.                                    *)
LEMMA ReadsNumber ==
    ASSUME WorkerInv, NumbersInv, ~env.races, NEW t \in Threads, EnqueueRead(t)
    PROVE  NumbersInv'
<1>. DEFINE x == th[t]
            n == ledger[x.run].seq + 1
            y == [x EXCEPT !.k = n]
<1>1. /\ seq' = seq /\ outbox' = outbox /\ ledger' = ledger /\ x.pc = "enqueue"
      /\ \A s \in Threads : th[s].k = 0
  BY DEF EnqueueRead, centerVars
<1>2. th' = [th EXCEPT ![t] = y]
  BY Zenon DEF EnqueueRead
<1>3. IsThread(x) /\ th = [s \in Threads |-> th[s]]
  BY ThreadFacts, Zenon DEF WorkerInv, ThreadsOK
<1>4. \A s \in Threads : th'[s] = IF s = t THEN y ELSE th[s]
  BY <1>2, <1>3, Zenon
<1>5. y.pc = x.pc /\ y.run = x.run /\ y.k = n
  <2>. HIDE DEF x, n
  <2>. QED  BY <1>3 DEF IsThread
<1>6. \A r \in Runs : NumbersOK(outbox'[r], seq'[r], ledger'[r].seq)
  BY <1>1, Zenon DEF NumbersInv
<1>. HIDE DEF y
<1>7. \A s \in Threads : th'[s].k # 0 => s = t
  BY <1>1, <1>4, Zenon
<1>8. th'[t].pc = "enqueue" /\ th'[t].k = ledger'[th'[t].run].seq + 1
  <2>1. th'[t] = y /\ th'[t].run = x.run
    BY <1>4, <1>5, Zenon
  <2>2. th'[t].k = n /\ ledger'[x.run].seq + 1 = n
    BY <1>1, <1>5, <2>1, Zenon
  <2>. QED  BY <1>1, <1>5, <2>1, <2>2, Zenon
<1>. QED  BY <1>6, <1>7, <1>8, Zenon DEF NumbersInv

(* enqueue_update stores the update under the number.                       *)
LEMMA StoresNumber ==
    ASSUME WorkerInv, NumbersInv, seq \in [Runs -> Nat], NEW t \in Threads, EnqueueWrite(t)
    PROVE  NumbersInv'
<1>. DEFINE x == th[t]
            r == x.run
            k == x.k
            e == [k |-> k, u |-> x.upd]
<1>1. x.pc = "enqueue" /\ k # 0 /\ seq' = seq
  BY DEF EnqueueWrite, centerVars
<1>2. r \in Runs /\ th = [s \in Threads |-> th[s]]
  <2>1. x.pc # "idle"
    BY <1>1
  <2>. QED  BY <2>1, ThreadFacts, Zenon DEF WorkerInv, ThreadsOK
<1>3. k = ledger[r].seq + 1 /\ \A s \in Threads : s # t => th[s].k = 0
  BY <1>1, Zenon DEF NumbersInv
<1>4. CASE UNCHANGED <<ledger, outbox>> /\ th' \in {Started, [th EXCEPT ![t] = Idle]}
  <2>1. outbox' = outbox /\ ledger' = ledger
    BY <1>4
  <2>2. CASE th' = Started
    <3>2. ThreadsKeep
      BY <2>2, WaysOn, Zenon
    <3>3. KeepsNumbers
      BY <1>1, <2>1, <3>2, RowsAlone, Zenon DEF KeepsNumbers
    <3>. QED  BY <3>3, NumbersKept, Zenon
  <2>3. CASE th' = [th EXCEPT ![t] = Idle]
    <3>2. \A s \in Threads : th'[s] = IF s = t THEN Idle ELSE th[s]
      BY <1>2, <2>3, Zenon
    <3>3. Idle.k = 0
      BY DEF Idle
    <3>4. ThreadsKeep
      BY <3>2, <3>3, Zenon DEF ThreadsKeep
    <3>5. KeepsNumbers
      BY <1>1, <2>1, <3>4, RowsAlone, Zenon DEF KeepsNumbers
    <3>. QED  BY <3>5, NumbersKept, Zenon
  <2>. QED  BY <1>4, <2>2, <2>3, Zenon
<1>5. CASE /\ ledger' = [ledger EXCEPT ![r].seq = k]
           /\ outbox' = [outbox EXCEPT ![r] = @ \cup {e}]
           /\ Go(t, x.then)
  <2>1. \A s \in Threads : th'[s].k = 0
    <3>1. th'[t].k = 0 /\ \A s \in Threads : s # t => th'[s] = th[s]
      BY <1>5, GoForgets, Zenon
    <3>. QED  BY <1>3, <3>1, Zenon
  <2>2. \A q \in Runs : /\ q # r => ledger'[q] = ledger[q] /\ outbox'[q] = outbox[q]
                        /\ q = r => ledger'[q].seq = k /\ outbox'[q] = outbox[q] \cup {e}
    <3>. DEFINE v == ledger[r]
                w == [v EXCEPT !.seq = k]
    <3>1. /\ ledger' = [ledger EXCEPT ![r] = w]
          /\ ledger = [q \in Runs |-> ledger[q]] /\ outbox = [q \in Runs |-> outbox[q]]
      BY <1>5, Zenon DEF WorkerInv, RowsOK, OutboxOK
    <3>2. w.seq = k
      <4>1. IsRow(v)
        BY <1>2, RowFacts, Zenon
      <4>. HIDE DEF v, k
      <4>. QED  BY <4>1 DEF IsRow
    <3>. HIDE DEF w, e, k, r
    <3>. QED  BY <1>5, <3>1, <3>2, Zenon
  <2>3. NumbersOK(outbox[r], seq[r], ledger[r].seq) /\ seq[r] \in Nat
    BY <1>2, Zenon DEF NumbersInv
  <2>4. e.k = k
    OBVIOUS
  <2>. HIDE DEF e
  <2>5. NumbersOK(outbox[r] \cup {e}, seq[r], k)
    <3>1. e.k = ledger[r].seq + 1
      BY <1>3, <2>4, Zenon
    <3>2. NumbersOK(outbox[r] \cup {e}, seq[r], ledger[r].seq + 1)
      BY <2>3, <3>1, NumberStored, Zenon
    <3>. QED  BY <1>3, <3>2, Zenon
  <2>6. \A q \in Runs : NumbersOK(outbox'[q], seq'[q], ledger'[q].seq)
    BY <1>1, <1>2, <2>2, <2>5, Zenon DEF NumbersInv
  <2>. QED  BY <2>1, <2>6, Zenon DEF NumbersInv
<1>. QED  BY <1>4, <1>5, Zenon DEF EnqueueWrite, ProcessEnds

(* _flush sends and acknowledges.                                           *)
LEMMA SendsNumber ==
    ASSUME WorkerInv, NumbersInv, seq \in [Runs -> Nat], NEW r \in Runs, NEW e \in outbox[r],
           Flush(r, e) \/ FlushRepeated(r, e)
    PROVE  NumbersInv'
<1>. DEFINE rest == {f \in outbox[r] : f.k > e.k}
<1>1. /\ ledger' = ledger /\ th' = th
      /\ \A f \in outbox[r] : e.k <= f.k
  BY DEF Flush, FlushRepeated, Oldest
<1>2. NumbersOK(outbox[r], seq[r], ledger[r].seq) /\ seq[r] \in Nat
  BY Zenon DEF NumbersInv
<1>3. \A t \in Threads : th'[t].k # 0 =>
          /\ th'[t].pc = "enqueue" /\ th'[t].k = ledger'[th'[t].run].seq + 1
          /\ \A s \in Threads : th'[s].k # 0 => s = t
  BY <1>1, Zenon DEF NumbersInv
<1>4. ASSUME Acknowledge(r, e.k)
      PROVE  \A q \in Runs : outbox'[q] = IF q = r THEN rest ELSE outbox[q]
  <2>1. outbox = [q \in Runs |-> outbox[q]]
    BY Zenon DEF WorkerInv, OutboxOK
  <2>. QED  BY <1>4, <2>1, Zenon DEF Acknowledge
<1>5. CASE Flush(r, e)
  <2>1. seq' = [seq EXCEPT ![r] = e.k] /\ e.k = seq[r] + 1
    <3>1. ApplyUpdate(r, e.k, e.u)
      BY <1>5, Zenon DEF Flush
    <3>. QED  BY <3>1, Zenon DEF ApplyUpdate, ApplyReport, ApplyStarted, ApplyUnresolved,
                                 ApplyStillRunning, ApplyExited, NextUpdate
  <2>2. \A q \in Runs : seq'[q] = IF q = r THEN seq[r] + 1 ELSE seq[q]
    BY <2>1
  <2>3. /\ NumbersOK(outbox[r], seq[r] + 1, ledger[r].seq)
        /\ NumbersOK(rest, seq[r] + 1, ledger[r].seq)
    <3>1. /\ NumbersOK(outbox[r], seq[r] + 1, ledger[r].seq)
          /\ NumbersOK({f \in outbox[r] : f.k > seq[r] + 1}, seq[r] + 1, ledger[r].seq)
      BY <1>1, <1>2, <2>1, NumberApplied, Zenon
    <3>2. rest = {f \in outbox[r] : f.k > seq[r] + 1}
      BY <2>1, Zenon
    <3>. QED  BY <3>1, <3>2, Zenon
  <2>. HIDE DEF rest
  <2>4. CASE Acknowledge(r, e.k)
    <3>1. \A q \in Runs : NumbersOK(outbox'[q], seq'[q], ledger'[q].seq)
      BY <1>1, <1>4, <2>2, <2>3, <2>4, Zenon DEF NumbersInv
    <3>. QED  BY <1>3, <3>1, Zenon DEF NumbersInv
  <2>5. CASE outbox' = outbox
    <3>1. \A q \in Runs : NumbersOK(outbox'[q], seq'[q], ledger'[q].seq)
      BY <1>1, <2>2, <2>3, <2>5, Zenon DEF NumbersInv
    <3>. QED  BY <1>3, <3>1, Zenon DEF NumbersInv
  <2>. QED  BY <1>5, <2>4, <2>5 DEF Flush
<1>6. CASE FlushRepeated(r, e)
  <2>1. e.k = seq[r] /\ Acknowledge(r, e.k) /\ seq' = seq
    BY <1>6 DEF FlushRepeated, centerVars
  <2>2. NumbersOK(rest, seq[r], ledger[r].seq)
    <3>1. NumbersOK({f \in outbox[r] : f.k > seq[r]}, seq[r], ledger[r].seq)
      BY <1>2, NumberAcknowledged, Zenon
    <3>2. rest = {f \in outbox[r] : f.k > seq[r]}
      BY <2>1, Zenon
    <3>. QED  BY <3>1, <3>2, Zenon
  <2>. HIDE DEF rest
  <2>3. \A q \in Runs : NumbersOK(outbox'[q], seq'[q], ledger'[q].seq)
    BY <1>1, <1>4, <2>1, <2>2, Zenon DEF NumbersInv
  <2>. QED  BY <1>3, <2>3, Zenon DEF NumbersInv
<1>. QED  BY <1>5, <1>6

(* The user, polls and results have nothing to do with the numbers.         *)
LEMMA OthersKeep ==
    ASSUME SystemInv, NumbersInv, Http \/ User
    PROVE  NumbersInv'
<1>0. WorkerInv /\ seq \in [Runs -> Nat]
  BY Zenon DEF SystemInv, CenterInv, CenterTypeOK
<1>1. ASSUME UNCHANGED <<seq, outbox, ledger>>, ThreadsKeep PROVE NumbersInv'
  <2>1. seq' = seq /\ outbox' = outbox /\ ledger' = ledger
    BY <1>1
  <2>2. KeepsNumbers
    BY <1>0, <1>1, <2>1, RowsAlone, Zenon DEF KeepsNumbers
  <2>. QED  BY <1>0, <2>2, NumbersKept, Zenon
<1>2. "act" \in Threads
  BY DEF Threads
<1>3. ASSUME th' = th PROVE ThreadsKeep
  BY <1>3, Zenon DEF ThreadsKeep
<1>4. CASE User
  <2>1. UNCHANGED <<seq, outbox, ledger>> /\ th' = th
    BY <1>4 DEF User, UserCreates, UserStops, workerVars
  <2>. QED  BY <1>1, <1>3, <2>1
<1>5. ASSUME NEW ids, NEW i, WorkerPolls(ids, i) PROVE NumbersInv'
  <2>1. seq' = seq
    BY <1>5 DEF WorkerPolls, PollClaim, Claim
  <2>2. \/ UNCHANGED workerVars
        \/ \E j, claim, kind, r, n : TakeAction(j, claim, kind, r, n)
    BY <1>5, Zenon DEF WorkerPolls
  <2>3. CASE UNCHANGED workerVars
    <3>1. UNCHANGED <<seq, outbox, ledger>> /\ th' = th
      BY <2>1, <2>3 DEF workerVars
    <3>. QED  BY <1>1, <1>3, <3>1
  <2>4. ASSUME NEW j, NEW claim, NEW kind, NEW r, NEW n, TakeAction(j, claim, kind, r, n)
        PROVE  NumbersInv'
    <3>. DEFINE a == [Idle EXCEPT !.pc = kind]
                b == [a EXCEPT !.id = j]
                c == [b EXCEPT !.claim = claim]
                d == [c EXCEPT !.run = r]
                e == [d EXCEPT !.stage = n]
    <3>1. th' = [th EXCEPT !["act"] = e]
      BY <2>4, Zenon DEF TakeAction
    <3>2. UNCHANGED <<seq, outbox, ledger>>
      BY <2>1, <2>4 DEF TakeAction
    <3>3. e.k = 0
      <4>0. IsThread(Idle) /\ Idle.k = 0
        BY DEF IsThread, Idle
      <4>1. IsThread(a) /\ a.k = 0
        BY <4>0 DEF IsThread
      <4>. HIDE DEF a
      <4>2. IsThread(b) /\ b.k = 0
        BY <4>1 DEF IsThread
      <4>. HIDE DEF b
      <4>3. IsThread(c) /\ c.k = 0
        BY <4>2 DEF IsThread
      <4>. HIDE DEF c
      <4>4. IsThread(d) /\ d.k = 0
        BY <4>3 DEF IsThread
      <4>. HIDE DEF d
      <4>. QED  BY <4>4 DEF IsThread
    <3>. HIDE DEF e
    <3>4. th = [s \in Threads |-> th[s]]
      BY <1>0, Zenon DEF WorkerInv, ThreadsOK
    <3>5. ThreadsKeep
      BY <3>1, <3>3, <3>4, Zenon DEF ThreadsKeep
    <3>. QED  BY <1>1, <3>2, <3>5
  <2>. QED  BY <2>2, <2>3, <2>4, Zenon
<1>6. ASSUME NEW ids, WorkerPollsInVain(ids) PROVE NumbersInv'
  <2>1. UNCHANGED <<seq, outbox, ledger>> /\ th' = th
    BY <1>6 DEF WorkerPollsInVain, PollEmpty, workerVars
  <2>. QED  BY <1>1, <1>3, <2>1
<1>7. CASE Publish \/ PublishLost
  <2>1. /\ Go("act", "idle") /\ outbox' = outbox /\ ledger' = ledger
        /\ \/ \E i, token, res : ApplyResult(i, token, res)
           \/ UNCHANGED centerVars
    BY <1>7, Zenon DEF Publish, PublishLost
  <2>2. ASSUME NEW i, NEW token, NEW res, ApplyResult(i, token, res) PROVE seq' = seq
    BY <2>2 DEF ApplyResult, ActionSucceeded, StartUnresolved, StartFailed, StopFailed
  <2>3. seq' = seq
    <3>1. CASE UNCHANGED centerVars
      BY <3>1 DEF centerVars
    <3>. QED  BY <2>1, <2>2, <3>1, Zenon
  <2>4. ThreadsKeep
    BY <1>0, <1>2, <2>1, WaysOn, Zenon
  <2>5. UNCHANGED <<seq, outbox, ledger>>
    BY <2>1, <2>3
  <2>. QED  BY <1>1, <2>4, <2>5
<1>8. ASSUME Http PROVE NumbersInv'
  BY <1>0, <1>5, <1>6, <1>7, <1>8, SendsNumber, Zenon DEF Http
<1>. QED  BY <1>4, <1>8

(* Every step keeps the numbers in order.                                   *)
LEMMA NumbersStep ==
    ASSUME SystemInv, NumbersInv, ~env.races, [SystemNext]_<<systemVars, env>>
    PROVE  NumbersInv' /\ ~env'.races
<1>0. WorkerInv /\ seq \in [Runs -> Nat]
  BY Zenon DEF SystemInv, CenterInv, CenterTypeOK
<1>1. ASSUME seq' = seq, outbox' = outbox, ThreadsKeep, RowsKeep PROVE NumbersInv'
  BY <1>0, <1>1, NumbersKept, Zenon DEF KeepsNumbers
<1>2. env' = env
  BY Zenon DEF SystemNext, Under
<1>3. ASSUME ActionThread \/ MonitorThread \/ MainThread \/ Observes PROVE NumbersInv'
  <2>1. seq' = seq
    BY <1>3, WorkerAlone DEF centerVars
  <2>. QED  BY <1>0, <1>1, <1>3, <2>1, WatchersKeep, ObserversKeep, ActionsKeep, Zenon
<1>4. ASSUME Enqueues PROVE NumbersInv'
  BY <1>0, <1>4, ReadsNumber, StoresNumber, Zenon DEF Enqueues
<1>5. ASSUME Processes \/ Kills \/ WorkerCrash PROVE NumbersInv'
  <2>1. seq' = seq
    BY <1>5, WorkerAlone DEF centerVars
  <2>2. outbox' = outbox /\ ledger' = ledger /\ (th' = th \/ th' = Started)
    BY <1>5 DEF Processes, SupervisorStep, SupervisorBoot, SupervisorDecide, SupervisorSpawn,
                ChildExits, Kills, SupervisorKilled, WorkerCrash
  <2>3. "act" \in Threads
    BY DEF Threads
  <2>4. ThreadsKeep
    BY <1>0, <2>2, <2>3, WaysOn, Zenon
  <2>5. RowsKeep
    BY <1>0, <2>2, RowsAlone, Zenon
  <2>. QED  BY <1>1, <2>1, <2>2, <2>4, <2>5, Zenon
<1>6. ASSUME UNCHANGED <<systemVars, env>> PROVE NumbersInv'
  <2>1. seq' = seq /\ outbox' = outbox /\ ledger' = ledger /\ th' = th
    BY <1>6 DEF systemVars
  <2>2. ThreadsKeep
    BY <2>1, Zenon DEF ThreadsKeep
  <2>3. RowsKeep
    BY <1>0, <2>1, RowsAlone, Zenon
  <2>. QED  BY <1>1, <2>1, <2>2, <2>3, Zenon
<1>7. NumbersInv'
  BY <1>3, <1>4, <1>5, <1>6, OthersKeep, Zenon DEF SystemNext, Under
<1>. QED  BY <1>2, <1>7

(* The environments in which no two enqueue_update calls overlap.           *)
NoRaces == ~env.races

(* While no two enqueue_update calls overlap, no update ever blocks those   *)
(* behind it: whatever is lost, repeated or cut off by a crash, the oldest  *)
(* update of a run is one the center expects or has just applied.           *)
THEOREM OutboxNeverBlocks == SystemSpec /\ ~env.races => []OutboxDeliverable
<1>1. SystemInit => NumbersInv
  <2>. SUFFICES ASSUME SystemInit PROVE NumbersInv
    OBVIOUS
  <2>1. /\ th = Started /\ ledger = [r \in Runs |-> NoRow] /\ outbox = [r \in Runs |-> {}]
        /\ seq = [r \in Runs |-> 0]
    BY Zenon DEF SystemInit, WorkerInit, CenterInit
  <2>2. \A t \in Threads : th[t].k = 0
    <3>1. Idle.k = 0 /\ [Idle EXCEPT !.todo = env.runs].k = 0
      BY DEF Idle
    <3>. QED  BY <2>1, <3>1 DEF Started
  <2>3. NoRow.seq = 0
    BY DEF NoRow
  <2>4. NumbersOK({}, 0, 0)
    BY DEF NumbersOK
  <2>5. \A r \in Runs : NumbersOK(outbox[r], seq[r], ledger[r].seq)
    BY <2>1, <2>3, <2>4, Zenon
  <2>. QED  BY <2>2, <2>5, Zenon DEF NumbersInv
<1>2. SystemInv /\ NumbersInv => OutboxDeliverable
  <2>. SUFFICES ASSUME SystemInv, NumbersInv, NEW r \in Runs, NEW e \in outbox[r], Oldest(r, e)
                PROVE  e.k \in {seq[r], seq[r] + 1}
    BY Zenon DEF OutboxDeliverable
  <2>1. NumbersOK(outbox[r], seq[r], ledger[r].seq) /\ \A f \in outbox[r] : e.k <= f.k
    BY Zenon DEF NumbersInv, Oldest
  <2>2. seq[r] \in Nat
    BY DEF SystemInv, CenterInv, CenterTypeOK
  <2>. QED  BY <2>1, <2>2, OldestIsNext, Zenon
<1>3. SystemInv /\ NumbersInv /\ NoRaces /\ [SystemNext]_<<systemVars, env>>
        => NumbersInv' /\ NoRaces'
  BY NumbersStep DEF NoRaces
<1>4. ~env.races => NoRaces
  BY DEF NoRaces
<1>. QED  BY <1>1, <1>2, <1>3, <1>4, SystemInvariant, PTL DEF SystemSpec

-----------------------------------------------------------------------------
(* No stage is trained twice by a Worker that runs without interruption.    *)
(* A stage has one start action; its claim is held until its result is      *)
(* applied, and the thread that holds it records one launch, and spawns one *)
(* supervisor, on its way.  The threads that observe supervisors, main's    *)
(* reconciliation among them, may meanwhile write over the launch; they     *)
(* never make a row, nor make one accepted.                                 *)
(* Places before a start has recorded its launch, those before it has       *)
(* spawned the supervisor, and those only starts of a new launch pass.      *)
ToRecord == {"start", "resume", "prepare"}
ToSpawn == ToRecord \cup {"spawn"}
StartOnly == {"start", "prepare", "spawn", "await", "attach"}

(* Action a starts stage n of run r.                                        *)
IsStart(a, r, n) == a.kind = "start" /\ a.run = r /\ a.stage = n

(* Action i, whose row is a, is carried out beyond the early places, or it  *)
(* is settled, when the action thread is x.                                 *)
Past(i, a, x, early) ==
    IF x.pc # "idle" /\ x.id = i THEN x.pc \notin early ELSE a.status \notin Open

(* The run of a row, an update or an action in hand has begun.              *)
Touched ==
    /\ \A r \in Runs : ledger[r].state # "absent" => Begun(r)
    /\ \A r \in Runs : outbox[r] # {} => Begun(r)
    /\ th["act"].pc # "idle" => Begun(th["act"].run)

(* Thread x holds the claim of the action it carries out, unless the action *)
(* is settled.                                                              *)
HeldOK(x, acts) ==
    x.pc # "idle" =>
        /\ x.id \in DOMAIN acts
        /\ acts[x.id].run = x.run
        /\ acts[x.id].status # "queued"
        /\ acts[x.id].status = "running" => acts[x.id].claim = x.claim
        /\ x.pc \in StartOnly => IsStart(acts[x.id], x.run, x.stage) /\ ~x.flag
        /\ x.pc = "enqueue" => x.then # "idle"
        /\ x.pc # "resume"

Held == HeldOK(th["act"], actions)

(* A supervisor comes from a start that is past its spawning.               *)
SupsOnce ==
    /\ \A p \in DOMAIN sups : \E i \in DOMAIN actions :
          /\ IsStart(actions[i], sups[p].run, sups[p].stage)
          /\ Past(i, actions[i], th["act"], ToSpawn)
    /\ \A p, q \in DOMAIN sups :
          sups[p].run = sups[q].run /\ sups[p].stage = sups[q].stage => p = q

(* An accepted launch comes from a start that is past its recording.        *)
RowsOnce ==
    \A r \in Runs : ledger[r].state = "accepted" =>
        \E i \in DOMAIN actions : /\ IsStart(actions[i], r, ledger[r].stage)
                                  /\ Past(i, actions[i], th["act"], ToRecord)

Onces == Touched /\ Held /\ SupsOnce /\ RowsOnce

CalmInv == NumbersInv /\ Beginnings /\ Onces

-----------------------------------------------------------------------------
(* y is thread x, further on in the same action, at pc.                     *)
Same(x, y) == y.id = x.id /\ y.claim = x.claim /\ y.run = x.run
SameAt(x, y, pc) == Same(x, y) /\ y.pc = pc /\ y.stage = x.stage /\ y.flag = x.flag

(* How the action thread works at an action.                                *)
Works(x, y) ==
    /\ x.pc # "idle" /\ y.pc # "idle" /\ Same(x, y)
    /\ y.pc \in StartOnly => x.pc \in StartOnly /\ y.stage = x.stage /\ y.flag = x.flag
    /\ y.pc \in ToRecord => x.pc \in ToRecord
    /\ y.pc \in ToSpawn => x.pc \in ToSpawn
    /\ y.pc = "enqueue" => y.then # "idle"
    /\ y.pc # "resume"

(* The other threads stay where they are.                                   *)
Elsewhere(t) == \A s \in Threads : s # t => th'[s] = th[s]

(* Only thread t changes.                                                   *)
LEMMA OneChanges ==
    ASSUME WorkerInv, NEW t \in Threads, NEW y, th' = [th EXCEPT ![t] = y]
    PROVE  th'[t] = y /\ Elsewhere(t)
<1>1. th = [s \in Threads |-> th[s]]
  BY Zenon DEF WorkerInv, ThreadsOK
<1>2. \A s \in Threads : th'[s] = IF s = t THEN y ELSE th[s]
  BY <1>1, Zenon
<1>. QED  BY <1>2, Zenon DEF Elsewhere

(* Go keeps the action and its row.                                         *)
LEMMA GoWorks ==
    ASSUME WorkerInv, NEW t \in Threads, NEW pc, pc # "idle", Go(t, pc)
    PROVE  SameAt(th[t], th'[t], pc) /\ Elsewhere(t)
<1>. DEFINE x == th[t]
            a == [x EXCEPT !.pc = pc]
            b == [a EXCEPT !.then = "idle"]
            c == [b EXCEPT !.upd = NoUpdate]
            y == [c EXCEPT !.k = 0]
<1>0. IsThread(x)
  BY ThreadFacts, Zenon
<1>1. th' = [th EXCEPT ![t] = y]
  BY Zenon DEF Go, Local
<1>2. SameAt(x, y, pc)
  <2>. HIDE DEF x
  <2>1. IsThread(a) /\ SameAt(x, a, pc)
    BY <1>0 DEF IsThread, SameAt, Same
  <2>. HIDE DEF a
  <2>2. IsThread(b) /\ SameAt(a, b, pc)
    BY <2>1 DEF IsThread, SameAt, Same
  <2>. HIDE DEF b
  <2>3. IsThread(c) /\ SameAt(b, c, pc)
    BY <2>2 DEF IsThread, SameAt, Same
  <2>. HIDE DEF c
  <2>4. SameAt(c, y, pc)
    BY <2>3 DEF IsThread, SameAt, Same
  <2>. HIDE DEF y
  <2>. QED  BY <2>1, <2>2, <2>3, <2>4, Zenon DEF SameAt, Same
<1>. HIDE DEF y
<1>. QED  BY <1>1, <1>2, OneChanges, Zenon

(* So does Finish.                                                          *)
LEMMA FinishWorks ==
    ASSUME WorkerInv, NEW res, Finish(res)
    PROVE  SameAt(th["act"], th'["act"], "publish") /\ Elsewhere("act")
<1>. DEFINE x == th["act"]
            a == [x EXCEPT !.pc = "publish"]
            y == [a EXCEPT !.res = res]
<1>0. "act" \in Threads /\ IsThread(x)
  BY ThreadFacts, Zenon DEF Threads
<1>1. th' = [th EXCEPT !["act"] = y]
  BY Zenon DEF Finish
<1>2. SameAt(x, y, "publish")
  <2>. HIDE DEF x
  <2>1. IsThread(a) /\ SameAt(x, a, "publish")
    BY <1>0 DEF IsThread, SameAt, Same
  <2>. HIDE DEF a
  <2>2. SameAt(a, y, "publish")
    BY <2>1 DEF IsThread, SameAt, Same
  <2>. HIDE DEF y
  <2>. QED  BY <2>1, <2>2, Zenon DEF SameAt, Same
<1>. HIDE DEF y
<1>. QED  BY <1>0, <1>1, <1>2, OneChanges, Zenon

(* So does Enqueue, which remembers where to go on.                         *)
LEMMA EnqueueWorks ==
    ASSUME WorkerInv, NEW t \in Threads, NEW u, NEW pc, Enqueue(t, th[t].run, u, pc)
    PROVE  SameAt(th[t], th'[t], "enqueue") /\ th'[t].then = pc /\ Elsewhere(t)
<1>. DEFINE x == th[t]
            r == x.run
            a == [x EXCEPT !.pc = "enqueue"]
            b == [a EXCEPT !.run = r]
            c == [b EXCEPT !.upd = u]
            y == [c EXCEPT !.then = pc]
<1>0. IsThread(x)
  BY ThreadFacts, Zenon
<1>1. th' = [th EXCEPT ![t] = y]
  BY Zenon DEF Enqueue
<1>2. SameAt(x, y, "enqueue") /\ y.then = pc
  <2>. HIDE DEF x
  <2>1. IsThread(a) /\ SameAt(x, a, "enqueue")
    BY <1>0 DEF IsThread, SameAt, Same
  <2>. HIDE DEF a
  <2>2. IsThread(b) /\ SameAt(x, b, "enqueue")
    BY <2>1 DEF IsThread, SameAt, Same
  <2>. HIDE DEF b
  <2>3. IsThread(c) /\ SameAt(b, c, "enqueue")
    BY <2>2 DEF IsThread, SameAt, Same
  <2>. HIDE DEF c
  <2>4. SameAt(c, y, "enqueue") /\ y.then = pc
    BY <2>3 DEF IsThread, SameAt, Same
  <2>. HIDE DEF y
  <2>. QED  BY <2>2, <2>3, <2>4, Zenon DEF SameAt, Same
<1>. HIDE DEF y
<1>. QED  BY <1>1, <1>2, OneChanges, Zenon

(* A place beyond the launch is reached from anywhere.                      *)
LEMMA BeyondWorks ==
    ASSUME NEW x, NEW y, x.pc # "idle", Same(x, y),
           y.pc \notin {"idle", "resume"} \cup StartOnly \cup ToSpawn,
           y.pc = "enqueue" => y.then # "idle"
    PROVE  Works(x, y)
BY Zenon DEF Works, ToSpawn

(* The places of the observers are such.                                    *)
LEMMA RenewsWorks ==
    ASSUME NEW x, NEW y, NEW pc, NEW res, RenewsAt(x, y, pc, res), x.pc # "idle",
           pc \in {"judge", "report"}
    PROVE  Works(x, y)
<1>1. Same(x, y) /\ y.pc = pc
  BY Zenon DEF RenewsAt, Renews, Keeps, Same
<1>2. pc \notin {"idle", "resume", "enqueue"} \cup StartOnly \cup ToSpawn
  BY DEF StartOnly, ToSpawn, ToRecord
<1>. QED  BY <1>1, <1>2, BeyondWorks, Zenon

(* So does the one that spawns a supervisor.                                *)
LEMMA SpawnGoes ==
    ASSUME WorkerInv, SpawnSupervisor
    PROVE  th["act"].pc = "spawn" /\ SameAt(th["act"], th'["act"], "await") /\ Elsewhere("act")
<1>. DEFINE x == th["act"]
            k == Len(sups) + 1
            a == [x EXCEPT !.pc = "await"]
            y == [a EXCEPT !.pid = k]
<1>0. "act" \in Threads /\ IsThread(x)
  BY ThreadFacts, Zenon DEF Threads
<1>1. x.pc = "spawn" /\ th' = [th EXCEPT !["act"] = y]
  BY Zenon DEF SpawnSupervisor
<1>. HIDE DEF k
<1>2. SameAt(x, y, "await")
  <2>. HIDE DEF x
  <2>1. IsThread(a) /\ SameAt(x, a, "await")
    BY <1>0 DEF IsThread, SameAt, Same
  <2>. HIDE DEF a
  <2>2. SameAt(a, y, "await")
    BY <2>1 DEF IsThread, SameAt, Same
  <2>. HIDE DEF y
  <2>. QED  BY <2>1, <2>2, Zenon DEF SameAt, Same
<1>. HIDE DEF y
<1>. QED  BY <1>0, <1>1, <1>2, OneChanges, Zenon

(* Under Held every step of the action thread works at its action: it does  *)
(* not come upon a launch recorded by another start.                        *)
LEMMA ActWorks ==
    ASSUME WorkerInv, Held, ActionThread,
           th["act"].pc = "start" => ~SameLaunch(ledger[th["act"].run], th["act"].stage)
    PROVE  Works(th["act"], th'["act"]) /\ Elsewhere("act")
<1>. DEFINE x == th["act"]
            y == th'["act"]
<1>0. "act" \in Threads /\ IsThread(x)
  BY ThreadFacts, Zenon DEF Threads
<1>1. x.pc # "idle" => x.pc # "resume" /\ (x.pc \in StartOnly => ~x.flag)
  BY Zenon DEF Held, HeldOK
<1>2. ASSUME NEW pc, Go("act", pc), x.pc # "idle",
             pc \notin {"idle", "resume", "enqueue"} \cup StartOnly \cup ToSpawn
      PROVE  Works(x, y) /\ Elsewhere("act")
  <2>1. SameAt(x, y, pc) /\ Elsewhere("act")
    BY <1>0, <1>2, GoWorks, Zenon
  <2>. QED  BY <1>2, <2>1, BeyondWorks, Zenon DEF SameAt
<1>3. ASSUME NEW res, Finish(res), x.pc # "idle"
      PROVE  Works(x, y) /\ Elsewhere("act")
  <2>1. SameAt(x, y, "publish") /\ Elsewhere("act")
    BY <1>3, FinishWorks, Zenon
  <2>2. "publish" \notin {"idle", "resume", "enqueue"} \cup StartOnly \cup ToSpawn
    BY DEF StartOnly, ToSpawn, ToRecord
  <2>. QED  BY <1>3, <2>1, <2>2, BeyondWorks, Zenon DEF SameAt
<1>4. ASSUME NEW u, NEW pc, pc # "idle", Enqueue("act", x.run, u, pc), x.pc # "idle"
      PROVE  Works(x, y) /\ Elsewhere("act")
  <2>1. SameAt(x, y, "enqueue") /\ y.then = pc /\ Elsewhere("act")
    BY <1>0, <1>4, EnqueueWorks, Zenon
  <2>2. "enqueue" \notin {"idle", "resume"} \cup StartOnly \cup ToSpawn
    BY DEF StartOnly, ToSpawn, ToRecord
  <2>. QED  BY <1>4, <2>1, <2>2, BeyondWorks, Zenon DEF SameAt
<1>5. CASE StartDecide
  <2>1. x.pc = "start" /\ x.pc # "idle" /\ ((\E res : Finish(res)) \/ Go("act", "prepare"))
    BY <1>5, Zenon DEF StartDecide
  <2>2. CASE Go("act", "prepare")
    <3>1. SameAt(x, y, "prepare") /\ Elsewhere("act")
      BY <1>0, <2>2, GoWorks
    <3>2. x.pc = "start" /\ y.pc = "prepare"
      BY <2>1, <3>1 DEF SameAt
    <3>3. /\ y.pc \notin {"idle", "enqueue", "resume"}
          /\ x.pc \in StartOnly /\ x.pc \in ToRecord /\ x.pc \in ToSpawn
      BY <3>2 DEF StartOnly, ToRecord, ToSpawn
    <3>. QED  BY <2>1, <3>1, <3>3, Zenon DEF Works, SameAt
  <2>. QED  BY <1>3, <2>1, <2>2, Zenon
<1>6. CASE RecordLaunch
  <2>1. x.pc = "prepare" /\ x.pc # "idle" /\ Go("act", "spawn")
    BY <1>6 DEF RecordLaunch
  <2>2. SameAt(x, y, "spawn") /\ Elsewhere("act")
    BY <1>0, <2>1, GoWorks
  <2>3. y.pc = "spawn"
    BY <2>2 DEF SameAt
  <2>4. /\ y.pc \notin {"idle", "enqueue", "resume"}
        /\ x.pc \in StartOnly /\ x.pc \in ToRecord /\ x.pc \in ToSpawn
    BY <2>1, <2>3 DEF StartOnly, ToRecord, ToSpawn
  <2>. QED  BY <2>1, <2>2, <2>4, Zenon DEF Works, SameAt
<1>7. CASE SpawnSupervisor
  <2>1. x.pc = "spawn" /\ x.pc # "idle" /\ SameAt(x, y, "await") /\ Elsewhere("act")
    BY <1>7, SpawnGoes, Zenon
  <2>2. y.pc \notin {"idle", "enqueue", "resume"} \cup ToRecord \cup ToSpawn /\ x.pc \in StartOnly
    BY <2>1 DEF StartOnly, ToRecord, ToSpawn, SameAt
  <2>. QED  BY <2>1, <2>2, Zenon DEF Works, SameAt
<1>8. CASE AwaitSupervisor
  <2>1. x.pc = "await" /\ x.pc # "idle" /\ ((\E res : Finish(res)) \/ Go("act", "attach"))
    BY <1>8 DEF AwaitSupervisor
  <2>2. CASE Go("act", "attach")
    <3>1. SameAt(x, y, "attach") /\ Elsewhere("act")
      BY <1>0, <2>2, GoWorks
    <3>2. y.pc = "attach"
      BY <3>1 DEF SameAt
    <3>3. /\ y.pc \notin {"idle", "enqueue", "resume"} \cup ToRecord \cup ToSpawn
          /\ x.pc \in StartOnly
      BY <2>1, <3>2 DEF StartOnly, ToRecord, ToSpawn
    <3>. QED  BY <2>1, <3>1, <3>3, Zenon DEF Works, SameAt
  <2>. QED  BY <1>3, <2>1, <2>2, Zenon
<1>9. CASE Attach
  <2>1. /\ x.pc = "attach" /\ x.pc # "idle"
        /\ \/ \E res : Finish(res)
           \/ Go("act", "commit")
           \/ x.flag
    BY <1>9 DEF Attach
  <2>2. ~x.flag
    BY <1>1, <2>1 DEF StartOnly
  <2>3. "commit" \notin {"idle", "resume", "enqueue"} \cup StartOnly \cup ToSpawn
    BY DEF StartOnly, ToSpawn, ToRecord
  <2>. QED  BY <1>2, <1>3, <2>1, <2>2, <2>3, Zenon
<1>10. CASE LaunchFails \/ AwaitFails \/ AwaitTrainingFails \/ ActOk
  <2>1. x.pc # "idle" /\ \E res : Finish(res)
    BY <1>10 DEF LaunchFails, AwaitFails, AwaitTrainingFails, ActOk
  <2>. QED  BY <1>3, <2>1, Zenon
<1>11. CASE WriteCommit \/ AwaitTraining \/ WriteCancel \/ StopKill
  <2>1. x.pc # "idle" /\ \E pc \in {"launched", "setRunning", "stopKill", "stopped"} : Go("act", pc)
    BY <1>11 DEF WriteCommit, AwaitTraining, WriteCancel, StopKill
  <2>2. \A pc \in {"launched", "setRunning", "stopKill", "stopped"} :
           pc \notin {"idle", "resume", "enqueue"} \cup StartOnly \cup ToSpawn
    BY DEF StartOnly, ToSpawn, ToRecord
  <2>. QED  BY <1>2, <2>1, <2>2, Zenon
<1>12. CASE SetRunning
  <2>. DEFINE pc == IF x.flag THEN "observe" ELSE "ok"
  <2>1. x.pc # "idle" /\ pc # "idle"
    BY <1>12 DEF SetRunning
  <2>2. \E u : Enqueue("act", x.run, u, pc)
    BY <1>12, Zenon DEF SetRunning
  <2>. QED  BY <1>4, <2>1, <2>2, Zenon
<1>13. CASE StopRecord
  <2>. DEFINE z == [[x EXCEPT !.pc = "report"] EXCEPT !.res = "cancelled"]
  <2>1. x.pc # "idle"
    BY <1>13 DEF StopRecord
  <2>2. th' = [th EXCEPT !["act"] = z]
    BY <1>13, Zenon DEF StopRecord
  <2>3. RenewsAt(x, z, "report", "cancelled")
    BY <1>0, RenewsResult, Zenon
  <2>. HIDE DEF z
  <2>4. Works(x, z)
    BY <2>1, <2>3, RenewsWorks, Zenon
  <2>. QED  BY <1>0, <2>2, <2>4, OneChanges, Zenon
<1>14. CASE ResumeRelaunch \/ ResumeUnresolved \/ ResumeLaunch
  <2>1. x.pc = "resume" /\ x.pc # "idle"
    BY <1>14 DEF ResumeRelaunch, ResumeUnresolved, ResumeLaunch
  <2>. QED  BY <1>1, <2>1, Zenon
<1>15. CASE StopDecide
  <2>. DEFINE n == ledger[x.run].stage
              g == (ledger[x.run].state = "accepted")
              a == [x EXCEPT !.pc = "stopRead"]
              b == [a EXCEPT !.stage = n]
              z == [b EXCEPT !.flag = g]
  <2>1. /\ x.pc # "idle"
        /\ (\E res : Finish(res)) \/ th' = [th EXCEPT !["act"] = z]
    <3>1. x.pc = "stop"
      BY <1>15 DEF StopDecide
    <3>2. (\E res : Finish(res)) \/ th' = [th EXCEPT !["act"] = z]
      BY <1>15, Zenon DEF StopDecide
    <3>. QED  BY <3>1, <3>2
  <2>. HIDE DEF n, g
  <2>2. Same(x, z) /\ z.pc = "stopRead"
    <3>. HIDE DEF x
    <3>1. IsThread(a) /\ Same(x, a) /\ a.pc = "stopRead"
      BY <1>0 DEF IsThread, Same
    <3>. HIDE DEF a
    <3>2. IsThread(b) /\ Same(x, b) /\ b.pc = "stopRead"
      BY <3>1 DEF IsThread, Same
    <3>. HIDE DEF b
    <3>. QED  BY <3>2 DEF IsThread, Same
  <2>. HIDE DEF z
  <2>3. z.pc \notin {"idle", "resume", "enqueue"} \cup StartOnly \cup ToSpawn
    BY <2>2 DEF StartOnly, ToSpawn, ToRecord
  <2>4. Works(x, z)
    BY <2>1, <2>2, <2>3, BeyondWorks, Zenon
  <2>5. th' = [th EXCEPT !["act"] = z] => y = z /\ Elsewhere("act")
    BY <1>0, OneChanges, Zenon
  <2>. QED  BY <1>3, <2>1, <2>4, <2>5, Zenon
<1>16. CASE StopRead
  <2>. DEFINE f == file[x.run][x.stage]
              p == IF f.status \in {"running", "exited"} THEN f.pid ELSE 0
              pc == IF x.flag THEN "stopCancel" ELSE "stopKill"
              a == [x EXCEPT !.pc = pc]
              z == [a EXCEPT !.pid = p]
  <2>1. x.pc # "idle"
    BY <1>16 DEF StopRead
  <2>2. th' = [th EXCEPT !["act"] = z]
    BY <1>16, Zenon DEF StopRead
  <2>3. pc \in {"stopCancel", "stopKill"}
    OBVIOUS
  <2>. HIDE DEF p, pc
  <2>4. Same(x, z) /\ z.pc = pc
    <3>. HIDE DEF x
    <3>1. IsThread(a) /\ Same(x, a) /\ a.pc = pc
      BY <1>0 DEF IsThread, Same
    <3>. HIDE DEF a
    <3>. QED  BY <3>1 DEF IsThread, Same
  <2>. HIDE DEF z
  <2>5. z.pc \notin {"idle", "resume", "enqueue"} \cup StartOnly \cup ToSpawn
    BY <2>3, <2>4 DEF StartOnly, ToSpawn, ToRecord
  <2>6. Works(x, z)
    BY <2>1, <2>4, <2>5, BeyondWorks, Zenon
  <2>7. y = z /\ Elsewhere("act")
    BY <1>0, <2>2, OneChanges, Zenon
  <2>. QED  BY <2>6, <2>7, Zenon
<1>. QED  BY <1>5, <1>6, <1>7, <1>8, <1>9, <1>10, <1>11, <1>12, <1>13, <1>14, <1>15, <1>16, Zenon
          DEF ActionThread

-----------------------------------------------------------------------------
(* What a step does to the rows, when it is the action thread's or a row's  *)
(* that is there: only a launch makes a row, or makes one accepted.         *)
RowsFollow ==
    \A r \in Runs :
        /\ ledger'[r].state # "absent" =>
              \/ ledger[r].state # "absent"
              \/ th["act"].pc # "idle" /\ th["act"].run = r
        /\ ledger'[r].state = "accepted" =>
              \/ ledger[r].state = "accepted" /\ ledger'[r].stage = ledger[r].stage
              \/ /\ th["act"].pc = "prepare" /\ th["act"].run = r
                 /\ th'["act"].pc = "spawn" /\ ledger'[r].stage = th["act"].stage

(* The outbox of a run without a row stays empty.                           *)
OutboxFollows ==
    \A r \in Runs : outbox'[r] # {} => outbox[r] # {} \/ ledger[r].state # "absent"

(* No supervisor comes, and none changes its run or stage.                  *)
Alike(ss, tt) ==
    /\ DOMAIN tt = DOMAIN ss /\ tt = [p \in DOMAIN tt |-> tt[p]]
    /\ \A p \in DOMAIN ss : /\ IsSupervisor(tt[p])
                            /\ tt[p].run = ss[p].run /\ tt[p].stage = ss[p].stage

(* A row that is there gets another state, pid or number.                   *)
LEMMA RowsGoOn ==
    ASSUME WorkerInv,
           \/ ledger' = ledger
           \/ \E r \in KnownIn(ledger) : \E st : st # "accepted" /\ SetLedger(r, st)
           \/ \E r \in KnownIn(ledger) : \E p : ledger' = [ledger EXCEPT ![r].pid = p]
           \/ \E r \in KnownIn(ledger) : \E k : ledger' = [ledger EXCEPT ![r].seq = k]
    PROVE  RowsFollow
<1>1. ledger = [q \in Runs |-> ledger[q]] /\ \A q \in Runs : IsRow(ledger[q])
  BY RowFacts, Zenon DEF WorkerInv, RowsOK
<1>2. ASSUME NEW r \in KnownIn(ledger), NEW w, ledger' = [ledger EXCEPT ![r] = w],
             w.state # "accepted" \/ (w.state = ledger[r].state /\ w.stage = ledger[r].stage)
      PROVE  RowsFollow
  <2>1. \A q \in Runs : ledger'[q] = IF q = r THEN w ELSE ledger[q]
    BY <1>1, <1>2, Zenon
  <2>2. ledger[r].state # "absent"
    BY Zenon DEF KnownIn
  <2>. QED  BY <1>2, <2>1, <2>2, Zenon DEF RowsFollow
<1>3. CASE ledger' = ledger
  BY <1>3, Zenon DEF RowsFollow
<1>4. ASSUME NEW r \in KnownIn(ledger), NEW st, st # "accepted", SetLedger(r, st)
      PROVE  RowsFollow
  <2>. DEFINE v == ledger[r]
              w == [v EXCEPT !.state = st]
  <2>1. ledger' = [ledger EXCEPT ![r] = w]
    BY <1>4, Zenon DEF SetLedger
  <2>2. IsRow(v)
    BY <1>1, Zenon DEF KnownIn
  <2>. HIDE DEF v
  <2>3. w.state = st
    BY <2>2 DEF IsRow
  <2>. HIDE DEF w
  <2>. QED  BY <1>2, <1>4, <2>1, <2>3, Zenon
<1>5. ASSUME NEW r \in KnownIn(ledger), NEW p, ledger' = [ledger EXCEPT ![r].pid = p]
      PROVE  RowsFollow
  <2>. DEFINE v == ledger[r]
              w == [v EXCEPT !.pid = p]
  <2>1. ledger' = [ledger EXCEPT ![r] = w]
    BY <1>5, Zenon
  <2>2. IsRow(v)
    BY <1>1, Zenon DEF KnownIn
  <2>3. w.state = v.state /\ w.stage = v.stage
    <3>. HIDE DEF v
    <3>. QED  BY <2>2 DEF IsRow
  <2>. HIDE DEF w
  <2>. QED  BY <1>2, <2>1, <2>3, Zenon
<1>6. ASSUME NEW r \in KnownIn(ledger), NEW k, ledger' = [ledger EXCEPT ![r].seq = k]
      PROVE  RowsFollow
  <2>. DEFINE v == ledger[r]
              w == [v EXCEPT !.seq = k]
  <2>1. ledger' = [ledger EXCEPT ![r] = w]
    BY <1>6, Zenon
  <2>2. IsRow(v)
    BY <1>1, Zenon DEF KnownIn
  <2>3. w.state = v.state /\ w.stage = v.stage
    <3>. HIDE DEF v
    <3>. QED  BY <2>2 DEF IsRow
  <2>. HIDE DEF w
  <2>. QED  BY <1>2, <2>1, <2>3, Zenon
<1>. QED  BY <1>3, <1>4, <1>5, <1>6

(* A launch is recorded for the stage the action names.                     *)
LEMMA RecordFollows ==
    ASSUME WorkerInv, RecordLaunch
    PROVE  RowsFollow
<1>. DEFINE x == th["act"]
            r == x.run
            n == x.stage
            v == ledger[r]
            w == LaunchRow(v, n)
<1>1. x.pc = "prepare" /\ x.pc # "idle" /\ Go("act", "spawn")
  BY DEF RecordLaunch
<1>2. ledger' = [ledger EXCEPT ![r] = w]
  BY Zenon DEF RecordLaunch
<1>3. IsRow(v) /\ "act" \in Threads
  BY <1>1, ActFacts, Zenon
<1>4. w.stage = n
  <2>. DEFINE b == [v EXCEPT !.state = "accepted"]
              c == [b EXCEPT !.stage = n]
              d == [c EXCEPT !.pid = 0]
              k == IF v.state = "accepted" THEN d.token ELSE d.token + 1
  <2>1. w = [d EXCEPT !.token = k]
    BY Zenon DEF LaunchRow
  <2>. HIDE DEF v, w, k, n
  <2>2. IsRow(b)
    BY <1>3 DEF IsRow
  <2>. HIDE DEF b
  <2>3. IsRow(c) /\ c.stage = n
    BY <2>2 DEF IsRow
  <2>. HIDE DEF c
  <2>4. IsRow(d) /\ d.stage = n
    BY <2>3 DEF IsRow
  <2>. HIDE DEF d
  <2>. QED  BY <2>1, <2>4 DEF IsRow
<1>5. ledger = [q \in Runs |-> ledger[q]]
  BY Zenon DEF WorkerInv, RowsOK
<1>. HIDE DEF w
<1>6. \A q \in Runs : ledger'[q] = IF q = r THEN w ELSE ledger[q]
  BY <1>2, <1>5, Zenon
<1>7. th'["act"].pc = "spawn"
  BY <1>1, <1>3, GoWorks DEF SameAt
<1>. QED  BY <1>1, <1>4, <1>6, <1>7, Zenon DEF RowsFollow

(* The action thread.                                                       *)
LEMMA ActsFollow ==
    ASSUME WorkerInv, NumbersInv, ActionThread
    PROVE  RowsFollow /\ outbox' = outbox
<1>. DEFINE x == th["act"]
            r == x.run
<1>0. outbox' = outbox
  BY ActionsKeep, Zenon
<1>. SUFFICES RowsFollow
  BY <1>0
<1>1. ASSUME \/ StartDecide \/ LaunchFails \/ SpawnSupervisor \/ AwaitSupervisor \/ AwaitFails
             \/ WriteCommit \/ AwaitTraining \/ AwaitTrainingFails \/ ActOk
             \/ ResumeRelaunch \/ ResumeUnresolved \/ ResumeLaunch \/ StopRead \/ WriteCancel
             \/ StopKill
      PROVE  ledger' = ledger
  <2>1. CASE StartDecide \/ LaunchFails \/ SpawnSupervisor \/ AwaitSupervisor \/ AwaitFails
    BY <2>1 DEF StartDecide, LaunchFails, SpawnSupervisor, AwaitSupervisor, AwaitFails
  <2>2. CASE WriteCommit \/ AwaitTraining \/ AwaitTrainingFails \/ ActOk
    BY <2>2 DEF WriteCommit, AwaitTraining, AwaitTrainingFails, ActOk
  <2>3. CASE \/ ResumeRelaunch \/ ResumeUnresolved \/ ResumeLaunch \/ StopRead \/ WriteCancel
             \/ StopKill
    BY <2>3 DEF ResumeRelaunch, ResumeUnresolved, ResumeLaunch, StopRead, WriteCancel, StopKill
  <2>. QED  BY <1>1, <2>1, <2>2, <2>3
<1>2. CASE RecordLaunch
  BY <1>2, RecordFollows
<1>3. CASE Attach
  <2>1. x.pc # "idle" /\ x.pc \in KnownPlaces
    BY <1>3 DEF Attach, KnownPlaces
  <2>2. r \in KnownIn(ledger)
    BY <2>1, ActFacts, Zenon
  <2>3. ledger' = ledger \/ \E p : ledger' = [ledger EXCEPT ![r].pid = p]
    BY <1>3, Zenon DEF Attach
  <2>. QED  BY <2>2, <2>3, RowsGoOn, Zenon
<1>4. CASE SetRunning \/ StopRecord
  <2>1. x.pc # "idle" /\ x.pc \in KnownPlaces
    BY <1>4 DEF SetRunning, StopRecord, KnownPlaces
  <2>2. r \in KnownIn(ledger)
    BY <2>1, ActFacts, Zenon
  <2>3. SetLedger(r, "running") \/ SetLedger(r, "cancelled")
    BY <1>4, Zenon DEF SetRunning, StopRecord
  <2>4. "running" # "accepted" /\ "cancelled" # "accepted"
    OBVIOUS
  <2>. QED  BY <2>2, <2>3, <2>4, RowsGoOn, Zenon
<1>6. CASE StopDecide
  <2>1. \/ ledger' = ledger
        \/ /\ x.pc = "stop" /\ ledger[r].state \in {"accepted", "running", "stopping"}
           /\ SetLedger(r, "stopping")
    BY <1>6, Zenon DEF StopDecide
  <2>2. CASE /\ x.pc = "stop" /\ ledger[r].state \in {"accepted", "running", "stopping"}
             /\ SetLedger(r, "stopping")
    <3>1. x.pc # "idle" /\ ledger[r].state # "absent" /\ "stopping" # "accepted"
      BY <2>2
    <3>2. r \in KnownIn(ledger)
      BY <3>1, ActFacts, Zenon
    <3>. QED  BY <2>2, <3>1, <3>2, RowsGoOn, Zenon
  <2>. QED  BY <2>1, <2>2, RowsGoOn, Zenon
<1>7. RowsFollow
  BY <1>1, <1>2, <1>3, <1>4, <1>6, RowsGoOn, Zenon DEF ActionThread
<1>. QED  BY <1>7

(* The monitor lists a run.                                                 *)
LEMMA MonitorFollows ==
    ASSUME WorkerInv, MonitorThread
    PROVE  /\ ledger' = ledger /\ outbox' = outbox /\ sups' = sups
           /\ Elsewhere("mon")
<1>. DEFINE x == th["mon"]
<1>0. "mon" \in Threads
  BY DEF Threads
<1>1. PICK q \in Runs : MonitorList(q)
  BY Zenon DEF MonitorThread
<1>2. ledger' = ledger /\ outbox' = outbox /\ sups' = sups
  BY <1>1 DEF MonitorList
<1>. DEFINE a == [x EXCEPT !.pc = "observe"]
            b == [a EXCEPT !.run = q]
            y == [b EXCEPT !.stage = ledger[q].stage]
<1>3. th' = [th EXCEPT !["mon"] = y]
  BY <1>1, Zenon DEF MonitorList, ReadRow
<1>. HIDE DEF y
<1>. QED  BY <1>0, <1>2, <1>3, OneChanges, Zenon

(* A thread that observes a supervisor writes its verdict to a row that is  *)
(* there.                                                                   *)
LEMMA ObserversFollow ==
    ASSUME WorkerInv, NumbersInv, NEW t \in Threads, ObserveRead(t) \/ Judge(t) \/ Report(t)
    PROVE  /\ RowsFollow /\ outbox' = outbox /\ sups' = sups /\ Elsewhere(t)
           /\ t = "act" => Works(th[t], th'[t])
<1>. DEFINE x == th[t]
            r == x.run
<1>0. x.pc # "idle" /\ x.pc \in KnownPlaces /\ outbox' = outbox /\ sups' = sups
  BY DEF ObserveRead, Judge, Report, KnownPlaces
<1>1. IsThread(x) /\ r \in KnownIn(ledger)
  BY <1>0, ThreadFacts, Zenon
<1>2. RowsFollow
  <2>1. \/ ledger' = ledger
        \/ SetLedger(r, "unknown")
        \/ x.res \in {"succeeded", "failed"} /\ SetLedger(r, x.res)
    BY Zenon DEF ObserveRead, Judge, Report
  <2>2. "unknown" # "accepted" /\ (x.res \in {"succeeded", "failed"} => x.res # "accepted")
    OBVIOUS
  <2>. QED  BY <1>1, <2>1, <2>2, RowsGoOn, Zenon
<1>3. ASSUME NEW y, Works(x, y), th' = [th EXCEPT ![t] = y]
      PROVE  Elsewhere(t) /\ Works(x, th'[t])
  BY <1>3, OneChanges, Zenon
<1>4. ASSUME Go(t, Observed(t))
      PROVE  Elsewhere(t) /\ (t = "act" => Works(x, th'[t]))
  <2>1. CASE t = "act"
    <3>1. /\ Observed(t) # "idle"
          /\ Observed(t) \notin {"idle", "resume", "enqueue"} \cup StartOnly \cup ToSpawn
      BY <2>1 DEF Observed, StartOnly, ToSpawn, ToRecord
    <3>2. SameAt(x, th'[t], Observed(t)) /\ Elsewhere(t)
      BY <1>4, <3>1, GoWorks, Zenon
    <3>. QED  BY <1>0, <3>1, <3>2, BeyondWorks, Zenon DEF SameAt
  <2>2. Elsewhere(t)
    BY <1>4, GoForgets, Zenon DEF Elsewhere
  <2>. QED  BY <2>1, <2>2
<1>5. CASE ObserveRead(t)
  <2>. DEFINE f == file[x.run][x.stage]
              p == f.pid
              res == IF f.status = "exited" THEN ExitStatus(f.code) ELSE f.status
              y == [[[x EXCEPT !.pc = "judge"] EXCEPT !.pid = p] EXCEPT !.res = res]
  <2>1. Go(t, Observed(t)) \/ th' = [th EXCEPT ![t] = y]
    BY <1>5, Zenon DEF ObserveRead
  <2>. HIDE DEF f, p, res
  <2>2. RenewsAt(x, y, "judge", res)
    BY <1>1, RenewsMany, Zenon
  <2>. HIDE DEF y
  <2>3. "judge" \in {"judge", "report"}
    OBVIOUS
  <2>4. CASE th' = [th EXCEPT ![t] = y]
    <3>1. Works(x, y)
      BY <1>0, <2>2, <2>3, RenewsWorks
    <3>2. Elsewhere(t) /\ Works(x, th'[t])
      BY <1>3, <2>4, <3>1, Zenon
    <3>. QED  BY <1>0, <1>2, <3>2, Zenon
  <2>. QED  BY <1>0, <1>2, <1>4, <2>1, <2>4, Zenon
<1>6. CASE Judge(t)
  <2>. DEFINE y == [x EXCEPT !.pc = "report"]
              res == WhatIsLeft(x)
              z == [[x EXCEPT !.pc = "report"] EXCEPT !.res = res]
  <2>0. "report" \in {"judge", "report"}
    OBVIOUS
  <2>1. Go(t, Observed(t)) \/ th' = [th EXCEPT ![t] = y] \/ th' = [th EXCEPT ![t] = z]
    BY <1>6, Zenon DEF Judge
  <2>. HIDE DEF res
  <2>2. Renews(x, y) /\ y.pc = "report"
    BY <1>1, RenewsPlace
  <2>3. RenewsAt(x, z, "report", res)
    BY <1>1, RenewsResult, Zenon
  <2>. HIDE DEF y, z
  <2>4. CASE th' = [th EXCEPT ![t] = y]
    <3>1. RenewsAt(x, y, "report", y.res)
      BY <2>2, Zenon DEF RenewsAt
    <3>2. Works(x, y)
      BY <1>0, <2>0, <3>1, RenewsWorks
    <3>3. Elsewhere(t) /\ Works(x, th'[t])
      BY <1>3, <2>4, <3>2, Zenon
    <3>. QED  BY <1>0, <1>2, <3>3, Zenon
  <2>5. CASE th' = [th EXCEPT ![t] = z]
    <3>1. Works(x, z)
      BY <1>0, <2>0, <2>3, RenewsWorks
    <3>2. Elsewhere(t) /\ Works(x, th'[t])
      BY <1>3, <2>5, <3>1, Zenon
    <3>. QED  BY <1>0, <1>2, <3>2, Zenon
  <2>. QED  BY <1>0, <1>2, <1>4, <2>1, <2>4, <2>5, Zenon
<1>7. CASE Report(t)
  <2>1. PICK u : Enqueue(t, x.run, u, Observed(t))
    BY <1>7, Zenon DEF Report
  <2>2. SameAt(x, th'[t], "enqueue") /\ th'[t].then = Observed(t) /\ Elsewhere(t)
    BY <2>1, EnqueueWorks, Zenon
  <2>3. t = "act" => Observed(t) # "idle"
    BY DEF Observed
  <2>4. "enqueue" \notin {"idle", "resume"} \cup StartOnly \cup ToSpawn
    BY DEF StartOnly, ToSpawn, ToRecord
  <2>5. t = "act" => Works(x, th'[t])
    BY <1>0, <2>2, <2>3, <2>4, BeyondWorks, Zenon DEF SameAt
  <2>. QED  BY <1>0, <1>2, <2>2, <2>5, Zenon
<1>. QED  BY <1>5, <1>6, <1>7

(* Main writes back a state it has listed, which was an active one, or      *)
(* "unknown"; the exception it may end with counts as a crash.              *)
LEMMA MainFollows ==
    ASSUME WorkerInv, NumbersInv, MainThread, crashes \in Nat, crashes' = 0
    PROVE  RowsFollow /\ outbox' = outbox /\ sups' = sups /\ Elsewhere("main")
<1>. DEFINE x == th["main"]
<1>0. "main" \in Threads /\ IsThread(x) /\ outbox' = outbox
  BY ThreadFacts, WatchersKeep, Zenon DEF Threads
<1>1. ASSUME ledger' = ledger, sups' = sups, NEW y, th' = [th EXCEPT !["main"] = y]
      PROVE  RowsFollow /\ sups' = sups /\ Elsewhere("main")
  BY <1>0, <1>1, OneChanges, RowsGoOn, Zenon
<1>2. ASSUME NEW r \in Runs, MainList(r)
      PROVE  RowsFollow /\ sups' = sups /\ Elsewhere("main")
  <2>. DEFINE pc == IF ledger[r].state \in ActiveStates THEN "observe" ELSE "list"
              a == [x EXCEPT !.pc = pc]
              b == [a EXCEPT !.run = r]
              y == [b EXCEPT !.stage = ledger[r].stage]
  <2>1. ledger' = ledger /\ sups' = sups
    BY <1>2 DEF MainList
  <2>2. th' = [th EXCEPT !["main"] = y]
    BY <1>2, Zenon DEF MainList, ReadRow
  <2>. HIDE DEF y
  <2>. QED  BY <1>1, <2>1, <2>2, Zenon
<1>3. CASE MainRelist
  <2>. DEFINE p == ledger[x.run].pid
              st == ledger[x.run].state
              a == [x EXCEPT !.pc = "probe"]
              b == [a EXCEPT !.pid = p]
              y == [b EXCEPT !.res = st]
  <2>1. ledger' = ledger /\ sups' = sups
    BY <1>3 DEF MainRelist
  <2>2. th' = [th EXCEPT !["main"] = y] \/ Go("main", "idle")
    BY <1>3, Zenon DEF MainRelist
  <2>. HIDE DEF y
  <2>3. CASE th' = [th EXCEPT !["main"] = y]
    BY <1>0, <1>1, <2>1, <2>3, Zenon
  <2>4. CASE Go("main", "idle")
    <3>1. th' = [th EXCEPT !["main"] = Local("main", "idle")]
      BY <2>4, Zenon DEF Go
    <3>. QED  BY <1>0, <1>1, <2>1, <3>1, Zenon
  <2>. QED  BY <2>2, <2>3, <2>4, Zenon
<1>4. CASE MainProbe
  <2>. DEFINE g == SupAlive(x.pid)
              a == [x EXCEPT !.pc = "write"]
              y == [a EXCEPT !.flag = g]
  <2>1. ledger' = ledger /\ sups' = sups
    BY <1>4 DEF MainProbe
  <2>2. ~ProcessEnds
    <3>1. (IF crashes = 0 THEN 1 ELSE crashes) # 0
      OBVIOUS
    <3>. QED  BY <3>1, Zenon DEF ProcessEnds
  <2>3. th' = [th EXCEPT !["main"] = y]
    BY <1>4, <2>2, Zenon DEF MainProbe
  <2>. HIDE DEF y
  <2>. QED  BY <1>0, <1>1, <2>1, <2>3, Zenon
<1>5. CASE MainWrite
  <2>. DEFINE st == IF x.flag THEN x.res ELSE "unknown"
              y == [x EXCEPT !.pc = "reconcile"]
  <2>1. x.pc # "idle" /\ x.pc \in KnownPlaces /\ x.pc \in ResultPlaces /\ sups' = sups
    BY <1>5 DEF MainWrite, KnownPlaces, ResultPlaces
  <2>2. SetLedger(x.run, st) /\ th' = [th EXCEPT !["main"] = y]
    BY <1>5, Zenon DEF MainWrite
  <2>3. x.run \in KnownIn(ledger) /\ ResultOK(x, TrainedIn(sups))
    BY <1>0, <2>1, ThreadFacts, Zenon
  <2>4. st # "accepted"
    BY <2>3 DEF ResultOK
  <2>. HIDE DEF st, y
  <2>5. RowsFollow
    BY <2>2, <2>3, <2>4, RowsGoOn, Zenon
  <2>. QED  BY <1>0, <2>1, <2>2, <2>5, OneChanges, Zenon
<1>6. CASE MainReport
  <2>1. ledger' = ledger /\ sups' = sups
    BY <1>6 DEF MainReport
  <2>2. \E u : Enqueue("main", x.run, u, "idle")
    BY <1>6, Zenon DEF MainReport
  <2>3. Elsewhere("main")
    BY <1>0, <2>2, EnqueueWorks, Zenon
  <2>4. RowsFollow
    BY <2>1, RowsGoOn, Zenon
  <2>. QED  BY <1>0, <2>1, <2>3, <2>4, Zenon
<1>. QED  BY <1>0, <1>2, <1>3, <1>4, <1>5, <1>6, Zenon DEF MainThread

(* A number that is written is not waiting already.                         *)
LEMMA NoConflict ==
    ASSUME WorkerInv, NumbersInv, seq \in [Runs -> Nat], NEW t \in Threads, th[t].k # 0
    PROVE  \A e \in outbox[th[t].run] : e.k # th[t].k
<1>1. th[t].pc = "enqueue" /\ th[t].k = ledger[th[t].run].seq + 1
  BY Zenon DEF NumbersInv
<1>2. th[t].run \in Runs
  BY <1>1, ThreadFacts
<1>3. NumbersOK(outbox[th[t].run], seq[th[t].run], ledger[th[t].run].seq)
  BY <1>2, Zenon DEF NumbersInv
<1>4. \A o, lo, hi : lo \in Nat /\ NumbersOK(o, lo, hi) => \A e \in o : e.k # hi + 1
  BY DEF NumbersOK
<1>5. seq[th[t].run] \in Nat
  BY <1>2
<1>6. \A e \in outbox[th[t].run] : e.k # ledger[th[t].run].seq + 1
  BY <1>3, <1>4, <1>5, Zenon
<1>. QED  BY <1>1, <1>6, Zenon

(* An update goes to the outbox, and its thread goes on.                    *)
LEMMA EnqueuesFollow ==
    ASSUME WorkerInv, NumbersInv, seq \in [Runs -> Nat], Held,
           NEW t \in Threads, EnqueueRead(t) \/ EnqueueWrite(t)
    PROVE  /\ RowsFollow /\ OutboxFollows /\ sups' = sups /\ Elsewhere(t)
           /\ t = "act" => Works(th[t], th'[t])
<1>. DEFINE x == th[t]
<1>0. x.pc = "enqueue" /\ x.pc # "idle" /\ sups' = sups
  BY DEF EnqueueRead, EnqueueWrite
<1>1. x.run \in Runs /\ x.run \in KnownIn(ledger) /\ IsThread(x)
  <2>1. x.pc \in KnownPlaces
    BY <1>0 DEF KnownPlaces
  <2>. QED  BY <1>0, <2>1, ThreadFacts, Zenon
<1>3. t = "act" => x.then # "idle"
  BY <1>0, Zenon DEF Held, HeldOK
<1>4. CASE EnqueueRead(t)
  <2>. DEFINE k == ledger[x.run].seq + 1
              y == [x EXCEPT !.k = k]
  <2>1. ledger' = ledger /\ outbox' = outbox
    BY <1>4 DEF EnqueueRead
  <2>2. th' = [th EXCEPT ![t] = y]
    BY <1>4, Zenon DEF EnqueueRead
  <2>. HIDE DEF k
  <2>3. SameAt(x, y, "enqueue") /\ y.then = x.then
    <3>. HIDE DEF x
    <3>. QED  BY <1>0, <1>1 DEF IsThread, SameAt, Same, x
  <2>. HIDE DEF y
  <2>4. th'[t] = y /\ Elsewhere(t)
    BY <2>2, OneChanges, Zenon
  <2>5. "enqueue" \notin {"idle", "resume"} \cup StartOnly \cup ToSpawn
    BY DEF StartOnly, ToSpawn, ToRecord
  <2>6. t = "act" => Works(x, y)
    BY <1>0, <1>3, <2>3, <2>5, BeyondWorks, Zenon DEF SameAt
  <2>7. RowsFollow /\ OutboxFollows
    BY <2>1, RowsGoOn, Zenon DEF OutboxFollows
  <2>. QED  BY <1>0, <2>4, <2>6, <2>7, Zenon
<1>5. CASE EnqueueWrite(t)
  <2>1. x.k # 0
    BY <1>5 DEF EnqueueWrite
  <2>2. ~\E e \in outbox[x.run] : e.k = x.k
    BY <2>1, NoConflict, Zenon
  <2>. DEFINE u == [k |-> x.k, u |-> x.upd]
  <2>3. /\ ledger' = [ledger EXCEPT ![x.run].seq = x.k]
        /\ outbox' = [outbox EXCEPT ![x.run] = @ \cup {u}]
        /\ Go(t, x.then)
    BY <1>5, <2>2, Zenon DEF EnqueueWrite
  <2>. HIDE DEF u
  <2>4. RowsFollow
    BY <1>1, <2>3, RowsGoOn, Zenon
  <2>5. OutboxFollows
    <3>1. outbox = [q \in Runs |-> outbox[q]]
      BY Zenon DEF WorkerInv, OutboxOK
    <3>2. \A q \in Runs : q # x.run => outbox'[q] = outbox[q]
      BY <2>3, <3>1, Zenon
    <3>. QED  BY <1>1, <3>2, Zenon DEF OutboxFollows, KnownIn
  <2>6. x.then \in {"idle", "list", "ok", "observe"}
    BY <1>0, ThreadFacts, Zenon DEF ThreadOK
  <2>7. Elsewhere(t)
    BY <2>3, GoForgets, Zenon DEF Elsewhere
  <2>8. t = "act" => Works(x, th'[t])
    <3>. SUFFICES ASSUME t = "act" PROVE Works(x, th'[t])
      OBVIOUS
    <3>1. x.then # "idle" /\ SameAt(x, th'[t], x.then)
      BY <1>3, <2>3, GoWorks, Zenon
    <3>2. x.then \notin {"idle", "resume", "enqueue"} \cup StartOnly \cup ToSpawn
      BY <2>6, <3>1 DEF StartOnly, ToSpawn, ToRecord
    <3>. QED  BY <1>0, <3>1, <3>2, BeyondWorks, Zenon DEF SameAt
  <2>. QED  BY <1>0, <2>4, <2>5, <2>7, <2>8, Zenon
<1>. QED  BY <1>4, <1>5

-----------------------------------------------------------------------------
(* A supervisor's place or child changes.                                   *)
LEMMA AlikeFields ==
    ASSUME NEW ss, ss = [q \in DOMAIN ss |-> ss[q]], \A q \in DOMAIN ss : IsSupervisor(ss[q]),
           NEW p, NEW v
    PROVE  /\ Alike(ss, ss)
           /\ Alike(ss, [ss EXCEPT ![p].st = v])
           /\ Alike(ss, [ss EXCEPT ![p].child = v])
<1>. DEFINE s == ss[p]
            a == [s EXCEPT !.st = v]
            b == [s EXCEPT !.child = v]
<1>1. p \in DOMAIN ss => /\ IsSupervisor(a) /\ a.run = s.run /\ a.stage = s.stage
                         /\ IsSupervisor(b) /\ b.run = s.run /\ b.stage = s.stage
  <2>1. p \in DOMAIN ss => IsSupervisor(s)
    OBVIOUS
  <2>. HIDE DEF s
  <2>. QED  BY <2>1 DEF IsSupervisor
<1>2. ASSUME NEW w, p \in DOMAIN ss => IsSupervisor(w) /\ w.run = s.run /\ w.stage = s.stage
      PROVE  Alike(ss, [ss EXCEPT ![p] = w])
  <2>. DEFINE tt == [ss EXCEPT ![p] = w]
  <2>1. /\ DOMAIN tt = DOMAIN ss /\ tt = [q \in DOMAIN tt |-> tt[q]]
        /\ \A q \in DOMAIN ss : tt[q] = IF q = p THEN w ELSE ss[q]
    BY Zenon
  <2>. HIDE DEF tt
  <2>2. \A q \in DOMAIN ss : /\ IsSupervisor(tt[q])
                             /\ tt[q].run = ss[q].run /\ tt[q].stage = ss[q].stage
    BY <1>2, <2>1, Zenon
  <2>. QED  BY <2>1, <2>2, Zenon DEF Alike, tt
<1>. HIDE DEF a, b
<1>3. Alike(ss, ss)
  BY Zenon DEF Alike
<1>4. Alike(ss, [ss EXCEPT ![p] = a]) /\ Alike(ss, [ss EXCEPT ![p] = b])
  BY <1>1, <1>2, Zenon
<1>. QED  BY <1>3, <1>4, Zenon DEF a, b

(* Supervisors stay alike.                                                  *)
LEMMA AlikeTwice ==
    ASSUME NEW ss, NEW tt, NEW uu, Alike(ss, tt), Alike(tt, uu)
    PROVE  Alike(ss, uu)
BY Zenon DEF Alike

(* They are alike as they are.                                              *)
LEMMA AlikeNow ==
    ASSUME WorkerInv
    PROVE  Alike(sups, sups)
<1>1. sups = [q \in DOMAIN sups |-> sups[q]] /\ \A q \in DOMAIN sups : IsSupervisor(sups[q])
  <2>1. SupsOK(sups, TrainedIn(sups))
    BY Zenon DEF WorkerInv
  <2>2. sups = [q \in DOMAIN sups |-> sups[q]]
    BY <2>1 DEF SupsOK, IsSequence
  <2>. QED  BY <2>1, <2>2, Zenon DEF SupsOK, SupervisorOK
<1>. QED  BY <1>1, AlikeFields, Zenon

(* What ends supervisors and children keeps their rows.                     *)
LEMMA EndsAlike ==
    ASSUME WorkerInv,
           \/ sups' = sups
           \/ \E p : Terminate(p)
           \/ \E p, f : TerminateWithChild(p, f)
           \/ \E p, c : ChildEnds(p, c)
           \/ \E p, v : sups' = [sups EXCEPT ![p].st = v]
           \/ \E p, v, c : sups' = [sups EXCEPT ![p].st = v, ![p].child = c]
    PROVE  Alike(sups, sups')
<1>2. ASSUME NEW tt, Alike(sups, tt), NEW p, NEW v
      PROVE  Alike(sups, [tt EXCEPT ![p].st = v]) /\ Alike(sups, [tt EXCEPT ![p].child = v])
  <2>1. tt = [q \in DOMAIN tt |-> tt[q]] /\ \A q \in DOMAIN tt : IsSupervisor(tt[q])
    BY <1>2, Zenon DEF Alike
  <2>2. Alike(tt, [tt EXCEPT ![p].st = v]) /\ Alike(tt, [tt EXCEPT ![p].child = v])
    BY <2>1, AlikeFields, Zenon
  <2>. QED  BY <1>2, <2>2, AlikeTwice, Zenon
<1>3. Alike(sups, sups)
  BY AlikeNow
<1>4. ASSUME NEW p, NEW v, sups' = [sups EXCEPT ![p].st = v] PROVE Alike(sups, sups')
  BY <1>2, <1>3, <1>4, Zenon
<1>5. ASSUME NEW p, NEW v, NEW c, sups' = [sups EXCEPT ![p].st = v, ![p].child = c]
      PROVE  Alike(sups, sups')
  <2>. DEFINE a == [sups EXCEPT ![p].st = v]
  <2>1. sups' = [a EXCEPT ![p].child = c]
    BY <1>5, Zenon
  <2>2. Alike(sups, a)
    BY <1>2, <1>3, Zenon
  <2>. HIDE DEF a
  <2>. QED  BY <1>2, <2>1, <2>2, Zenon
<1>6. ASSUME NEW p, NEW v, NEW c, sups' = [sups EXCEPT ![p].child = c, ![p].st = v]
      PROVE  Alike(sups, sups')
  <2>. DEFINE a == [sups EXCEPT ![p].child = c]
  <2>1. sups' = [a EXCEPT ![p].st = v]
    BY <1>6, Zenon
  <2>2. Alike(sups, a)
    BY <1>2, <1>3, Zenon
  <2>. HIDE DEF a
  <2>. QED  BY <1>2, <2>1, <2>2, Zenon
<1>7. ASSUME NEW p, Terminate(p) PROVE Alike(sups, sups')
  <2>1. CASE sups' = [sups EXCEPT ![p].st = "gone"]
    BY <1>4, <2>1, Zenon
  <2>2. CASE sups' = [sups EXCEPT ![p].st = "gone", ![p].child = "alive"]
    BY <1>5, <2>2, Zenon
  <2>. QED  BY <1>7, <2>1, <2>2 DEF Terminate
<1>8. ASSUME NEW p, NEW c, ChildEnds(p, c) PROVE Alike(sups, sups')
  BY <1>6, <1>8, Zenon DEF ChildEnds
<1>9. ASSUME NEW p, NEW f, TerminateWithChild(p, f) PROVE Alike(sups, sups')
  <2>. DEFINE q == f.pid
              a == [sups EXCEPT ![p].st = "gone"]
              b == [a EXCEPT ![q].st = "gone"]
  <2>1. \/ Terminate(p)
        \/ sups' = [b EXCEPT ![q].child = "bad"]
    BY <1>9, Zenon DEF TerminateWithChild
  <2>. HIDE DEF q
  <2>2. Alike(sups, a)
    BY <1>2, <1>3, Zenon
  <2>. HIDE DEF a
  <2>3. Alike(sups, b)
    BY <1>2, <2>2, Zenon
  <2>. HIDE DEF b
  <2>4. Alike(sups, [b EXCEPT ![q].child = "bad"])
    BY <1>2, <2>3, Zenon
  <2>. QED  BY <1>7, <2>1, <2>4, Zenon
<1>. QED  BY <1>3, <1>4, <1>5, <1>7, <1>8, <1>9, Zenon

(* The action thread spawns a supervisor for its stage.                     *)
Spawned ==
    /\ th["act"].pc = "spawn" /\ th'["act"].pc = "await"
    /\ \E k : /\ k \notin DOMAIN sups
              /\ DOMAIN sups' = DOMAIN sups \cup {k}
              /\ \A p \in DOMAIN sups : sups'[p] = sups[p]
              /\ sups'[k].run = th["act"].run /\ sups'[k].stage = th["act"].stage

(* The supervisors, in a step of the action thread.                         *)
LEMMA ActsAlike ==
    ASSUME WorkerInv, ActionThread
    PROVE  Alike(sups, sups') \/ Spawned
<1>1. CASE SpawnSupervisor
  <2>. DEFINE a == th["act"]
              s == [run |-> a.run, stage |-> a.stage, st |-> "boot",
                    token |-> ledger[a.run].token, child |-> "none"]
              k == Len(sups) + 1
  <2>1. a.pc = "spawn" /\ sups' = Append(sups, s)
    BY <1>1, Zenon DEF SpawnSupervisor
  <2>2. IsSequence(sups)
    BY Zenon DEF WorkerInv, SupsOK
  <2>3. Len(sups) \in Nat /\ DOMAIN sups = 1 .. Len(sups)
    BY <2>2, SequenceDomain, Zenon
  <2>4. s.run = a.run /\ s.stage = a.stage
    OBVIOUS
  <2>. HIDE DEF s
  <2>5. /\ DOMAIN Append(sups, s) = 1 .. Len(sups) + 1
        /\ \A i \in DOMAIN sups : Append(sups, s)[i] = sups[i]
        /\ Append(sups, s)[Len(sups) + 1] = s
    BY <2>2, SequenceAppend, Zenon
  <2>6. k \notin DOMAIN sups /\ 1 .. Len(sups) + 1 = DOMAIN sups \cup {k}
    BY <2>3
  <2>. HIDE DEF k
  <2>7. DOMAIN sups' = DOMAIN sups \cup {k} /\ sups'[k] = s
    BY <2>1, <2>5, <2>6, Zenon DEF k
  <2>8. \A p \in DOMAIN sups : sups'[p] = sups[p]
    BY <2>1, <2>5, Zenon
  <2>9. th'["act"].pc = "await"
    BY <1>1, SpawnGoes, Zenon DEF SameAt
  <2>. QED  BY <2>1, <2>4, <2>6, <2>7, <2>8, <2>9, Zenon DEF Spawned
<1>2. CASE AwaitSupervisor \/ AwaitFails \/ Attach \/ AwaitTrainingFails \/ StopKill
  <2>1. \/ sups' = sups
        \/ \E p : Terminate(p)
        \/ \E p, f : TerminateWithChild(p, f)
        \/ \E p, c : ChildEnds(p, c)
    BY <1>2, Zenon DEF AwaitSupervisor, AwaitFails, Attach, AwaitTrainingFails, StopKill
  <2>. QED  BY <2>1, EndsAlike, Zenon
<1>3. CASE \/ StartDecide \/ LaunchFails \/ RecordLaunch \/ WriteCommit \/ AwaitTraining
           \/ SetRunning \/ ActOk
  <2>1. sups' = sups
    BY <1>3 DEF StartDecide, LaunchFails, RecordLaunch, WriteCommit, AwaitTraining, SetRunning,
                ActOk
  <2>. QED  BY <2>1, EndsAlike, Zenon
<1>4. CASE \/ ResumeRelaunch \/ ResumeUnresolved \/ ResumeLaunch
           \/ StopDecide \/ StopRead \/ WriteCancel \/ StopRecord
  <2>1. sups' = sups
    BY <1>4 DEF ResumeRelaunch, ResumeUnresolved, ResumeLaunch, StopDecide,
                StopRead, WriteCancel, StopRecord
  <2>. QED  BY <2>1, EndsAlike, Zenon
<1>. QED  BY <1>1, <1>2, <1>3, <1>4, Zenon DEF ActionThread

(* The processes.                                                           *)
LEMMA ProcessesFollow ==
    ASSUME WorkerInv, Processes \/ Kills
    PROVE  ledger' = ledger /\ outbox' = outbox /\ th' = th /\ Alike(sups, sups')
<1>1. ASSUME NEW p, SupervisorStep(p) \/ SupervisorKilled(p)
      PROVE  /\ ledger' = ledger /\ outbox' = outbox /\ th' = th
             /\ \/ \E v : sups' = [sups EXCEPT ![p].st = v]
                \/ sups' = [sups EXCEPT ![p].st = "running", ![p].child = "alive"]
  <2>1. CASE SupervisorBoot(p)
    BY <2>1, Zenon DEF SupervisorBoot
  <2>2. CASE SupervisorDecide(p)
    BY <2>2, Zenon DEF SupervisorDecide
  <2>3. CASE SupervisorSpawn(p)
    BY <2>3, Zenon DEF SupervisorSpawn
  <2>4. CASE SupervisorKilled(p)
    BY <2>4, Zenon DEF SupervisorKilled
  <2>. QED  BY <1>1, <2>1, <2>2, <2>3, <2>4, Zenon DEF SupervisorStep
<1>2. ASSUME NEW p, NEW v, sups' = [sups EXCEPT ![p].st = v] PROVE Alike(sups, sups')
  BY <1>2, EndsAlike, Zenon
<1>3. ASSUME NEW p, sups' = [sups EXCEPT ![p].st = "running", ![p].child = "alive"]
      PROVE  Alike(sups, sups')
  BY <1>3, EndsAlike, Zenon
<1>4. ASSUME NEW p, SupervisorStep(p) \/ SupervisorKilled(p)
      PROVE  ledger' = ledger /\ outbox' = outbox /\ th' = th /\ Alike(sups, sups')
  BY <1>1, <1>2, <1>3, <1>4, Zenon
<1>5. ASSUME NEW p, NEW c, ChildExits(p, c)
      PROVE  ledger' = ledger /\ outbox' = outbox /\ th' = th /\ Alike(sups, sups')
  <2>1. ledger' = ledger /\ outbox' = outbox /\ th' = th /\ ChildEnds(p, c)
    BY <1>5, Zenon DEF ChildExits
  <2>. QED  BY <2>1, EndsAlike, Zenon
<1>. QED  BY <1>4, <1>5, Zenon DEF Processes, Kills

-----------------------------------------------------------------------------
(* What every step of the center does to the rows of the action table, and  *)
(* what a step of the system does to the starts that are past a place.      *)
Kept ==
    \A i \in DOMAIN actions :
        /\ i \in DOMAIN actions'
        /\ actions'[i].run = actions[i].run /\ actions'[i].kind = actions[i].kind
        /\ actions'[i].stage = actions[i].stage
        /\ actions[i].status \notin Open => actions'[i] = actions[i]

GoesOn ==
    \A i \in DOMAIN actions : \A early \in {ToRecord, ToSpawn} :
        Past(i, actions[i], th["act"], early) => Past(i, actions'[i], th'["act"], early)

(* A step that opens actions keeps the rows there are.                      *)
LEMMA OpensKept ==
    ASSUME Opens
    PROVE  Kept
<1>1. CASE Rewritten(actions, actions')
  BY <1>1, Zenon DEF Rewritten, Kept
<1>2. ASSUME NEW r, NEW kind, NEW n, Queued(actions, actions', r, kind, n)
      PROVE  Kept
  <2>1. PICK k : /\ DOMAIN actions' = DOMAIN actions \cup {k}
                 /\ \A i \in DOMAIN actions : /\ actions'[i].run = actions[i].run
                                              /\ actions'[i].kind = actions[i].kind
                                              /\ actions'[i].stage = actions[i].stage
                                              /\ actions[i].status \notin Open =>
                                                    actions'[i] = actions[i]
    BY <1>2, QueuedRows
  <2>. QED  BY <2>1, Zenon DEF Kept
<1>. QED  BY <1>1, <1>2, Zenon DEF Opens

(* The action thread goes on, or stays where it is.                         *)
LEMMA WorksOn ==
    ASSUME Held, Kept, Settles(actions, actions'),
           th'["act"] = th["act"] \/ Works(th["act"], th'["act"])
    PROVE  GoesOn /\ Held' /\ th'["act"].id = th["act"].id
<1>. DEFINE x == th["act"]
            y == th'["act"]
<1>. SUFFICES ASSUME y = x \/ Works(x, y), HeldOK(x, actions)
              PROVE  GoesOn /\ HeldOK(y, actions') /\ y.id = x.id
  BY Zenon DEF Held
<1>1. y.id = x.id /\ y.run = x.run /\ y.claim = x.claim /\ (y.pc = "idle" <=> x.pc = "idle")
  BY Zenon DEF Works, Same
<1>2. y.pc \in ToRecord => x.pc \in ToRecord
  BY Zenon DEF Works
<1>3. y.pc \in ToSpawn => x.pc \in ToSpawn
  BY Zenon DEF Works
<1>4. \A i \in DOMAIN actions : actions[i].status \notin Open => actions'[i].status \notin Open
  BY Zenon DEF Kept
<1>5. ASSUME NEW i \in DOMAIN actions, NEW early, y.pc \in early => x.pc \in early,
             Past(i, actions[i], x, early)
      PROVE  Past(i, actions'[i], y, early)
  BY <1>1, <1>4, <1>5, Zenon DEF Past
<1>6. GoesOn
  BY <1>2, <1>3, <1>5, Zenon DEF GoesOn
<1>7. ASSUME x.pc # "idle"
      PROVE  /\ x.id \in DOMAIN actions'
             /\ actions'[x.id].run = x.run
             /\ actions'[x.id].status # "queued"
             /\ actions'[x.id].status = "running" => actions'[x.id].claim = x.claim
  <2>1. /\ x.id \in DOMAIN actions /\ actions[x.id].run = x.run
        /\ actions[x.id].status # "queued"
        /\ actions[x.id].status = "running" => actions[x.id].claim = x.claim
    BY <1>7, Zenon DEF HeldOK
  <2>2. actions'[x.id] = actions[x.id] \/ actions'[x.id].status \notin Open
    BY <2>1, Zenon DEF Settles
  <2>3. "queued" \in Open /\ "running" \in Open
    BY DEF Open
  <2>. QED  BY <2>1, <2>2, <2>3, Zenon DEF Kept
<1>8. ASSUME x.pc # "idle", y.pc \in StartOnly
      PROVE  IsStart(actions'[x.id], x.run, y.stage) /\ ~y.flag
  <2>1. x.pc \in StartOnly /\ y.stage = x.stage /\ y.flag = x.flag
    BY <1>8, Zenon DEF Works
  <2>2. IsStart(actions[x.id], x.run, x.stage) /\ ~x.flag /\ x.id \in DOMAIN actions
    BY <1>8, <2>1, Zenon DEF HeldOK
  <2>. QED  BY <2>1, <2>2, Zenon DEF Kept, IsStart
<1>9. (x.pc # "idle" /\ y.pc = "enqueue" => y.then # "idle") /\ (x.pc # "idle" => y.pc # "resume")
  BY Zenon DEF Works, HeldOK
<1>. QED  BY <1>1, <1>6, <1>7, <1>8, <1>9, Zenon DEF HeldOK

(* The action thread is done with a settled action.                         *)
LEMMA ActsEnd ==
    ASSUME Kept, th["act"].pc = "publish", th'["act"].pc = "idle",
           th["act"].id \in DOMAIN actions => actions'[th["act"].id].status \notin Open
    PROVE  GoesOn /\ Held'
<1>1. \A i \in DOMAIN actions : actions[i].status \notin Open => actions'[i].status \notin Open
  BY Zenon DEF Kept
<1>2. GoesOn
  BY <1>1, Zenon DEF GoesOn, Past
<1>. QED  BY <1>2, Zenon DEF Held, HeldOK

(* It begins with an open one.                                              *)
LEMMA ActsBegin ==
    ASSUME Kept, NEW i \in DOMAIN actions, actions[i].status \in Open,
           th["act"].pc = "idle", th'["act"].id = i
    PROVE  GoesOn
<1>1. \A j \in DOMAIN actions : actions[j].status \notin Open => actions'[j].status \notin Open
  BY Zenon DEF Kept
<1>. QED  BY <1>1, Zenon DEF GoesOn, Past

-----------------------------------------------------------------------------
(* Two starts are never past spawning for one stage, nor past recording.    *)
LEMMA OnceStays ==
    ASSUME Held, Beginnings, SupsOnce, RowsOnce, Kept, GoesOn, RowsFollow,
           Alike(sups, sups') \/ Spawned,
           th["act"].pc \in {"prepare", "spawn"} => th'["act"].id = th["act"].id
    PROVE  SupsOnce' /\ RowsOnce'
<1>. DEFINE x == th["act"]
            y == th'["act"]
<1>1. \A E \in {ToRecord, ToSpawn} : \A r, n :
         (\E i \in DOMAIN actions : IsStart(actions[i], r, n) /\ Past(i, actions[i], x, E))
      => (\E i \in DOMAIN actions' : IsStart(actions'[i], r, n) /\ Past(i, actions'[i], y, E))
  BY Zenon DEF Kept, GoesOn, IsStart
<1>2. x.pc \in {"prepare", "spawn"} =>
         x.id \in DOMAIN actions /\ IsStart(actions[x.id], x.run, x.stage)
  BY DEF Held, HeldOK, StartOnly
<1>3. x.pc \in {"prepare", "spawn"} =>
         x.id \in DOMAIN actions' /\ IsStart(actions'[x.id], x.run, x.stage)
  BY <1>2, Zenon DEF Kept, IsStart
<1>4. RowsOnce'
  <2>. SUFFICES ASSUME NEW r \in Runs, ledger'[r].state = "accepted"
                PROVE  \E i \in DOMAIN actions' : /\ IsStart(actions'[i], r, ledger'[r].stage)
                                                  /\ Past(i, actions'[i], y, ToRecord)
    BY Zenon DEF RowsOnce
  <2>1. CASE ledger[r].state = "accepted" /\ ledger'[r].stage = ledger[r].stage
    BY <1>1, <2>1, Zenon DEF RowsOnce
  <2>2. CASE x.pc = "prepare" /\ x.run = r /\ y.pc = "spawn" /\ ledger'[r].stage = x.stage
    <3>1. x.id \in DOMAIN actions' /\ IsStart(actions'[x.id], r, ledger'[r].stage) /\ y.id = x.id
      BY <1>3, <2>2, Zenon
    <3>2. y.pc # "idle" /\ y.pc \notin ToRecord
      BY <2>2 DEF ToRecord
    <3>3. Past(x.id, actions'[x.id], y, ToRecord)
      BY <3>1, <3>2, Zenon DEF Past
    <3>. QED  BY <3>1, <3>3, Zenon
  <2>. QED  BY <2>1, <2>2, Zenon DEF RowsFollow
<1>5. CASE Alike(sups, sups')
  <2>1. DOMAIN sups' = DOMAIN sups
        /\ \A p \in DOMAIN sups : sups'[p].run = sups[p].run /\ sups'[p].stage = sups[p].stage
    BY <1>5, Zenon DEF Alike
  <2>2. \A p \in DOMAIN sups' : \E i \in DOMAIN actions' :
           /\ IsStart(actions'[i], sups'[p].run, sups'[p].stage)
           /\ Past(i, actions'[i], y, ToSpawn)
    BY <1>1, <2>1, Zenon DEF SupsOnce
  <2>3. \A p, q \in DOMAIN sups' :
           sups'[p].run = sups'[q].run /\ sups'[p].stage = sups'[q].stage => p = q
    BY <2>1, Zenon DEF SupsOnce
  <2>. QED  BY <1>4, <2>2, <2>3, Zenon DEF SupsOnce
<1>6. CASE Spawned
  <2>1. x.pc = "spawn" /\ y.pc = "await"
    BY <1>6, Zenon DEF Spawned
  <2>2. PICK k : /\ k \notin DOMAIN sups
                 /\ DOMAIN sups' = DOMAIN sups \cup {k}
                 /\ \A p \in DOMAIN sups : sups'[p] = sups[p]
                 /\ sups'[k].run = x.run /\ sups'[k].stage = x.stage
    BY <1>6, Zenon DEF Spawned
  <2>3. y.id = x.id /\ x.id \in DOMAIN actions' /\ IsStart(actions'[x.id], x.run, x.stage)
    BY <1>3, <2>1, Zenon
  <2>4. y.pc # "idle" /\ y.pc \notin ToSpawn /\ x.pc # "idle" /\ x.pc \in ToSpawn
    BY <2>1 DEF ToSpawn, ToRecord
  <2>5. Past(x.id, actions'[x.id], y, ToSpawn)
    BY <2>3, <2>4, Zenon DEF Past
  <2>6. \A p \in DOMAIN sups' : \E i \in DOMAIN actions' :
           /\ IsStart(actions'[i], sups'[p].run, sups'[p].stage)
           /\ Past(i, actions'[i], y, ToSpawn)
    <3>. SUFFICES ASSUME NEW p \in DOMAIN sups'
                  PROVE  \E i \in DOMAIN actions' :
                            /\ IsStart(actions'[i], sups'[p].run, sups'[p].stage)
                            /\ Past(i, actions'[i], y, ToSpawn)
      OBVIOUS
    <3>1. CASE p = k
      BY <2>2, <2>3, <2>5, <3>1, Zenon
    <3>2. CASE p \in DOMAIN sups
      BY <1>1, <2>2, <3>2, Zenon DEF SupsOnce
    <3>. QED  BY <2>2, <3>1, <3>2, Zenon
  <2>7. ASSUME NEW p \in DOMAIN sups PROVE ~(sups[p].run = x.run /\ sups[p].stage = x.stage)
    <3>. SUFFICES ASSUME sups[p].run = x.run, sups[p].stage = x.stage PROVE FALSE
      OBVIOUS
    <3>1. PICK i \in DOMAIN actions : /\ IsStart(actions[i], x.run, x.stage)
                                      /\ Past(i, actions[i], x, ToSpawn)
      BY Zenon DEF SupsOnce
    <3>2. x.id \in DOMAIN actions /\ IsStart(actions[x.id], x.run, x.stage)
      BY <1>2, <2>1, Zenon
    <3>3. i = x.id
      BY <3>1, <3>2, Zenon DEF Beginnings, StartsOnce, IsStart
    <3>. QED  BY <2>4, <3>1, <3>3, Zenon DEF Past
  <2>8. \A p, q \in DOMAIN sups' :
           sups'[p].run = sups'[q].run /\ sups'[p].stage = sups'[q].stage => p = q
    BY <2>2, <2>7, Zenon DEF SupsOnce
  <2>. QED  BY <1>4, <2>6, <2>8, Zenon DEF SupsOnce
<1>. QED  BY <1>5, <1>6

(* Only runs that have begun are spoken of.                                 *)
LEMMA TouchedStays ==
    ASSUME Touched, \A r \in Runs : Begun(r) => Begun(r)',
           WorkerInv, RowsFollow, OutboxFollows,
           th'["act"].pc # "idle" =>
              \/ th["act"].pc # "idle" /\ th'["act"].run = th["act"].run
              \/ stages'[th'["act"].run][1] # "pending"
    PROVE  Touched'
<1>1. th["act"].pc # "idle" => th["act"].run \in Runs /\ Begun(th["act"].run)
  BY ActFacts, Zenon DEF Touched
<1>2. \A r \in Runs : ledger'[r].state # "absent" => Begun(r)'
  BY <1>1, Zenon DEF Touched, RowsFollow
<1>3. \A r \in Runs : outbox'[r] # {} => Begun(r)'
  BY Zenon DEF Touched, OutboxFollows
<1>4. ASSUME th'["act"].pc # "idle" PROVE stages'[th'["act"].run][1] # "pending"
  <2>1. CASE th["act"].pc # "idle" /\ th'["act"].run = th["act"].run
    BY <1>1, <2>1, Zenon DEF Begun
  <2>2. CASE stages'[th'["act"].run][1] # "pending"
    BY <2>2
  <2>. QED  BY <1>4, <2>1, <2>2
<1>. QED  BY <1>2, <1>3, <1>4, Zenon DEF Touched, Begun

-----------------------------------------------------------------------------
(* A step of the Worker, in which the action thread goes on or waits and at *)
(* most spawns a supervisor.                                                *)
LEMMA WorkerKeeps ==
    ASSUME SystemInv, Beginnings, Touched, Held, SupsOnce, RowsOnce, UNCHANGED centerVars,
           RowsFollow, OutboxFollows, Alike(sups, sups') \/ Spawned,
           th'["act"] = th["act"] \/ Works(th["act"], th'["act"])
    PROVE  Beginnings' /\ Touched' /\ Held' /\ SupsOnce' /\ RowsOnce'
<1>1. status' = status /\ stages' = stages /\ actions' = actions
  BY DEF centerVars
<1>2. Beginnings'
  BY <1>1, Zenon DEF Beginnings, BeginningOK, StartsOnce, Begun
<1>3. Kept /\ Settles(actions, actions')
  BY <1>1, Zenon DEF Kept, Settles
<1>4. GoesOn /\ Held' /\ th'["act"].id = th["act"].id
  BY <1>3, WorksOn
<1>5. SupsOnce' /\ RowsOnce'
  BY <1>3, <1>4, OnceStays
<1>6. \A r \in Runs : Begun(r) => Begun(r)'
  BY <1>1, Zenon DEF Begun
<1>7. /\ th'["act"].pc # "idle" <=> th["act"].pc # "idle"
      /\ th'["act"].run = th["act"].run
  BY Zenon DEF Works, Same
<1>8. Touched'
  BY <1>6, <1>7, TouchedStays, Zenon DEF SystemInv
<1>. QED  BY <1>2, <1>4, <1>5, <1>8

(* The action thread.                                                       *)
LEMMA ActsCalmly ==
    ASSUME SystemInv, CalmInv, ActionThread
    PROVE  Beginnings' /\ Onces'
<1>. DEFINE x == th["act"]
<1>0. /\ WorkerInv /\ NumbersInv /\ Beginnings /\ Touched /\ Held
      /\ SupsOnce /\ RowsOnce
  BY Zenon DEF SystemInv, CalmInv, Onces
<1>1. x.pc = "start" => ~SameLaunch(ledger[x.run], x.stage)
  <2>. SUFFICES ASSUME x.pc = "start", SameLaunch(ledger[x.run], x.stage) PROVE FALSE
    OBVIOUS
  <2>1. x.pc # "idle" /\ x.pc \in ToRecord /\ x.pc \in StartOnly
    BY DEF ToRecord, StartOnly
  <2>2. x.run \in Runs
    BY <1>0, <2>1, ActFacts, Zenon
  <2>3. ledger[x.run].state = "accepted" /\ ledger[x.run].stage = x.stage
    BY Zenon DEF SameLaunch
  <2>4. PICK i \in DOMAIN actions : /\ IsStart(actions[i], x.run, x.stage)
                                    /\ Past(i, actions[i], x, ToRecord)
    BY <1>0, <2>2, <2>3, Zenon DEF RowsOnce
  <2>5. x.id \in DOMAIN actions /\ IsStart(actions[x.id], x.run, x.stage)
    BY <1>0, <2>1, Zenon DEF Held, HeldOK
  <2>6. i = x.id
    BY <1>0, <2>4, <2>5, Zenon DEF Beginnings, StartsOnce, IsStart
  <2>. QED  BY <2>1, <2>4, <2>6, Zenon DEF Past
<1>2. Works(x, th'["act"]) /\ Elsewhere("act")
  BY <1>0, <1>1, ActWorks, Zenon
<1>3. RowsFollow /\ outbox' = outbox
  BY <1>0, ActsFollow
<1>4. OutboxFollows
  BY <1>3, Zenon DEF OutboxFollows
<1>5. Alike(sups, sups') \/ Spawned
  BY <1>0, ActsAlike
<1>6. UNCHANGED centerVars
  BY WorkerAlone
<1>7. Beginnings' /\ Touched' /\ Held' /\ SupsOnce' /\ RowsOnce'
  BY <1>0, <1>2, <1>3, <1>4, <1>5, <1>6, WorkerKeeps
<1>. QED  BY <1>7, Zenon DEF Onces

(* The monitor, main, and the threads that observe and enqueue.             *)
LEMMA OthersCalmly ==
    ASSUME SystemInv, CalmInv, crashes \in Nat, crashes' = 0,
           MonitorThread \/ MainThread \/ Observes \/ Enqueues
    PROVE  Beginnings' /\ Onces'
<1>0. /\ WorkerInv /\ NumbersInv /\ Beginnings /\ Touched /\ Held
      /\ SupsOnce /\ RowsOnce /\ seq \in [Runs -> Nat]
  BY Zenon DEF SystemInv, CalmInv, Onces, CenterInv, CenterTypeOK
<1>1. UNCHANGED centerVars
  BY WorkerAlone
<1>2. Alike(sups, sups)
  BY <1>0, AlikeNow
<1>3. /\ "act" \in Threads /\ "act" # "mon" /\ "act" # "main"
  BY DEF Threads
<1>4. ASSUME RowsFollow, OutboxFollows, sups' = sups,
             th'["act"] = th["act"] \/ Works(th["act"], th'["act"])
      PROVE  Beginnings' /\ Onces'
  <2>1. Alike(sups, sups') \/ Spawned
    BY <1>2, <1>4, Zenon
  <2>2. Beginnings' /\ Touched' /\ Held' /\ SupsOnce' /\ RowsOnce'
    BY <1>0, <1>1, <1>4, <2>1, WorkerKeeps
  <2>. QED  BY <2>2, Zenon DEF Onces
<1>5. CASE MonitorThread
  <2>1. ledger' = ledger /\ outbox' = outbox /\ sups' = sups /\ Elsewhere("mon")
    BY <1>0, <1>5, MonitorFollows
  <2>2. RowsFollow /\ OutboxFollows
    BY <1>0, <2>1, RowsGoOn, Zenon DEF OutboxFollows
  <2>3. th'["act"] = th["act"]
    BY <1>3, <2>1, Zenon DEF Elsewhere
  <2>. QED  BY <1>4, <2>1, <2>2, <2>3, Zenon
<1>6. CASE MainThread
  <2>1. RowsFollow /\ outbox' = outbox /\ sups' = sups /\ Elsewhere("main")
    BY <1>0, <1>6, MainFollows
  <2>2. OutboxFollows
    BY <2>1, Zenon DEF OutboxFollows
  <2>3. th'["act"] = th["act"]
    BY <1>3, <2>1, Zenon DEF Elsewhere
  <2>. QED  BY <1>4, <2>1, <2>2, <2>3, Zenon
<1>7. CASE Observes
  <2>1. PICK t \in Threads : ObserveRead(t) \/ Judge(t) \/ Report(t)
    BY <1>7, Zenon DEF Observes
  <2>2. /\ RowsFollow /\ outbox' = outbox /\ sups' = sups /\ Elsewhere(t)
        /\ t = "act" => Works(th[t], th'[t])
    BY <1>0, <2>1, ObserversFollow
  <2>3. OutboxFollows
    BY <2>2, Zenon DEF OutboxFollows
  <2>4. th'["act"] = th["act"] \/ Works(th["act"], th'["act"])
    BY <1>3, <2>2, Zenon DEF Elsewhere
  <2>. QED  BY <1>4, <2>2, <2>3, <2>4, Zenon
<1>8. CASE Enqueues
  <2>1. PICK t \in Threads : EnqueueRead(t) \/ EnqueueWrite(t)
    BY <1>8, Zenon DEF Enqueues
  <2>2. /\ RowsFollow /\ OutboxFollows /\ sups' = sups /\ Elsewhere(t)
        /\ t = "act" => Works(th[t], th'[t])
    BY <1>0, <2>1, EnqueuesFollow
  <2>3. th'["act"] = th["act"] \/ Works(th["act"], th'["act"])
    BY <1>3, <2>2, Zenon DEF Elsewhere
  <2>. QED  BY <1>4, <2>2, <2>3, Zenon
<1>. QED  BY <1>5, <1>6, <1>7, <1>8

(* The processes.                                                           *)
LEMMA ProcessesCalmly ==
    ASSUME SystemInv, CalmInv, Processes \/ Kills
    PROVE  Beginnings' /\ Onces'
<1>0. /\ WorkerInv /\ Beginnings /\ Touched /\ Held /\ SupsOnce /\ RowsOnce
  BY Zenon DEF SystemInv, CalmInv, Onces
<1>1. UNCHANGED centerVars
  BY WorkerAlone
<1>2. ledger' = ledger /\ outbox' = outbox /\ th' = th /\ Alike(sups, sups')
  BY <1>0, ProcessesFollow
<1>3. RowsFollow /\ OutboxFollows
  BY <1>0, <1>2, RowsGoOn, Zenon DEF OutboxFollows
<1>4. Beginnings' /\ Touched' /\ Held' /\ SupsOnce' /\ RowsOnce'
  BY <1>0, <1>1, <1>2, <1>3, WorkerKeeps
<1>. QED  BY <1>4, Zenon DEF Onces

-----------------------------------------------------------------------------
(* The claimed action is running.                                           *)
LEMMA ClaimRuns ==
    ASSUME CenterInv, NEW ids \in SUBSET DOMAIN actions, NEW i \in DOMAIN actions,
           PollClaim(ids, i)
    PROVE  actions'[i].status = "running"
<1>. DEFINE acts == Requeued(ids)
            a == acts[i]
            b == [a EXCEPT !.status = "running"]
            c == [b EXCEPT !.claim = @ + 1]
<1>1. acts \in Seq(Action) /\ DOMAIN acts = DOMAIN actions
  BY TableRows, SetStatusType DEF Requeued, ActionStatus
<1>2. actions' = [j \in DOMAIN acts |-> IF j = i THEN c ELSE acts[j]]
  BY Zenon DEF PollClaim, Claim
<1>3. a \in Action
  BY <1>1
<1>4. c.status = "running"
  <2>. HIDE DEF a
  <2>1. b = [run |-> a.run, kind |-> a.kind, stage |-> a.stage, status |-> "running",
             claim |-> a.claim]
    BY <1>3 DEF Action
  <2>. HIDE DEF b
  <2>. QED  BY <2>1
<1>. HIDE DEF acts, c
<1>. QED  BY <1>1, <1>2, <1>4, Zenon

(* The center waits.                                                        *)
LEMMA CenterWaits ==
    ASSUME CenterInv, Beginnings, UNCHANGED centerVars
    PROVE  StagesClose /\ Opens /\ Settles(actions, actions')
<1>1. status' = status /\ stages' = stages /\ actions' = actions
  BY DEF centerVars
<1>2. Rewritten(actions, actions')
  BY <1>1, ExitActionsRewrites, TableRows
<1>3. StagesClose
  BY <1>1, Zenon DEF StagesClose, Beginnings, Begun
<1>4. Settles(actions, actions')
  BY <1>1, Zenon DEF Settles
<1>. QED  BY <1>2, <1>3, <1>4, Zenon DEF Opens

(* A step of the center, with what it does to the action thread.            *)
LEMMA CenterKeeps ==
    ASSUME SystemInv, LedgerInv, CalmInv, StagesClose, Opens, GoesOn, Held',
           ledger' = ledger, sups' = sups,
           \A r \in Runs : outbox'[r] # {} => outbox[r] # {},
           th["act"].pc \in {"prepare", "spawn"} => th'["act"].id = th["act"].id,
           th'["act"].pc # "idle" =>
              \/ th["act"].pc # "idle" /\ th'["act"].run = th["act"].run
              \/ stages'[th'["act"].run][1] # "pending"
    PROVE  Beginnings' /\ Onces'
<1>0. /\ CenterInv /\ WorkerInv /\ Beginnings /\ Touched /\ Held
      /\ SupsOnce /\ RowsOnce
  BY Zenon DEF SystemInv, CalmInv, Onces
<1>1. Beginnings'
  BY <1>0, BeginningsStep
<1>2. RowsFollow /\ OutboxFollows
  BY <1>0, RowsGoOn, Zenon DEF OutboxFollows
<1>3. Alike(sups, sups') \/ Spawned
  BY <1>0, AlikeNow, Zenon
<1>4. SupsOnce' /\ RowsOnce'
  BY <1>0, <1>2, <1>3, OpensKept, OnceStays
<1>5. \A r \in Runs : Begun(r) => Begun(r)'
  BY StaysBegun
<1>6. Touched'
  BY <1>0, <1>2, <1>5, TouchedStays
<1>. QED  BY <1>1, <1>4, <1>6, Zenon DEF Onces

(* The user and the updates leave the Worker's threads alone.               *)
LEMMA UpdatesCalmly ==
    ASSUME SystemInv, LedgerInv, CalmInv,
           \/ User
           \/ \E r \in Runs : \E e \in outbox[r] : Flush(r, e) \/ FlushRepeated(r, e)
    PROVE  Beginnings' /\ Onces'
<1>0. CenterInv /\ WorkerInv /\ Beginnings /\ Touched /\ Held
  BY Zenon DEF SystemInv, CalmInv, Onces
<1>1. ASSUME StagesClose, Opens, Settles(actions, actions'), ledger' = ledger, sups' = sups,
             th' = th, \A r \in Runs : outbox'[r] # {} => outbox[r] # {}
      PROVE  Beginnings' /\ Onces'
  <2>1. GoesOn /\ Held'
    BY <1>0, <1>1, OpensKept, WorksOn
  <2>. QED  BY <1>1, <2>1, CenterKeeps
<1>2. CASE User
  <2>1. env.runs \subseteq Runs
    BY WorkerBoundAssumption DEF SystemInv
  <2>2. UserStep /\ UNCHANGED workerVars
    <3>1. PICK r \in env.runs : \/ \E gs \in (SUBSET Gpus) \ {{}} : UserCreates(r, gs)
                                \/ UserStops(r)
      BY <1>2, Zenon DEF User
    <3>2. r \in Runs /\ TRUE \in BOOLEAN
      BY <2>1
    <3>. QED  BY <3>1, <3>2, Zenon DEF UserStep, UserCreates, UserStops
  <2>3. ledger' = ledger /\ sups' = sups /\ th' = th /\ outbox' = outbox
    BY <2>2 DEF workerVars
  <2>4. StagesClose /\ Opens /\ Settles(actions, actions')
    BY <1>0, <2>2, UserOpens
  <2>. QED  BY <1>1, <2>3, <2>4, Zenon
<1>3. ASSUME NEW r \in Runs, NEW e \in outbox[r], Flush(r, e) \/ FlushRepeated(r, e)
      PROVE  Beginnings' /\ Onces'
  <2>1. ledger' = ledger /\ sups' = sups /\ th' = th /\ (outbox' = outbox \/ Acknowledge(r, e.k))
    BY <1>3 DEF Flush, FlushRepeated
  <2>2. \A q \in Runs : outbox'[q] # {} => outbox[q] # {}
    <3>1. outbox = [q \in Runs |-> outbox[q]]
      BY <1>0, Zenon DEF WorkerInv, OutboxOK
    <3>2. CASE Acknowledge(r, e.k)
      BY <3>1, <3>2 DEF Acknowledge
    <3>. QED  BY <2>1, <3>2, Zenon
  <2>3. CASE Flush(r, e)
    <3>1. ApplyUpdate(r, e.k, e.u)
      BY <2>3, Zenon DEF Flush
    <3>2. e.k \in Nat
      <4>1. e.k = seq[r] + 1
        BY <3>1, Zenon DEF ApplyUpdate, ApplyReport, ApplyStarted, ApplyUnresolved,
                           ApplyStillRunning, ApplyExited, NextUpdate
      <4>2. seq[r] \in Nat
        BY <1>0 DEF CenterInv, CenterTypeOK
      <4>. QED  BY <4>1, <4>2
    <3>3. e.u \in Updates(r)
      BY <1>0, Zenon DEF WorkerInv, OutboxOK, NewsOK
    <3>4. Begun(r)
      BY <1>0, Zenon DEF Touched
    <3>5. StagesClose /\ Opens /\ Settles(actions, actions')
      BY <1>0, <3>1, <3>2, <3>3, <3>4, UpdateOpens
    <3>. QED  BY <1>1, <2>1, <2>2, <3>5, Zenon
  <2>4. CASE FlushRepeated(r, e)
    <3>1. UNCHANGED centerVars
      BY <2>4, Zenon DEF FlushRepeated
    <3>2. StagesClose /\ Opens /\ Settles(actions, actions')
      BY <1>0, <3>1, CenterWaits
    <3>. QED  BY <1>1, <2>1, <2>2, <3>2, Zenon
  <2>. QED  BY <1>3, <2>3, <2>4
<1>. QED  BY <1>2, <1>3, Zenon

-----------------------------------------------------------------------------
(* The action thread takes the action it has claimed.                       *)
LEMMA TakesCalmly ==
    ASSUME SystemInv, LedgerInv, CalmInv, ~env.lossy,
           NEW ids \in SUBSET DOMAIN actions, NEW i \in DOMAIN actions, WorkerPolls(ids, i)
    PROVE  Beginnings' /\ Onces'
<1>. DEFINE x == th["act"]
            kind == actions[i].kind
            r == actions[i].run
            n == actions[i].stage
            claim == actions'[i].claim
            a == [Idle EXCEPT !.pc = kind]
            b == [a EXCEPT !.id = i]
            c == [b EXCEPT !.claim = claim]
            d == [c EXCEPT !.run = r]
            y == [d EXCEPT !.stage = n]
<1>0. CenterInv /\ WorkerInv /\ Beginnings /\ kind \in {"start", "stop"} /\ r \in Runs
  BY TableRows, Zenon DEF SystemInv, CalmInv
<1>1. x.pc = "idle" /\ PollClaim(ids, i) /\ TakeAction(i, claim, kind, r, n)
  BY Zenon DEF WorkerPolls
<1>2. th' = [th EXCEPT !["act"] = y] /\ ledger' = ledger /\ outbox' = outbox /\ sups' = sups
  BY <1>1, Zenon DEF TakeAction
<1>3. /\ StagesClose /\ Opens /\ stages'[r][1] # "pending"
      /\ actions'[i].status = "running"
  BY <1>0, <1>1, ClaimOpens, ClaimRuns
<1>4. Kept
  BY <1>3, OpensKept
<1>5. actions[i].status \in Open
  <2>1. "running" \in Open
    BY DEF Open
  <2>. QED  BY <1>3, <1>4, <2>1, Zenon DEF Kept
<1>6. i \in DOMAIN actions' /\ actions'[i].run = r /\ actions'[i].kind = kind /\ actions'[i].stage = n
  BY <1>4, Zenon DEF Kept
<1>. HIDE DEF kind, r, n, claim
<1>7. /\ y.pc = kind /\ y.id = i /\ y.claim = claim /\ y.run = r /\ y.stage = n /\ y.flag = FALSE
  <2>0. IsThread(Idle) /\ Idle.flag = FALSE
    BY DEF IsThread, Idle
  <2>1. IsThread(a) /\ a.pc = kind /\ a.flag = FALSE
    BY <2>0 DEF IsThread
  <2>. HIDE DEF a
  <2>2. IsThread(b) /\ b.pc = kind /\ b.id = i /\ b.flag = FALSE
    BY <2>1 DEF IsThread
  <2>. HIDE DEF b
  <2>3. IsThread(c) /\ c.pc = kind /\ c.id = i /\ c.claim = claim /\ c.flag = FALSE
    BY <2>2 DEF IsThread
  <2>. HIDE DEF c
  <2>4. /\ IsThread(d) /\ d.pc = kind /\ d.id = i /\ d.claim = claim /\ d.flag = FALSE
        /\ d.run = r
    BY <2>3 DEF IsThread
  <2>. HIDE DEF d
  <2>. QED  BY <2>4 DEF IsThread
<1>. HIDE DEF y
<1>8. "act" \in Threads
  BY DEF Threads
<1>9. th'["act"] = y
  BY <1>0, <1>2, <1>8, OneChanges, Zenon
<1>10. GoesOn
  BY <1>1, <1>4, <1>5, <1>7, <1>9, ActsBegin, Zenon
<1>11. HeldOK(y, actions')
  <2>1. kind \in {"start", "stop"} /\ (kind \in StartOnly => kind = "start")
    BY <1>0 DEF kind, StartOnly
  <2>. QED  BY <1>3, <1>6, <1>7, <2>1, Zenon DEF HeldOK, IsStart, claim
<1>12. Held'
  BY <1>9, <1>11, Zenon DEF Held
<1>13. x.pc \notin {"prepare", "spawn"} /\ (\A q \in Runs : outbox'[q] # {} => outbox[q] # {})
  BY <1>1, <1>2
<1>14. stages'[th'["act"].run][1] # "pending"
  BY <1>3, <1>7, <1>9, Zenon
<1>. QED  BY <1>1, <1>2, <1>3, <1>9, <1>10, <1>12, <1>13, <1>14, CenterKeeps

(* It polls and finds nothing, or publishes its result.                     *)
LEMMA PublishesCalmly ==
    ASSUME SystemInv, LedgerInv, CalmInv, Publish
    PROVE  Beginnings' /\ Onces'
<1>. DEFINE x == th["act"]
            y == [Idle EXCEPT !.todo = x.todo \ {x.run}]
<1>0. CenterInv /\ WorkerInv /\ Beginnings /\ Held
  BY Zenon DEF SystemInv, CalmInv, Onces
<1>1. /\ x.pc = "publish" /\ x.pc # "idle" /\ Go("act", "idle")
      /\ ledger' = ledger /\ outbox' = outbox /\ sups' = sups
      /\ \/ ApplyResult(x.id, x.claim, x.res)
         \/ ~ClaimHeld(x.id, x.claim) /\ UNCHANGED centerVars
  BY DEF Publish
<1>3. "act" \in Threads
  BY DEF Threads
<1>4. th' = [th EXCEPT !["act"] = y]
  BY <1>1, Zenon DEF Go, Local
<1>5. y.pc = "idle"
  BY DEF Idle
<1>. HIDE DEF y
<1>6. th'["act"].pc = "idle"
  BY <1>0, <1>3, <1>4, <1>5, OneChanges, Zenon
<1>7. StagesClose /\ Opens /\ (x.id \in DOMAIN actions => actions'[x.id].status \notin Open)
  <2>1. CASE ApplyResult(x.id, x.claim, x.res)
    <3>. DEFINE i == x.id
                token == x.claim
    <3>1. \/ ActionSucceeded(i, token) \/ StartUnresolved(i, token)
          \/ StartFailed(i, token) \/ StopFailed(i, token)
      BY <2>1, Zenon DEF ApplyResult
    <3>2. i \in DOMAIN actions
      BY <3>1, Zenon DEF ActionSucceeded, StartUnresolved, StartFailed, StopFailed, ClaimHeld
    <3>. HIDE DEF i, token
    <3>3. StagesClose /\ Opens /\ actions'[i].status \notin Open
      BY <1>0, <3>1, <3>2, ResultOpens
    <3>. QED  BY <3>3 DEF i
  <2>2. CASE ~ClaimHeld(x.id, x.claim) /\ UNCHANGED centerVars
    <3>1. StagesClose /\ Opens
      BY <1>0, <2>2, CenterWaits
    <3>2. actions' = actions
      BY <2>2 DEF centerVars
    <3>3. /\ x.id \in DOMAIN actions /\ actions[x.id].status # "queued"
          /\ actions[x.id].status = "running" => actions[x.id].claim = x.claim
      BY <1>0, <1>1, Zenon DEF Held, HeldOK
    <3>4. actions[x.id].status # "running"
      BY <2>2, <3>3, Zenon DEF ClaimHeld
    <3>5. actions[x.id].status \notin Open
      BY <3>3, <3>4 DEF Open
    <3>. QED  BY <3>1, <3>2, <3>5, Zenon
  <2>. QED  BY <1>1, <2>1, <2>2
<1>8. GoesOn /\ Held'
  BY <1>1, <1>6, <1>7, OpensKept, ActsEnd
<1>9. x.pc \notin {"prepare", "spawn"} /\ (\A q \in Runs : outbox'[q] # {} => outbox[q] # {})
  BY <1>1
<1>. QED  BY <1>1, <1>6, <1>7, <1>8, <1>9, CenterKeeps

(* All calls of the Worker, when none is lost.                              *)
LEMMA HttpCalmly ==
    ASSUME SystemInv, LedgerInv, CalmInv, ~env.lossy, Http
    PROVE  Beginnings' /\ Onces'
<1>0. CenterInv /\ Beginnings /\ Held
  BY Zenon DEF SystemInv, CalmInv, Onces
<1>1. ASSUME NEW ids \in SUBSET DOMAIN actions, WorkerPollsInVain(ids)
      PROVE  Beginnings' /\ Onces'
  <2>1. /\ th["act"].pc = "idle" /\ PollEmpty(ids)
        /\ ledger' = ledger /\ outbox' = outbox /\ sups' = sups /\ th' = th
    BY <1>1 DEF WorkerPollsInVain, workerVars
  <2>2. StagesClose /\ Opens
    BY <1>0, <2>1, PollEmptyOpens
  <2>3. GoesOn
    <3>1. Kept
      BY <2>2, OpensKept
    <3>2. \A i \in DOMAIN actions : actions[i].status \notin Open => actions'[i].status \notin Open
      BY <3>1, Zenon DEF Kept
    <3>. QED  BY <2>1, <3>2, Zenon DEF GoesOn, Past
  <2>4. Held'
    BY <2>1, Zenon DEF Held, HeldOK
  <2>. QED  BY <2>1, <2>2, <2>3, <2>4, CenterKeeps
<1>2. ASSUME NEW ids \in SUBSET DOMAIN actions, NEW i \in DOMAIN actions, WorkerPolls(ids, i)
      PROVE  Beginnings' /\ Onces'
  BY <1>2, TakesCalmly
<1>3. ~PublishLost
  BY DEF PublishLost
<1>. QED  BY <1>1, <1>2, <1>3, PublishesCalmly, UpdatesCalmly, Zenon DEF Http

-----------------------------------------------------------------------------
(* What happened stays counted.                                             *)
LEMMA CrashesGrow ==
    ASSUME SystemInv, crashes \in Nat, [SystemNext]_<<systemVars, env>>
    PROVE  /\ env' = env
           /\ crashes' \in Nat
           /\ crashes' = 0 => crashes = 0 /\ ~WorkerCrash
<1>1. env' = env
  BY Zenon DEF SystemNext, Under
<1>2. CASE WorkerCrash
  BY <1>1, <1>2 DEF WorkerCrash
<1>3. ASSUME ProcessEnds PROVE crashes' \in Nat /\ crashes' # 0
  BY <1>3 DEF ProcessEnds
<1>4. ASSUME ~WorkerCrash, ~ProcessEnds PROVE crashes' = crashes
  <2>1. CASE User \/ Http
    BY <2>1 DEF User, UserCreates, UserStops, Http, WorkerPolls, TakeAction, WorkerPollsInVain,
                Publish, PublishLost, Flush, FlushRepeated, workerVars
  <2>2. CASE ActionThread
    <3>1. ASSUME \/ StartDecide \/ LaunchFails \/ RecordLaunch \/ SpawnSupervisor
                 \/ AwaitSupervisor \/ AwaitFails \/ Attach
          PROVE  crashes' = crashes
      BY <3>1 DEF StartDecide, LaunchFails, RecordLaunch, SpawnSupervisor, AwaitSupervisor,
                  AwaitFails, Attach
    <3>2. ASSUME \/ WriteCommit \/ AwaitTraining \/ AwaitTrainingFails \/ SetRunning \/ ActOk
          PROVE  crashes' = crashes
      BY <3>2 DEF WriteCommit, AwaitTraining, AwaitTrainingFails, SetRunning, ActOk
    <3>3. ASSUME \/ ResumeRelaunch \/ ResumeUnresolved \/ ResumeLaunch \/ StopDecide
                 \/ StopRead \/ WriteCancel \/ StopKill \/ StopRecord
          PROVE  crashes' = crashes
      BY <3>3 DEF ResumeRelaunch, ResumeUnresolved, ResumeLaunch, StopDecide, StopRead,
                  WriteCancel, StopKill, StopRecord
    <3>. QED  BY <2>2, <3>1, <3>2, <3>3, Zenon DEF ActionThread
  <2>3. CASE MonitorThread \/ Observes \/ Enqueues
    BY <1>4, <2>3, Zenon DEF MonitorThread, MonitorList, Observes, ObserveRead, Judge, Report,
                       Enqueues, EnqueueRead, EnqueueWrite
  <2>4. CASE MainThread
    BY <1>4, <2>4, Zenon DEF MainThread, MainList, MainRelist, MainProbe, MainWrite, MainReport
  <2>5. CASE Processes \/ Kills
    BY <2>5, Zenon DEF Processes, SupervisorStep, SupervisorBoot, SupervisorDecide,
                       SupervisorSpawn, ChildExits, Kills, SupervisorKilled
  <2>6. CASE UNCHANGED <<systemVars, env>>
    BY <2>6 DEF systemVars
  <2>. QED  BY <1>4, <2>1, <2>2, <2>3, <2>4, <2>5, <2>6, Zenon DEF SystemNext, Under
<1>. QED  BY <1>1, <1>2, <1>3, <1>4

(* The invariant of a Worker that nothing has interrupted so far.           *)
OnceInv == crashes \in Nat /\ (Uninterrupted => CalmInv)

LEMMA OnceStart == SystemInit => OnceInv
<1>. SUFFICES ASSUME SystemInit PROVE crashes \in Nat /\ CalmInv
  BY DEF OnceInv
<1>1. /\ th = Started /\ ledger = [r \in Runs |-> NoRow] /\ outbox = [r \in Runs |-> {}]
      /\ seq = [r \in Runs |-> 0] /\ sups = << >> /\ crashes = 0
      /\ actions = << >> /\ status = [r \in Runs |-> "absent"]
  BY Zenon DEF SystemInit, WorkerInit, CenterInit, StoreInit
<1>2. NoRow.seq = 0 /\ NoRow.state = "absent" /\ Idle.pc = "idle" /\ Idle.k = 0
  BY DEF NoRow, Idle
<1>3. DOMAIN actions = {} /\ DOMAIN sups = {}
  BY <1>1
<1>4. /\ th["act"] = Idle /\ th["mon"] = Idle
      /\ th["main"].pc = "idle" /\ \A t \in Threads : th[t].k = 0
  <2>1. [Idle EXCEPT !.todo = env.runs].k = 0 /\ [Idle EXCEPT !.todo = env.runs].pc = "idle"
    BY DEF Idle
  <2>. QED  BY <1>1, <1>2, <2>1 DEF Started, Threads
<1>5. \A r \in Runs : ledger[r].state = "absent" /\ outbox[r] = {}
  BY <1>1, <1>2
<1>6. NumbersInv
  <2>1. NumbersOK({}, 0, 0)
    BY DEF NumbersOK
  <2>2. \A r \in Runs : NumbersOK(outbox[r], seq[r], ledger[r].seq)
    BY <1>1, <1>2, <2>1, Zenon
  <2>. QED  BY <1>4, <2>2, Zenon DEF NumbersInv
<1>7. Beginnings
  <2>1. \A r \in Runs : status[r] = "absent"
    BY <1>1
  <2>. QED  BY <1>3, <2>1 DEF Beginnings, StartsOnce
<1>8. Touched /\ Held
  BY <1>2, <1>4, <1>5 DEF Touched, Held, HeldOK
<1>9. SupsOnce /\ RowsOnce
  BY <1>3, <1>5 DEF SupsOnce, RowsOnce
<1>. QED  BY <1>1, <1>6, <1>7, <1>8, <1>9, Zenon DEF CalmInv, Onces

(* Every step keeps it.                                                     *)
LEMMA OnceStep ==
    ASSUME SystemInv, LedgerInv, OnceInv, [SystemNext]_<<systemVars, env>>
    PROVE  OnceInv'
<1>1. /\ env' = env /\ crashes' \in Nat
      /\ crashes' = 0 => crashes = 0 /\ ~WorkerCrash
  BY CrashesGrow DEF OnceInv
<1>. SUFFICES ASSUME Uninterrupted' PROVE CalmInv'
  BY <1>1 DEF OnceInv
<1>2. /\ Uninterrupted /\ ~WorkerCrash /\ ~env.lossy /\ ~env.races
      /\ crashes \in Nat /\ crashes' = 0
  BY <1>1, Zenon DEF Uninterrupted, OnceInv
<1>3. CalmInv
  BY <1>2, Zenon DEF OnceInv
<1>4. NumbersInv'
  BY <1>2, <1>3, NumbersStep, Zenon DEF CalmInv
<1>5. Beginnings' /\ Onces'
  <2>1. CASE User
    BY <1>3, <2>1, UpdatesCalmly
  <2>2. CASE Http
    BY <1>2, <1>3, <2>2, HttpCalmly
  <2>3. CASE ActionThread
    BY <1>3, <2>3, ActsCalmly
  <2>4. CASE MonitorThread \/ MainThread \/ Observes \/ Enqueues
    BY <1>2, <1>3, <2>4, OthersCalmly
  <2>5. CASE Processes \/ Kills
    BY <1>3, <2>5, ProcessesCalmly
  <2>6. CASE UNCHANGED <<systemVars, env>>
    <3>1. UNCHANGED centerVars
      BY <2>6 DEF systemVars, centerVars
    <3>2. ledger' = ledger /\ outbox' = outbox /\ th' = th /\ sups' = sups
      BY <2>6 DEF systemVars
    <3>3. /\ WorkerInv /\ Beginnings /\ Touched /\ Held /\ SupsOnce /\ RowsOnce
      BY <1>3, Zenon DEF SystemInv, CalmInv, Onces
    <3>4. RowsFollow /\ OutboxFollows /\ (Alike(sups, sups') \/ Spawned)
      BY <3>2, <3>3, RowsGoOn, AlikeNow, Zenon DEF OutboxFollows
    <3>5. Beginnings' /\ Touched' /\ Held' /\ SupsOnce' /\ RowsOnce'
      BY <3>1, <3>2, <3>3, <3>4, WorkerKeeps
    <3>. QED  BY <3>5, Zenon DEF Onces
  <2>. QED  BY <1>2, <2>1, <2>2, <2>3, <2>4, <2>5, <2>6, Zenon DEF SystemNext, Under
<1>. QED  BY <1>4, <1>5, Zenon DEF CalmInv

(* An uninterrupted Worker trains no stage twice: it even spawns one        *)
(* supervisor at most for a stage, whatever is stopped, killed, slow or     *)
(* offered again, and whatever main and the monitor write meanwhile.        *)
THEOREM StagesTrainedOnce == SystemSpec => []StageTrainedOnce
<1>1. OnceInv => StageTrainedOnce
  <2>. SUFFICES ASSUME OnceInv, Uninterrupted,
                       NEW p \in DOMAIN sups, NEW q \in DOMAIN sups,
                       sups[p].run = sups[q].run, sups[p].stage = sups[q].stage
                PROVE  p = q
    BY Zenon DEF StageTrainedOnce
  <2>1. SupsOnce
    BY Zenon DEF OnceInv, CalmInv, Onces
  <2>. QED  BY <2>1, Zenon DEF SupsOnce
<1>2. SystemInv /\ LedgerInv /\ OnceInv /\ [SystemNext]_<<systemVars, env>> => OnceInv'
  BY OnceStep
<1>3. SystemSpec => []LedgerInv
  BY WorkerSendsMessages, MessagesKeepLedgerInv
<1>. QED  BY <1>1, <1>2, <1>3, OnceStart, SystemInvariant, PTL DEF SystemSpec
=============================================================================
