-------------------------- MODULE AnnotationProofs --------------------------
(***************************************************************************)
(* Safety properties of the annotation service, proved for any jobs,       *)
(* clips, segments, tasks and writers, and for all faults at any time:     *)
(*                                                                         *)
(*   - no writer enters the navigation writer lock over the unfinished     *)
(*     work of another;                                                    *)
(*   - two jobs never work on one clip, as long as no dataset is reset;    *)
(*   - what the ledger promises about tracking and its output, reviews,    *)
(*     releases, publication and handoffs;                                 *)
(*   - a cancellation never waits for an innocent job, as long as no       *)
(*     heartbeat fails.                                                    *)
(*                                                                         *)
(* For the last two every step is shown once to be a transaction of the    *)
(* ledger, with what its caller has made sure of; the invariants are then  *)
(* shown to be kept by each kind of transaction.                           *)
(***************************************************************************)
EXTENDS AnnotationSystem, SequenceFacts

-----------------------------------------------------------------------------
(* The writer lock.  The property is inductive: a step leaves the holder    *)
(* and the active markers alone, lets a writer in where there is no marker, *)
(* or leaves the lock to nobody that the property is about.                 *)
ActiveMarkers == {m \in markers : m.kind = "active"}

LockStep ==
    \/ holder' = holder /\ ActiveMarkers' = ActiveMarkers
    \/ \E w : Acquire(w)
    \/ \A w \in Writers \ {Operator} : holder' # HeldBy(w)

(* Each of the three kinds of step keeps the property.                      *)
LEMMA LockStepKeeps ==
    ASSUME WriterExclusive, LockStep
    PROVE  WriterExclusive'
<1>1. CASE holder' = holder /\ ActiveMarkers' = ActiveMarkers
  BY <1>1 DEF WriterExclusive, ActiveMarkers
<1>2. ASSUME NEW w, Acquire(w)
      PROVE  WriterExclusive'
  <2>1. holder' = HeldBy(w) /\ markers' = {ActiveMarker(w)}
    BY <1>2 DEF Acquire, QuarantinePresent
  <2>2. {m \in markers' : m.kind = "active"} = {ActiveMarker(w)}
    BY <2>1 DEF ActiveMarker
  <2>3. \A v : HeldBy(v) = HeldBy(w) => v = w
    BY DEF HeldBy
  <2>. QED  BY <2>1, <2>2, <2>3 DEF WriterExclusive
<1>3. CASE \A w \in Writers \ {Operator} : holder' # HeldBy(w)
  BY <1>3 DEF WriterExclusive
<1>. QED  BY <1>1, <1>2, <1>3 DEF LockStep

(* The operations of the lock.                                              *)
LEMMA NobodyIsNoWriter == \A w \in Writers : HeldBy(w) # Nobody /\ \A v : HeldBy(w) # Orphaned(v)
BY WritersAssumption DEF HeldBy, Nobody, Orphaned

(* Every operation of the lock is one of them.                              *)
LEMMA LockOperations ==
    ASSUME NEW w, NEW flag,
           \/ UNCHANGED lockVars \/ Acquire(w) \/ Refused(w) \/ Release(w, flag) \/ WriterDies(w, flag)
           \/ OrphanExits \/ \E n : EnsureQuarantine(n)
           \/ \E M : ClearMarkers(M)
    PROVE  LockStep
<1>1. CASE UNCHANGED lockVars \/ Refused(w)
  BY <1>1 DEF LockStep, lockVars, ActiveMarkers, Refused
<1>2. CASE Acquire(w)
  BY <1>2 DEF LockStep
<1>3. CASE Release(w, flag) \/ WriterDies(w, flag) \/ OrphanExits
  BY <1>3, NobodyIsNoWriter DEF LockStep, Release, WriterDies, OrphanExits
<1>4. ASSUME NEW n, EnsureQuarantine(n)
      PROVE  LockStep
  BY <1>4 DEF LockStep, EnsureQuarantine, ActiveMarkers, QuarantineMarker
<1>5. ASSUME NEW M, ClearMarkers(M)
      PROVE  LockStep
  BY <1>5, NobodyIsNoWriter DEF LockStep, ClearMarkers, Clearable
<1>. QED  BY <1>1, <1>2, <1>3, <1>4, <1>5

(* So is every step of the Worker,                                          *)
LEMMA WorkerLockStep ==
    ASSUME WorkerStep
    PROVE  LockStep
<1>1. UNCHANGED lockVars => LockStep
  BY LockOperations
<1>2. CASE Stop \/ HeartbeatCheck \/ HeartbeatRenew \/ HeartbeatRecheck \/ HeartbeatFails \/ LeaseExpires
  BY <1>1, <1>2 DEF Stop, HeartbeatCheck, HeartbeatRenew, HeartbeatRecheck, HeartbeatFails, LeaseExpires
<1>3. CASE Recover \/ Claim \/ Execute \/ Capacity \/ SetupTracking \/ NextTarget \/ Bind
  BY <1>1, <1>3, LockOperations DEF Recover, Claim, Execute, Capacity, SetupTracking, NextTarget, Bind
<1>4. CASE EnterLock \/ WorkDone
  BY <1>4, LockOperations DEF EnterLock, WorkDone
<1>5. CASE WorkFails
  BY <1>5, LockOperations DEF WorkFails, CommandKilled, CommandSurvives, OutputConflict
<1>6. CASE Fence \/ Publish
  BY <1>1, <1>6, LockOperations DEF Fence, Publish
<1>7. CASE Record \/ Closing \/ PrepareRejected \/ Failing \/ Settle \/ Fail \/ Finished
  BY <1>1, <1>7 DEF Record, Closing, PrepareRejected, Failing, Settle, Fail, Finished
<1>. QED  BY <1>2, <1>3, <1>4, <1>5, <1>6, <1>7 DEF WorkerStep

(* and every step of the service.                                           *)
LEMMA EveryLockStep ==
    ASSUME [Next]_vars
    PROVE  LockStep
<1>1. UNCHANGED lockVars => LockStep
  BY LockOperations
<1>2. CASE PipelineRequest \/ ReviewRequest
  BY <1>1, <1>2 DEF PipelineRequest, ReviewRequest
<1>3. ASSUME NEW j \in Jobs, CancelCommit(j) \/ CancelOwns(j) \/ CancelTold(j) \/ OpConfirm(j)
      PROVE  LockStep
  BY <1>1, <1>3 DEF CancelCommit, CancelOwns, CancelTold, OpConfirm
<1>4. CASE DeliveryStarts \/ DeliveryTracks \/ DeliveryStep \/ DeliverySettles
  BY <1>1, <1>4 DEF DeliveryStarts, DeliveryTracks, DeliveryStep, DeliverySettles
<1>5. CASE NavigationWrites \/ OrphanEnds
  BY <1>5, LockOperations DEF NavigationWrites, OrphanEnds
<1>6. CASE OpRecord \/ OpReplay
  BY <1>1, <1>6, LockOperations DEF OpRecord, OpReplay
<1>7. CASE OpComplete
  <2>1. CASE Clearable(opAct.marks)
    <3>1. holder' = HeldBy(Operator) /\ \A w \in Writers \ {Operator} : HeldBy(w) # HeldBy(Operator)
      BY <1>7, <2>1 DEF OpComplete, HeldBy
    <3>. QED  BY <3>1 DEF LockStep
  <2>2. CASE ~Clearable(opAct.marks)
    BY <1>1, <1>7, <2>2 DEF OpComplete
  <2>. QED  BY <2>1, <2>2
<1>8. CASE OpUnlink \/ OpDies
  BY <1>8, NobodyIsNoWriter DEF OpUnlink, OpDies, LockStep
<1>9. CASE WorkerStep
  BY <1>9, WorkerLockStep
<1>10. CASE ServiceEnds \/ ServiceStarts
  BY <1>1, <1>10, LockOperations DEF ServiceEnds, ServiceStarts, ShutDown, Crash, Restart
<1>11. CASE UNCHANGED vars
  BY <1>1, <1>11 DEF vars
<1>. QED
  BY <1>2, <1>3, <1>4, <1>5, <1>6, <1>7, <1>8, <1>9, <1>10, <1>11 DEF Next

(* No writer enters the lock over the unfinished work of another: a writer  *)
(* that died, with or without a child, keeps the others out until an        *)
(* operator has cleared its marker (writer_lock.py, operator_cli.py).       *)
THEOREM WritersExclusive == Spec => []WriterExclusive
<1>1. Init => WriterExclusive
  BY NobodyIsNoWriter DEF Init, LockInit, WriterExclusive
<1>2. WriterExclusive /\ [Next]_vars => WriterExclusive'
  BY EveryLockStep, LockStepKeeps
<1>. QED  BY <1>1, <1>2, PTL DEF Spec

-----------------------------------------------------------------------------
(* The source leases.  The rows of the tables are records; every run that   *)
(* can fail its job belongs to a job that was created; the Worker executes  *)
(* a run there is, and the coordinator delivers a handoff there is.         *)
IsJob(v) == v = [st |-> v.st, fail |-> v.fail, cancel |-> v.cancel, ref |-> v.ref]
IsRun(v) ==
    v = [job |-> v.job, kind |-> v.kind, seg |-> v.seg, d |-> v.d, st |-> v.st, fail |-> v.fail,
         fence |-> v.fence, step |-> v.step]
IsHandoff(v) ==
    v = [job |-> v.job, kind |-> v.kind, seg |-> v.seg, d |-> v.d, used |-> v.used, task |-> v.task]

ReviewRuns == {"fix", "compatibility_publish"}
Unheld(v) == v.st \in {"none", "cancelled"}

JobsOK ==
    /\ job = [j \in Jobs |-> job[j]] /\ \A j \in Jobs : IsJob(job[j])
    /\ src \in [Clips -> Jobs \cup {None}]
RunsOK ==
    /\ IsSequence(runs)
    /\ \A r \in DOMAIN runs :
          /\ IsRun(runs[r]) /\ runs[r].job \in Jobs
          /\ runs[r].kind \notin ReviewRuns => job[runs[r].job].st # "none"
HandoffsOK ==
    IsSequence(hand) /\ \A h \in DOMAIN hand : IsHandoff(hand[h]) /\ hand[h].job \in Jobs
PlacesOK ==
    /\ pc # "idle" => cur \in DOMAIN runs
    /\ dpc = "track" => deliv \in DOMAIN hand

TablesOK == JobsOK /\ RunsOK /\ HandoffsOK /\ PlacesOK
ClipsInv == TablesOK /\ ActiveJobOwnsClips

(* What a step may do to the tables.  A job that holds no clips comes to    *)
(* hold some by its creation only, and gives them up when it is cancelled.  *)
JobStep ==
    \/ UNCHANGED <<job, src>>
    \/ \E j \in Jobs : \E v :
          /\ job' = [job EXCEPT ![j] = v] /\ UNCHANGED src
          /\ IsJob(v) /\ v.st # "none" /\ (Unheld(job[j]) => Unheld(v))
    \/ \E j \in Jobs :
          /\ \A c \in ClipsOf[j] : src[c] = None
          /\ job' = [job EXCEPT ![j].st = "preparing"]
          /\ src' = [c \in Clips |-> IF c \in ClipsOf[j] THEN j ELSE src[c]]
    \/ \E j \in Jobs : FinalizeCancelledJob(j)

RunsKept ==
    /\ DOMAIN runs' = DOMAIN runs
    /\ runs' = [r \in DOMAIN runs' |-> runs'[r]]
    /\ \A r \in DOMAIN runs :
          IsRun(runs'[r]) /\ runs'[r].job = runs[r].job /\ runs'[r].kind = runs[r].kind
RunsStep ==
    \/ runs' = runs
    \/ RunsKept
    \/ \E e : /\ runs' = Append(runs, e)
              /\ IsRun(e) /\ e.job \in Jobs
              /\ e.kind \notin ReviewRuns => job'[e.job].st # "none"

HandoffsKept ==
    /\ DOMAIN hand' = DOMAIN hand
    /\ hand' = [h \in DOMAIN hand' |-> hand'[h]]
    /\ \A h \in DOMAIN hand : IsHandoff(hand'[h]) /\ hand'[h].job = hand[h].job
HandoffStep ==
    \/ hand' = hand
    \/ HandoffsKept
    \/ \E e : hand' = Append(hand, e) /\ IsHandoff(e) /\ e.job \in Jobs

StoreStep == JobStep /\ RunsStep /\ HandoffStep

PlaceStep ==
    /\ pc' # "idle" => (pc # "idle" /\ cur' = cur) \/ cur' \in DOMAIN runs
    /\ dpc' = "track" => (dpc = "track" /\ deliv' = deliv) \/ deliv' \in DOMAIN hand

(* What a step of the jobs keeps: leases and jobs agree, and no job becomes *)
(* uncreated.                                                               *)
LEMMA JobStepKeeps ==
    ASSUME JobsOK, JobStep
    PROVE  /\ JobsOK' /\ (ActiveJobOwnsClips => ActiveJobOwnsClips')
           /\ \A j \in Jobs : job[j].st # "none" => job'[j].st # "none"
<1>1. CASE UNCHANGED <<job, src>>
  BY <1>1 DEF JobsOK, ActiveJobOwnsClips
<1>2. ASSUME NEW j \in Jobs, NEW v, job' = [job EXCEPT ![j] = v], UNCHANGED src,
             IsJob(v), v.st # "none", Unheld(job[j]) => Unheld(v)
      PROVE  /\ JobsOK' /\ (ActiveJobOwnsClips => ActiveJobOwnsClips')
             /\ \A i \in Jobs : job[i].st # "none" => job'[i].st # "none"
  <2>1. DOMAIN job = Jobs
    BY DEF JobsOK
  <2>2. job'[j] = v /\ \A i \in Jobs : i # j => job'[i] = job[i]
    BY <1>2, <2>1
  <2>3. JobsOK'
    BY <1>2, <2>1, <2>2 DEF JobsOK
  <2>4. ActiveJobOwnsClips => ActiveJobOwnsClips'
    BY <1>2, <2>2 DEF ActiveJobOwnsClips, Unheld
  <2>. QED  BY <1>2, <2>2, <2>3, <2>4
<1>3. ASSUME NEW j \in Jobs, \A c \in ClipsOf[j] : src[c] = None,
             job' = [job EXCEPT ![j].st = "preparing"],
             src' = [c \in Clips |-> IF c \in ClipsOf[j] THEN j ELSE src[c]]
      PROVE  /\ JobsOK' /\ (ActiveJobOwnsClips => ActiveJobOwnsClips')
             /\ \A i \in Jobs : job[i].st # "none" => job'[i].st # "none"
  <2>1. DOMAIN job = Jobs /\ IsJob(job[j])
    BY DEF JobsOK
  <2>2. /\ job'[j] = [st |-> "preparing", fail |-> job[j].fail, cancel |-> job[j].cancel,
                      ref |-> job[j].ref]
        /\ \A i \in Jobs : i # j => job'[i] = job[i]
    BY <1>3, <2>1 DEF IsJob
  <2>3. IsJob(job'[j]) /\ job'[j].st = "preparing"
    BY <2>2 DEF IsJob
  <2>4. JobsOK'
    BY <1>3, <2>1, <2>2, <2>3 DEF JobsOK
  <2>5. ASSUME ActiveJobOwnsClips, NEW i \in Jobs, job'[i].st \notin {"none", "cancelled"},
             NEW c \in ClipsOf[i]
        PROVE  src'[c] = i
    <3>1. c \in Clips
      BY StoreAssumption
    <3>2. CASE i = j
      BY <1>3, <3>1, <3>2
    <3>3. CASE i # j
      <4>1. src[c] = i
        BY <2>2, <2>5, <3>3 DEF ActiveJobOwnsClips
      <4>2. c \notin ClipsOf[j]
        BY <1>3, <4>1, StoreAssumption
      <4>. QED  BY <1>3, <3>1, <4>1, <4>2
    <3>. QED  BY <3>2, <3>3
  <2>6. ActiveJobOwnsClips => ActiveJobOwnsClips'
    BY <2>5 DEF ActiveJobOwnsClips
  <2>. QED  BY <2>2, <2>3, <2>4, <2>6
<1>4. ASSUME NEW j \in Jobs, FinalizeCancelledJob(j)
      PROVE  /\ JobsOK' /\ (ActiveJobOwnsClips => ActiveJobOwnsClips')
             /\ \A i \in Jobs : job[i].st # "none" => job'[i].st # "none"
  <2>. DEFINE mid == [job[j] EXCEPT !.st = "cancelled"]
  <2>1. DOMAIN job = Jobs /\ IsJob(job[j])
    BY DEF JobsOK
  <2>2. mid = [st |-> "cancelled", fail |-> job[j].fail, cancel |-> job[j].cancel, ref |-> job[j].ref]
    BY <2>1 DEF IsJob
  <2>3. job'[j] = [mid EXCEPT !.cancel = FALSE] /\ \A i \in Jobs : i # j => job'[i] = job[i]
    BY <1>4, <2>1 DEF FinalizeCancelledJob
  <2>4. DOMAIN job' = Jobs /\ job' = [i \in Jobs |-> job'[i]]
    BY <1>4, <2>1 DEF FinalizeCancelledJob, JobsOK
  <2>. HIDE DEF mid
  <2>5. IsJob(job'[j]) /\ job'[j].st = "cancelled"
    BY <2>2, <2>3 DEF IsJob
  <2>6. src' \in [Clips -> Jobs \cup {None}]
    BY <1>4 DEF FinalizeCancelledJob, WithoutSources, JobsOK
  <2>7. JobsOK'
    BY <2>3, <2>4, <2>5, <2>6 DEF JobsOK
  <2>8. ASSUME ActiveJobOwnsClips, NEW i \in Jobs, job'[i].st \notin {"none", "cancelled"},
             NEW c \in ClipsOf[i]
        PROVE  src'[c] = i
    <3>1. c \in Clips /\ i # j
      BY <2>5, <2>8, StoreAssumption
    <3>2. src[c] = i
      BY <2>3, <2>8, <3>1 DEF ActiveJobOwnsClips
    <3>. QED  BY <1>4, <3>1, <3>2 DEF FinalizeCancelledJob, WithoutSources
  <2>9. ActiveJobOwnsClips => ActiveJobOwnsClips'
    BY <2>8 DEF ActiveJobOwnsClips
  <2>. QED  BY <2>3, <2>5, <2>7, <2>9
<1>. QED  BY <1>1, <1>2, <1>3, <1>4 DEF JobStep

(* What a step of the runs keeps.                                           *)
LEMMA RunsStepKeeps ==
    ASSUME RunsOK, RunsStep, \A j \in Jobs : job[j].st # "none" => job'[j].st # "none"
    PROVE  RunsOK' /\ DOMAIN runs \subseteq DOMAIN runs'
<1>1. CASE runs' = runs
  BY <1>1 DEF RunsOK
<1>2. CASE RunsKept
  <2>1. IsSequence(runs')
    BY <1>2, SequenceRewritten DEF RunsOK, RunsKept
  <2>. QED  BY <1>2, <2>1 DEF RunsOK, RunsKept
<1>3. ASSUME NEW e, runs' = Append(runs, e), IsRun(e), e.job \in Jobs,
             e.kind \notin ReviewRuns => job'[e.job].st # "none"
      PROVE  RunsOK' /\ DOMAIN runs \subseteq DOMAIN runs'
  <2>1. PICK n : /\ IsSequence(runs')
                 /\ DOMAIN runs' = DOMAIN runs \cup {n}
                 /\ \A i \in DOMAIN runs : runs'[i] = runs[i]
                 /\ runs'[n] = e
    <3>1. Grown(runs, Append(runs, e), e)
      BY SequenceGrows DEF RunsOK
    <3>2. Grown(runs, runs', e)
      BY <1>3, <3>1
    <3>. QED  BY <3>2 DEF Grown
  <2>. QED  BY <1>3, <2>1 DEF RunsOK
<1>. QED  BY <1>1, <1>2, <1>3 DEF RunsStep

(* What a step of the handoffs keeps.                                       *)
LEMMA HandoffStepKeeps ==
    ASSUME HandoffsOK, HandoffStep
    PROVE  HandoffsOK' /\ DOMAIN hand \subseteq DOMAIN hand'
<1>1. CASE hand' = hand
  BY <1>1 DEF HandoffsOK
<1>2. CASE HandoffsKept
  <2>1. IsSequence(hand')
    BY <1>2, SequenceRewritten DEF HandoffsOK, HandoffsKept
  <2>. QED  BY <1>2, <2>1 DEF HandoffsOK, HandoffsKept
<1>3. ASSUME NEW e, hand' = Append(hand, e), IsHandoff(e), e.job \in Jobs
      PROVE  HandoffsOK' /\ DOMAIN hand \subseteq DOMAIN hand'
  <2>1. PICK n : /\ IsSequence(hand')
                 /\ DOMAIN hand' = DOMAIN hand \cup {n}
                 /\ \A i \in DOMAIN hand : hand'[i] = hand[i]
                 /\ hand'[n] = e
    <3>1. Grown(hand, Append(hand, e), e)
      BY SequenceGrows DEF HandoffsOK
    <3>2. Grown(hand, hand', e)
      BY <1>3, <3>1
    <3>. QED  BY <3>2 DEF Grown
  <2>. QED  BY <1>3, <2>1 DEF HandoffsOK
<1>. QED  BY <1>1, <1>2, <1>3 DEF HandoffStep

(* The rows are kept by every step of the tables and of the places.         *)
LEMMA TablesStep ==
    ASSUME TablesOK, StoreStep, PlaceStep
    PROVE  TablesOK' /\ (ActiveJobOwnsClips => ActiveJobOwnsClips')
<1>1. /\ JobsOK' /\ (ActiveJobOwnsClips => ActiveJobOwnsClips')
      /\ \A j \in Jobs : job[j].st # "none" => job'[j].st # "none"
  BY JobStepKeeps DEF TablesOK, StoreStep
<1>2. RunsOK' /\ DOMAIN runs \subseteq DOMAIN runs'
  BY <1>1, RunsStepKeeps DEF TablesOK, StoreStep
<1>3. HandoffsOK' /\ DOMAIN hand \subseteq DOMAIN hand'
  BY HandoffStepKeeps DEF TablesOK, StoreStep
<1>4. PlacesOK'
  BY <1>2, <1>3 DEF TablesOK, PlaceStep, PlacesOK
<1>. QED  BY <1>1, <1>2, <1>3, <1>4 DEF TablesOK

-----------------------------------------------------------------------------
(* The operations of the store, each as a step of the tables.               *)
LEMMA RunField ==
    ASSUME NEW v, IsRun(v), NEW x
    PROVE  /\ IsRun([v EXCEPT !.st = x]) /\ [v EXCEPT !.st = x].job = v.job
           /\ [v EXCEPT !.st = x].kind = v.kind
           /\ IsRun([v EXCEPT !.fail = x]) /\ [v EXCEPT !.fail = x].job = v.job
           /\ [v EXCEPT !.fail = x].kind = v.kind
           /\ IsRun([v EXCEPT !.step = x]) /\ [v EXCEPT !.step = x].job = v.job
           /\ [v EXCEPT !.step = x].kind = v.kind
           /\ IsRun([v EXCEPT !.fence = x]) /\ [v EXCEPT !.fence = x].job = v.job
           /\ [v EXCEPT !.fence = x].kind = v.kind
<1>1. /\ [v EXCEPT !.st = x] = [job |-> v.job, kind |-> v.kind, seg |-> v.seg, d |-> v.d,
                                st |-> x, fail |-> v.fail, fence |-> v.fence, step |-> v.step]
      /\ [v EXCEPT !.fail = x] = [job |-> v.job, kind |-> v.kind, seg |-> v.seg, d |-> v.d,
                                  st |-> v.st, fail |-> x, fence |-> v.fence, step |-> v.step]
      /\ [v EXCEPT !.step = x] = [job |-> v.job, kind |-> v.kind, seg |-> v.seg, d |-> v.d,
                                  st |-> v.st, fail |-> v.fail, fence |-> v.fence, step |-> x]
      /\ [v EXCEPT !.fence = x] = [job |-> v.job, kind |-> v.kind, seg |-> v.seg, d |-> v.d,
                                   st |-> v.st, fail |-> v.fail, fence |-> x, step |-> v.step]
  BY DEF IsRun
<1>. QED  BY <1>1 DEF IsRun

(* A run is rewritten and keeps its job and its kind.                       *)
LEMMA RunChanged ==
    ASSUME RunsOK, NEW r, NEW v, runs' = [runs EXCEPT ![r] = v],
           r \in DOMAIN runs => IsRun(v) /\ v.job = runs[r].job /\ v.kind = runs[r].kind
    PROVE  RunsStep
BY DEF RunsOK, RunsStep, RunsKept

(* One column of a run is written.                                          *)
LEMMA RunStatus ==
    ASSUME RunsOK, NEW r, NEW x,
           \/ runs' = [runs EXCEPT ![r].st = x]
           \/ runs' = [runs EXCEPT ![r].step = x]
    PROVE  RunsStep
<1>1. r \in DOMAIN runs => IsRun(runs[r])
  BY DEF RunsOK
<1>2. CASE runs' = [runs EXCEPT ![r] = [runs[r] EXCEPT !.st = x]]
  BY <1>1, <1>2, RunField, RunChanged
<1>3. CASE runs' = [runs EXCEPT ![r] = [runs[r] EXCEPT !.step = x]]
  BY <1>1, <1>3, RunField, RunChanged
<1>. QED  BY <1>2, <1>3

(* A run is queued: for a review, or for a job that was created.            *)
LEMMA Enqueued ==
    ASSUME NEW j \in Jobs, NEW kind, NEW s, NEW d, EnqueueRun(j, kind, s, d),
           kind \in ReviewRuns \/ job'[j].st # "none"
    PROVE  RunsStep
<1>. DEFINE e == [job |-> j, kind |-> kind, seg |-> s, d |-> d, st |-> "queued", fail |-> "none",
                  fence |-> FALSE, step |-> "idle"]
<1>1. runs' = Append(runs, e)
  BY DEF EnqueueRun
<1>2. IsRun(e) /\ e.job = j /\ e.kind = kind
  BY DEF IsRun
<1>. HIDE DEF e
<1>. QED  BY <1>1, <1>2 DEF RunsStep

(* A handoff is written.                                                    *)
LEMMA HandoffRow ==
    ASSUME NEW j \in Jobs, NEW kind, NEW s, hand' = Append(hand, Handoff(j, kind, s))
    PROVE  HandoffStep
<1>1. IsHandoff(Handoff(j, kind, s)) /\ Handoff(j, kind, s).job = j
  BY DEF Handoff, IsHandoff
<1>. QED  BY <1>1 DEF HandoffStep

(* A step that leaves the ledger alone.                                     *)
LEMMA NoStoreStep == UNCHANGED storeVars => StoreStep
BY DEF storeVars, StoreStep, JobStep, RunsStep, HandoffStep

(* A job that was created changes its status, but not to or from holding    *)
(* clips.                                                                   *)
LEMMA JobChanged ==
    ASSUME NEW j \in Jobs, NEW v, job' = [job EXCEPT ![j] = v], UNCHANGED src,
           IsJob(v), v.st # "none", Unheld(job[j]) => Unheld(v)
    PROVE  JobStep
BY DEF JobStep

(* A job that holds its clips moves on to another status.                   *)
LEMMA JobMoves ==
    ASSUME JobsOK, NEW j \in Jobs, ~Unheld(job[j]), NEW x, x # "none",
           job' = [job EXCEPT ![j].st = x], UNCHANGED src
    PROVE  JobStep /\ job'[j].st = x
<1>. DEFINE v == [job[j] EXCEPT !.st = x]
<1>1. IsJob(job[j]) /\ j \in DOMAIN job
  BY DEF JobsOK
<1>2. v = [st |-> x, fail |-> job[j].fail, cancel |-> job[j].cancel, ref |-> job[j].ref]
  BY <1>1 DEF IsJob
<1>3. job' = [job EXCEPT ![j] = v]
  OBVIOUS
<1>. HIDE DEF v
<1>4. IsJob(v) /\ v.st = x
  BY <1>2 DEF IsJob
<1>. QED  BY <1>1, <1>3, <1>4, JobChanged

(* The cancel flag is no part of the status.                                *)
LEMMA JobField ==
    ASSUME NEW v, IsJob(v), NEW x
    PROVE  IsJob([v EXCEPT !.cancel = x]) /\ [v EXCEPT !.cancel = x].st = v.st
<1>1. [v EXCEPT !.cancel = x] = [st |-> v.st, fail |-> v.fail, cancel |-> x, ref |-> v.ref]
  BY DEF IsJob
<1>. QED  BY <1>1 DEF IsJob

(* _cancel_job: queued runs are cancelled; the job is asked to stop, or     *)
(* gives up its clips.                                                      *)
LEMMA CancelActiveStep ==
    ASSUME TablesOK, NEW j \in Jobs, job[j].st # "none", CancelActiveJob(j)
    PROVE  StoreStep
<1>1. hand' = hand /\ runs' = CancelQueued(j)
  BY DEF CancelActiveJob
<1>2. RunsStep
  <2>1. RunsKept
    BY <1>1, RunField DEF CancelQueued, RunsKept, TablesOK, RunsOK
  <2>. QED  BY <2>1 DEF RunsStep
<1>3. JobStep
  <2>1. CASE RunsOf(j, {"running"}) # {}
    <3>. DEFINE v == [job[j] EXCEPT !.cancel = TRUE]
    <3>3. job' = [job EXCEPT ![j] = v] /\ UNCHANGED src
      BY <2>1 DEF CancelActiveJob
    <3>4. IsJob(v) /\ v.st = job[j].st
      BY JobField DEF TablesOK, JobsOK
    <3>. HIDE DEF v
    <3>. QED  BY <3>3, <3>4, JobChanged DEF Unheld
  <2>2. CASE RunsOf(j, {"running"}) = {}
    BY <2>2 DEF CancelActiveJob, JobStep
  <2>. QED  BY <2>1, <2>2
<1>. QED  BY <1>1, <1>2, <1>3 DEF StoreStep, HandoffStep

(* retry_job and operator_confirm_recovery: the job was failed, and still   *)
(* holds its clips.                                                         *)
LEMMA ReturnStep ==
    ASSUME TablesOK, NEW j \in Jobs, job[j].st = "failed", ReturnToStage(j)
    PROVE  StoreStep
<1>. DEFINE kind == runs[LastRun(j)].kind
            st == CASE kind = "tracking" -> "tracking"
                    [] kind = "postprocessing" -> "postprocessing"
                    [] OTHER -> "preparing"
            v == [st |-> st, fail |-> "none", cancel |-> FALSE, ref |-> 0]
<1>1. job' = [job EXCEPT ![j] = v] /\ UNCHANGED <<src, hand>> /\ EnqueueRun(j, kind, None, 0)
  BY DEF ReturnToStage
<1>2. st # "none"
  OBVIOUS
<1>. HIDE DEF st, kind
<1>3. IsJob(v) /\ v.st = st
  BY DEF IsJob
<1>. HIDE DEF v
<1>4. JobStep
  BY <1>1, <1>2, <1>3, JobChanged DEF Unheld
<1>5. job'[j].st # "none"
  BY <1>1, <1>2, <1>3 DEF TablesOK, JobsOK
<1>6. RunsStep
  BY <1>1, <1>5, Enqueued
<1>. QED  BY <1>1, <1>4, <1>6 DEF StoreStep, HandoffStep

(* start_tracking, asked for by a user or by a handoff.                     *)
LEMMA StartTrackingStep ==
    ASSUME TablesOK, NEW j \in Jobs, StartTracking(j)
    PROVE  JobStep /\ RunsStep
<1>1. ~Unheld(job[j])
  BY DEF StartTracking, TrackingReady, WaitingJob, Unheld
<1>2. job' = [job EXCEPT ![j].st = "tracking"] /\ src' = src
  BY DEF StartTracking
<1>3. JobsOK
  BY DEF TablesOK
<1>4. JobStep /\ job'[j].st = "tracking"
  BY ONLY <1>1, <1>2, <1>3, JobMoves, j \in Jobs
<1>5. EnqueueRun(j, "tracking", None, 0)
  BY DEF StartTracking
<1>. QED  BY <1>4, <1>5, Enqueued

(* create_job: the one step that takes clips, all of them free.             *)
LEMMA CreateJobStep ==
    ASSUME TablesOK, NEW j \in Jobs, CreateJob(j)
    PROVE  StoreStep
<1>1. JobStep
  BY DEF CreateJob, JobStep
<1>2. job'[j].st = "preparing"
  BY DEF CreateJob, TablesOK, JobsOK, IsJob
<1>3. RunsStep
  BY <1>2, Enqueued DEF CreateJob
<1>. QED  BY <1>1, <1>3 DEF StoreStep, HandoffStep, CreateJob

(* begin_postprocessing.                                                    *)
LEMMA BeginPostprocessingStep ==
    ASSUME TablesOK, NEW j \in Jobs, NEW t, BeginPostprocessing(j, t)
    PROVE  StoreStep
<1>1. JobStep /\ job'[j].st # "none"
  BY JobMoves DEF TablesOK, BeginPostprocessing, Unheld
<1>2. RunsStep
  BY <1>1, Enqueued DEF BeginPostprocessing
<1>. QED  BY <1>1, <1>2 DEF StoreStep, HandoffStep, BeginPostprocessing

(* The requests of annotators and navigation tasks.                         *)
LEMMA PipelineStep ==
    ASSUME TablesOK, PipelineRequest
    PROVE  StoreStep
<1>1. PICK j \in Jobs :
          \/ CreateJob(j) \/ RetryJob(j)
          \/ StartTracking(j) /\ UNCHANGED hand
          \/ CompleteNoTargets(j)
          \/ \E s \in Segs : SaveDraft(j, s) \/ SubmitSegment(j, s) \/ Reopen(j, s) \/ Skip(j, s)
                             \/ Unskip(j, s)
          \/ \E t \in Tasks : BeginPostprocessing(j, t)
  BY DEF PipelineRequest
<1>2. CASE CreateJob(j)
  BY <1>2, CreateJobStep
<1>3. CASE RetryJob(j)
  BY <1>3, ReturnStep DEF RetryJob
<1>4. CASE StartTracking(j) /\ UNCHANGED hand
  BY <1>4, StartTrackingStep DEF StoreStep, HandoffStep
<1>5. CASE CompleteNoTargets(j)
  BY <1>5, CancelActiveStep DEF CompleteNoTargets, WaitingJob
<1>6. ASSUME NEW s \in Segs, SaveDraft(j, s) \/ Reopen(j, s) \/ Skip(j, s) \/ Unskip(j, s)
      PROVE  StoreStep
  BY <1>6 DEF SaveDraft, Reopen, Skip, Unskip, StoreStep, JobStep, RunsStep, HandoffStep
<1>7. ASSUME NEW s \in Segs, SubmitSegment(j, s)
      PROVE  StoreStep
  <2>1. UNCHANGED <<job, src, runs>>
    BY <1>7 DEF SubmitSegment
  <2>2. hand' = hand \/ hand' = Append(hand, Handoff(j, "initial_annotation_submitted", None))
    BY <1>7 DEF SubmitSegment
  <2>3. HandoffStep
    BY <2>2, HandoffRow DEF HandoffStep
  <2>. QED  BY <2>1, <2>3 DEF StoreStep, JobStep, RunsStep
<1>8. ASSUME NEW t \in Tasks, BeginPostprocessing(j, t)
      PROVE  StoreStep
  BY <1>8, BeginPostprocessingStep
<1>. QED  BY <1>1, <1>2, <1>3, <1>4, <1>5, <1>6, <1>7, <1>8

(* The requests about reviews and releases.                                 *)
LEMMA ReviewStep ==
    ASSUME TablesOK, ReviewRequest
    PROVE  StoreStep \/ (Allowed("reset") /\ ResetUnreleasedDataset)
<1>1. CASE CreateDatasetRelease
  BY <1>1, NoStoreStep DEF CreateDatasetRelease
<1>2. ASSUME NEW j \in Jobs, NEW s \in Segs,
             CreateFixSession(j, s) \/ ApplyFixCommand(j, s) \/ ResumeReturnedReview(j, s)
      PROVE  StoreStep
  BY <1>2 DEF CreateFixSession, ApplyFixCommand, ResumeReturnedReview, StoreStep, JobStep, RunsStep,
              HandoffStep
<1>3. ASSUME NEW j \in Jobs, NEW s \in Segs,
             \/ CreateFixRevision(j, s) \/ RetryPublication(j, s)
             \/ \E k \in DOMAIN rev[j][s].fixes : ApproveFixRevision(j, s, k)
      PROVE  StoreStep
  <2>1. UNCHANGED <<job, src, hand>>
    BY <1>3 DEF CreateFixRevision, RetryPublication, ApproveFixRevision
  <2>2. \E kind \in ReviewRuns : \E d : EnqueueRun(j, kind, s, d)
    BY <1>3 DEF CreateFixRevision, RetryPublication, ApproveFixRevision, EnqueuePublication, ReviewRuns
  <2>3. RunsStep
    BY <2>2, Enqueued
  <2>. QED  BY <2>1, <2>3 DEF StoreStep, JobStep, HandoffStep
<1>4. ASSUME NEW j \in Jobs, NEW s \in Segs, NEW decision, DecideReview(j, s, decision)
      PROVE  StoreStep
  <2>1. UNCHANGED <<job, src, runs>>
    BY <1>4 DEF DecideReview
  <2>2. HandoffStep
    BY <1>4, HandoffRow DEF DecideReview
  <2>. QED  BY <2>1, <2>2 DEF StoreStep, JobStep, RunsStep
<1>5. ASSUME NEW j \in Jobs, NEW t \in Tasks, LinkProcessing(j, t)
      PROVE  StoreStep
  <2>1. UNCHANGED <<job, src, runs>>
    BY <1>5 DEF LinkProcessing
  <2>2. HandoffsKept
    <3>1. ASSUME NEW h \in DOMAIN hand
          PROVE  /\ IsHandoff([hand[h] EXCEPT !.task = t])
                 /\ [hand[h] EXCEPT !.task = t].job = hand[h].job
      <4>1. IsHandoff(hand[h])
        BY DEF TablesOK, HandoffsOK
      <4>2. [hand[h] EXCEPT !.task = t] =
               [job |-> hand[h].job, kind |-> hand[h].kind, seg |-> hand[h].seg, d |-> hand[h].d,
                used |-> hand[h].used, task |-> t]
        BY <4>1 DEF IsHandoff
      <4>. QED  BY <4>2 DEF IsHandoff
    <3>. QED  BY <1>5, <3>1 DEF LinkProcessing, HandoffsKept, TablesOK, HandoffsOK
  <2>. QED  BY <2>1, <2>2 DEF StoreStep, JobStep, RunsStep, HandoffStep
<1>6. ASSUME NEW j \in Jobs, NEW s \in Segs, NEW t \in Tasks, LinkFix(j, s, t)
      PROVE  StoreStep
  BY <1>6 DEF LinkFix, StoreStep, JobStep, RunsStep, HandoffStep
<1>. QED  BY <1>1, <1>2, <1>3, <1>4, <1>5, <1>6 DEF ReviewRequest

(* The end of a run as cancelled: whatever job it belongs to gives up its   *)
(* clips.                                                                   *)
LEMMA CancelledStep ==
    ASSUME TablesOK, NEW r \in DOMAIN runs, CompleteAsCancelled(r)
    PROVE  StoreStep
<1>1. runs[r].job \in Jobs
  BY DEF TablesOK, RunsOK
<1>2. JobStep
  BY <1>1 DEF CompleteAsCancelled, JobStep
<1>3. RunsStep
  BY RunStatus DEF CompleteAsCancelled, FinishRun, TablesOK
<1>. QED  BY <1>2, <1>3 DEF StoreStep, HandoffStep, CompleteAsCancelled

(* The failure of a run.                                                    *)
LEMMA FailRunStep ==
    ASSUME TablesOK, NEW r \in DOMAIN runs, NEW f, FailRun(r, f)
    PROVE  StoreStep
<1>. DEFINE j == runs[r].job
<1>1. j \in Jobs /\ IsRun(runs[r]) /\ IsJob(job[j])
  BY DEF TablesOK, RunsOK, JobsOK
<1>2. CASE CancelWins(r, f)
  <2>. DEFINE mid == [runs[r] EXCEPT !.st = "cancelled"]
              x == IF mid.step = "started" THEN "failed" ELSE mid.step
  <2>1. runs' = [runs EXCEPT ![r] = [mid EXCEPT !.step = x]]
    BY <1>2 DEF FailRun
  <2>2. IsRun(mid) /\ mid.job = runs[r].job /\ mid.kind = runs[r].kind
    BY <1>1, RunField
  <2>. HIDE DEF mid, x
  <2>3. RunsStep
    BY <2>1, <2>2, RunField, RunChanged DEF TablesOK
  <2>4. FinalizeCancelledJob(j) /\ hand' = hand
    BY <1>2 DEF FailRun
  <2>. QED  BY <1>1, <2>3, <2>4 DEF StoreStep, JobStep, HandoffStep
<1>3. CASE ~CancelWins(r, f) /\ AlreadyDecided(r)
  BY <1>3, NoStoreStep DEF FailRun
<1>4. CASE ~CancelWins(r, f) /\ ~AlreadyDecided(r)
  <2>1. RunsStep
    <3>. DEFINE mid == [runs[r] EXCEPT !.st = "failed"]
    <3>1. runs' = [runs EXCEPT ![r] = [mid EXCEPT !.fail = f]]
      BY <1>4 DEF FailRun, FailedRun
    <3>2. IsRun(mid) /\ mid.job = runs[r].job /\ mid.kind = runs[r].kind
      BY <1>1, RunField
    <3>. HIDE DEF mid
    <3>. QED  BY <3>1, <3>2, RunField, RunChanged DEF TablesOK
  <2>2. src' = src
    BY <1>4 DEF FailRun
  <2>3. CASE runs[r].kind \in ReviewRuns \/ job[j].st = "cancelled"
    <3>1. UNCHANGED <<job, hand>>
      BY <1>4, <2>3 DEF FailRun, FailJobOf, ReviewRuns
    <3>. QED  BY <2>1, <2>2, <3>1 DEF StoreStep, JobStep, HandoffStep
  <2>4. CASE runs[r].kind \notin ReviewRuns /\ job[j].st # "cancelled"
    <3>1. ~Unheld(job[j])
      BY <2>4 DEF TablesOK, RunsOK, Unheld
    <3>2. FailJobOf(r, f)
      BY <1>4, <2>4 DEF FailRun, ReviewRuns
    <3>. DEFINE v == [st |-> "failed", fail |-> f, cancel |-> job[j].cancel, ref |-> r]
                a == [job[j] EXCEPT !.st = "failed"]
                b == [a EXCEPT !.fail = f]
    <3>3. job' = [job EXCEPT ![j] = [b EXCEPT !.ref = r]]
      BY <2>4, <3>2 DEF FailJobOf
    <3>4. a = [st |-> "failed", fail |-> job[j].fail, cancel |-> job[j].cancel, ref |-> job[j].ref]
      BY <1>1 DEF IsJob
    <3>. HIDE DEF a
    <3>5. b = [st |-> "failed", fail |-> f, cancel |-> job[j].cancel, ref |-> job[j].ref]
      BY <3>4
    <3>. HIDE DEF b
    <3>6. [b EXCEPT !.ref = r] = v
      BY <3>5
    <3>7. IsJob(v) /\ v.st = "failed"
      BY DEF IsJob
    <3>. HIDE DEF v
    <3>8. JobStep
      BY <1>1, <2>2, <3>1, <3>3, <3>6, <3>7, JobChanged
    <3>9. hand' = hand \/ hand' = Append(hand, Handoff(j, "postprocessing_failed", None))
      BY <2>4, <3>2 DEF FailJobOf
    <3>10. HandoffStep
      BY <1>1, <3>9, HandoffRow DEF HandoffStep
    <3>. QED  BY <2>1, <3>8, <3>10 DEF StoreStep
  <2>. QED  BY <2>3, <2>4
<1>. QED  BY <1>2, <1>3, <1>4

(* The completions: the job of a completed run was at work, so it holds its *)
(* clips; those of a Fix or a publication leave their job alone.            *)
LEMMA CompletionStep ==
    ASSUME TablesOK, cur \in DOMAIN runs, CompletionOf(cur)
    PROVE  StoreStep
<1>. DEFINE j == runs[cur].job
<1>1. j \in Jobs
  BY DEF TablesOK, RunsOK
<1>2. ASSUME NEW x, FinishRun(cur, x)
      PROVE  RunsStep
  BY <1>2, RunStatus DEF FinishRun, TablesOK
<1>3. ASSUME NEW S \in SUBSET Segs, CompletePrepare(cur, S)
      PROVE  StoreStep
  <2>1. RunsStep
    BY <1>2, <1>3 DEF CompletePrepare
  <2>2. ~Unheld(job[j]) /\ job' = [job EXCEPT ![j].st = "waiting_initial_annotation"] /\ UNCHANGED <<src, hand>>
    BY <1>3 DEF CompletePrepare, Unheld
  <2>3. JobStep
    BY <1>1, <2>2, JobMoves DEF TablesOK
  <2>. QED  BY <2>1, <2>2, <2>3 DEF StoreStep, HandoffStep
<1>4. CASE CompleteTracking(cur)
  <2>1. RunsStep
    BY <1>2, <1>4 DEF CompleteTracking
  <2>2. ~Unheld(job[j]) /\ job' = [job EXCEPT ![j].st = "tracked"] /\ UNCHANGED src
    BY <1>4 DEF CompleteTracking, Unheld
  <2>3. JobStep
    BY <1>1, <2>2, JobMoves DEF TablesOK
  <2>4. HandoffStep
    BY <1>1, <1>4, HandoffRow DEF CompleteTracking
  <2>. QED  BY <2>1, <2>3, <2>4 DEF StoreStep
<1>5. CASE CompletePostprocessing(cur)
  <2>1. RunsStep
    BY <1>2, <1>5 DEF CompletePostprocessing
  <2>2. ~Unheld(job[j]) /\ job' = [job EXCEPT ![j].st = "annotated"] /\ UNCHANGED src
    BY <1>5 DEF CompletePostprocessing, Unheld
  <2>3. JobStep
    BY <1>1, <2>2, JobMoves DEF TablesOK
  <2>4. HandoffStep
    BY <1>1, <1>5, HandoffRow DEF CompletePostprocessing
  <2>. QED  BY <2>1, <2>3, <2>4 DEF StoreStep
<1>6. CASE CompleteFixRun(cur) \/ CompletePublication(cur)
  <2>1. RunsStep
    BY <1>2, <1>6 DEF CompleteFixRun, CompletePublication
  <2>2. UNCHANGED <<job, src>>
    BY <1>6 DEF CompleteFixRun, CompletePublication
  <2>3. HandoffStep
    BY <1>1, <1>6, HandoffRow DEF CompleteFixRun, CompletePublication
  <2>. QED  BY <2>1, <2>2, <2>3 DEF StoreStep, JobStep
<1>. QED  BY <1>3, <1>4, <1>5, <1>6 DEF CompletionOf

(* A step of a run that is recorded in its row only.                        *)
LEMMA RunRowStep ==
    ASSUME TablesOK, NEW r,
           \/ StartStep(r) \/ FailActiveStep(r) \/ FinishStep(r, TRUE) \/ BeginPublication(r)
           \/ ClaimNextRun(r)
    PROVE  StoreStep
<1>1. UNCHANGED <<job, src, hand>>
  BY DEF StartStep, FailActiveStep, FinishStep, BeginPublication, ClaimNextRun
<1>2. CASE StartStep(r) \/ FailActiveStep(r) \/ FinishStep(r, TRUE) \/ ClaimNextRun(r)
  BY <1>1, <1>2, RunStatus
     DEF StartStep, FailActiveStep, FinishStep, ClaimNextRun, TablesOK, StoreStep, JobStep, HandoffStep
<1>3. CASE BeginPublication(r)
  <2>. DEFINE mid == [runs[r] EXCEPT !.fence = TRUE]
  <2>1. runs' = [runs EXCEPT ![r] = [mid EXCEPT !.step = "started"]] /\ r \in DOMAIN runs
    BY <1>3 DEF BeginPublication, Running
  <2>2. IsRun(mid) /\ mid.job = runs[r].job /\ mid.kind = runs[r].kind
    BY <2>1, RunField DEF TablesOK, RunsOK
  <2>. HIDE DEF mid
  <2>3. RunsStep
    BY <2>1, <2>2, RunField, RunChanged DEF TablesOK
  <2>. QED  BY <1>1, <2>3 DEF StoreStep, JobStep, HandoffStep
<1>. QED  BY <1>2, <1>3

(* The transactions of the Worker.                                          *)
LEMMA WorkerStoreStep ==
    ASSUME TablesOK, WorkerStep
    PROVE  StoreStep
<1>1. UNCHANGED storeVars => StoreStep
  BY NoStoreStep
<1>2. UNCHANGED <<job, src, runs, hand>> => StoreStep
  BY DEF StoreStep, JobStep, RunsStep, HandoffStep
<1>3. pc # "idle" => cur \in DOMAIN runs
  BY DEF TablesOK, PlacesOK
<1>4. CASE Stop \/ HeartbeatCheck \/ HeartbeatRenew \/ HeartbeatRecheck \/ HeartbeatFails \/ LeaseExpires
  BY <1>1, <1>2, <1>4
     DEF Stop, HeartbeatCheck, HeartbeatRenew, RenewLease, HeartbeatRecheck, HeartbeatFails, LeaseExpires
<1>5. CASE Recover
  <2>1. PICK r \in Interrupted : FailRun(r, "recovery_required")
    BY <1>5 DEF Recover, RecoverInterrupted
  <2>2. r \in DOMAIN runs
    BY DEF Interrupted
  <2>. QED  BY <2>1, <2>2, FailRunStep
<1>6. CASE Claim
  BY <1>6, RunRowStep DEF Claim
<1>7. CASE Execute \/ Capacity \/ NextTarget \/ Bind \/ EnterLock \/ WorkDone \/ WorkFails \/ Finished
  BY <1>1, <1>7 DEF Execute, Capacity, NextTarget, Bind, EnterLock, WorkDone, WorkFails, Finished
<1>8. CASE SetupTracking \/ Failing \/ Fence \/ Publish
  BY <1>1, <1>8, RunRowStep DEF SetupTracking, Failing, Fence, Publish
<1>9. CASE Record
  BY <1>1, <1>2, <1>9 DEF Record, RecordCheckpoint
<1>10. CASE Closing
  BY <1>3, <1>10, RunRowStep, CompletionStep, CancelledStep DEF Closing, At
<1>11. CASE PrepareRejected \/ Fail
  BY <1>3, <1>11, FailRunStep DEF PrepareRejected, Fail, At
<1>12. CASE Settle
  BY <1>1, <1>3, <1>12, CancelledStep DEF Settle, At, CompleteCancelledRun
<1>. QED
  BY <1>4, <1>5, <1>6, <1>7, <1>8, <1>9, <1>10, <1>11, <1>12 DEF WorkerStep

(* A delivery changes its handoff in place.                                 *)
LEMMA HandoffField ==
    ASSUME NEW v, IsHandoff(v), NEW x
    PROVE  /\ IsHandoff([v EXCEPT !.d = x]) /\ [v EXCEPT !.d = x].job = v.job
           /\ IsHandoff([v EXCEPT !.used = x]) /\ [v EXCEPT !.used = x].job = v.job
<1>1. /\ [v EXCEPT !.d = x] = [job |-> v.job, kind |-> v.kind, seg |-> v.seg, d |-> x,
                               used |-> v.used, task |-> v.task]
      /\ [v EXCEPT !.used = x] = [job |-> v.job, kind |-> v.kind, seg |-> v.seg, d |-> v.d,
                                  used |-> x, task |-> v.task]
  BY DEF IsHandoff
<1>. QED  BY <1>1 DEF IsHandoff

(* One column of a handoff is written.                                      *)
LEMMA HandoffChanged ==
    ASSUME HandoffsOK, NEW h, NEW x,
           \/ hand' = [hand EXCEPT ![h].d = x]
           \/ hand' = [hand EXCEPT ![h].used = x]
    PROVE  HandoffStep
<1>1. \A i \in DOMAIN hand : IsHandoff(hand[i])
  BY DEF HandoffsOK
<1>2. ASSUME NEW v, hand' = [hand EXCEPT ![h] = v],
             h \in DOMAIN hand => IsHandoff(v) /\ v.job = hand[h].job
      PROVE  HandoffStep
  BY <1>1, <1>2 DEF HandoffStep, HandoffsKept
<1>3. CASE hand' = [hand EXCEPT ![h] = [hand[h] EXCEPT !.d = x]]
  BY <1>1, <1>2, <1>3, HandoffField
<1>4. CASE hand' = [hand EXCEPT ![h] = [hand[h] EXCEPT !.used = x]]
  BY <1>1, <1>2, <1>4, HandoffField
<1>. QED  BY <1>3, <1>4

(* The coordinator.  A handoff may start tracking for its job.              *)
LEMMA DeliveryStoreStep ==
    ASSUME TablesOK, DeliveryStarts \/ DeliveryTracks \/ DeliveryStep \/ DeliverySettles
    PROVE  StoreStep
<1>1. CASE DeliveryStarts \/ DeliverySettles
  <2>1. UNCHANGED <<job, src, runs>>
    BY <1>1 DEF DeliveryStarts, DeliverySettles, ClaimHandoff, SettleHandoff
  <2>2. \E h, x : hand' = [hand EXCEPT ![h].d = x]
    BY <1>1 DEF DeliveryStarts, DeliverySettles, ClaimHandoff, SettleHandoff
  <2>3. HandoffStep
    BY <2>2, HandoffChanged DEF TablesOK
  <2>. QED  BY <2>1, <2>3 DEF StoreStep, JobStep, RunsStep
<1>2. CASE DeliveryTracks /\ AutoTracking(deliv)
  <2>1. hand[deliv].job \in Jobs
    BY <1>2 DEF DeliveryTracks, TablesOK, PlacesOK, HandoffsOK
  <2>2. JobStep /\ RunsStep
    BY <1>2, <2>1, StartTrackingStep DEF AutoTracking
  <2>3. HandoffStep
    BY <1>2, HandoffChanged DEF AutoTracking, TablesOK
  <2>. QED  BY <2>2, <2>3 DEF StoreStep
<1>3. CASE DeliveryTracks /\ ~AutoTracking(deliv)
  BY <1>3, NoStoreStep DEF DeliveryTracks
<1>4. CASE DeliveryStep
  BY <1>4, NoStoreStep DEF DeliveryStep
<1>. QED  BY <1>1, <1>2, <1>3, <1>4

(* Every step is a step of the tables, and of the places that point to them.*)
LEMMA EveryStoreStep ==
    ASSUME TablesOK, [Next]_vars
    PROVE  StoreStep \/ (Allowed("reset") /\ ResetUnreleasedDataset)
<1>1. UNCHANGED storeVars => StoreStep
  BY NoStoreStep
<1>2. CASE PipelineRequest \/ ReviewRequest
  BY <1>2, PipelineStep, ReviewStep
<1>3. ASSUME NEW j \in Jobs, CancelCommit(j)
      PROVE  StoreStep
  BY <1>3, CancelActiveStep DEF CancelCommit, CancelJob
<1>4. ASSUME NEW j \in Jobs, CancelOwns(j) \/ CancelTold(j)
      PROVE  StoreStep
  BY <1>1, <1>4 DEF CancelOwns, CancelTold
<1>5. ASSUME NEW j \in Jobs, OpConfirm(j)
      PROVE  StoreStep
  BY <1>5, ReturnStep, CancelActiveStep DEF OpConfirm, Confirmable
<1>6. CASE DeliveryStarts \/ DeliveryTracks \/ DeliveryStep \/ DeliverySettles
  BY <1>6, DeliveryStoreStep
<1>7. CASE NavigationWrites \/ OrphanEnds \/ OpRecord \/ OpComplete \/ OpUnlink \/ OpDies \/ OpReplay
  BY <1>1, <1>7 DEF NavigationWrites, OrphanEnds, OpRecord, OpComplete, OpUnlink, OpDies, OpReplay
<1>8. CASE WorkerStep
  BY <1>8, WorkerStoreStep
<1>9. CASE ServiceEnds
  <2>1. Ended
    BY <1>9 DEF ServiceEnds, ShutDown, Crash
  <2>2. UNCHANGED <<job, src, runs>>
    BY <2>1 DEF Ended
  <2>3. HandoffsKept
    <3>1. \A h \in DOMAIN hand : IsHandoff(hand[h])
      BY DEF TablesOK, HandoffsOK
    <3>2. ASSUME NEW h \in DOMAIN hand
          PROVE  /\ IsHandoff([hand[h] EXCEPT !.d = "expired"])
                 /\ [hand[h] EXCEPT !.d = "expired"].job = hand[h].job
      BY <3>1, HandoffField
    <3>. QED  BY <2>1, <3>1, <3>2 DEF Ended, HandoffsKept
  <2>. QED  BY <2>2, <2>3 DEF StoreStep, JobStep, RunsStep, HandoffStep
<1>10. CASE ServiceStarts
  BY <1>1, <1>10 DEF ServiceStarts, Restart
<1>11. CASE UNCHANGED vars
  BY <1>1, <1>11 DEF vars
<1>. QED
  BY <1>2, <1>3, <1>4, <1>5, <1>6, <1>7, <1>8, <1>9, <1>10, <1>11 DEF Next

(* The Worker leaves the idle state for a run it has claimed,               *)
LEMMA WorkerPlaceStep ==
    ASSUME WorkerStep
    PROVE  PlaceStep
<1>1. UNCHANGED <<deliv, dpc>>
  BY DEF WorkerStep, hostVars
<1>2. UNCHANGED <<pc, cur>> => PlaceStep
  BY <1>1 DEF PlaceStep
<1>3. pc # "idle" /\ cur' = cur => PlaceStep
  BY <1>1 DEF PlaceStep
<1>4. CASE Stop \/ HeartbeatCheck \/ HeartbeatRenew \/ HeartbeatRecheck \/ HeartbeatFails
           \/ LeaseExpires \/ Recover
  BY <1>2, <1>4 DEF Stop, HeartbeatCheck, HeartbeatRenew, HeartbeatRecheck, HeartbeatFails,
                    LeaseExpires, Recover, workerVars
<1>5. CASE Claim
  BY <1>1, <1>5 DEF Claim, PlaceStep
<1>6. CASE Execute \/ Capacity \/ SetupTracking \/ NextTarget \/ Bind \/ EnterLock \/ WorkDone \/ WorkFails
  BY <1>3, <1>6 DEF Execute, Capacity, SetupTracking, NextTarget, Bind, EnterLock, WorkDone, WorkFails, At
<1>7. CASE Record \/ Fence \/ Publish \/ Closing \/ PrepareRejected \/ Failing \/ Settle \/ Fail
  BY <1>3, <1>7 DEF Record, Fence, Publish, Closing, PrepareRejected, Failing, Settle, Fail, At
<1>8. CASE Finished
  BY <1>1, <1>8 DEF Finished, Goto, PlaceStep
<1>. QED  BY <1>4, <1>5, <1>6, <1>7, <1>8 DEF WorkerStep

(* and the coordinator for a handoff it has claimed.                        *)
LEMMA EveryPlaceStep ==
    ASSUME [Next]_vars
    PROVE  PlaceStep
<1>1. UNCHANGED <<workerVars, hostVars>> => PlaceStep
  BY DEF workerVars, hostVars, PlaceStep
<1>2. UNCHANGED <<workerVars, deliv, dpc>> => PlaceStep
  BY DEF workerVars, PlaceStep
<1>3. CASE PipelineRequest \/ ReviewRequest \/ NavigationWrites \/ OrphanEnds
  BY <1>1, <1>3 DEF PipelineRequest, ReviewRequest, NavigationWrites, OrphanEnds
<1>4. ASSUME NEW j \in Jobs, CancelCommit(j) \/ CancelOwns(j) \/ CancelTold(j) \/ OpConfirm(j)
      PROVE  PlaceStep
  <2>1. UNCHANGED <<pc, cur, deliv, dpc>>
    BY <1>4 DEF CancelCommit, CancelOwns, CancelTold, OpConfirm, workerVars, hostVars
  <2>. QED  BY <2>1 DEF PlaceStep
<1>5. CASE DeliveryStarts \/ DeliveryTracks \/ DeliveryStep \/ DeliverySettles
  <2>1. UNCHANGED <<pc, cur>>
    BY <1>5 DEF DeliveryStarts, DeliveryTracks, DeliveryStep, DeliverySettles, workerVars
  <2>2. dpc' # "track" \/ deliv' \in DOMAIN hand
    BY <1>5 DEF DeliveryStarts, DeliveryTracks, DeliveryStep, DeliverySettles
  <2>. QED  BY <2>1, <2>2 DEF PlaceStep
<1>6. CASE OpRecord \/ OpComplete \/ OpUnlink \/ OpDies \/ OpReplay
  BY <1>2, <1>6 DEF OpRecord, OpComplete, OpUnlink, OpDies, OpReplay
<1>7. CASE WorkerStep
  BY <1>7, WorkerPlaceStep
<1>8. CASE ServiceEnds
  <2>1. pc' = "idle" /\ dpc' = "idle"
    BY <1>8 DEF ServiceEnds, ShutDown, Crash, Ended
  <2>. QED  BY <2>1 DEF PlaceStep
<1>9. CASE ServiceStarts
  <2>1. UNCHANGED <<pc, cur, deliv, dpc>>
    BY <1>9 DEF ServiceStarts, Restart, hostVars
  <2>. QED  BY <2>1 DEF PlaceStep
<1>10. CASE UNCHANGED vars
  BY <1>1, <1>10 DEF vars
<1>. QED
  BY <1>3, <1>4, <1>5, <1>6, <1>7, <1>8, <1>9, <1>10 DEF Next

(* An empty ledger satisfies the invariant.                                 *)
LEMMA ClipsInitially == Init => ClipsInv
<1>. SUFFICES ASSUME Init PROVE ClipsInv
  OBVIOUS
<1>1. JobsOK /\ ActiveJobOwnsClips
  BY DEF Init, StoreInit, JobsOK, IsJob, ActiveJobOwnsClips
<1>2. runs = <<>> /\ hand = <<>> /\ pc = "idle" /\ dpc = "idle"
  BY DEF Init, StoreInit, WorkerInit
<1>3. IsSequence(<<>>) /\ DOMAIN <<>> = {}
  BY DEF IsSequence
<1>4. RunsOK /\ HandoffsOK /\ PlacesOK
  BY <1>2, <1>3 DEF RunsOK, HandoffsOK, PlacesOK
<1>. QED  BY <1>1, <1>4 DEF ClipsInv, TablesOK

(* The tables keep their rows in every step; a reset only frees clips.      *)
LEMMA TablesKept ==
    ASSUME TablesOK, [Next]_vars
    PROVE  TablesOK'
<1>1. CASE StoreStep
  BY <1>1, EveryPlaceStep, TablesStep
<1>2. CASE ResetUnreleasedDataset
  <2>1. UNCHANGED <<job, runs, hand>> /\ src' \in [Clips -> Jobs \cup {None}]
    BY <1>2 DEF ResetUnreleasedDataset
  <2>2. JobsOK' /\ RunsOK' /\ HandoffsOK'
    BY <2>1 DEF TablesOK, JobsOK, RunsOK, HandoffsOK
  <2>3. PlacesOK'
    BY <2>1, EveryPlaceStep DEF TablesOK, PlaceStep, PlacesOK
  <2>. QED  BY <2>2, <2>3 DEF TablesOK
<1>. QED  BY <1>1, <1>2, EveryStoreStep

(* Two jobs never work on one clip: a job that is under way, finished or    *)
(* failed holds the source lease of every clip it selected, through         *)
(* cancellation, retry, crash, recovery and the operator's decisions, for   *)
(* any jobs that share any clips (store.py create_job,                      *)
(* _finalize_cancelled_job).  The hypothesis says that nobody asks for a    *)
(* dataset reset, which takes the leases of finished and failed jobs away.  *)
THEOREM ActiveJobsOwnClips ==
    ASSUME "reset" \notin UserOps
    PROVE  Spec => []ActiveJobOwnsClips
<1>1. ClipsInv /\ [Next]_vars => ClipsInv'
  BY EveryStoreStep, EveryPlaceStep, TablesStep DEF ClipsInv, Allowed
<1>2. ClipsInv => ActiveJobOwnsClips
  BY DEF ClipsInv
<1>. QED  BY ClipsInitially, <1>1, <1>2, PTL DEF Spec

-----------------------------------------------------------------------------
(* The ledger: its transactions and the invariants they keep.               *)
ledgerVars == <<job, seg, src, ckpt, runs, rev, released>>

(* A job of the pipeline is created, returned to its stage, moved to the    *)
(* next stage or cancelled.  Nobody but the operator touches a job that     *)
(* waits for a recovery, while the service is down.                         *)
Decided(j) ==
    job[j].st = "failed" /\ job[j].fail = "recovery_required" => ~up /\ job[j].ref \in covered
JobTransaction(j) ==
    \/ CreateJob(j)
    \/ job[j].st = "failed" /\ Decided(j) /\ ReturnToStage(j)
    \/ StartTracking(j)
    \/ job[j].st \notin {"none", "tracked", "annotated", "cancelled"} /\ Decided(j) /\ CancelActiveJob(j)
    \/ \E t \in Tasks : BeginPostprocessing(j, t)

SegmentTransaction(j, s) ==
    SaveDraft(j, s) \/ SubmitSegment(j, s) \/ Reopen(j, s) \/ Skip(j, s) \/ Unskip(j, s)

ReviewTransaction(j, s) ==
    \/ CreateFixSession(j, s) \/ ApplyFixCommand(j, s) \/ CreateFixRevision(j, s)
    \/ ResumeReturnedReview(j, s)
    \/ \E decision \in {"returned", "discarded"} : DecideReview(j, s, decision)
    \/ \E k \in DOMAIN rev[j][s].fixes : ApproveFixRevision(j, s, k)
    \/ RetryPublication(j, s)
    \/ \E t \in Tasks : LinkFix(j, s, t)

(* Requests, deliveries and the end of the process.                         *)
OutsideTransaction ==
    \/ UNCHANGED ledgerVars
    \/ \E j \in Jobs : JobTransaction(j) /\ UNCHANGED released
    \/ \E j \in Jobs, s \in Segs : SegmentTransaction(j, s) /\ UNCHANGED released
    \/ \E j \in Jobs, s \in Segs : ReviewTransaction(j, s)
    \/ CreateDatasetRelease
    \/ ResetUnreleasedDataset

(* The Worker settles a run only while it is running.                       *)
RunTransaction(r) ==
    \/ ClaimNextRun(r) \/ StartStep(r) \/ FinishStep(r, TRUE) \/ FailActiveStep(r)
    \/ BeginPublication(r)
    \/ CompleteAsCancelled(r)
    \/ Running(r) /\ \E f : FailRun(r, f)
    \/ runs[r].kind = "prepare" /\ \E S \in SUBSET Segs : CompletePrepare(r, S)
    \/ runs[r].kind = "tracking" /\ CompleteTracking(r)
    \/ CompletePostprocessing(r) \/ CompleteFixRun(r) \/ CompletePublication(r)
    \/ RecordCheckpoint(r, cseg, SubmittedContent(runs[r].job, cseg))
WorkerTransaction ==
    /\ UNCHANGED released
    /\ \/ UNCHANGED ledgerVars /\ UNCHANGED hand
       \/ \E r \in DOMAIN runs : RunTransaction(r)

WorkerRuns == pc \notin {"idle", "done"} => Running(cur)

-----------------------------------------------------------------------------
(* Every step is a transaction.                                             *)

(* The requests of annotators and navigation tasks.                         *)
LEMMA PipelineTransaction ==
    ASSUME PipelineRequest
    PROVE  OutsideTransaction
<1>1. PICK j \in Jobs :
          \/ CreateJob(j) \/ RetryJob(j) \/ StartTracking(j) \/ CompleteNoTargets(j)
          \/ \E s \in Segs : SegmentTransaction(j, s)
          \/ \E t \in Tasks : BeginPostprocessing(j, t)
  BY DEF PipelineRequest, SegmentTransaction
<1>2. UNCHANGED released
  BY DEF PipelineRequest, reviewVars
<1>3. CASE CreateJob(j) \/ StartTracking(j) \/ \E t \in Tasks : BeginPostprocessing(j, t)
  BY <1>2, <1>3 DEF OutsideTransaction, JobTransaction
<1>4. CASE RetryJob(j)
  <2>1. job[j].st = "failed" /\ Decided(j) /\ ReturnToStage(j)
    BY <1>4 DEF RetryJob, Decided
  <2>. QED  BY <1>2, <2>1 DEF OutsideTransaction, JobTransaction
<1>5. CASE CompleteNoTargets(j)
  <2>1. job[j].st = "waiting_initial_annotation" /\ Decided(j) /\ CancelActiveJob(j)
    BY <1>5 DEF CompleteNoTargets, WaitingJob, Decided
  <2>. QED  BY <1>2, <2>1 DEF OutsideTransaction, JobTransaction
<1>6. CASE \E s \in Segs : SegmentTransaction(j, s)
  BY <1>2, <1>6 DEF OutsideTransaction
<1>. QED  BY <1>1, <1>3, <1>4, <1>5, <1>6

(* Everything but the steps of the Worker.  The process may end.            *)
LEMMA OutsideStep ==
    ASSUME TablesOK, [Next]_vars, ~WorkerStep
    PROVE  OutsideTransaction /\ (UNCHANGED <<pc, cur>> \/ pc' = "idle")
<1>1. UNCHANGED <<storeVars, reviewVars>> => OutsideTransaction
  BY DEF OutsideTransaction, ledgerVars, storeVars, reviewVars
<1>2. UNCHANGED workerVars => UNCHANGED <<pc, cur>>
  BY DEF workerVars
<1>3. CASE PipelineRequest
  BY <1>2, <1>3, PipelineTransaction DEF PipelineRequest
<1>4. CASE ReviewRequest
  <2>1. ASSUME NEW j \in Jobs, NEW t \in Tasks, LinkProcessing(j, t)
        PROVE  OutsideTransaction
    BY <2>1 DEF LinkProcessing, OutsideTransaction, ledgerVars
  <2>2. \/ \E j \in Jobs, s \in Segs : ReviewTransaction(j, s)
        \/ CreateDatasetRelease \/ ResetUnreleasedDataset
        \/ \E j \in Jobs, t \in Tasks : LinkProcessing(j, t)
    BY <1>4 DEF ReviewRequest, ReviewTransaction
  <2>3. OutsideTransaction
    BY <2>1, <2>2 DEF OutsideTransaction
  <2>. QED  BY <1>2, <1>4, <2>3 DEF ReviewRequest
<1>5. ASSUME NEW j \in Jobs, CancelCommit(j)
      PROVE  OutsideTransaction /\ UNCHANGED <<pc, cur>>
  <2>1. /\ job[j].st \notin {"none", "tracked", "annotated", "cancelled"}
        /\ Decided(j) /\ CancelActiveJob(j) /\ UNCHANGED released /\ UNCHANGED workerVars
    BY <1>5 DEF CancelCommit, CancelJob, Decided, reviewVars
  <2>. QED  BY <1>2, <2>1 DEF OutsideTransaction, JobTransaction
<1>6. ASSUME NEW j \in Jobs, CancelOwns(j) \/ CancelTold(j)
      PROVE  OutsideTransaction /\ UNCHANGED <<pc, cur>>
  BY <1>1, <1>2, <1>6 DEF CancelOwns, CancelTold
<1>7. ASSUME NEW j \in Jobs, OpConfirm(j)
      PROVE  OutsideTransaction /\ UNCHANGED <<pc, cur>>
  <2>1. /\ job[j].st = "failed" /\ Decided(j) /\ UNCHANGED released /\ UNCHANGED workerVars
        /\ ReturnToStage(j) \/ CancelActiveJob(j)
    BY <1>7 DEF OpConfirm, Confirmable, Decided, reviewVars
  <2>. QED  BY <1>2, <2>1 DEF OutsideTransaction, JobTransaction
<1>8. CASE DeliveryStarts \/ DeliverySettles
  <2>1. UNCHANGED ledgerVars
    BY <1>8 DEF DeliveryStarts, DeliverySettles, ClaimHandoff, SettleHandoff, ledgerVars
  <2>. QED  BY <1>2, <1>8, <2>1 DEF OutsideTransaction, DeliveryStarts, DeliverySettles
<1>9. CASE DeliveryTracks /\ AutoTracking(deliv)
  <2>1. StartTracking(hand[deliv].job) /\ UNCHANGED released
    BY <1>9 DEF AutoTracking, reviewVars
  <2>2. hand[deliv].job \in Jobs
    BY <1>9 DEF DeliveryTracks, TablesOK, PlacesOK, HandoffsOK
  <2>. QED  BY <1>2, <1>9, <2>1, <2>2 DEF OutsideTransaction, JobTransaction, DeliveryTracks
<1>10. CASE (DeliveryTracks /\ ~AutoTracking(deliv)) \/ DeliveryStep
  BY <1>1, <1>2, <1>10 DEF DeliveryTracks, DeliveryStep
<1>11. CASE NavigationWrites \/ OrphanEnds \/ OpRecord \/ OpComplete \/ OpUnlink \/ OpDies \/ OpReplay
  BY <1>1, <1>2, <1>11 DEF NavigationWrites, OrphanEnds, OpRecord, OpComplete, OpUnlink, OpDies, OpReplay
<1>12. CASE ServiceEnds
  BY <1>12 DEF ServiceEnds, ShutDown, Crash, Ended, reviewVars, OutsideTransaction, ledgerVars
<1>13. CASE ServiceStarts
  BY <1>1, <1>13 DEF ServiceStarts, Restart
<1>14. CASE UNCHANGED vars
  BY <1>1, <1>2, <1>14 DEF vars
<1>. QED
  BY <1>3, <1>4, <1>5, <1>6, <1>7, <1>8, <1>9, <1>10, <1>11, <1>12, <1>13, <1>14 DEF Next

(* The steps of the Worker.                                                 *)
LEMMA WorkerTransacts ==
    ASSUME WorkerRuns, WorkerStep
    PROVE  WorkerTransaction
<1>0. UNCHANGED released
  BY DEF WorkerStep, reviewVars
<1>1. UNCHANGED storeVars => WorkerTransaction
  BY <1>0 DEF WorkerTransaction, ledgerVars, storeVars
<1>2. ASSUME NEW r \in DOMAIN runs, RunTransaction(r)
      PROVE  WorkerTransaction
  BY <1>0, <1>2 DEF WorkerTransaction
<1>3. \A p : At(p) /\ p \notin {"idle", "done"} => cur \in DOMAIN runs /\ Running(cur)
  BY DEF At, WorkerRuns, Running
<1>4. CASE Stop \/ HeartbeatCheck \/ HeartbeatRenew \/ HeartbeatRecheck \/ HeartbeatFails \/ LeaseExpires
  BY <1>0, <1>1, <1>4
     DEF Stop, HeartbeatCheck, HeartbeatRenew, RenewLease, HeartbeatRecheck, HeartbeatFails, LeaseExpires,
         WorkerTransaction, ledgerVars
<1>5. CASE Recover
  <2>1. PICK r \in Interrupted : FailRun(r, "recovery_required")
    BY <1>5 DEF Recover, RecoverInterrupted
  <2>2. r \in DOMAIN runs /\ Running(r)
    BY DEF Interrupted, Running
  <2>. QED  BY <1>2, <2>1, <2>2 DEF RunTransaction
<1>6. CASE Claim
  BY <1>2, <1>6 DEF Claim, RunTransaction
<1>7. CASE Execute \/ Capacity \/ NextTarget \/ Bind \/ EnterLock \/ WorkDone \/ WorkFails \/ Finished
  BY <1>1, <1>7 DEF Execute, Capacity, NextTarget, Bind, EnterLock, WorkDone, WorkFails, Finished
<1>8. CASE SetupTracking
  BY <1>1, <1>2, <1>3, <1>8 DEF SetupTracking, RunTransaction
<1>9. CASE Failing
  BY <1>2, <1>3, <1>9 DEF Failing, RunTransaction
<1>10. CASE Fence
  BY <1>1, <1>2, <1>3, <1>10 DEF Fence, RunTransaction
<1>11. CASE Publish
  BY <1>1, <1>2, <1>3, <1>11 DEF Publish, RunTransaction
<1>12. CASE Record
  BY <1>1, <1>2, <1>3, <1>12 DEF Record, CurJob, RunTransaction
<1>13. CASE Closing
  <2>1. cur \in DOMAIN runs
    BY <1>3, <1>13 DEF Closing
  <2>2. CASE CompletionOf(cur)
    <3>1. \/ runs[cur].kind = "prepare" /\ \E S \in SUBSET Segs : CompletePrepare(cur, S)
          \/ runs[cur].kind = "tracking" /\ CompleteTracking(cur)
          \/ CompletePostprocessing(cur) \/ CompleteFixRun(cur) \/ CompletePublication(cur)
      BY <2>2 DEF CompletionOf, CurKind
    <3>. QED  BY <1>2, <2>1, <3>1 DEF RunTransaction
  <2>3. CASE FinishStep(cur, TRUE) \/ CompleteAsCancelled(cur)
    BY <1>2, <2>1, <2>3 DEF RunTransaction
  <2>. QED  BY <1>13, <2>2, <2>3 DEF Closing
<1>14. CASE PrepareRejected \/ Fail
  <2>1. cur \in DOMAIN runs /\ Running(cur) /\ \E f : FailRun(cur, f)
    BY <1>3, <1>14 DEF PrepareRejected, Fail
  <2>. QED  BY <1>2, <2>1 DEF RunTransaction
<1>15. CASE Settle
  <2>1. cur \in DOMAIN runs /\ (UNCHANGED storeVars \/ CompleteAsCancelled(cur))
    BY <1>3, <1>15 DEF Settle, CompleteCancelledRun
  <2>. QED  BY <1>1, <1>2, <2>1 DEF RunTransaction
<1>. QED
  BY <1>4, <1>5, <1>6, <1>7, <1>8, <1>9, <1>10, <1>11, <1>12, <1>13, <1>14, <1>15 DEF WorkerStep

-----------------------------------------------------------------------------
(* What a transaction does to jobs and runs.                                *)
StageOf(kind) == CASE kind = "tracking" -> "tracking"
                   [] kind = "postprocessing" -> "postprocessing"
                   [] OTHER -> "preparing"

SameRun(v, w) == w.job = v.job /\ w.kind = v.kind /\ w.seg = v.seg /\ w.d = v.d
RunTouched(r) ==
    /\ r \in DOMAIN runs /\ DOMAIN runs' = DOMAIN runs
    /\ \A q \in DOMAIN runs : q # r => runs'[q] = runs[q]
    /\ SameRun(runs[r], runs'[r])
RunNoted(r) ==
    /\ RunTouched(r) /\ runs'[r].st = runs[r].st /\ runs'[r].fail = runs[r].fail
    /\ runs'[r].fence = runs[r].fence
RunFenced(r) ==
    /\ RunTouched(r) /\ runs'[r].st = runs[r].st /\ runs'[r].fail = runs[r].fail
    /\ Running(r) /\ runs[r].kind = "postprocessing" /\ ~job[runs[r].job].cancel
    /\ runs'[r].fence = TRUE
RunClaimed(r) ==
    /\ RunTouched(r) /\ runs[r].st = "queued" /\ runs'[r].st = "running"
    /\ runs'[r].fail = runs[r].fail /\ runs'[r].fence = runs[r].fence
    /\ runs[r].kind \in ReviewRuns => job[runs[r].job].st = "annotated"
RunEnded(r, x) ==
    /\ RunTouched(r) /\ Running(r) /\ runs'[r].st = x /\ runs'[r].fence = runs[r].fence
    /\ x \in {"succeeded", "failed", "cancelled"} /\ (x # "failed" => runs'[r].fail = runs[r].fail)
RunQueued(j, kind) ==
    \E e : /\ runs' = Append(runs, e)
           /\ e.job = j /\ e.kind = kind /\ e.st = "queued" /\ e.fence = FALSE /\ e.fail = "none"
QueuedCancelled(j) ==
    /\ DOMAIN runs' = DOMAIN runs
    /\ \A r \in DOMAIN runs :
          \/ runs'[r] = runs[r] /\ ~(runs[r].job = j /\ runs[r].st = "queued")
          \/ /\ SameRun(runs[r], runs'[r]) /\ runs[r].job = j /\ runs[r].st = "queued"
             /\ runs'[r].st = "cancelled" /\ runs'[r].fail = runs[r].fail
             /\ runs'[r].fence = runs[r].fence
JobTouched(j) == j \in Jobs /\ \A i \in Jobs : i # j => job'[i] = job[i]

StageEntered(j, kind) ==
    /\ JobTouched(j) /\ RunQueued(j, kind) /\ Decided(j)
    /\ job[j].st \in {"none", "waiting_initial_annotation", "tracked", "failed"}
    /\ job'[j].st = StageOf(kind) /\ (job'[j].cancel => job[j].cancel)
CancelAsked(j) ==
    /\ JobTouched(j) /\ QueuedCancelled(j) /\ ~Fenced(j)
    /\ RunsOf(j, {"running"}) # {} /\ job'[j].cancel
    /\ job[j].st # "annotated" /\ job'[j].st = job[j].st
    /\ job'[j].fail = job[j].fail /\ job'[j].ref = job[j].ref
CancelDone(j) ==
    /\ JobTouched(j) /\ QueuedCancelled(j) /\ RunsOf(j, {"running"}) = {} /\ Decided(j)
    /\ job[j].st \notin {"none", "annotated"} /\ job'[j].st = "cancelled"
StageDone(r) ==
    /\ RunEnded(r, "succeeded") /\ JobTouched(runs[r].job)
    /\ runs[r].kind \notin ReviewRuns /\ ~job[runs[r].job].cancel
    /\ job'[runs[r].job].cancel = job[runs[r].job].cancel
    /\ \/ job'[runs[r].job].st \in {"waiting_initial_annotation", "tracked"}
          /\ runs[r].kind # "postprocessing"
       \/ job'[runs[r].job].st = "annotated" /\ runs[r].kind = "postprocessing"
RunCancelled(r) ==
    /\ RunEnded(r, "cancelled") /\ JobTouched(runs[r].job)
    /\ job[runs[r].job].cancel /\ job'[runs[r].job].st = "cancelled"
StageFailed(r, f) ==
    /\ RunEnded(r, "failed") /\ runs[r].kind \notin ReviewRuns
    /\ \/ job[runs[r].job].st = "cancelled" /\ job' = job
       \/ /\ JobTouched(runs[r].job) /\ job'[runs[r].job].st = "failed"
          /\ job'[runs[r].job].fail = f /\ job'[runs[r].job].ref = r
          /\ job'[runs[r].job].cancel = job[runs[r].job].cancel
          /\ f = "recovery_required" \/ ~job[runs[r].job].cancel
    /\ runs'[r].fail = f

(* The Worker and run r; requests.                                          *)
RunCore(r) ==
    \/ UNCHANGED <<job, runs>>
    \/ job' = job /\ (RunNoted(r) \/ RunFenced(r) \/ RunClaimed(r))
    \/ job' = job /\ runs[r].kind \in ReviewRuns /\ \E x : RunEnded(r, x)
    \/ StageDone(r) \/ RunCancelled(r)
    \/ \E f : StageFailed(r, f)
RequestCore ==
    \/ UNCHANGED <<job, runs>>
    \/ \E j \in Jobs, kind \in ReviewRuns : job' = job /\ RunQueued(j, kind)
    \/ \E j \in Jobs : CancelAsked(j) \/ CancelDone(j)
    \/ \E j \in Jobs : \E kind : StageEntered(j, kind)

(* Writing one column of a run leaves the others.                           *)
LEMMA RunColumns ==
    ASSUME NEW v, IsRun(v), NEW x
    PROVE  /\ LET w == [v EXCEPT !.st = x]
              IN IsRun(w) /\ SameRun(v, w) /\ w.st = x /\ w.fail = v.fail /\ w.fence = v.fence
                 /\ w.step = v.step
           /\ LET w == [v EXCEPT !.step = x]
              IN IsRun(w) /\ SameRun(v, w) /\ w.st = v.st /\ w.fail = v.fail /\ w.fence = v.fence
           /\ LET w == [v EXCEPT !.fail = x]
              IN IsRun(w) /\ SameRun(v, w) /\ w.st = v.st /\ w.fail = x /\ w.fence = v.fence
           /\ LET w == [v EXCEPT !.fence = x]
              IN IsRun(w) /\ SameRun(v, w) /\ w.st = v.st /\ w.fail = v.fail /\ w.fence = x
<1>1. /\ [v EXCEPT !.st = x] = [job |-> v.job, kind |-> v.kind, seg |-> v.seg, d |-> v.d,
                                st |-> x, fail |-> v.fail, fence |-> v.fence, step |-> v.step]
      /\ [v EXCEPT !.fail = x] = [job |-> v.job, kind |-> v.kind, seg |-> v.seg, d |-> v.d,
                                  st |-> v.st, fail |-> x, fence |-> v.fence, step |-> v.step]
      /\ [v EXCEPT !.step = x] = [job |-> v.job, kind |-> v.kind, seg |-> v.seg, d |-> v.d,
                                  st |-> v.st, fail |-> v.fail, fence |-> v.fence, step |-> x]
      /\ [v EXCEPT !.fence = x] = [job |-> v.job, kind |-> v.kind, seg |-> v.seg, d |-> v.d,
                                   st |-> v.st, fail |-> v.fail, fence |-> x, step |-> v.step]
  BY DEF IsRun
<1>. QED  BY <1>1 DEF IsRun, SameRun

(* A run is replaced by one of the same job, kind, segment and draft.       *)
LEMMA RunReplaced ==
    ASSUME NEW r \in DOMAIN runs, NEW w, runs' = [runs EXCEPT ![r] = w], SameRun(runs[r], w)
    PROVE  RunTouched(r) /\ runs'[r] = w
BY DEF RunTouched

(* The status of a run is written, as _finish_run does.                     *)
LEMMA RunStatusWritten ==
    ASSUME RunsOK, NEW r \in DOMAIN runs, NEW x, runs' = [runs EXCEPT ![r].st = x]
    PROVE  /\ RunTouched(r) /\ runs'[r].st = x /\ runs'[r].fail = runs[r].fail
           /\ runs'[r].fence = runs[r].fence
<1>. DEFINE w == [runs[r] EXCEPT !.st = x]
<1>0. IsRun(runs[r])
  BY DEF RunsOK
<1>1. runs' = [runs EXCEPT ![r] = w]
  OBVIOUS
<1>2. w = [job |-> runs[r].job, kind |-> runs[r].kind, seg |-> runs[r].seg, d |-> runs[r].d,
           st |-> x, fail |-> runs[r].fail, fence |-> runs[r].fence, step |-> runs[r].step]
  BY <1>0 DEF IsRun
<1>. HIDE DEF w
<1>3. SameRun(runs[r], w) /\ w.st = x /\ w.fail = runs[r].fail /\ w.fence = runs[r].fence
  BY <1>2 DEF SameRun
<1>. QED  BY <1>1, <1>3, RunReplaced

(* A runtime step is recorded in its run.                                   *)
LEMMA RunStepWritten ==
    ASSUME RunsOK, NEW r \in DOMAIN runs, NEW x, runs' = [runs EXCEPT ![r].step = x]
    PROVE  RunNoted(r)
<1>. DEFINE w == [runs[r] EXCEPT !.step = x]
<1>0. IsRun(runs[r])
  BY DEF RunsOK
<1>1. runs' = [runs EXCEPT ![r] = w]
  OBVIOUS
<1>2. SameRun(runs[r], w) /\ w.st = runs[r].st /\ w.fail = runs[r].fail /\ w.fence = runs[r].fence
  BY <1>0, RunColumns, Zenon
<1>. HIDE DEF w
<1>. QED  BY <1>1, <1>2, RunReplaced DEF RunNoted

(* A run is queued.                                                         *)
LEMMA RunEnqueued ==
    ASSUME NEW j, NEW kind, NEW s, NEW d, EnqueueRun(j, kind, s, d)
    PROVE  RunQueued(j, kind)
BY DEF EnqueueRun, RunQueued

(* The columns of a job.                                                    *)
LEMMA JobColumns ==
    ASSUME NEW v, IsJob(v), NEW x
    PROVE  /\ LET w == [v EXCEPT !.st = x]
              IN IsJob(w) /\ w.st = x /\ w.fail = v.fail /\ w.cancel = v.cancel /\ w.ref = v.ref
           /\ LET w == [v EXCEPT !.cancel = x]
              IN IsJob(w) /\ w.st = v.st /\ w.fail = v.fail /\ w.cancel = x /\ w.ref = v.ref
           /\ LET w == [v EXCEPT !.fail = x]
              IN IsJob(w) /\ w.st = v.st /\ w.fail = x /\ w.cancel = v.cancel /\ w.ref = v.ref
           /\ LET w == [v EXCEPT !.ref = x]
              IN IsJob(w) /\ w.st = v.st /\ w.fail = v.fail /\ w.cancel = v.cancel /\ w.ref = x
<1>1. /\ [v EXCEPT !.st = x] = [st |-> x, fail |-> v.fail, cancel |-> v.cancel, ref |-> v.ref]
      /\ [v EXCEPT !.cancel = x] = [st |-> v.st, fail |-> v.fail, cancel |-> x, ref |-> v.ref]
      /\ [v EXCEPT !.fail = x] = [st |-> v.st, fail |-> x, cancel |-> v.cancel, ref |-> v.ref]
      /\ [v EXCEPT !.ref = x] = [st |-> v.st, fail |-> v.fail, cancel |-> v.cancel, ref |-> x]
  BY DEF IsJob
<1>. QED  BY <1>1 DEF IsJob

(* The status of a job is written.                                          *)
LEMMA JobStatusWritten ==
    ASSUME JobsOK, NEW j \in Jobs, NEW x, job' = [job EXCEPT ![j].st = x]
    PROVE  JobTouched(j) /\ job'[j].st = x /\ job'[j].cancel = job[j].cancel
<1>. DEFINE w == [job[j] EXCEPT !.st = x]
<1>1. job' = [job EXCEPT ![j] = w] /\ DOMAIN job = Jobs
  BY DEF JobsOK
<1>2. w.st = x /\ w.cancel = job[j].cancel
  BY JobColumns DEF JobsOK
<1>. HIDE DEF w
<1>. QED  BY <1>1, <1>2 DEF JobTouched

(* _finalize_cancelled_job *)
LEMMA JobFinalized ==
    ASSUME JobsOK, NEW j \in Jobs, FinalizeCancelledJob(j)
    PROVE  JobTouched(j) /\ job'[j].st = "cancelled"
<1>. DEFINE a == [job[j] EXCEPT !.st = "cancelled"]
            w == [a EXCEPT !.cancel = FALSE]
<1>1. job' = [job EXCEPT ![j] = w] /\ DOMAIN job = Jobs
  BY DEF JobsOK, FinalizeCancelledJob
<1>0. IsJob(job[j])
  BY DEF JobsOK
<1>2. IsJob(a) /\ a.st = "cancelled"
  BY <1>0, JobColumns, Zenon
<1>. HIDE DEF a
<1>3. w.st = "cancelled"
  BY <1>2, JobColumns
<1>. HIDE DEF w
<1>. QED  BY <1>1, <1>3 DEF JobTouched

-----------------------------------------------------------------------------
(* The Worker executes a running run: nobody else ends it meanwhile.        *)
RunningKept ==
    \A r \in DOMAIN runs : runs[r].st = "running" => r \in DOMAIN runs' /\ runs'[r].st = "running"

LedgerOK == TablesOK /\ WorkerRuns

(* A queued run leaves the other runs alone.                                *)
LEMMA RunsGrow ==
    ASSUME RunsOK, NEW e, runs' = Append(runs, e)
    PROVE  /\ RunningKept /\ DOMAIN runs' = DOMAIN runs \cup {Len(runs) + 1}
           /\ \A r \in DOMAIN runs : runs'[r] = runs[r]
           /\ runs'[Len(runs) + 1] = e /\ Len(runs) + 1 \notin DOMAIN runs
<1>0. IsSequence(runs)
  BY DEF RunsOK
<1>1. Len(runs) \in Nat /\ DOMAIN runs = 1 .. Len(runs)
  BY <1>0, SequenceDomain
<1>2. /\ DOMAIN runs' = 1 .. Len(runs) + 1 /\ runs'[Len(runs) + 1] = e
      /\ \A r \in DOMAIN runs : runs'[r] = runs[r]
  <2>1. /\ DOMAIN Append(runs, e) = 1 .. Len(runs) + 1 /\ Append(runs, e)[Len(runs) + 1] = e
        /\ \A r \in DOMAIN runs : Append(runs, e)[r] = runs[r]
    BY <1>0, SequenceAppend, Zenon
  <2>. QED  BY <2>1
<1>3. DOMAIN runs' = DOMAIN runs \cup {Len(runs) + 1} /\ Len(runs) + 1 \notin DOMAIN runs
  BY <1>1, <1>2
<1>. QED  BY <1>2, <1>3 DEF RunningKept

(* A request of a user, a navigation task or the operator ends no running   *)
(* run.                                                                     *)
LEMMA OutsideKeepsRunning ==
    ASSUME RunsOK, OutsideTransaction
    PROVE  RunningKept
<1>1. runs' = runs => RunningKept
  BY DEF RunningKept
<1>2. ASSUME NEW j, NEW kind, NEW s, NEW d, EnqueueRun(j, kind, s, d)
      PROVE  RunningKept
  BY <1>2, RunsGrow DEF EnqueueRun
<1>3. ASSUME NEW j, CancelActiveJob(j)
      PROVE  RunningKept
  BY <1>3 DEF CancelActiveJob, CancelQueued, RunningKept
<1>4. ASSUME NEW j \in Jobs, JobTransaction(j)
      PROVE  RunningKept
  BY <1>2, <1>3, <1>4 DEF JobTransaction, CreateJob, ReturnToStage, StartTracking, BeginPostprocessing
<1>5. ASSUME NEW j \in Jobs, NEW s \in Segs, SegmentTransaction(j, s)
      PROVE  RunningKept
  BY <1>1, <1>5 DEF SegmentTransaction, SaveDraft, SubmitSegment, Reopen, Skip, Unskip
<1>6. ASSUME NEW j \in Jobs, NEW s \in Segs, ReviewTransaction(j, s)
      PROVE  RunningKept
  BY <1>1, <1>2, <1>6
     DEF ReviewTransaction, CreateFixSession, ApplyFixCommand, CreateFixRevision, ResumeReturnedReview,
         DecideReview, ApproveFixRevision, RetryPublication, EnqueuePublication, LinkFix
<1>7. CASE CreateDatasetRelease \/ ResetUnreleasedDataset \/ UNCHANGED ledgerVars
  BY <1>1, <1>7 DEF CreateDatasetRelease, ResetUnreleasedDataset, storeVars, ledgerVars
<1>. QED  BY <1>4, <1>5, <1>6, <1>7 DEF OutsideTransaction

(* The Worker ends its own run only when it leaves it.                      *)
LEMMA WorkerKeepsRunning ==
    ASSUME RunsOK, WorkerRuns, WorkerStep
    PROVE  WorkerRuns'
<1>1. ASSUME cur' = cur, pc \notin {"idle", "done"}, RunningKept
      PROVE  WorkerRuns'
  BY <1>1 DEF WorkerRuns, Running, RunningKept
<1>2. runs' = runs => RunningKept
  BY DEF RunningKept
<1>3. ASSUME NEW r \in DOMAIN runs, RunNoted(r)
      PROVE  RunningKept
  BY <1>3 DEF RunNoted, RunTouched, RunningKept
<1>4. CASE UNCHANGED <<pc, cur, runs>>
  BY <1>4 DEF WorkerRuns, Running
<1>5. CASE pc' \in {"idle", "done"}
  BY <1>5 DEF WorkerRuns
<1>6. CASE Stop \/ HeartbeatCheck \/ HeartbeatRenew \/ HeartbeatRecheck \/ HeartbeatFails \/ LeaseExpires
  BY <1>4, <1>6
     DEF Stop, HeartbeatCheck, HeartbeatRenew, RenewLease, HeartbeatRecheck, HeartbeatFails, LeaseExpires,
         storeVars, workerVars
<1>7. CASE Recover
  BY <1>5, <1>7 DEF Recover, At, workerVars
<1>8. CASE Claim
  <2>1. PICK r \in DOMAIN runs : ClaimNextRun(r) /\ cur' = r
    BY <1>8 DEF Claim
  <2>2. RunTouched(r) /\ runs'[r].st = "running"
    BY <2>1, RunStatusWritten DEF ClaimNextRun
  <2>. QED  BY <2>1, <2>2 DEF WorkerRuns, Running, RunTouched
<1>9. CASE Execute \/ Capacity \/ NextTarget \/ Bind \/ EnterLock \/ WorkDone \/ WorkFails
  <2>1. cur' = cur /\ runs' = runs /\ pc \notin {"idle", "done"}
    BY <1>9 DEF Execute, Capacity, NextTarget, Bind, EnterLock, WorkDone, WorkFails, storeVars, At
  <2>. QED  BY <1>1, <1>2, <2>1
<1>10. CASE SetupTracking \/ Fence \/ Publish \/ Failing \/ Record
  <2>1. cur' = cur /\ pc \notin {"idle", "done"} /\ cur \in DOMAIN runs
    BY <1>10 DEF SetupTracking, Fence, Publish, Failing, Record, At, WorkerRuns, Running
  <2>2. CASE runs' = runs
    BY <1>1, <1>2, <2>1, <2>2
  <2>3. ASSUME NEW x, runs' = [runs EXCEPT ![cur].step = x]
        PROVE  WorkerRuns'
    BY <1>1, <1>3, <2>1, <2>3, RunStepWritten
  <2>4. CASE BeginPublication(cur)
    <3>. DEFINE mid == [runs[cur] EXCEPT !.fence = TRUE]
                w == [mid EXCEPT !.step = "started"]
    <3>1. runs' = [runs EXCEPT ![cur] = w]
      BY <2>4 DEF BeginPublication
    <3>2. IsRun(runs[cur])
      BY <2>1 DEF RunsOK
    <3>3. IsRun(mid) /\ mid.st = runs[cur].st
      BY <3>2, RunColumns
    <3>. HIDE DEF mid
    <3>4. w.st = runs[cur].st
      BY <3>3, RunColumns
    <3>. HIDE DEF w
    <3>5. RunningKept
      BY <2>1, <3>1, <3>4 DEF RunningKept
    <3>. QED  BY <1>1, <2>1, <3>5
  <2>. QED
    BY <1>10, <2>2, <2>3, <2>4
       DEF SetupTracking, Fence, Publish, Failing, Record, StartStep, FinishStep, FailActiveStep, RecordCheckpoint, storeVars
<1>11. CASE Closing
  <2>1. CASE FinishStep(cur, TRUE) /\ pc' = "closing"
    <3>1. cur' = cur /\ pc \notin {"idle", "done"} /\ cur \in DOMAIN runs
      BY <1>11 DEF Closing, At, WorkerRuns, Running
    <3>. QED  BY <1>1, <1>3, <2>1, <3>1, RunStepWritten DEF FinishStep
  <2>. QED  BY <1>5, <1>11, <2>1 DEF Closing, Goto
<1>12. CASE PrepareRejected \/ Fail \/ Finished
  BY <1>5, <1>12 DEF PrepareRejected, Fail, Finished, Goto
<1>13. CASE Settle
  <2>1. CASE pc' = "done"
    BY <1>5, <2>1
  <2>2. CASE pc' = "fail" /\ UNCHANGED storeVars
    BY <1>1, <1>2, <1>13, <2>2 DEF Settle, storeVars, At
  <2>. QED  BY <1>13, <2>1, <2>2 DEF Settle, Goto
<1>. QED
  BY <1>6, <1>7, <1>8, <1>9, <1>10, <1>11, <1>12, <1>13 DEF WorkerStep

(* The tables and the Worker's run, in every step.                          *)
LEMMA LedgerKept ==
    ASSUME LedgerOK, [Next]_vars
    PROVE  LedgerOK'
<1>1. TablesOK /\ RunsOK /\ WorkerRuns
  BY DEF LedgerOK, TablesOK
<1>2. CASE WorkerStep
  BY <1>1, <1>2, TablesKept, WorkerKeepsRunning DEF LedgerOK
<1>3. CASE ~WorkerStep
  <2>1. OutsideTransaction /\ (UNCHANGED <<pc, cur>> \/ pc' = "idle")
    BY <1>1, <1>3, OutsideStep
  <2>2. RunningKept
    BY <1>1, <2>1, OutsideKeepsRunning
  <2>3. WorkerRuns'
    BY <1>1, <2>1, <2>2 DEF WorkerRuns, RunningKept, Running
  <2>. QED  BY <1>1, <2>3, TablesKept DEF LedgerOK
<1>. QED  BY <1>2, <1>3

(* Every step is a transaction.                                             *)
LEMMA EveryTransaction ==
    ASSUME LedgerOK, [Next]_vars
    PROVE  OutsideTransaction \/ WorkerTransaction
BY OutsideStep, WorkerTransacts DEF LedgerOK

(* Initially.                                                               *)
LEMMA LedgerInitially == Init => LedgerOK
BY ClipsInitially DEF Init, WorkerInit, LedgerOK, WorkerRuns, ClipsInv

-----------------------------------------------------------------------------
(* Segments.  A segment that was submitted points to the revision that was  *)
(* made of its last draft; a skipped one remembers such a revision; one     *)
(* that was tracked has a checkpoint of it.                                 *)
IsSegment(v) ==
    v = [st |-> v.st, draft |-> v.draft, revs |-> v.revs, sub |-> v.sub, rst |-> v.rst, rsub |-> v.rsub]
Table(f) == f = [j \in Jobs |-> [s \in Segs |-> f[j][s]]]
Replaced(f, g, j, s, w) ==
    /\ Table(g) /\ g[j][s] = w
    /\ \A i \in Jobs, u \in Segs : i # j \/ u # s => g[i][u] = f[i][u]

TrackedStatus == {"tracked", "postprocessing", "postprocessing_failed", "annotated"}
SubmittedStatus == {"submitted", "tracking"} \cup TrackedStatus
PointsToDraft(v, k) == k \in DOMAIN v.revs /\ v.revs[k] = v.draft
GoodSegment(v) ==
    /\ IsSegment(v) /\ IsSequence(v.revs)
    /\ v.draft \in 0 .. MaxDraft
    /\ v.sub # 0 \/ v.rsub # 0 => v.draft # 0
    /\ v.sub # 0 => PointsToDraft(v, v.sub)
    /\ v.st \in SubmittedStatus => v.sub # 0
    /\ v.st = "skipped" =>
          /\ v.rst \in {"pending_initial_annotation", "draft", "submitted"}
          /\ v.rst = "submitted" => v.rsub # 0
          /\ v.rsub # 0 => PointsToDraft(v, v.rsub)
HasCheckpoint(j, s, v) == <<s, v.revs[v.sub]>> \in ckpt[j]
SegmentsInv ==
    /\ Table(seg) /\ ckpt = [j \in Jobs |-> ckpt[j]]
    /\ \A j \in Jobs, s \in Segs :
          /\ GoodSegment(seg[j][s])
          /\ seg[j][s].st \in TrackedStatus => HasCheckpoint(j, s, seg[j][s])

(* One row of a table of rows is replaced.                                  *)
LEMMA RowReplaced ==
    ASSUME NEW f, Table(f), NEW j \in Jobs, NEW s \in Segs, NEW w
    PROVE  Replaced(f, [f EXCEPT ![j][s] = w], j, s, w)
BY DEF Table, Replaced

(* A row that is written with a good one that is not tracked yet.           *)
LEMMA SegmentWritten ==
    ASSUME SegmentsInv, NEW j \in Jobs, NEW s \in Segs, NEW w, seg' = [seg EXCEPT ![j][s] = w],
           UNCHANGED ckpt, GoodSegment(w), w.st \notin TrackedStatus
    PROVE  SegmentsInv'
<1>1. Replaced(seg, seg', j, s, w)
  BY RowReplaced DEF SegmentsInv
<1>. QED  BY <1>1 DEF SegmentsInv, Replaced, Table, HasCheckpoint

(* The status of a segment is written.                                      *)
LEMMA SegmentColumns ==
    ASSUME NEW v, IsSegment(v), NEW x
    PROVE  [v EXCEPT !.st = x] = [st |-> x, draft |-> v.draft, revs |-> v.revs, sub |-> v.sub,
                                  rst |-> v.rst, rsub |-> v.rsub]
BY DEF IsSegment

(* save_draft, submit_segment and the segment actions.                      *)
LEMMA SegmentRequest ==
    ASSUME SegmentsInv, NEW j \in Jobs, NEW s \in Segs, SegmentTransaction(j, s)
    PROVE  SegmentsInv'
<1>. DEFINE v == seg[j][s]
<1>0. GoodSegment(v) /\ IsSegment(v) /\ IsSequence(v.revs)
  BY DEF SegmentsInv, GoodSegment
<1>. DEFINE Row(st, draft, revs, sub, rst, rsub) ==
                [st |-> st, draft |-> draft, revs |-> revs, sub |-> sub, rst |-> rst, rsub |-> rsub]
<1>1. CASE SaveDraft(j, s)
  <2>. DEFINE w1 == [v EXCEPT !.st = "draft"]
              w2 == [w1 EXCEPT !.draft = v.draft + 1]
              w3 == [w2 EXCEPT !.sub = 0]
  <2>1. seg' = [seg EXCEPT ![j][s] = w3] /\ UNCHANGED ckpt
    BY <1>1 DEF SaveDraft
  <2>6. v.draft + 1 \in 0 .. MaxDraft /\ v.draft + 1 # 0
    BY <1>0, <1>1, StoreAssumption DEF SaveDraft, GoodSegment
  <2>2. w1 = Row("draft", v.draft, v.revs, v.sub, v.rst, v.rsub)
    BY <1>0 DEF IsSegment
  <2>. HIDE DEF w1
  <2>3. w2 = Row("draft", v.draft + 1, v.revs, v.sub, v.rst, v.rsub)
    BY <2>2
  <2>. HIDE DEF w2
  <2>4. w3 = Row("draft", v.draft + 1, v.revs, 0, v.rst, v.rsub)
    BY <2>3
  <2>. HIDE DEF w3
  <2>5. GoodSegment(w3) /\ w3.st \notin TrackedStatus
    BY <1>0, <2>4, <2>6 DEF GoodSegment, IsSegment, SubmittedStatus, TrackedStatus
  <2>. QED  BY <2>1, <2>5, SegmentWritten
<1>2. CASE SubmitSegment(j, s)
  <2>. DEFINE more == Append(v.revs, v.draft)
              k == Len(v.revs) + 1
              w1 == [v EXCEPT !.st = "submitted"]
              w2 == [w1 EXCEPT !.revs = more]
              w3 == [w2 EXCEPT !.sub = k]
  <2>1. seg' = [seg EXCEPT ![j][s] = w3] /\ UNCHANGED ckpt
    BY <1>2 DEF SubmitSegment
  <2>0. v.draft \in 0 .. MaxDraft /\ v.draft # 0
    BY <1>0, <1>2 DEF SubmitSegment, GoodSegment
  <2>2. IsSequence(more) /\ DOMAIN more = 1 .. k /\ more[k] = v.draft
    BY <1>0, SequenceAppend, Zenon
  <2>3. k # 0 /\ k \in 1 .. k
    BY <1>0, SequenceDomain
  <2>. HIDE DEF more, k
  <2>4. w1 = Row("submitted", v.draft, v.revs, v.sub, v.rst, v.rsub)
    BY <1>0 DEF IsSegment
  <2>. HIDE DEF w1
  <2>5. w2 = Row("submitted", v.draft, more, v.sub, v.rst, v.rsub)
    BY <2>4
  <2>. HIDE DEF w2
  <2>6. w3 = Row("submitted", v.draft, more, k, v.rst, v.rsub)
    BY <2>5
  <2>. HIDE DEF w3
  <2>7. IsSegment(w3) /\ w3.st = "submitted" /\ w3.revs = more /\ w3.sub = k /\ w3.draft = v.draft
    BY <2>6 DEF IsSegment
  <2>8. GoodSegment(w3) /\ w3.st \notin TrackedStatus
    BY <2>0, <2>2, <2>3, <2>7 DEF GoodSegment, PointsToDraft, SubmittedStatus, TrackedStatus
  <2>. QED  BY <2>1, <2>8, SegmentWritten
<1>3. CASE Reopen(j, s)
  <2>. DEFINE w1 == [v EXCEPT !.st = "draft"]
              w2 == [w1 EXCEPT !.sub = 0]
              w3 == [w2 EXCEPT !.rst = "none"]
              w4 == [w3 EXCEPT !.rsub = 0]
  <2>1. seg' = [seg EXCEPT ![j][s] = w4] /\ UNCHANGED ckpt
    BY <1>3 DEF Reopen
  <2>2. w1 = Row("draft", v.draft, v.revs, v.sub, v.rst, v.rsub)
    BY <1>0 DEF IsSegment
  <2>. HIDE DEF w1
  <2>3. w2 = Row("draft", v.draft, v.revs, 0, v.rst, v.rsub)
    BY <2>2
  <2>. HIDE DEF w2
  <2>4. w3 = Row("draft", v.draft, v.revs, 0, "none", v.rsub)
    BY <2>3
  <2>. HIDE DEF w3
  <2>5. w4 = Row("draft", v.draft, v.revs, 0, "none", 0)
    BY <2>4
  <2>. HIDE DEF w4
  <2>6. GoodSegment(w4) /\ w4.st \notin TrackedStatus
    BY <1>0, <2>5 DEF GoodSegment, IsSegment, SubmittedStatus, TrackedStatus
  <2>. QED  BY <2>1, <2>6, SegmentWritten
<1>4. CASE Skip(j, s)
  <2>. DEFINE k == IF v.st = "submitted" THEN v.sub ELSE 0
              w1 == [v EXCEPT !.st = "skipped"]
              w2 == [w1 EXCEPT !.sub = 0]
              w3 == [w2 EXCEPT !.rst = v.st]
              w4 == [w3 EXCEPT !.rsub = k]
  <2>1. seg' = [seg EXCEPT ![j][s] = w4] /\ UNCHANGED ckpt
        /\ v.st \in {"pending_initial_annotation", "draft", "submitted"}
    BY <1>4 DEF Skip
  <2>2. w1 = Row("skipped", v.draft, v.revs, v.sub, v.rst, v.rsub)
    BY <1>0 DEF IsSegment
  <2>. HIDE DEF w1
  <2>3. w2 = Row("skipped", v.draft, v.revs, 0, v.rst, v.rsub)
    BY <2>2
  <2>. HIDE DEF w2
  <2>4. w3 = Row("skipped", v.draft, v.revs, 0, v.st, v.rsub)
    BY <2>3
  <2>. HIDE DEF w3
  <2>5. w4 = Row("skipped", v.draft, v.revs, 0, v.st, k)
    BY <2>4
  <2>. HIDE DEF w4
  <2>6. /\ k # 0 => PointsToDraft(v, k) /\ v.draft # 0
        /\ v.st = "submitted" => k # 0
        /\ v.draft \in 0 .. MaxDraft
    BY <1>0 DEF GoodSegment, SubmittedStatus
  <2>. HIDE DEF k
  <2>7. GoodSegment(w4) /\ w4.st \notin TrackedStatus
    BY <1>0, <2>1, <2>5, <2>6 DEF GoodSegment, PointsToDraft, IsSegment, SubmittedStatus, TrackedStatus
  <2>. QED  BY <2>1, <2>7, SegmentWritten
<1>5. CASE Unskip(j, s)
  <2>. DEFINE w1 == [v EXCEPT !.st = v.rst]
              w2 == [w1 EXCEPT !.sub = v.rsub]
              w3 == [w2 EXCEPT !.rst = "none"]
              w4 == [w3 EXCEPT !.rsub = 0]
  <2>1. seg' = [seg EXCEPT ![j][s] = w4] /\ UNCHANGED ckpt /\ v.st = "skipped"
    BY <1>5 DEF Unskip
  <2>2. w1 = Row(v.rst, v.draft, v.revs, v.sub, v.rst, v.rsub)
    BY <1>0 DEF IsSegment
  <2>. HIDE DEF w1
  <2>3. w2 = Row(v.rst, v.draft, v.revs, v.rsub, v.rst, v.rsub)
    BY <2>2
  <2>. HIDE DEF w2
  <2>4. w3 = Row(v.rst, v.draft, v.revs, v.rsub, "none", v.rsub)
    BY <2>3
  <2>. HIDE DEF w3
  <2>5. w4 = Row(v.rst, v.draft, v.revs, v.rsub, "none", 0)
    BY <2>4
  <2>. HIDE DEF w4
  <2>6. GoodSegment(w4) /\ w4.st \notin TrackedStatus
    BY <1>0, <2>1, <2>5 DEF GoodSegment, PointsToDraft, IsSegment, SubmittedStatus, TrackedStatus
  <2>. QED  BY <2>1, <2>6, SegmentWritten
<1>. QED  BY <1>1, <1>2, <1>3, <1>4, <1>5 DEF SegmentTransaction

(* Segments that were submitted move on; the ones that become tracked have  *)
(* their checkpoints.                                                       *)
LEMMA SegmentsMove ==
    ASSUME SegmentsInv, NEW j \in Jobs, NEW From \in SUBSET SubmittedStatus, NEW to \in SubmittedStatus,
           seg' = MoveSegments(j, From, to), UNCHANGED ckpt,
           to \in TrackedStatus =>
               \A s \in Segs : seg[j][s].st \in From => HasCheckpoint(j, s, seg[j][s])
    PROVE  SegmentsInv'
<1>1. /\ Table(seg')
      /\ \A i \in Jobs, s \in Segs :
            seg'[i][s] = IF i = j /\ seg[j][s].st \in From THEN [seg[j][s] EXCEPT !.st = to] ELSE seg[i][s]
  BY DEF MoveSegments, SegmentsInv, Table
<1>2. ASSUME NEW s \in Segs, seg[j][s].st \in From
      PROVE  /\ GoodSegment([seg[j][s] EXCEPT !.st = to])
             /\ [seg[j][s] EXCEPT !.st = to].st = to
             /\ [seg[j][s] EXCEPT !.st = to].revs = seg[j][s].revs
             /\ [seg[j][s] EXCEPT !.st = to].sub = seg[j][s].sub
  <2>. DEFINE v == seg[j][s]
              w == [v EXCEPT !.st = to]
  <2>1. GoodSegment(v) /\ IsSegment(v)
    BY DEF SegmentsInv, GoodSegment
  <2>2. w = [st |-> to, draft |-> v.draft, revs |-> v.revs, sub |-> v.sub, rst |-> v.rst, rsub |-> v.rsub]
    BY <2>1, SegmentColumns
  <2>. HIDE DEF w
  <2>3. GoodSegment(w) /\ w.st = to /\ w.revs = v.revs /\ w.sub = v.sub
    BY <1>2, <2>1, <2>2 DEF GoodSegment, IsSegment, PointsToDraft, SubmittedStatus, TrackedStatus
  <2>. QED  BY <2>3 DEF w
<1>3. ASSUME NEW i \in Jobs, NEW s \in Segs
      PROVE  /\ GoodSegment(seg'[i][s])
             /\ seg'[i][s].st \in TrackedStatus => HasCheckpoint(i, s, seg'[i][s])
  <2>1. CASE i = j /\ seg[j][s].st \in From
    <3>1. seg'[i][s] = [seg[j][s] EXCEPT !.st = to]
      BY <1>1, <2>1
    <3>. QED  BY <1>2, <2>1, <3>1 DEF HasCheckpoint
  <2>2. CASE ~(i = j /\ seg[j][s].st \in From)
    <3>1. seg'[i][s] = seg[i][s]
      BY <1>1, <2>2
    <3>. QED  BY <3>1 DEF SegmentsInv
  <2>. QED  BY <2>1, <2>2
<1>. QED  BY <1>1, <1>3 DEF SegmentsInv, HasCheckpoint

(* Nothing but checkpoints changes, and those only grow.                    *)
LEMMA SegmentsSame ==
    ASSUME SegmentsInv, UNCHANGED seg, ckpt' = [j \in Jobs |-> ckpt'[j]],
           \A j \in Jobs : ckpt[j] \subseteq ckpt'[j]
    PROVE  SegmentsInv'
BY DEF SegmentsInv, HasCheckpoint, Table

(* Jobs that are created, returned, moved on or cancelled.                  *)
LEMMA SegmentsOfJob ==
    ASSUME SegmentsInv, NEW j \in Jobs, JobTransaction(j)
    PROVE  SegmentsInv'
<1>0. UNCHANGED <<seg, ckpt>> => SegmentsInv'
  BY SegmentsSame DEF SegmentsInv
<1>1. UNCHANGED ckpt
  BY DEF JobTransaction, CreateJob, ReturnToStage, StartTracking, CancelActiveJob, BeginPostprocessing
<1>2. CASE CreateJob(j) \/ CancelActiveJob(j)
  BY <1>0, <1>2 DEF CreateJob, CancelActiveJob
<1>3. CASE seg' = MoveSegments(j, {"submitted", "tracking"}, "tracking") \/ seg' = MoveSegments(j, {"submitted"}, "tracking")
  BY <1>1, <1>3, SegmentsMove DEF SubmittedStatus, TrackedStatus
<1>4. ASSUME NEW From \in SUBSET TrackedStatus, seg' = MoveSegments(j, From, "postprocessing")
      PROVE  SegmentsInv'
  <2>1. \A s \in Segs : seg[j][s].st \in From => HasCheckpoint(j, s, seg[j][s])
    BY DEF SegmentsInv
  <2>. QED  BY <1>1, <1>4, <2>1, SegmentsMove DEF SubmittedStatus, TrackedStatus
<1>5. {"tracked"} \in SUBSET TrackedStatus
      /\ {"tracked", "postprocessing", "postprocessing_failed"} \in SUBSET TrackedStatus
  BY DEF TrackedStatus
<1>6. CASE ReturnToStage(j)
  <2>1. \/ seg' = MoveSegments(j, {"submitted", "tracking"}, "tracking")
        \/ seg' = MoveSegments(j, {"tracked", "postprocessing", "postprocessing_failed"}, "postprocessing")
        \/ seg' = seg
    BY <1>6 DEF ReturnToStage
  <2>. QED  BY <1>0, <1>1, <1>3, <1>4, <1>5, <2>1
<1>7. CASE StartTracking(j)
  BY <1>3, <1>7 DEF StartTracking
<1>8. ASSUME NEW t, BeginPostprocessing(j, t)
      PROVE  SegmentsInv'
  BY <1>4, <1>5, <1>8 DEF BeginPostprocessing
<1>. QED  BY <1>2, <1>6, <1>7, <1>8 DEF JobTransaction

(* complete_prepare: what was prepared waits for its annotation.            *)
LEMMA SegmentsPrepared ==
    ASSUME SegmentsInv, NEW r, runs[r].job \in Jobs, NEW S \in SUBSET Segs, CompletePrepare(r, S)
    PROVE  SegmentsInv'
<1>. DEFINE j == runs[r].job
            x == "pending_initial_annotation"
<1>1. /\ Table(seg') /\ UNCHANGED ckpt
      /\ \A i \in Jobs, s \in Segs :
            seg'[i][s] = IF i = j /\ s \in S THEN [seg[j][s] EXCEPT !.st = x] ELSE seg[i][s]
  BY DEF CompletePrepare, SegmentsInv, Table
<1>2. ASSUME NEW s \in Segs
      PROVE  /\ GoodSegment([seg[j][s] EXCEPT !.st = x])
             /\ [seg[j][s] EXCEPT !.st = x].st = x
  <2>. DEFINE v == seg[j][s]
              w == [v EXCEPT !.st = x]
  <2>1. GoodSegment(v) /\ IsSegment(v)
    BY DEF SegmentsInv, GoodSegment
  <2>2. w = [st |-> x, draft |-> v.draft, revs |-> v.revs, sub |-> v.sub, rst |-> v.rst, rsub |-> v.rsub]
    BY <2>1, SegmentColumns
  <2>. HIDE DEF w
  <2>3. GoodSegment(w) /\ w.st = x
    BY <2>1, <2>2 DEF GoodSegment, IsSegment, PointsToDraft, SubmittedStatus, TrackedStatus
  <2>. QED  BY <2>3 DEF w
<1>3. x \notin TrackedStatus
  BY DEF TrackedStatus
<1>. HIDE DEF j, x
<1>4. ASSUME NEW i \in Jobs, NEW s \in Segs
      PROVE  /\ GoodSegment(seg'[i][s])
             /\ seg'[i][s].st \in TrackedStatus => HasCheckpoint(i, s, seg'[i][s])
  <2>1. CASE i = j /\ s \in S
    <3>1. seg'[i][s] = [seg[j][s] EXCEPT !.st = x]
      BY <1>1, <2>1
    <3>. QED  BY <1>2, <1>3, <3>1
  <2>2. CASE ~(i = j /\ s \in S)
    <3>1. seg'[i][s] = seg[i][s]
      BY <1>1, <2>2
    <3>. QED  BY <3>1 DEF SegmentsInv
  <2>. QED  BY <2>1, <2>2
<1>. QED  BY <1>1, <1>4 DEF SegmentsInv, HasCheckpoint

(* The transactions of the Worker.                                          *)
LEMMA SegmentsOfRun ==
    ASSUME SegmentsInv, RunsOK, NEW r \in DOMAIN runs, RunTransaction(r)
    PROVE  SegmentsInv'
<1>. DEFINE j == runs[r].job
<1>0. UNCHANGED <<seg, ckpt>> => SegmentsInv'
  BY SegmentsSame DEF SegmentsInv
<1>1. j \in Jobs
  BY DEF RunsOK
<1>2. CASE ClaimNextRun(r) \/ StartStep(r) \/ FinishStep(r, TRUE) \/ FailActiveStep(r) \/ BeginPublication(r)
           \/ CompleteAsCancelled(r) \/ CompleteFixRun(r) \/ CompletePublication(r)
  BY <1>0, <1>2
     DEF ClaimNextRun, StartStep, FinishStep, FailActiveStep, BeginPublication, CompleteAsCancelled,
         CompleteFixRun, CompletePublication
<1>3. ASSUME NEW f, FailRun(r, f)
      PROVE  SegmentsInv'
  <2>1. UNCHANGED ckpt /\ (seg' = seg \/ seg' = MoveSegments(j, {"postprocessing"}, "postprocessing_failed"))
    BY <1>3 DEF FailRun, FailJobOf, storeVars
  <2>2. \A s \in Segs : seg[j][s].st \in {"postprocessing"} => HasCheckpoint(j, s, seg[j][s])
    BY <1>1 DEF SegmentsInv, TrackedStatus
  <2>3. {"postprocessing"} \in SUBSET SubmittedStatus /\ "postprocessing_failed" \in SubmittedStatus
    BY DEF SubmittedStatus, TrackedStatus
  <2>. HIDE DEF j
  <2>. QED  BY <1>0, <1>1, <2>1, <2>2, <2>3, SegmentsMove
<1>4. ASSUME NEW S \in SUBSET Segs, CompletePrepare(r, S)
      PROVE  SegmentsInv'
  BY <1>1, <1>4, SegmentsPrepared
<1>5. CASE CompleteTracking(r)
  <2>1. UNCHANGED ckpt /\ seg' = MoveSegments(j, {"tracking"}, "tracked") /\ CheckpointsComplete(j)
    BY <1>5 DEF CompleteTracking
  <2>2. \A s \in Segs : seg[j][s].st \in {"tracking"} => HasCheckpoint(j, s, seg[j][s])
    BY <2>1 DEF CheckpointsComplete, SegmentsIn, SubmittedContent, HasCheckpoint
  <2>3. {"tracking"} \in SUBSET SubmittedStatus /\ "tracked" \in SubmittedStatus
    BY DEF SubmittedStatus, TrackedStatus
  <2>. HIDE DEF j
  <2>. QED  BY <1>1, <2>1, <2>2, <2>3, SegmentsMove
<1>6. CASE CompletePostprocessing(r)
  <2>1. UNCHANGED ckpt /\ seg' = MoveSegments(j, {"postprocessing"}, "annotated")
    BY <1>6 DEF CompletePostprocessing
  <2>2. \A s \in Segs : seg[j][s].st \in {"postprocessing"} => HasCheckpoint(j, s, seg[j][s])
    BY <1>1 DEF SegmentsInv, TrackedStatus
  <2>3. {"postprocessing"} \in SUBSET SubmittedStatus /\ "annotated" \in SubmittedStatus
    BY DEF SubmittedStatus, TrackedStatus
  <2>. HIDE DEF j
  <2>. QED  BY <1>1, <2>1, <2>2, <2>3, SegmentsMove
<1>7. ASSUME NEW s, NEW c, RecordCheckpoint(r, s, c)
      PROVE  SegmentsInv'
  <2>1. UNCHANGED seg /\ ckpt' = [ckpt EXCEPT ![j] = @ \cup {<<s, c>>}]
    BY <1>7 DEF RecordCheckpoint
  <2>2. ckpt' = [i \in Jobs |-> ckpt'[i]] /\ \A i \in Jobs : ckpt[i] \subseteq ckpt'[i]
    BY <2>1 DEF SegmentsInv
  <2>. QED  BY <2>1, <2>2, SegmentsSame
<1>. QED  BY <1>2, <1>3, <1>4, <1>5, <1>6, <1>7 DEF RunTransaction

(* Every step keeps the segments in order.                                  *)
LEMMA SegmentsKept ==
    ASSUME LedgerOK, SegmentsInv, [Next]_vars
    PROVE  SegmentsInv'
<1>0. UNCHANGED <<seg, ckpt>> => SegmentsInv'
  BY SegmentsSame DEF SegmentsInv
<1>1. RunsOK
  BY DEF LedgerOK, TablesOK
<1>2. CASE OutsideTransaction
  <2>1. ASSUME NEW j \in Jobs, NEW s \in Segs, ReviewTransaction(j, s)
        PROVE  UNCHANGED <<seg, ckpt>>
    BY <2>1
       DEF ReviewTransaction, CreateFixSession, ApplyFixCommand, CreateFixRevision, ResumeReturnedReview,
           DecideReview, ApproveFixRevision, RetryPublication, LinkFix
  <2>2. CASE CreateDatasetRelease \/ ResetUnreleasedDataset \/ UNCHANGED ledgerVars
    BY <1>0, <2>2 DEF CreateDatasetRelease, ResetUnreleasedDataset, storeVars, ledgerVars
  <2>. QED  BY <1>0, <1>2, <2>1, <2>2, SegmentRequest, SegmentsOfJob DEF OutsideTransaction
<1>3. CASE WorkerTransaction
  BY <1>0, <1>1, <1>3, SegmentsOfRun DEF WorkerTransaction, ledgerVars
<1>. QED  BY <1>2, <1>3, EveryTransaction

(* A new segment.                                                           *)
LEMMA SegmentsInitially == Init => SegmentsInv
<1>. SUFFICES ASSUME Init PROVE SegmentsInv
  OBVIOUS
<1>1. Table(seg) /\ ckpt = [j \in Jobs |-> ckpt[j]] /\ \A j \in Jobs, s \in Segs : seg[j][s] = NewSegment
  BY DEF Init, StoreInit, Table
<1>2. IsSequence(<<>>)
  BY DEF IsSequence
<1>3. GoodSegment(NewSegment) /\ NewSegment.st \notin TrackedStatus
  BY <1>2, StoreAssumption DEF NewSegment, GoodSegment, IsSegment, SubmittedStatus, TrackedStatus
<1>. QED  BY <1>1, <1>3 DEF SegmentsInv

(* What was tracked is what the annotator submitted last, after any number  *)
(* of reopened, skipped, retried and resumed attempts, cancellations,       *)
(* crashes and recoveries (store.py submit_segment, segment_action,         *)
(* complete_tracking, retry_job).                                           *)
THEOREM TrackedSegmentsMatch == Spec => []TrackedMatchesSubmitted
<1>2. LedgerOK /\ SegmentsInv /\ [Next]_vars => LedgerOK' /\ SegmentsInv'
  BY LedgerKept, SegmentsKept
<1>3. SegmentsInv => TrackedMatchesSubmitted
  <2>. SUFFICES ASSUME SegmentsInv, NEW j \in Jobs, NEW s \in Segs, seg[j][s].st \in TrackedStatus
                PROVE  /\ seg[j][s].sub > 0 /\ SubmittedContent(j, s) = seg[j][s].draft
                       /\ <<s, SubmittedContent(j, s)>> \in ckpt[j]
    BY DEF TrackedMatchesSubmitted, TrackedStatus
  <2>1. GoodSegment(seg[j][s]) /\ HasCheckpoint(j, s, seg[j][s])
    BY DEF SegmentsInv
  <2>2. PointsToDraft(seg[j][s], seg[j][s].sub) /\ IsSequence(seg[j][s].revs)
    BY <2>1 DEF GoodSegment, SubmittedStatus
  <2>3. seg[j][s].sub > 0
    BY <2>2, SequenceDomain DEF PointsToDraft
  <2>. QED  BY <2>1, <2>2, <2>3 DEF PointsToDraft, SubmittedContent, HasCheckpoint
<1>. QED  BY LedgerInitially, SegmentsInitially, <1>2, <1>3, PTL DEF Spec

-----------------------------------------------------------------------------
(* Two columns of a run are written.                                        *)
LEMMA RunTwoColumns ==
    ASSUME RunsOK, NEW r \in DOMAIN runs, NEW x, NEW y
    PROVE  /\ runs' = [runs EXCEPT ![r] = [[runs[r] EXCEPT !.st = x] EXCEPT !.fail = y]] =>
                 RunTouched(r) /\ runs'[r].st = x /\ runs'[r].fail = y /\ runs'[r].fence = runs[r].fence
           /\ runs' = [runs EXCEPT ![r] = [[runs[r] EXCEPT !.st = x] EXCEPT !.step = y]] =>
                 /\ RunTouched(r) /\ runs'[r].st = x /\ runs'[r].fail = runs[r].fail
                 /\ runs'[r].fence = runs[r].fence
           /\ runs' = [runs EXCEPT ![r] = [[runs[r] EXCEPT !.fence = x] EXCEPT !.step = y]] =>
                 /\ RunTouched(r) /\ runs'[r].st = runs[r].st /\ runs'[r].fail = runs[r].fail
                 /\ runs'[r].fence = x
<1>. DEFINE v == runs[r]
            a == [v EXCEPT !.st = x]
            b == [v EXCEPT !.fence = x]
<1>0. IsRun(v)
  BY DEF RunsOK
<1>1. a = [job |-> v.job, kind |-> v.kind, seg |-> v.seg, d |-> v.d,
           st |-> x, fail |-> v.fail, fence |-> v.fence, step |-> v.step]
  BY <1>0 DEF IsRun
<1>2. b = [job |-> v.job, kind |-> v.kind, seg |-> v.seg, d |-> v.d,
           st |-> v.st, fail |-> v.fail, fence |-> x, step |-> v.step]
  BY <1>0 DEF IsRun
<1>. HIDE DEF a, b
<1>. DEFINE a1 == [a EXCEPT !.fail = y]
            a2 == [a EXCEPT !.step = y]
            b2 == [b EXCEPT !.step = y]
<1>3. a1 = [job |-> v.job, kind |-> v.kind, seg |-> v.seg, d |-> v.d,
            st |-> x, fail |-> y, fence |-> v.fence, step |-> v.step]
  BY <1>1
<1>4. a2 = [job |-> v.job, kind |-> v.kind, seg |-> v.seg, d |-> v.d,
            st |-> x, fail |-> v.fail, fence |-> v.fence, step |-> y]
  BY <1>1
<1>5. b2 = [job |-> v.job, kind |-> v.kind, seg |-> v.seg, d |-> v.d,
            st |-> v.st, fail |-> v.fail, fence |-> x, step |-> y]
  BY <1>2
<1>. HIDE DEF a1, a2, b2
<1>6. SameRun(v, a1) /\ SameRun(v, a2) /\ SameRun(v, b2)
  BY <1>3, <1>4, <1>5 DEF SameRun
<1>7. runs' = [runs EXCEPT ![r] = a1] => RunTouched(r) /\ runs'[r] = a1
  BY <1>6, RunReplaced
<1>8. runs' = [runs EXCEPT ![r] = a2] => RunTouched(r) /\ runs'[r] = a2
  BY <1>6, RunReplaced
<1>9. runs' = [runs EXCEPT ![r] = b2] => RunTouched(r) /\ runs'[r] = b2
  BY <1>6, RunReplaced
<1>. HIDE DEF v
<1>10. runs' = [runs EXCEPT ![r] = a1] => RunTouched(r) /\ runs'[r].st = x /\ runs'[r].fail = y /\ runs'[r].fence = v.fence
  BY <1>3, <1>7
<1>11. runs' = [runs EXCEPT ![r] = a2] => RunTouched(r) /\ runs'[r].st = x /\ runs'[r].fail = v.fail /\ runs'[r].fence = v.fence
  BY <1>4, <1>8
<1>12. runs' = [runs EXCEPT ![r] = b2] => RunTouched(r) /\ runs'[r].st = v.st /\ runs'[r].fail = v.fail /\ runs'[r].fence = x
  BY <1>5, <1>9
<1>. QED  BY <1>10, <1>11, <1>12 DEF a1, a2, b2, a, b, v

(* The job of a failed run.                                                 *)
LEMMA JobFailed ==
    ASSUME JobsOK, NEW j \in Jobs, NEW f, NEW r,
           job' = [job EXCEPT ![j].st = "failed", ![j].fail = f, ![j].ref = r]
    PROVE  /\ JobTouched(j) /\ job'[j].st = "failed" /\ job'[j].fail = f /\ job'[j].ref = r
           /\ job'[j].cancel = job[j].cancel
<1>. DEFINE v == job[j]
            a == [v EXCEPT !.st = "failed"]
            b == [a EXCEPT !.fail = f]
            w == [b EXCEPT !.ref = r]
<1>0. IsJob(v) /\ DOMAIN job = Jobs
  BY DEF JobsOK
<1>1. job' = [job EXCEPT ![j] = w]
  OBVIOUS
<1>2. a = [st |-> "failed", fail |-> v.fail, cancel |-> v.cancel, ref |-> v.ref]
  BY <1>0 DEF IsJob
<1>. HIDE DEF a
<1>3. b = [st |-> "failed", fail |-> f, cancel |-> v.cancel, ref |-> v.ref]
  BY <1>2
<1>. HIDE DEF b
<1>4. w = [st |-> "failed", fail |-> f, cancel |-> v.cancel, ref |-> r]
  BY <1>3
<1>. HIDE DEF w
<1>. QED  BY <1>0, <1>1, <1>4 DEF JobTouched

(* The failure of a running run.                                            *)
LEMMA FailRunCore ==
    ASSUME JobsOK, RunsOK, NEW r \in DOMAIN runs, Running(r), NEW f, FailRun(r, f)
    PROVE  \/ RunCancelled(r)
           \/ job' = job /\ runs[r].kind \in ReviewRuns /\ RunEnded(r, "failed") /\ runs'[r].fail = f
           \/ StageFailed(r, f)
<1>. DEFINE j == runs[r].job
<1>0. j \in Jobs /\ ~AlreadyDecided(r)
  BY DEF RunsOK, AlreadyDecided, Running
<1>1. CASE CancelWins(r, f)
  <2>. DEFINE a == [runs[r] EXCEPT !.st = "cancelled"]
              y == IF a.step = "started" THEN "failed" ELSE a.step
  <2>1. runs' = [runs EXCEPT ![r] = [a EXCEPT !.step = y]] /\ FinalizeCancelledJob(j)
    BY <1>1 DEF FailRun
  <2>. HIDE DEF y
  <2>2. RunTouched(r) /\ runs'[r].st = "cancelled" /\ runs'[r].fail = runs[r].fail
        /\ runs'[r].fence = runs[r].fence
    BY <2>1, RunTwoColumns
  <2>3. JobTouched(j) /\ job'[j].st = "cancelled"
    BY <1>0, <2>1, JobFinalized
  <2>. QED  BY <1>1, <2>2, <2>3 DEF RunCancelled, RunEnded, CancelWins
<1>2. CASE ~CancelWins(r, f)
  <2>1. RunTouched(r) /\ runs'[r].st = "failed" /\ runs'[r].fail = f /\ runs'[r].fence = runs[r].fence
    <3>1. runs' = [runs EXCEPT ![r] = [[runs[r] EXCEPT !.st = "failed"] EXCEPT !.fail = f]]
      BY <1>0, <1>2 DEF FailRun, FailedRun
    <3>. QED  BY <3>1, RunTwoColumns
  <2>2. RunEnded(r, "failed")
    BY <2>1 DEF RunEnded
  <2>3. CASE runs[r].kind \in ReviewRuns
    BY <1>0, <1>2, <2>1, <2>2, <2>3 DEF FailRun, ReviewRuns
  <2>4. CASE runs[r].kind \notin ReviewRuns
    <3>1. FailJobOf(r, f)
      BY <1>0, <1>2, <2>4 DEF FailRun, ReviewRuns
    <3>2. CASE job[j].st = "cancelled"
      BY <2>1, <2>2, <2>4, <3>1, <3>2 DEF FailJobOf, StageFailed
    <3>3. CASE job[j].st # "cancelled"
      <4>1. job' = [job EXCEPT ![j].st = "failed", ![j].fail = f, ![j].ref = r]
        BY <3>1, <3>3 DEF FailJobOf
      <4>3. f = "recovery_required" \/ ~job[j].cancel
        BY <1>2 DEF CancelWins
      <4>. HIDE DEF j
      <4>2. /\ JobTouched(j) /\ job'[j].st = "failed" /\ job'[j].fail = f /\ job'[j].ref = r
            /\ job'[j].cancel = job[j].cancel
        BY <1>0, <4>1, JobFailed
      <4>. QED  BY <2>1, <2>2, <2>4, <4>2, <4>3 DEF StageFailed, j
    <3>. QED  BY <3>2, <3>3
  <2>. QED  BY <2>3, <2>4
<1>. QED  BY <1>1, <1>2

(* The transactions of the Worker.                                          *)
LEMMA RunTransactionCore ==
    ASSUME JobsOK, RunsOK, NEW r \in DOMAIN runs, RunTransaction(r)
    PROVE  RunCore(r)
<1>. DEFINE j == runs[r].job
<1>0. j \in Jobs
  BY DEF RunsOK
<1>1. CASE ClaimNextRun(r)
  <2>1. RunTouched(r) /\ runs'[r].st = "running" /\ runs'[r].fail = runs[r].fail
        /\ runs'[r].fence = runs[r].fence
    BY <1>1, RunStatusWritten DEF ClaimNextRun
  <2>2. Claimable(r) /\ job' = job
    BY <1>1 DEF ClaimNextRun
  <2>3. runs[r].st = "queued" /\ (runs[r].kind \in ReviewRuns => job[j].st = "annotated")
    BY <2>2 DEF Claimable, ReviewRuns
  <2>. QED  BY <2>1, <2>2, <2>3 DEF RunClaimed, RunCore
<1>2. CASE StartStep(r) \/ FinishStep(r, TRUE) \/ FailActiveStep(r)
  <2>1. RunNoted(r) /\ job' = job
    BY <1>2, RunStepWritten DEF StartStep, FinishStep, FailActiveStep
  <2>. QED  BY <2>1 DEF RunCore
<1>3. CASE BeginPublication(r)
  <2>1. runs' = [runs EXCEPT ![r] = [[runs[r] EXCEPT !.fence = TRUE] EXCEPT !.step = "started"]]
    BY <1>3 DEF BeginPublication
  <2>2. RunTouched(r) /\ runs'[r].st = runs[r].st /\ runs'[r].fail = runs[r].fail /\ runs'[r].fence = TRUE
    BY <2>1, RunTwoColumns
  <2>. QED  BY <1>3, <2>2 DEF RunFenced, BeginPublication, PublicationAllowed, RunCore
<1>4. CASE CompleteAsCancelled(r)
  <2>1. RunTouched(r) /\ runs'[r].st = "cancelled" /\ runs'[r].fail = runs[r].fail
        /\ runs'[r].fence = runs[r].fence
    BY <1>4, RunStatusWritten DEF CompleteAsCancelled, FinishRun
  <2>2. JobTouched(j) /\ job'[j].st = "cancelled"
    BY <1>0, <1>4, JobFinalized DEF CompleteAsCancelled
  <2>. QED  BY <1>4, <2>1, <2>2 DEF CompleteAsCancelled, RunCancelled, RunEnded, RunCore
<1>5. ASSUME NEW f, Running(r), FailRun(r, f)
      PROVE  RunCore(r)
  BY <1>5, FailRunCore DEF RunCore
<1>6. ASSUME FinishRun(r, "succeeded"), Running(r)
      PROVE  RunEnded(r, "succeeded")
  BY <1>6, RunStatusWritten DEF FinishRun, RunEnded
<1>7. ASSUME NEW S \in SUBSET Segs, runs[r].kind = "prepare", CompletePrepare(r, S)
      PROVE  RunCore(r)
  <2>1. RunEnded(r, "succeeded") /\ ~job[j].cancel
    BY <1>6, <1>7 DEF CompletePrepare
  <2>2. job' = [job EXCEPT ![j].st = "waiting_initial_annotation"]
    BY <1>7 DEF CompletePrepare
  <2>3. JobTouched(j) /\ job'[j].st = "waiting_initial_annotation" /\ job'[j].cancel = job[j].cancel
    BY <1>0, <2>2, JobStatusWritten
  <2>. QED  BY <1>7, <2>1, <2>3 DEF StageDone, ReviewRuns, RunCore
<1>8. CASE runs[r].kind = "tracking" /\ CompleteTracking(r)
  <2>1. RunEnded(r, "succeeded") /\ ~job[j].cancel
    BY <1>6, <1>8 DEF CompleteTracking
  <2>2. job' = [job EXCEPT ![j].st = "tracked"]
    BY <1>8 DEF CompleteTracking
  <2>3. JobTouched(j) /\ job'[j].st = "tracked" /\ job'[j].cancel = job[j].cancel
    BY <1>0, <2>2, JobStatusWritten
  <2>. QED  BY <1>8, <2>1, <2>3 DEF StageDone, ReviewRuns, RunCore
<1>9. CASE CompletePostprocessing(r)
  <2>1. RunEnded(r, "succeeded") /\ ~job[j].cancel /\ runs[r].kind = "postprocessing"
    BY <1>6, <1>9 DEF CompletePostprocessing
  <2>2. job' = [job EXCEPT ![j].st = "annotated"]
    BY <1>9 DEF CompletePostprocessing
  <2>3. JobTouched(j) /\ job'[j].st = "annotated" /\ job'[j].cancel = job[j].cancel
    BY <1>0, <2>2, JobStatusWritten
  <2>. QED  BY <2>1, <2>3 DEF StageDone, ReviewRuns, RunCore
<1>10. CASE CompleteFixRun(r) \/ CompletePublication(r)
  BY <1>6, <1>10 DEF CompleteFixRun, CompletePublication, ReviewRuns, RunCore
<1>11. CASE RecordCheckpoint(r, cseg, SubmittedContent(runs[r].job, cseg))
  BY <1>11 DEF RecordCheckpoint, RunCore
<1>. QED  BY <1>1, <1>2, <1>3, <1>4, <1>5, <1>7, <1>8, <1>9, <1>10, <1>11 DEF RunTransaction

(* _cancel_job *)
LEMMA CancelCore ==
    ASSUME JobsOK, RunsOK, NEW j \in Jobs, job[j].st \notin {"none", "tracked", "annotated", "cancelled"},
           Decided(j), CancelActiveJob(j)
    PROVE  CancelAsked(j) \/ CancelDone(j)
<1>1. QueuedCancelled(j)
  <2>1. runs' = CancelQueued(j)
    BY DEF CancelActiveJob
  <2>2. ASSUME NEW r \in DOMAIN runs
        PROVE  LET w == [runs[r] EXCEPT !.st = "cancelled"]
               IN SameRun(runs[r], w) /\ w.st = "cancelled" /\ w.fail = runs[r].fail /\ w.fence = runs[r].fence
    <3>. DEFINE v == runs[r]
                w == [v EXCEPT !.st = "cancelled"]
    <3>1. IsRun(v)
      BY DEF RunsOK
    <3>2. w = [job |-> v.job, kind |-> v.kind, seg |-> v.seg, d |-> v.d,
               st |-> "cancelled", fail |-> v.fail, fence |-> v.fence, step |-> v.step]
      BY <3>1 DEF IsRun
    <3>. HIDE DEF w
    <3>3. SameRun(v, w) /\ w.st = "cancelled" /\ w.fail = v.fail /\ w.fence = v.fence
      BY <3>2 DEF SameRun
    <3>. QED  BY <3>3 DEF w
  <2>. QED  BY <2>1, <2>2 DEF CancelQueued, QueuedCancelled
<1>2. CASE RunsOf(j, {"running"}) # {}
  <2>. DEFINE w == [job[j] EXCEPT !.cancel = TRUE]
  <2>1. ~Fenced(j) /\ job' = [job EXCEPT ![j] = w] /\ DOMAIN job = Jobs
    BY <1>2 DEF CancelActiveJob, JobsOK
  <2>2. IsJob(job[j])
    BY DEF JobsOK
  <2>3. w.st = job[j].st /\ w.fail = job[j].fail /\ w.ref = job[j].ref /\ w.cancel = TRUE
    BY <2>2, JobColumns
  <2>. HIDE DEF w
  <2>4. /\ JobTouched(j) /\ job'[j].st = job[j].st /\ job'[j].fail = job[j].fail
        /\ job'[j].ref = job[j].ref /\ job'[j].cancel
    BY <2>1, <2>3 DEF JobTouched
  <2>. QED  BY <1>1, <1>2, <2>1, <2>4 DEF CancelAsked
<1>3. CASE RunsOf(j, {"running"}) = {}
  <2>1. JobTouched(j) /\ job'[j].st = "cancelled"
    BY <1>3, JobFinalized DEF CancelActiveJob
  <2>. QED  BY <1>1, <1>3, <2>1 DEF CancelDone
<1>. QED  BY <1>2, <1>3

(* Jobs that are created, returned, moved on or cancelled.                  *)
LEMMA JobTransactionCore ==
    ASSUME JobsOK, RunsOK, NEW j \in Jobs, JobTransaction(j)
    PROVE  RequestCore
<1>1. ASSUME NEW kind, RunQueued(j, kind), JobTouched(j), Decided(j), job'[j].st = StageOf(kind),
             job[j].st \in {"none", "waiting_initial_annotation", "tracked", "failed"},
             job'[j].cancel => job[j].cancel
      PROVE  RequestCore
  BY <1>1 DEF StageEntered, RequestCore
<1>2. CASE CreateJob(j)
  <2>1. RunQueued(j, "prepare")
    BY <1>2, RunEnqueued DEF CreateJob
  <2>2. JobTouched(j) /\ job'[j].st = "preparing" /\ job'[j].cancel = job[j].cancel
    BY <1>2, JobStatusWritten DEF CreateJob
  <2>. QED  BY <1>1, <1>2, <2>1, <2>2 DEF CreateJob, StageOf, Decided
<1>3. CASE job[j].st = "failed" /\ Decided(j) /\ ReturnToStage(j)
  <2>. DEFINE kind == runs[LastRun(j)].kind
              v == [st |-> StageOf(kind), fail |-> "none", cancel |-> FALSE, ref |-> 0]
  <2>1. job' = [job EXCEPT ![j] = v] /\ EnqueueRun(j, kind, None, 0)
    BY <1>3 DEF ReturnToStage, StageOf
  <2>. HIDE DEF kind
  <2>2. RunQueued(j, kind)
    BY <2>1, RunEnqueued
  <2>3. JobTouched(j) /\ job'[j].st = StageOf(kind) /\ ~job'[j].cancel
    BY <2>1 DEF JobsOK, JobTouched
  <2>. QED  BY <1>1, <1>3, <2>2, <2>3
<1>4. CASE StartTracking(j)
  <2>1. RunQueued(j, "tracking")
    BY <1>4, RunEnqueued DEF StartTracking
  <2>2. JobTouched(j) /\ job'[j].st = "tracking" /\ job'[j].cancel = job[j].cancel
    BY <1>4, JobStatusWritten DEF StartTracking
  <2>. QED  BY <1>1, <1>4, <2>1, <2>2 DEF StartTracking, TrackingReady, WaitingJob, StageOf, Decided
<1>5. CASE job[j].st \notin {"none", "tracked", "annotated", "cancelled"} /\ Decided(j) /\ CancelActiveJob(j)
  BY <1>5, CancelCore DEF RequestCore
<1>6. ASSUME NEW t, BeginPostprocessing(j, t)
      PROVE  RequestCore
  <2>1. RunQueued(j, "postprocessing")
    BY <1>6, RunEnqueued DEF BeginPostprocessing
  <2>2. JobTouched(j) /\ job'[j].st = "postprocessing" /\ job'[j].cancel = job[j].cancel
    BY <1>6, JobStatusWritten DEF BeginPostprocessing
  <2>. QED  BY <1>1, <1>6, <2>1, <2>2 DEF BeginPostprocessing, StageOf, Decided
<1>. QED  BY <1>2, <1>3, <1>4, <1>5, <1>6 DEF JobTransaction

(* Every request.                                                           *)
LEMMA OutsideCore ==
    ASSUME JobsOK, RunsOK, OutsideTransaction
    PROVE  RequestCore
<1>1. UNCHANGED <<job, runs>> => RequestCore
  BY DEF RequestCore
<1>2. ASSUME NEW j \in Jobs, NEW s \in Segs, SegmentTransaction(j, s)
      PROVE  RequestCore
  BY <1>1, <1>2 DEF SegmentTransaction, SaveDraft, SubmitSegment, Reopen, Skip, Unskip
<1>3. ASSUME NEW j \in Jobs, NEW s \in Segs, ReviewTransaction(j, s)
      PROVE  RequestCore
  <2>0. job' = job
    BY <1>3
       DEF ReviewTransaction, CreateFixSession, ApplyFixCommand, CreateFixRevision, ResumeReturnedReview,
           DecideReview, ApproveFixRevision, RetryPublication, LinkFix
  <2>1. ASSUME NEW kind \in ReviewRuns, NEW d, EnqueueRun(j, kind, s, d)
        PROVE  RequestCore
    BY <2>0, <2>1, RunEnqueued DEF RequestCore
  <2>2. "fix" \in ReviewRuns /\ "compatibility_publish" \in ReviewRuns
    BY DEF ReviewRuns
  <2>. QED
    BY <1>1, <1>3, <2>0, <2>1, <2>2
       DEF ReviewTransaction, CreateFixSession, ApplyFixCommand, CreateFixRevision, ResumeReturnedReview,
           DecideReview, ApproveFixRevision, RetryPublication, EnqueuePublication, LinkFix
<1>4. CASE CreateDatasetRelease \/ ResetUnreleasedDataset \/ UNCHANGED ledgerVars
  BY <1>1, <1>4 DEF CreateDatasetRelease, ResetUnreleasedDataset, storeVars, ledgerVars
<1>. QED  BY <1>2, <1>3, <1>4, JobTransactionCore DEF OutsideTransaction

-----------------------------------------------------------------------------
(* Reviews.  The last publication of an approved review publishes the       *)
(* approved revision, which was made of the last draft.                     *)
IsReview(v) ==
    v = [st |-> v.st, draft |-> v.draft, fixes |-> v.fixes, appr |-> v.appr, task |-> v.task]
Publications(j, s) ==
    {r \in DOMAIN runs : runs[r].kind = "compatibility_publish" /\ runs[r].job = j /\ runs[r].seg = s}
LastPublished(j, s, k) ==
    \E p \in Publications(j, s) : runs[p].d = k /\ \A q \in Publications(j, s) : q <= p
ApprovedLast(v) == v.appr \in DOMAIN v.fixes /\ v.fixes[v.appr] = v.draft
ReviewsInv ==
    /\ Table(rev)
    /\ \A j \in Jobs, s \in Segs :
          /\ IsReview(rev[j][s]) /\ IsSequence(rev[j][s].fixes)
          /\ rev[j][s].st = "approved" =>
                /\ ApprovedLast(rev[j][s])
                /\ \E k : k = rev[j][s].appr /\ LastPublished(j, s, k)

(* Runs that keep their job, kind, segment and draft.                       *)
RunsRewritten ==
    DOMAIN runs' = DOMAIN runs /\ \A r \in DOMAIN runs : SameRun(runs[r], runs'[r])

(* The Worker rewrites runs, and so does a cancel.                          *)
LEMMA CoreRewrites ==
    ASSUME NEW r, RunCore(r)
    PROVE  RunsRewritten
BY DEF RunCore, RunNoted, RunFenced, RunClaimed, RunEnded, StageDone, RunCancelled, StageFailed, RunTouched,
       RunsRewritten, SameRun

(* Rewritten runs are the same publications.                                *)
LEMMA PublicationsKept ==
    ASSUME RunsRewritten, NEW j, NEW s, NEW k, LastPublished(j, s, k)
    PROVE  LastPublished(j, s, k)'
<1>1. Publications(j, s)' = Publications(j, s)
  BY DEF Publications, RunsRewritten, SameRun
<1>2. \A p \in Publications(j, s) : runs'[p].d = runs[p].d
  BY DEF Publications, RunsRewritten, SameRun
<1>. QED  BY <1>1, <1>2 DEF LastPublished

(* A queued publication is the last one of its review; any other run leaves *)
(* the publications of a review alone.                                      *)
LEMMA PublicationQueued ==
    ASSUME RunsOK, NEW j, NEW s, NEW d, NEW kind, EnqueueRun(j, kind, s, d), NEW i, NEW u, NEW k
    PROVE  /\ kind = "compatibility_publish" => LastPublished(j, s, d)'
           /\ (i # j \/ u # s \/ kind # "compatibility_publish") /\ LastPublished(i, u, k) => LastPublished(i, u, k)'
<1>. DEFINE n == Len(runs) + 1
            e == [job |-> j, kind |-> kind, seg |-> s, d |-> d, st |-> "queued", fail |-> "none",
                  fence |-> FALSE, step |-> "idle"]
<1>1. runs' = Append(runs, e)
  BY DEF EnqueueRun
<1>2. e.job = j /\ e.kind = kind /\ e.seg = s /\ e.d = d
  OBVIOUS
<1>. HIDE DEF e
<1>3. /\ DOMAIN runs' = DOMAIN runs \cup {n} /\ runs'[n] = e /\ n \notin DOMAIN runs
      /\ \A r \in DOMAIN runs : runs'[r] = runs[r]
  BY <1>1, RunsGrow
<1>4. \A r \in DOMAIN runs' : r <= n
  <2>1. Len(runs) \in Nat /\ DOMAIN runs = 1 .. Len(runs)
    BY SequenceDomain DEF RunsOK
  <2>. QED  BY <1>3, <2>1
<1>. HIDE DEF n
<1>5. kind = "compatibility_publish" => LastPublished(j, s, d)'
  BY <1>2, <1>3, <1>4 DEF LastPublished, Publications
<1>6. ASSUME i # j \/ u # s \/ kind # "compatibility_publish", LastPublished(i, u, k)
      PROVE  LastPublished(i, u, k)'
  <2>1. Publications(i, u)' = Publications(i, u)
    BY <1>2, <1>3, <1>6 DEF Publications
  <2>. QED  BY <1>3, <1>6, <2>1 DEF LastPublished, Publications
<1>. QED  BY <1>5, <1>6

(* Reviews that stay as they are.                                           *)
LEMMA ReviewsSame ==
    ASSUME ReviewsInv, UNCHANGED rev,
           \A j \in Jobs, s \in Segs : \A k : LastPublished(j, s, k) => LastPublished(j, s, k)'
    PROVE  ReviewsInv'
BY DEF ReviewsInv, Table

(* One review is written.                                                   *)
LEMMA ReviewWritten ==
    ASSUME ReviewsInv, NEW j \in Jobs, NEW s \in Segs, NEW w, rev' = [rev EXCEPT ![j][s] = w],
           \A i \in Jobs, u \in Segs : \A k : (i # j \/ u # s) /\ LastPublished(i, u, k) => LastPublished(i, u, k)',
           IsReview(w), IsSequence(w.fixes),
           w.st = "approved" => ApprovedLast(w) /\ \E k : k = w.appr /\ LastPublished(j, s, k)'
    PROVE  ReviewsInv'
<1>1. Replaced(rev, rev', j, s, w)
  BY RowReplaced DEF ReviewsInv
<1>2. ASSUME NEW i \in Jobs, NEW u \in Segs
      PROVE  /\ IsReview(rev'[i][u]) /\ IsSequence(rev'[i][u].fixes)
             /\ rev'[i][u].st = "approved" =>
                   ApprovedLast(rev'[i][u]) /\ \E k : k = rev'[i][u].appr /\ LastPublished(i, u, k)'
  <2>1. CASE i = j /\ u = s
    BY <1>1, <2>1 DEF Replaced
  <2>2. CASE i # j \/ u # s
    <3>1. rev'[i][u] = rev[i][u]
      BY <1>1, <2>2 DEF Replaced
    <3>. QED  BY <2>2, <3>1 DEF ReviewsInv
  <2>. QED  BY <2>1, <2>2
<1>. QED  BY <1>1, <1>2 DEF ReviewsInv, Replaced, Table

(* The columns of a review.                                                 *)
LEMMA ReviewColumns ==
    ASSUME NEW v, IsReview(v), NEW x
    PROVE  /\ [v EXCEPT !.st = x] = [st |-> x, draft |-> v.draft, fixes |-> v.fixes, appr |-> v.appr, task |-> v.task]
           /\ [v EXCEPT !.draft = x] = [st |-> v.st, draft |-> x, fixes |-> v.fixes, appr |-> v.appr, task |-> v.task]
           /\ [v EXCEPT !.fixes = x] = [st |-> v.st, draft |-> v.draft, fixes |-> x, appr |-> v.appr, task |-> v.task]
           /\ [v EXCEPT !.task = x] = [st |-> v.st, draft |-> v.draft, fixes |-> v.fixes, appr |-> v.appr, task |-> x]
BY DEF IsReview

(* The requests about a review.                                             *)
LEMMA ReviewRequested ==
    ASSUME RunsOK, ReviewsInv, NEW j \in Jobs, NEW s \in Segs, ReviewTransaction(j, s)
    PROVE  ReviewsInv'
<1>. DEFINE v == rev[j][s]
<1>0. IsReview(v) /\ IsSequence(v.fixes)
  BY DEF ReviewsInv
<1>. DEFINE Row(st, draft, fixes, appr, task) ==
                [st |-> st, draft |-> draft, fixes |-> fixes, appr |-> appr, task |-> task]
<1>1. ASSUME runs' = runs
      PROVE  \A i \in Jobs, u \in Segs : \A k : LastPublished(i, u, k) => LastPublished(i, u, k)'
  BY <1>1 DEF LastPublished, Publications
<1>2. ASSUME NEW w, rev' = [rev EXCEPT ![j][s] = w], runs' = runs, IsReview(w), IsSequence(w.fixes), w.st # "approved"
      PROVE  ReviewsInv'
  BY <1>1, <1>2, ReviewWritten
<1>3. CASE CreateFixSession(j, s)
  <2>. DEFINE w1 == [v EXCEPT !.st = "in_progress"]
              w2 == [w1 EXCEPT !.draft = 1]
  <2>1. rev' = [rev EXCEPT ![j][s] = w2] /\ runs' = runs
    BY <1>3 DEF CreateFixSession
  <2>2. w1 = Row("in_progress", v.draft, v.fixes, v.appr, v.task)
    BY <1>0 DEF IsReview
  <2>. HIDE DEF w1
  <2>3. w2 = Row("in_progress", 1, v.fixes, v.appr, v.task)
    BY <2>2
  <2>. HIDE DEF w2
  <2>4. IsReview(w2) /\ w2.fixes = v.fixes /\ w2.st # "approved"
    BY <2>3 DEF IsReview
  <2>. QED  BY <1>0, <1>2, <2>1, <2>4
<1>4. ASSUME NEW x, x # "approved", rev' = [rev EXCEPT ![j][s].st = x], runs' = runs
      PROVE  ReviewsInv'
  <2>. DEFINE w == [v EXCEPT !.st = x]
  <2>1. rev' = [rev EXCEPT ![j][s] = w]
    BY <1>4
  <2>2. w = Row(x, v.draft, v.fixes, v.appr, v.task)
    BY <1>0 DEF IsReview
  <2>. HIDE DEF w
  <2>3. IsReview(w) /\ w.fixes = v.fixes /\ w.st = x
    BY <2>2 DEF IsReview
  <2>. QED  BY <1>0, <1>2, <1>4, <2>1, <2>3
<1>5. CASE ResumeReturnedReview(j, s) \/ \E decision \in {"returned", "discarded"} : DecideReview(j, s, decision)
  BY <1>4, <1>5 DEF ResumeReturnedReview, DecideReview
<1>6. CASE ApplyFixCommand(j, s)
  <2>. DEFINE x == v.draft + 1
              w == [v EXCEPT !.draft = x]
  <2>1. rev' = [rev EXCEPT ![j][s] = w] /\ runs' = runs /\ v.st = "in_progress"
    BY <1>6 DEF ApplyFixCommand
  <2>. HIDE DEF x
  <2>2. w = Row(v.st, x, v.fixes, v.appr, v.task)
    BY <1>0 DEF IsReview
  <2>. HIDE DEF w
  <2>3. IsReview(w) /\ w.fixes = v.fixes /\ w.st # "approved"
    BY <2>1, <2>2 DEF IsReview
  <2>. QED  BY <1>0, <1>2, <2>1, <2>3
<1>7. CASE CreateFixRevision(j, s)
  <2>1. UNCHANGED rev /\ EnqueueRun(j, "fix", s, v.draft)
    BY <1>7 DEF CreateFixRevision
  <2>2. \A i \in Jobs, u \in Segs : \A k : LastPublished(i, u, k) => LastPublished(i, u, k)'
    BY <2>1, PublicationQueued
  <2>. QED  BY <2>1, <2>2, ReviewsSame
<1>8. ASSUME NEW k, ApproveFixRevision(j, s, k)
      PROVE  ReviewsInv'
  <2>. DEFINE w1 == [v EXCEPT !.st = "approved"]
              w2 == [w1 EXCEPT !.appr = k]
  <2>1. /\ rev' = [rev EXCEPT ![j][s] = w2] /\ EnqueueRun(j, "compatibility_publish", s, k)
        /\ k \in DOMAIN v.fixes /\ v.fixes[k] = v.draft
    BY <1>8 DEF ApproveFixRevision, EnqueuePublication
  <2>2. w1 = Row("approved", v.draft, v.fixes, v.appr, v.task)
    BY <1>0 DEF IsReview
  <2>. HIDE DEF w1
  <2>3. w2 = Row("approved", v.draft, v.fixes, k, v.task)
    BY <2>2
  <2>. HIDE DEF w2
  <2>4. IsReview(w2) /\ w2.fixes = v.fixes /\ w2.appr = k /\ w2.draft = v.draft
    BY <2>3 DEF IsReview
  <2>5. /\ LastPublished(j, s, k)'
        /\ \A i \in Jobs, u \in Segs : \A q : (i # j \/ u # s) /\ LastPublished(i, u, q) => LastPublished(i, u, q)'
    BY <2>1, PublicationQueued
  <2>6. ApprovedLast(w2) /\ IsSequence(w2.fixes)
    BY <1>0, <2>1, <2>4 DEF ApprovedLast
  <2>7. \E q : q = w2.appr /\ LastPublished(j, s, q)'
    BY <2>4, <2>5
  <2>. QED  BY <2>1, <2>4, <2>5, <2>6, <2>7, ReviewWritten
<1>9. CASE RetryPublication(j, s)
  <2>0. PICK k : k = v.appr
    OBVIOUS
  <2>1. UNCHANGED rev /\ EnqueueRun(j, "compatibility_publish", s, k)
    BY <1>9, <2>0 DEF RetryPublication, EnqueuePublication
  <2>2. /\ LastPublished(j, s, k)'
        /\ \A i \in Jobs, u \in Segs : \A q : (i # j \/ u # s) /\ LastPublished(i, u, q) => LastPublished(i, u, q)'
    BY <2>1, PublicationQueued
  <2>3. \A i \in Jobs, u \in Segs : \A q : q = rev[i][u].appr /\ LastPublished(i, u, q) => LastPublished(i, u, q)'
    BY <2>0, <2>2
  <2>. QED  BY <2>1, <2>3 DEF ReviewsInv, Table
<1>10. ASSUME NEW t, LinkFix(j, s, t)
      PROVE  ReviewsInv'
  <2>. DEFINE w == [v EXCEPT !.task = t]
  <2>1. rev' = [rev EXCEPT ![j][s] = w] /\ runs' = runs
    BY <1>10 DEF LinkFix
  <2>2. w = Row(v.st, v.draft, v.fixes, v.appr, t)
    BY <1>0 DEF IsReview
  <2>. HIDE DEF w
  <2>3. IsReview(w) /\ w.fixes = v.fixes /\ w.st = v.st /\ w.appr = v.appr /\ w.draft = v.draft
    BY <2>2 DEF IsReview
  <2>4. w.st = "approved" => ApprovedLast(w) /\ \E k : k = w.appr /\ LastPublished(j, s, k)'
    BY <1>1, <2>1, <2>3 DEF ReviewsInv, ApprovedLast
  <2>. QED  BY <1>0, <1>1, <2>1, <2>3, <2>4, ReviewWritten
<1>. QED  BY <1>3, <1>5, <1>6, <1>7, <1>8, <1>9, <1>10 DEF ReviewTransaction

(* complete_postprocessing_run: every postprocessed segment gets a pending  *)
(* review.                                                                  *)
LEMMA ReviewsCreated ==
    ASSUME ReviewsInv, NEW r, runs[r].job \in Jobs, CompletePostprocessing(r), RunsRewritten
    PROVE  ReviewsInv'
<1>. DEFINE j == runs[r].job
            done == SegmentsIn(j, {"postprocessing"})
<1>1. /\ Table(rev')
      /\ \A i \in Jobs, s \in Segs :
            rev'[i][s] = IF i = j /\ s \in done THEN [rev[j][s] EXCEPT !.st = "pending"] ELSE rev[i][s]
  BY DEF CompletePostprocessing, ReviewsInv, Table
<1>. HIDE DEF done, j
<1>2. ASSUME NEW i \in Jobs, NEW s \in Segs
      PROVE  /\ IsReview(rev'[i][s]) /\ IsSequence(rev'[i][s].fixes)
             /\ rev'[i][s].st = "approved" =>
                   ApprovedLast(rev'[i][s]) /\ \E k : k = rev'[i][s].appr /\ LastPublished(i, s, k)'
  <2>1. CASE i = j /\ s \in done
    <3>. DEFINE v == rev[j][s]
                w == [v EXCEPT !.st = "pending"]
    <3>1. IsReview(v) /\ IsSequence(v.fixes) /\ rev'[i][s] = w
      BY <1>1, <2>1 DEF ReviewsInv
    <3>2. w = [st |-> "pending", draft |-> v.draft, fixes |-> v.fixes, appr |-> v.appr, task |-> v.task]
      BY <3>1 DEF IsReview
    <3>. HIDE DEF w
    <3>3. IsReview(w) /\ w.fixes = v.fixes /\ w.st # "approved"
      BY <3>2 DEF IsReview
    <3>. QED  BY <3>1, <3>3
  <2>2. CASE ~(i = j /\ s \in done)
    <3>1. rev'[i][s] = rev[i][s]
      BY <1>1, <2>2
    <3>2. \A k : LastPublished(i, s, k) => LastPublished(i, s, k)'
      BY PublicationsKept
    <3>. QED  BY <3>1, <3>2 DEF ReviewsInv
  <2>. QED  BY <2>1, <2>2
<1>. QED  BY <1>1, <1>2 DEF ReviewsInv

(* The Worker.                                                              *)
LEMMA ReviewsOfRun ==
    ASSUME JobsOK, RunsOK, ReviewsInv, NEW r \in DOMAIN runs, RunTransaction(r)
    PROVE  ReviewsInv'
<1>0. RunsRewritten /\ runs[r].job \in Jobs
  BY RunTransactionCore, CoreRewrites DEF RunsOK
<1>1. rev' = rev => ReviewsInv'
  BY <1>0, PublicationsKept, ReviewsSame
<1>2. CASE CompletePostprocessing(r)
  BY <1>0, <1>2, ReviewsCreated
<1>3. CASE CompleteFixRun(r)
  <2>. DEFINE j == runs[r].job
              s == runs[r].seg
              v == rev[j][s]
              more == Append(v.fixes, runs[r].d)
              w == [v EXCEPT !.fixes = more]
  <2>1. rev' = [rev EXCEPT ![j][s] = w] /\ v.st = "in_progress"
    BY <1>3 DEF CompleteFixRun, OwnsDraft
  <2>2. CASE s \in Segs
    <3>1. IsReview(v) /\ IsSequence(v.fixes)
      BY <1>0, <2>2 DEF ReviewsInv
    <3>2. IsSequence(more)
      BY <3>1, SequenceAppend, Zenon
    <3>. HIDE DEF more
    <3>3. w = [st |-> v.st, draft |-> v.draft, fixes |-> more, appr |-> v.appr, task |-> v.task]
      BY <3>1 DEF IsReview
    <3>. HIDE DEF w
    <3>4. IsReview(w) /\ w.fixes = more /\ w.st # "approved"
      BY <2>1, <3>3 DEF IsReview
    <3>. HIDE DEF j, s
    <3>5. j \in Jobs
      BY <1>0 DEF j
    <3>6. \A i \in Jobs, u \in Segs : \A k : LastPublished(i, u, k) => LastPublished(i, u, k)'
      BY <1>0, PublicationsKept
    <3>. QED  BY <2>1, <2>2, <3>2, <3>4, <3>5, <3>6, ReviewWritten
  <2>3. CASE s \notin Segs
    <3>1. rev' = rev
      <4>1. rev' = [rev EXCEPT ![j] = [rev[j] EXCEPT ![s] = w]]
        BY <2>1
      <4>. HIDE DEF w, s
      <4>2. Table(rev)
        BY DEF ReviewsInv
      <4>3. [rev[j] EXCEPT ![s] = w] = rev[j]
        BY <1>0, <2>3, <4>2 DEF Table
      <4>. HIDE DEF j
      <4>. QED  BY <4>1, <4>2, <4>3 DEF Table
    <3>. QED  BY <1>1, <3>1
  <2>. QED  BY <2>2, <2>3
<1>4. CASE ClaimNextRun(r) \/ StartStep(r) \/ FinishStep(r, TRUE) \/ FailActiveStep(r) \/ BeginPublication(r)
           \/ CompleteAsCancelled(r) \/ CompleteTracking(r) \/ CompletePublication(r)
  BY <1>1, <1>4
     DEF ClaimNextRun, StartStep, FinishStep, FailActiveStep, BeginPublication, CompleteAsCancelled,
         CompleteTracking, CompletePublication
<1>5. ASSUME NEW f, FailRun(r, f)
      PROVE  rev' = rev
  BY <1>5 DEF FailRun, FailJobOf, storeVars
<1>6. ASSUME NEW S, CompletePrepare(r, S)
      PROVE  rev' = rev
  BY <1>6 DEF CompletePrepare
<1>7. ASSUME NEW s, NEW c, RecordCheckpoint(r, s, c)
      PROVE  rev' = rev
  BY <1>7 DEF RecordCheckpoint
<1>. QED  BY <1>1, <1>2, <1>3, <1>4, <1>5, <1>6, <1>7 DEF RunTransaction

(* Jobs: what they queue is no publication of a segment.                    *)
LEMMA ReviewsOfJob ==
    ASSUME RunsOK, ReviewsInv, NEW j \in Jobs, JobTransaction(j)
    PROVE  ReviewsInv'
<1>0. rev' = rev
  BY DEF JobTransaction, CreateJob, ReturnToStage, StartTracking, CancelActiveJob, BeginPostprocessing
<1>1. ASSUME NEW kind, NEW d, EnqueueRun(j, kind, None, d)
      PROVE  ReviewsInv'
  <2>1. None \notin Segs
    BY StoreAssumption
  <2>2. \A i \in Jobs, u \in Segs : \A k : LastPublished(i, u, k) => LastPublished(i, u, k)'
    BY <1>1, <2>1, PublicationQueued
  <2>. QED  BY <1>0, <2>2, ReviewsSame
<1>2. CASE CancelActiveJob(j)
  <2>1. runs' = CancelQueued(j)
    BY <1>2 DEF CancelActiveJob
  <2>2. ASSUME NEW r \in DOMAIN runs
        PROVE  SameRun(runs[r], [runs[r] EXCEPT !.st = "cancelled"])
    <3>1. IsRun(runs[r])
      BY DEF RunsOK
    <3>. QED  BY <3>1 DEF IsRun, SameRun
  <2>3. RunsRewritten
    BY <2>1, <2>2 DEF CancelQueued, RunsRewritten, SameRun
  <2>. QED  BY <1>0, <2>3, PublicationsKept, ReviewsSame
<1>. QED
  BY <1>1, <1>2 DEF JobTransaction, CreateJob, ReturnToStage, StartTracking, BeginPostprocessing

(* Every step.                                                              *)
LEMMA ReviewsKept ==
    ASSUME LedgerOK, ReviewsInv, [Next]_vars
    PROVE  ReviewsInv'
<1>0. JobsOK /\ RunsOK
  BY DEF LedgerOK, TablesOK
<1>1. UNCHANGED <<rev, runs>> => ReviewsInv'
  BY ReviewsSame DEF LastPublished, Publications
<1>2. CASE OutsideTransaction
  <2>1. ASSUME NEW j \in Jobs, NEW s \in Segs, SegmentTransaction(j, s)
        PROVE  UNCHANGED <<rev, runs>>
    BY <2>1 DEF SegmentTransaction, SaveDraft, SubmitSegment, Reopen, Skip, Unskip
  <2>2. CASE CreateDatasetRelease \/ ResetUnreleasedDataset \/ UNCHANGED ledgerVars
    BY <1>1, <2>2 DEF CreateDatasetRelease, ResetUnreleasedDataset, storeVars, ledgerVars
  <2>. QED  BY <1>0, <1>1, <1>2, <2>1, <2>2, ReviewRequested, ReviewsOfJob DEF OutsideTransaction
<1>3. CASE WorkerTransaction
  BY <1>0, <1>1, <1>3, ReviewsOfRun DEF WorkerTransaction, ledgerVars
<1>. QED  BY <1>2, <1>3, EveryTransaction

(* The last publication is the one LatestPublication chooses.               *)
LEMMA LatestIsLast ==
    ASSUME RunsOK, NEW j, NEW s, NEW k, LastPublished(j, s, k)
    PROVE  LatestPublication(j, s) \in DOMAIN runs /\ LatestPublication(j, s) # 0
           /\ runs[LatestPublication(j, s)].d = k
<1>1. PICK p \in Publications(j, s) : runs[p].d = k /\ \A q \in Publications(j, s) : q <= p
  BY DEF LastPublished
<1>2. DOMAIN runs = 1 .. Len(runs) /\ Len(runs) \in Nat
  BY SequenceDomain DEF RunsOK
<1>3. Publications(j, s) \subseteq 1 .. Len(runs)
  BY <1>2 DEF Publications
<1>4. \A r \in Publications(j, s) : (\A q \in Publications(j, s) : q <= r) => r = p
  BY <1>1, <1>2, <1>3
<1>5. LatestPublication(j, s) = CHOOSE r \in Publications(j, s) : \A q \in Publications(j, s) : q <= r
  BY <1>1 DEF LatestPublication, Publications
<1>6. LatestPublication(j, s) = p
  BY <1>1, <1>4, <1>5
<1>. QED  BY <1>1, <1>2, <1>3, <1>6

(* Initially.                                                               *)
LEMMA ReviewsInitially == Init => ReviewsInv
<1>. SUFFICES ASSUME Init PROVE ReviewsInv
  OBVIOUS
<1>1. Table(rev) /\ \A j \in Jobs, s \in Segs : rev[j][s] = NewReview
  BY DEF Init, StoreInit, Table
<1>2. IsSequence(<<>>)
  BY DEF IsSequence
<1>3. IsReview(NewReview) /\ NewReview.fixes = <<>> /\ NewReview.st # "approved"
  BY DEF NewReview, IsReview
<1>. QED  BY <1>1, <1>2, <1>3 DEF ReviewsInv

(* What is approved and published is the last state of the reviewed draft:  *)
(* no draft saved, fix approved (approve_fix_revision) or publication tried *)
(* again (retry_compatibility_publication) changes it under the approval.   *)
THEOREM ApprovedReviewsMatch == Spec => []ApprovedMatchesDraft
<1>1. LedgerOK /\ ReviewsInv /\ [Next]_vars => LedgerOK' /\ ReviewsInv'
  BY LedgerKept, ReviewsKept
<1>2. LedgerOK /\ ReviewsInv => ApprovedMatchesDraft
  <2>. SUFFICES ASSUME LedgerOK, ReviewsInv, NEW j \in Jobs, NEW s \in Segs, rev[j][s].st = "approved"
                PROVE  /\ rev[j][s].fixes[rev[j][s].appr] = rev[j][s].draft
                       /\ LatestPublication(j, s) # 0
                       /\ runs[LatestPublication(j, s)].d = rev[j][s].appr
    BY DEF ApprovedMatchesDraft
  <2>1. PICK k : ApprovedLast(rev[j][s]) /\ k = rev[j][s].appr /\ LastPublished(j, s, k)
    BY DEF ReviewsInv
  <2>2. RunsOK
    BY DEF LedgerOK, TablesOK
  <2>3. LatestPublication(j, s) # 0 /\ runs[LatestPublication(j, s)].d = rev[j][s].appr
    BY <2>1, <2>2, LatestIsLast
  <2>. QED  BY <2>1, <2>3 DEF ApprovedLast
<1>. QED  BY LedgerInitially, ReviewsInitially, <1>1, <1>2, PTL DEF Spec

-----------------------------------------------------------------------------
(* Stages.  A queued or running run of the pipeline is the only one of its  *)
(* job and finds the job in the stage that wants it; Fix and publication    *)
(* runs are executed for an annotated job; an annotated job has no cancel   *)
(* request.                                                                 *)
Active(v) == v.st \in {"queued", "running"}
StageInv ==
    /\ \A r \in DOMAIN runs : Active(runs[r]) /\ runs[r].kind \notin ReviewRuns =>
          job[runs[r].job].st = StageOf(runs[r].kind)
    /\ \A r, q \in DOMAIN runs :
          /\ Active(runs[r]) /\ runs[r].kind \notin ReviewRuns
          /\ Active(runs[q]) /\ runs[q].kind \notin ReviewRuns
          /\ runs[r].job = runs[q].job
          => r = q
    /\ \A r \in DOMAIN runs : runs[r].st = "running" /\ runs[r].kind \in ReviewRuns =>
          job[runs[r].job].st = "annotated"
    /\ \A j \in Jobs : job[j].cancel => job[j].st # "annotated"

Stages == {"preparing", "tracking", "postprocessing"}

(* Every kind of run belongs to a stage.                                    *)
LEMMA StageIsStage == \A kind : StageOf(kind) \in Stages
BY DEF StageOf, Stages

(* Runs stay in their jobs, and no run becomes active: the stages of those  *)
(* that stay active are kept.                                               *)
LEMMA StagesSame ==
    ASSUME RunsOK, StageInv, job' = job, RunsRewritten,
           \A r \in DOMAIN runs : Active(runs'[r]) => Active(runs[r]),
           \A r \in DOMAIN runs : runs'[r].st = "running" /\ runs[r].kind \in ReviewRuns =>
               runs[r].st = "running" \/ job[runs[r].job].st = "annotated"
    PROVE  StageInv'
BY DEF StageInv, RunsRewritten, SameRun

(* A run that ends and a job that changes.                                  *)
LEMMA StageEnds ==
    ASSUME RunsOK, StageInv, NEW r \in DOMAIN runs, Running(r), RunTouched(r), ~Active(runs'[r]),
           JobTouched(runs[r].job),
           job[runs[r].job].cancel \/ runs[r].kind \notin ReviewRuns,
           job'[runs[r].job].cancel => job'[runs[r].job].st # "annotated"
    PROVE  StageInv'
<1>. DEFINE j == runs[r].job
<1>0. j \in Jobs /\ \A q \in DOMAIN runs : runs[q].job \in Jobs
  BY DEF RunsOK
<1>1. runs[r].kind \notin ReviewRuns
  BY <1>0 DEF StageInv, Running
<1>2. job[j].st = StageOf(runs[r].kind) /\ Active(runs[r])
  BY <1>1 DEF StageInv, Active, Running
<1>3. job[j].st # "annotated"
  BY <1>2, StageIsStage DEF Stages
<1>4. \A q \in DOMAIN runs : Active(runs[q]) /\ runs[q].kind \notin ReviewRuns /\ runs[q].job = j => q = r
  BY <1>1, <1>2 DEF StageInv
<1>5. DOMAIN runs' = DOMAIN runs /\ \A q \in DOMAIN runs : q # r => runs'[q] = runs[q]
  BY DEF RunTouched
<1>6. \A i \in Jobs : i # j => job'[i] = job[i]
  BY DEF JobTouched
<1>7. ASSUME NEW q \in DOMAIN runs, Active(runs'[q]), runs'[q].kind \notin ReviewRuns
      PROVE  q # r /\ runs'[q] = runs[q] /\ runs[q].job # j
  BY <1>4, <1>5, <1>7
<1>8. ASSUME NEW q \in DOMAIN runs, runs'[q].st = "running", runs'[q].kind \in ReviewRuns
      PROVE  q # r /\ runs'[q] = runs[q] /\ runs[q].job # j
  <2>1. q # r /\ runs'[q] = runs[q]
    BY <1>5, <1>8 DEF Active
  <2>. QED  BY <1>3, <1>8, <2>1 DEF StageInv
<1>. QED  BY <1>0, <1>5, <1>6, <1>7, <1>8 DEF StageInv

(* The Worker.                                                              *)
LEMMA StagesOfRun ==
    ASSUME RunsOK, StageInv, NEW r, RunCore(r)
    PROVE  StageInv'
<1>0. RunsRewritten
  BY CoreRewrites
<1>1. CASE UNCHANGED <<job, runs>>
  BY <1>1 DEF StageInv
<1>2. CASE job' = job /\ (RunNoted(r) \/ RunFenced(r) \/ RunClaimed(r))
  <2>1. RunTouched(r)
    BY <1>2 DEF RunNoted, RunFenced, RunClaimed
  <2>2. \A q \in DOMAIN runs : Active(runs'[q]) => Active(runs[q])
    BY <1>2, <2>1 DEF RunNoted, RunFenced, RunClaimed, RunTouched, Active
  <2>3. \A q \in DOMAIN runs : runs'[q].st = "running" /\ runs[q].kind \in ReviewRuns =>
               runs[q].st = "running" \/ job[runs[q].job].st = "annotated"
    BY <1>2, <2>1 DEF RunNoted, RunFenced, RunClaimed, RunTouched
  <2>. QED  BY <1>0, <1>2, <2>2, <2>3, StagesSame
<1>3. ASSUME job' = job, NEW x, RunEnded(r, x)
      PROVE  StageInv'
  <2>1. \A q \in DOMAIN runs : Active(runs'[q]) => Active(runs[q])
    BY <1>3 DEF RunEnded, RunTouched, Active
  <2>2. \A q \in DOMAIN runs : runs'[q].st = "running" => runs[q].st = "running"
    BY <1>3 DEF RunEnded, RunTouched
  <2>. QED  BY <1>0, <1>3, <2>1, <2>2, StagesSame
<1>4. ASSUME NEW x, RunEnded(r, x)
      PROVE  r \in DOMAIN runs /\ Running(r) /\ RunTouched(r) /\ ~Active(runs'[r])
  BY <1>4 DEF RunEnded, RunTouched, Active
<1>5. CASE StageDone(r)
  BY <1>4, <1>5, StageEnds DEF StageDone
<1>6. CASE RunCancelled(r)
  BY <1>4, <1>6, StageEnds DEF RunCancelled
<1>7. ASSUME NEW f, StageFailed(r, f)
      PROVE  StageInv'
  <2>1. CASE job' = job
    BY <1>3, <1>7, <2>1 DEF StageFailed
  <2>2. CASE job' # job
    BY <1>4, <1>7, <2>2, StageEnds DEF StageFailed
  <2>. QED  BY <2>1, <2>2
<1>. QED  BY <1>1, <1>2, <1>3, <1>5, <1>6, <1>7 DEF RunCore

(* Requests.  A queued run is a row of its own.                             *)
RowAdded(n, j, kind) ==
    /\ DOMAIN runs' = DOMAIN runs \cup {n} /\ n \notin DOMAIN runs
    /\ \A q \in DOMAIN runs : runs'[q] = runs[q]
    /\ runs'[n].job = j /\ runs'[n].kind = kind /\ runs'[n].st = "queued"

LEMMA StagesOfRequest ==
    ASSUME RunsOK, StageInv, RequestCore
    PROVE  StageInv'
<1>0. \A q \in DOMAIN runs : runs[q].job \in Jobs
  BY DEF RunsOK
<1>1. CASE UNCHANGED <<job, runs>>
  BY <1>1 DEF StageInv
<1>2. ASSUME NEW j \in Jobs, NEW kind, RunQueued(j, kind)
      PROVE  \E n : RowAdded(n, j, kind)
  BY <1>2, RunsGrow DEF RunQueued, RowAdded
<1>3. ASSUME NEW j \in Jobs, NEW kind \in ReviewRuns, job' = job, RunQueued(j, kind)
      PROVE  StageInv'
  <2>1. PICK n : RowAdded(n, j, kind)
    BY <1>2, <1>3
  <2>. QED  BY <1>3, <2>1 DEF StageInv, RowAdded
<1>4. ASSUME NEW j \in Jobs, NEW kind, StageEntered(j, kind)
      PROVE  StageInv'
  <2>1. PICK n : RowAdded(n, j, kind)
    <3>1. RunQueued(j, kind)
      BY <1>4 DEF StageEntered
    <3>. QED  BY <1>2, <3>1
  <2>2. /\ \A i \in Jobs : i # j => job'[i] = job[i]
        /\ job'[j].st = StageOf(kind) /\ job'[j].st # "annotated"
        /\ job[j].st \notin Stages /\ job[j].st # "annotated"
    BY <1>4, StageIsStage DEF StageEntered, JobTouched, Stages
  <2>3. \A q \in DOMAIN runs : Active(runs[q]) /\ runs[q].kind \notin ReviewRuns => runs[q].job # j
    BY <2>2, StageIsStage DEF StageInv
  <2>4. \A q \in DOMAIN runs : runs[q].st = "running" /\ runs[q].kind \in ReviewRuns => runs[q].job # j
    BY <2>2 DEF StageInv
  <2>. QED  BY <1>0, <2>1, <2>2, <2>3, <2>4 DEF StageInv, RowAdded
<1>5. ASSUME NEW j \in Jobs, QueuedCancelled(j)
      PROVE  /\ DOMAIN runs' = DOMAIN runs
             /\ \A q \in DOMAIN runs : runs'[q].job = runs[q].job /\ runs'[q].kind = runs[q].kind
             /\ \A q \in DOMAIN runs : Active(runs'[q]) => Active(runs[q]) /\ runs'[q].st = runs[q].st
             /\ \A q \in DOMAIN runs : Active(runs'[q]) /\ runs[q].job = j => runs[q].st = "running"
  BY <1>5 DEF QueuedCancelled, Active, SameRun
<1>6. ASSUME NEW j \in Jobs, CancelAsked(j)
      PROVE  StageInv'
  <2>1. /\ \A i \in Jobs : job'[i].st = job[i].st
        /\ \A i \in Jobs : i # j => job'[i] = job[i]
        /\ job'[j].st # "annotated"
    BY <1>6 DEF CancelAsked, JobTouched
  <2>. QED  BY <1>0, <1>5, <1>6, <2>1 DEF StageInv, CancelAsked, Active
<1>7. ASSUME NEW j \in Jobs, CancelDone(j)
      PROVE  StageInv'
  <2>1. \A q \in DOMAIN runs : Active(runs'[q]) => runs[q].job # j
    BY <1>5, <1>7 DEF CancelDone, RunsOf
  <2>2. (\A i \in Jobs : i # j => job'[i] = job[i]) /\ job'[j].st # "annotated"
    BY <1>7 DEF CancelDone, JobTouched
  <2>. QED  BY <1>0, <1>5, <1>7, <2>1, <2>2 DEF StageInv, CancelDone, Active
<1>. QED  BY <1>1, <1>3, <1>4, <1>6, <1>7 DEF RequestCore

(* Every step.                                                              *)
LEMMA StagesKept ==
    ASSUME LedgerOK, StageInv, [Next]_vars
    PROVE  StageInv'
<1>0. JobsOK /\ RunsOK
  BY DEF LedgerOK, TablesOK
<1>1. CASE OutsideTransaction
  BY <1>0, <1>1, OutsideCore, StagesOfRequest
<1>2. CASE WorkerTransaction
  <2>1. CASE UNCHANGED ledgerVars
    BY <2>1 DEF ledgerVars, StageInv
  <2>2. ASSUME NEW r \in DOMAIN runs, RunTransaction(r)
        PROVE  StageInv'
    BY <1>0, <2>2, RunTransactionCore, StagesOfRun
  <2>. QED  BY <1>2, <2>1, <2>2 DEF WorkerTransaction
<1>. QED  BY <1>1, <1>2, EveryTransaction

(* Initially.                                                               *)
LEMMA StagesInitially == Init => StageInv
BY DEF Init, StoreInit, StageInv

-----------------------------------------------------------------------------
(* Releases.  A job that is annotated stays as it is: its segments, its     *)
(* approved and discarded reviews and its succeeded publications.           *)
SegmentReady(j, s) ==
    seg[j][s].st \in SegStatus \ {"none"} => Publishable(j, s) \/ Discarded(j, s)
JobReady(j) == job[j].st = "annotated" /\ \A s \in Segs : SegmentReady(j, s)
AllReady ==
    /\ \A c \in Clips : \E j \in Jobs : src[c] = j /\ JobReady(j)
    /\ \E c \in Clips, s \in Segs : \E j \in Jobs : src[c] = j /\ Verified(j, s)
ReleasedInv == released => AllReady

(* The job.                                                                 *)
LEMMA AnnotatedRun ==
    ASSUME RunsOK, StageInv, NEW j \in Jobs, job[j].st = "annotated", NEW r, RunCore(r)
    PROVE  job'[j] = job[j]
<1>1. ASSUME NEW x, RunEnded(r, x), runs[r].kind \notin ReviewRuns
      PROVE  runs[r].job # j
  BY <1>1, StageIsStage DEF RunEnded, RunTouched, Running, StageInv, Active, Stages
<1>2. CASE StageDone(r)
  BY <1>1, <1>2 DEF StageDone, JobTouched
<1>3. CASE RunCancelled(r)
  BY <1>3 DEF RunCancelled, JobTouched, StageInv
<1>4. ASSUME NEW f, StageFailed(r, f)
      PROVE  job'[j] = job[j]
  BY <1>1, <1>4 DEF StageFailed, JobTouched
<1>. QED  BY <1>2, <1>3, <1>4 DEF RunCore

(* A request does not write it.                                             *)
LEMMA AnnotatedRequest ==
    ASSUME NEW j \in Jobs, job[j].st = "annotated", RequestCore
    PROVE  job'[j] = job[j]
BY DEF RequestCore, CancelAsked, CancelDone, StageEntered, JobTouched

(* Its segments.                                                            *)
LEMMA MovedElsewhere ==
    ASSUME Table(seg), NEW i, NEW j \in Jobs, i # j, NEW From, NEW to, seg' = MoveSegments(i, From, to)
    PROVE  seg'[j] = seg[j]
BY DEF MoveSegments, Table

(* A row of a table of tables is written, another one is read.              *)
LEMMA WrittenElsewhere ==
    ASSUME NEW f, Table(f), NEW i, NEW u, NEW j \in Jobs, NEW s \in Segs, i # j \/ u # s, NEW w
    PROVE  [f EXCEPT ![i][u] = w][j][s] = f[j][s]
BY DEF Table

(* No transaction writes the segments of an annotated job.                  *)
LEMMA AnnotatedSegments ==
    ASSUME Table(seg), RunsOK, StageInv, NEW j \in Jobs, job[j].st = "annotated"
    PROVE  /\ \A i \in Jobs : JobTransaction(i) => seg'[j] = seg[j]
           /\ \A i \in Jobs, s \in Segs : SegmentTransaction(i, s) => seg'[j] = seg[j]
           /\ \A r \in DOMAIN runs : RunTransaction(r) => seg'[j] = seg[j]
<1>1. ASSUME NEW i \in Jobs, JobTransaction(i)
      PROVE  seg'[j] = seg[j]
  <2>1. CASE CreateJob(i) \/ CancelActiveJob(i)
    BY <2>1 DEF CreateJob, CancelActiveJob
  <2>2. CASE job[i].st = "failed" /\ ReturnToStage(i)
    <3>1. i # j /\ (seg' = seg \/ \E From, to : seg' = MoveSegments(i, From, to))
      BY <2>2 DEF ReturnToStage
    <3>. QED  BY <3>1, MovedElsewhere
  <2>3. CASE StartTracking(i)
    BY <2>3, MovedElsewhere DEF StartTracking, TrackingReady, WaitingJob
  <2>4. ASSUME NEW t, BeginPostprocessing(i, t)
        PROVE  seg'[j] = seg[j]
    BY <2>4, MovedElsewhere DEF BeginPostprocessing
  <2>. QED  BY <1>1, <2>1, <2>2, <2>3, <2>4 DEF JobTransaction
<1>2. ASSUME NEW i \in Jobs, NEW s \in Segs, SegmentTransaction(i, s)
      PROVE  seg'[j] = seg[j]
  <2>1. WaitingJob(i)
    BY <1>2 DEF SegmentTransaction, SaveDraft, SubmitSegment, Reopen, Skip, Unskip
  <2>2. i # j
    BY <2>1 DEF WaitingJob
  <2>3. \E w : seg' = [seg EXCEPT ![i][s] = w]
    BY <1>2 DEF SegmentTransaction, SaveDraft, SubmitSegment, Reopen, Skip, Unskip
  <2>. QED  BY <2>2, <2>3 DEF Table
<1>3. ASSUME NEW r \in DOMAIN runs, RunTransaction(r)
      PROVE  seg'[j] = seg[j]
  <2>1. CASE ClaimNextRun(r) \/ StartStep(r) \/ FinishStep(r, TRUE) \/ FailActiveStep(r) \/ BeginPublication(r)
             \/ CompleteAsCancelled(r) \/ CompleteFixRun(r) \/ CompletePublication(r)
    BY <2>1
       DEF ClaimNextRun, StartStep, FinishStep, FailActiveStep, BeginPublication, CompleteAsCancelled,
           CompleteFixRun, CompletePublication
  <2>2. ASSUME NEW s, NEW c, RecordCheckpoint(r, s, c)
        PROVE  seg'[j] = seg[j]
    BY <2>2 DEF RecordCheckpoint
  <2>3. ASSUME NEW S, CompletePrepare(r, S)
        PROVE  seg'[j] = seg[j]
    BY <2>3 DEF CompletePrepare, Table
  <2>4. CASE CompleteTracking(r) \/ CompletePostprocessing(r)
    <3>1. /\ runs[r].job # j
          /\ \E From, to : seg' = MoveSegments(runs[r].job, From, to)
      BY <2>4 DEF CompleteTracking, CompletePostprocessing
    <3>. QED  BY <3>1, MovedElsewhere
  <2>5. ASSUME NEW f, Running(r), FailRun(r, f)
        PROVE  seg'[j] = seg[j]
    <3>1. seg' = seg \/ seg' = MoveSegments(runs[r].job, {"postprocessing"}, "postprocessing_failed")
      BY <2>5 DEF FailRun, FailJobOf, storeVars
    <3>2. CASE runs[r].kind # "postprocessing"
      BY <2>5, <3>2 DEF FailRun, FailJobOf, storeVars
    <3>3. runs[r].kind = "postprocessing" => runs[r].job # j
      BY <2>5, StageIsStage DEF StageInv, Running, Active, ReviewRuns, Stages
    <3>. QED  BY <3>1, <3>2, <3>3, MovedElsewhere
  <2>. QED  BY <1>3, <2>1, <2>2, <2>3, <2>4, <2>5 DEF RunTransaction
<1>. QED  BY <1>1, <1>2, <1>3

(* Its reviews.  A decided review keeps its decision; a succeeded           *)
(* publication of it stays the last one.                                    *)
PublishedStill(j, s) ==
    /\ Publications(j, s)' = Publications(j, s)
    /\ \A r \in DOMAIN runs : runs[r].st = "succeeded" => runs'[r].st = "succeeded"
ReviewStays(j, s) ==
    /\ rev[j][s].st \in {"approved", "discarded"} => rev'[j][s].st = rev[j][s].st
    /\ Publishable(j, s) => PublishedStill(j, s)

(* The Worker keeps the publications and those that succeeded.              *)
LEMMA SucceededRun ==
    ASSUME NEW r, RunCore(r)
    PROVE  /\ \A j, s : Publications(j, s)' = Publications(j, s)
           /\ \A q \in DOMAIN runs : runs[q].st = "succeeded" => runs'[q].st = "succeeded"
<1>1. RunsRewritten
  BY CoreRewrites
<1>2. \A j, s : Publications(j, s)' = Publications(j, s)
  BY <1>1 DEF Publications, RunsRewritten, SameRun
<1>3. \A q \in DOMAIN runs : runs[q].st = "succeeded" => runs'[q].st = "succeeded"
  BY DEF RunCore, RunNoted, RunFenced, RunClaimed, RunEnded, StageDone, RunCancelled, StageFailed, RunTouched, Running
<1>. QED  BY <1>2, <1>3

(* So does a queued run, unless it is another publication of the review.    *)
LEMMA SucceededEnqueued ==
    ASSUME RunsOK, NEW i, NEW u, NEW d, NEW kind, EnqueueRun(i, kind, u, d)
    PROVE  /\ \A j, s : j # i \/ s # u \/ kind # "compatibility_publish" => Publications(j, s)' = Publications(j, s)
           /\ \A q \in DOMAIN runs : runs[q].st = "succeeded" => runs'[q].st = "succeeded"
<1>. DEFINE n == Len(runs) + 1
            e == [job |-> i, kind |-> kind, seg |-> u, d |-> d, st |-> "queued", fail |-> "none",
                  fence |-> FALSE, step |-> "idle"]
<1>1. runs' = Append(runs, e)
  BY DEF EnqueueRun
<1>2. e.job = i /\ e.kind = kind /\ e.seg = u
  OBVIOUS
<1>. HIDE DEF e
<1>3. /\ DOMAIN runs' = DOMAIN runs \cup {n} /\ runs'[n] = e /\ n \notin DOMAIN runs
      /\ \A r \in DOMAIN runs : runs'[r] = runs[r]
  BY <1>1, RunsGrow
<1>. HIDE DEF n
<1>. QED  BY <1>2, <1>3 DEF Publications

(* Requests about reviews.                                                  *)
LEMMA AnnotatedReviewRequest ==
    ASSUME RunsOK, Table(rev), NEW j \in Jobs, NEW s \in Segs, NEW i \in Jobs, NEW u \in Segs,
           ReviewsInv, ReviewTransaction(i, u)
    PROVE  ReviewStays(j, s)
<1>. DEFINE Same == \A q \in DOMAIN runs : runs[q].st = "succeeded" => runs'[q].st = "succeeded"
<1>1. runs' = runs => PublishedStill(j, s)
  BY DEF PublishedStill, Publications
<1>2. ASSUME rev[i][u].st \notin {"approved", "discarded"}, NEW w, rev' = [rev EXCEPT ![i][u] = w]
      PROVE  rev[j][s].st \in {"approved", "discarded"} => rev'[j][s] = rev[j][s]
  BY <1>2, WrittenElsewhere
<1>3. CASE CreateFixSession(i, u) \/ ApplyFixCommand(i, u) \/ ResumeReturnedReview(i, u)
           \/ \E decision \in {"returned", "discarded"} : DecideReview(i, u, decision)
  <2>1. runs' = runs /\ rev[i][u].st \notin {"approved", "discarded"}
    BY <1>3 DEF CreateFixSession, ApplyFixCommand, ResumeReturnedReview, DecideReview
  <2>2. \E w : rev' = [rev EXCEPT ![i][u] = w]
    BY <1>3 DEF CreateFixSession, ApplyFixCommand, ResumeReturnedReview, DecideReview
  <2>. QED  BY <1>1, <1>2, <2>1, <2>2 DEF ReviewStays
<1>4. CASE CreateFixRevision(i, u)
  <2>1. rev' = rev /\ EnqueueRun(i, "fix", u, rev[i][u].draft)
    BY <1>4 DEF CreateFixRevision
  <2>2. PublishedStill(j, s)
    BY <2>1, SucceededEnqueued DEF PublishedStill
  <2>. QED  BY <2>1, <2>2 DEF ReviewStays
<1>5. ASSUME NEW k, ApproveFixRevision(i, u, k)
      PROVE  ReviewStays(j, s)
  <2>1. /\ rev[i][u].st \notin {"approved", "discarded"} /\ EnqueueRun(i, "compatibility_publish", u, k)
        /\ \E w : rev' = [rev EXCEPT ![i][u] = w]
    BY <1>5 DEF ApproveFixRevision, EnqueuePublication
  <2>2. Publishable(j, s) => j # i \/ s # u
    BY <2>1 DEF Publishable, Verified
  <2>3. Publishable(j, s) => PublishedStill(j, s)
    BY <2>1, <2>2, SucceededEnqueued DEF PublishedStill
  <2>. QED  BY <1>2, <2>1, <2>3 DEF ReviewStays
<1>6. CASE RetryPublication(i, u)
  <2>1. rev' = rev /\ EnqueueRun(i, "compatibility_publish", u, rev[i][u].appr)
        /\ runs[LatestPublication(i, u)].st = "failed"
    BY <1>6 DEF RetryPublication, EnqueuePublication
  <2>2. Publishable(j, s) => j # i \/ s # u
    BY <2>1 DEF Publishable
  <2>3. Publishable(j, s) => PublishedStill(j, s)
    BY <2>1, <2>2, SucceededEnqueued DEF PublishedStill
  <2>. QED  BY <2>1, <2>3 DEF ReviewStays
<1>7. ASSUME NEW t, LinkFix(i, u, t)
      PROVE  ReviewStays(j, s)
  <2>. DEFINE v == rev[i][u]
              w == [v EXCEPT !.task = t]
  <2>1. rev' = [rev EXCEPT ![i][u] = w] /\ runs' = runs
    BY <1>7 DEF LinkFix
  <2>2. w = [st |-> v.st, draft |-> v.draft, fixes |-> v.fixes, appr |-> v.appr, task |-> t]
    BY ReviewColumns DEF ReviewsInv
  <2>. HIDE DEF w
  <2>3. rev'[j][s].st = rev[j][s].st
    <3>1. CASE i = j /\ u = s
      BY <2>1, <2>2, <3>1 DEF Table
    <3>2. CASE i # j \/ u # s
      BY <2>1, <3>2, WrittenElsewhere
    <3>. QED  BY <3>1, <3>2
  <2>. QED  BY <1>1, <2>1, <2>3 DEF ReviewStays
<1>. QED  BY <1>3, <1>4, <1>5, <1>6, <1>7 DEF ReviewTransaction

(* Requests about jobs.                                                     *)
LEMMA AnnotatedReviewJob ==
    ASSUME JobsOK, RunsOK, NEW j \in Jobs, NEW s \in Segs, NEW i \in Jobs, JobTransaction(i)
    PROVE  ReviewStays(j, s)
<1>0. rev' = rev
  BY DEF JobTransaction, CreateJob, ReturnToStage, StartTracking, CancelActiveJob, BeginPostprocessing
<1>1. ASSUME NEW kind, NEW d, EnqueueRun(i, kind, None, d)
      PROVE  PublishedStill(j, s)
  <2>1. None # s
    BY StoreAssumption
  <2>. QED  BY <1>1, <2>1, SucceededEnqueued DEF PublishedStill
<1>2. CASE CancelActiveJob(i)
  <2>1. runs' = CancelQueued(i)
    BY <1>2 DEF CancelActiveJob
  <2>2. ASSUME NEW r \in DOMAIN runs
        PROVE  SameRun(runs[r], [runs[r] EXCEPT !.st = "cancelled"])
    <3>1. IsRun(runs[r])
      BY DEF RunsOK
    <3>. QED  BY <3>1 DEF IsRun, SameRun
  <2>3. RunsRewritten
    BY <2>1, <2>2 DEF CancelQueued, RunsRewritten, SameRun
  <2>4. Publications(j, s)' = Publications(j, s)
    BY <2>3 DEF Publications, RunsRewritten, SameRun
  <2>5. \A q \in DOMAIN runs : runs[q].st = "succeeded" => runs'[q].st = "succeeded"
    <3>1. \A q \in DOMAIN runs : runs[q].st # "queued" => runs'[q] = runs[q]
      BY <2>1 DEF CancelQueued
    <3>. QED  BY <3>1
  <2>. QED  BY <1>0, <2>4, <2>5 DEF PublishedStill, ReviewStays
<1>3. CancelActiveJob(i) \/ \E kind, d : EnqueueRun(i, kind, None, d)
  BY DEF JobTransaction, CreateJob, ReturnToStage, StartTracking, BeginPostprocessing
<1>. QED  BY <1>0, <1>1, <1>2, <1>3 DEF ReviewStays

(* The Worker.                                                              *)
LEMMA AnnotatedReviewRun ==
    ASSUME JobsOK, RunsOK, Table(rev), NEW j \in Jobs, NEW s \in Segs, job[j].st = "annotated",
           NEW r \in DOMAIN runs, RunTransaction(r)
    PROVE  ReviewStays(j, s)
<1>1. PublishedStill(j, s)
  BY RunTransactionCore, SucceededRun DEF PublishedStill
<1>2. CASE CompletePostprocessing(r)
  BY <1>1, <1>2 DEF ReviewStays, CompletePostprocessing, Table
<1>3. CASE CompleteFixRun(r)
  <2>. DEFINE i == runs[r].job
              u == runs[r].seg
  <2>1. rev[i][u].st = "in_progress" /\ \E w : rev' = [rev EXCEPT ![i][u] = w]
    BY <1>3 DEF CompleteFixRun, OwnsDraft
  <2>. HIDE DEF i, u
  <2>2. rev[j][s].st \in {"approved", "discarded"} => rev'[j][s] = rev[j][s]
    BY <2>1, WrittenElsewhere
  <2>. QED  BY <1>1, <2>2 DEF ReviewStays
<1>4. CASE ClaimNextRun(r) \/ StartStep(r) \/ FinishStep(r, TRUE) \/ FailActiveStep(r) \/ BeginPublication(r)
           \/ CompleteAsCancelled(r) \/ CompleteTracking(r) \/ CompletePublication(r)
  BY <1>1, <1>4
     DEF ClaimNextRun, StartStep, FinishStep, FailActiveStep, BeginPublication, CompleteAsCancelled,
         CompleteTracking, CompletePublication, ReviewStays
<1>5. ASSUME NEW f, FailRun(r, f)
      PROVE  rev' = rev
  BY <1>5 DEF FailRun, FailJobOf, storeVars
<1>6. ASSUME NEW S, CompletePrepare(r, S)
      PROVE  rev' = rev
  BY <1>6 DEF CompletePrepare
<1>7. ASSUME NEW u, NEW c, RecordCheckpoint(r, u, c)
      PROVE  rev' = rev
  BY <1>7 DEF RecordCheckpoint
<1>. QED  BY <1>1, <1>2, <1>3, <1>4, <1>5, <1>6, <1>7 DEF RunTransaction, ReviewStays

(* What makes a job ready stays.                                            *)
LEMMA ReadyStays ==
    ASSUME RunsOK, ReviewsInv, NEW j \in Jobs, job'[j] = job[j], seg'[j] = seg[j],
           \A s \in Segs : ReviewStays(j, s)
    PROVE  /\ JobReady(j) => JobReady(j)'
           /\ \A s \in Segs : Verified(j, s) => Verified(j, s)'
<1>1. ASSUME NEW s \in Segs, Publishable(j, s)
      PROVE  Publishable(j, s)'
  <2>. DEFINE Latest(ps) == IF ps = {} THEN 0 ELSE CHOOSE r \in ps : \A q \in ps : q <= r
              p == LatestPublication(j, s)
  <2>1. PublishedStill(j, s) /\ rev'[j][s].st = "approved" /\ rev[j][s].st = "approved"
    BY <1>1 DEF ReviewStays, Publishable, Verified
  <2>2. LatestPublication(j, s) = Latest(Publications(j, s))
    BY DEF LatestPublication, Publications
  <2>3. LatestPublication(j, s)' = Latest(Publications(j, s)')
    BY DEF LatestPublication, Publications
  <2>. HIDE DEF Latest
  <2>4. LatestPublication(j, s)' = p
    BY <2>1, <2>2, <2>3 DEF PublishedStill
  <2>5. p \in DOMAIN runs
    <3>1. \E k : LastPublished(j, s, k)
      BY <2>1 DEF ReviewsInv
    <3>. QED  BY <3>1, LatestIsLast
  <2>6. p # 0 /\ runs'[p].st = "succeeded"
    BY <1>1, <2>1, <2>5 DEF Publishable, PublishedStill
  <2>. HIDE DEF p
  <2>. QED  BY <2>1, <2>4, <2>6 DEF Publishable, Verified
<1>2. ASSUME NEW s \in Segs, Discarded(j, s)
      PROVE  Discarded(j, s)'
  BY <1>2 DEF Discarded, ReviewStays
<1>3. ASSUME NEW s \in Segs, Verified(j, s)
      PROVE  Verified(j, s)'
  BY <1>3 DEF Verified, ReviewStays
<1>. QED  BY <1>1, <1>2, <1>3 DEF JobReady, SegmentReady

(* An annotated job, in every step.                                         *)
LEMMA AnnotatedStays ==
    ASSUME LedgerOK, SegmentsInv, ReviewsInv, StageInv, [Next]_vars, NEW j \in Jobs, job[j].st = "annotated"
    PROVE  /\ job'[j] = job[j]
           /\ JobReady(j) => JobReady(j)'
           /\ \A s \in Segs : Verified(j, s) => Verified(j, s)'
<1>0. JobsOK /\ RunsOK /\ Table(seg) /\ Table(rev)
  BY DEF LedgerOK, TablesOK, SegmentsInv, ReviewsInv
<1>1. UNCHANGED <<rev, runs>> => \A s \in Segs : ReviewStays(j, s)
  BY DEF ReviewStays, PublishedStill, Publications
<1>2. CASE OutsideTransaction
  <2>1. job'[j] = job[j]
    BY <1>0, <1>2, OutsideCore, AnnotatedRequest
  <2>2. ASSUME NEW i \in Jobs, JobTransaction(i)
        PROVE  seg'[j] = seg[j] /\ \A s \in Segs : ReviewStays(j, s)
    BY <1>0, <2>2, AnnotatedSegments, AnnotatedReviewJob
  <2>3. ASSUME NEW i \in Jobs, NEW u \in Segs, SegmentTransaction(i, u)
        PROVE  seg'[j] = seg[j] /\ \A s \in Segs : ReviewStays(j, s)
    <3>1. UNCHANGED <<rev, runs>>
      BY <2>3 DEF SegmentTransaction, SaveDraft, SubmitSegment, Reopen, Skip, Unskip
    <3>. QED  BY <1>0, <1>1, <2>3, <3>1, AnnotatedSegments
  <2>4. ASSUME NEW i \in Jobs, NEW u \in Segs, ReviewTransaction(i, u)
        PROVE  seg'[j] = seg[j] /\ \A s \in Segs : ReviewStays(j, s)
    <3>1. seg' = seg
      BY <2>4
         DEF ReviewTransaction, CreateFixSession, ApplyFixCommand, CreateFixRevision, ResumeReturnedReview,
             DecideReview, ApproveFixRevision, RetryPublication, LinkFix
    <3>. QED  BY <1>0, <2>4, <3>1, AnnotatedReviewRequest
  <2>5. CASE CreateDatasetRelease \/ ResetUnreleasedDataset \/ UNCHANGED ledgerVars
    <3>1. UNCHANGED <<seg, rev, runs>>
      BY <2>5 DEF CreateDatasetRelease, ResetUnreleasedDataset, storeVars, ledgerVars
    <3>. QED  BY <1>0, <1>1, <2>1, <3>1, ReadyStays
  <2>6. CASE seg'[j] = seg[j] /\ \A s \in Segs : ReviewStays(j, s)
    BY <1>0, <2>1, <2>6, ReadyStays
  <2>. QED  BY <1>2, <2>2, <2>3, <2>4, <2>5, <2>6 DEF OutsideTransaction
<1>3. CASE WorkerTransaction
  <2>1. CASE UNCHANGED ledgerVars
    BY <1>0, <1>1, <2>1, ReadyStays DEF ledgerVars
  <2>2. ASSUME NEW r \in DOMAIN runs, RunTransaction(r)
        PROVE  job'[j] = job[j] /\ seg'[j] = seg[j] /\ \A s \in Segs : ReviewStays(j, s)
    BY <1>0, <2>2, RunTransactionCore, AnnotatedRun, AnnotatedSegments, AnnotatedReviewRun
  <2>. QED  BY <1>0, <1>3, <2>1, <2>2, ReadyStays DEF WorkerTransaction
<1>. QED  BY <1>2, <1>3, EveryTransaction

(* While the dataset is released every clip belongs to an annotated job, so *)
(* no clip is free to be taken and none is given back.                      *)
LEMMA ReleasedSources ==
    ASSUME LedgerOK, StageInv, released, \A c \in Clips : \E j \in Jobs : src[c] = j /\ job[j].st = "annotated",
           [Next]_vars
    PROVE  src' = src
<1>0. JobsOK /\ RunsOK /\ src = [c \in Clips |-> src[c]] /\ None \notin Jobs
  BY StoreAssumption DEF LedgerOK, TablesOK, JobsOK
<1>1. ASSUME NEW i, job[i].st # "annotated", FinalizeCancelledJob(i)
      PROVE  src' = src
  BY <1>0, <1>1 DEF FinalizeCancelledJob, WithoutSources
<1>2. CASE OutsideTransaction
  <2>1. ASSUME NEW i \in Jobs, JobTransaction(i)
        PROVE  src' = src
    <3>1. ~CreateJob(i)
      <4>1. PICK c \in ClipsOf[i] : c \in Clips
        BY StoreAssumption
      <4>2. src[c] # None
        BY <1>0, <4>1
      <4>. QED  BY <4>1, <4>2 DEF CreateJob
    <3>. QED
      BY <1>1, <2>1, <3>1 DEF JobTransaction, ReturnToStage, StartTracking, CancelActiveJob, BeginPostprocessing
  <2>2. ASSUME NEW i \in Jobs, NEW u \in Segs, SegmentTransaction(i, u) \/ ReviewTransaction(i, u)
        PROVE  src' = src
    BY <2>2
       DEF SegmentTransaction, SaveDraft, SubmitSegment, Reopen, Skip, Unskip,
           ReviewTransaction, CreateFixSession, ApplyFixCommand, CreateFixRevision, ResumeReturnedReview,
           DecideReview, ApproveFixRevision, RetryPublication, LinkFix
  <2>3. CASE CreateDatasetRelease \/ ResetUnreleasedDataset \/ UNCHANGED ledgerVars
    BY <2>3 DEF CreateDatasetRelease, ResetUnreleasedDataset, Resettable, ledgerVars
  <2>. QED  BY <1>2, <2>1, <2>2, <2>3 DEF OutsideTransaction
<1>3. ASSUME NEW r \in DOMAIN runs, RunTransaction(r)
      PROVE  src' = src
  <2>0. runs[r].job \in Jobs
    BY <1>0 DEF RunsOK
  <2>1. CASE CompleteAsCancelled(r)
    BY <1>1, <2>0, <2>1 DEF CompleteAsCancelled, StageInv
  <2>2. ASSUME NEW f, FailRun(r, f)
        PROVE  src' = src
    BY <1>1, <2>0, <2>2 DEF FailRun, CancelWins, StageInv, storeVars
  <2>3. CASE ClaimNextRun(r) \/ StartStep(r) \/ FinishStep(r, TRUE) \/ FailActiveStep(r) \/ BeginPublication(r)
           \/ CompleteTracking(r) \/ CompletePostprocessing(r) \/ CompleteFixRun(r) \/ CompletePublication(r)
    BY <2>3
       DEF ClaimNextRun, StartStep, FinishStep, FailActiveStep, BeginPublication, CompleteTracking,
           CompletePostprocessing, CompleteFixRun, CompletePublication
  <2>4. ASSUME NEW S, CompletePrepare(r, S)
        PROVE  src' = src
    BY <2>4 DEF CompletePrepare
  <2>5. ASSUME NEW u, NEW c, RecordCheckpoint(r, u, c)
        PROVE  src' = src
    BY <2>5 DEF RecordCheckpoint
  <2>. QED  BY <1>3, <2>1, <2>2, <2>3, <2>4, <2>5 DEF RunTransaction
<1>. QED  BY <1>2, <1>3, EveryTransaction DEF WorkerTransaction, ledgerVars

(* What a release saw, job by job.                                          *)
LEMMA ReleaseForms ==
    ASSUME LedgerOK
    PROVE  ReleaseReady <=> AllReady
<1>0. src \in [Clips -> Jobs \cup {None}] /\ None \notin Jobs
  BY StoreAssumption DEF LedgerOK, TablesOK, JobsOK
<1>1. \A c \in Clips : ClipReady(c) <=> \E j \in Jobs : src[c] = j /\ JobReady(j)
  BY <1>0 DEF ClipReady, JobReady, SegmentReady, SegmentsIn
<1>2. (\E c \in Clips, s \in Segs : src[c] # None /\ Verified(src[c], s))
      <=> \E c \in Clips, s \in Segs : \E j \in Jobs : src[c] = j /\ Verified(j, s)
  BY <1>0
<1>. QED  BY <1>1, <1>2 DEF ReleaseReady, AllReady

(* Every step keeps the jobs of a released dataset ready.                   *)
LEMMA ReleaseKept ==
    ASSUME LedgerOK, SegmentsInv, ReviewsInv, StageInv, ReleasedInv, [Next]_vars
    PROVE  ReleasedInv'
<1>1. CASE released
  <2>1. \A c \in Clips : \E j \in Jobs : src[c] = j /\ JobReady(j)
    BY <1>1 DEF ReleasedInv, AllReady
  <2>2. \A c \in Clips : \E j \in Jobs : src[c] = j /\ job[j].st = "annotated"
    BY <2>1 DEF JobReady
  <2>3. src' = src
    BY <1>1, <2>2, ReleasedSources
  <2>4. \A c \in Clips : \E j \in Jobs : src'[c] = j /\ JobReady(j)'
    BY <2>1, <2>3, AnnotatedStays DEF JobReady
  <2>5. PICK c \in Clips, s \in Segs : \E j \in Jobs : src[c] = j /\ Verified(j, s)
    BY <1>1 DEF ReleasedInv, AllReady
  <2>6. \E j \in Jobs : src'[c] = j /\ Verified(j, s)'
    BY <2>2, <2>3, <2>5, AnnotatedStays
  <2>. QED  BY <2>4, <2>6 DEF ReleasedInv, AllReady
<1>2. CASE CreateDatasetRelease
  <2>1. AllReady /\ UNCHANGED <<job, seg, src, runs, rev>>
    BY <1>2, ReleaseForms DEF CreateDatasetRelease, storeVars
  <2>2. AllReady'
    BY <2>1 DEF AllReady, JobReady, SegmentReady, Publishable, Discarded, Verified, LatestPublication
  <2>. QED  BY <2>2 DEF ReleasedInv
<1>3. CASE ~released /\ ~CreateDatasetRelease
  <2>1. released' = released
    <3>1. ASSUME NEW i \in Jobs, NEW u \in Segs, ReviewTransaction(i, u)
          PROVE  released' = released
      BY <3>1
         DEF ReviewTransaction, CreateFixSession, ApplyFixCommand, CreateFixRevision, ResumeReturnedReview,
             DecideReview, ApproveFixRevision, RetryPublication, LinkFix
    <3>2. CASE ResetUnreleasedDataset \/ UNCHANGED ledgerVars \/ UNCHANGED released
      BY <3>2 DEF ResetUnreleasedDataset, ledgerVars
    <3>. QED
      BY <1>3, <3>1, <3>2, EveryTransaction DEF OutsideTransaction, WorkerTransaction
  <2>. QED  BY <1>3, <2>1 DEF ReleasedInv
<1>. QED  BY <1>1, <1>2, <1>3

(* A released dataset stays releasable: once create_dataset_release has     *)
(* recorded it, no later operation reopens a segment of it or resets it     *)
(* (_require_dataset_resettable).                                           *)
THEOREM ReleasesStayReady == Spec => []ReleasedStaysReady
<1>. DEFINE Inv == LedgerOK /\ SegmentsInv /\ ReviewsInv /\ StageInv /\ ReleasedInv
<1>1. Init => Inv
  BY LedgerInitially, SegmentsInitially, ReviewsInitially, StagesInitially DEF ReleasedInv, Init
<1>2. Inv /\ [Next]_vars => Inv'
  BY LedgerKept, SegmentsKept, ReviewsKept, StagesKept, ReleaseKept
<1>3. Inv => ReleasedStaysReady
  BY ReleaseForms DEF ReleasedInv, ReleasedStaysReady
<1>. QED  BY <1>1, <1>2, <1>3, PTL DEF Spec

-----------------------------------------------------------------------------
(* Compatibility output.  Where it comes from: a publication that failed    *)
(* halfway, an annotated job, a run past its fence, or a run of the job     *)
(* that was interrupted and has been or will be shown to an operator.       *)
OutputAccounted(j) ==
    pub[j] # "no" =>
    \/ pub[j] = "partial" /\ "publication" \in Faults
    \/ job[j].st = "annotated"
    \/ \E r \in DOMAIN runs : runs[r].job = j /\ runs[r].st = "running" /\ runs[r].fence
    \/ /\ job[j].st = "failed" /\ job[j].fail = "recovery_required"
       /\ job[j].ref \in DOMAIN runs /\ runs[job[j].ref].job = j
    \/ \E r \in covered : r \in DOMAIN runs /\ runs[r].job = j

(* The fence of a run and the cancel request of its job exclude each other. *)
FenceExcludesCancel ==
    \A r \in DOMAIN runs : runs[r].fence =>
        /\ runs[r].st # "queued" /\ runs[r].kind = "postprocessing"
        /\ runs[r].st = "running" => ~job[runs[r].job].cancel

(* Where the Worker is when it has recorded a fence.                        *)
FencePlaces ==
    /\ pc \notin {"idle", "publish", "closing", "done"} /\ runs[cur].fence =>
          pub[runs[cur].job] = "partial" /\ "publication" \in Faults
    /\ pc = "publish" => runs[cur].fence

OutputInv ==
    /\ DOMAIN pub = Jobs
    /\ FenceExcludesCancel /\ FencePlaces
    /\ \A j \in Jobs : OutputAccounted(j)

(* A fenced run does not fail for another attempt, unless its publication   *)
(* failed halfway.                                                          *)
FenceHonoured(r) ==
    runs'[r].st = "failed" /\ runs[r].fence =>
        \/ runs'[r].fail = "recovery_required"
        \/ pub[runs[r].job] = "partial" /\ "publication" \in Faults

(* What the Worker does to a run.                                           *)
LEMMA FenceOfRun ==
    ASSUME RunsOK, StageInv, FenceExcludesCancel, NEW r \in DOMAIN runs, RunCore(r)
    PROVE  FenceExcludesCancel'
<1>0. \A q \in DOMAIN runs : runs[q].job \in Jobs
  BY DEF RunsOK
<1>1. CASE UNCHANGED <<job, runs>>
  BY <1>1 DEF FenceExcludesCancel
<1>2. CASE job' = job /\ RunNoted(r)
  BY <1>2 DEF FenceExcludesCancel, RunNoted, RunTouched, SameRun
<1>3. CASE job' = job /\ RunFenced(r)
  BY <1>3 DEF FenceExcludesCancel, RunFenced, RunTouched, SameRun, Running
<1>4. CASE job' = job /\ RunClaimed(r)
  BY <1>4 DEF FenceExcludesCancel, RunClaimed, RunTouched, SameRun
<1>5. ASSUME NEW x, RunEnded(r, x), \A i \in Jobs : i # runs[r].job => job'[i] = job[i],
             job' = job \/ runs[r].kind \notin ReviewRuns
      PROVE  FenceExcludesCancel'
  <2>1. /\ DOMAIN runs' = DOMAIN runs /\ \A q \in DOMAIN runs : q # r => runs'[q] = runs[q]
        /\ SameRun(runs[r], runs'[r]) /\ runs'[r].st \notin {"queued", "running"}
        /\ runs'[r].fence = runs[r].fence /\ runs[r].st = "running"
    BY <1>5 DEF RunEnded, RunTouched, Running
  <2>2. CASE job' = job
    BY <2>1, <2>2 DEF FenceExcludesCancel, SameRun
  <2>3. CASE runs[r].kind \notin ReviewRuns
    <3>1. \A q \in DOMAIN runs : runs[q].st = "running" /\ runs[q].fence /\ runs[q].job = runs[r].job => q = r
      BY <2>1, <2>3 DEF FenceExcludesCancel, StageInv, Active, ReviewRuns
    <3>. QED  BY <1>0, <1>5, <2>1, <3>1 DEF FenceExcludesCancel, SameRun
  <2>. QED  BY <1>5, <2>2, <2>3
<1>6. CASE job' = job /\ \E x : RunEnded(r, x)
  BY <1>5, <1>6
<1>7. CASE StageDone(r)
  BY <1>5, <1>7 DEF StageDone, JobTouched
<1>8. CASE RunCancelled(r)
  <2>1. runs[r].kind \notin ReviewRuns
    BY <1>0, <1>8 DEF RunCancelled, RunEnded, Running, StageInv
  <2>. QED  BY <1>5, <1>8, <2>1 DEF RunCancelled, JobTouched
<1>9. ASSUME NEW f, StageFailed(r, f)
      PROVE  FenceExcludesCancel'
  BY <1>5, <1>9 DEF StageFailed, JobTouched
<1>. QED  BY <1>1, <1>2, <1>3, <1>4, <1>6, <1>7, <1>8, <1>9 DEF RunCore

(* The end of a run of the pipeline.                                        *)
LEMMA OutputEnds ==
    ASSUME RunsOK, StageInv, FenceExcludesCancel, NEW r \in DOMAIN runs, NEW x, RunEnded(r, x),
           runs[r].kind \notin ReviewRuns, JobTouched(runs[r].job), UNCHANGED <<pub, covered>>,
           NEW j \in Jobs, OutputAccounted(j),
           j = runs[r].job /\ runs[r].fence => OutputAccounted(j)'
    PROVE  OutputAccounted(j)'
<1>1. /\ DOMAIN runs' = DOMAIN runs /\ \A q \in DOMAIN runs : q # r => runs'[q] = runs[q]
      /\ SameRun(runs[r], runs'[r]) /\ Active(runs[r])
  BY DEF RunEnded, RunTouched, Running, Active
<1>2. \A q \in DOMAIN runs : runs'[q].job = runs[q].job
  BY <1>1 DEF SameRun
<1>3. CASE j # runs[r].job
  <2>1. job'[j] = job[j]
    BY <1>3 DEF JobTouched
  <2>. QED  BY <1>1, <1>2, <1>3, <2>1 DEF OutputAccounted
<1>4. CASE j = runs[r].job /\ ~runs[r].fence
  <2>1. job[j].st \in Stages
    BY <1>1, <1>4, StageIsStage DEF StageInv
  <2>2. job[j].st \notin {"annotated", "failed"}
    BY <2>1 DEF Stages
  <2>3. \A q \in DOMAIN runs : ~(runs[q].job = j /\ runs[q].st = "running" /\ runs[q].fence)
    BY <1>1, <1>4 DEF FenceExcludesCancel, StageInv, Active, ReviewRuns
  <2>. QED  BY <1>1, <1>2, <2>2, <2>3 DEF OutputAccounted
<1>. QED  BY <1>3, <1>4

-----------------------------------------------------------------------------
(* The Worker and compatibility output: a run that ends leaves the output   *)
(* of its job accounted for.                                                *)
LEMMA OutputOfRun ==
    ASSUME RunsOK, StageInv, FenceExcludesCancel, NEW r \in DOMAIN runs, RunCore(r),
           FenceHonoured(r), UNCHANGED <<pub, covered>>, NEW j \in Jobs, OutputAccounted(j)
    PROVE  OutputAccounted(j)'
<1>0. runs[r].job \in Jobs /\ \A q \in DOMAIN runs : runs[q].job \in Jobs
  BY DEF RunsOK
<1>1. CASE UNCHANGED <<job, runs>>
  BY <1>1 DEF OutputAccounted
<1>2. CASE job' = job /\ RunNoted(r)
  BY <1>2 DEF OutputAccounted, RunNoted, RunTouched, SameRun
<1>3. CASE job' = job /\ RunFenced(r)
  <2>. DEFINE Held(q) == runs[q].job = j /\ runs[q].st = "running" /\ runs[q].fence
  <2>1. /\ DOMAIN runs' = DOMAIN runs /\ \A q \in DOMAIN runs : q # r => runs'[q] = runs[q]
        /\ runs'[r].job = runs[r].job /\ runs'[r].st = "running" /\ runs'[r].fence = TRUE
    BY <1>3 DEF RunFenced, RunTouched, SameRun, Running
  <2>. QED  BY <1>3, <2>1 DEF OutputAccounted
<1>4. CASE job' = job /\ RunClaimed(r)
  BY <1>4 DEF OutputAccounted, RunClaimed, RunTouched, SameRun
<1>5. ASSUME job' = job, runs[r].kind \in ReviewRuns, NEW x, RunEnded(r, x)
      PROVE  OutputAccounted(j)'
  <2>1. /\ DOMAIN runs' = DOMAIN runs /\ \A q \in DOMAIN runs : q # r => runs'[q] = runs[q]
        /\ \A q \in DOMAIN runs : runs'[q].job = runs[q].job
    BY <1>5 DEF RunEnded, RunTouched, SameRun
  <2>2. ~runs[r].fence
    BY <1>5 DEF FenceExcludesCancel, ReviewRuns
  <2>. QED  BY <1>5, <2>1, <2>2 DEF OutputAccounted
<1>6. CASE StageDone(r)
  <2>1. RunEnded(r, "succeeded") /\ runs[r].kind \notin ReviewRuns /\ JobTouched(runs[r].job)
    BY <1>6 DEF StageDone
  <2>2. runs[r].fence => job'[runs[r].job].st = "annotated"
    BY <1>6 DEF StageDone, FenceExcludesCancel
  <2>3. j = runs[r].job /\ runs[r].fence => OutputAccounted(j)'
    BY <2>2 DEF OutputAccounted
  <2>. QED  BY <2>1, <2>3, OutputEnds
<1>7. CASE RunCancelled(r)
  <2>1. RunEnded(r, "cancelled") /\ runs[r].kind \notin ReviewRuns /\ JobTouched(runs[r].job)
    BY <1>0, <1>7 DEF RunCancelled, RunEnded, Running, StageInv
  <2>2. ~runs[r].fence
    BY <1>7 DEF RunCancelled, RunEnded, Running, FenceExcludesCancel
  <2>. QED  BY <2>1, <2>2, OutputEnds
<1>8. ASSUME NEW f, StageFailed(r, f)
      PROVE  OutputAccounted(j)'
  <2>1. RunEnded(r, "failed") /\ runs[r].kind \notin ReviewRuns /\ JobTouched(runs[r].job)
    BY <1>0, <1>8 DEF StageFailed, JobTouched
  <2>2. job[runs[r].job].st \in Stages
    BY <2>1, StageIsStage DEF RunEnded, Running, StageInv, Active
  <2>3. /\ job'[runs[r].job].st = "failed" /\ job'[runs[r].job].fail = f /\ job'[runs[r].job].ref = r
        /\ runs'[r].fail = f /\ runs'[r].st = "failed"
    BY <1>8, <2>1, <2>2 DEF StageFailed, Stages, RunEnded
  <2>4. ASSUME j = runs[r].job, runs[r].fence
        PROVE  OutputAccounted(j)'
    <3>1. CASE f = "recovery_required"
      <4>1. r \in DOMAIN runs' /\ runs'[r].job = j
        BY <2>1, <2>4 DEF RunEnded, RunTouched, SameRun
      <4>. QED  BY <2>3, <2>4, <3>1, <4>1 DEF OutputAccounted
    <3>2. CASE pub[j] = "partial" /\ "publication" \in Faults
      BY <3>2 DEF OutputAccounted
    <3>. QED  BY <2>3, <2>4, <3>1, <3>2 DEF FenceHonoured
  <2>. QED  BY <2>1, <2>4, OutputEnds
<1>. QED  BY <1>1, <1>2, <1>3, <1>4, <1>5, <1>6, <1>7, <1>8 DEF RunCore

-----------------------------------------------------------------------------
(* Requests and compatibility output: a cancel request is refused after the *)
(* fence, and only a decision of the operator takes a job out of recovery.  *)
LEMMA FenceOfRequest ==
    ASSUME RunsOK, StageInv, FenceExcludesCancel, RequestCore
    PROVE  FenceExcludesCancel' /\ \A r \in DOMAIN runs : r \in DOMAIN runs' /\ runs'[r].fence = runs[r].fence
                                       /\ runs'[r].job = runs[r].job
<1>. DEFINE Kept == \A r \in DOMAIN runs : r \in DOMAIN runs' /\ runs'[r].fence = runs[r].fence
                                       /\ runs'[r].job = runs[r].job
<1>0. \A q \in DOMAIN runs : runs[q].job \in Jobs
  BY DEF RunsOK
<1>1. CASE UNCHANGED <<job, runs>>
  BY <1>1 DEF FenceExcludesCancel
<1>2. ASSUME NEW j \in Jobs, NEW kind, RunQueued(j, kind)
      PROVE  \E n : /\ DOMAIN runs' = DOMAIN runs \cup {n} /\ n \notin DOMAIN runs
                    /\ \A q \in DOMAIN runs : runs'[q] = runs[q]
                    /\ ~runs'[n].fence
  BY <1>2, RunsGrow DEF RunQueued
<1>3. ASSUME NEW j \in Jobs, NEW kind, job' = job, RunQueued(j, kind)
      PROVE  FenceExcludesCancel' /\ Kept
  BY <1>2, <1>3 DEF FenceExcludesCancel
<1>4. ASSUME NEW j \in Jobs, NEW kind, StageEntered(j, kind)
      PROVE  FenceExcludesCancel' /\ Kept
  <2>1. PICK n : /\ DOMAIN runs' = DOMAIN runs \cup {n} /\ n \notin DOMAIN runs
                 /\ \A q \in DOMAIN runs : runs'[q] = runs[q]
                 /\ ~runs'[n].fence
    BY <1>2, <1>4 DEF StageEntered
  <2>2. \A q \in DOMAIN runs : runs[q].fence /\ runs[q].st = "running" => runs[q].job # j
    BY <1>4 DEF StageEntered, FenceExcludesCancel, StageInv, Active, ReviewRuns, StageOf
  <2>3. \A i \in Jobs : i # j => job'[i] = job[i]
    BY <1>4 DEF StageEntered, JobTouched
  <2>. QED  BY <1>0, <2>1, <2>2, <2>3 DEF FenceExcludesCancel
<1>5. ASSUME NEW j \in Jobs, QueuedCancelled(j)
      PROVE  /\ DOMAIN runs' = DOMAIN runs /\ Kept
             /\ \A q \in DOMAIN runs : runs'[q].kind = runs[q].kind
             /\ \A q \in DOMAIN runs : runs[q].fence /\ runs[q].st # "queued" => runs'[q].st = runs[q].st
  BY <1>5 DEF QueuedCancelled, SameRun
<1>6. ASSUME NEW j \in Jobs, CancelAsked(j)
      PROVE  FenceExcludesCancel' /\ Kept
  <2>1. \A q \in DOMAIN runs : runs[q].fence /\ runs[q].st = "running" => runs[q].job # j
    BY <1>6 DEF CancelAsked, Fenced, RunsOf, FenceExcludesCancel
  <2>2. (\A i \in Jobs : i # j => job'[i] = job[i]) /\ QueuedCancelled(j)
    BY <1>6 DEF CancelAsked, JobTouched
  <2>. QED  BY <1>0, <1>5, <2>1, <2>2 DEF FenceExcludesCancel
<1>7. ASSUME NEW j \in Jobs, CancelDone(j)
      PROVE  FenceExcludesCancel' /\ Kept
  <2>1. \A q \in DOMAIN runs : runs[q].st = "running" => runs[q].job # j
    BY <1>7 DEF CancelDone, RunsOf
  <2>2. (\A i \in Jobs : i # j => job'[i] = job[i]) /\ QueuedCancelled(j)
    BY <1>7 DEF CancelDone, JobTouched
  <2>. QED  BY <1>0, <1>5, <2>1, <2>2 DEF FenceExcludesCancel
<1>. QED  BY <1>1, <1>3, <1>4, <1>6, <1>7 DEF RequestCore

(* A request: no cancelled job gets output, and no fence is raised.         *)
LEMMA OutputOfRequest ==
    ASSUME RunsOK, StageInv, FenceExcludesCancel, RequestCore, pub' = pub, covered \subseteq covered',
           NEW j \in Jobs, OutputAccounted(j)
    PROVE  OutputAccounted(j)'
<1>0. \A q \in DOMAIN runs : q \in DOMAIN runs' /\ runs'[q].fence = runs[q].fence /\ runs'[q].job = runs[q].job
  BY FenceOfRequest
<1>1. RunningKept
  <2>1. ASSUME NEW i, NEW kind, RunQueued(i, kind)
        PROVE  RunningKept
    BY <2>1, RunsGrow DEF RunQueued
  <2>2. ASSUME NEW i, QueuedCancelled(i)
        PROVE  RunningKept
    BY <2>2 DEF QueuedCancelled, RunningKept
  <2>3. CASE runs' = runs
    BY <2>3 DEF RunningKept
  <2>. QED  BY <2>1, <2>2, <2>3 DEF RequestCore, CancelAsked, CancelDone, StageEntered
<1>2. CASE job'[j].st = job[j].st /\ job'[j].fail = job[j].fail /\ job'[j].ref = job[j].ref
  BY <1>0, <1>1, <1>2 DEF OutputAccounted, RunningKept
<1>3. ASSUME Decided(j), job[j].st # "annotated",
             \A q \in DOMAIN runs : runs[q].fence /\ runs[q].st = "running" => runs[q].job # j
      PROVE  OutputAccounted(j)'
  BY <1>0, <1>3 DEF OutputAccounted, Decided
<1>4. CASE CancelDone(j)
  BY <1>3, <1>4 DEF CancelDone, RunsOf
<1>5. ASSUME NEW kind, StageEntered(j, kind)
      PROVE  OutputAccounted(j)'
  <2>1. \A q \in DOMAIN runs : runs[q].fence /\ runs[q].st = "running" => runs[q].job # j
    BY <1>5 DEF StageEntered, FenceExcludesCancel, StageInv, Active, ReviewRuns, StageOf
  <2>. QED  BY <1>3, <1>5, <2>1 DEF StageEntered
<1>6. \/ job'[j].st = job[j].st /\ job'[j].fail = job[j].fail /\ job'[j].ref = job[j].ref
      \/ CancelDone(j) \/ \E kind : StageEntered(j, kind)
  BY DEF RequestCore, CancelAsked, CancelDone, StageEntered, JobTouched
<1>. QED  BY <1>2, <1>4, <1>5, <1>6

-----------------------------------------------------------------------------
(* The steps of the Worker and compatibility output.  A step that writes no *)
(* output of its own: the run is ended with its fence honoured.             *)
OutputKept == (\A j \in Jobs : OutputAccounted(j)) /\ FenceExcludesCancel

(* Every transaction of the ledger.                                         *)
LEMMA OutputOfTransaction ==
    ASSUME LedgerOK, StageInv, OutputKept, NEW r \in DOMAIN runs, RunTransaction(r),
           FenceHonoured(r), UNCHANGED <<pub, covered>>
    PROVE  OutputKept'
<1>1. JobsOK /\ RunsOK
  BY DEF LedgerOK, TablesOK
<1>2. RunCore(r)
  BY <1>1, RunTransactionCore
<1>. QED  BY <1>1, <1>2, FenceOfRun, OutputOfRun DEF OutputKept

(* Output is written, and no run is ended.                                  *)
RunsAlike ==
    /\ DOMAIN runs' = DOMAIN runs
    /\ \A q \in DOMAIN runs : SameRun(runs[q], runs'[q]) /\ runs'[q].st = runs[q].st
                              /\ runs'[q].fence = runs[q].fence

(* Output is written for a run that is behind its fence.                    *)
LEMMA OutputWritten ==
    ASSUME OutputKept, UNCHANGED <<job, covered>>, RunsAlike, DOMAIN pub = Jobs, NEW j \in Jobs, NEW x,
           pub' = [pub EXCEPT ![j] = x],
           \/ x = "partial" /\ "publication" \in Faults
           \/ job[j].st = "annotated"
           \/ \E r \in DOMAIN runs : runs[r].job = j /\ runs[r].st = "running" /\ runs[r].fence
    PROVE  OutputKept' /\ DOMAIN pub' = Jobs
<1>1. DOMAIN pub' = Jobs /\ pub'[j] = x /\ \A i \in Jobs : i # j => pub'[i] = pub[i]
  OBVIOUS
<1>2. FenceExcludesCancel'
  BY DEF OutputKept, FenceExcludesCancel, RunsAlike, SameRun
<1>3. \A q \in DOMAIN runs : runs'[q].job = runs[q].job /\ runs'[q].st = runs[q].st /\ runs'[q].fence = runs[q].fence
  BY DEF RunsAlike, SameRun
<1>4. DOMAIN runs' = DOMAIN runs
  BY DEF RunsAlike
<1>5. ASSUME NEW i \in Jobs
      PROVE  OutputAccounted(i)'
  <2>1. CASE i = j
    BY <1>1, <1>3, <1>4, <2>1 DEF OutputAccounted
  <2>2. CASE i # j
    BY <1>1, <1>3, <1>4, <2>2 DEF OutputAccounted, OutputKept
  <2>. QED  BY <2>1, <2>2
<1>. QED  BY <1>1, <1>2, <1>5 DEF OutputKept

(* A run is noted.                                                          *)
LEMMA NotedAlike ==
    ASSUME NEW r, RunNoted(r)
    PROVE  RunsAlike
BY DEF RunNoted, RunTouched, RunsAlike, SameRun

(* A settled run that did not fail.                                         *)
LEMMA FinishHonoured ==
    ASSUME RunsOK, NEW r \in DOMAIN runs, NEW x \in {"succeeded", "cancelled"}, FinishRun(r, x)
    PROVE  FenceHonoured(r)
BY RunStatusWritten DEF FinishRun, FenceHonoured

(* A failed one.                                                            *)
LEMMA FailHonoured ==
    ASSUME JobsOK, RunsOK, FenceExcludesCancel, NEW r \in DOMAIN runs, Running(r), NEW f, FailRun(r, f),
           \/ f = "recovery_required" \/ ~runs[r].fence
           \/ pub[runs[r].job] = "partial" /\ "publication" \in Faults
    PROVE  FenceHonoured(r)
<1>1. CASE RunCancelled(r)
  BY <1>1 DEF RunCancelled, RunEnded, FenceHonoured
<1>2. CASE runs[r].kind \in ReviewRuns
  BY <1>2 DEF FenceExcludesCancel, FenceHonoured, ReviewRuns
<1>3. CASE StageFailed(r, f)
  BY <1>3 DEF StageFailed, FenceHonoured
<1>. QED  BY <1>1, <1>2, <1>3, FailRunCore

(* The Worker's run at one of its places.                                   *)
LEMMA PlaceOfRun ==
    ASSUME LedgerOK, pc \notin {"idle", "done"}
    PROVE  cur \in DOMAIN runs /\ Running(cur) /\ runs[cur].job \in Jobs
BY DEF LedgerOK, WorkerRuns, Running, TablesOK, RunsOK

-----------------------------------------------------------------------------
(* Neither jobs, runs nor output change; the Worker goes on.                *)
LEMMA OutputQuiet ==
    ASSUME OutputInv, UNCHANGED <<job, runs, pub, covered>>,
           \/ UNCHANGED <<pc, cur>>
           \/ pc' \in {"idle", "closing", "done"}
           \/ pc \notin {"idle", "publish", "closing", "done"} /\ cur' = cur /\ pc' # "publish"
    PROVE  OutputInv'
BY DEF OutputInv, FenceExcludesCancel, FencePlaces, OutputAccounted

(* The run is noted or ended on the way.                                    *)
LEMMA OutputSettled ==
    ASSUME LedgerOK, StageInv, OutputInv, NEW r \in DOMAIN runs, RunTransaction(r), UNCHANGED <<pub, covered>>,
           FenceHonoured(r), pc' \in {"idle", "closing", "done"}
    PROVE  OutputInv'
<1>1. OutputKept'
  BY OutputOfTransaction DEF OutputInv, OutputKept
<1>. QED  BY <1>1 DEF OutputInv, OutputKept, FencePlaces

(* The Worker, leaving output and runs alone.                               *)
LEMMA OutputNoted ==
    ASSUME OutputInv, cur \in DOMAIN runs, RunNoted(cur), UNCHANGED <<job, pub, covered, cur>>,
           pc' # "publish", pc' \in {"closing", "done"} \/ pc \notin {"idle", "publish", "closing", "done"}
    PROVE  OutputInv'
<1>1. RunsAlike
  BY NotedAlike
<1>2. \A q \in DOMAIN runs : /\ runs'[q].job = runs[q].job /\ runs'[q].kind = runs[q].kind
                             /\ runs'[q].st = runs[q].st /\ runs'[q].fence = runs[q].fence
  BY <1>1 DEF RunsAlike, SameRun
<1>3. DOMAIN runs' = DOMAIN runs
  BY <1>1 DEF RunsAlike
<1>4. FenceExcludesCancel'
  BY <1>2, <1>3 DEF OutputInv, FenceExcludesCancel
<1>5. \A j \in Jobs : OutputAccounted(j)'
  BY <1>2, <1>3 DEF OutputInv, OutputAccounted
<1>6. FencePlaces'
  BY <1>2 DEF OutputInv, FencePlaces
<1>. QED  BY <1>4, <1>5, <1>6 DEF OutputInv

(* Publication: the fence, then the output.                                 *)
LEMMA OutputFence ==
    ASSUME LedgerOK, StageInv, OutputInv, Fence, covered' = covered
    PROVE  OutputInv'
<1>0. /\ pc = "locked" /\ cur \in DOMAIN runs /\ Running(cur) /\ cur' = cur /\ pub' = pub
      /\ RunsOK
  BY PlaceOfRun DEF Fence, At, LedgerOK, TablesOK
<1>1. CASE BeginPublication(cur) /\ pc' = "publish"
  <2>1. RunTransaction(cur)
    BY <1>1 DEF RunTransaction
  <2>2. runs' = [runs EXCEPT ![cur] = [[runs[cur] EXCEPT !.fence = TRUE] EXCEPT !.step = "started"]]
    BY <1>1 DEF BeginPublication
  <2>3. runs'[cur].st = runs[cur].st /\ runs'[cur].fence = TRUE
    BY <1>0, <2>2, RunTwoColumns
  <2>4. OutputKept'
    <3>1. FenceHonoured(cur)
      BY <1>0, <2>3 DEF FenceHonoured, Running
    <3>. QED  BY <1>0, <2>1, <3>1, OutputOfTransaction DEF OutputInv, OutputKept
  <2>5. FencePlaces'
    BY <1>0, <1>1, <2>3 DEF FencePlaces
  <2>. QED  BY <1>0, <2>4, <2>5 DEF OutputInv, OutputKept
<1>2. CASE UNCHANGED storeVars /\ pc' = "failing"
  BY <1>0, <1>2, OutputQuiet DEF storeVars
<1>. QED  BY <1>1, <1>2 DEF Fence, Goto, Raise

(* The publication itself.                                                  *)
LEMMA OutputPublish ==
    ASSUME LedgerOK, StageInv, OutputInv, Publish, covered' = covered
    PROVE  OutputInv'
<1>0. /\ pc = "publish" /\ cur \in DOMAIN runs /\ Running(cur) /\ cur' = cur /\ runs[cur].job \in Jobs
      /\ RunsOK /\ runs[cur].fence
  BY PlaceOfRun DEF Publish, At, LedgerOK, TablesOK, OutputInv, FencePlaces
<1>1. CASE FinishStep(cur, TRUE) /\ pc' = "closing" /\ pub' = [pub EXCEPT ![runs[cur].job] = "done"]
  <2>1. RunsAlike /\ job' = job
    BY <1>0, <1>1, RunStepWritten, NotedAlike DEF FinishStep
  <2>2. \E r \in DOMAIN runs : runs[r].job = runs[cur].job /\ runs[r].st = "running" /\ runs[r].fence
    BY <1>0 DEF Running
  <2>3. OutputKept' /\ DOMAIN pub' = Jobs
    BY <1>0, <1>1, <2>1, <2>2, OutputWritten DEF OutputInv, OutputKept
  <2>. QED  BY <1>1, <2>3 DEF OutputInv, OutputKept, FencePlaces
<1>2. CASE UNCHANGED storeVars /\ pc' = "failing" /\ "publication" \in Faults
           /\ pub' = [pub EXCEPT ![runs[cur].job] = "partial"]
  <2>1. RunsAlike /\ job' = job /\ runs' = runs
    BY <1>2 DEF RunsAlike, SameRun, storeVars
  <2>2. OutputKept' /\ DOMAIN pub' = Jobs
    BY <1>0, <1>2, <2>1, OutputWritten DEF OutputInv, OutputKept
  <2>3. pub'[runs[cur].job] = "partial"
    BY <1>0, <1>2 DEF OutputInv
  <2>. QED  BY <1>0, <1>2, <2>1, <2>2, <2>3 DEF OutputInv, OutputKept, FencePlaces
<1>. QED  BY <1>1, <1>2 DEF Publish, Goto, Raise, CurJob

(* publish_bound_revision is executed for an annotated job.                 *)
LEMMA OutputWork ==
    ASSUME LedgerOK, StageInv, OutputInv, WorkDone, covered' = covered
    PROVE  OutputInv'
<1>0. /\ pc = "work" /\ cur \in DOMAIN runs /\ Running(cur) /\ cur' = cur /\ runs[cur].job \in Jobs
      /\ UNCHANGED storeVars
  BY PlaceOfRun DEF WorkDone, At
<1>1. CASE pub' = pub
  BY <1>0, <1>1, OutputQuiet DEF WorkDone, AfterWork, Goto, storeVars
<1>2. CASE RevisionPublished
  <2>1. runs[cur].kind = "compatibility_publish" /\ pub' = [pub EXCEPT ![runs[cur].job] = "done"]
    BY <1>2 DEF RevisionPublished, CurKind, CurJob
  <2>2. job[runs[cur].job].st = "annotated" /\ pc' = "closing"
    BY <1>0, <2>1 DEF StageInv, Running, ReviewRuns, WorkDone, AfterWork, CurKind, Goto
  <2>3. RunsAlike /\ job' = job
    BY <1>0 DEF RunsAlike, SameRun, storeVars
  <2>4. OutputKept' /\ DOMAIN pub' = Jobs
    BY <1>0, <2>1, <2>2, <2>3, OutputWritten DEF OutputInv, OutputKept
  <2>. QED  BY <2>2, <2>4 DEF OutputInv, OutputKept, FencePlaces
<1>. QED
  BY <1>1, <1>2 DEF WorkDone, PrepareReturns, TrackReturns, ProcessingReturns, FixReturns

-----------------------------------------------------------------------------
(* The end of a run, and the verdict on an interrupted one.                 *)
LEMMA OutputEnd ==
    ASSUME LedgerOK, StageInv, OutputInv, Closing \/ PrepareRejected \/ Settle \/ Fail \/ Recover \/ Claim,
           covered' = covered
    PROVE  OutputInv'
<1>0. JobsOK /\ RunsOK /\ FenceExcludesCancel /\ pub' = pub
  BY DEF LedgerOK, TablesOK, OutputInv, Closing, PrepareRejected, Settle, Fail, Recover, Claim, workerVars
<1>1. CASE Closing
  <2>0. /\ pc = "closing" /\ cur \in DOMAIN runs /\ Running(cur) /\ cur' = cur
    BY <1>1, PlaceOfRun DEF Closing, At
  <2>1. CASE FinishStep(cur, TRUE) /\ pc' = "closing"
    <3>1. RunNoted(cur) /\ job' = job
      BY <1>0, <2>0, <2>1, RunStepWritten DEF FinishStep
    <3>. QED  BY <1>0, <2>0, <2>1, <3>1, OutputNoted
  <2>2. CASE CompletionOf(cur) /\ pc' = "done"
    <3>1. /\ RunTransaction(cur)
          /\ FinishRun(cur, "succeeded")
      BY <2>2 DEF CompletionOf, CurKind, RunTransaction, CompletePrepare, CompleteTracking,
                  CompletePostprocessing, CompleteFixRun, CompletePublication
    <3>2. FenceHonoured(cur)
      BY <1>0, <2>0, <3>1, FinishHonoured
    <3>. QED  BY <1>0, <2>0, <2>2, <3>1, <3>2, OutputSettled
  <2>3. CASE CompleteAsCancelled(cur) /\ pc' = "done"
    <3>1. RunTransaction(cur) /\ FinishRun(cur, "cancelled")
      BY <2>3 DEF RunTransaction, CompleteAsCancelled
    <3>2. FenceHonoured(cur)
      BY <1>0, <2>0, <3>1, FinishHonoured
    <3>. QED  BY <1>0, <2>0, <2>3, <3>1, <3>2, OutputSettled
  <2>. QED  BY <1>1, <2>1, <2>2, <2>3 DEF Closing, Goto
<1>2. CASE PrepareRejected
  <2>1. /\ pc = "closing" /\ cur \in DOMAIN runs /\ Running(cur) /\ runs[cur].kind = "prepare"
        /\ FailRun(cur, "final") /\ pc' = "done"
    BY <1>2, PlaceOfRun DEF PrepareRejected, At, CurKind, Goto
  <2>2. ~runs[cur].fence
    BY <1>0, <2>1 DEF FenceExcludesCancel
  <2>3. FenceHonoured(cur)
    BY <1>0, <2>1, <2>2, FailHonoured
  <2>4. RunTransaction(cur)
    BY <2>1 DEF RunTransaction
  <2>. QED  BY <1>0, <2>1, <2>3, <2>4, OutputSettled
<1>3. CASE Settle
  <2>0. /\ pc = "settle" /\ cur \in DOMAIN runs /\ Running(cur) /\ cur' = cur
    BY <1>3, PlaceOfRun DEF Settle, At
  <2>1. CASE CompleteCancelledRun(cur) /\ pc' = "done"
    <3>1. RunTransaction(cur) /\ FinishRun(cur, "cancelled")
      BY <2>0, <2>1 DEF RunTransaction, CompleteCancelledRun, CompleteAsCancelled, Running
    <3>2. FenceHonoured(cur)
      BY <1>0, <2>0, <3>1, FinishHonoured
    <3>. QED  BY <1>0, <2>0, <2>1, <3>1, <3>2, OutputSettled
  <2>2. CASE pc' = "fail" /\ UNCHANGED storeVars
    BY <1>0, <2>0, <2>2, OutputQuiet DEF storeVars
  <2>. QED  BY <1>3, <2>1, <2>2 DEF Settle, Goto
<1>4. CASE Fail
  <2>1. /\ pc = "fail" /\ cur \in DOMAIN runs /\ Running(cur) /\ pc' = "done"
        /\ \E f : FailRun(cur, f)
    BY <1>4, PlaceOfRun DEF Fail, At, Goto
  <2>2. ~runs[cur].fence \/ (pub[runs[cur].job] = "partial" /\ "publication" \in Faults)
    BY <2>1 DEF OutputInv, FencePlaces
  <2>3. FenceHonoured(cur)
    BY <1>0, <2>1, <2>2, FailHonoured
  <2>4. RunTransaction(cur)
    BY <2>1 DEF RunTransaction
  <2>. QED  BY <1>0, <2>1, <2>3, <2>4, OutputSettled
<1>5. CASE Recover
  <2>1. PICK r \in Interrupted : FailRun(r, "recovery_required")
    BY <1>5 DEF Recover, RecoverInterrupted
  <2>2. r \in DOMAIN runs /\ Running(r) /\ pc' = "idle"
    BY <1>5 DEF Interrupted, Running, Recover, At, workerVars
  <2>3. FenceHonoured(r)
    BY <1>0, <2>1, <2>2, FailHonoured
  <2>4. RunTransaction(r)
    BY <2>1, <2>2 DEF RunTransaction
  <2>. QED  BY <1>0, <2>2, <2>3, <2>4, OutputSettled
<1>6. CASE Claim
  <2>1. PICK r \in DOMAIN runs : ClaimNextRun(r) /\ cur' = r
    BY <1>6 DEF Claim
  <2>2. RunTransaction(r) /\ pc' = "claimed"
    BY <1>6, <2>1 DEF RunTransaction, Claim, Goto
  <2>3. RunTouched(r) /\ runs'[r].st = "running" /\ runs'[r].fence = runs[r].fence
    BY <1>0, <2>1, RunStatusWritten DEF ClaimNextRun
  <2>6. runs[r].st = "queued"
    BY <2>1 DEF ClaimNextRun, Claimable
  <2>7. ~runs[r].fence
    BY <1>0, <2>6, Zenon DEF FenceExcludesCancel
  <2>4. FenceHonoured(r)
    BY <2>7 DEF FenceHonoured
  <2>5. OutputKept'
    BY <1>0, <2>2, <2>4, OutputOfTransaction DEF OutputInv, OutputKept
  <2>. QED  BY <1>0, <2>1, <2>2, <2>3, <2>5, <2>7 DEF OutputInv, OutputKept, FencePlaces
<1>. QED  BY <1>1, <1>2, <1>3, <1>4, <1>5, <1>6

(* Every step of the Worker.                                                *)
LEMMA OutputOfWorker ==
    ASSUME LedgerOK, StageInv, OutputInv, WorkerStep
    PROVE  OutputInv'
<1>0. covered' = covered
  BY DEF WorkerStep, hostVars
<1>1. CASE Stop \/ HeartbeatCheck \/ HeartbeatRenew \/ HeartbeatRecheck \/ HeartbeatFails \/ LeaseExpires
  <2>1. UNCHANGED <<job, runs, pub, pc, cur>>
    BY <1>1
       DEF Stop, HeartbeatCheck, HeartbeatRenew, RenewLease, HeartbeatRecheck, HeartbeatFails, LeaseExpires,
           storeVars, workerVars
  <2>. QED  BY <1>0, <2>1, OutputQuiet
<1>2. CASE Execute \/ Capacity \/ NextTarget \/ Bind \/ EnterLock \/ WorkFails
  <2>1. UNCHANGED <<job, runs, pub, cur>>
    BY <1>2 DEF Execute, Capacity, NextTarget, Bind, EnterLock, WorkFails, storeVars
  <2>2. pc \in {"claimed", "capacity", "next", "bind", "lock", "fence", "work"}
    BY <1>2 DEF Execute, Capacity, NextTarget, Bind, EnterLock, WorkFails, At
  <2>3. pc' # "publish"
    BY <1>2
       DEF Execute, Capacity, NextTarget, Bind, EnterLock, WorkFails, Goto, Raise, CommandKilled, CommandSurvives,
           OutputConflict, PrepareRaises, TrackRaises, ProcessingRaises, FixRaises
  <2>. QED  BY <1>0, <2>1, <2>2, <2>3, OutputQuiet
<1>3. CASE Finished
  <2>1. UNCHANGED <<job, runs, pub>> /\ pc' = "idle"
    BY <1>3 DEF Finished, storeVars, Goto
  <2>. QED  BY <1>0, <2>1, OutputQuiet
<1>4. CASE SetupTracking \/ Failing \/ Record
  <2>0. /\ pc \in {"setup", "failing", "record"} /\ cur' = cur /\ pub' = pub
        /\ pc' \in {"next", "failing", "settle"}
    BY <1>4 DEF SetupTracking, Failing, Record, At, Goto, Raise
  <2>1. cur \in DOMAIN runs /\ RunsOK
    BY <2>0, PlaceOfRun DEF LedgerOK, TablesOK
  <2>2. CASE UNCHANGED <<job, runs>>
    BY <1>0, <2>0, <2>2, OutputQuiet
  <2>3. CASE StartStep(cur) \/ FailActiveStep(cur)
    <3>1. RunNoted(cur) /\ job' = job
      BY <2>1, <2>3, RunStepWritten DEF StartStep, FailActiveStep
    <3>. QED  BY <1>0, <2>0, <2>1, <3>1, OutputNoted
  <2>. QED  BY <1>4, <2>2, <2>3 DEF SetupTracking, Failing, Record, RecordCheckpoint, storeVars
<1>. QED
  BY <1>0, <1>1, <1>2, <1>3, <1>4, OutputEnd, OutputFence, OutputPublish, OutputWork DEF WorkerStep

(* The process ends.  If it was publishing, the run is behind its fence, or *)
(* its job is annotated.                                                    *)
LEMMA OutputOfEnd ==
    ASSUME LedgerOK, StageInv, OutputInv, ServiceEnds
    PROVE  OutputInv'
<1>0. UNCHANGED <<job, runs, covered>> /\ pc' = "idle"
  BY DEF ServiceEnds, ShutDown, Crash, Ended
<1>1. CASE pub' = pub
  BY <1>0, <1>1, OutputQuiet
<1>2. ASSUME Publishing, NEW x, pub' = [pub EXCEPT ![CurJob] = x]
      PROVE  OutputInv'
  <2>1. cur \in DOMAIN runs /\ Running(cur) /\ runs[cur].job \in Jobs
    BY <1>2, PlaceOfRun DEF Publishing, At
  <2>2. \/ job[runs[cur].job].st = "annotated"
        \/ \E r \in DOMAIN runs : runs[r].job = runs[cur].job /\ runs[r].st = "running" /\ runs[r].fence
    <3>1. CASE pc = "publish"
      BY <2>1, <3>1 DEF OutputInv, FencePlaces, Running
    <3>2. CASE runs[cur].kind = "compatibility_publish"
      BY <2>1, <3>2 DEF StageInv, Running, ReviewRuns
    <3>. QED  BY <1>2, <3>1, <3>2 DEF Publishing, At, CurKind
  <2>3. RunsAlike
    BY <1>0 DEF RunsAlike, SameRun
  <2>4. OutputKept' /\ DOMAIN pub' = Jobs
    BY <1>0, <1>2, <2>1, <2>2, <2>3, OutputWritten DEF OutputInv, OutputKept, CurJob
  <2>. QED  BY <1>0, <2>4 DEF OutputInv, OutputKept, FencePlaces
<1>. QED  BY <1>1, <1>2 DEF ServiceEnds, ShutDown, Crash

(* Every other step: what the operator has cleared stays cleared.           *)
LEMMA OutputElsewhere ==
    ASSUME [Next]_vars, ~WorkerStep, ~ServiceEnds
    PROVE  pub' = pub /\ covered \subseteq covered'
<1>1. UNCHANGED <<workerVars, hostVars>> => pub' = pub /\ covered \subseteq covered'
  BY DEF workerVars, hostVars
<1>2. CASE PipelineRequest \/ ReviewRequest \/ NavigationWrites \/ OrphanEnds \/ \E j \in Jobs : OpConfirm(j)
  BY <1>1, <1>2 DEF PipelineRequest, ReviewRequest, NavigationWrites, OrphanEnds, OpConfirm
<1>3. ASSUME NEW j \in Jobs, CancelCommit(j) \/ CancelOwns(j) \/ CancelTold(j)
      PROVE  pub' = pub /\ covered \subseteq covered'
  BY <1>3 DEF CancelCommit, CancelOwns, CancelTold, workerVars
<1>4. CASE DeliveryStarts \/ DeliveryTracks \/ DeliveryStep \/ DeliverySettles
  BY <1>4 DEF DeliveryStarts, DeliveryTracks, DeliveryStep, DeliverySettles, workerVars
<1>5. CASE OpRecord \/ OpComplete \/ OpUnlink \/ OpDies \/ OpReplay
  BY <1>5 DEF OpRecord, OpComplete, OpUnlink, OpDies, OpReplay, workerVars
<1>6. CASE ServiceStarts
  BY <1>6 DEF ServiceStarts, Restart, hostVars
<1>7. CASE UNCHANGED vars
  BY <1>1, <1>7 DEF vars
<1>. QED  BY <1>2, <1>3, <1>4, <1>5, <1>6, <1>7 DEF Next

(* Every step.                                                              *)
LEMMA OutputStep ==
    ASSUME LedgerOK, StageInv, OutputInv, [Next]_vars
    PROVE  OutputInv'
<1>1. CASE ~WorkerStep /\ ~ServiceEnds
  <2>0. TablesOK /\ JobsOK /\ RunsOK /\ FenceExcludesCancel
    BY DEF LedgerOK, TablesOK, OutputInv
  <2>1. OutsideTransaction /\ (UNCHANGED <<pc, cur>> \/ pc' = "idle")
    BY <1>1, <2>0, OutsideStep
  <2>2. pub' = pub /\ covered \subseteq covered'
    BY <1>1, OutputElsewhere
  <2>3. RequestCore
    BY <2>0, <2>1, OutsideCore
  <2>4. /\ FenceExcludesCancel'
        /\ \A r \in DOMAIN runs : r \in DOMAIN runs' /\ runs'[r].fence = runs[r].fence /\ runs'[r].job = runs[r].job
    BY <2>0, <2>3, FenceOfRequest
  <2>5. \A j \in Jobs : OutputAccounted(j)'
    BY <2>0, <2>2, <2>3, OutputOfRequest DEF OutputInv
  <2>6. FencePlaces'
    <3>1. CASE pc' = "idle"
      BY <3>1 DEF FencePlaces
    <3>2. CASE UNCHANGED <<pc, cur>> /\ pc \notin {"idle", "done"}
      BY <2>2, <2>4, <3>2, PlaceOfRun DEF OutputInv, FencePlaces
    <3>3. CASE UNCHANGED <<pc, cur>> /\ pc = "done"
      BY <3>3 DEF FencePlaces
    <3>. QED  BY <2>1, <3>1, <3>2, <3>3 DEF FencePlaces
  <2>. QED  BY <2>2, <2>4, <2>5, <2>6 DEF OutputInv
<1>. QED  BY <1>1, OutputOfWorker, OutputOfEnd

(* Initially.                                                               *)
LEMMA OutputInitially == Init => OutputInv
BY DEF Init, StoreInit, WorkerInit, OutputInv, FenceExcludesCancel, FencePlaces, OutputAccounted

(* No cancelled job has compatibility output on disk: a cancel request that *)
(* comes after the publication fence is refused, one that comes before it   *)
(* keeps the Worker from publishing (store.py begin_postprocessing_         *)
(* publication, _cancel_job).  Only a publication that failed halfway, or a *)
(* run interrupted by a crash an operator has cleared, leaves output behind.*)
THEOREM CancelledJobsLeaveNoOutput == Spec => []CancelledLeavesNoOutput
<1>. DEFINE Inv == LedgerOK /\ StageInv /\ OutputInv
<1>1. Init => Inv
  BY LedgerInitially, StagesInitially, OutputInitially
<1>2. Inv /\ [Next]_vars => Inv'
  BY LedgerKept, StagesKept, OutputStep
<1>3. Inv => CancelledLeavesNoOutput
  <2>. SUFFICES ASSUME Inv, NEW j \in Jobs, job[j].st = "cancelled", pub[j] # "no"
                PROVE  \/ pub[j] = "partial" /\ "publication" \in Faults
                       \/ \E r \in covered : r \in DOMAIN runs /\ runs[r].job = j
    BY DEF CancelledLeavesNoOutput
  <2>1. ~\E r \in DOMAIN runs : runs[r].job = j /\ runs[r].st = "running" /\ runs[r].fence
    BY DEF OutputInv, FenceExcludesCancel, StageInv, Active, ReviewRuns, StageOf
  <2>. QED  BY <2>1 DEF OutputInv, OutputAccounted
<1>. QED  BY <1>1, <1>2, <1>3, PTL DEF Spec

-----------------------------------------------------------------------------
(* Processing authorities.  Postprocessing and what follows it happen only  *)
(* after a navigation task has become the processing authority of the job;  *)
(* reviews, Fix and publication runs belong to annotated jobs.              *)
AuthoritiesOK ==
    /\ DOMAIN auth = Jobs /\ None \notin linked
    /\ \A j \in Jobs : auth[j] \in linked \cup {None}
HasLastRun(j) ==
    \E p \in DOMAIN runs : runs[p].job = j /\ \A q \in DOMAIN runs : runs[q].job = j => q <= p
JobsHaveRuns == \A j \in Jobs : job[j].st # "none" => HasLastRun(j)
RunsAuthorized ==
    \A r \in DOMAIN runs :
        /\ runs[r].kind = "postprocessing" => auth[runs[r].job] # None
        /\ runs[r].kind \in ReviewRuns => runs[r].seg \in Segs /\ job[runs[r].job].st = "annotated"
ReviewsAuthorized ==
    \A j \in Jobs, s \in Segs : rev[j][s].st # "none" => auth[j] # None /\ job[j].st = "annotated"
AuthorityInv == AuthoritiesOK /\ JobsHaveRuns /\ RunsAuthorized /\ ReviewsAuthorized

(* Only link_navigation_task makes a task the authority of a job.           *)
LEMMA AuthorityStep ==
    ASSUME [Next]_vars
    PROVE  UNCHANGED <<auth, linked>> \/ \E j \in Jobs, t \in Tasks : LinkProcessing(j, t)
<1>1. UNCHANGED <<storeVars, reviewVars>> => UNCHANGED <<auth, linked>>
  BY DEF storeVars, reviewVars
<1>2. CASE PipelineRequest
  <2>0. linked' = linked
    BY <1>2 DEF PipelineRequest, reviewVars
  <2>1. ASSUME NEW j, CreateJob(j) \/ RetryJob(j) \/ StartTracking(j) \/ CompleteNoTargets(j)
        PROVE  auth' = auth
    BY <2>1 DEF CreateJob, RetryJob, ReturnToStage, StartTracking, CompleteNoTargets, CancelActiveJob
  <2>2. ASSUME NEW j, NEW s, SegmentTransaction(j, s)
        PROVE  auth' = auth
    BY <2>2 DEF SegmentTransaction, SaveDraft, SubmitSegment, Reopen, Skip, Unskip
  <2>3. ASSUME NEW j, NEW t, BeginPostprocessing(j, t)
        PROVE  auth' = auth
    BY <2>3 DEF BeginPostprocessing
  <2>4. PICK j \in Jobs :
            \/ CreateJob(j) \/ RetryJob(j) \/ StartTracking(j) \/ CompleteNoTargets(j)
            \/ \E s \in Segs : SegmentTransaction(j, s)
            \/ \E t \in Tasks : BeginPostprocessing(j, t)
    BY <1>2 DEF PipelineRequest, SegmentTransaction
  <2>. QED  BY <2>0, <2>1, <2>2, <2>3, <2>4
<1>3. CASE ReviewRequest
  <2>1. ASSUME NEW j, NEW s, ReviewTransaction(j, s)
        PROVE  UNCHANGED <<auth, linked>>
    BY <2>1
       DEF ReviewTransaction, CreateFixSession, ApplyFixCommand, CreateFixRevision, ResumeReturnedReview,
           DecideReview, ApproveFixRevision, RetryPublication, LinkFix
  <2>2. CASE CreateDatasetRelease \/ ResetUnreleasedDataset
    BY <2>2 DEF CreateDatasetRelease, ResetUnreleasedDataset, storeVars
  <2>3. \/ \E j \in Jobs, s \in Segs : ReviewTransaction(j, s)
        \/ CreateDatasetRelease \/ ResetUnreleasedDataset
        \/ \E j \in Jobs, t \in Tasks : LinkProcessing(j, t)
    BY <1>3 DEF ReviewRequest, ReviewTransaction
  <2>. QED  BY <2>1, <2>2, <2>3
<1>4. ASSUME NEW j \in Jobs, CancelCommit(j) \/ CancelOwns(j) \/ CancelTold(j) \/ OpConfirm(j)
      PROVE  UNCHANGED <<auth, linked>>
  BY <1>1, <1>4
     DEF CancelCommit, CancelOwns, CancelTold, OpConfirm, CancelJob, CancelActiveJob, ReturnToStage, reviewVars
<1>5. CASE DeliveryStarts \/ DeliveryTracks \/ DeliveryStep \/ DeliverySettles
  BY <1>1, <1>5
     DEF DeliveryStarts, DeliveryTracks, DeliveryStep, DeliverySettles, ClaimHandoff, SettleHandoff,
         AutoTracking, StartTracking, reviewVars
<1>6. CASE NavigationWrites \/ OrphanEnds \/ OpRecord \/ OpComplete \/ OpUnlink \/ OpDies \/ OpReplay
  BY <1>1, <1>6 DEF NavigationWrites, OrphanEnds, OpRecord, OpComplete, OpUnlink, OpDies, OpReplay
<1>7. CASE ServiceEnds \/ ServiceStarts
  BY <1>1, <1>7 DEF ServiceEnds, ServiceStarts, ShutDown, Crash, Ended, Restart, reviewVars
<1>8. CASE WorkerStep
  <2>0. UNCHANGED reviewVars
    BY <1>8 DEF WorkerStep
  <2>1. CASE Stop \/ HeartbeatCheck \/ HeartbeatRenew \/ HeartbeatRecheck \/ HeartbeatFails \/ LeaseExpires
    BY <1>1, <2>0, <2>1
       DEF Stop, HeartbeatCheck, HeartbeatRenew, RenewLease, HeartbeatRecheck, HeartbeatFails, LeaseExpires,
           reviewVars
  <2>2. ASSUME NEW r, NEW f, FailRun(r, f)
        PROVE  auth' = auth
    BY <2>2 DEF FailRun, storeVars
  <2>3. CASE Recover \/ PrepareRejected \/ Fail
    BY <2>0, <2>2, <2>3 DEF Recover, RecoverInterrupted, PrepareRejected, Fail, reviewVars
  <2>4. CASE Execute \/ Capacity \/ NextTarget \/ Bind \/ EnterLock \/ WorkDone \/ WorkFails \/ Finished
    BY <1>1, <2>0, <2>4 DEF Execute, Capacity, NextTarget, Bind, EnterLock, WorkDone, WorkFails, Finished
  <2>5. CASE Claim \/ SetupTracking \/ Record \/ Fence \/ Publish \/ Failing
    BY <1>1, <2>0, <2>5
       DEF Claim, ClaimNextRun, SetupTracking, StartStep, Record, RecordCheckpoint, Fence, BeginPublication,
           Publish, FinishStep, Failing, FailActiveStep, reviewVars
  <2>6. CASE Closing \/ Settle
    BY <1>1, <2>0, <2>6
       DEF Closing, FinishStep, CompletionOf, CompletePrepare, CompleteTracking, CompletePostprocessing,
           CompleteFixRun, CompletePublication, CompleteAsCancelled, Settle, CompleteCancelledRun, reviewVars
  <2>. QED  BY <1>8, <2>1, <2>3, <2>4, <2>5, <2>6 DEF WorkerStep
<1>9. CASE UNCHANGED vars
  BY <1>1, <1>9 DEF vars
<1>. QED  BY <1>2, <1>3, <1>4, <1>5, <1>6, <1>7, <1>8, <1>9 DEF Next

(* A job that has an authority keeps one.                                   *)
LEMMA AuthoritiesKept ==
    ASSUME AuthoritiesOK, [Next]_vars
    PROVE  /\ AuthoritiesOK' /\ linked \subseteq linked'
           /\ \A j \in Jobs : auth[j] # None => auth'[j] # None
<1>1. CASE UNCHANGED <<auth, linked>>
  BY <1>1 DEF AuthoritiesOK
<1>2. ASSUME NEW j \in Jobs, NEW t \in Tasks, LinkProcessing(j, t)
      PROVE  /\ AuthoritiesOK' /\ linked \subseteq linked'
             /\ \A i \in Jobs : auth[i] # None => auth'[i] # None
  <2>1. t # None
    BY StoreAssumption
  <2>2. auth' = [auth EXCEPT ![j] = t] /\ linked' = linked \cup {t}
    BY <1>2 DEF LinkProcessing
  <2>. QED  BY <2>1, <2>2 DEF AuthoritiesOK
<1>. QED  BY <1>1, <1>2, AuthorityStep

(* An annotated job stays annotated.                                        *)
LEMMA AnnotatedKept ==
    ASSUME LedgerOK, StageInv, [Next]_vars, NEW j \in Jobs, job[j].st = "annotated"
    PROVE  job'[j].st = "annotated"
<1>0. JobsOK /\ RunsOK
  BY DEF LedgerOK, TablesOK
<1>1. CASE OutsideTransaction
  BY <1>0, <1>1, OutsideCore, AnnotatedRequest
<1>2. CASE WorkerTransaction
  <2>1. CASE UNCHANGED ledgerVars
    BY <2>1 DEF ledgerVars
  <2>2. ASSUME NEW r \in DOMAIN runs, RunTransaction(r)
        PROVE  job'[j].st = "annotated"
    BY <1>0, <2>2, RunTransactionCore, AnnotatedRun
  <2>. QED  BY <1>2, <2>1, <2>2 DEF WorkerTransaction
<1>. QED  BY <1>1, <1>2, EveryTransaction

(* Rewritten runs stay in their order, and a queued one is the last of its  *)
(* job.                                                                     *)
LEMMA LastRunKept ==
    ASSUME RunsRewritten, NEW j, HasLastRun(j)
    PROVE  HasLastRun(j)'
BY DEF HasLastRun, RunsRewritten, SameRun

(* A run is queued.                                                         *)
LEMMA LastRunQueued ==
    ASSUME RunsOK, NEW i, NEW kind, RunQueued(i, kind), NEW j, j = i \/ HasLastRun(j)
    PROVE  HasLastRun(j)'
<1>1. PICK e : runs' = Append(runs, e) /\ e.job = i
  BY DEF RunQueued
<1>. DEFINE n == Len(runs) + 1
<1>2. /\ DOMAIN runs' = DOMAIN runs \cup {n} /\ runs'[n] = e /\ n \notin DOMAIN runs
      /\ \A r \in DOMAIN runs : runs'[r] = runs[r]
  BY <1>1, RunsGrow
<1>3. \A r \in DOMAIN runs' : r <= n
  <2>1. Len(runs) \in Nat /\ DOMAIN runs = 1 .. Len(runs)
    BY SequenceDomain DEF RunsOK
  <2>. QED  BY <1>2, <2>1
<1>. HIDE DEF n
<1>4. CASE j = i
  BY <1>1, <1>2, <1>3, <1>4 DEF HasLastRun
<1>5. CASE j # i
  BY <1>1, <1>2, <1>5 DEF HasLastRun
<1>. QED  BY <1>4, <1>5

(* A job that was created has a last run.                                   *)
LEMMA JobsHaveRunsKept ==
    ASSUME LedgerOK, JobsHaveRuns, RunsAuthorized, [Next]_vars
    PROVE  JobsHaveRuns'
<1>0. JobsOK /\ RunsOK
  BY DEF LedgerOK, TablesOK
<1>1. CASE UNCHANGED <<job, runs>>
  BY <1>1 DEF JobsHaveRuns, HasLastRun
<1>2. ASSUME RunsRewritten, NEW i \in Jobs, JobTouched(i), job[i].st # "none"
      PROVE  JobsHaveRuns'
  BY <1>2, LastRunKept DEF JobsHaveRuns, JobTouched
<1>3. ASSUME RunsRewritten, job' = job
      PROVE  JobsHaveRuns'
  BY <1>3, LastRunKept DEF JobsHaveRuns
<1>4. ASSUME NEW r \in DOMAIN runs, RunCore(r)
      PROVE  JobsHaveRuns'
  <2>1. RunsRewritten
    BY <1>4, CoreRewrites
  <2>2. runs[r].job \in Jobs /\ job[runs[r].job].st # "none"
    BY <1>0 DEF RunsOK, RunsAuthorized
  <2>3. job' = job \/ JobTouched(runs[r].job)
    BY <1>4 DEF RunCore, StageDone, RunCancelled, StageFailed
  <2>. QED  BY <1>2, <1>3, <2>1, <2>2, <2>3
<1>5. CASE RequestCore
  <2>1. ASSUME NEW j \in Jobs, NEW kind, job' = job, RunQueued(j, kind)
        PROVE  JobsHaveRuns'
    BY <1>0, <2>1, LastRunQueued DEF JobsHaveRuns
  <2>2. ASSUME NEW j \in Jobs, NEW kind, StageEntered(j, kind)
        PROVE  JobsHaveRuns'
    BY <1>0, <2>2, LastRunQueued DEF JobsHaveRuns, StageEntered, JobTouched
  <2>3. ASSUME NEW j \in Jobs, CancelAsked(j) \/ CancelDone(j)
        PROVE  JobsHaveRuns'
    <3>1. RunsRewritten
      BY <2>3 DEF CancelAsked, CancelDone, QueuedCancelled, RunsRewritten, SameRun
    <3>2. JobTouched(j) /\ (job[j].st = "none" => job'[j].st = "none")
      BY <2>3 DEF CancelAsked, CancelDone
    <3>. QED  BY <3>1, <3>2, LastRunKept DEF JobsHaveRuns, JobTouched
  <2>. QED  BY <1>1, <1>5, <2>1, <2>2, <2>3 DEF RequestCore
<1>6. CASE OutsideTransaction
  BY <1>0, <1>5, <1>6, OutsideCore
<1>7. CASE WorkerTransaction
  BY <1>0, <1>1, <1>4, <1>7, RunTransactionCore DEF WorkerTransaction, ledgerVars
<1>. QED  BY <1>6, <1>7, EveryTransaction

-----------------------------------------------------------------------------
(* A new run is one of an authorized job.                                   *)
RunAuthorized(v) ==
    /\ v.job \in Jobs
    /\ v.kind = "postprocessing" => auth[v.job] # None
    /\ v.kind \in ReviewRuns => v.seg \in Segs /\ job[v.job].st = "annotated"
RunsExtend ==
    \A r \in DOMAIN runs' : \/ r \in DOMAIN runs /\ SameRun(runs[r], runs'[r])
                            \/ \E v : v = runs'[r] /\ RunAuthorized(v)

(* _enqueue_run                                                             *)
LEMMA EnqueueExtends ==
    ASSUME RunsOK, NEW j \in Jobs, NEW kind, NEW s, NEW d, EnqueueRun(j, kind, s, d),
           kind = "postprocessing" => auth[j] # None,
           kind \in ReviewRuns => s \in Segs /\ job[j].st = "annotated"
    PROVE  RunsExtend
<1>. DEFINE n == Len(runs) + 1
            e == [job |-> j, kind |-> kind, seg |-> s, d |-> d, st |-> "queued", fail |-> "none",
                  fence |-> FALSE, step |-> "idle"]
<1>1. runs' = Append(runs, e)
  BY DEF EnqueueRun
<1>2. e.job = j /\ e.kind = kind /\ e.seg = s
  OBVIOUS
<1>. HIDE DEF e
<1>3. /\ DOMAIN runs' = DOMAIN runs \cup {n} /\ runs'[n] = e
      /\ \A r \in DOMAIN runs : runs'[r] = runs[r]
  BY <1>1, RunsGrow
<1>. HIDE DEF n
<1>4. RunAuthorized(e)
  BY <1>2 DEF RunAuthorized
<1>. QED  BY <1>3, <1>4 DEF RunsExtend, SameRun

(* Rewritten runs.                                                          *)
LEMMA RewrittenExtends ==
    ASSUME RunsRewritten
    PROVE  RunsExtend
BY DEF RunsRewritten, RunsExtend

(* The last run of a failed job is no review run, and one that postprocessed*)
(* had an authority.                                                        *)
LEMMA LastRunAuthorized ==
    ASSUME RunsOK, AuthorityInv, NEW j \in Jobs, job[j].st = "failed", NEW kind, kind = runs[LastRun(j)].kind
    PROVE  kind \notin ReviewRuns /\ (kind = "postprocessing" => auth[j] # None)
<1>. DEFINE R == {r \in DOMAIN runs : runs[r].job = j}
<1>1. PICK p \in R : \A q \in R : q <= p
  BY DEF AuthorityInv, JobsHaveRuns, HasLastRun
<1>2. DOMAIN runs = 1 .. Len(runs) /\ Len(runs) \in Nat
  BY SequenceDomain DEF RunsOK
<1>3. R \subseteq 1 .. Len(runs)
  BY <1>2
<1>4. LastRun(j) = CHOOSE r \in R : \A q \in R : q <= r
  BY DEF LastRun
<1>5. p \in DOMAIN runs /\ runs[p].job = j
  OBVIOUS
<1>. HIDE DEF R
<1>6. \A r \in R : (\A q \in R : q <= r) => r = p
  BY <1>1, <1>3
<1>7. LastRun(j) = p
  BY <1>1, <1>4, <1>6
<1>. QED  BY <1>5, <1>7 DEF AuthorityInv, RunsAuthorized

(* Jobs.                                                                    *)
LEMMA JobExtends ==
    ASSUME RunsOK, AuthorityInv, NEW j \in Jobs, JobTransaction(j)
    PROVE  RunsExtend
<1>1. CASE CreateJob(j) \/ StartTracking(j)
  <2>1. \E kind \in {"prepare", "tracking"} : EnqueueRun(j, kind, None, 0)
    BY <1>1 DEF CreateJob, StartTracking
  <2>. QED  BY <2>1, EnqueueExtends DEF ReviewRuns
<1>2. CASE job[j].st = "failed" /\ ReturnToStage(j)
  <2>1. PICK kind : kind = runs[LastRun(j)].kind /\ EnqueueRun(j, kind, None, 0)
    BY <1>2 DEF ReturnToStage
  <2>. QED  BY <1>2, <2>1, LastRunAuthorized, EnqueueExtends
<1>3. CASE CancelActiveJob(j)
  <2>1. runs' = CancelQueued(j)
    BY <1>3 DEF CancelActiveJob
  <2>2. ASSUME NEW r \in DOMAIN runs
        PROVE  SameRun(runs[r], [runs[r] EXCEPT !.st = "cancelled"])
    <3>1. IsRun(runs[r])
      BY DEF RunsOK
    <3>. QED  BY <3>1 DEF IsRun, SameRun
  <2>3. RunsRewritten
    BY <2>1, <2>2 DEF CancelQueued, RunsRewritten, SameRun
  <2>. QED  BY <2>3, RewrittenExtends
<1>4. ASSUME NEW t \in Tasks, BeginPostprocessing(j, t)
      PROVE  RunsExtend
  <2>1. auth[j] # None /\ EnqueueRun(j, "postprocessing", None, 0)
    BY <1>4, StoreAssumption DEF BeginPostprocessing
  <2>. QED  BY <2>1, EnqueueExtends DEF ReviewRuns
<1>. QED  BY <1>1, <1>2, <1>3, <1>4 DEF JobTransaction

(* Reviews.                                                                 *)
LEMMA ReviewExtends ==
    ASSUME RunsOK, AuthorityInv, NEW j \in Jobs, NEW s \in Segs, ReviewTransaction(j, s)
    PROVE  RunsExtend
<1>1. CASE runs' = runs
  BY <1>1 DEF RunsExtend, SameRun
<1>2. ASSUME rev[j][s].st # "none", NEW kind \in ReviewRuns, NEW d, EnqueueRun(j, kind, s, d)
      PROVE  RunsExtend
  <2>1. job[j].st = "annotated" /\ kind # "postprocessing"
    BY <1>2 DEF AuthorityInv, ReviewsAuthorized, ReviewRuns
  <2>. QED  BY <1>2, <2>1, EnqueueExtends
<1>3. CASE CreateFixRevision(j, s) \/ RetryPublication(j, s)
           \/ \E k \in DOMAIN rev[j][s].fixes : ApproveFixRevision(j, s, k)
  <2>1. rev[j][s].st # "none" /\ \E kind \in ReviewRuns : \E d : EnqueueRun(j, kind, s, d)
    BY <1>3 DEF CreateFixRevision, RetryPublication, ApproveFixRevision, EnqueuePublication, ReviewRuns
  <2>. QED  BY <1>2, <2>1
<1>. QED
  BY <1>1, <1>3
     DEF ReviewTransaction, CreateFixSession, ApplyFixCommand, ResumeReturnedReview, DecideReview, LinkFix

(* Every step.                                                              *)
LEMMA EveryStepExtends ==
    ASSUME LedgerOK, AuthorityInv, [Next]_vars
    PROVE  RunsExtend
<1>0. JobsOK /\ RunsOK
  BY DEF LedgerOK, TablesOK
<1>1. runs' = runs => RunsExtend
  BY DEF RunsExtend, SameRun
<1>2. CASE OutsideTransaction
  <2>1. ASSUME NEW j \in Jobs, NEW s \in Segs, SegmentTransaction(j, s)
        PROVE  runs' = runs
    BY <2>1 DEF SegmentTransaction, SaveDraft, SubmitSegment, Reopen, Skip, Unskip
  <2>2. CASE CreateDatasetRelease \/ ResetUnreleasedDataset \/ UNCHANGED ledgerVars
    BY <1>1, <2>2 DEF CreateDatasetRelease, ResetUnreleasedDataset, storeVars, ledgerVars
  <2>. QED  BY <1>0, <1>1, <1>2, <2>1, <2>2, JobExtends, ReviewExtends DEF OutsideTransaction
<1>3. CASE WorkerTransaction
  BY <1>0, <1>1, <1>3, RunTransactionCore, CoreRewrites, RewrittenExtends DEF WorkerTransaction, ledgerVars
<1>. QED  BY <1>2, <1>3, EveryTransaction

(* Runs stay authorized.                                                    *)
LEMMA RunsAuthorizedKept ==
    ASSUME LedgerOK, StageInv, AuthorityInv, [Next]_vars
    PROVE  RunsAuthorized'
<1>1. RunsExtend /\ RunsOK
  BY EveryStepExtends DEF LedgerOK, TablesOK
<1>2. ASSUME NEW r \in DOMAIN runs'
      PROVE  /\ runs'[r].job \in Jobs
             /\ runs'[r].kind = "postprocessing" => auth[runs'[r].job] # None
             /\ runs'[r].kind \in ReviewRuns => runs'[r].seg \in Segs /\ job[runs'[r].job].st = "annotated"
  BY <1>1, <1>2 DEF RunsExtend, RunAuthorized, SameRun, AuthorityInv, RunsAuthorized, RunsOK
<1>3. \A j \in Jobs : auth[j] # None => auth'[j] # None
  BY AuthoritiesKept DEF AuthorityInv
<1>4. \A j \in Jobs : job[j].st = "annotated" => job'[j].st = "annotated"
  BY AnnotatedKept
<1>. QED  BY <1>2, <1>3, <1>4 DEF RunsAuthorized

-----------------------------------------------------------------------------
(* Reviews: one that exists goes on existing and keeps the task that follows*)
(* it; a new one belongs to a job that was postprocessed.                   *)
RowStep(v, w) == (v.st # "none" => w.st # "none") /\ (v.task # None => w.task = v.task)
ReviewsStep ==
    \A j \in Jobs, s \in Segs :
        /\ RowStep(rev[j][s], rev'[j][s])
        /\ rev[j][s].st = "none" /\ rev'[j][s].st # "none" => auth[j] # None /\ job'[j].st = "annotated"

(* One review is written.                                                   *)
LEMMA ReviewStepWritten ==
    ASSUME Table(rev), NEW j \in Jobs, NEW s \in Segs, NEW w, rev' = [rev EXCEPT ![j][s] = w],
           rev[j][s].st # "none", RowStep(rev[j][s], w)
    PROVE  ReviewsStep
<1>1. Replaced(rev, rev', j, s, w)
  BY RowReplaced
<1>2. ASSUME NEW i \in Jobs, NEW u \in Segs
      PROVE  /\ RowStep(rev[i][u], rev'[i][u])
             /\ rev[i][u].st = "none" => rev'[i][u].st = "none"
  <2>1. CASE i = j /\ u = s
    BY <1>1, <2>1 DEF Replaced
  <2>2. CASE i # j \/ u # s
    BY <1>1, <2>2 DEF Replaced, RowStep
  <2>. QED  BY <2>1, <2>2
<1>. QED  BY <1>2 DEF ReviewsStep

(* The requests about a review.                                             *)
LEMMA ReviewRequestStep ==
    ASSUME ReviewsInv, NEW j \in Jobs, NEW s \in Segs, ReviewTransaction(j, s)
    PROVE  ReviewsStep
<1>. DEFINE v == rev[j][s]
<1>0. IsReview(v) /\ Table(rev)
  BY DEF ReviewsInv
<1>1. CASE rev' = rev
  BY <1>1 DEF ReviewsStep, RowStep
<1>2. CASE CreateFixSession(j, s)
  <2>. DEFINE w1 == [v EXCEPT !.st = "in_progress"]
              w2 == [w1 EXCEPT !.draft = 1]
  <2>1. rev' = [rev EXCEPT ![j][s] = w2] /\ v.st # "none"
    BY <1>2 DEF CreateFixSession
  <2>2. w1 = [st |-> "in_progress", draft |-> v.draft, fixes |-> v.fixes, appr |-> v.appr, task |-> v.task]
    BY <1>0, ReviewColumns
  <2>. HIDE DEF w1
  <2>3. w2 = [st |-> "in_progress", draft |-> 1, fixes |-> v.fixes, appr |-> v.appr, task |-> v.task]
    BY <2>2
  <2>. HIDE DEF w2
  <2>4. RowStep(v, w2)
    BY <2>3 DEF RowStep
  <2>. QED  BY <1>0, <2>1, <2>4, ReviewStepWritten
<1>3. ASSUME NEW x, x # "none", v.st # "none", rev' = [rev EXCEPT ![j][s].st = x]
      PROVE  ReviewsStep
  <2>. DEFINE w == [v EXCEPT !.st = x]
  <2>1. rev' = [rev EXCEPT ![j][s] = w]
    BY <1>3
  <2>2. w = [st |-> x, draft |-> v.draft, fixes |-> v.fixes, appr |-> v.appr, task |-> v.task]
    BY <1>0, ReviewColumns
  <2>. HIDE DEF w
  <2>3. RowStep(v, w)
    BY <1>3, <2>2 DEF RowStep
  <2>. QED  BY <1>0, <1>3, <2>1, <2>3, ReviewStepWritten
<1>4. CASE ResumeReturnedReview(j, s) \/ \E decision \in {"returned", "discarded"} : DecideReview(j, s, decision)
  BY <1>3, <1>4 DEF ResumeReturnedReview, DecideReview
<1>5. CASE ApplyFixCommand(j, s)
  <2>. DEFINE x == v.draft + 1
              w == [v EXCEPT !.draft = x]
  <2>1. rev' = [rev EXCEPT ![j][s] = w] /\ v.st # "none"
    BY <1>5 DEF ApplyFixCommand
  <2>. HIDE DEF x
  <2>2. w = [st |-> v.st, draft |-> x, fixes |-> v.fixes, appr |-> v.appr, task |-> v.task]
    BY <1>0, ReviewColumns
  <2>. HIDE DEF w
  <2>3. RowStep(v, w)
    BY <2>2 DEF RowStep
  <2>. QED  BY <1>0, <2>1, <2>3, ReviewStepWritten
<1>6. ASSUME NEW k, ApproveFixRevision(j, s, k)
      PROVE  ReviewsStep
  <2>. DEFINE w1 == [v EXCEPT !.st = "approved"]
              w2 == [w1 EXCEPT !.appr = k]
  <2>1. rev' = [rev EXCEPT ![j][s] = w2] /\ v.st # "none"
    BY <1>6 DEF ApproveFixRevision
  <2>2. w1 = [st |-> "approved", draft |-> v.draft, fixes |-> v.fixes, appr |-> v.appr, task |-> v.task]
    BY <1>0, ReviewColumns
  <2>. HIDE DEF w1
  <2>3. w2 = [st |-> "approved", draft |-> v.draft, fixes |-> v.fixes, appr |-> k, task |-> v.task]
    BY <2>2
  <2>. HIDE DEF w2
  <2>4. RowStep(v, w2)
    BY <2>3 DEF RowStep
  <2>. QED  BY <1>0, <2>1, <2>4, ReviewStepWritten
<1>7. ASSUME NEW t, LinkFix(j, s, t)
      PROVE  ReviewsStep
  <2>. DEFINE w == [v EXCEPT !.task = t]
  <2>1. rev' = [rev EXCEPT ![j][s] = w] /\ v.st # "none" /\ v.task = None
    BY <1>7 DEF LinkFix
  <2>2. w = [st |-> v.st, draft |-> v.draft, fixes |-> v.fixes, appr |-> v.appr, task |-> t]
    BY <1>0, ReviewColumns
  <2>. HIDE DEF w
  <2>3. RowStep(v, w)
    BY <2>1, <2>2 DEF RowStep
  <2>. QED  BY <1>0, <2>1, <2>3, ReviewStepWritten
<1>8. CASE CreateFixRevision(j, s) \/ RetryPublication(j, s)
  BY <1>1, <1>8 DEF CreateFixRevision, RetryPublication
<1>. QED  BY <1>2, <1>4, <1>5, <1>6, <1>7, <1>8 DEF ReviewTransaction

(* The Worker.                                                              *)
LEMMA ReviewRunStep ==
    ASSUME JobsOK, RunsOK, ReviewsInv, AuthorityInv, NEW r \in DOMAIN runs, RunTransaction(r)
    PROVE  ReviewsStep
<1>0. runs[r].job \in Jobs /\ Table(rev)
  BY DEF RunsOK, ReviewsInv
<1>1. rev' = rev => ReviewsStep
  BY DEF ReviewsStep, RowStep
<1>2. CASE CompletePostprocessing(r)
  <2>. DEFINE j == runs[r].job
              done == SegmentsIn(j, {"postprocessing"})
  <2>1. \A i \in Jobs, s \in Segs :
            rev'[i][s] = IF i = j /\ s \in done THEN [rev[j][s] EXCEPT !.st = "pending"] ELSE rev[i][s]
    BY <1>0, <1>2 DEF CompletePostprocessing, Table
  <2>2. auth[j] # None
    BY <1>2 DEF CompletePostprocessing, AuthorityInv, RunsAuthorized
  <2>3. job'[j].st = "annotated"
    <3>1. job' = [job EXCEPT ![j].st = "annotated"]
      BY <1>2 DEF CompletePostprocessing
    <3>. QED  BY <1>0, <3>1, JobStatusWritten
  <2>. HIDE DEF j, done
  <2>4. ASSUME NEW i \in Jobs, NEW s \in Segs
        PROVE  /\ RowStep(rev[i][s], rev'[i][s])
               /\ rev[i][s].st = "none" /\ rev'[i][s].st # "none" => auth[i] # None /\ job'[i].st = "annotated"
    <3>1. CASE i = j /\ s \in done
      <4>. DEFINE v == rev[j][s]
                  w == [v EXCEPT !.st = "pending"]
      <4>1. IsReview(v) /\ rev'[i][s] = w
        BY <2>1, <3>1 DEF ReviewsInv
      <4>2. w = [st |-> "pending", draft |-> v.draft, fixes |-> v.fixes, appr |-> v.appr, task |-> v.task]
        BY <4>1, ReviewColumns
      <4>. HIDE DEF w
      <4>3. RowStep(v, w)
        BY <4>2 DEF RowStep
      <4>. QED  BY <2>2, <2>3, <3>1, <4>1, <4>3
    <3>2. CASE ~(i = j /\ s \in done)
      BY <2>1, <3>2 DEF RowStep
    <3>. QED  BY <3>1, <3>2
  <2>. QED  BY <2>4 DEF ReviewsStep
<1>3. CASE CompleteFixRun(r)
  <2>. DEFINE j == runs[r].job
              s == runs[r].seg
              v == rev[j][s]
              more == Append(v.fixes, runs[r].d)
              w == [v EXCEPT !.fixes = more]
  <2>1. rev' = [rev EXCEPT ![j][s] = w] /\ v.st = "in_progress"
    BY <1>3 DEF CompleteFixRun, OwnsDraft
  <2>2. s \in Segs
    BY <1>3 DEF CompleteFixRun, AuthorityInv, RunsAuthorized, ReviewRuns
  <2>3. IsReview(v)
    BY <1>0, <2>2 DEF ReviewsInv
  <2>. HIDE DEF more
  <2>4. w = [st |-> v.st, draft |-> v.draft, fixes |-> more, appr |-> v.appr, task |-> v.task]
    BY <2>3, ReviewColumns
  <2>. HIDE DEF w
  <2>5. RowStep(v, w) /\ v.st # "none"
    BY <2>1, <2>4 DEF RowStep
  <2>6. j \in Jobs
    BY <1>0
  <2>. HIDE DEF j, s
  <2>. QED  BY <1>0, <2>1, <2>2, <2>5, <2>6, ReviewStepWritten
<1>4. CASE ClaimNextRun(r) \/ StartStep(r) \/ FinishStep(r, TRUE) \/ FailActiveStep(r) \/ BeginPublication(r)
           \/ CompleteAsCancelled(r) \/ CompleteTracking(r) \/ CompletePublication(r)
  BY <1>1, <1>4
     DEF ClaimNextRun, StartStep, FinishStep, FailActiveStep, BeginPublication, CompleteAsCancelled,
         CompleteTracking, CompletePublication
<1>5. ASSUME NEW f, FailRun(r, f)
      PROVE  rev' = rev
  BY <1>5 DEF FailRun, FailJobOf, storeVars
<1>6. ASSUME NEW S, CompletePrepare(r, S)
      PROVE  rev' = rev
  BY <1>6 DEF CompletePrepare
<1>7. ASSUME NEW s, NEW c, RecordCheckpoint(r, s, c)
      PROVE  rev' = rev
  BY <1>7 DEF RecordCheckpoint
<1>. QED  BY <1>1, <1>2, <1>3, <1>4, <1>5, <1>6, <1>7 DEF RunTransaction

(* Every step.                                                              *)
LEMMA EveryReviewStep ==
    ASSUME LedgerOK, ReviewsInv, AuthorityInv, [Next]_vars
    PROVE  ReviewsStep
<1>0. JobsOK /\ RunsOK
  BY DEF LedgerOK, TablesOK
<1>1. rev' = rev => ReviewsStep
  BY DEF ReviewsStep, RowStep
<1>2. CASE OutsideTransaction
  <2>1. ASSUME NEW j \in Jobs, NEW s \in Segs, SegmentTransaction(j, s)
        PROVE  rev' = rev
    BY <2>1 DEF SegmentTransaction, SaveDraft, SubmitSegment, Reopen, Skip, Unskip
  <2>2. CASE CreateDatasetRelease \/ ResetUnreleasedDataset \/ UNCHANGED ledgerVars
    BY <1>1, <2>2 DEF CreateDatasetRelease, ResetUnreleasedDataset, storeVars, ledgerVars
  <2>3. ASSUME NEW j \in Jobs, JobTransaction(j)
        PROVE  rev' = rev
    BY <2>3 DEF JobTransaction, CreateJob, ReturnToStage, StartTracking, CancelActiveJob, BeginPostprocessing
  <2>. QED  BY <1>1, <1>2, <2>1, <2>2, <2>3, ReviewRequestStep DEF OutsideTransaction
<1>3. CASE WorkerTransaction
  BY <1>0, <1>1, <1>3, ReviewRunStep DEF WorkerTransaction, ledgerVars
<1>. QED  BY <1>2, <1>3, EveryTransaction

(* Authorities.                                                             *)
LEMMA AuthorityKept ==
    ASSUME LedgerOK, StageInv, ReviewsInv, AuthorityInv, [Next]_vars
    PROVE  AuthorityInv'
<1>1. AuthoritiesOK' /\ \A j \in Jobs : auth[j] # None => auth'[j] # None
  BY AuthoritiesKept DEF AuthorityInv
<1>2. JobsHaveRuns' /\ RunsAuthorized'
  BY JobsHaveRunsKept, RunsAuthorizedKept DEF AuthorityInv
<1>3. \A j \in Jobs : job[j].st = "annotated" => job'[j].st = "annotated"
  BY AnnotatedKept
<1>4. ReviewsAuthorized'
  BY <1>1, <1>3, EveryReviewStep DEF ReviewsStep, AuthorityInv, ReviewsAuthorized
<1>. QED  BY <1>1, <1>2, <1>4 DEF AuthorityInv

(* Initially.                                                               *)
LEMMA AuthoritiesInitially == Init => AuthorityInv
<1>. SUFFICES ASSUME Init PROVE AuthorityInv
  OBVIOUS
<1>1. AuthoritiesOK
  BY DEF Init, StoreInit, AuthoritiesOK
<1>2. JobsHaveRuns /\ RunsAuthorized
  BY DEF Init, StoreInit, JobsHaveRuns, RunsAuthorized
<1>3. ReviewsAuthorized
  BY DEF Init, StoreInit, ReviewsAuthorized, NewReview
<1>. QED  BY <1>1, <1>2, <1>3 DEF AuthorityInv

-----------------------------------------------------------------------------
(* Handoffs.  They are told in rounds: a handoff is claimed, then delivered *)
(* or tried again; only a link of a task to the job changes who is told.    *)
Told(v) == v.d \in {"running", "delivered"}
SameHandoff(v, w) == w.job = v.job /\ w.kind = v.kind /\ w.seg = v.seg /\ w.task = v.task
HandoffsRewritten ==
    /\ DOMAIN hand' = DOMAIN hand
    /\ \A h \in DOMAIN hand :
          /\ SameHandoff(hand[h], hand'[h])
          /\ hand[h].d = "delivered" => hand'[h].d = "delivered"
          /\ Told(hand'[h]) => Told(hand[h]) \/ Deliverable(h)
NewHandoff(e) ==
    /\ e.d = "new" /\ e.job \in Jobs
    /\ e.kind \in ProcessingKinds => e.task = auth[e.job]
    /\ e.kind \notin ProcessingKinds => e.seg \in Segs /\ auth[e.job] # None
HandoffsExtend ==
    \/ HandoffsRewritten
    \/ \E e : hand' = Append(hand, e) /\ NewHandoff(e)

(* Handoffs that stay as they are.                                          *)
LEMMA HandoffsSame ==
    ASSUME hand' = hand
    PROVE  HandoffsExtend
BY DEF HandoffsExtend, HandoffsRewritten, SameHandoff

(* One column of a handoff is written.                                      *)
LEMMA HandoffColumn ==
    ASSUME HandoffsOK, NEW h, NEW x
    PROVE  /\ hand' = [hand EXCEPT ![h].d = x] =>
                /\ DOMAIN hand' = DOMAIN hand /\ \A i \in DOMAIN hand : i # h => hand'[i] = hand[i]
                /\ h \in DOMAIN hand => SameHandoff(hand[h], hand'[h]) /\ hand'[h].d = x
           /\ hand' = [hand EXCEPT ![h].used = x] =>
                /\ DOMAIN hand' = DOMAIN hand /\ \A i \in DOMAIN hand : i # h => hand'[i] = hand[i]
                /\ h \in DOMAIN hand => SameHandoff(hand[h], hand'[h]) /\ hand'[h].d = hand[h].d
<1>. DEFINE v == hand[h]
            w1 == [v EXCEPT !.d = x]
            w2 == [v EXCEPT !.used = x]
<1>1. ASSUME h \in DOMAIN hand
      PROVE  SameHandoff(v, w1) /\ w1.d = x /\ SameHandoff(v, w2) /\ w2.d = v.d
  <2>1. IsHandoff(v)
    BY <1>1 DEF HandoffsOK
  <2>2. w1 = [job |-> v.job, kind |-> v.kind, seg |-> v.seg, d |-> x, used |-> v.used, task |-> v.task]
    BY <2>1 DEF IsHandoff
  <2>3. w2 = [job |-> v.job, kind |-> v.kind, seg |-> v.seg, d |-> v.d, used |-> x, task |-> v.task]
    BY <2>1 DEF IsHandoff
  <2>. HIDE DEF w1, w2
  <2>. QED  BY <2>2, <2>3 DEF SameHandoff
<1>2. /\ hand' = [hand EXCEPT ![h].d = x] => hand' = [hand EXCEPT ![h] = w1]
      /\ hand' = [hand EXCEPT ![h].used = x] => hand' = [hand EXCEPT ![h] = w2]
  OBVIOUS
<1>. HIDE DEF w1, w2
<1>. QED  BY <1>1, <1>2

(* claim_workflow_handoff_delivery, complete_workflow_handoff_delivery.     *)
LEMMA HandoffMoves ==
    ASSUME HandoffsOK, NEW h,
           \/ ClaimHandoff(h)
           \/ \E ok : SettleHandoff(h, ok)
           \/ AutoTracking(h)
    PROVE  HandoffsExtend
<1>1. CASE ClaimHandoff(h)
  <2>1. Deliverable(h) /\ hand' = [hand EXCEPT ![h].d = "running"] /\ hand[h].d # "delivered"
    BY <1>1 DEF ClaimHandoff, Deliverable
  <2>. QED  BY <2>1, HandoffColumn DEF HandoffsExtend, HandoffsRewritten, SameHandoff, Told
<1>2. ASSUME NEW ok, SettleHandoff(h, ok)
      PROVE  HandoffsExtend
  <2>1. hand[h].d = "running" /\ \E x \in {"delivered", "retry"} : hand' = [hand EXCEPT ![h].d = x]
    BY <1>2 DEF SettleHandoff
  <2>. QED  BY <2>1, HandoffColumn DEF HandoffsExtend, HandoffsRewritten, SameHandoff, Told
<1>3. CASE AutoTracking(h)
  BY <1>3, HandoffColumn DEF AutoTracking, HandoffsExtend, HandoffsRewritten, SameHandoff, Told
<1>. QED  BY <1>1, <1>2, <1>3

(* The process ends: what it was delivering is due again.                   *)
LEMMA HandoffsExpire ==
    ASSUME HandoffsOK, Ended
    PROVE  HandoffsExtend
<1>1. ASSUME NEW h \in DOMAIN hand
      PROVE  /\ SameHandoff(hand[h], hand'[h])
             /\ hand[h].d = "delivered" => hand'[h].d = "delivered"
             /\ Told(hand'[h]) => Told(hand[h])
  <2>. DEFINE v == hand[h]
              w == [v EXCEPT !.d = "expired"]
  <2>1. hand'[h] = IF v.d = "running" THEN w ELSE v
    BY DEF Ended
  <2>2. w = [job |-> v.job, kind |-> v.kind, seg |-> v.seg, d |-> "expired", used |-> v.used, task |-> v.task]
    BY DEF HandoffsOK, IsHandoff
  <2>. HIDE DEF w
  <2>. QED  BY <2>1, <2>2 DEF SameHandoff, Told
<1>2. DOMAIN hand' = DOMAIN hand
  BY DEF Ended
<1>. QED  BY <1>1, <1>2 DEF HandoffsExtend, HandoffsRewritten

(* A handoff is written.                                                    *)
LEMMA HandoffWritten ==
    ASSUME NEW j \in Jobs, NEW kind, NEW s, hand' = Append(hand, Handoff(j, kind, s)),
           kind \notin ProcessingKinds => s \in Segs /\ auth[j] # None
    PROVE  HandoffsExtend
<1>. DEFINE e == Handoff(j, kind, s)
<1>1. NewHandoff(e)
  BY DEF NewHandoff, Handoff
<1>. HIDE DEF e
<1>2. hand' = Append(hand, e)
  BY DEF e
<1>. QED  BY <1>1, <1>2 DEF HandoffsExtend

(* The Worker.                                                              *)
LEMMA HandoffsOfRun ==
    ASSUME RunsOK, AuthorityInv, NEW r \in DOMAIN runs, RunTransaction(r)
    PROVE  HandoffsExtend
<1>0. runs[r].job \in Jobs
  BY DEF RunsOK
<1>1. ASSUME NEW kind \in ProcessingKinds, hand' = Append(hand, Handoff(runs[r].job, kind, None))
      PROVE  HandoffsExtend
  BY <1>0, <1>1, HandoffWritten
<1>2. CASE CompletePostprocessing(r) \/ CompleteTracking(r)
  <2>1. \E kind \in ProcessingKinds : hand' = Append(hand, Handoff(runs[r].job, kind, None))
    BY <1>2 DEF CompletePostprocessing, CompleteTracking, ProcessingKinds
  <2>. QED  BY <1>1, <2>1
<1>3. ASSUME NEW f, FailRun(r, f)
      PROVE  HandoffsExtend
  <2>1. hand' = hand \/ \E kind \in ProcessingKinds : hand' = Append(hand, Handoff(runs[r].job, kind, None))
    BY <1>3 DEF FailRun, FailJobOf, storeVars, ProcessingKinds
  <2>. QED  BY <1>1, <2>1, HandoffsSame
<1>4. ASSUME runs[r].kind \in ReviewRuns, rev[runs[r].job][runs[r].seg].st # "none"
      PROVE  runs[r].seg \in Segs /\ auth[runs[r].job] # None
  BY <1>0, <1>4 DEF AuthorityInv, RunsAuthorized, ReviewsAuthorized
<1>5. CASE CompleteFixRun(r) \/ CompletePublication(r)
  <2>1. /\ runs[r].kind \in ReviewRuns /\ rev[runs[r].job][runs[r].seg].st # "none"
        /\ \E kind \in ReviewKinds : hand' = Append(hand, Handoff(runs[r].job, kind, runs[r].seg))
    BY <1>5 DEF CompleteFixRun, CompletePublication, OwnsDraft, Approved, ReviewRuns, ReviewKinds
  <2>. QED  BY <1>0, <1>4, <2>1, HandoffWritten
<1>6. ASSUME NEW s, NEW c, RecordCheckpoint(r, s, c)
      PROVE  HandoffsExtend
  BY <1>6, HandoffsSame DEF RecordCheckpoint
<1>7. ASSUME NEW S, CompletePrepare(r, S)
      PROVE  HandoffsExtend
  BY <1>7, HandoffsSame DEF CompletePrepare
<1>8. CASE ClaimNextRun(r) \/ StartStep(r) \/ FinishStep(r, TRUE) \/ FailActiveStep(r) \/ BeginPublication(r)
           \/ CompleteAsCancelled(r)
  BY <1>8, HandoffsSame
     DEF ClaimNextRun, StartStep, FinishStep, FailActiveStep, BeginPublication, CompleteAsCancelled
<1>. QED  BY <1>2, <1>3, <1>5, <1>6, <1>7, <1>8 DEF RunTransaction

(* Requests about reviews.                                                  *)
LEMMA HandoffsOfReview ==
    ASSUME AuthorityInv, NEW j \in Jobs, NEW s \in Segs, ReviewTransaction(j, s)
    PROVE  HandoffsExtend
<1>1. ASSUME NEW decision, DecideReview(j, s, decision)
      PROVE  HandoffsExtend
  <2>1. rev[j][s].st # "none" /\ \E kind : hand' = Append(hand, Handoff(j, kind, s))
    BY <1>1 DEF DecideReview
  <2>2. auth[j] # None
    BY <2>1 DEF AuthorityInv, ReviewsAuthorized
  <2>. QED  BY <2>1, <2>2, HandoffWritten
<1>2. CASE ~(\E decision \in {"returned", "discarded"} : DecideReview(j, s, decision))
  <2>1. hand' = hand
    BY <1>2
       DEF ReviewTransaction, CreateFixSession, ApplyFixCommand, CreateFixRevision, ResumeReturnedReview,
           ApproveFixRevision, RetryPublication, LinkFix
  <2>. QED  BY <2>1, HandoffsSame
<1>. QED  BY <1>1, <1>2

-----------------------------------------------------------------------------
(* Every step writes a handoff, moves deliveries or links a task to a job.  *)
LEMMA EveryHandoffStep ==
    ASSUME LedgerOK, AuthorityInv, [Next]_vars
    PROVE  HandoffsExtend \/ \E j \in Jobs, t \in Tasks : LinkProcessing(j, t)
<1>0. RunsOK /\ HandoffsOK
  BY DEF LedgerOK, TablesOK
<1>1. UNCHANGED storeVars => HandoffsExtend
  BY HandoffsSame DEF storeVars
<1>2. CASE PipelineRequest
  <2>1. ASSUME NEW j, CreateJob(j) \/ RetryJob(j) \/ CompleteNoTargets(j)
        PROVE  hand' = hand
    BY <2>1 DEF CreateJob, RetryJob, ReturnToStage, CompleteNoTargets, CancelActiveJob
  <2>2. ASSUME NEW j \in Jobs, NEW s, SegmentTransaction(j, s)
        PROVE  HandoffsExtend
    <3>1. CASE SubmitSegment(j, s)
      <4>1. \/ hand' = hand
            \/ hand' = Append(hand, Handoff(j, "initial_annotation_submitted", None))
        BY <3>1 DEF SubmitSegment
      <4>2. "initial_annotation_submitted" \in ProcessingKinds
        BY DEF ProcessingKinds
      <4>. QED  BY <4>1, <4>2, HandoffsSame, HandoffWritten
    <3>2. CASE SaveDraft(j, s) \/ Reopen(j, s) \/ Skip(j, s) \/ Unskip(j, s)
      BY <3>2, HandoffsSame DEF SaveDraft, Reopen, Skip, Unskip
    <3>. QED  BY <2>2, <3>1, <3>2 DEF SegmentTransaction
  <2>3. ASSUME NEW j, NEW t, BeginPostprocessing(j, t)
        PROVE  hand' = hand
    BY <2>3 DEF BeginPostprocessing
  <2>4. PICK j \in Jobs :
            \/ CreateJob(j) \/ RetryJob(j) \/ hand' = hand \/ CompleteNoTargets(j)
            \/ \E s \in Segs : SegmentTransaction(j, s)
            \/ \E t \in Tasks : BeginPostprocessing(j, t)
    BY <1>2 DEF PipelineRequest, SegmentTransaction
  <2>. QED  BY <2>1, <2>2, <2>3, <2>4, HandoffsSame
<1>3. CASE ReviewRequest
  <2>1. CASE CreateDatasetRelease \/ ResetUnreleasedDataset
    BY <1>1, <2>1, HandoffsSame DEF CreateDatasetRelease, ResetUnreleasedDataset
  <2>2. \/ \E j \in Jobs, s \in Segs : ReviewTransaction(j, s)
        \/ CreateDatasetRelease \/ ResetUnreleasedDataset
        \/ \E j \in Jobs, t \in Tasks : LinkProcessing(j, t)
    BY <1>3 DEF ReviewRequest, ReviewTransaction
  <2>. QED  BY <2>1, <2>2, HandoffsOfReview
<1>4. ASSUME NEW j \in Jobs, CancelCommit(j) \/ CancelOwns(j) \/ CancelTold(j) \/ OpConfirm(j)
      PROVE  hand' = hand
  BY <1>4
     DEF CancelCommit, CancelOwns, CancelTold, OpConfirm, CancelJob, CancelActiveJob, ReturnToStage, storeVars
<1>5. CASE DeliveryStarts \/ DeliveryTracks \/ DeliveryStep \/ DeliverySettles
  <2>1. \/ \E h : ClaimHandoff(h)
        \/ \E h, ok : SettleHandoff(h, ok)
        \/ \E h : AutoTracking(h)
        \/ UNCHANGED storeVars
    BY <1>5 DEF DeliveryStarts, DeliveryTracks, DeliveryStep, DeliverySettles
  <2>. QED  BY <1>0, <1>1, <2>1, HandoffMoves
<1>6. CASE NavigationWrites \/ OrphanEnds \/ OpRecord \/ OpComplete \/ OpUnlink \/ OpDies \/ OpReplay
  BY <1>1, <1>6 DEF NavigationWrites, OrphanEnds, OpRecord, OpComplete, OpUnlink, OpDies, OpReplay
<1>7. CASE ServiceEnds
  BY <1>0, <1>7, HandoffsExpire DEF ServiceEnds, ShutDown, Crash
<1>8. CASE ServiceStarts
  BY <1>1, <1>8 DEF ServiceStarts, Restart
<1>9. CASE WorkerStep
  <2>1. WorkerTransaction
    BY <1>9, WorkerTransacts DEF LedgerOK
  <2>. QED  BY <1>0, <2>1, HandoffsOfRun, HandoffsSame DEF WorkerTransaction
<1>10. CASE UNCHANGED vars
  BY <1>1, <1>10 DEF vars
<1>. QED  BY <1>2, <1>3, <1>4, <1>5, <1>6, <1>7, <1>8, <1>9, <1>10, HandoffsSame DEF Next

(* The order.  A handoff about the processing waits for a task only while   *)
(* its job has none; a review's handoff belongs to a job that has one.      *)
AddressOK(v) ==
    /\ v.job \in Jobs
    /\ v.kind \in ProcessingKinds => /\ v.task \in linked \cup {None}
                                     /\ auth[v.job] # None => v.task # None
    /\ v.kind \notin ProcessingKinds => v.seg \in Segs /\ auth[v.job] # None
Earlier(e, h) ==
    /\ TaskOf(e) = TaskOf(h) /\ hand[e].kind \in ProcessingKinds
    /\ hand[h].kind \in ProcessingKinds \/ hand[e].job = hand[h].job
ToldInOrder(h) ==
    Told(hand[h]) =>
        /\ TaskOf(h) # None
        /\ \A e \in 1 .. h - 1 : Earlier(e, h) => hand[e].d = "delivered"
HandoffInv ==
    /\ \A h \in DOMAIN hand : AddressOK(hand[h])
    /\ \A h \in DOMAIN hand : ToldInOrder(h)

(* A task that is told of a handoff goes on being told of it.               *)
LEMMA AddresseeKept ==
    ASSUME ReviewsStep, NEW h \in DOMAIN hand, h \in DOMAIN hand', AddressOK(hand[h]), SameHandoff(hand[h], hand'[h])
    PROVE  \E t, u : /\ t = TaskOf(h) /\ u = TaskOf(h)' /\ (t # None => u = t)
                     /\ hand[h].kind \in ProcessingKinds => u = t
<1>1. CASE hand[h].kind \in ProcessingKinds
  BY <1>1 DEF TaskOf, SameHandoff
<1>2. CASE hand[h].kind \notin ProcessingKinds
  <2>1. hand[h].job \in Jobs /\ hand[h].seg \in Segs
    BY <1>2 DEF AddressOK
  <2>2. RowStep(rev[hand[h].job][hand[h].seg], rev'[hand[h].job][hand[h].seg])
    BY <2>1 DEF ReviewsStep
  <2>. QED  BY <1>2, <2>2 DEF TaskOf, SameHandoff, RowStep
<1>. QED  BY <1>1, <1>2

-----------------------------------------------------------------------------
(* Deliveries move on, and nobody's task changes.                           *)
LEMMA RewrittenInOrder ==
    ASSUME HandoffsOK, ReviewsStep, HandoffInv, HandoffsRewritten, UNCHANGED <<auth, linked>>
    PROVE  HandoffInv'
<1>0. DOMAIN hand' = DOMAIN hand /\ DOMAIN hand = 1 .. Len(hand) /\ Len(hand) \in Nat
  BY SequenceDomain DEF HandoffsOK, HandoffsRewritten
<1>1. \A h \in DOMAIN hand : SameHandoff(hand[h], hand'[h])
  BY DEF HandoffsRewritten
<1>2. \A h \in DOMAIN hand' : AddressOK(hand[h])'
  BY <1>0, <1>1 DEF HandoffInv, AddressOK, SameHandoff
<1>3. ASSUME NEW h \in DOMAIN hand, Told(hand'[h])
      PROVE  /\ TaskOf(h)' # None
             /\ \A e \in 1 .. h - 1 : Earlier(e, h)' => hand'[e].d = "delivered"
  <2>1. TaskOf(h) # None
    BY <1>3 DEF HandoffsRewritten, HandoffInv, ToldInOrder, Deliverable
  <2>2. \A e \in 1 .. h - 1 : Earlier(e, h) => hand[e].d = "delivered"
    BY <1>3 DEF HandoffsRewritten, HandoffInv, ToldInOrder, Deliverable, Earlier
  <2>3. TaskOf(h)' = TaskOf(h)
    BY <1>0, <1>1, <2>1, AddresseeKept DEF HandoffInv
  <2>4. ASSUME NEW e \in 1 .. h - 1, Earlier(e, h)'
        PROVE  hand'[e].d = "delivered"
    <3>1. e \in DOMAIN hand
      BY <1>0
    <3>2. hand[e].kind \in ProcessingKinds
      BY <1>1, <2>4, <3>1 DEF Earlier, SameHandoff
    <3>3. TaskOf(e)' = TaskOf(e)
      BY <1>0, <1>1, <3>1, <3>2, AddresseeKept DEF HandoffInv
    <3>4. Earlier(e, h)
      BY <1>1, <2>3, <2>4, <3>1, <3>3 DEF Earlier, SameHandoff
    <3>. QED  BY <2>2, <3>1, <3>4 DEF HandoffsRewritten
  <2>. QED  BY <2>1, <2>3, <2>4
<1>4. \A h \in DOMAIN hand' : ToldInOrder(h)'
  BY <1>0, <1>3 DEF ToldInOrder
<1>. QED  BY <1>2, <1>4 DEF HandoffInv

(* A new handoff comes last and nobody is told of it yet.                   *)
LEMMA WrittenInOrder ==
    ASSUME HandoffsOK, AuthoritiesOK, ReviewsStep, HandoffInv, NEW x, hand' = Append(hand, x), NewHandoff(x),
           UNCHANGED <<auth, linked>>
    PROVE  HandoffInv'
<1>. DEFINE n == Len(hand) + 1
<1>0. DOMAIN hand = 1 .. Len(hand) /\ Len(hand) \in Nat
  BY SequenceDomain DEF HandoffsOK
<1>1. /\ DOMAIN hand' = 1 .. n /\ hand'[n] = x
      /\ \A h \in DOMAIN hand : hand'[h] = hand[h]
  <2>1. IsSequence(hand)
    BY DEF HandoffsOK
  <2>2. /\ DOMAIN Append(hand, x) = 1 .. Len(hand) + 1
        /\ \A i \in DOMAIN hand : Append(hand, x)[i] = hand[i]
        /\ Append(hand, x)[Len(hand) + 1] = x
    BY <2>1, SequenceAppend, Zenon
  <2>. QED  BY <2>2, Zenon
<1>2. \A h \in DOMAIN hand' : h \in DOMAIN hand \/ h = n
  BY <1>0, <1>1
<1>3. \A h \in DOMAIN hand : \A e \in 1 .. h - 1 : e \in DOMAIN hand
  BY <1>0
<1>4. \A h \in DOMAIN hand : h \in DOMAIN hand' /\ SameHandoff(hand[h], hand'[h])
  BY <1>0, <1>1 DEF SameHandoff
<1>. HIDE DEF n
<1>5. AddressOK(x)'
  BY DEF NewHandoff, AddressOK, AuthoritiesOK
<1>6. \A h \in DOMAIN hand' : AddressOK(hand[h])'
  BY <1>1, <1>2, <1>5 DEF HandoffInv, AddressOK
<1>7. ASSUME NEW h \in DOMAIN hand, Told(hand'[h])
      PROVE  /\ TaskOf(h)' # None
             /\ \A e \in 1 .. h - 1 : Earlier(e, h)' => hand'[e].d = "delivered"
  <2>1. TaskOf(h) # None /\ \A e \in 1 .. h - 1 : Earlier(e, h) => hand[e].d = "delivered"
    BY <1>1, <1>7 DEF HandoffInv, ToldInOrder
  <2>2. TaskOf(h)' = TaskOf(h)
    BY <1>4, <2>1, AddresseeKept DEF HandoffInv
  <2>3. ASSUME NEW e \in 1 .. h - 1, Earlier(e, h)'
        PROVE  hand'[e].d = "delivered"
    <3>1. e \in DOMAIN hand /\ hand[e].kind \in ProcessingKinds
      BY <1>1, <1>3, <2>3 DEF Earlier
    <3>2. TaskOf(e)' = TaskOf(e)
      BY <1>4, <3>1, AddresseeKept DEF HandoffInv
    <3>3. Earlier(e, h)
      BY <1>1, <2>2, <2>3, <3>1, <3>2 DEF Earlier
    <3>. QED  BY <1>1, <2>1, <3>1, <3>3
  <2>. QED  BY <2>1, <2>2, <2>3
<1>8. ~Told(hand'[n])
  BY <1>1 DEF NewHandoff, Told
<1>9. \A h \in DOMAIN hand' : ToldInOrder(h)'
  BY <1>2, <1>7, <1>8 DEF ToldInOrder
<1>. QED  BY <1>6, <1>9 DEF HandoffInv

(* link_navigation_task pins handoffs that had no task to one that was told *)
(* of nothing yet; the reviews of the job have no such handoff before them. *)
LEMMA LinkedInOrder ==
    ASSUME HandoffsOK, AuthoritiesOK, HandoffInv, NEW j \in Jobs, NEW t \in Tasks, LinkProcessing(j, t)
    PROVE  HandoffInv'
<1>. DEFINE Pinned(h) == hand[h].job = j /\ hand[h].kind \in ProcessingKinds /\ hand[h].task = None
<1>0. /\ DOMAIN hand' = DOMAIN hand /\ DOMAIN hand = 1 .. Len(hand) /\ Len(hand) \in Nat
      /\ t \notin linked /\ t # None /\ linked' = linked \cup {t} /\ rev' = rev
      /\ auth'[j] = t /\ \A i \in Jobs : i # j => auth'[i] = auth[i]
  BY SequenceDomain, StoreAssumption DEF HandoffsOK, LinkProcessing, AuthoritiesOK
<1>1. ASSUME NEW h \in DOMAIN hand
      PROVE  /\ hand'[h].job = hand[h].job /\ hand'[h].kind = hand[h].kind /\ hand'[h].seg = hand[h].seg
             /\ hand'[h].d = hand[h].d
             /\ hand'[h].task = IF Pinned(h) THEN t ELSE hand[h].task
  <2>. DEFINE v == hand[h]
              w == [v EXCEPT !.task = t]
  <2>1. hand'[h] = IF Pinned(h) THEN w ELSE v
    BY DEF LinkProcessing
  <2>2. w = [job |-> v.job, kind |-> v.kind, seg |-> v.seg, d |-> v.d, used |-> v.used, task |-> t]
    BY DEF HandoffsOK, IsHandoff
  <2>. HIDE DEF w
  <2>. QED  BY <2>1, <2>2
<1>2. \A h \in DOMAIN hand' : AddressOK(hand[h])'
  <2>. SUFFICES ASSUME NEW h \in DOMAIN hand PROVE AddressOK(hand[h])'
    BY <1>0
  <2>1. AddressOK(hand[h])
    BY DEF HandoffInv
  <2>2. CASE hand[h].job = j
    BY <1>0, <1>1, <2>1, <2>2 DEF AddressOK
  <2>3. CASE hand[h].job # j
    BY <1>0, <1>1, <2>1, <2>3 DEF AddressOK
  <2>. QED  BY <2>2, <2>3
<1>3. \A h \in DOMAIN hand : ~Pinned(h) => TaskOf(h)' = TaskOf(h)
  BY <1>0, <1>1 DEF TaskOf
<1>4. ASSUME NEW h \in DOMAIN hand, Told(hand'[h])
      PROVE  /\ TaskOf(h)' # None
             /\ \A e \in 1 .. h - 1 : Earlier(e, h)' => hand'[e].d = "delivered"
  <2>1. TaskOf(h) # None /\ \A e \in 1 .. h - 1 : Earlier(e, h) => hand[e].d = "delivered"
    BY <1>1, <1>4 DEF HandoffInv, ToldInOrder, Told
  <2>2. ~Pinned(h)
    BY <2>1 DEF TaskOf
  <2>3. TaskOf(h)' = TaskOf(h)
    BY <1>3, <2>2
  <2>4. ASSUME NEW e \in 1 .. h - 1, Earlier(e, h)'
        PROVE  hand'[e].d = "delivered"
    <3>1. e \in DOMAIN hand /\ hand[e].kind \in ProcessingKinds
      BY <1>0, <1>1, <2>4 DEF Earlier
    <3>2. ~Pinned(e)
      <4>. SUFFICES ASSUME Pinned(e) PROVE FALSE
        OBVIOUS
      <4>1. TaskOf(e)' = t
        BY <1>1, <3>1 DEF TaskOf
      <4>2. TaskOf(h) = t
        BY <2>3, <2>4, <4>1 DEF Earlier
      <4>3. AddressOK(hand[h]) /\ AddressOK(hand[e])
        BY <3>1 DEF HandoffInv
      <4>4. CASE hand[h].kind \in ProcessingKinds
        BY <1>0, <4>2, <4>3, <4>4 DEF AddressOK, TaskOf
      <4>5. CASE hand[h].kind \notin ProcessingKinds
        <5>1. hand[e].job = hand[h].job
          BY <1>1, <2>4, <3>1, <4>5 DEF Earlier
        <5>. QED  BY <3>1, <4>3, <4>5, <5>1 DEF AddressOK
      <4>. QED  BY <4>4, <4>5
    <3>3. TaskOf(e)' = TaskOf(e)
      BY <1>3, <3>1, <3>2
    <3>4. Earlier(e, h)
      BY <1>1, <2>3, <2>4, <3>1, <3>3 DEF Earlier
    <3>. QED  BY <1>1, <2>1, <3>1, <3>4
  <2>. QED  BY <2>1, <2>3, <2>4
<1>5. \A h \in DOMAIN hand' : ToldInOrder(h)'
  BY <1>0, <1>4 DEF ToldInOrder
<1>. QED  BY <1>2, <1>5 DEF HandoffInv

(* Every step.                                                              *)
LEMMA HandoffsKeptInOrder ==
    ASSUME LedgerOK, ReviewsInv, AuthorityInv, HandoffInv, [Next]_vars
    PROVE  HandoffInv'
<1>1. HandoffsOK /\ AuthoritiesOK
  BY DEF LedgerOK, TablesOK, AuthorityInv
<1>2. ReviewsStep
  BY EveryReviewStep
<1>3. CASE \E j \in Jobs, t \in Tasks : LinkProcessing(j, t)
  BY <1>1, <1>3, LinkedInOrder
<1>4. CASE HandoffsExtend /\ UNCHANGED <<auth, linked>>
  BY <1>1, <1>2, <1>4, RewrittenInOrder, WrittenInOrder DEF HandoffsExtend
<1>. QED  BY <1>3, <1>4, AuthorityStep, EveryHandoffStep

(* A task learns of the steps of its job in the order they happened, however*)
(* the coordinator is interrupted, deliveries fail and are tried again, and *)
(* tasks are linked late (store.py claim_workflow_handoff_delivery,         *)
(* _assign_processing_authority).                                           *)
THEOREM HandoffsToldInOrder == Spec => []HandoffsInOrder
<1>. DEFINE I == LedgerOK /\ StageInv /\ ReviewsInv /\ AuthorityInv /\ HandoffInv
<1>1. Init => I
  <2>1. Init => HandoffInv
    BY DEF Init, StoreInit, HandoffInv
  <2>. QED  BY <2>1, LedgerInitially, StagesInitially, ReviewsInitially, AuthoritiesInitially
<1>2. I /\ [Next]_vars => I'
  BY LedgerKept, StagesKept, ReviewsKept, AuthorityKept, HandoffsKeptInOrder
<1>3. I => HandoffsInOrder
  BY DEF HandoffInv, HandoffsInOrder, ToldInOrder, Told, Earlier
<1>. QED  BY <1>1, <1>2, <1>3, PTL DEF Spec

-----------------------------------------------------------------------------
(* Tracking output.  It has a checkpoint, or its run has failed for a       *)
(* recovery, or its run is still executing - on its way to the checkpoint   *)
(* or to that failure - or was interrupted and waits to be found.           *)
Recorded(o) == \E c \in 1 .. MaxDraft : <<o.seg, c>> \in ckpt[o.job]
ForRecovery(o) == runs[o.run].st = "failed" /\ runs[o.run].fail = "recovery_required"
OnItsWay(o) ==
    \/ pc = "idle" \/ cur # o.run
    \/ pc = "record" /\ cseg = o.seg
    \/ pc \in {"failing", "settle", "fail"} /\ cls = "recovery_required"
OutputTraced(o) ==
    /\ o.run \in DOMAIN runs /\ o.job = runs[o.run].job /\ runs[o.run].kind = "tracking"
    /\ Recorded(o) \/ ForRecovery(o) \/ (runs[o.run].st = "running" /\ OnItsWay(o))
TargetOK ==
    pc \in {"bind", "lock", "work", "record"} /\ runs[cur].kind = "tracking" => cseg \in Segs
TracedInv == (\A o \in out : OutputTraced(o)) /\ TargetOK

(* Runs keep what they are about; a verdict is final; checkpoints stay.     *)
VerdictsKept ==
    \A r \in DOMAIN runs :
        /\ r \in DOMAIN runs' /\ SameRun(runs[r], runs'[r])
        /\ runs[r].st = "failed" => runs'[r].st = "failed" /\ runs'[r].fail = runs[r].fail
CheckpointsKept == \A j \in Jobs : ckpt[j] \subseteq ckpt'[j]

(* The transactions of a run.                                               *)
LEMMA VerdictsOfRun ==
    ASSUME NEW r, RunCore(r)
    PROVE  VerdictsKept
<1>1. CASE UNCHANGED <<job, runs>>
  BY <1>1 DEF VerdictsKept, SameRun
<1>2. CASE RunNoted(r) \/ RunFenced(r) \/ RunClaimed(r)
  BY <1>2 DEF RunNoted, RunFenced, RunClaimed, RunTouched, VerdictsKept, SameRun
<1>3. ASSUME NEW x, RunEnded(r, x)
      PROVE  VerdictsKept
  BY <1>3 DEF RunEnded, RunTouched, VerdictsKept, SameRun, Running
<1>. QED  BY <1>1, <1>2, <1>3 DEF RunCore, StageDone, RunCancelled, StageFailed

(* Requests.                                                                *)
LEMMA VerdictsOfRequest ==
    ASSUME RunsOK, RequestCore
    PROVE  VerdictsKept
<1>1. CASE runs' = runs
  BY <1>1 DEF VerdictsKept, SameRun
<1>2. ASSUME NEW j, NEW kind, RunQueued(j, kind)
      PROVE  VerdictsKept
  BY <1>2, RunsGrow DEF RunQueued, VerdictsKept, SameRun
<1>3. ASSUME NEW j, QueuedCancelled(j)
      PROVE  VerdictsKept
  BY <1>3 DEF QueuedCancelled, VerdictsKept, SameRun
<1>. QED  BY <1>1, <1>2, <1>3 DEF RequestCore, CancelAsked, CancelDone, StageEntered

(* Every step.                                                              *)
LEMMA EveryVerdictKept ==
    ASSUME LedgerOK, [Next]_vars
    PROVE  VerdictsKept
<1>0. JobsOK /\ RunsOK
  BY DEF LedgerOK, TablesOK
<1>1. CASE OutsideTransaction
  BY <1>0, <1>1, OutsideCore, VerdictsOfRequest
<1>2. CASE WorkerTransaction
  <2>1. runs' = runs => VerdictsKept
    BY DEF VerdictsKept, SameRun
  <2>. QED  BY <1>0, <1>2, <2>1, RunTransactionCore, VerdictsOfRun DEF WorkerTransaction, ledgerVars
<1>. QED  BY <1>1, <1>2, EveryTransaction

(* Checkpoints.                                                             *)
LEMMA EveryCheckpointKept ==
    ASSUME LedgerOK, SegmentsInv, [Next]_vars
    PROVE  CheckpointsKept
<1>1. ckpt' = ckpt => CheckpointsKept
  BY DEF CheckpointsKept
<1>2. CASE OutsideTransaction
  <2>1. ASSUME NEW j \in Jobs, JobTransaction(j)
        PROVE  ckpt' = ckpt
    BY <2>1 DEF JobTransaction, CreateJob, ReturnToStage, StartTracking, CancelActiveJob, BeginPostprocessing
  <2>2. ASSUME NEW j \in Jobs, NEW s \in Segs, SegmentTransaction(j, s)
        PROVE  ckpt' = ckpt
    BY <2>2 DEF SegmentTransaction, SaveDraft, SubmitSegment, Reopen, Skip, Unskip
  <2>3. ASSUME NEW j \in Jobs, NEW s \in Segs, ReviewTransaction(j, s)
        PROVE  ckpt' = ckpt
    BY <2>3
       DEF ReviewTransaction, CreateFixSession, ApplyFixCommand, CreateFixRevision, ResumeReturnedReview,
           DecideReview, ApproveFixRevision, RetryPublication, LinkFix
  <2>4. (CreateDatasetRelease \/ ResetUnreleasedDataset \/ UNCHANGED ledgerVars) => ckpt' = ckpt
    BY DEF CreateDatasetRelease, ResetUnreleasedDataset, storeVars, ledgerVars
  <2>. QED  BY <1>1, <1>2, <2>1, <2>2, <2>3, <2>4 DEF OutsideTransaction
<1>3. CASE UNCHANGED ledgerVars
  BY <1>1, <1>3 DEF ledgerVars
<1>4. ASSUME NEW r \in DOMAIN runs, RunTransaction(r)
      PROVE  CheckpointsKept
  <2>1. ASSUME NEW s, NEW c, RecordCheckpoint(r, s, c)
        PROVE  CheckpointsKept
    <3>1. ckpt' = [ckpt EXCEPT ![runs[r].job] = @ \cup {<<s, c>>}]
      BY <2>1 DEF RecordCheckpoint
    <3>2. ckpt = [j \in Jobs |-> ckpt[j]]
      BY DEF SegmentsInv
    <3>. QED  BY <3>1, <3>2 DEF CheckpointsKept
  <2>2. ASSUME NEW f, FailRun(r, f)
        PROVE  ckpt' = ckpt
    BY <2>2 DEF FailRun, storeVars
  <2>3. ASSUME NEW S, CompletePrepare(r, S)
        PROVE  ckpt' = ckpt
    BY <2>3 DEF CompletePrepare
  <2>4. CASE ClaimNextRun(r) \/ StartStep(r) \/ FinishStep(r, TRUE) \/ FailActiveStep(r) \/ BeginPublication(r)
           \/ CompleteAsCancelled(r) \/ CompleteTracking(r) \/ CompletePostprocessing(r) \/ CompleteFixRun(r)
           \/ CompletePublication(r)
    BY <1>1, <2>4
       DEF ClaimNextRun, StartStep, FinishStep, FailActiveStep, BeginPublication, CompleteAsCancelled,
           CompleteTracking, CompletePostprocessing, CompleteFixRun, CompletePublication
  <2>. QED  BY <1>1, <1>4, <2>1, <2>2, <2>3, <2>4 DEF RunTransaction
<1>. QED  BY <1>2, <1>3, <1>4, EveryTransaction DEF WorkerTransaction

(* What is recorded or in quarantine remains so.                            *)
LEMMA TracedStays ==
    ASSUME RunsOK, VerdictsKept, CheckpointsKept, NEW o, OutputTraced(o),
           runs[o.run].st = "running" /\ OnItsWay(o) =>
               OutputTraced(o)' \/ (runs'[o.run].st = "running" /\ \E x : x = o /\ OnItsWay(o)')
    PROVE  OutputTraced(o)'
<1>1. /\ o.run \in DOMAIN runs' /\ o.job = runs'[o.run].job /\ runs'[o.run].kind = "tracking"
      /\ o.job \in Jobs
  BY DEF OutputTraced, VerdictsKept, SameRun, RunsOK
<1>2. CASE Recorded(o)
  BY <1>1, <1>2 DEF Recorded, CheckpointsKept, OutputTraced
<1>3. CASE ForRecovery(o)
  BY <1>1, <1>3 DEF ForRecovery, VerdictsKept, OutputTraced
<1>4. CASE runs[o.run].st = "running" /\ OnItsWay(o)
  BY <1>1, <1>4 DEF OutputTraced
<1>. QED  BY <1>2, <1>3, <1>4 DEF OutputTraced

-----------------------------------------------------------------------------
(* The other runs go on; the output of the Worker's own run is followed.    *)
OthersRun == \A q \in DOMAIN runs : q # cur /\ runs[q].st = "running" => runs'[q].st = "running"
OwnOutputTraced ==
    \A o \in out : o.run = cur /\ OnItsWay(o) /\ Running(cur) =>
        OutputTraced(o)' \/ (runs'[o.run].st = "running" /\ \E x : x = o /\ OnItsWay(x)')

(* A transaction of a run leaves the other runs alone.                      *)
LEMMA OthersOfRun ==
    ASSUME LedgerOK, cur \in DOMAIN runs, RunTransaction(cur) \/ UNCHANGED storeVars
    PROVE  OthersRun
<1>1. CASE UNCHANGED storeVars
  BY <1>1 DEF OthersRun, storeVars
<1>2. CASE RunTransaction(cur)
  <2>1. RunCore(cur)
    BY <1>2, RunTransactionCore DEF LedgerOK, TablesOK
  <2>. QED
    BY <2>1
       DEF RunCore, RunNoted, RunFenced, RunClaimed, RunEnded, StageDone, RunCancelled, StageFailed, RunTouched,
           OthersRun
<1>. QED  BY <1>1, <1>2

(* A step of the Worker that leaves the output alone.                       *)
LEMMA TracedOthers ==
    ASSUME LedgerOK, SegmentsInv, TracedInv, [Next]_vars, out' = out, cur' = cur \/ pc' = "idle",
           OthersRun, OwnOutputTraced, TargetOK'
    PROVE  TracedInv'
<1>0. RunsOK /\ VerdictsKept /\ CheckpointsKept
  BY EveryVerdictKept, EveryCheckpointKept DEF LedgerOK, TablesOK
<1>1. ASSUME NEW o \in out
      PROVE  OutputTraced(o)'
  <2>0. OutputTraced(o)
    BY DEF TracedInv
  <2>1. CASE o.run = cur
    BY <1>0, <2>0, <2>1, TracedStays DEF OwnOutputTraced, Running, OutputTraced
  <2>2. CASE o.run # cur
    <3>1. \E x : x = o /\ OnItsWay(x)'
      BY <2>2 DEF OnItsWay
    <3>2. runs[o.run].st = "running" => runs'[o.run].st = "running"
      BY <2>0, <2>2 DEF OthersRun, OutputTraced
    <3>. QED  BY <1>0, <2>0, <3>1, <3>2, TracedStays
  <2>. QED  BY <2>1, <2>2
<1>. QED  BY <1>1 DEF TracedInv

(* Away from the places where output is on its way there is none.           *)
LEMMA NothingOnItsWay ==
    ASSUME TracedInv, pc \notin {"idle", "record", "failing", "settle", "fail"}
    PROVE  OwnOutputTraced
BY DEF OwnOutputTraced, OnItsWay

(* The target of the Worker.                                                *)
LEMMA TargetSame ==
    ASSUME LedgerOK, TargetOK, VerdictsKept, cur' = cur, cseg' = cseg, pc \notin {"idle", "done"},
           \/ pc' \notin {"bind", "lock", "work", "record"}
           \/ pc \in {"bind", "lock", "work", "record"}
           \/ runs[cur].kind # "tracking"
           \/ cseg' \in Segs
    PROVE  TargetOK'
BY PlaceOfRun DEF TargetOK, VerdictsKept, SameRun

(* Away from the tracking loop there is no target.                          *)
LEMMA TargetLeft ==
    ASSUME pc' \notin {"bind", "lock", "work", "record"}
    PROVE  TargetOK'
BY DEF TargetOK

-----------------------------------------------------------------------------
(* A run that fails for a recovery: not even a cancel request wins.         *)
LEMMA FailedForRecovery ==
    ASSUME RunsOK, NEW r \in DOMAIN runs, Running(r), FailRun(r, "recovery_required")
    PROVE  RunTouched(r) /\ runs'[r].st = "failed" /\ runs'[r].fail = "recovery_required"
<1>0. ~CancelWins(r, "recovery_required") /\ ~AlreadyDecided(r)
  BY DEF CancelWins, AlreadyDecided, Running
<1>1. runs' = [runs EXCEPT ![r] = [[runs[r] EXCEPT !.st = "failed"] EXCEPT !.fail = "recovery_required"]]
  BY <1>0 DEF FailRun, FailedRun
<1>2. RunTouched(r) /\ runs'[r].st = "failed" /\ runs'[r].fail = "recovery_required" /\ runs'[r].fence = runs[r].fence
  BY <1>1, RunTwoColumns
<1>. QED  BY <1>2

(* Interrupted runs are found; a queued run is claimed.                     *)
LEMMA TracedRecover ==
    ASSUME LedgerOK, SegmentsInv, TracedInv, [Next]_vars, Recover
    PROVE  TracedInv'
<1>0. RunsOK /\ VerdictsKept /\ CheckpointsKept
  BY EveryVerdictKept, EveryCheckpointKept DEF LedgerOK, TablesOK
<1>1. PICK r \in Interrupted : FailRun(r, "recovery_required")
  BY DEF Recover, RecoverInterrupted
<1>2. r \in DOMAIN runs /\ Running(r) /\ pc' = "idle" /\ out' = out
  BY DEF Interrupted, Running, Recover, At, workerVars
<1>3. RunTouched(r) /\ runs'[r].st = "failed" /\ runs'[r].fail = "recovery_required"
  BY <1>0, <1>1, <1>2, FailedForRecovery
<1>4. ASSUME NEW o \in out
      PROVE  OutputTraced(o)'
  <2>0. OutputTraced(o)
    BY DEF TracedInv
  <2>1. CASE o.run = r
    BY <1>0, <1>3, <2>0, <2>1 DEF OutputTraced, ForRecovery, VerdictsKept, SameRun
  <2>2. CASE o.run # r
    <3>1. \E x : x = o /\ OnItsWay(x)'
      BY <1>2 DEF OnItsWay
    <3>2. runs'[o.run] = runs[o.run]
      BY <1>3, <2>0, <2>2 DEF RunTouched, OutputTraced
    <3>. QED  BY <1>0, <2>0, <3>1, <3>2, TracedStays
  <2>. QED  BY <2>1, <2>2
<1>. QED  BY <1>2, <1>4, TargetLeft DEF TracedInv

(* A queued run is claimed: no output is its own yet.                       *)
LEMMA TracedClaim ==
    ASSUME LedgerOK, SegmentsInv, TracedInv, [Next]_vars, Claim
    PROVE  TracedInv'
<1>0. RunsOK /\ VerdictsKept /\ CheckpointsKept
  BY EveryVerdictKept, EveryCheckpointKept DEF LedgerOK, TablesOK
<1>1. PICK r \in DOMAIN runs : ClaimNextRun(r) /\ cur' = r
  BY DEF Claim
<1>2. out' = out /\ pc' = "claimed"
  BY DEF Claim, Goto
<1>3. runs[r].st = "queued" /\ RunTouched(r)
  BY <1>0, <1>1, RunStatusWritten DEF ClaimNextRun, Claimable
<1>4. ASSUME NEW o \in out
      PROVE  OutputTraced(o)'
  <2>0. OutputTraced(o)
    BY DEF TracedInv
  <2>1. ASSUME runs[o.run].st = "running"
        PROVE  runs'[o.run] = runs[o.run] /\ \E x : x = o /\ OnItsWay(x)'
    BY <1>1, <1>3, <2>0, <2>1 DEF RunTouched, OutputTraced, OnItsWay
  <2>. QED  BY <1>0, <2>0, <2>1, TracedStays
<1>. QED  BY <1>2, <1>4, TargetLeft DEF TracedInv

(* A target has been tracked: its output waits for the checkpoint.          *)
LEMMA TracedWork ==
    ASSUME LedgerOK, SegmentsInv, TracedInv, [Next]_vars, WorkDone
    PROVE  TracedInv'
<1>0. RunsOK /\ VerdictsKept /\ CheckpointsKept
  BY EveryVerdictKept, EveryCheckpointKept DEF LedgerOK, TablesOK
<1>1. /\ pc = "work" /\ cur \in DOMAIN runs /\ Running(cur) /\ cur' = cur /\ cseg' = cseg /\ runs' = runs
      /\ UNCHANGED storeVars
  BY PlaceOfRun DEF WorkDone, At, storeVars
<1>2. OthersRun /\ OwnOutputTraced
  BY <1>1, OthersOfRun, NothingOnItsWay
<1>3. TargetOK'
  BY <1>0, <1>1, TargetSame DEF TracedInv
<1>4. CASE out' = out
  BY <1>1, <1>2, <1>3, <1>4, TracedOthers
<1>5. CASE TrackReturns
  <2>1. /\ runs[cur].kind = "tracking" /\ pc' = "record"
        /\ out' = out \cup {[job |-> runs[cur].job, seg |-> cseg, run |-> cur]}
    BY <1>5 DEF TrackReturns, WorkDone, AfterWork, CurKind, CurJob, Goto
  <2>2. ASSUME NEW o \in out
        PROVE  OutputTraced(o)'
    <3>0. OutputTraced(o)
      BY DEF TracedInv
    <3>1. ASSUME runs[o.run].st = "running" /\ OnItsWay(o)
          PROVE  runs'[o.run].st = "running" /\ \E x : x = o /\ OnItsWay(x)'
      BY <1>1, <3>1 DEF OnItsWay
    <3>. QED  BY <1>0, <3>0, <3>1, TracedStays
  <2>3. ASSUME NEW o, o = [job |-> runs[cur].job, seg |-> cseg, run |-> cur]
        PROVE  OutputTraced(o)'
    BY <1>1, <2>1, <2>3 DEF OutputTraced, OnItsWay, Running
  <2>. QED  BY <1>3, <2>1, <2>2, <2>3 DEF TracedInv
<1>. QED
  BY <1>4, <1>5 DEF WorkDone, PrepareReturns, ProcessingReturns, FixReturns, RevisionPublished

(* The checkpoint is recorded or refused.                                   *)
LEMMA TracedRecord ==
    ASSUME LedgerOK, SegmentsInv, TracedInv, [Next]_vars, Record
    PROVE  TracedInv'
<1>0. /\ pc = "record" /\ cur \in DOMAIN runs /\ Running(cur) /\ cur' = cur /\ cseg' = cseg /\ out' = out
      /\ runs[cur].job \in Jobs
  BY PlaceOfRun DEF Record, At
<1>1. RunTransaction(cur) \/ UNCHANGED storeVars
  BY DEF Record, RunTransaction, CurJob
<1>2. OthersRun
  BY <1>0, <1>1, OthersOfRun
<1>3. TargetOK'
  BY TargetLeft DEF Record, Goto, Raise
<1>4. CASE RecordCheckpoint(cur, cseg, SubmittedContent(CurJob, cseg))
  <2>1. ASSUME NEW o \in out, o.run = cur, OnItsWay(o)
        PROVE  OutputTraced(o)'
    <3>0. OutputTraced(o)
      BY DEF TracedInv
    <3>1. cseg = o.seg /\ runs[cur].kind = "tracking" /\ o.job = runs[cur].job
      BY <1>0, <2>1, <3>0 DEF OnItsWay, OutputTraced
    <3>2. cseg \in Segs
      BY <1>0, <3>1 DEF TracedInv, TargetOK
    <3>. DEFINE j == runs[cur].job
                v == seg[j][cseg]
                c == SubmittedContent(j, cseg)
    <3>3. GoodSegment(v) /\ v.sub # 0 /\ c = v.revs[v.sub]
      BY <1>0, <1>4, <3>2 DEF SegmentsInv, RecordCheckpoint, SubmittedContent
    <3>4. c \in 1 .. MaxDraft
      <4>. HIDE DEF v, c
      <4>1. v.draft \in 0 .. MaxDraft /\ v.draft # 0 /\ c = v.draft
        BY <3>3 DEF GoodSegment, PointsToDraft
      <4>. QED  BY <4>1
    <3>5. ckpt' = [ckpt EXCEPT ![j] = @ \cup {<<cseg, c>>}] /\ runs' = runs
      BY <1>4 DEF RecordCheckpoint, CurJob
    <3>6. <<cseg, c>> \in ckpt'[j]
      <4>. HIDE DEF c
      <4>. QED  BY <1>0, <3>5 DEF SegmentsInv
    <3>. HIDE DEF c
    <3>7. Recorded(o)'
      BY <3>1, <3>4, <3>6 DEF Recorded
    <3>. QED  BY <3>0, <3>5, <3>7 DEF OutputTraced
  <2>2. OwnOutputTraced
    BY <2>1 DEF OwnOutputTraced
  <2>. QED  BY <1>0, <1>2, <1>3, <2>2, TracedOthers
<1>5. CASE Raise("recovery_required") /\ UNCHANGED storeVars
  <2>1. OwnOutputTraced
    BY <1>0, <1>5 DEF OwnOutputTraced, OnItsWay, Raise, Running, storeVars
  <2>. QED  BY <1>0, <1>2, <1>3, <2>1, TracedOthers
<1>. QED  BY <1>4, <1>5 DEF Record

(* An exception is handled; the run is settled.                             *)
LEMMA TracedFailure ==
    ASSUME LedgerOK, SegmentsInv, TracedInv, [Next]_vars, Failing \/ Settle \/ Fail
    PROVE  TracedInv'
<1>0. /\ pc \in {"failing", "settle", "fail"} /\ cur \in DOMAIN runs /\ Running(cur) /\ cur' = cur /\ cls' = cls
      /\ out' = out /\ RunsOK
  BY PlaceOfRun DEF Failing, Settle, Fail, At, LedgerOK, TablesOK
<1>1. RunTransaction(cur) \/ UNCHANGED storeVars
  BY <1>0 DEF Failing, Settle, Fail, RunTransaction, CompleteCancelledRun, Running
<1>2. OthersRun
  BY <1>0, <1>1, OthersOfRun
<1>3. TargetOK'
  BY TargetLeft DEF Failing, Settle, Fail, Goto
<1>4. VerdictsKept
  BY EveryVerdictKept
<1>5. \A o : o.run = cur /\ OnItsWay(o) => cls = "recovery_required"
  BY <1>0 DEF OnItsWay
<1>6. CASE Failing
  <2>1. RunNoted(cur) /\ pc' = "settle"
    BY <1>0, <1>6, RunStepWritten DEF Failing, FailActiveStep, Goto
  <2>2. OwnOutputTraced
    BY <1>0, <1>5, <2>1 DEF OwnOutputTraced, OnItsWay, RunNoted, Running
  <2>. QED  BY <1>0, <1>2, <1>3, <2>2, TracedOthers
<1>7. CASE Settle
  <2>1. cls = "recovery_required" => pc' = "fail" /\ runs' = runs
    BY <1>7 DEF Settle, Goto, storeVars
  <2>2. OwnOutputTraced
    BY <1>0, <1>5, <2>1 DEF OwnOutputTraced, OnItsWay, Running
  <2>. QED  BY <1>0, <1>2, <1>3, <2>2, TracedOthers
<1>8. CASE Fail
  <2>1. cls = "recovery_required" => runs'[cur].st = "failed" /\ runs'[cur].fail = "recovery_required"
    BY <1>0, <1>8, FailedForRecovery DEF Fail
  <2>2. ASSUME NEW o \in out, o.run = cur, OnItsWay(o)
        PROVE  OutputTraced(o)'
    BY <1>0, <1>4, <1>5, <2>1, <2>2 DEF TracedInv, OutputTraced, ForRecovery, VerdictsKept, SameRun
  <2>3. OwnOutputTraced
    BY <2>2 DEF OwnOutputTraced
  <2>. QED  BY <1>0, <1>2, <1>3, <2>3, TracedOthers
<1>. QED  BY <1>6, <1>7, <1>8

-----------------------------------------------------------------------------
(* The places without output on its way.                                    *)
LEMMA TracedElsewhereInRun ==
    ASSUME LedgerOK, SegmentsInv, TracedInv, [Next]_vars,
           Execute \/ Capacity \/ SetupTracking \/ NextTarget \/ Bind \/ EnterLock \/ WorkFails \/ Fence \/ Publish \/ Closing
           \/ PrepareRejected
    PROVE  TracedInv'
<1>0. pc \in {"claimed", "capacity", "setup", "next", "bind", "lock", "work", "fence", "locked", "publish", "closing"}
  BY DEF Execute, Capacity, SetupTracking, NextTarget, Bind, EnterLock, WorkFails, Fence, Publish, Closing, PrepareRejected, At
<1>1. cur' = cur /\ out' = out
  BY DEF Execute, Capacity, SetupTracking, NextTarget, Bind, EnterLock, WorkFails, Fence, Publish, Closing, PrepareRejected
<1>2. cur \in DOMAIN runs /\ Running(cur)
  BY <1>0, PlaceOfRun
<1>3. RunTransaction(cur) \/ UNCHANGED storeVars
  <2>1. CASE Execute \/ Capacity \/ NextTarget \/ Bind \/ EnterLock \/ WorkFails
    BY <2>1 DEF Execute, Capacity, NextTarget, Bind, EnterLock, WorkFails
  <2>2. CASE SetupTracking \/ Fence \/ Publish
    BY <2>2 DEF SetupTracking, Fence, Publish, RunTransaction
  <2>3. CASE Closing
    <3>1. CASE CompletionOf(cur)
      BY <3>1 DEF CompletionOf, CurKind, RunTransaction
    <3>2. CASE FinishStep(cur, TRUE) \/ CompleteAsCancelled(cur)
      BY <3>2 DEF RunTransaction
    <3>. QED  BY <2>3, <3>1, <3>2 DEF Closing
  <2>4. CASE PrepareRejected
    BY <1>2, <2>4 DEF PrepareRejected, RunTransaction
  <2>. QED  BY <2>1, <2>2, <2>3, <2>4
<1>4. OthersRun /\ OwnOutputTraced
  BY <1>0, <1>2, <1>3, OthersOfRun, NothingOnItsWay
<1>5. TargetOK'
  <2>0. VerdictsKept /\ TargetOK
    BY EveryVerdictKept DEF TracedInv
  <2>1. CASE SetupTracking \/ WorkFails \/ Fence \/ Publish \/ Closing \/ PrepareRejected
    <3>1. pc' \notin {"bind", "lock", "work", "record"}
      BY <2>1
         DEF SetupTracking, WorkFails, Fence, Publish, Closing, PrepareRejected, Goto, Raise, CommandKilled,
             CommandSurvives, OutputConflict, PrepareRaises, TrackRaises, ProcessingRaises, FixRaises
    <3>. QED  BY <3>1, TargetLeft
  <2>2. CASE Bind \/ (EnterLock /\ pc = "lock")
    BY <1>0, <1>1, <2>0, <2>2, TargetSame DEF Bind, EnterLock, At
  <2>5. CASE Execute \/ (EnterLock /\ pc # "lock")
    <3>1. pc' \notin {"bind", "lock", "work", "record"}
      BY <2>5 DEF Execute, EnterLock, Goto, Raise
    <3>. QED  BY <3>1, TargetLeft
  <2>3. CASE NextTarget
    BY <1>1, <2>0, <2>3, TargetLeft DEF NextTarget, Untracked, SegmentsIn, Goto, Raise, TargetOK
  <2>4. CASE Capacity
    <3>1. cseg' = cseg /\ (pc' \notin {"bind", "lock", "work", "record"} \/ runs[cur].kind # "tracking")
      BY <2>4 DEF Capacity, CurKind, Goto, Raise
    <3>. QED  BY <1>0, <1>1, <2>0, <3>1, TargetSame
  <2>. QED  BY <2>1, <2>2, <2>3, <2>4, <2>5
<1>. QED  BY <1>1, <1>4, <1>5, TracedOthers

(* Neither the runs nor the Worker's place change, or the Worker is idle.   *)
LEMMA TracedQuiet ==
    ASSUME LedgerOK, SegmentsInv, TracedInv, [Next]_vars, RunningKept, out' = out,
           UNCHANGED <<pc, cur, cseg, cls>> \/ pc' = "idle"
    PROVE  TracedInv'
<1>0. VerdictsKept /\ OthersRun
  BY EveryVerdictKept DEF RunningKept, OthersRun
<1>1. OwnOutputTraced
  BY DEF OwnOutputTraced, OnItsWay, RunningKept, Running
<1>2. TargetOK'
  <2>1. CASE UNCHANGED <<pc, cur, cseg, cls>>
    <3>1. CASE pc \in {"idle", "done"}
      BY <2>1, <3>1 DEF TargetOK
    <3>2. CASE pc \notin {"idle", "done"}
      BY <1>0, <2>1, <3>2, TargetSame DEF TracedInv
    <3>. QED  BY <3>1, <3>2
  <2>2. CASE pc' = "idle"
    BY <2>2, TargetLeft
  <2>. QED  BY <2>1, <2>2
<1>. QED  BY <1>0, <1>1, <1>2, TracedOthers

(* Every other step.                                                        *)
LEMMA WorkerElsewhere ==
    ASSUME [Next]_vars, ~WorkerStep
    PROVE  out' = out /\ (UNCHANGED <<pc, cur, cseg, cls>> \/ pc' = "idle")
<1>1. UNCHANGED workerVars => out' = out /\ UNCHANGED <<pc, cur, cseg, cls>>
  BY DEF workerVars
<1>2. CASE PipelineRequest \/ ReviewRequest \/ NavigationWrites \/ OrphanEnds \/ \E j \in Jobs : OpConfirm(j)
  BY <1>1, <1>2 DEF PipelineRequest, ReviewRequest, NavigationWrites, OrphanEnds, OpConfirm
<1>3. ASSUME NEW j \in Jobs, CancelCommit(j) \/ CancelOwns(j) \/ CancelTold(j)
      PROVE  out' = out /\ UNCHANGED <<pc, cur, cseg, cls>>
  BY <1>1, <1>3 DEF CancelCommit, CancelOwns, CancelTold
<1>4. CASE DeliveryStarts \/ DeliveryTracks \/ DeliveryStep \/ DeliverySettles
  BY <1>1, <1>4 DEF DeliveryStarts, DeliveryTracks, DeliveryStep, DeliverySettles
<1>5. CASE OpRecord \/ OpComplete \/ OpUnlink \/ OpDies \/ OpReplay
  BY <1>1, <1>5 DEF OpRecord, OpComplete, OpUnlink, OpDies, OpReplay
<1>6. CASE ServiceEnds \/ ServiceStarts
  BY <1>6 DEF ServiceEnds, ShutDown, Crash, Ended, ServiceStarts, Restart
<1>7. CASE UNCHANGED vars
  BY <1>1, <1>7 DEF vars
<1>. QED  BY <1>2, <1>3, <1>4, <1>5, <1>6, <1>7 DEF Next

(* Every step.                                                              *)
LEMMA TracedStep ==
    ASSUME LedgerOK, SegmentsInv, TracedInv, [Next]_vars
    PROVE  TracedInv'
<1>1. CASE ~WorkerStep
  <2>0. TablesOK /\ RunsOK
    BY DEF LedgerOK, TablesOK
  <2>1. OutsideTransaction
    BY <1>1, <2>0, OutsideStep
  <2>2. RunningKept
    BY <2>0, <2>1, OutsideKeepsRunning
  <2>. QED  BY <1>1, <2>2, WorkerElsewhere, TracedQuiet
<1>2. CASE Stop \/ HeartbeatCheck \/ HeartbeatRenew \/ HeartbeatRecheck \/ HeartbeatFails \/ LeaseExpires
  <2>1. UNCHANGED <<runs, out, pc, cur, cseg, cls>>
    BY <1>2
       DEF Stop, HeartbeatCheck, HeartbeatRenew, RenewLease, HeartbeatRecheck, HeartbeatFails, LeaseExpires,
           storeVars, workerVars
  <2>. QED  BY <2>1, TracedQuiet DEF RunningKept
<1>3. CASE Finished
  <2>1. runs' = runs /\ out' = out /\ pc' = "idle"
    BY <1>3 DEF Finished, storeVars, Goto
  <2>. QED  BY <2>1, TracedQuiet DEF RunningKept
<1>. QED
  BY <1>1, <1>2, <1>3, TracedRecover, TracedClaim, TracedWork, TracedRecord, TracedFailure, TracedElsewhereInRun
     DEF WorkerStep

(* Initially.                                                               *)
LEMMA TracedInitially == Init => TracedInv
BY DEF Init, WorkerInit, TracedInv, TargetOK

(* Tracking output without a checkpoint is not trusted: the run that wrote  *)
(* it is still executing or has failed as recovery_required, which the Web  *)
(* cannot retry - whatever was cancelled, refused or interrupted meanwhile  *)
(* (worker.py tracking loop and _safe_runtime_failure, store.py             *)
(* record_tracking_checkpoint, _recover_interrupted_runs_conn).             *)
THEOREM UnrecordedOutputQuarantined == Spec => []UnrecordedOutputIsQuarantined
<1>. DEFINE Inv == LedgerOK /\ SegmentsInv /\ TracedInv
<1>1. Init => Inv
  BY LedgerInitially, SegmentsInitially, TracedInitially
<1>2. Inv /\ [Next]_vars => Inv'
  BY LedgerKept, SegmentsKept, TracedStep
<1>3. Inv => UnrecordedOutputIsQuarantined
  BY DEF TracedInv, OutputTraced, Recorded, ForRecovery, UnrecordedOutputIsQuarantined
<1>. QED  BY <1>1, <1>2, <1>3, PTL DEF Spec

-----------------------------------------------------------------------------
(* Cancellations.  A job that somebody cancelled, or that waits for an      *)
(* operator, stays so while the service is up; a cancel request is made of  *)
(* a job under way only.                                                    *)
ForOperator(v) == v.st = "failed" /\ v.fail = "recovery_required"
Doomed(j) == job[j].cancel \/ job[j].st = "cancelled" \/ ForOperator(job[j])
CancelsOK ==
    \A j \in Jobs : job[j].cancel => job[j].st \in Stages \cup {"cancelled"} \/ ForOperator(job[j])
FreshRuns == \A r \in DOMAIN runs : Active(runs[r]) => runs[r].fail = "none"

(* The Worker.                                                              *)
LEMMA DoomedOfRun ==
    ASSUME RunsOK, StageInv, NEW r, RunCore(r)
    PROVE  /\ \A j \in Jobs : Doomed(j) => Doomed(j)'
           /\ CancelsOK => CancelsOK'
<1>1. CASE job' = job
  BY <1>1 DEF Doomed, CancelsOK
<1>. DEFINE i == runs[r].job
<1>2. CASE StageDone(r) \/ (\E f : StageFailed(r, f) /\ job' # job)
  <2>1. i \in Jobs /\ job[i].st \in Stages /\ \A j \in Jobs : j # i => job'[j] = job[j]
    <3>1. r \in DOMAIN runs /\ Running(r) /\ runs[r].kind \notin ReviewRuns /\ JobTouched(i)
      BY <1>2 DEF StageDone, StageFailed, RunEnded, RunTouched
    <3>. QED  BY <3>1, StageIsStage DEF StageInv, Active, Running, JobTouched
  <2>2. job[i].st # "cancelled" /\ ~ForOperator(job[i])
    BY <2>1 DEF Stages, ForOperator
  <2>3. /\ ~job[i].cancel => ~job'[i].cancel
        /\ job[i].cancel => ForOperator(job'[i])
    BY <1>2 DEF StageDone, StageFailed, ForOperator
  <2>4. \A j \in Jobs : Doomed(j) => Doomed(j)'
    BY <2>1, <2>2, <2>3 DEF Doomed
  <2>5. CancelsOK => CancelsOK'
    BY <2>1, <2>3 DEF CancelsOK
  <2>. QED  BY <2>4, <2>5
<1>3. CASE RunCancelled(r)
  BY <1>3 DEF RunCancelled, JobTouched, Doomed, CancelsOK
<1>. QED  BY <1>1, <1>2, <1>3 DEF RunCore

(* Requests.  Only the operator returns a doomed job to its stage.          *)
LEMMA DoomedOfRequest ==
    ASSUME RunsOK, StageInv, CancelsOK, RequestCore
    PROVE  /\ up => \A j \in Jobs : Doomed(j) => Doomed(j)'
           /\ CancelsOK'
<1>1. CASE job' = job
  BY <1>1 DEF Doomed, CancelsOK
<1>2. ASSUME NEW j \in Jobs, NEW kind, StageEntered(j, kind)
      PROVE  (up => \A i \in Jobs : Doomed(i) => Doomed(i)') /\ CancelsOK'
  <2>1. /\ \A i \in Jobs : i # j => job'[i] = job[i]
        /\ job'[j].st \in Stages
    BY <1>2, StageIsStage DEF StageEntered, JobTouched
  <2>2. up => ~Doomed(j)
    <3>1. job[j].st \notin Stages \cup {"cancelled"}
      BY <1>2 DEF StageEntered, Stages
    <3>2. up => ~ForOperator(job[j])
      BY <1>2 DEF StageEntered, Decided, ForOperator
    <3>. QED  BY <3>1, <3>2 DEF CancelsOK, Doomed
  <2>. QED  BY <2>1, <2>2 DEF Doomed, CancelsOK
<1>3. ASSUME NEW j \in Jobs, CancelAsked(j)
      PROVE  (\A i \in Jobs : Doomed(i) => Doomed(i)') /\ CancelsOK'
  <2>1. /\ \A i \in Jobs : i # j => job'[i] = job[i]
        /\ job'[j].st = job[j].st /\ job'[j].fail = job[j].fail /\ job'[j].cancel
    BY <1>3 DEF CancelAsked, JobTouched
  <2>2. PICK r \in DOMAIN runs : runs[r].job = j /\ runs[r].st = "running"
    BY <1>3 DEF CancelAsked, RunsOf
  <2>3. job[j].st \in Stages
    BY <1>3, <2>2, StageIsStage DEF StageInv, Active, CancelAsked
  <2>. QED  BY <2>1, <2>3 DEF Doomed, CancelsOK
<1>4. ASSUME NEW j \in Jobs, CancelDone(j)
      PROVE  (\A i \in Jobs : Doomed(i) => Doomed(i)') /\ CancelsOK'
  BY <1>4 DEF CancelDone, JobTouched, Doomed, CancelsOK
<1>. QED  BY <1>1, <1>2, <1>3, <1>4 DEF RequestCore

(* Every step.                                                              *)
LEMMA DoomedStays ==
    ASSUME LedgerOK, StageInv, CancelsOK, [Next]_vars
    PROVE  (up => \A j \in Jobs : Doomed(j) => Doomed(j)') /\ CancelsOK'
<1>0. JobsOK /\ RunsOK
  BY DEF LedgerOK, TablesOK
<1>1. CASE OutsideTransaction
  BY <1>0, <1>1, OutsideCore, DoomedOfRequest
<1>2. CASE WorkerTransaction
  <2>1. CASE UNCHANGED ledgerVars
    BY <2>1 DEF ledgerVars, Doomed, CancelsOK
  <2>2. ASSUME NEW r \in DOMAIN runs, RunTransaction(r)
        PROVE  (up => \A j \in Jobs : Doomed(j) => Doomed(j)') /\ CancelsOK'
    BY <1>0, <2>2, RunTransactionCore, DoomedOfRun
  <2>. QED  BY <1>2, <2>1, <2>2 DEF WorkerTransaction
<1>. QED  BY <1>1, <1>2, EveryTransaction

(* A run has no verdict before it ends.                                     *)
LEMMA FreshKept ==
    ASSUME LedgerOK, FreshRuns, [Next]_vars
    PROVE  FreshRuns'
<1>0. JobsOK /\ RunsOK
  BY DEF LedgerOK, TablesOK
<1>1. ASSUME NEW r, RunCore(r)
      PROVE  FreshRuns'
  <2>1. CASE runs' = runs
    BY <2>1 DEF FreshRuns
  <2>2. CASE RunNoted(r) \/ RunFenced(r) \/ RunClaimed(r)
    <3>1. RunTouched(r) /\ runs'[r].fail = runs[r].fail /\ (Active(runs'[r]) => Active(runs[r]))
      BY <2>2 DEF RunNoted, RunFenced, RunClaimed, Active
    <3>. QED  BY <3>1 DEF FreshRuns, RunTouched
  <2>3. ASSUME NEW x, RunEnded(r, x)
        PROVE  FreshRuns'
    BY <2>3 DEF RunEnded, FreshRuns, RunTouched, Active
  <2>. QED  BY <1>1, <2>1, <2>2, <2>3 DEF RunCore, StageDone, RunCancelled, StageFailed
<1>2. CASE RequestCore
  <2>1. CASE runs' = runs
    BY <2>1 DEF FreshRuns
  <2>2. ASSUME NEW j, NEW kind, RunQueued(j, kind)
        PROVE  FreshRuns'
    <3>1. PICK e : runs' = Append(runs, e) /\ e.fail = "none"
      BY <2>2 DEF RunQueued
    <3>. QED  BY <1>0, <3>1, RunsGrow DEF FreshRuns
  <2>3. ASSUME NEW j, QueuedCancelled(j)
        PROVE  FreshRuns'
    BY <2>3 DEF QueuedCancelled, FreshRuns, Active
  <2>. QED  BY <1>2, <2>1, <2>2, <2>3 DEF RequestCore, CancelAsked, CancelDone, StageEntered
<1>3. CASE OutsideTransaction
  BY <1>0, <1>2, <1>3, OutsideCore
<1>4. CASE WorkerTransaction
  <2>1. CASE UNCHANGED ledgerVars
    BY <2>1 DEF ledgerVars, FreshRuns
  <2>. QED  BY <1>0, <1>1, <1>4, <2>1, RunTransactionCore DEF WorkerTransaction
<1>. QED  BY <1>3, <1>4, EveryTransaction

-----------------------------------------------------------------------------
(* What the Worker and the API hold.  A cancellation that waits is for a    *)
(* job that is doomed, unless the service is stopping; so is a request      *)
(* between its commit and the Worker.                                       *)
RequestsOK ==
    /\ DOMAIN call = Jobs /\ \A j \in Jobs : call[j] # "none" => Doomed(j)
    /\ \A j \in pend : stopping \/ (j \in Jobs /\ Doomed(j))
NothingDown == ~up => pend = {} /\ hb = "off" /\ pc = "idle" /\ \A j \in Jobs : call[j] = "none"
(* A Worker that is busy holds the lease; a heartbeat belongs to a run.     *)
IsLease(v) == v = [run |-> v.run, live |-> v.live, own |-> v.own]
LeaseHeld ==
    /\ IsLease(lease)
    /\ pc \notin {"idle", "done"} => lease.run = cur /\ lease.live
    /\ hb # "off" => pc # "idle"
(* A run that the Worker has left has ended, and dooms its job if it waits  *)
(* for an operator.                                                         *)
DoneOK ==
    pc = "done" => ~Running(cur) /\ (runs[cur].fail = "recovery_required" => Doomed(CurJob))
(* Which runs are bound to a cancellation context, and which can end as     *)
(* cancelled or for an operator.                                            *)
KindsOK ==
    /\ pc \in {"setup", "next", "record"} => CurKind = "tracking"
    /\ pc \in {"fence", "locked"} => CurKind = "postprocessing"
    /\ pc = "bind" => CurKind \notin ReviewRuns
    /\ ctx # "off" => pc \in {"lock", "work"} /\ CurKind \notin ReviewRuns
    /\ pc \in {"failing", "settle", "fail"} /\ cls \in {"cancelled", "recovery_required"} =>
          CurKind \notin ReviewRuns
CancelInv ==
    /\ CancelsOK /\ FreshRuns
    /\ RequestsOK /\ NothingDown /\ LeaseHeld /\ DoneOK /\ KindsOK

-----------------------------------------------------------------------------
(* The API and the operator, a delivery, the end and the start of the       *)
(* service.                                                                 *)
ServiceGone ==
    /\ ~up' /\ pend' = {} /\ hb' = "off" /\ ctx' = "off" /\ pc' = "idle" /\ IsLease(lease')
    /\ call' = [j \in Jobs |-> "none"]
CallsStep ==
    /\ UNCHANGED <<stopping, pc, cur, cls, hb, lease>>
    /\ ~up' => ~up
    /\ ctx' = ctx \/ ctx # "off"
    /\ DOMAIN call' = Jobs
    /\ \A j \in Jobs : call'[j] # "none" => call[j] # "none" \/ (up /\ Doomed(j)')
    /\ \A j \in pend' : j \in pend \/ (j \in Jobs /\ call[j] # "none")

(* A step that touches neither the Worker nor the calls.                    *)
LEMMA CallsSame ==
    ASSUME DOMAIN call = Jobs, UNCHANGED <<workerVars, call, lease>>
    PROVE  CallsStep
BY DEF CallsStep, workerVars

(* No request touches the lease of the Worker.                              *)
LEMMA LeaseOfRequests ==
    ASSUME NEW j
    PROVE  /\ CreateJob(j) => lease' = lease
           /\ RetryJob(j) \/ ReturnToStage(j) => lease' = lease
           /\ StartTracking(j) => lease' = lease
           /\ CompleteNoTargets(j) \/ CancelActiveJob(j) => lease' = lease
           /\ \A s : SaveDraft(j, s) \/ SubmitSegment(j, s) \/ Reopen(j, s) => lease' = lease
           /\ \A s : Skip(j, s) \/ Unskip(j, s) => lease' = lease
           /\ \A t : BeginPostprocessing(j, t) => lease' = lease
<1>1. CreateJob(j) => lease' = lease
  BY DEF CreateJob
<1>2. RetryJob(j) \/ ReturnToStage(j) => lease' = lease
  BY DEF RetryJob, ReturnToStage
<1>3. StartTracking(j) => lease' = lease
  BY DEF StartTracking
<1>4. CompleteNoTargets(j) \/ CancelActiveJob(j) => lease' = lease
  BY DEF CompleteNoTargets, CancelActiveJob
<1>5. \A s : SaveDraft(j, s) \/ SubmitSegment(j, s) \/ Reopen(j, s) => lease' = lease
  BY DEF SaveDraft, SubmitSegment, Reopen
<1>6. \A s : Skip(j, s) \/ Unskip(j, s) => lease' = lease
  BY DEF Skip, Unskip
<1>7. \A t : BeginPostprocessing(j, t) => lease' = lease
  BY DEF BeginPostprocessing
<1>. QED  BY <1>1, <1>2, <1>3, <1>4, <1>5, <1>6, <1>7

(* Nor do reviews and releases.                                             *)
LEMMA LeaseOfReviews ==
    ASSUME \/ CreateDatasetRelease \/ ResetUnreleasedDataset
           \/ \E j \in Jobs, t \in Tasks : LinkProcessing(j, t)
           \/ \E j \in Jobs, s \in Segs : ReviewTransaction(j, s)
    PROVE  lease' = lease
<1>1. ASSUME NEW j \in Jobs, NEW s \in Segs, ReviewTransaction(j, s)
      PROVE  lease' = lease
  BY <1>1
     DEF ReviewTransaction, CreateFixSession, ApplyFixCommand, CreateFixRevision, ResumeReturnedReview, DecideReview,
         ApproveFixRevision, RetryPublication, LinkFix
<1>. QED  BY <1>1 DEF CreateDatasetRelease, ResetUnreleasedDataset, LinkProcessing, storeVars

(* Every step but those of the Worker.                                      *)
LEMMA OutsideCalls ==
    ASSUME LedgerOK, CancelInv, [Next]_vars, ~WorkerStep
    PROVE  ServiceGone \/ CallsStep
<1>0. JobsOK /\ RunsOK /\ DOMAIN call = Jobs /\ IsLease(lease)
  BY DEF LedgerOK, TablesOK, CancelInv, RequestsOK, LeaseHeld
<1>1. CASE PipelineRequest
  <2>1. UNCHANGED <<workerVars, call>>
    BY <1>1 DEF PipelineRequest, hostVars
  <2>2. lease' = lease
    BY <1>0, <1>1, LeaseOfRequests DEF PipelineRequest
  <2>. QED  BY <1>0, <2>1, <2>2, CallsSame
<1>2. CASE ReviewRequest
  <2>1. UNCHANGED <<workerVars, call>>
    BY <1>2 DEF ReviewRequest, hostVars
  <2>2. lease' = lease
    <3>1. \/ CreateDatasetRelease \/ ResetUnreleasedDataset
          \/ \E j \in Jobs, t \in Tasks : LinkProcessing(j, t)
          \/ \E j \in Jobs, s \in Segs : ReviewTransaction(j, s)
      BY <1>2 DEF ReviewRequest, ReviewTransaction
    <3>. QED  BY <3>1, LeaseOfReviews
  <2>. QED  BY <1>0, <2>1, <2>2, CallsSame
<1>3. ASSUME NEW j \in Jobs, CancelCommit(j)
      PROVE  CallsStep
  <2>1. /\ UNCHANGED workerVars /\ UNCHANGED lease /\ up
        /\ call' = [call EXCEPT ![j] = "owns"]
        /\ job[j].st \notin {"none", "tracked", "annotated", "cancelled"}
        /\ Decided(j) /\ CancelActiveJob(j)
    BY <1>3 DEF CancelCommit, Allowed, CancelJob, CancelActiveJob, Decided
  <2>2. CancelAsked(j) \/ CancelDone(j)
    BY <1>0, <2>1, CancelCore
  <2>3. Doomed(j)'
    BY <2>2 DEF CancelAsked, CancelDone, Doomed
  <2>4. /\ UNCHANGED <<up, stopping, pc, cur, cls, ctx, pend, hb>> /\ DOMAIN call' = Jobs
        /\ \A i \in Jobs : i # j => call'[i] = call[i]
    BY <1>0, <2>1 DEF workerVars
  <2>. HIDE DEF Doomed
  <2>. QED  BY <2>1, <2>3, <2>4 DEF CallsStep
<1>4. ASSUME NEW j \in Jobs, CancelOwns(j)
      PROVE  CallsStep
  <2>1. UNCHANGED <<workerVars, lease>> /\ DOMAIN call' = Jobs
    BY <1>0, <1>4 DEF CancelOwns, storeVars
  <2>2. \A i \in Jobs : i # j => call'[i] = call[i]
    BY <1>0, <1>4 DEF CancelOwns
  <2>3. call[j] # "none"
    BY <1>4 DEF CancelOwns
  <2>. QED  BY <2>1, <2>2, <2>3 DEF CallsStep, workerVars
<1>5. ASSUME NEW j \in Jobs, CancelTold(j)
      PROVE  CallsStep
  <2>1. UNCHANGED <<up, stopping, pc, cur, cls, hb, lease>> /\ DOMAIN call' = Jobs
    BY <1>0, <1>5 DEF CancelTold, storeVars
  <2>2. (\A i \in Jobs : call'[i] # "none" => call[i] # "none") /\ call[j] # "none"
    BY <1>0, <1>5 DEF CancelTold
  <2>3. \/ ctx # "off" /\ pend' = pend
        \/ ctx' = ctx /\ pend' = pend \cup {j}
    BY <1>5 DEF CancelTold, RequestCancel, CancelRuntime
  <2>. QED  BY <2>1, <2>2, <2>3 DEF CallsStep
<1>6. ASSUME NEW j \in Jobs, OpConfirm(j)
      PROVE  CallsStep
  <2>1. UNCHANGED <<workerVars, call, lease>>
    BY <1>6 DEF OpConfirm, ReturnToStage, CancelActiveJob, hostVars
  <2>. QED  BY <1>0, <2>1, CallsSame
<1>7. CASE DeliveryStarts \/ DeliveryTracks \/ DeliveryStep \/ DeliverySettles
  <2>1. UNCHANGED <<workerVars, call, lease>>
    BY <1>7
       DEF DeliveryStarts, ClaimHandoff, DeliveryTracks, AutoTracking, StartTracking, DeliveryStep, DeliverySettles,
           SettleHandoff, storeVars
  <2>. QED  BY <1>0, <2>1, CallsSame
<1>8. CASE NavigationWrites \/ OrphanEnds \/ OpRecord \/ OpComplete \/ OpUnlink \/ OpDies \/ OpReplay
  <2>1. UNCHANGED <<workerVars, call, lease>>
    BY <1>8
       DEF NavigationWrites, OrphanEnds, OpRecord, OpComplete, OpUnlink, OpDies, OpReplay, storeVars, hostVars
  <2>. QED  BY <1>0, <2>1, CallsSame
<1>9. CASE ServiceEnds
  <2>1. Ended /\ call' = [j \in Jobs |-> "none"]
    BY <1>9 DEF ServiceEnds, ShutDown, Crash
  <2>2. IsLease(lease')
    <3>1. lease' = [run |-> lease.run, live |-> lease.live, own |-> FALSE]
      BY <1>0, <2>1 DEF Ended, IsLease
    <3>. QED  BY <3>1 DEF IsLease
  <2>. QED  BY <2>1, <2>2 DEF ServiceGone, Ended
<1>10. CASE ServiceStarts
  <2>1. /\ up' /\ UNCHANGED <<stopping, pc, cur, cls, hb, lease, ctx, call, pend>>
    BY <1>10 DEF ServiceStarts, Restart, hostVars, storeVars
  <2>. QED  BY <1>0, <2>1 DEF CallsStep
<1>11. CASE UNCHANGED vars
  BY <1>0, <1>11, CallsSame DEF vars, hostVars, storeVars
<1>. QED
  BY <1>1, <1>2, <1>3, <1>4, <1>5, <1>6, <1>7, <1>8, <1>9, <1>10, <1>11 DEF Next

-----------------------------------------------------------------------------
(* The heartbeat cancels the runtime of a doomed job only.                  *)
LEMMA Controls ==
    ASSUME LedgerOK, CancelInv, hb # "off", ControlState(cur) \notin {"continue", "finished"}
    PROVE  CurJob \in Jobs /\ Doomed(CurJob)
<1>0. pc # "idle" /\ PlacesOK /\ RunsOK
  BY DEF CancelInv, LeaseHeld, LedgerOK, TablesOK
<1>1. pc # "idle" /\ cur \in DOMAIN runs /\ CurJob \in Jobs
  BY <1>0 DEF PlacesOK, RunsOK, CurJob
<1>2. CASE runs[cur].st # "running"
  <2>1. runs[cur].fail = "recovery_required"
    BY <1>2 DEF ControlState
  <2>2. pc = "done"
    BY <1>1, <1>2 DEF LedgerOK, WorkerRuns, Running
  <2>. QED  BY <1>1, <2>1, <2>2 DEF CancelInv, DoneOK
<1>3. CASE runs[cur].st = "running"
  <2>1. pc # "done"
    BY <1>1, <1>3 DEF CancelInv, DoneOK, Running
  <2>2. lease.run = cur /\ lease.live
    BY <1>1, <2>1 DEF CancelInv, LeaseHeld
  <2>3. job[CurJob].cancel
    BY <1>3, <2>2 DEF ControlState, CurJob
  <2>. QED  BY <1>1, <2>3 DEF Doomed
<1>. QED  BY <1>2, <1>3

(* What a beat does: nothing to the cancellations, or it passes one on.     *)
LEMMA Beat ==
    ASSUME HeartbeatCheck \/ HeartbeatRecheck
    PROVE  /\ UNCHANGED <<up, stopping, pc, cur, cls, storeVars>> /\ hb # "off"
           /\ \/ UNCHANGED <<ctx, pend>>
              \/ /\ ControlState(cur) \notin {"continue", "finished"}
                 /\ \/ ctx # "off" /\ UNCHANGED pend
                    \/ UNCHANGED ctx /\ pend' = pend \cup {CurJob}
<1>1. UNCHANGED <<up, stopping, pc, cur, cls, storeVars>> /\ hb # "off"
  BY DEF HeartbeatCheck, HeartbeatRecheck
<1>2. CASE ControlState(cur) \in {"continue", "finished"}
  <2>1. ControlState(cur) = "continue" => UNCHANGED <<ctx, pend>>
    <3>1. ControlState(cur) = "continue" /\ HeartbeatCheck => UNCHANGED <<ctx, pend>>
      BY Zenon DEF HeartbeatCheck
    <3>2. ControlState(cur) = "continue" /\ HeartbeatRecheck => UNCHANGED <<ctx, pend>>
      BY Zenon DEF HeartbeatRecheck
    <3>. QED  BY <3>1, <3>2
  <2>2. ControlState(cur) = "finished" => UNCHANGED <<ctx, pend>>
    <3>0. ASSUME ControlState(cur) = "finished"
          PROVE  ControlState(cur) # "continue"
      BY <3>0
    <3>1. ControlState(cur) = "finished" /\ HeartbeatCheck => UNCHANGED <<ctx, pend>>
      BY <3>0, Zenon DEF HeartbeatCheck
    <3>2. ControlState(cur) = "finished" /\ HeartbeatRecheck => UNCHANGED <<ctx, pend>>
      BY <3>0, Zenon DEF HeartbeatRecheck
    <3>. QED  BY <3>1, <3>2
  <2>. QED  BY <1>1, <1>2, <2>1, <2>2
<1>3. CASE ControlState(cur) \notin {"continue", "finished"}
  <2>1. \E why : RequestCancel(CurJob, why)
    BY <1>3, Zenon DEF HeartbeatCheck, HeartbeatRecheck
  <2>. QED  BY <1>1, <1>3, <2>1 DEF RequestCancel, CancelRuntime
<1>. QED  BY <1>1, <1>2, <1>3

-----------------------------------------------------------------------------
(* The steps of the Worker, in groups: the service and its calls go on, and *)
(* what comes to wait is doomed or the service is stopping.                 *)
NoFailingBeat == {"heartbeat", "stall"} \cap Faults = {}
PendOfStep ==
    /\ UNCHANGED <<up, call>> /\ (stopping => stopping')
    /\ \A j \in pend' : stopping' \/ j \in pend \/ (j \in Jobs /\ Doomed(j)')
CancelStep == PendOfStep /\ LeaseHeld' /\ DoneOK' /\ KindsOK'

(* Where the Worker stands and what it holds stays.                         *)
LEMMA BeatKept ==
    ASSUME CancelInv, UNCHANGED <<pc, cur, cls, job, runs>>, ctx' = ctx \/ ctx # "off"
    PROVE  DoneOK' /\ KindsOK'
BY DEF CancelInv, DoneOK, KindsOK, CurKind, CurJob, Running, Doomed, ForOperator

(* Worker.stop and the heartbeat.                                           *)
LEMMA CancelOfBeat ==
    ASSUME LedgerOK, CancelInv, NoFailingBeat, WorkerStep,
           Stop \/ HeartbeatCheck \/ HeartbeatRenew \/ HeartbeatRecheck \/ HeartbeatFails \/ LeaseExpires
    PROVE  CancelStep
<1>0. UNCHANGED call /\ LeaseHeld /\ IsLease(lease)
  BY DEF WorkerStep, hostVars, CancelInv, LeaseHeld
<1>1. CASE Stop
  <2>1. /\ UNCHANGED <<up, pc, cur, cls, hb, storeVars>> /\ stopping' /\ (ctx' = ctx \/ ctx # "off")
    BY <1>1 DEF Stop, CancelRuntime
  <2>2. LeaseHeld'
    BY <1>0, <2>1 DEF storeVars, LeaseHeld, IsLease
  <2>. QED  BY <1>0, <2>1, <2>2, BeatKept DEF CancelStep, PendOfStep, storeVars
<1>2. CASE HeartbeatCheck \/ HeartbeatRecheck
  <2>1. UNCHANGED <<up, stopping, pc, cur, cls, storeVars>> /\ hb # "off"
    BY <1>2, Beat
  <2>2. LeaseHeld'
    BY <1>0, <2>1 DEF storeVars, LeaseHeld, IsLease
  <2>3. \A j \in Jobs : Doomed(j) => Doomed(j)'
    BY <2>1 DEF storeVars, Doomed, ForOperator
  <2>4. \/ UNCHANGED <<ctx, pend>>
        \/ /\ CurJob \in Jobs /\ Doomed(CurJob)
           /\ \/ ctx # "off" /\ UNCHANGED pend
              \/ UNCHANGED ctx /\ pend' = pend \cup {CurJob}
    BY <1>2, <2>1, Beat, Controls
  <2>5. PendOfStep
    BY <1>0, <2>1, <2>3, <2>4 DEF PendOfStep
  <2>. QED  BY <2>1, <2>2, <2>4, <2>5, BeatKept DEF CancelStep, storeVars
<1>3. CASE HeartbeatRenew
  <2>1. UNCHANGED <<up, stopping, pc, cur, cls, ctx, pend, job, runs>> /\ hb # "off"
    BY <1>3 DEF HeartbeatRenew, RenewLease, storeVars
  <2>2. lease' = lease \/ lease' = [lease EXCEPT !.live = TRUE]
    BY <1>3 DEF HeartbeatRenew, RenewLease, storeVars
  <2>3. LeaseHeld'
    <3>1. lease' = lease \/ lease' = [run |-> lease.run, live |-> TRUE, own |-> lease.own]
      BY <1>0, <2>2 DEF IsLease
    <3>. QED  BY <1>0, <2>1, <3>1 DEF LeaseHeld, IsLease
  <2>. QED  BY <1>0, <2>1, <2>3, BeatKept DEF CancelStep, PendOfStep
<1>. QED  BY <1>1, <1>2, <1>3 DEF NoFailingBeat, HeartbeatFails, LeaseExpires

-----------------------------------------------------------------------------
(* A run keeps its job and its kind.                                        *)
LEMMA CurKept ==
    ASSUME LedgerOK, [Next]_vars, pc # "idle", cur' = cur
    PROVE  cur \in DOMAIN runs /\ CurKind' = CurKind /\ CurJob' = CurJob /\ CurJob \in Jobs
<1>1. cur \in DOMAIN runs /\ runs[cur].job \in Jobs
  BY DEF LedgerOK, TablesOK, PlacesOK, RunsOK
<1>2. VerdictsKept
  BY EveryVerdictKept
<1>. QED  BY <1>1, <1>2 DEF VerdictsKept, SameRun, CurKind, CurJob

(* A step within a run that leaves the lease and the heartbeat alone.       *)
LEMMA CancelWithin ==
    ASSUME CancelInv, WorkerStep, pc \notin {"idle", "done"}, pc' \notin {"idle", "done"},
           UNCHANGED <<up, stopping, cur, hb, lease>>, pend' \subseteq pend, KindsOK'
    PROVE  CancelStep
BY DEF CancelInv, WorkerStep, hostVars, CancelStep, PendOfStep, LeaseHeld, IsLease, DoneOK

(* The run becomes the active one, and gets its heartbeat.                  *)
LEMMA CancelOfStart ==
    ASSUME LedgerOK, CancelInv, [Next]_vars, WorkerStep, Execute
    PROVE  CancelStep
<1>0. /\ pc = "claimed" /\ pc' = "capacity"
      /\ UNCHANGED <<up, stopping, cur, cls, ctx, pend, lease, call>>
  BY DEF Execute, At, Goto, storeVars, WorkerStep, hostVars
<1>1. KindsOK /\ LeaseHeld /\ CurKind' = CurKind
  BY <1>0, CurKept DEF CancelInv
<1>. QED  BY <1>0, <1>1 DEF CancelStep, PendOfStep, LeaseHeld, IsLease, DoneOK, KindsOK

(* The steps of the Worker up to the runtime call, and that call.           *)
LEMMA CancelOfCall ==
    ASSUME LedgerOK, CancelInv, [Next]_vars, WorkerStep,
           Capacity \/ NextTarget \/ Bind \/ EnterLock \/ WorkDone \/ WorkFails
    PROVE  CancelStep
<1>0. pc \notin {"idle", "done"} /\ UNCHANGED <<up, stopping, cur, hb, lease>> /\ pend' \subseteq pend
  BY DEF Capacity, NextTarget, Bind, EnterLock, WorkDone, WorkFails, At, storeVars
<1>1. KindsOK /\ CurKind' = CurKind
  BY <1>0, CurKept DEF CancelInv
<1>2. CASE Capacity
  <2>1. \/ pc' = "failing" /\ cls' = "retryable"
        \/ pc' \in {"bind", "setup", "lock"} /\ (pc' = "bind" => CurKind = "prepare")
           /\ (pc' = "setup" => CurKind = "tracking")
    BY <1>2 DEF Capacity, Raise, Goto
  <2>2. ctx' = ctx /\ pc = "capacity"
    BY <1>2 DEF Capacity, At
  <2>3. KindsOK' /\ pc' \notin {"idle", "done"}
    BY <1>1, <2>1, <2>2 DEF KindsOK, ReviewRuns
  <2>. QED  BY <1>0, <2>3, CancelWithin
<1>3. CASE NextTarget
  <2>1. ctx' = ctx /\ pc = "next" /\ pc' \in {"bind", "closing", "failing"}
    BY <1>3 DEF NextTarget, At, Raise, Goto
  <2>2. KindsOK' /\ pc' \notin {"idle", "done"}
    BY <1>1, <2>1 DEF KindsOK, ReviewRuns
  <2>. QED  BY <1>0, <2>2, CancelWithin
<1>4. CASE Bind
  <2>1. pc = "bind" /\ ((pc' = "failing" /\ ctx' = ctx) \/ pc' = "lock")
    BY <1>4 DEF Bind, At, Raise, Goto
  <2>2. KindsOK' /\ pc' \notin {"idle", "done"}
    BY <1>1, <2>1 DEF KindsOK
  <2>. QED  BY <1>0, <2>2, CancelWithin
<1>5. CASE EnterLock
  <2>1. \/ pc = "lock" /\ pc' = "work" /\ ctx' = ctx
        \/ pc = "fence" /\ pc' = "locked" /\ ctx' = ctx
        \/ pc' = "failing" /\ cls' = "final" /\ ctx' = "off"
    BY <1>5 DEF EnterLock, At, Raise, Goto
  <2>2. KindsOK' /\ pc' \notin {"idle", "done"}
    BY <1>1, <2>1 DEF KindsOK
  <2>. QED  BY <1>0, <2>2, CancelWithin
<1>6. CASE WorkDone
  <2>1. ctx' = "off" /\ pc' = AfterWork
    BY <1>6 DEF WorkDone, Goto
  <2>2. pc' \in {"record", "fence", "closing"} /\ (pc' = "record" => CurKind = "tracking")
        /\ (pc' = "fence" => CurKind = "postprocessing")
    BY <2>1 DEF AfterWork
  <2>3. KindsOK' /\ pc' \notin {"idle", "done"}
    BY <1>1, <2>1, <2>2 DEF KindsOK
  <2>. QED  BY <1>0, <2>3, CancelWithin
<1>7. CASE WorkFails
  <2>1. ctx' = "off" /\ pc' = "failing" /\ (CurKind \notin ReviewRuns \/ cls' \in {"retryable", "final"})
    <3>1. ctx' = "off" /\ pc = "work"
      BY <1>7 DEF WorkFails, At
    <3>2. CASE CommandKilled \/ CommandSurvives
      BY <1>1, <3>1, <3>2 DEF CommandKilled, CommandSurvives, Raise, KindsOK
    <3>3. CASE OutputConflict \/ PrepareRaises \/ TrackRaises \/ ProcessingRaises \/ FixRaises
      BY <3>1, <3>3
         DEF OutputConflict, PrepareRaises, TrackRaises, ProcessingRaises, FixRaises, Raise, ReviewRuns
    <3>. QED  BY <1>7, <3>2, <3>3 DEF WorkFails
  <2>2. KindsOK' /\ pc' \notin {"idle", "done"}
    BY <1>1, <2>1 DEF KindsOK
  <2>. QED  BY <1>0, <2>2, CancelWithin
<1>. QED  BY <1>2, <1>3, <1>4, <1>5, <1>6, <1>7

(* The steps that write to the ledger and stay in the run.                  *)
LEMMA CancelOfRecord ==
    ASSUME LedgerOK, CancelInv, [Next]_vars, WorkerStep,
           SetupTracking \/ Record \/ Fence \/ Publish \/ Failing
    PROVE  CancelStep
<1>0. pc \notin {"idle", "done"} /\ UNCHANGED <<up, stopping, cur, hb, pend, ctx>>
  BY DEF SetupTracking, Record, Fence, Publish, Failing, At
<1>1. KindsOK /\ CurKind' = CurKind
  BY <1>0, CurKept DEF CancelInv
<1>2. lease' = lease
  BY DEF SetupTracking, Record, Fence, Publish, Failing, StartStep, RecordCheckpoint, BeginPublication, FinishStep,
         FailActiveStep, storeVars
<1>3. CASE SetupTracking
  <2>1. pc = "setup" /\ (pc' = "next" \/ pc' = "failing")
    BY <1>3 DEF SetupTracking, At, Raise, Goto
  <2>2. KindsOK' /\ pc' \notin {"idle", "done"}
    BY <1>0, <1>1, <2>1 DEF KindsOK, ReviewRuns
  <2>. QED  BY <1>0, <1>2, <2>2, CancelWithin
<1>4. CASE Record
  <2>1. pc = "record" /\ (pc' = "next" \/ pc' = "failing")
    BY <1>4 DEF Record, At, Raise, Goto
  <2>2. KindsOK' /\ pc' \notin {"idle", "done"}
    BY <1>0, <1>1, <2>1 DEF KindsOK, ReviewRuns
  <2>. QED  BY <1>0, <1>2, <2>2, CancelWithin
<1>5. CASE Fence
  <2>1. pc = "locked" /\ (pc' = "publish" \/ pc' = "failing")
    BY <1>5 DEF Fence, At, Raise, Goto
  <2>2. KindsOK' /\ pc' \notin {"idle", "done"}
    BY <1>0, <1>1, <2>1 DEF KindsOK, ReviewRuns
  <2>. QED  BY <1>0, <1>2, <2>2, CancelWithin
<1>6. CASE Publish
  <2>1. pc = "publish" /\ (pc' = "closing" \/ (pc' = "failing" /\ cls' = "retryable"))
    BY <1>6 DEF Publish, At, Raise, Goto
  <2>2. KindsOK' /\ pc' \notin {"idle", "done"}
    BY <1>0, <1>1, <2>1 DEF KindsOK
  <2>. QED  BY <1>0, <1>2, <2>2, CancelWithin
<1>7. CASE Failing
  <2>1. pc = "failing" /\ pc' = "settle" /\ cls' = cls
    BY <1>7 DEF Failing, At, Goto
  <2>2. KindsOK' /\ pc' \notin {"idle", "done"}
    BY <1>0, <1>1, <2>1 DEF KindsOK
  <2>. QED  BY <1>0, <1>2, <2>2, CancelWithin
<1>. QED  BY <1>3, <1>4, <1>5, <1>6, <1>7

-----------------------------------------------------------------------------
(* The end of a run: the lease is free, and the run stands as it ended.     *)
LEMMA LeaseLeft ==
    ASSUME IsLease(lease), NEW r, lease' = lease \/ lease' = WithoutLease(r)
    PROVE  IsLease(lease')
BY DEF WithoutLease, NoLease, IsLease

(* The Worker has left the run.                                             *)
LEMMA CancelLeaves ==
    ASSUME CancelInv, WorkerStep, pc \notin {"idle", "done"}, pc' = "done",
           UNCHANGED <<up, stopping, ctx, pend>>, ctx = "off", IsLease(lease'), DoneOK'
    PROVE  CancelStep
BY DEF CancelInv, WorkerStep, hostVars, CancelStep, PendOfStep, LeaseHeld, KindsOK

(* A run that succeeds or is cancelled has no verdict.                      *)
LEMMA FinishedDone ==
    ASSUME LedgerOK, CancelInv, Running(cur), FinishRun(cur, "succeeded") \/ FinishRun(cur, "cancelled"),
           cur' = cur
    PROVE  DoneOK' /\ IsLease(lease')
<1>0. RunsOK /\ cur \in DOMAIN runs /\ runs[cur].fail = "none" /\ IsLease(lease)
  BY DEF LedgerOK, TablesOK, Running, CancelInv, FreshRuns, Active, LeaseHeld
<1>1. runs'[cur].st \in {"succeeded", "cancelled"} /\ runs'[cur].fail = "none"
  BY <1>0, RunStatusWritten DEF FinishRun
<1>2. IsLease(lease')
  BY <1>0, LeaseLeft DEF FinishRun
<1>. QED  BY <1>1, <1>2 DEF DoneOK, Running

(* A failed run dooms its job if it needs an operator.                      *)
LEMMA FailedDone ==
    ASSUME LedgerOK, CancelInv, [Next]_vars, pc # "idle", Running(cur), NEW f, FailRun(cur, f), cur' = cur,
           f = "recovery_required" => CurKind \notin ReviewRuns
    PROVE  DoneOK' /\ IsLease(lease')
<1>0. JobsOK /\ RunsOK /\ cur \in DOMAIN runs /\ runs[cur].fail = "none" /\ IsLease(lease)
  BY DEF LedgerOK, TablesOK, Running, CancelInv, FreshRuns, Active, LeaseHeld
<1>1. CurJob' = CurJob
  BY CurKept
<1>2. IsLease(lease')
  BY <1>0, LeaseLeft DEF FailRun, storeVars
<1>3. CASE RunCancelled(cur)
  <2>1. runs'[cur].st = "cancelled" /\ runs'[cur].fail = "none"
    BY <1>0, <1>3 DEF RunCancelled, RunEnded
  <2>. QED  BY <1>2, <2>1 DEF DoneOK, Running
<1>4. CASE runs[cur].kind \in ReviewRuns /\ RunEnded(cur, "failed") /\ runs'[cur].fail = f
  BY <1>2, <1>4 DEF RunEnded, DoneOK, Running, CurKind
<1>5. CASE StageFailed(cur, f)
  <2>1. runs'[cur].st = "failed" /\ runs'[cur].fail = f
    BY <1>5 DEF StageFailed, RunEnded
  <2>2. f = "recovery_required" => \E j : j = CurJob /\ Doomed(j)'
    BY <1>5 DEF StageFailed, Doomed, ForOperator, CurJob
  <2>3. f = "recovery_required" => Doomed(CurJob)'
    BY <1>1, <2>2
  <2>. QED  BY <1>2, <2>1, <2>3 DEF DoneOK, Running
<1>. QED  BY <1>0, <1>3, <1>4, <1>5, FailRunCore

(* The steps that settle a run.                                             *)
LEMMA CancelOfEnd ==
    ASSUME LedgerOK, CancelInv, [Next]_vars, WorkerStep, Closing \/ PrepareRejected \/ Settle \/ Fail
    PROVE  CancelStep
<1>0. /\ pc \in {"closing", "settle", "fail"} /\ UNCHANGED <<up, stopping, cur, cls, hb, pend, ctx>>
  BY DEF Closing, PrepareRejected, Settle, Fail, At
<1>1. KindsOK /\ CurKind' = CurKind /\ Running(cur) /\ ctx = "off" /\ IsLease(lease)
  BY <1>0, CurKept, PlaceOfRun DEF CancelInv, KindsOK, LeaseHeld
<1>2. ASSUME pc' = "done", DoneOK' /\ IsLease(lease')
      PROVE  CancelStep
  BY <1>0, <1>1, <1>2, CancelLeaves
<1>3. CASE Closing
  <2>1. CASE FinishStep(cur, TRUE) /\ pc' = "closing"
    <3>1. lease' = lease /\ KindsOK'
      BY <1>0, <1>1, <2>1 DEF FinishStep, KindsOK
    <3>. QED  BY <1>0, <2>1, <3>1, CancelWithin
  <2>2. CASE CompletionOf(cur) /\ pc' = "done"
    <3>1. FinishRun(cur, "succeeded")
      BY <2>2
         DEF CompletionOf, CompletePrepare, CompleteTracking, CompletePostprocessing, CompleteFixRun,
             CompletePublication
    <3>. QED  BY <1>0, <1>1, <1>2, <2>2, <3>1, FinishedDone
  <2>3. CASE CompleteAsCancelled(cur) /\ pc' = "done"
    BY <1>0, <1>1, <1>2, <2>3, FinishedDone DEF CompleteAsCancelled
  <2>. QED  BY <1>3, <2>1, <2>2, <2>3 DEF Closing, Goto
<1>4. CASE PrepareRejected
  <2>1. FailRun(cur, "final") /\ pc' = "done"
    BY <1>4 DEF PrepareRejected, Goto
  <2>. QED  BY <1>0, <1>1, <1>2, <2>1, FailedDone
<1>5. CASE Settle
  <2>1. pc = "settle"
    BY <1>5 DEF Settle, At
  <2>2. CASE CompleteCancelledRun(cur) /\ pc' = "done"
    BY <1>0, <1>1, <1>2, <2>2, FinishedDone DEF CompleteCancelledRun, CompleteAsCancelled, Running
  <2>3. CASE pc' = "fail" /\ UNCHANGED storeVars
    <3>1. lease' = lease /\ KindsOK'
      BY <1>0, <1>1, <2>1, <2>3 DEF storeVars, KindsOK
    <3>. QED  BY <1>0, <2>3, <3>1, CancelWithin
  <2>. QED  BY <1>5, <2>2, <2>3 DEF Settle, Goto
<1>6. CASE Fail
  <2>. DEFINE f == IF cls = "cancelled" THEN InterruptedAs ELSE cls
  <2>1. FailRun(cur, f) /\ pc' = "done" /\ pc = "fail"
    BY <1>6 DEF Fail, Goto, At
  <2>2. f = "recovery_required" => CurKind \notin ReviewRuns
    BY <1>1, <2>1 DEF KindsOK
  <2>. HIDE DEF f
  <2>. QED  BY <1>0, <1>1, <1>2, <2>1, <2>2, FailedDone
<1>. QED  BY <1>3, <1>4, <1>5, <1>6

(* Interrupted runs, a claim, the finally block.                            *)
LEMMA CancelOfLoop ==
    ASSUME LedgerOK, CancelInv, WorkerStep, Recover \/ Claim \/ Finished
    PROVE  CancelStep
<1>0. /\ UNCHANGED <<up, call, stopping, ctx, pend>> /\ IsLease(lease) /\ KindsOK /\ LeaseHeld
      /\ pc \in {"idle", "done"}
  BY DEF Recover, Claim, Finished, At, WorkerStep, hostVars, workerVars, CancelInv, LeaseHeld
<1>1. PendOfStep /\ ctx = "off"
  BY <1>0 DEF PendOfStep, KindsOK
<1>2. CASE Recover
  <2>1. PICK r : FailRun(r, "recovery_required")
    BY <1>2 DEF Recover, RecoverInterrupted
  <2>2. IsLease(lease')
    BY <1>0, <2>1, LeaseLeft DEF FailRun, storeVars
  <2>3. pc' = "idle" /\ hb' = hb /\ pc = "idle"
    BY <1>2 DEF Recover, At, workerVars
  <2>. QED  BY <1>0, <1>1, <2>2, <2>3 DEF CancelStep, LeaseHeld, DoneOK, KindsOK
<1>3. CASE Claim
  <2>1. PICK r \in DOMAIN runs : ClaimNextRun(r) /\ cur' = r
    BY <1>3 DEF Claim
  <2>2. lease' = [run |-> r, live |-> TRUE, own |-> TRUE] /\ cur' = r /\ pc' = "claimed" /\ hb' = hb
    BY <1>3, <2>1 DEF ClaimNextRun, Claim, Goto
  <2>. QED  BY <1>0, <1>1, <2>2 DEF CancelStep, LeaseHeld, IsLease, DoneOK, KindsOK
<1>4. CASE Finished
  <2>1. lease' = lease /\ pc' = "idle" /\ hb' = "off"
    BY <1>4 DEF Finished, storeVars, Goto
  <2>. QED  BY <1>0, <1>1, <2>1 DEF CancelStep, LeaseHeld, IsLease, DoneOK, KindsOK
<1>. QED  BY <1>2, <1>3, <1>4

-----------------------------------------------------------------------------
(* No request starts a run or gives it a verdict.                           *)
LEMMA LeftRunStays ==
    ASSUME RunsOK, RequestCore, NEW r \in DOMAIN runs, ~Running(r)
    PROVE  ~Running(r)' /\ runs'[r].fail = runs[r].fail
<1>1. CASE runs' = runs
  BY <1>1 DEF Running
<1>2. ASSUME NEW j, NEW kind, RunQueued(j, kind)
      PROVE  ~Running(r)' /\ runs'[r].fail = runs[r].fail
  BY <1>2, RunsGrow DEF RunQueued, Running
<1>3. ASSUME NEW j, QueuedCancelled(j)
      PROVE  ~Running(r)' /\ runs'[r].fail = runs[r].fail
  BY <1>3 DEF QueuedCancelled, Running
<1>. QED  BY <1>1, <1>2, <1>3 DEF RequestCore, CancelAsked, CancelDone, StageEntered

(* Every step.                                                              *)
LEMMA CancelKept ==
    ASSUME LedgerOK, StageInv, CancelInv, NoFailingBeat, [Next]_vars
    PROVE  CancelInv'
<1>0. CancelsOK /\ FreshRuns /\ RequestsOK /\ NothingDown /\ LeaseHeld /\ DoneOK /\ KindsOK
  BY DEF CancelInv
<1>1. CancelsOK' /\ FreshRuns' /\ (up => \A j \in Jobs : Doomed(j) => Doomed(j)')
  BY <1>0, DoomedStays, FreshKept
<1>2. CASE WorkerStep
  <2>1. CancelStep
    BY <1>2, CancelOfBeat, CancelOfStart, CancelOfCall, CancelOfRecord, CancelOfEnd, CancelOfLoop DEF WorkerStep
  <2>2. up
    BY <1>0, <1>2
       DEF NothingDown, NoFailingBeat, WorkerStep, Stop, HeartbeatCheck, HeartbeatRenew, HeartbeatRecheck,
           HeartbeatFails, LeaseExpires, Recover, Claim, Execute, Capacity, SetupTracking, NextTarget, Bind, EnterLock,
           WorkDone, WorkFails, Record, Fence, Publish, Closing, PrepareRejected, Failing, Settle, Fail, Finished, At
  <2>3. RequestsOK'
    BY <1>0, <1>1, <2>1, <2>2 DEF CancelStep, PendOfStep, RequestsOK
  <2>4. NothingDown'
    BY <2>1, <2>2 DEF CancelStep, PendOfStep, NothingDown
  <2>. QED  BY <1>1, <2>1, <2>3, <2>4 DEF CancelStep, CancelInv
<1>3. CASE ~WorkerStep
  <2>1. CASE ServiceGone
    <3>1. RequestsOK' /\ NothingDown'
      BY <2>1 DEF ServiceGone, RequestsOK, NothingDown
    <3>2. LeaseHeld' /\ DoneOK' /\ KindsOK'
      BY <2>1 DEF ServiceGone, LeaseHeld, IsLease, DoneOK, KindsOK
    <3>. QED  BY <1>1, <3>1, <3>2 DEF CancelInv
  <2>2. CASE CallsStep
    <3>1. LeaseHeld'
      BY <1>0, <2>2 DEF CallsStep, LeaseHeld, IsLease
    <3>2. NothingDown'
      BY <1>0, <2>2 DEF CallsStep, NothingDown
    <3>3. RequestsOK'
      BY <1>0, <1>1, <2>2 DEF CallsStep, RequestsOK, NothingDown
    <3>4. CASE pc = "idle"
      <4>1. ctx' = "off"
        BY <1>0, <2>2, <3>4 DEF CallsStep, KindsOK
      <4>. QED  BY <1>1, <2>2, <3>1, <3>2, <3>3, <3>4, <4>1 DEF CallsStep, CancelInv, DoneOK, KindsOK
    <3>5. CASE pc # "idle"
      <4>1. pc' = pc /\ cur' = cur /\ cls' = cls
        BY <2>2 DEF CallsStep
      <4>2. cur \in DOMAIN runs /\ CurKind' = CurKind /\ CurJob' = CurJob /\ CurJob \in Jobs
        BY <3>5, <4>1, CurKept
      <4>3. KindsOK'
        BY <1>0, <2>2, <4>2 DEF CallsStep, KindsOK
      <4>4. DoneOK'
        <5>1. RunsOK /\ RequestCore
          BY <1>3, OutsideStep, OutsideCore DEF LedgerOK, TablesOK
        <5>2. ~Running(cur) => ~Running(cur)' /\ runs'[cur].fail = runs[cur].fail
          <6>1. ~Running(cur) => ~(\E r : r = cur /\ Running(r)') /\ runs'[cur].fail = runs[cur].fail
            BY <4>2, <5>1, LeftRunStays
          <6>. QED  BY <4>1, <6>1 DEF Running
        <5>3. up
          BY <1>0, <3>5 DEF NothingDown
        <5>4. Doomed(CurJob) => Doomed(CurJob)'
          <6>1. Doomed(CurJob) => \E j : j = CurJob /\ Doomed(j)'
            BY <1>1, <4>2, <5>3
          <6>. QED  BY <4>2, <6>1
        <5>. QED  BY <1>0, <4>1, <4>2, <5>2, <5>4 DEF DoneOK
      <4>. QED  BY <1>1, <3>1, <3>2, <3>3, <4>3, <4>4 DEF CancelInv
    <3>. QED  BY <3>4, <3>5
  <2>. QED  BY <1>3, <2>1, <2>2, OutsideCalls
<1>. QED  BY <1>2, <1>3

(* Initially.                                                               *)
LEMMA CancelInitially == Init => CancelInv
BY DEF Init, StoreInit, WorkerInit, NoLease, CancelInv, CancelsOK, FreshRuns, RequestsOK, NothingDown, LeaseHeld,
       IsLease, DoneOK, KindsOK

(* A cancellation that waits for the next runtime call waits for a job that *)
(* was cancelled or needs an operator, and cannot hit an innocent run of a  *)
(* job that was retried - whatever the order of the commit, the question to *)
(* the Worker, the answer, the heartbeat and the end of the run - as long   *)
(* as no heartbeat fails and no lease runs out (worker.py request_cancel,   *)
(* runtime.py NavigationAnnotationRuntimeDriver._pending_cancellations).    *)
THEOREM CancellationsStayWithJob ==
    ASSUME {"heartbeat", "stall"} \cap Faults = {}
    PROVE  Spec => []NoStaleCancellation
<1>. DEFINE Inv == LedgerOK /\ StageInv /\ CancelInv
<1>1. Init => Inv
  BY LedgerInitially, StagesInitially, CancelInitially
<1>2. Inv /\ [Next]_vars => Inv'
  BY LedgerKept, StagesKept, CancelKept DEF NoFailingBeat
<1>3. Inv => NoStaleCancellation
  BY DEF CancelInv, RequestsOK, Doomed, ForOperator, NoStaleCancellation
<1>. QED  BY <1>1, <1>2, <1>3, PTL DEF Spec
=============================================================================
