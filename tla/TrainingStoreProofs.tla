------------------------ MODULE TrainingStoreProofs ------------------------
(***************************************************************************)
(* Lemmas about the run tables of TrainingStore that the proofs for the    *)
(* real and the simulated training share: what the row updates return, and *)
(* how a transaction that keeps the leases, ends runs or creates a run     *)
(* shows in the abstract lease ledger.                                     *)
(***************************************************************************)
EXTENDS TrainingStore, TLAPS

StageRows(r) == [StagesOf(r) -> StageStatus]

(* The row updates keep the type of the action table and of the stages.     *)

(* Setting the status of any rows of the action table keeps its type.       *)
LEMMA SetStatusType ==
    ASSUME NEW acts \in Seq(Action), NEW ids, NEW st \in ActionStatus
    PROVE  /\ SetStatus(acts, ids, st) \in Seq(Action)
           /\ DOMAIN SetStatus(acts, ids, st) = DOMAIN acts
<1> DEFINE new(i) == IF i \in ids THEN [acts[i] EXCEPT !.status = st] ELSE acts[i]
<1>1. DOMAIN acts = 1 .. Len(acts) /\ Len(acts) \in Nat
  OBVIOUS
<1>2. ASSUME NEW i \in DOMAIN acts PROVE new(i) \in Action
  <2>1. acts[i] \in Action
    OBVIOUS
  <2> QED BY <2>1 DEF Action
<1>3. [i \in 1 .. Len(acts) |-> new(i)] \in Seq(Action)
  <2> HIDE DEF new
  <2> QED BY <1>1, <1>2
<1> QED BY <1>1, <1>3 DEF SetStatus

(* _queue_training_action_in keeps the type of the action table.            *)
LEMMA QueueActionType ==
    ASSUME NEW acts \in Seq(Action), NEW r \in Runs, NEW kind \in {"start", "stop"},
           NEW n \in Nat
    PROVE  QueueAction(acts, r, kind, n) \in Seq(Action)
<1>1. [run |-> r, kind |-> kind, stage |-> n, status |-> "queued", claim |-> 0] \in Action
  BY DEF Action, ActionStatus
<1> QED BY <1>1 DEF QueueAction

(* _finish_in leaves every stage a status of its type, and none pending     *)
(* when the run did not succeed.                                            *)
LEMMA ClosedStagesType ==
    ASSUME NEW r \in Runs, NEW ss \in StageRows(r), NEW st \in Terminal
    PROVE  /\ ClosedStages(ss, st) \in StageRows(r)
           /\ st # "succeeded" \/ NoPending(ss) => NoPending(ClosedStages(ss, st))
<1>1. ClosedStages(ss, st) \in StageRows(r)
  BY DEF ClosedStages, StageRows, StageStatus, Terminal
<1>2. ASSUME st # "succeeded" PROVE NoPending(ClosedStages(ss, st))
  BY <1>2 DEF ClosedStages, StageRows, Terminal, NoPending
<1>3. ASSUME st = "succeeded", NoPending(ss) PROVE NoPending(ClosedStages(ss, st))
  BY <1>3 DEF ClosedStages, StageRows, NoPending
<1> QED BY <1>1, <1>2, <1>3

-----------------------------------------------------------------------------
(* The three things a transaction may do to the leases.                     *)

KeepsLeases ==
    /\ gpuLease' = gpuLease /\ portLease' = portLease
    /\ \A r \in Runs : status[r] = "absent" <=> status'[r] = "absent"

EndsRuns(rs) ==
    /\ gpuLease' = [g \in Gpus |-> IF gpuLease[g] \in rs THEN None ELSE gpuLease[g]]
    /\ portLease' = [p \in Ports |-> IF portLease[p] \in rs THEN None ELSE portLease[p]]
    /\ \A r \in rs : status[r] # "absent"
    /\ \A r \in Runs : status[r] = "absent" <=> status'[r] = "absent"

CreatesRun(r, gs) ==
    /\ gs # {}
    /\ LeaseGpus(r, gs)
    /\ \E wantsPort \in BOOLEAN : LeasePort(r, wantsPort)
    /\ status[r] = "absent" /\ status'[r] # "absent"
    /\ \A q \in Runs \ {r} : status'[q] = status[q]

LeaseMove ==
    \/ KeepsLeases
    \/ \E rs \in SUBSET Runs : EndsRuns(rs)
    \/ \E r \in Runs, gs \in SUBSET Gpus : CreatesRun(r, gs)

LeaseTypes ==
    /\ gpuLease \in [Gpus -> Runs \cup {None}]
    /\ portLease \in [Ports -> Runs \cup {None}]

(* A run with a port has a GPU too: create_run asks for at least one.       *)
PortNeedsGpu ==
    \A p \in Ports : portLease[p] # None => \E g \in Gpus : gpuLease[g] = portLease[p]

(* create_run is a grant of free GPUs, with at most one free port.          *)
LEMMA CreateGrants ==
    ASSUME LeaseTypes, NEW r \in Runs, NEW gs \in SUBSET Gpus, CreatesRun(r, gs)
    PROVE  Ledger!Next
<1>0. /\ gpuLease \in [Gpus -> Runs \cup {None}]
      /\ portLease \in [Ports -> Runs \cup {None}]
  BY DEF LeaseTypes
<1>1. gs # {} /\ \A g \in gs : gpuLease[g] = None
  BY DEF CreatesRun, LeaseGpus
<1>2. gpuLease' = [g \in Gpus |-> IF g \in gs THEN r ELSE gpuLease[g]]
  BY DEF CreatesRun, LeaseGpus
<1>3. PICK ps \in SUBSET Ports :
        /\ \A p \in ps : portLease[p] = None
        /\ portLease' = [p \in Ports |-> IF p \in ps THEN r ELSE portLease[p]]
  <2>1. CASE portLease' = portLease
    <3>1. portLease' = [p \in Ports |-> IF p \in {} THEN r ELSE portLease[p]]
      BY <1>0, <2>1
    <3>2. {} \in SUBSET Ports /\ \A p \in {} : portLease[p] = None
      OBVIOUS
    <3> QED BY <3>1, <3>2, Zenon
  <2>2. CASE \E p \in Ports : FirstFreePort(p) /\ portLease' = [portLease EXCEPT ![p] = r]
    <3>1. PICK p \in Ports : FirstFreePort(p) /\ portLease' = [portLease EXCEPT ![p] = r]
      BY <2>2
    <3>2. portLease' = [q \in Ports |-> IF q \in {p} THEN r ELSE portLease[q]]
      BY <1>0, <3>1
    <3>3. portLease[p] = None
      BY <3>1 DEF FirstFreePort
    <3> QED BY <3>2, <3>3
  <2> QED BY <2>1, <2>2 DEF CreatesRun, LeasePort
<1>4. LeasePhase[r] = "new"
  BY DEF CreatesRun, LeasePhase
<1>5. LeasePhase'[r] = "holding"
  BY <1>1, <1>2 DEF CreatesRun, LeasePhase
<1>6. ASSUME NEW q \in Runs \ {r} PROVE LeasePhase'[q] = LeasePhase[q]
  <2>1. (\E g \in Gpus : gpuLease'[g] = q) <=> (\E g \in Gpus : gpuLease[g] = q)
    BY <1>0, <1>1, <1>2, NoneAssumption
  <2>2. status'[q] = status[q]
    BY DEF CreatesRun
  <2> QED BY <2>1, <2>2 DEF LeasePhase
<1>7. LeasePhase' = [LeasePhase EXCEPT ![r] = "holding"]
  <2>1. \A q \in Runs : LeasePhase'[q] = [LeasePhase EXCEPT ![r] = "holding"][q]
    BY <1>5, <1>6 DEF LeasePhase
  <2>2. LeasePhase' = [q \in Runs |-> LeasePhase'[q]]
    BY DEF LeasePhase
  <2>3. [LeasePhase EXCEPT ![r] = "holding"]
          = [q \in Runs |-> [LeasePhase EXCEPT ![r] = "holding"][q]]
    BY DEF LeasePhase
  <2> HIDE DEF LeasePhase
  <2> QED BY <2>1, <2>2, <2>3
<1>8. Ledger!Grant(r, gs, ps)
  BY <1>1, <1>2, <1>3, <1>4, <1>7 DEF Ledger!Grant
<1>9. gs \in (SUBSET Gpus) \ {{}}
  BY <1>1, Zenon
<1> QED BY <1>8, <1>9, Zenon DEF Ledger!Next

(* _finish_in, for one run or for all stale ones, is a release by the runs  *)
(* that still hold something; for a run that gave its leases back before (a *)
(* late or repeated exit) it changes nothing.                               *)
LEMMA EndReleases ==
    ASSUME LeaseTypes, PortNeedsGpu, NEW rs \in SUBSET Runs, EndsRuns(rs)
    PROVE  Ledger!Next
<1> DEFINE hs == {r \in rs : \E g \in Gpus : gpuLease[g] = r}
<1>1. \A r \in hs : LeasePhase[r] = "holding"
  BY DEF EndsRuns, LeasePhase
<1>2. gpuLease' = [g \in Gpus |-> IF gpuLease[g] \in hs THEN None ELSE gpuLease[g]]
  BY DEF EndsRuns
<1>3. portLease' = [p \in Ports |-> IF portLease[p] \in hs THEN None ELSE portLease[p]]
  BY NoneAssumption DEF EndsRuns, PortNeedsGpu
<1>4. ASSUME NEW q \in Runs
      PROVE  LeasePhase'[q] = IF q \in hs THEN "done" ELSE LeasePhase[q]
  <2>1. status'[q] = "absent" <=> status[q] = "absent"
    BY DEF EndsRuns
  <2>2. q \in rs => status[q] # "absent"
    BY DEF EndsRuns
  <2>3. (\E g \in Gpus : gpuLease'[g] = q) <=> q \notin rs /\ \E g \in Gpus : gpuLease[g] = q
    BY NoneAssumption DEF EndsRuns
  <2>4. LeasePhase[q] = IF status[q] = "absent" THEN "new"
                        ELSE IF \E g \in Gpus : gpuLease[g] = q THEN "holding" ELSE "done"
    BY DEF LeasePhase
  <2>5. LeasePhase'[q] = IF status'[q] = "absent" THEN "new"
                         ELSE IF \E g \in Gpus : gpuLease'[g] = q THEN "holding" ELSE "done"
    BY DEF LeasePhase
  <2> QED BY <2>1, <2>2, <2>3, <2>4, <2>5
<1>5. LeasePhase' = [q \in Runs |-> IF q \in hs THEN "done" ELSE LeasePhase[q]]
  <2>1. LeasePhase' = [q \in Runs |-> LeasePhase'[q]]
    BY DEF LeasePhase
  <2> HIDE DEF LeasePhase
  <2> QED BY <1>4, <2>1
<1>6. hs \in SUBSET Runs
  OBVIOUS
<1> HIDE DEF hs
<1>7. Ledger!Release(hs)
  BY <1>1, <1>2, <1>3, <1>5 DEF Ledger!Release
<1> QED BY <1>6, <1>7 DEF Ledger!Next

(* A lease move is a step of the ledger or leaves it alone.                 *)
LEMMA MoveRefines ==
    ASSUME LeaseTypes, PortNeedsGpu, LeaseMove
    PROVE  [Ledger!Next]_(Ledger!ledgerVars)
<1>1. CASE KeepsLeases
  <2>1. LeasePhase' = LeasePhase
    BY <1>1 DEF KeepsLeases, LeasePhase
  <2> QED BY <1>1, <2>1 DEF KeepsLeases, Ledger!ledgerVars
<1>2. CASE \E rs \in SUBSET Runs : EndsRuns(rs)
  BY <1>2, EndReleases
<1>3. CASE \E r \in Runs, gs \in SUBSET Gpus : CreatesRun(r, gs)
  BY <1>3, CreateGrants
<1> QED BY <1>1, <1>2, <1>3 DEF LeaseMove

(* A lease move keeps PortNeedsGpu, and no run becomes absent again.        *)
LEMMA MoveKeepsPorts ==
    ASSUME LeaseTypes, PortNeedsGpu, LeaseMove
    PROVE  /\ PortNeedsGpu'
           /\ \A r \in Runs : status[r] # "absent" => status'[r] # "absent"
<1>1. \A r \in Runs : status[r] # "absent" => status'[r] # "absent"
  BY DEF LeaseMove, KeepsLeases, EndsRuns, CreatesRun
<1>2. ASSUME NEW p \in Ports, portLease'[p] # None
      PROVE  \E g \in Gpus : gpuLease'[g] = portLease'[p]
  <2>1. CASE KeepsLeases
    BY <1>2, <2>1 DEF KeepsLeases, PortNeedsGpu
  <2>2. ASSUME NEW rs \in SUBSET Runs, EndsRuns(rs)
        PROVE  \E g \in Gpus : gpuLease'[g] = portLease'[p]
    <3>1. portLease'[p] = portLease[p] /\ portLease[p] \notin rs /\ portLease[p] # None
      BY <1>2, <2>2 DEF EndsRuns
    <3>2. PICK g \in Gpus : gpuLease[g] = portLease[p]
      BY <3>1 DEF PortNeedsGpu
    <3>3. gpuLease'[g] = gpuLease[g]
      BY <2>2, <3>1, <3>2 DEF EndsRuns
    <3> QED BY <3>1, <3>2, <3>3
  <2>3. ASSUME NEW r \in Runs, NEW gs \in SUBSET Gpus, CreatesRun(r, gs)
        PROVE  \E g \in Gpus : gpuLease'[g] = portLease'[p]
    <3>1. \A g \in Gpus : gpuLease'[g] = IF g \in gs THEN r ELSE gpuLease[g]
      BY <2>3 DEF CreatesRun, LeaseGpus
    <3>2. portLease'[p] = portLease[p] \/ portLease'[p] = r
      BY <2>3 DEF CreatesRun, LeasePort, LeaseTypes
    <3>3. CASE portLease'[p] = r
      BY <2>3, <3>1, <3>3 DEF CreatesRun
    <3>4. CASE portLease'[p] = portLease[p]
      <4>1. PICK g \in Gpus : gpuLease[g] = portLease[p]
        BY <1>2, <3>4 DEF PortNeedsGpu
      <4>2. g \notin gs
        BY <1>2, <2>3, <3>4, <4>1 DEF CreatesRun, LeaseGpus
      <4> QED BY <3>1, <3>4, <4>1, <4>2
    <3> QED BY <3>2, <3>3, <3>4
  <2> QED BY <2>1, <2>2, <2>3 DEF LeaseMove
<1> QED BY <1>1, <1>2 DEF PortNeedsGpu
=============================================================================
