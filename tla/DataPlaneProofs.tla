-------------------------- MODULE DataPlaneProofs --------------------------
(***************************************************************************)
(* Four safety properties of the data plane, proved for any nodes,         *)
(* releases and bounds, with every fault the model knows:                  *)
(*                                                                         *)
(*   - a disabled node holds no credential and no enrolment token;         *)
(*   - a model configuration is verified only if a Worker found that very  *)
(*     revision good;                                                      *)
(*   - a node is given one dataset transfer at a time;                     *)
(*   - a replica on offer is a whole directory on the machine, unless a    *)
(*     removal of its release was handed to the Worker.                    *)
(*                                                                         *)
(* The rows of a table are records, and the two tables that only grow are  *)
(* sequences; that much typing is part of each inductive invariant.        *)
(***************************************************************************)
EXTENDS DataPlane, SequenceFacts, FiniteSetTheorems, WellFoundedInduction

-----------------------------------------------------------------------------
(* The node table: every row is a row, and the property of the disabled     *)
(* ones.                                                                    *)
NodeRow ==
    [row: {"none", "live", "deleted"}, status: Statuses, deploy: Deployments, rev: Nat, token: Nat,
     key: BOOLEAN, installed: BOOLEAN, enrolled: BOOLEAN, snap: BOOLEAN, beat: BOOLEAN]

NodesInv ==
    /\ node \in [Nodes -> NodeRow]
    /\ enrol \in [Nodes -> Nat]
    /\ DisabledIsLockedOut

(* What a step does to one row: nothing, or a new row and a new token that  *)
(* leave nothing to a disabled node.                                        *)
RowStep ==
    \/ UNCHANGED <<node, enrol>>
    \/ \E n \in Nodes : \E r \in NodeRow, k \in Nat :
          /\ node' = [node EXCEPT ![n] = r]
          /\ enrol' = [enrol EXCEPT ![n] = k]
          /\ r.row = "live" /\ r.status = "disabled" => r.token = 0 /\ k = 0

(* The invariant is kept by every such step.                                *)
LEMMA RowStepKeeps ==
    ASSUME NodesInv, RowStep
    PROVE  NodesInv'
<1>1. CASE UNCHANGED <<node, enrol>>
  BY <1>1 DEF NodesInv, DisabledIsLockedOut, Live
<1>2. CASE ~UNCHANGED <<node, enrol>>
  <2>1. PICK n \in Nodes : \E r \in NodeRow, k \in Nat :
          /\ node' = [node EXCEPT ![n] = r]
          /\ enrol' = [enrol EXCEPT ![n] = k]
          /\ r.row = "live" /\ r.status = "disabled" => r.token = 0 /\ k = 0
    BY <1>2 DEF RowStep
  <2>2. PICK r \in NodeRow, k \in Nat :
          /\ node' = [node EXCEPT ![n] = r]
          /\ enrol' = [enrol EXCEPT ![n] = k]
          /\ r.row = "live" /\ r.status = "disabled" => r.token = 0 /\ k = 0
    BY <2>1
  <2>3. node' \in [Nodes -> NodeRow] /\ enrol' \in [Nodes -> Nat]
    BY <2>2 DEF NodesInv
  <2>4. ASSUME NEW m \in Nodes, Live(m)', node'[m].status = "disabled"
        PROVE  node'[m].token = 0 /\ enrol'[m] = 0
    BY <2>2, <2>4 DEF NodesInv, DisabledIsLockedOut, Live
  <2>5. DisabledIsLockedOut'
    BY <2>4 DEF DisabledIsLockedOut
  <2>. QED  BY <2>3, <2>5 DEF NodesInv
<1>. QED  BY <1>1, <1>2

(* A request that leaves row r and token k, and counts the revision.        *)
LEMMA BumpedRow ==
    ASSUME NEW n \in Nodes, NEW r \in NodeRow, NEW k \in Nat,
           Bump(n, r), enrol' = [enrol EXCEPT ![n] = k],
           r.row = "live" /\ r.status = "disabled" => r.token = 0 /\ k = 0
    PROVE  RowStep
<1>. DEFINE b == [r EXCEPT !.rev = @ + 1]
<1>1. b \in NodeRow /\ b.row = r.row /\ b.status = r.status /\ b.token = r.token
  BY DEF NodeRow
<1>2. node' = [node EXCEPT ![n] = b]
  BY DEF Bump
<1>. QED  BY <1>1, <1>2 DEF RowStep

(* What a user does to a row.                                               *)
LEMMA UserRowStep ==
    ASSUME NodesInv, NEW n \in Nodes,
           \/ CreateNode(n) \/ CreateToken(n) \/ BeginDeployment(n) \/ BeginRemoval(n)
           \/ \E s \in {None, "offline", "repair_required", "disabled"} : UpdateNode(n, s)
           \/ DeleteRow(n)
    PROVE  RowStep
<1>1. node[n] \in NodeRow /\ enrol[n] \in Nat /\ enrol = [enrol EXCEPT ![n] = enrol[n]]
  BY DEF NodesInv
<1>3. CASE CreateNode(n)
  <2>. DEFINE r == [NoRow EXCEPT !.row = "live", !.rev = 1]
  <2>1. r \in NodeRow /\ r.status # "disabled"
    BY DEF NoRow, NodeRow, Statuses, Deployments
  <2>2. node' = [node EXCEPT ![n] = r] /\ enrol' = [enrol EXCEPT ![n] = enrol[n]]
    BY <1>1, <1>3 DEF CreateNode
  <2>. QED  BY <1>1, <2>1, <2>2 DEF RowStep
<1>4. CASE CreateToken(n)
  <2>1. node[n].rev \in Nat
    BY <1>1 DEF NodeRow
  <2>. QED  BY <1>1, <1>4, <2>1, BumpedRow DEF CreateToken
<1>5. CASE BeginDeployment(n)
  <2>. DEFINE r == [node[n] EXCEPT !.deploy = "deploying", !.key = TRUE, !.beat = FALSE]
  <2>1. r \in NodeRow /\ r.status # "disabled"
    BY <1>1, <1>5 DEF NodeRow, Deployments, BeginDeployment
  <2>2. Bump(n, r) /\ enrol' = [enrol EXCEPT ![n] = enrol[n]]
    BY <1>1, <1>5 DEF BeginDeployment
  <2>. QED  BY <1>1, <2>1, <2>2, BumpedRow
<1>6. CASE BeginRemoval(n)
  <2>. DEFINE r == [node[n] EXCEPT !.status = "disabled", !.token = 0, !.deploy = "deploying"]
  <2>1. r \in NodeRow /\ r.token = 0
    BY <1>1 DEF NodeRow, Deployments, Statuses
  <2>2. Bump(n, r) /\ enrol' = [enrol EXCEPT ![n] = 0]
    BY <1>6 DEF BeginRemoval
  <2>. QED  BY <2>1, <2>2, BumpedRow
<1>7. ASSUME NEW s \in {None, "offline", "repair_required", "disabled"}, UpdateNode(n, s)
      PROVE  RowStep
  <2>. DEFINE st == IF s = None THEN node[n].status ELSE s
              tok == IF st = "disabled" THEN 0 ELSE node[n].token
              r == [node[n] EXCEPT !.status = st, !.token = tok]
              k == IF st = "disabled" THEN 0 ELSE enrol[n]
  <2>1. st \in Statuses /\ tok \in Nat /\ k \in Nat
    BY <1>1 DEF NodeRow, Statuses
  <2>2. r \in NodeRow /\ r.status = st /\ r.token = tok
    BY <1>1, <2>1 DEF NodeRow
  <2>3. Bump(n, r) /\ enrol' = [enrol EXCEPT ![n] = k]
    BY <1>1, <1>7 DEF UpdateNode
  <2>4. r.row = "live" /\ r.status = "disabled" => r.token = 0 /\ k = 0
    BY <2>2
  <2>. QED  BY <2>1, <2>2, <2>3, <2>4, BumpedRow
<1>8. CASE DeleteRow(n)
  <2>. DEFINE r == [node[n] EXCEPT !.row = "deleted"]
  <2>1. r \in NodeRow /\ r.row = "deleted"
    BY <1>1 DEF NodeRow
  <2>2. node' = [node EXCEPT ![n] = r] /\ enrol' = [enrol EXCEPT ![n] = 0]
    BY <1>1, <1>8 DEF DeleteRow
  <2>. QED  BY <2>1, <2>2 DEF RowStep
<1>. QED  BY <1>3, <1>4, <1>5, <1>6, <1>7, <1>8

(* The token of an enrolment under way is the one the node has: a disabled  *)
(* node has none.                                                           *)
LEMMA EnrollRowStep ==
    ASSUME NodesInv, NEW n \in Nodes, NEW k, Enrollable(n, k), Enroll(n, k)
    PROVE  RowStep
<1>. DEFINE r == [node[n] EXCEPT !.status = "online", !.enrolled = TRUE, !.token = k, !.beat = TRUE]
<1>1. node[n] \in NodeRow /\ k \in Nat
  BY DEF NodesInv, Enrollable
<1>2. r \in NodeRow /\ r.status = "online"
  BY <1>1 DEF NodeRow, Statuses
<1>3. node' = [node EXCEPT ![n] = r] /\ enrol' = [enrol EXCEPT ![n] = 0]
  BY <1>1 DEF Enroll, NodesInv
<1>. QED  BY <1>2, <1>3 DEF RowStep

(* What the installer and the removal of a Worker do to a row, whatever the *)
(* user has done to it since they began.                                    *)
LEMMA InstallerRowStep ==
    ASSUME NodesInv, NEW n \in Nodes,
           \/ DeployToken(n) \/ DeployInstalls(n) \/ DeployBreaks(n) \/ DeployWaits(n)
           \/ DeployInvalidates(n) \/ DeployFinishes(n) \/ RemovalRuns(n) \/ RemovalFinishes(n)
    PROVE  RowStep
<1>1. node[n] \in NodeRow /\ enrol[n] \in Nat /\ enrol = [enrol EXCEPT ![n] = enrol[n]]
  BY DEF NodesInv
<1>2. UNCHANGED <<node, enrol>> => RowStep
  BY DEF RowStep
<1>3. CASE DeployToken(n)
  <2>1. node[n].rev \in Nat
    BY <1>1 DEF NodeRow
  <2>. QED  BY <1>1, <1>2, <1>3, <2>1, BumpedRow DEF DeployToken
<1>4. CASE DeployInstalls(n)
  BY <1>2, <1>4, EnrollRowStep DEF DeployInstalls
<1>5. CASE DeployBreaks(n)
  BY <1>2, <1>5, EnrollRowStep DEF DeployBreaks
<1>6. CASE DeployWaits(n)
  BY <1>2, <1>6 DEF DeployWaits
<1>7. CASE DeployFinishes(n)
  <2>. DEFINE dep == IF op[n].pc = "succeeds" THEN "succeeded" ELSE "failed"
              ins == node[n].installed \/ op[n].pc = "succeeds"
              r == [node[n] EXCEPT !.deploy = dep, !.installed = ins]
  <2>1. dep \in Deployments /\ ins \in BOOLEAN
    BY DEF Deployments
  <2>2. r \in NodeRow /\ r.row = node[n].row /\ r.status = node[n].status /\ r.token = node[n].token
    BY <1>1, <2>1 DEF NodeRow
  <2>3. node[n].row = "live" /\ node[n].status = "disabled" => node[n].token = 0 /\ enrol[n] = 0
    BY DEF NodesInv, DisabledIsLockedOut, Live
  <2>4. CASE Live(n)
    <3>1. Bump(n, r) /\ enrol' = [enrol EXCEPT ![n] = enrol[n]]
      BY <1>1, <1>7, <2>4 DEF DeployFinishes
    <3>. QED  BY <1>1, <2>2, <2>3, <3>1, BumpedRow
  <2>5. CASE ~Live(n)
    BY <1>2, <1>7, <2>5 DEF DeployFinishes
  <2>. QED  BY <2>4, <2>5
<1>10. CASE DeployInvalidates(n)
  <2>. DEFINE k == IF Live(n) THEN 0 ELSE enrol[n]
  <2>1. k \in Nat /\ enrol' = [enrol EXCEPT ![n] = k] /\ node' = [node EXCEPT ![n] = node[n]]
    BY <1>1, <1>10 DEF DeployInvalidates, NodesInv
  <2>2. node[n].row = "live" /\ node[n].status = "disabled" => node[n].token = 0 /\ k = 0
    BY DEF NodesInv, DisabledIsLockedOut, Live
  <2>. QED  BY <1>1, <2>1, <2>2 DEF RowStep
<1>8. CASE RemovalRuns(n)
  BY <1>2, <1>8 DEF RemovalRuns
<1>9. CASE RemovalFinishes(n)
  <2>. DEFINE a == [node[n] EXCEPT !.status = "pending_enrollment", !.deploy = "not_started",
                         !.installed = FALSE, !.enrolled = FALSE, !.token = 0, !.snap = FALSE]
              b == [node[n] EXCEPT !.status = "repair_required", !.deploy = "failed", !.token = 0]
  <2>1. a \in NodeRow /\ a.status = "pending_enrollment"
    BY <1>1 DEF NodeRow, Statuses, Deployments
  <2>2. b \in NodeRow /\ b.status = "repair_required"
    BY <1>1 DEF NodeRow, Statuses, Deployments
  <2>3. enrol' = [enrol EXCEPT ![n] = enrol[n]] /\ enrol' = enrol
    BY <1>1, <1>9 DEF RemovalFinishes
  <2>4. node' = node \/ Bump(n, a) \/ Bump(n, b)
    BY <1>9 DEF RemovalFinishes
  <2>. QED  BY <1>1, <1>2, <2>1, <2>2, <2>3, <2>4, BumpedRow
<1>. QED  BY <1>3, <1>4, <1>5, <1>6, <1>7, <1>8, <1>9, <1>10

(* A heartbeat does not bring a disabled node back.                         *)
LEMMA BeatRowStep ==
    ASSUME NodesInv, NEW n \in Nodes, NEW s \in {"online", "degraded", "repair_required"},
           Beats(n, s)
    PROVE  RowStep
<1>. DEFINE r == [node[n] EXCEPT !.status = s, !.snap = TRUE, !.beat = TRUE]
<1>1. node[n] \in NodeRow /\ enrol[n] \in Nat /\ enrol = [enrol EXCEPT ![n] = enrol[n]]
  BY DEF NodesInv
<1>2. r \in NodeRow /\ r.status = s
  BY <1>1 DEF NodeRow, Statuses
<1>3. node' = [node EXCEPT ![n] = r] /\ enrol' = [enrol EXCEPT ![n] = enrol[n]]
  BY <1>1 DEF Beats, NodesInv
<1>. QED  BY <1>1, <1>2, <1>3 DEF RowStep

(* Every step of the system is one of them.                                 *)
LEMMA NodesStep ==
    ASSUME NodesInv, [PlaneNext]_planeVars
    PROVE  NodesInv'
<1>1. SUFFICES RowStep
  BY RowStepKeeps
<1>2. UNCHANGED nodeVars => RowStep
  BY DEF RowStep, nodeVars
<1>3. CASE UserNodes
  BY <1>3, UserRowStep DEF UserNodes
<1>4. CASE UserDeletes
  BY <1>4, UserRowStep DEF UserDeletes, DeleteNode
<1>5. CASE Installers
  BY <1>5, InstallerRowStep DEF Installers
<1>6. CASE Heartbeats
  BY <1>6, BeatRowStep DEF Heartbeats, Heartbeat
<1>7. CASE CenterRestarts
  BY <1>7 DEF CenterRestarts, InstallersLost, RowStep
<1>8. CASE UserModels \/ UserData \/ Preparation \/ Verifications
  BY <1>2, <1>8 DEF UserModels, UserData, Preparation, Verifications
<1>9. CASE Commands
  BY <1>2, <1>9 DEF Commands, TakeCommand, StartTransfer, HandleStop, JoinTransfer, BeginRemove,
                    EndRemove, Publish
<1>10. CASE Copying
  BY <1>2, <1>10 DEF Copying, LoadInventory, ReportCopy, CopyEnds, Place, StopSeen, PublishTransfer,
                     TransferGone, MgrOnly
<1>11. CASE WorkerRestarts \/ UNCHANGED planeVars
  BY <1>2, <1>11 DEF WorkerRestarts, planeVars
<1>. QED
  BY <1>3, <1>4, <1>5, <1>6, <1>7, <1>8, <1>9, <1>10, <1>11 DEF PlaneNext

(* A disabled node is locked out, whatever was under way when the user      *)
(* disabled it (update_node, begin_node_removal).                           *)
THEOREM DisabledNodesLockedOut == PlaneSpec => []DisabledIsLockedOut
<1>1. PlaneInit => NodesInv
  BY DEF PlaneInit, NodesInit, NodesInv, NodeRow, NoRow, Statuses, Deployments,
         DisabledIsLockedOut, Live
<1>2. NodesInv /\ [PlaneNext]_planeVars => NodesInv'
  BY NodesStep
<1>3. NodesInv => DisabledIsLockedOut
  BY DEF NodesInv
<1>. QED  BY <1>1, <1>2, <1>3, PTL DEF PlaneSpec

-----------------------------------------------------------------------------
(* The model configuration.                                                 *)
ModelInv ==
    /\ model \in [rev: Nat, status: {"draft", "verified"}]
    /\ VerifiedIsCurrent

(* The invariant is kept by every step of the system.                       *)
LEMMA ModelStep ==
    ASSUME ModelInv, [PlaneNext]_planeVars
    PROVE  ModelInv'
<1>1. UNCHANGED <<model, proved>> => ModelInv'
  BY DEF ModelInv, VerifiedIsCurrent
<1>2. UNCHANGED modelVars => ModelInv'
  BY <1>1 DEF modelVars
<1>3. CASE UserModels
  <2>1. CASE UpdateModel
    BY <2>1 DEF UpdateModel, ModelInv, VerifiedIsCurrent
  <2>2. ASSUME NEW n \in Nodes, RequestVerification(n)
        PROVE  ModelInv'
    BY <1>1, <2>2 DEF RequestVerification
  <2>. QED  BY <1>3, <2>1, <2>2 DEF UserModels
<1>4. CASE Verifications
  <2>1. ASSUME NEW n \in Nodes, ClaimVerification(n)
        PROVE  ModelInv'
    BY <1>1, <2>1 DEF ClaimVerification
  <2>2. ASSUME NEW t \in testing, NEW good \in BOOLEAN, FinishVerification(t, good)
        PROVE  ModelInv'
    <3>1. CASE Authentic(t.node) /\ check.id = t.id /\ check.status = "running"
      <4>1. model' = Verdict(t, good) /\ proved' = IF good THEN proved \cup {t.rev} ELSE proved
        BY <2>2, <3>1 DEF FinishVerification
      <4>2. CASE t.rev = model.rev
        <5>1. model' = [model EXCEPT !.status = IF good THEN "verified" ELSE "draft"]
          BY <4>1, <4>2 DEF Verdict
        <5>2. model' \in [rev: Nat, status: {"draft", "verified"}] /\ model'.rev = model.rev
          BY <5>1 DEF ModelInv
        <5>3. CASE good
          BY <4>1, <4>2, <5>2, <5>3 DEF ModelInv, VerifiedIsCurrent
        <5>4. CASE ~good
          BY <5>1, <5>2, <5>4 DEF ModelInv, VerifiedIsCurrent
        <5>. QED  BY <5>3, <5>4
      <4>3. CASE t.rev # model.rev
        BY <4>1, <4>3 DEF Verdict, ModelInv, VerifiedIsCurrent
      <4>. QED  BY <4>2, <4>3
    <3>2. CASE ~(Authentic(t.node) /\ check.id = t.id /\ check.status = "running")
      BY <1>1, <2>2, <3>2 DEF FinishVerification
    <3>. QED  BY <3>1, <3>2
  <2>. QED  BY <1>4, <2>1, <2>2 DEF Verifications
<1>5. CASE UserDeletes
  BY <1>1, <1>5 DEF UserDeletes, DeleteNode, DeleteRow
<1>6. CASE UserNodes \/ Installers \/ Heartbeats \/ UserData \/ Preparation
  BY <1>2, <1>6 DEF UserNodes, Installers, Heartbeats, UserData, Preparation
<1>7. CASE Commands
  BY <1>2, <1>7 DEF Commands, TakeCommand, StartTransfer, HandleStop, JoinTransfer, BeginRemove,
                    EndRemove, Publish
<1>8. CASE Copying
  BY <1>2, <1>8 DEF Copying, LoadInventory, ReportCopy, CopyEnds, Place, StopSeen, PublishTransfer,
                    TransferGone, MgrOnly
<1>9. CASE WorkerRestarts \/ CenterRestarts \/ UNCHANGED planeVars
  BY <1>2, <1>9 DEF WorkerRestarts, CenterRestarts, planeVars
<1>. QED
  BY <1>3, <1>4, <1>5, <1>6, <1>7, <1>8, <1>9 DEF PlaneNext

(* A verdict verifies the configuration it was about and no other: not the  *)
(* one edited while it was tested, and not through a claim that was given   *)
(* up (finish_model_verification).                                          *)
THEOREM VerifiedModelsCurrent == PlaneSpec => []VerifiedIsCurrent
<1>1. PlaneInit => ModelInv
  BY DEF PlaneInit, ModelInit, ModelInv, VerifiedIsCurrent
<1>2. ModelInv /\ [PlaneNext]_planeVars => ModelInv'
  BY ModelStep
<1>3. ModelInv => VerifiedIsCurrent
  BY DEF ModelInv
<1>. QED  BY <1>1, <1>2, <1>3, PTL DEF PlaneSpec

-----------------------------------------------------------------------------
(* The commands.  The two tables are sequences, whatever they hold, and a   *)
(* row of the command table is a record.                                    *)
IsCommand(v) ==
    v = [kind |-> v.kind, node |-> v.node, x |-> v.x, act |-> v.act, status |-> v.status,
         claim |-> v.claim]

TablesOK ==
    /\ IsSequence(xfers)
    /\ IsSequence(cmds)
    /\ \A c \in DOMAIN cmds : IsCommand(cmds[c])

CommandsInv == TablesOK /\ OneTransferRunning

(* From the table a to the table b no command is claimed: a row keeps its   *)
(* kind and its node, a new row is queued.                                  *)
NothingClaimed(a, b) ==
    /\ DOMAIN a \subseteq DOMAIN b
    /\ \A c \in DOMAIN a : /\ b[c].kind = a[c].kind /\ b[c].node = a[c].node
                           /\ b[c].status = "running" => a[c].status = "running"
    /\ \A c \in DOMAIN b \ DOMAIN a : b[c].status = "queued"

(* A step that claims nothing keeps the property.                           *)
LEMMA NothingClaimedKeeps ==
    ASSUME OneTransferRunning, NothingClaimed(cmds, cmds')
    PROVE  OneTransferRunning'
<1>1. \A c \in DOMAIN cmds' : cmds'[c].status = "running" => c \in DOMAIN cmds
  BY DEF NothingClaimed
<1>. QED  BY <1>1 DEF NothingClaimed, OneTransferRunning

(* A step that rewrites rows and appends none.                              *)
Rewritten(a, b) ==
    /\ DOMAIN b = DOMAIN a
    /\ b = [c \in DOMAIN b |-> b[c]]
    /\ \A c \in DOMAIN a :
          \/ b[c] = a[c]
          \/ \E st \in {"queued", "cancelled", "failed", "succeeded"} :
                b[c] = [a[c] EXCEPT !.status = st]

(* Rewriting commands in place, other than to running, claims nothing.      *)
LEMMA RewrittenCommands ==
    ASSUME NEW a, IsSequence(a), \A c \in DOMAIN a : IsCommand(a[c]), NEW b, Rewritten(a, b)
    PROVE  IsSequence(b) /\ (\A c \in DOMAIN b : IsCommand(b[c])) /\ NothingClaimed(a, b)
<1>1. IsSequence(b)
  BY SequenceDomain, SequenceOn DEF Rewritten
<1>2. ASSUME NEW c \in DOMAIN a
      PROVE  /\ IsCommand(b[c]) /\ b[c].kind = a[c].kind /\ b[c].node = a[c].node
             /\ b[c].status = "running" => a[c].status = "running"
  <2>1. CASE b[c] = a[c]
    BY <2>1
  <2>2. ASSUME NEW st \in {"queued", "cancelled", "failed", "succeeded"},
               b[c] = [a[c] EXCEPT !.status = st]
        PROVE  /\ IsCommand(b[c]) /\ b[c].kind = a[c].kind /\ b[c].node = a[c].node
               /\ b[c].status # "running"
    <3>1. b[c] = [kind |-> a[c].kind, node |-> a[c].node, x |-> a[c].x, act |-> a[c].act,
                  status |-> st, claim |-> a[c].claim]
      BY <2>2 DEF IsCommand
    <3>. QED  BY <3>1 DEF IsCommand
  <2>. QED  BY <2>1, <2>2 DEF Rewritten
<1>. QED  BY <1>1, <1>2 DEF Rewritten, NothingClaimed

(* A step that puts commands in the queue.                                  *)
LEMMA QueuedCommands ==
    ASSUME NEW a, IsSequence(a), \A c \in DOMAIN a : IsCommand(a[c]),
           NEW q, IsSequence(q),
           \A i \in DOMAIN q : IsCommand(q[i]) /\ q[i].status = "queued"
    PROVE  /\ IsSequence(a \o q) /\ (\A c \in DOMAIN (a \o q) : IsCommand((a \o q)[c]))
           /\ NothingClaimed(a, a \o q)
<1>. DEFINE b == a \o q
<1>1. /\ Len(a) \in Nat /\ DOMAIN a = 1 .. Len(a)
      /\ Len(q) \in Nat /\ DOMAIN q = 1 .. Len(q)
  BY SequenceDomain
<1>2. /\ IsSequence(b)
      /\ DOMAIN b = 1 .. Len(a) + Len(q)
      /\ \A i \in DOMAIN a : b[i] = a[i]
      /\ \A c \in DOMAIN b \ DOMAIN a : \E i \in DOMAIN q : b[c] = q[i]
  BY SequenceConcat, Zenon
<1>. HIDE DEF b
<1>3. DOMAIN a \subseteq DOMAIN b
  BY <1>1, <1>2
<1>4. IsSequence(b) /\ (\A c \in DOMAIN b : IsCommand(b[c])) /\ NothingClaimed(a, b)
  BY <1>2, <1>3 DEF NothingClaimed
<1>. QED  BY <1>4 DEF b

(* Nor does queueing one.                                                   *)
LEMMA QueuedOne ==
    ASSUME NEW a, IsSequence(a), \A c \in DOMAIN a : IsCommand(a[c]),
           NEW e, IsCommand(e), e.status = "queued"
    PROVE  /\ IsSequence(Append(a, e)) /\ (\A c \in DOMAIN Append(a, e) : IsCommand(Append(a, e)[c]))
           /\ NothingClaimed(a, Append(a, e))
<1>. DEFINE b == Append(a, e)
<1>1. Len(a) \in Nat /\ DOMAIN a = 1 .. Len(a)
  BY SequenceDomain
<1>2. /\ IsSequence(b)
      /\ DOMAIN b = 1 .. Len(a) + 1
      /\ \A i \in DOMAIN a : b[i] = a[i]
      /\ b[Len(a) + 1] = e
  BY SequenceAppend, Zenon
<1>. HIDE DEF b
<1>3. DOMAIN b = DOMAIN a \cup {Len(a) + 1}
  BY <1>1, <1>2
<1>4. IsSequence(b) /\ (\A c \in DOMAIN b : IsCommand(b[c])) /\ NothingClaimed(a, b)
  BY <1>2, <1>3 DEF NothingClaimed
<1>. QED  BY <1>4 DEF b

(* A new command is queued.                                                 *)
LEMMA CommandRow ==
    ASSUME NEW kind, NEW n, NEW x, NEW act
    PROVE  IsCommand(Command(kind, n, x, act)) /\ Command(kind, n, x, act).status = "queued"
BY DEF IsCommand, Command

(* The two ways to list the members of a finite set.                        *)
LEMMA RowOrderDomain ==
    ASSUME NEW S, IsFiniteSet(S)
    PROVE  \E n \in Nat : DOMAIN InRowOrder(S) = 1 .. n
BY FS_CardinalityType DEF InRowOrder

(* The list of a finite set is a sequence.                                  *)
LEMMA ListDomain ==
    ASSUME NEW S, IsFiniteSet(S)
    PROVE  \E n \in Nat : DOMAIN SetToSeq(S) = 1 .. n
<1>. DEFINE n == Cardinality(S)
<1>1. n \in Nat /\ ExistsBijection(1 .. n, S)
  BY FS_CardinalityType
<1>2. PICK f \in [1 .. n -> S] : IsInjective(f)
  BY <1>1 DEF ExistsBijection, Bijection, Injection, IsInjective
<1>3. SetToSeq(S) \in [1 .. n -> S]
  BY <1>2 DEF SetToSeq
<1>. QED  BY <1>1, <1>3

(* Steps that claim nothing keep the invariant: those that leave the        *)
(* commands alone, rewrite some, or queue some.                             *)
LEMMA UntouchedStep ==
    ASSUME CommandsInv, cmds' = cmds, IsSequence(xfers')
    PROVE  CommandsInv'
BY DEF CommandsInv, TablesOK, OneTransferRunning

(* A step that rewrites commands,                                           *)
LEMMA RewritingStep ==
    ASSUME CommandsInv, Rewritten(cmds, cmds'), IsSequence(xfers')
    PROVE  CommandsInv'
BY RewrittenCommands, NothingClaimedKeeps DEF CommandsInv, TablesOK

(* that queues some,                                                        *)
LEMMA QueueingStep ==
    ASSUME CommandsInv, IsSequence(xfers'), NEW q, IsSequence(q), Queue(q),
           \A i \in DOMAIN q : IsCommand(q[i]) /\ q[i].status = "queued"
    PROVE  CommandsInv'
<1>1. IsSequence(cmds) /\ (\A c \in DOMAIN cmds : IsCommand(cmds[c])) /\ cmds' = cmds \o q
  BY DEF CommandsInv, TablesOK, Queue
<1>2. IsSequence(cmds') /\ (\A c \in DOMAIN cmds' : IsCommand(cmds'[c])) /\ NothingClaimed(cmds, cmds')
  BY <1>1, QueuedCommands, Zenon
<1>. QED  BY <1>2, NothingClaimedKeeps DEF CommandsInv, TablesOK

(* or that queues one keeps the invariant.                                  *)
LEMMA QueueingOneStep ==
    ASSUME CommandsInv, IsSequence(xfers'), NEW e, IsCommand(e), e.status = "queued",
           Queue(<<e>>)
    PROVE  CommandsInv'
<1>1. IsSequence(<<e>>) /\ \A i \in DOMAIN <<e>> : <<e>>[i] = e
  <2>1. <<e>> \in Seq({e}) /\ \A i \in DOMAIN <<e>> : <<e>>[i] = e
    OBVIOUS
  <2>. QED  BY <2>1, SequenceOf
<1>2. \A i \in DOMAIN <<e>> : IsCommand(<<e>>[i]) /\ <<e>>[i].status = "queued"
  BY <1>1
<1>. QED  BY <1>1, <1>2, QueueingStep, Zenon

(* A command ends.                                                          *)
LEMMA EndedRewritten ==
    ASSUME NEW c, NEW st \in {"queued", "cancelled", "failed", "succeeded"}
    PROVE  Rewritten(cmds, [cmds EXCEPT ![c].status = st])
BY DEF Rewritten

(* The requests of users: create, pause, cancel, retry and remove.          *)
LEMMA UserDataCommands ==
    ASSUME CommandsInv, UserData
    PROVE  CommandsInv'
<1>1. IsSequence(xfers) /\ IsSequence(cmds)
  BY DEF CommandsInv, TablesOK
<1>2. ASSUME NEW t, NEW st, SetStatus(t, st)
      PROVE  IsSequence(xfers')
  BY <1>1, <1>2, SequenceRewritten DEF SetStatus
<1>3. ASSUME NEW n \in Nodes, NEW ds \in SUBSET Releases, CreateTransfers(n, ds)
      PROVE  CommandsInv'
  <2>. DEFINE new == SetToSeq(ds)
              ready == InRowOrder({i \in DOMAIN new : source[new[i]] = "ready"})
              rows == [i \in DOMAIN new |->
                         [node |-> n, src |-> new[i], rec |-> 0,
                          status |-> IF source[new[i]] = "ready" THEN "queued" ELSE "preparing"]]
              q == [i \in DOMAIN ready |-> TransferCommand(n, Len(xfers) + ready[i])]
  <2>1. IsFiniteSet(ds)
    BY FS_Subset, ReleasesAssumption
  <2>2. PICK k \in Nat : DOMAIN new = 1 .. k
    BY <2>1, ListDomain
  <2>3. IsFiniteSet({i \in DOMAIN new : source[new[i]] = "ready"})
    BY <2>2, FS_Interval, FS_Subset
  <2>4. PICK m \in Nat : DOMAIN ready = 1 .. m
    BY <2>3, RowOrderDomain
  <2>5. xfers' = xfers \o rows /\ Queue(q)
    BY <1>3 DEF CreateTransfers
  <2>. HIDE DEF new, ready
  <2>6. IsSequence(rows)
    BY <2>2, SequenceOn
  <2>7. IsSequence(q)
    BY <2>4, SequenceOn
  <2>8. \A i \in DOMAIN q : IsCommand(q[i]) /\ q[i].status = "queued"
    BY CommandRow DEF TransferCommand
  <2>. HIDE DEF rows, q
  <2>9. IsSequence(xfers')
    BY <1>1, <2>5, <2>6, SequenceConcat, Zenon
  <2>. QED  BY <2>5, <2>7, <2>8, <2>9, QueueingStep
<1>4. ASSUME NEW t \in DOMAIN xfers, NEW act, NEW atWorker, StopTransfer(t, act, atWorker)
      PROVE  CommandsInv'
  <2>1. IsSequence(xfers')
    BY <1>2, <1>4 DEF StopTransfer
  <2>2. CASE atWorker
    <3>1. Queue(<<Command("stop", xfers[t].node, t, act)>>)
      BY <1>4, <2>2 DEF StopTransfer
    <3>. QED  BY <2>1, <3>1, CommandRow, QueueingOneStep
  <2>3. CASE ~atWorker
    <3>1. cmds' = cmds \/ cmds' = CancelQueued(t)
      BY <1>4, <2>3 DEF StopTransfer
    <3>2. Rewritten(cmds, CancelQueued(t))
      BY DEF Rewritten, CancelQueued
    <3>. QED  BY <2>1, <3>1, <3>2, UntouchedStep, RewritingStep
  <2>. QED  BY <2>2, <2>3
<1>5. ASSUME NEW t \in DOMAIN xfers, PauseTransfer(t) \/ CancelTransfer(t)
      PROVE  CommandsInv'
  BY <1>4, <1>5 DEF PauseTransfer, CancelTransfer
<1>6. ASSUME NEW t \in DOMAIN xfers, RetryTransfer(t)
      PROVE  CommandsInv'
  <2>1. IsSequence(xfers')
    BY <1>2, <1>6 DEF RetryTransfer
  <2>2. CASE source[xfers[t].src] = "ready"
    <3>1. Queue(<<TransferCommand(xfers[t].node, t)>>)
      BY <1>6, <2>2 DEF RetryTransfer
    <3>. QED  BY <2>1, <3>1, CommandRow, QueueingOneStep DEF TransferCommand
  <2>3. CASE source[xfers[t].src] # "ready"
    <3>1. Queue(<<>>)
      BY <1>6, <2>3 DEF RetryTransfer
    <3>2. IsSequence(<<>>) /\ DOMAIN <<>> = {}
      BY DEF IsSequence
    <3>. QED  BY <2>1, <3>1, <3>2, QueueingStep
  <2>. QED  BY <2>2, <2>3
<1>7. ASSUME NEW r \in DOMAIN replicas, RemoveReplica(r)
      PROVE  CommandsInv'
  <2>1. xfers' = xfers /\ Queue(<<Command("remove", replicas[r].node, r, "none")>>)
    BY <1>7 DEF RemoveReplica
  <2>. QED  BY <1>1, <2>1, CommandRow, QueueingOneStep
<1>. QED  BY <1>3, <1>5, <1>6, <1>7 DEF UserData

(* The preparation of a source manifest.                                    *)
LEMMA PreparationCommands ==
    ASSUME CommandsInv, Preparation
    PROVE  CommandsInv'
<1>1. IsSequence(xfers)
  BY DEF CommandsInv, TablesOK
<1>2. ASSUME NEW d \in Releases, ClaimPreparation(d)
      PROVE  CommandsInv'
  BY <1>1, <1>2, UntouchedStep DEF ClaimPreparation
<1>3. CASE CompletePreparation
  <2>. DEFINE S == {t \in Waiting(prep) : Live(xfers[t].node)}
              ts == InRowOrder(S)
              q == [i \in DOMAIN ts |-> TransferCommand(xfers[ts[i]].node, ts[i])]
  <2>1. IsFiniteSet(S)
    BY <1>1, SequenceDomain, FS_Interval, FS_Subset DEF Waiting
  <2>2. PICK m \in Nat : DOMAIN ts = 1 .. m
    BY <2>1, RowOrderDomain
  <2>3. Queue(q)
    BY <1>3 DEF CompletePreparation
  <2>4. IsSequence(xfers')
    BY <1>1, <1>3, SequenceRewritten DEF CompletePreparation
  <2>. HIDE DEF ts
  <2>5. IsSequence(q)
    BY <2>2, SequenceOn
  <2>6. \A i \in DOMAIN q : IsCommand(q[i]) /\ q[i].status = "queued"
    BY CommandRow DEF TransferCommand
  <2>. HIDE DEF q
  <2>. QED  BY <2>3, <2>4, <2>5, <2>6, QueueingStep
<1>4. CASE FailPreparation
  <2>1. IsSequence(xfers')
    BY <1>1, <1>4, SequenceRewritten DEF FailPreparation
  <2>. QED  BY <1>4, <2>1, UntouchedStep DEF FailPreparation
<1>. QED  BY <1>2, <1>3, <1>4 DEF Preparation

(* A transfer and its command are appended together.                        *)
LEMMA RecoveryCommands ==
    ASSUME CommandsInv, NEW a, Rewritten(cmds, a), NEW xs, IsSequence(xs), NEW row, NEW n, NEW t,
           xfers' = Append(xs, row), cmds' = Append(a, TransferCommand(n, t))
    PROVE  CommandsInv'
<1>. DEFINE e == TransferCommand(n, t)
<1>1. IsSequence(xfers')
  BY SequenceAppend, Zenon
<1>2. IsCommand(e) /\ e.status = "queued"
  BY CommandRow DEF TransferCommand
<1>3. IsSequence(a) /\ (\A c \in DOMAIN a : IsCommand(a[c])) /\ NothingClaimed(cmds, a)
  BY RewrittenCommands DEF CommandsInv, TablesOK
<1>. HIDE DEF e
<1>4. /\ IsSequence(cmds') /\ (\A c \in DOMAIN cmds' : IsCommand(cmds'[c]))
      /\ NothingClaimed(a, cmds')
  BY <1>2, <1>3, QueuedOne, Zenon DEF e
<1>5. NothingClaimed(cmds, cmds')
  BY <1>3, <1>4 DEF NothingClaimed, Rewritten
<1>. QED  BY <1>1, <1>4, <1>5, NothingClaimedKeeps DEF CommandsInv, TablesOK

(* A heartbeat, which may bring transfers of a lost Worker back.            *)
LEMMA HeartbeatCommands ==
    ASSUME CommandsInv, Heartbeats
    PROVE  CommandsInv'
<1>1. PICK n \in Nodes, s \in {"online", "degraded", "repair_required"} : Heartbeat(n, s)
  BY DEF Heartbeats
<1>2. IsSequence(xfers) /\ Rewritten(cmds, cmds)
  BY DEF CommandsInv, TablesOK, Rewritten, IsSequence
<1>3. CASE s = "online" /\ RecoveryDue(n, xfers, replicas)
  BY <1>1, <1>2, <1>3, RecoveryCommands DEF Heartbeat
<1>4. CASE ~(s = "online" /\ RecoveryDue(n, xfers, replicas))
  BY <1>1, <1>2, <1>4, UntouchedStep DEF Heartbeat
<1>. QED  BY <1>3, <1>4

(* A claim: what ran out is taken back first, and a transfer is handed out  *)
(* only when no other of the node is running after that.                    *)
LEMMA ClaimCommandsKeeps ==
    ASSUME CommandsInv, NEW n, NEW E, NEW c, ClaimCommands(n, E, c)
    PROVE  CommandsInv'
<1>. DEFINE cs == Requeued(E)
            first == Oldest(Claimable(n, cs))
<1>1. Rewritten(cmds, cs)
  BY DEF Rewritten, Requeued
<1>2. IsSequence(cs) /\ (\A b \in DOMAIN cs : IsCommand(cs[b])) /\ NothingClaimed(cmds, cs)
  BY <1>1, RewrittenCommands DEF CommandsInv, TablesOK
<1>3. DOMAIN cs = DOMAIN cmds
  BY DEF Requeued
<1>4. IsSequence(xfers')
  <2>1. IsSequence(xfers) /\ \E S : xfers' = SettledTransfers(S)
    BY DEF ClaimCommands, CommandsInv, TablesOK
  <2>. QED  BY <2>1, SequenceRewritten DEF SettledTransfers
<1>. HIDE DEF cs
<1>5. \A b, o \in DOMAIN cs :
         /\ cs[b].kind = "transfer" /\ cs[o].kind = "transfer"
         /\ cs[b].status = "running" /\ cs[o].status = "running"
         /\ cs[b].node = cs[o].node
         => b = o
  BY <1>2, <1>3 DEF NothingClaimed, CommandsInv, OneTransferRunning
<1>6. CASE /\ c \in first
           /\ cmds' = [cs EXCEPT ![c].status = "running", ![c].claim = @ + 1]
  <2>1. /\ c \in DOMAIN cs /\ cs[c].node = n
        /\ cs[c].kind = "transfer" =>
             \A o \in DOMAIN cs : ~(cs[o].node = n /\ cs[o].kind = "transfer"
                                     /\ cs[o].status = "running")
    BY <1>6 DEF Oldest, Claimable
  <2>2. DOMAIN cmds' = DOMAIN cs /\ \A b \in DOMAIN cs : b # c => cmds'[b] = cs[b]
    BY <1>6
  <2>3. cmds'[c] = [kind |-> cs[c].kind, node |-> cs[c].node, x |-> cs[c].x, act |-> cs[c].act,
                    status |-> "running", claim |-> cs[c].claim + 1]
    <3>. DEFINE mid == [cs[c] EXCEPT !.status = "running"]
    <3>1. mid = [kind |-> cs[c].kind, node |-> cs[c].node, x |-> cs[c].x, act |-> cs[c].act,
                 status |-> "running", claim |-> cs[c].claim]
      BY <1>2, <2>1 DEF IsCommand
    <3>2. cmds'[c] = [mid EXCEPT !.claim = mid.claim + 1]
      BY <1>6, <2>1
    <3>. HIDE DEF mid
    <3>. QED  BY <3>1, <3>2
  <2>4. IsSequence(cmds')
    BY <1>2, <1>6, SequenceRewritten
  <2>5. \A b \in DOMAIN cmds' : IsCommand(cmds'[b])
    BY <1>2, <2>2, <2>3 DEF IsCommand
  <2>6. OneTransferRunning'
    BY <1>5, <2>1, <2>2, <2>3 DEF OneTransferRunning
  <2>. QED  BY <1>4, <2>4, <2>5, <2>6 DEF CommandsInv, TablesOK
<1>7. CASE cmds' = [b \in DOMAIN cs |->
                       IF b \in first THEN [cs[b] EXCEPT !.status = "cancelled"] ELSE cs[b]]
  <2>1. Rewritten(cs, cmds')
    BY <1>7 DEF Rewritten
  <2>2. IsSequence(cmds') /\ (\A b \in DOMAIN cmds' : IsCommand(cmds'[b])) /\ NothingClaimed(cs, cmds')
    BY <1>2, <2>1, RewrittenCommands
  <2>3. NothingClaimed(cmds, cmds')
    BY <1>2, <1>3, <2>2 DEF NothingClaimed
  <2>. QED  BY <1>4, <2>2, <2>3, NothingClaimedKeeps DEF CommandsInv, TablesOK
<1>. QED  BY <1>6, <1>7 DEF ClaimCommands, cs

(* The results of a Worker.                                                 *)
LEMMA ResultCommands ==
    ASSUME CommandsInv, NEW c, NEW k,
           \/ \E res : TransferEnds(c, k, res)
           \/ \E ok : StopEnds(c, k, ok) \/ RemoveEnds(c, k, ok)
           \/ ReportProgress(c, k)
    PROVE  CommandsInv'
<1>1. IsSequence(xfers)
  BY DEF CommandsInv, TablesOK
<1>2. ASSUME NEW res, TransferEnds(c, k, res)
      PROVE  CommandsInv'
  <2>. DEFINE t == cmds[c].x
              n == xfers[t].node
              st == IF res = "succeeded" /\ xfers[t].rec # 0 /\ ~Recoverable(t) THEN "failed" ELSE res
              rs == IF st # "succeeded" THEN replicas
                    ELSE IF xfers[t].rec # 0 THEN Rebound(t) ELSE Upserted(t)
              xs == [xfers EXCEPT ![t].status = st]
              end == IF res = "failed" THEN "failed"
                     ELSE IF res = "succeeded" THEN "succeeded" ELSE "cancelled"
              ended == [cmds EXCEPT ![c].status = end]
              next == xfers[t].rec # 0 /\ Live(n) /\ RecoveryDue(n, xs, rs)
  <2>1. /\ xfers' = IF next THEN Append(xs, Recovery(n, xs, rs)) ELSE xs
        /\ cmds' = IF next THEN Append(ended, TransferCommand(n, Len(xs) + 1)) ELSE ended
    BY <1>2 DEF TransferEnds
  <2>2. end \in {"queued", "cancelled", "failed", "succeeded"}
    OBVIOUS
  <2>3. Rewritten(cmds, ended)
    BY <2>2, EndedRewritten
  <2>4. IsSequence(xs)
    BY <1>1, SequenceRewritten
  <2>. HIDE DEF xs, ended, next, rs, n
  <2>5. CASE next
    BY <2>1, <2>3, <2>4, <2>5, RecoveryCommands
  <2>6. CASE ~next
    BY <2>1, <2>3, <2>4, <2>6, RewritingStep
  <2>. QED  BY <2>5, <2>6
<1>3. ASSUME NEW ok, StopEnds(c, k, ok) \/ RemoveEnds(c, k, ok)
      PROVE  CommandsInv'
  <2>. DEFINE end == IF ok THEN "succeeded" ELSE "failed"
  <2>1. Rewritten(cmds, cmds')
    <3>1. cmds' = [cmds EXCEPT ![c].status = end]
      BY <1>3 DEF StopEnds, RemoveEnds, Finished
    <3>2. end \in {"queued", "cancelled", "failed", "succeeded"}
      OBVIOUS
    <3>. HIDE DEF end
    <3>. QED  BY <3>1, <3>2, EndedRewritten
  <2>2. IsSequence(xfers')
    BY <1>1, <1>3, SequenceRewritten DEF StopEnds, RemoveEnds
  <2>. QED  BY <2>1, <2>2, RewritingStep
<1>4. CASE ReportProgress(c, k)
  <2>1. IsSequence(xfers') /\ cmds' = cmds
    BY <1>1, <1>4, SequenceRewritten DEF ReportProgress, SetStatus
  <2>. QED  BY <2>1, UntouchedStep
<1>. QED  BY <1>2, <1>3, <1>4

(* The invariant is kept by every step of the system.                       *)
LEMMA CommandsStep ==
    ASSUME CommandsInv, [PlaneNext]_planeVars
    PROVE  CommandsInv'
<1>1. UNCHANGED dataVars => CommandsInv'
  BY UntouchedStep DEF dataVars, CommandsInv, TablesOK
<1>2. CASE UserData
  BY <1>2, UserDataCommands
<1>3. CASE Preparation
  BY <1>3, PreparationCommands
<1>4. CASE Heartbeats
  BY <1>4, HeartbeatCommands
<1>5. CASE UserDeletes
  BY <1>5, UntouchedStep DEF UserDeletes, DeleteNode, CommandsInv, TablesOK
<1>6. CASE CenterRestarts
  BY <1>6, UntouchedStep DEF CenterRestarts, CommandsInv, TablesOK
<1>7. CASE Commands
  <2>1. ASSUME NEW h \in Threads, NEW n \in Nodes, NEW E, NEW c, TakeCommand(h, n, E, c)
        PROVE  CommandsInv'
    BY <2>1, ClaimCommandsKeeps DEF TakeCommand
  <2>2. ASSUME NEW h \in Threads, Publish(h)
        PROVE  CommandsInv'
    BY <1>1, <2>2, ResultCommands DEF Publish, Refused
  <2>3. ASSUME NEW h \in Threads,
               StartTransfer(h) \/ HandleStop(h) \/ JoinTransfer(h) \/ BeginRemove(h) \/ EndRemove(h)
        PROVE  CommandsInv'
    BY <1>1, <2>3 DEF StartTransfer, HandleStop, JoinTransfer, BeginRemove, EndRemove
  <2>. QED  BY <1>7, <2>1, <2>2, <2>3 DEF Commands
<1>8. CASE Copying
  <2>1. CASE ReportCopy
    BY <2>1, ResultCommands DEF ReportCopy
  <2>2. CASE PublishTransfer
    BY <1>1, <2>2, ResultCommands DEF PublishTransfer, Refused
  <2>3. CASE LoadInventory \/ CopyEnds \/ Place \/ StopSeen \/ TransferGone
    BY <1>1, <2>3 DEF LoadInventory, CopyEnds, Place, StopSeen, TransferGone, MgrOnly
  <2>. QED  BY <1>8, <2>1, <2>2, <2>3 DEF Copying
<1>9. CASE UserNodes \/ Installers \/ UserModels \/ Verifications \/ WorkerRestarts
  BY <1>1, <1>9 DEF UserNodes, Installers, UserModels, Verifications, WorkerRestarts
<1>10. CASE UNCHANGED planeVars
  BY <1>1, <1>10 DEF planeVars
<1>. QED
  BY <1>2, <1>3, <1>4, <1>5, <1>6, <1>7, <1>8, <1>9, <1>10 DEF PlaneNext

(* A node is given one transfer at a time, whatever is requested, retried,  *)
(* recovered or taken back while one is running (claim_node_commands).      *)
THEOREM OneTransferAtATime == PlaneSpec => []OneTransferRunning
<1>1. PlaneInit => CommandsInv
  BY DEF PlaneInit, DataInit, CommandsInv, TablesOK, IsSequence, OneTransferRunning
<1>2. CommandsInv /\ [PlaneNext]_planeVars => CommandsInv'
  BY CommandsStep
<1>3. CommandsInv => OneTransferRunning
  BY DEF CommandsInv
<1>. QED  BY <1>1, <1>2, <1>3, PTL DEF PlaneSpec

-----------------------------------------------------------------------------
(* The tables, row by row: commands name the rows they are about.           *)
IsTransfer(v) == v = [node |-> v.node, src |-> v.src, rec |-> v.rec, status |-> v.status]
IsReplica(v) == v = [node |-> v.node, src |-> v.src, status |-> v.status]

TransfersOK(xs) ==
    IsSequence(xs) /\ \A t \in DOMAIN xs : IsTransfer(xs[t]) /\ xs[t].src \in Releases
ReplicasOK(rs) ==
    IsSequence(rs) /\ \A r \in DOMAIN rs : IsReplica(rs[r]) /\ rs[r].src \in Releases

CommandOK(v, xs, rs) ==
    /\ IsCommand(v) /\ v.claim \in Nat /\ v.kind \in {"transfer", "stop", "remove"}
    /\ v.kind = "transfer" => v.x \in DOMAIN xs
    /\ v.kind = "remove" => v.x \in DOMAIN rs
CommandsOK(cs, xs, rs) == IsSequence(cs) /\ \A c \in DOMAIN cs : CommandOK(cs[c], xs, rs)

RowsOK == TransfersOK(xfers) /\ ReplicasOK(replicas) /\ CommandsOK(cmds, xfers, replicas)

(* The rows stay, and stay about the same things.                           *)
SourcesKept(a, b) == \A i \in DOMAIN a : i \in DOMAIN b /\ b[i].src = a[i].src
CommandsKept(a, b) ==
    \A c \in DOMAIN a : /\ c \in DOMAIN b /\ b[c].kind = a[c].kind /\ b[c].x = a[c].x
                        /\ a[c].claim # 0 => b[c].claim # 0
RowsKept ==
    /\ SourcesKept(xfers, xfers') /\ SourcesKept(replicas, replicas')
    /\ CommandsKept(cmds, cmds')

(* The replicas that a step offers anew are those of the releases S.        *)
OffersOnly(S) ==
    \A r \in DOMAIN replicas' :
       replicas'[r].status = "ready"
          => \/ r \in DOMAIN replicas /\ replicas[r].status = "ready"
             \/ replicas'[r].src \in S

TablesStep(S) == RowsOK' /\ RowsKept /\ OffersOnly(S)

(* The data of release d are on the machine, as far as no removal goes.     *)
Placed(d) == full[d] = "whole" \/ RemovalTaken(d)

IsMgr(v) == v = [pc |-> v.pc, cmd |-> v.cmd, claim |-> v.claim, x |-> v.x, stop |-> v.stop,
                 discard |-> v.discard, res |-> v.res]
IsHand(v) == v = [pc |-> v.pc, cmd |-> v.cmd, claim |-> v.claim, ok |-> v.ok]

(* What a thread of the Worker holds is a command the center handed out.    *)
HandOK(v, cs) ==
    /\ IsHand(v)
    /\ v.pc # "idle" => v.cmd \in DOMAIN cs /\ cs[v.cmd].claim # 0
    /\ v.pc = "transfer" => cs[v.cmd].kind = "transfer"
    /\ v.pc \in {"remove", "rmtree"} => cs[v.cmd].kind = "remove"

MgrOK(m, cs) ==
    /\ IsMgr(m)
    /\ m.pc # "idle" => m.cmd \in DOMAIN cs /\ cs[m.cmd].kind = "transfer" /\ cs[m.cmd].x = m.x

(* It calls a transfer a success when the data are in place.                *)
SuccessIsPlaced == mgr.pc = "publish" /\ mgr.res = "succeeded" => Placed(Release(mgr.x))

WorkerOK ==
    /\ full = [d \in Releases |-> full[d]]
    /\ hands = [h \in Threads |-> hands[h]] /\ \A h \in Threads : HandOK(hands[h], cmds)
    /\ MgrOK(mgr, cmds) /\ SuccessIsPlaced

DiskInv == RowsOK /\ WorkerOK /\ UnremovedReplicaOnDisk

(* The smallest member of a set of naturals.                                *)
LEMMA LeastRow ==
    ASSUME NEW S, S \subseteq Nat, S # {}
    PROVE  \E m \in S : \A k \in S : m <= k
<1>. DEFINE R == OpToRel(<, Nat)
<1>1. IsWellFoundedOn(R, Nat)
  BY NatLessThanWellFounded
<1>2. \E m \in S : \A k \in S : ~(<<k, m>> \in R)
  BY <1>1, WFMin
<1>3. ASSUME NEW k \in Nat, NEW m \in Nat, k < m PROVE <<k, m>> \in R
  BY <1>3 DEF OpToRel
<1>. HIDE DEF R
<1>4. PICK m \in S : \A k \in S : ~(<<k, m>> \in R)
  BY <1>2
<1>5. \A k \in S : ~(k < m)
  BY <1>3, <1>4
<1>. QED  BY <1>5

(* Row order lists the members of a set, each at its rank.                  *)
LEMMA RowOrderMembers ==
    ASSUME NEW S, S \subseteq Nat, IsFiniteSet(S)
    PROVE  \A i \in DOMAIN InRowOrder(S) : InRowOrder(S)[i] \in S
<1>. DEFINE n == Cardinality(S)
            upto(s) == {r \in S : r <= s}
            rank == [s \in S |-> Cardinality(upto(s))]
<1>1. n \in Nat /\ IsFiniteSet(1 .. n) /\ Cardinality(1 .. n) = n
  BY FS_CardinalityType, FS_Interval
<1>2. ASSUME NEW s \in S
      PROVE  IsFiniteSet(upto(s)) /\ Cardinality(upto(s)) \in 1 .. n
  <2>1. IsFiniteSet(upto(s)) /\ Cardinality(upto(s)) <= n
    BY FS_Subset
  <2>2. s \in upto(s)
    OBVIOUS
  <2>3. Cardinality(upto(s)) \in Nat /\ Cardinality(upto(s)) # 0
    BY <2>1, <2>2, FS_CardinalityType, FS_EmptySet
  <2>. QED  BY <1>1, <2>1, <2>3
<1>3. ASSUME NEW s \in S, NEW q \in S, s < q
      PROVE  Cardinality(upto(s)) # Cardinality(upto(q))
  <2>1. s \in Nat /\ q \in Nat /\ \A r \in S : r \in Nat
    OBVIOUS
  <2>2. \A r \in S : r <= s => r <= q
    BY <1>3, <2>1
  <2>3. q \in upto(q) /\ q \notin upto(s)
    BY <1>3, <2>1
  <2>4. upto(s) \subseteq upto(q)
    BY <2>2
  <2>. QED  BY <1>2, <2>3, <2>4, FS_Subset
<1>4. rank \in Injection(S, 1 .. n)
  <2>1. rank \in [S -> 1 .. n]
    BY <1>2
  <2>2. \A s, q \in S : rank[s] = rank[q] => s = q
    BY <1>3
  <2>. QED  BY <2>1, <2>2 DEF Injection, IsInjective
<1>5. rank \in Surjection(S, 1 .. n)
  <2>. HIDE DEF rank
  <2>. QED  BY <1>1, <1>4, FS_Injection
<1>6. \A i \in 1 .. n : \E s \in S : Cardinality(upto(s)) = i
  BY <1>5 DEF Surjection
<1>7. ASSUME NEW i \in 1 .. n
      PROVE  InRowOrder(S)[i] \in S
  <2>1. \E s \in S : Cardinality({r \in S : r <= s}) = i
    BY <1>6
  <2>2. InRowOrder(S)[i] = CHOOSE s \in S : Cardinality({r \in S : r <= s}) = i
    BY DEF InRowOrder
  <2>. QED  BY <2>1, <2>2
<1>. QED  BY <1>7 DEF InRowOrder

(* The list of a finite set holds its members.                              *)
LEMMA ListMembers ==
    ASSUME NEW S, IsFiniteSet(S)
    PROVE  \A i \in DOMAIN SetToSeq(S) : SetToSeq(S)[i] \in S
<1>. DEFINE n == Cardinality(S)
<1>1. n \in Nat /\ ExistsBijection(1 .. n, S)
  BY FS_CardinalityType
<1>2. PICK f \in [1 .. n -> S] : IsInjective(f)
  BY <1>1 DEF ExistsBijection, Bijection, Injection, IsInjective
<1>3. SetToSeq(S) \in [1 .. n -> S]
  BY <1>2 DEF SetToSeq
<1>. QED  BY <1>3

(* A transfer whose status changes is about the same release.               *)
LEMMA TransfersRewritten ==
    ASSUME NEW a, TransfersOK(a), NEW b, DOMAIN b = DOMAIN a, b = [t \in DOMAIN b |-> b[t]],
           \A t \in DOMAIN a : b[t] = a[t] \/ \E s : b[t] = [a[t] EXCEPT !.status = s]
    PROVE  TransfersOK(b) /\ SourcesKept(a, b)
<1>1. IsSequence(b)
  BY SequenceRewritten DEF TransfersOK
<1>2. ASSUME NEW t \in DOMAIN a
      PROVE  IsTransfer(b[t]) /\ b[t].src = a[t].src
  <2>1. CASE b[t] = a[t]
    BY <2>1 DEF TransfersOK
  <2>2. ASSUME NEW s, b[t] = [a[t] EXCEPT !.status = s]
        PROVE  IsTransfer(b[t]) /\ b[t].src = a[t].src
    <3>1. b[t] = [node |-> a[t].node, src |-> a[t].src, rec |-> a[t].rec, status |-> s]
      BY <2>2 DEF TransfersOK, IsTransfer
    <3>. QED  BY <3>1 DEF IsTransfer
  <2>. QED  BY <2>1, <2>2
<1>. QED  BY <1>1, <1>2 DEF TransfersOK, SourcesKept

(* One transfer changes its status.                                         *)
LEMMA TransferStatus ==
    ASSUME TransfersOK(xfers), NEW t, NEW s
    PROVE  LET b == [xfers EXCEPT ![t].status = s]
           IN  TransfersOK(b) /\ SourcesKept(xfers, b) /\ DOMAIN b = DOMAIN xfers
BY TransfersRewritten

(* A replica whose status or node changes is one of the same release.       *)
LEMMA ReplicasRewritten ==
    ASSUME NEW a, ReplicasOK(a), NEW b, DOMAIN b = DOMAIN a, b = [r \in DOMAIN b |-> b[r]],
           \A r \in DOMAIN a : \/ b[r] = a[r]
                               \/ \E s : b[r] = [a[r] EXCEPT !.status = s]
                               \/ \E n : b[r] = [a[r] EXCEPT !.node = n]
    PROVE  ReplicasOK(b) /\ SourcesKept(a, b)
<1>1. IsSequence(b)
  BY SequenceRewritten DEF ReplicasOK
<1>2. ASSUME NEW r \in DOMAIN a
      PROVE  IsReplica(b[r]) /\ b[r].src = a[r].src
  <2>1. CASE b[r] = a[r]
    BY <2>1 DEF ReplicasOK
  <2>2. ASSUME NEW s, b[r] = [a[r] EXCEPT !.status = s]
        PROVE  IsReplica(b[r]) /\ b[r].src = a[r].src
    <3>1. b[r] = [node |-> a[r].node, src |-> a[r].src, status |-> s]
      BY <2>2 DEF ReplicasOK, IsReplica
    <3>. QED  BY <3>1 DEF IsReplica
  <2>3. ASSUME NEW n, b[r] = [a[r] EXCEPT !.node = n]
        PROVE  IsReplica(b[r]) /\ b[r].src = a[r].src
    <3>1. b[r] = [node |-> n, src |-> a[r].src, status |-> a[r].status]
      BY <2>3 DEF ReplicasOK, IsReplica
    <3>. QED  BY <3>1 DEF IsReplica
  <2>. QED  BY <2>1, <2>2, <2>3
<1>. QED  BY <1>1, <1>2 DEF ReplicasOK, SourcesKept

(* A new row at the end of a table.                                         *)
LEMMA TransferAppended ==
    ASSUME NEW a, TransfersOK(a), NEW e, IsTransfer(e), e.src \in Releases
    PROVE  /\ TransfersOK(Append(a, e)) /\ SourcesKept(a, Append(a, e))
           /\ Len(a) + 1 \in DOMAIN Append(a, e)
<1>. DEFINE b == Append(a, e)
<1>1. Len(a) \in Nat /\ DOMAIN a = 1 .. Len(a)
  BY SequenceDomain DEF TransfersOK
<1>2. /\ IsSequence(b)
      /\ DOMAIN b = 1 .. Len(a) + 1
      /\ \A i \in DOMAIN a : b[i] = a[i]
      /\ b[Len(a) + 1] = e
  BY SequenceAppend, Zenon DEF TransfersOK
<1>. HIDE DEF b
<1>3. DOMAIN b = DOMAIN a \cup {Len(a) + 1}
  BY <1>1, <1>2
<1>4. TransfersOK(b) /\ SourcesKept(a, b) /\ Len(a) + 1 \in DOMAIN b
  BY <1>2, <1>3 DEF TransfersOK, SourcesKept
<1>. QED  BY <1>4 DEF b

(* So for the replicas.                                                     *)
LEMMA ReplicaAppended ==
    ASSUME NEW a, ReplicasOK(a), NEW e, IsReplica(e), e.src \in Releases
    PROVE  /\ ReplicasOK(Append(a, e)) /\ SourcesKept(a, Append(a, e))
           /\ \A r \in DOMAIN Append(a, e) : \/ r \in DOMAIN a /\ Append(a, e)[r] = a[r]
                                             \/ Append(a, e)[r] = e
<1>. DEFINE b == Append(a, e)
<1>1. Len(a) \in Nat /\ DOMAIN a = 1 .. Len(a)
  BY SequenceDomain DEF ReplicasOK
<1>2. /\ IsSequence(b)
      /\ DOMAIN b = 1 .. Len(a) + 1
      /\ \A i \in DOMAIN a : b[i] = a[i]
      /\ b[Len(a) + 1] = e
  BY SequenceAppend, Zenon DEF ReplicasOK
<1>. HIDE DEF b
<1>3. DOMAIN b = DOMAIN a \cup {Len(a) + 1}
  BY <1>1, <1>2
<1>4. /\ ReplicasOK(b) /\ SourcesKept(a, b)
      /\ \A r \in DOMAIN b : (r \in DOMAIN a /\ b[r] = a[r]) \/ b[r] = e
  BY <1>2, <1>3 DEF ReplicasOK, SourcesKept
<1>. QED  BY <1>4 DEF b

(* More transfers or replicas take nothing from a command.                  *)
LEMMA CommandsWidened ==
    ASSUME NEW cs, NEW xs, NEW rs, CommandsOK(cs, xs, rs),
           NEW ys, NEW qs, DOMAIN xs \subseteq DOMAIN ys, DOMAIN rs \subseteq DOMAIN qs
    PROVE  CommandsOK(cs, ys, qs)
BY DEF CommandsOK, CommandOK

(* Rewriting the status of commands.                                        *)
LEMMA CommandsRewritten ==
    ASSUME NEW a, NEW xs, NEW rs, CommandsOK(a, xs, rs), NEW b, Rewritten(a, b)
    PROVE  CommandsOK(b, xs, rs) /\ CommandsKept(a, b)
<1>1. IsSequence(b)
  BY SequenceRewritten DEF CommandsOK, Rewritten
<1>2. ASSUME NEW c \in DOMAIN a
      PROVE  /\ CommandOK(b[c], xs, rs)
             /\ b[c].kind = a[c].kind /\ b[c].x = a[c].x /\ b[c].claim = a[c].claim
  <2>1. CASE b[c] = a[c]
    BY <2>1 DEF CommandsOK
  <2>2. ASSUME NEW st, b[c] = [a[c] EXCEPT !.status = st]
        PROVE  /\ CommandOK(b[c], xs, rs)
               /\ b[c].kind = a[c].kind /\ b[c].x = a[c].x /\ b[c].claim = a[c].claim
    <3>1. b[c] = [kind |-> a[c].kind, node |-> a[c].node, x |-> a[c].x, act |-> a[c].act,
                  status |-> st, claim |-> a[c].claim]
      BY <2>2 DEF CommandsOK, CommandOK, IsCommand
    <3>. QED  BY <3>1 DEF CommandsOK, CommandOK, IsCommand
  <2>. QED  BY <2>1, <2>2 DEF Rewritten
<1>. QED  BY <1>1, <1>2 DEF CommandsOK, CommandsKept, Rewritten

(* Commands put in the queue.                                               *)
LEMMA CommandsQueued ==
    ASSUME NEW a, NEW xs, NEW rs, CommandsOK(a, xs, rs),
           NEW q, IsSequence(q), \A i \in DOMAIN q : CommandOK(q[i], xs, rs)
    PROVE  CommandsOK(a \o q, xs, rs) /\ CommandsKept(a, a \o q)
<1>. DEFINE b == a \o q
<1>1. IsSequence(a) /\ Len(a) \in Nat /\ DOMAIN a = 1 .. Len(a)
      /\ Len(q) \in Nat /\ DOMAIN q = 1 .. Len(q)
  BY SequenceDomain DEF CommandsOK
<1>2. /\ IsSequence(b)
      /\ DOMAIN b = 1 .. Len(a) + Len(q)
      /\ \A i \in DOMAIN a : b[i] = a[i]
      /\ \A c \in DOMAIN b \ DOMAIN a : \E i \in DOMAIN q : b[c] = q[i]
  BY <1>1, SequenceConcat, Zenon
<1>. HIDE DEF b
<1>3. DOMAIN a \subseteq DOMAIN b
  BY <1>1, <1>2
<1>4. CommandsOK(b, xs, rs) /\ CommandsKept(a, b)
  BY <1>2, <1>3 DEF CommandsOK, CommandsKept
<1>. QED  BY <1>4 DEF b

(* A new command is about a row there is.                                   *)
LEMMA NewCommand ==
    ASSUME NEW kind \in {"transfer", "stop", "remove"}, NEW n, NEW x, NEW act, NEW xs, NEW rs,
           kind = "transfer" => x \in DOMAIN xs, kind = "remove" => x \in DOMAIN rs
    PROVE  CommandOK(Command(kind, n, x, act), xs, rs)
BY DEF CommandOK, IsCommand, Command

(* One command put in the queue.                                            *)
LEMMA CommandQueued ==
    ASSUME NEW a, NEW xs, NEW rs, CommandsOK(a, xs, rs), NEW e, CommandOK(e, xs, rs)
    PROVE  /\ CommandsOK(a \o <<e>>, xs, rs) /\ CommandsKept(a, a \o <<e>>)
           /\ CommandsOK(Append(a, e), xs, rs) /\ CommandsKept(a, Append(a, e))
<1>1. IsSequence(<<e>>) /\ \A i \in DOMAIN <<e>> : <<e>>[i] = e
  <2>1. <<e>> \in Seq({e}) /\ \A i \in DOMAIN <<e>> : <<e>>[i] = e
    OBVIOUS
  <2>. QED  BY <2>1, SequenceOf
<1>2. CommandsOK(a \o <<e>>, xs, rs) /\ CommandsKept(a, a \o <<e>>)
  <2>1. \A i \in DOMAIN <<e>> : CommandOK(<<e>>[i], xs, rs)
    BY <1>1, Zenon
  <2>. QED  BY <1>1, <2>1, CommandsQueued, Zenon
<1>3. Append(a, e) = a \o <<e>>
  BY DEF CommandsOK, IsSequence
<1>. QED  BY <1>2, <1>3, Zenon

-----------------------------------------------------------------------------
(* The tables stay as they are.                                             *)
LEMMA TablesStay ==
    ASSUME RowsOK, xfers' = xfers, cmds' = cmds, replicas' = replicas
    PROVE  TablesStep({})
BY DEF RowsOK, TransfersOK, ReplicasOK, CommandsOK, CommandOK, IsCommand, IsTransfer, IsReplica,
       TablesStep, RowsKept, SourcesKept, CommandsKept, OffersOnly

(* Transfers and commands change, replicas do not.                          *)
LEMMA ReplicasStay ==
    ASSUME RowsOK, replicas' = replicas, TransfersOK(xfers'), SourcesKept(xfers, xfers'),
           CommandsOK(cmds', xfers', replicas), CommandsKept(cmds, cmds')
    PROVE  TablesStep({})
BY DEF RowsOK, ReplicasOK, TablesStep, RowsKept, SourcesKept, OffersOnly

(* The transfer that brings a detached replica back is of its release.      *)
LEMMA RecoveryRow ==
    ASSUME NEW n, NEW xs, NEW rs, ReplicasOK(rs), RecoveryDue(n, xs, rs)
    PROVE  IsTransfer(Recovery(n, xs, rs)) /\ Recovery(n, xs, rs).src \in Releases
<1>. DEFINE D == Detached(n, xs, rs)
            r == CHOOSE q \in D : \A p \in D : q <= p
<1>1. D # {} /\ D \subseteq DOMAIN rs
  BY DEF RecoveryDue, Detached
<1>2. D \subseteq Nat
  BY <1>1, SequenceDomain DEF ReplicasOK
<1>3. \E m \in D : \A k \in D : m <= k
  BY <1>1, <1>2, LeastRow
<1>4. r \in D
  BY <1>3
<1>5. Recovery(n, xs, rs) = [node |-> n, src |-> rs[r].src, status |-> "queued", rec |-> r]
  BY DEF Recovery
<1>. HIDE DEF r, D
<1>6. rs[r].src \in Releases
  BY <1>1, <1>4 DEF ReplicasOK
<1>. QED  BY <1>5, <1>6 DEF IsTransfer

(* The requests of users.                                                   *)
LEMMA UserDataTables ==
    ASSUME RowsOK, UserData
    PROVE  TablesStep({})
<1>1. /\ TransfersOK(xfers) /\ ReplicasOK(replicas) /\ CommandsOK(cmds, xfers, replicas)
      /\ Len(xfers) \in Nat /\ DOMAIN xfers = 1 .. Len(xfers) /\ IsSequence(xfers)
  BY SequenceDomain DEF RowsOK, TransfersOK
<1>2. ASSUME NEW n \in Nodes, NEW ds \in SUBSET Releases, CreateTransfers(n, ds)
      PROVE  TablesStep({})
  <2>. DEFINE new == SetToSeq(ds)
              ready == InRowOrder({i \in DOMAIN new : source[new[i]] = "ready"})
              rows == [i \in DOMAIN new |->
                         [node |-> n, src |-> new[i], rec |-> 0,
                          status |-> IF source[new[i]] = "ready" THEN "queued" ELSE "preparing"]]
              q == [i \in DOMAIN ready |-> TransferCommand(n, Len(xfers) + ready[i])]
  <2>1. IsFiniteSet(ds)
    BY FS_Subset, ReleasesAssumption
  <2>2. PICK k \in Nat : DOMAIN new = 1 .. k
    BY <2>1, ListDomain
  <2>3. \A i \in DOMAIN new : new[i] \in Releases
    BY <2>1, ListMembers
  <2>4. IsFiniteSet({i \in DOMAIN new : source[new[i]] = "ready"})
    BY <2>2, FS_Interval, FS_Subset
  <2>5. PICK m \in Nat : DOMAIN ready = 1 .. m
    BY <2>4, RowOrderDomain
  <2>6. \A i \in DOMAIN ready : ready[i] \in DOMAIN new
    <3>1. {i \in DOMAIN new : source[new[i]] = "ready"} \subseteq Nat
      BY <2>2
    <3>. QED  BY <2>4, <3>1, RowOrderMembers
  <2>7. xfers' = xfers \o rows /\ cmds' = cmds \o q /\ replicas' = replicas
    BY <1>2 DEF CreateTransfers, Queue
  <2>. HIDE DEF new, ready
  <2>8. IsSequence(rows) /\ DOMAIN rows = 1 .. k /\ Len(rows) \in Nat /\ Len(rows) = k
    <3>1. DOMAIN rows = 1 .. k
      BY <2>2
    <3>2. IsSequence(rows)
      BY <2>2, SequenceOn
    <3>3. Len(rows) \in Nat /\ DOMAIN rows = 1 .. Len(rows)
      BY <3>2, SequenceDomain
    <3>. HIDE DEF rows
    <3>. QED  BY <3>1, <3>2, <3>3
  <2>9. \A i \in DOMAIN rows : IsTransfer(rows[i]) /\ rows[i].src \in Releases
    BY <2>3 DEF IsTransfer
  <2>10. /\ IsSequence(xfers') /\ DOMAIN xfers' = 1 .. Len(xfers) + k
         /\ \A i \in DOMAIN xfers : xfers'[i] = xfers[i]
         /\ \A c \in DOMAIN xfers' \ DOMAIN xfers : \E i \in DOMAIN rows : xfers'[c] = rows[i]
    <3>. HIDE DEF rows
    <3>1. /\ IsSequence(xfers \o rows) /\ DOMAIN (xfers \o rows) = 1 .. Len(xfers) + Len(rows)
          /\ \A i \in DOMAIN xfers : (xfers \o rows)[i] = xfers[i]
          /\ \A c \in DOMAIN (xfers \o rows) \ DOMAIN xfers : \E i \in DOMAIN rows : (xfers \o rows)[c] = rows[i]
      BY <1>1, <2>8, SequenceConcat, Zenon
    <3>. QED  BY <2>7, <2>8, <3>1
  <2>11. DOMAIN xfers \subseteq DOMAIN xfers'
    BY <1>1, <2>2, <2>10
  <2>12. TransfersOK(xfers') /\ SourcesKept(xfers, xfers')
    <3>. HIDE DEF rows
    <3>. QED  BY <1>1, <2>9, <2>10, <2>11 DEF TransfersOK, SourcesKept
  <2>13. \A i \in DOMAIN q : CommandOK(q[i], xfers', replicas)
    <3>1. ASSUME NEW i \in DOMAIN ready
          PROVE  Len(xfers) + ready[i] \in DOMAIN xfers'
      BY <1>1, <2>2, <2>6, <2>10
    <3>. QED  BY <3>1, NewCommand DEF TransferCommand
  <2>14. IsSequence(q)
    BY <2>5, SequenceOn
  <2>. HIDE DEF q
  <2>15. CommandsOK(cmds, xfers', replicas)
    BY <1>1, <2>11, CommandsWidened
  <2>16. CommandsOK(cmds', xfers', replicas) /\ CommandsKept(cmds, cmds')
    BY <2>7, <2>13, <2>14, <2>15, CommandsQueued, Zenon
  <2>. QED  BY <2>7, <2>12, <2>16, ReplicasStay
<1>3. ASSUME NEW t \in DOMAIN xfers, NEW s, SetStatus(t, s)
      PROVE  TransfersOK(xfers') /\ SourcesKept(xfers, xfers') /\ DOMAIN xfers' = DOMAIN xfers
             /\ CommandsOK(cmds, xfers', replicas)
  <2>1. TransfersOK(xfers') /\ SourcesKept(xfers, xfers') /\ DOMAIN xfers' = DOMAIN xfers
    BY <1>1, <1>3, TransferStatus DEF SetStatus
  <2>. QED  BY <1>1, <2>1, CommandsWidened
<1>4. ASSUME NEW t \in DOMAIN xfers, NEW act, NEW atWorker, StopTransfer(t, act, atWorker)
      PROVE  TablesStep({})
  <2>1. /\ TransfersOK(xfers') /\ SourcesKept(xfers, xfers') /\ DOMAIN xfers' = DOMAIN xfers
        /\ CommandsOK(cmds, xfers', replicas) /\ replicas' = replicas
    BY <1>3, <1>4 DEF StopTransfer
  <2>2. CASE atWorker
    <3>1. cmds' = cmds \o <<Command("stop", xfers[t].node, t, act)>>
      BY <1>4, <2>2 DEF StopTransfer, Queue
    <3>2. CommandOK(Command("stop", xfers[t].node, t, act), xfers', replicas)
      BY NewCommand
    <3>3. CommandsOK(cmds', xfers', replicas) /\ CommandsKept(cmds, cmds')
      BY <2>1, <3>1, <3>2, CommandQueued, Zenon
    <3>. QED  BY <2>1, <3>3, ReplicasStay
  <2>3. CASE ~atWorker
    <3>1. cmds' = cmds \/ cmds' = CancelQueued(t)
      BY <1>4, <2>3 DEF StopTransfer
    <3>2. Rewritten(cmds, CancelQueued(t)) /\ Rewritten(cmds, cmds)
      BY <1>1, SequenceDomain DEF Rewritten, CancelQueued, CommandsOK, IsSequence
    <3>3. CommandsOK(cmds', xfers', replicas) /\ CommandsKept(cmds, cmds')
      BY <2>1, <3>1, <3>2, CommandsRewritten
    <3>. QED  BY <2>1, <3>3, ReplicasStay
  <2>. QED  BY <2>2, <2>3
<1>5. ASSUME NEW t \in DOMAIN xfers, PauseTransfer(t) \/ CancelTransfer(t)
      PROVE  TablesStep({})
  BY <1>4, <1>5 DEF PauseTransfer, CancelTransfer
<1>6. ASSUME NEW t \in DOMAIN xfers, RetryTransfer(t)
      PROVE  TablesStep({})
  <2>1. /\ TransfersOK(xfers') /\ SourcesKept(xfers, xfers') /\ DOMAIN xfers' = DOMAIN xfers
        /\ CommandsOK(cmds, xfers', replicas) /\ replicas' = replicas
    BY <1>3, <1>6 DEF RetryTransfer
  <2>2. CASE source[xfers[t].src] = "ready"
    <3>1. cmds' = cmds \o <<TransferCommand(xfers[t].node, t)>>
      BY <1>6, <2>2 DEF RetryTransfer, Queue
    <3>2. CommandOK(TransferCommand(xfers[t].node, t), xfers', replicas)
      BY <2>1, NewCommand DEF TransferCommand
    <3>3. CommandsOK(cmds', xfers', replicas) /\ CommandsKept(cmds, cmds')
      BY <2>1, <3>1, <3>2, CommandQueued, Zenon
    <3>. QED  BY <2>1, <3>3, ReplicasStay
  <2>3. CASE source[xfers[t].src] # "ready"
    <3>1. cmds' = cmds
      BY <1>1, <1>6, <2>3 DEF RetryTransfer, Queue, CommandsOK, IsSequence
    <3>. QED  BY <2>1, <3>1, ReplicasStay DEF CommandsKept
  <2>. QED  BY <2>2, <2>3
<1>7. ASSUME NEW r \in DOMAIN replicas, RemoveReplica(r)
      PROVE  TablesStep({})
  <2>1. /\ xfers' = xfers /\ replicas' = [replicas EXCEPT ![r].status = "removing"]
        /\ cmds' = cmds \o <<Command("remove", replicas[r].node, r, "none")>>
    BY <1>7 DEF RemoveReplica, Queue
  <2>2. ReplicasOK(replicas') /\ SourcesKept(replicas, replicas') /\ DOMAIN replicas' = DOMAIN replicas
    BY <1>1, <2>1, ReplicasRewritten
  <2>3. CommandOK(Command("remove", replicas[r].node, r, "none"), xfers', replicas')
    BY <2>2, NewCommand
  <2>4. CommandsOK(cmds, xfers', replicas')
    BY <1>1, <2>1, <2>2, CommandsWidened
  <2>5. CommandsOK(cmds', xfers', replicas') /\ CommandsKept(cmds, cmds')
    BY <2>1, <2>3, <2>4, CommandQueued, Zenon
  <2>6. OffersOnly({})
    <3>1. replicas'[r].status = "removing"
      BY <1>1, <2>1 DEF ReplicasOK, IsReplica
    <3>. QED  BY <2>1, <3>1 DEF OffersOnly
  <2>. QED  BY <1>1, <2>1, <2>2, <2>5, <2>6 DEF TablesStep, RowsOK, RowsKept, SourcesKept
<1>. QED  BY <1>2, <1>5, <1>6, <1>7 DEF UserData

(* The preparation of a source manifest queues transfers that wait for it.  *)
LEMMA PreparationTables ==
    ASSUME RowsOK, Preparation
    PROVE  TablesStep({})
<1>1. /\ TransfersOK(xfers) /\ CommandsOK(cmds, xfers, replicas)
      /\ Len(xfers) \in Nat /\ DOMAIN xfers = 1 .. Len(xfers)
  BY SequenceDomain DEF RowsOK, TransfersOK
<1>2. ASSUME NEW d \in Releases, ClaimPreparation(d)
      PROVE  TablesStep({})
  BY <1>2, TablesStay DEF ClaimPreparation
<1>3. ASSUME NEW s, xfers' = [t \in DOMAIN xfers |->
                       IF t \in Waiting(prep) THEN [xfers[t] EXCEPT !.status = s] ELSE xfers[t]]
      PROVE  /\ TransfersOK(xfers') /\ SourcesKept(xfers, xfers') /\ DOMAIN xfers' = DOMAIN xfers
             /\ CommandsOK(cmds, xfers', replicas)
  <2>1. TransfersOK(xfers') /\ SourcesKept(xfers, xfers') /\ DOMAIN xfers' = DOMAIN xfers
    BY <1>1, <1>3, TransfersRewritten
  <2>. QED  BY <1>1, <2>1, CommandsWidened
<1>4. CASE CompletePreparation
  <2>. DEFINE S == {t \in Waiting(prep) : Live(xfers[t].node)}
              ts == InRowOrder(S)
              q == [i \in DOMAIN ts |-> TransferCommand(xfers[ts[i]].node, ts[i])]
  <2>1. IsFiniteSet(S) /\ S \subseteq Nat /\ S \subseteq DOMAIN xfers
    <3>1. S \subseteq DOMAIN xfers
      BY DEF Waiting
    <3>2. IsFiniteSet(DOMAIN xfers) /\ DOMAIN xfers \subseteq Nat
      BY <1>1, FS_Interval
    <3>. HIDE DEF S
    <3>. QED  BY <3>1, <3>2, FS_Subset
  <2>2. PICK m \in Nat : DOMAIN ts = 1 .. m
    BY <2>1, RowOrderDomain
  <2>3. \A i \in DOMAIN ts : ts[i] \in DOMAIN xfers
    BY <2>1, RowOrderMembers
  <2>4. /\ TransfersOK(xfers') /\ SourcesKept(xfers, xfers') /\ DOMAIN xfers' = DOMAIN xfers
        /\ CommandsOK(cmds, xfers', replicas)
    BY <1>3, <1>4 DEF CompletePreparation
  <2>5. cmds' = cmds \o q /\ replicas' = replicas
    BY <1>4 DEF CompletePreparation, Queue
  <2>. HIDE DEF ts
  <2>6. IsSequence(q)
    BY <2>2, SequenceOn
  <2>7. \A i \in DOMAIN q : CommandOK(q[i], xfers', replicas)
    BY <2>3, <2>4, NewCommand DEF TransferCommand
  <2>. HIDE DEF q
  <2>8. CommandsOK(cmds', xfers', replicas) /\ CommandsKept(cmds, cmds')
    BY <2>4, <2>5, <2>6, <2>7, CommandsQueued, Zenon
  <2>. QED  BY <2>4, <2>5, <2>8, ReplicasStay
<1>5. CASE FailPreparation
  <2>1. /\ TransfersOK(xfers') /\ SourcesKept(xfers, xfers')
        /\ CommandsOK(cmds, xfers', replicas) /\ cmds' = cmds /\ replicas' = replicas
    BY <1>3, <1>5 DEF FailPreparation
  <2>. QED  BY <2>1, ReplicasStay DEF CommandsKept
<1>. QED  BY <1>2, <1>4, <1>5 DEF Preparation

(* A heartbeat, which may ask for the recovery of a replica.                *)
LEMMA HeartbeatTables ==
    ASSUME RowsOK, Heartbeats
    PROVE  TablesStep({})
<1>1. PICK n \in Nodes, s \in {"online", "degraded", "repair_required"} : Heartbeat(n, s)
  BY DEF Heartbeats
<1>2. CASE s = "online" /\ RecoveryDue(n, xfers, replicas)
  <2>. DEFINE row == Recovery(n, xfers, replicas)
              e == TransferCommand(n, Len(xfers) + 1)
  <2>1. xfers' = Append(xfers, row) /\ cmds' = Append(cmds, e) /\ replicas' = replicas
    BY <1>1, <1>2 DEF Heartbeat
  <2>2. IsTransfer(row) /\ row.src \in Releases
    BY <1>2, RecoveryRow DEF RowsOK
  <2>. HIDE DEF row
  <2>3. TransfersOK(xfers') /\ SourcesKept(xfers, xfers') /\ Len(xfers) + 1 \in DOMAIN xfers'
    BY <2>1, <2>2, TransferAppended, Zenon DEF RowsOK
  <2>4. CommandsOK(cmds, xfers', replicas)
    BY <2>3, CommandsWidened DEF RowsOK, SourcesKept
  <2>5. CommandOK(e, xfers', replicas)
    BY <2>3, NewCommand DEF TransferCommand
  <2>. HIDE DEF e
  <2>6. CommandsOK(cmds', xfers', replicas) /\ CommandsKept(cmds, cmds')
    BY <2>1, <2>4, <2>5, CommandQueued, Zenon
  <2>. QED  BY <2>1, <2>3, <2>6, ReplicasStay
<1>3. CASE ~(s = "online" /\ RecoveryDue(n, xfers, replicas))
  BY <1>1, <1>3, TablesStay DEF Heartbeat
<1>. QED  BY <1>2, <1>3

(* The replicas of a deleted node are left without one.                     *)
LEMMA DeleteTables ==
    ASSUME RowsOK, UserDeletes
    PROVE  TablesStep({})
<1>1. PICK n \in Nodes : DeleteNode(n)
  BY DEF UserDeletes
<1>2. /\ replicas' = [r \in DOMAIN replicas |->
                        IF replicas[r].node = n THEN [replicas[r] EXCEPT !.node = None] ELSE replicas[r]]
      /\ xfers' = xfers /\ cmds' = cmds
  BY <1>1 DEF DeleteNode
<1>3. ReplicasOK(replicas') /\ SourcesKept(replicas, replicas') /\ DOMAIN replicas' = DOMAIN replicas
  BY <1>2, ReplicasRewritten DEF RowsOK
<1>4. \A r \in DOMAIN replicas : replicas'[r].status = replicas[r].status
  BY <1>2 DEF RowsOK, ReplicasOK, IsReplica
<1>5. CommandsOK(cmds', xfers', replicas')
  BY <1>2, <1>3, CommandsWidened DEF RowsOK
<1>. QED  BY <1>2, <1>3, <1>4, <1>5 DEF TablesStep, RowsOK, RowsKept, SourcesKept, CommandsKept, OffersOnly

(* A claim takes back what ran out and hands out one command.               *)
LEMMA ClaimTables ==
    ASSUME RowsOK, NEW n, NEW E, NEW c, ClaimCommands(n, E, c)
    PROVE  /\ TablesStep({})
           /\ c # None => c \in DOMAIN cmds /\ cmds'[c].claim # 0
<1>. DEFINE cs == Requeued(E)
            first == Oldest(Claimable(n, cs))
<1>1. TransfersOK(xfers) /\ CommandsOK(cmds, xfers, replicas)
  BY DEF RowsOK
<1>2. Rewritten(cmds, cs) /\ DOMAIN cs = DOMAIN cmds
  BY DEF Rewritten, Requeued
<1>3. CommandsOK(cs, xfers, replicas) /\ CommandsKept(cmds, cs)
  BY <1>1, <1>2, CommandsRewritten
<1>4. TransfersOK(xfers') /\ SourcesKept(xfers, xfers') /\ DOMAIN xfers' = DOMAIN xfers
  <2>1. PICK S : xfers' = SettledTransfers(S)
    BY DEF ClaimCommands
  <2>2. \A x : Settle(x) = x \/ \E s : Settle(x) = [x EXCEPT !.status = s]
    BY DEF Settle
  <2>3. /\ DOMAIN xfers' = DOMAIN xfers /\ xfers' = [t \in DOMAIN xfers' |-> xfers'[t]]
        /\ \A t \in DOMAIN xfers : xfers'[t] = xfers[t] \/ xfers'[t] = Settle(xfers[t])
    BY <2>1 DEF SettledTransfers
  <2>4. \A t \in DOMAIN xfers : xfers'[t] = xfers[t] \/ \E s : xfers'[t] = [xfers[t] EXCEPT !.status = s]
    BY <2>2, <2>3
  <2>. QED  BY <1>1, <2>3, <2>4, TransfersRewritten
<1>5. replicas' = replicas
  BY DEF ClaimCommands
<1>. HIDE DEF cs
<1>6. CASE /\ c # None /\ c \in first
           /\ cmds' = [cs EXCEPT ![c].status = "running", ![c].claim = @ + 1]
  <2>1. c \in DOMAIN cs
    BY <1>6 DEF Oldest, Claimable
  <2>2. DOMAIN cmds' = DOMAIN cs /\ \A b \in DOMAIN cs : b # c => cmds'[b] = cs[b]
    BY <1>6
  <2>3. cmds'[c] = [kind |-> cs[c].kind, node |-> cs[c].node, x |-> cs[c].x, act |-> cs[c].act,
                    status |-> "running", claim |-> cs[c].claim + 1]
    <3>. DEFINE mid == [cs[c] EXCEPT !.status = "running"]
    <3>1. mid = [kind |-> cs[c].kind, node |-> cs[c].node, x |-> cs[c].x, act |-> cs[c].act,
                 status |-> "running", claim |-> cs[c].claim]
      BY <1>3, <2>1 DEF CommandsOK, CommandOK, IsCommand
    <3>2. cmds'[c] = [mid EXCEPT !.claim = mid.claim + 1]
      BY <1>6, <2>1
    <3>. HIDE DEF mid
    <3>. QED  BY <3>1, <3>2
  <2>4. cs[c].claim \in Nat /\ CommandOK(cs[c], xfers, replicas)
    BY <1>3, <2>1 DEF CommandsOK, CommandOK
  <2>5. /\ CommandOK(cmds'[c], xfers, replicas) /\ cmds'[c].claim # 0
        /\ cmds'[c].kind = cs[c].kind /\ cmds'[c].x = cs[c].x
    BY <2>3, <2>4 DEF CommandOK, IsCommand
  <2>6. IsSequence(cmds')
    BY <1>3, <1>6, SequenceRewritten DEF CommandsOK
  <2>7. CommandsOK(cmds', xfers, replicas) /\ CommandsKept(cs, cmds')
    BY <1>3, <2>2, <2>5, <2>6 DEF CommandsOK, CommandsKept
  <2>8. CommandsOK(cmds', xfers', replicas) /\ CommandsKept(cmds, cmds')
    BY <1>3, <1>4, <2>7, CommandsWidened DEF CommandsKept
  <2>. QED  BY <1>2, <1>4, <1>5, <2>1, <2>5, <2>8, ReplicasStay
<1>7. CASE /\ c = None
           /\ cmds' = [b \in DOMAIN cs |->
                       IF b \in first THEN [cs[b] EXCEPT !.status = "cancelled"] ELSE cs[b]]
  <2>1. Rewritten(cs, cmds')
    BY <1>7 DEF Rewritten
  <2>2. CommandsOK(cmds', xfers, replicas) /\ CommandsKept(cs, cmds')
    BY <1>3, <2>1, CommandsRewritten
  <2>3. CommandsOK(cmds', xfers', replicas) /\ CommandsKept(cmds, cmds')
    BY <1>3, <1>4, <2>2, CommandsWidened DEF CommandsKept
  <2>. QED  BY <1>4, <1>5, <1>7, <2>3, ReplicasStay
<1>. QED  BY <1>6, <1>7 DEF ClaimCommands, cs

(* A step that only reads replicas offers none; one that makes rs of them   *)
(* offers those that became ready.                                          *)
NewlyReady(rs, S) ==
    \A r \in DOMAIN rs :
       rs[r].status = "ready"
          => \/ r \in DOMAIN replicas /\ replicas[r].status = "ready"
             \/ rs[r].src \in S

(* The replica of a transfer that succeeded.                                *)
LEMMA ReplicaOfTransfer ==
    ASSUME RowsOK, NEW t \in DOMAIN xfers
    PROVE  /\ ReplicasOK(Rebound(t)) /\ SourcesKept(replicas, Rebound(t))
           /\ NewlyReady(Rebound(t), {})
           /\ ReplicasOK(Upserted(t)) /\ SourcesKept(replicas, Upserted(t))
           /\ NewlyReady(Upserted(t), {xfers[t].src})
<1>1. ReplicasOK(replicas) /\ xfers[t].src \in Releases
  BY DEF RowsOK, TransfersOK
<1>2. ReplicasOK(Rebound(t)) /\ SourcesKept(replicas, Rebound(t)) /\ NewlyReady(Rebound(t), {})
  <2>. DEFINE b == Rebound(t)
  <2>1. /\ DOMAIN b = DOMAIN replicas /\ b = [r \in DOMAIN b |-> b[r]]
        /\ \A r \in DOMAIN replicas : b[r] = replicas[r] \/ b[r] = [replicas[r] EXCEPT !.node = xfers[t].node]
    BY DEF Rebound
  <2>. HIDE DEF b
  <2>2. ReplicasOK(b) /\ SourcesKept(replicas, b)
    BY <1>1, <2>1, ReplicasRewritten
  <2>3. \A r \in DOMAIN replicas : b[r].status = replicas[r].status
    BY <1>1, <2>1 DEF ReplicasOK, IsReplica
  <2>4. NewlyReady(b, {})
    BY <2>1, <2>3 DEF NewlyReady
  <2>. QED  BY <2>2, <2>4 DEF b
<1>3. ReplicasOK(Upserted(t)) /\ SourcesKept(replicas, Upserted(t)) /\ NewlyReady(Upserted(t), {xfers[t].src})
  <2>. DEFINE own == {r \in DOMAIN replicas : replicas[r].node = xfers[t].node
                                              /\ replicas[r].src = xfers[t].src
                                              /\ replicas[r].status # "gone"}
              e == [node |-> xfers[t].node, src |-> xfers[t].src, status |-> "ready"]
              w == [r \in DOMAIN replicas |->
                      IF r \in own THEN [replicas[r] EXCEPT !.status = "ready"] ELSE replicas[r]]
  <2>1. CASE own = {}
    <3>1. Upserted(t) = Append(replicas, e)
      BY <2>1 DEF Upserted
    <3>2. IsReplica(e) /\ e.src = xfers[t].src
      BY DEF IsReplica
    <3>. HIDE DEF e
    <3>3. /\ ReplicasOK(Append(replicas, e)) /\ SourcesKept(replicas, Append(replicas, e))
          /\ \A r \in DOMAIN Append(replicas, e) :
                \/ r \in DOMAIN replicas /\ Append(replicas, e)[r] = replicas[r]
                \/ Append(replicas, e)[r] = e
      BY <1>1, <3>2, ReplicaAppended
    <3>4. NewlyReady(Append(replicas, e), {xfers[t].src})
      BY <3>2, <3>3 DEF NewlyReady
    <3>. QED  BY <3>1, <3>3, <3>4
  <2>2. CASE own # {}
    <3>1. Upserted(t) = w
      BY <2>2 DEF Upserted
    <3>2. /\ DOMAIN w = DOMAIN replicas /\ w = [r \in DOMAIN w |-> w[r]]
          /\ \A r \in DOMAIN replicas : w[r] = replicas[r] \/ w[r] = [replicas[r] EXCEPT !.status = "ready"]
          /\ \A r \in DOMAIN replicas : w[r] = replicas[r] \/ replicas[r].src = xfers[t].src
      OBVIOUS
    <3>. HIDE DEF w
    <3>3. ReplicasOK(w) /\ SourcesKept(replicas, w)
      BY <1>1, <3>2, ReplicasRewritten
    <3>4. NewlyReady(w, {xfers[t].src})
      BY <3>2, <3>3 DEF NewlyReady, SourcesKept
    <3>. QED  BY <3>1, <3>3, <3>4
  <2>. QED  BY <2>1, <2>2
<1>. QED  BY <1>2, <1>3

(* The result of a transfer.                                                *)
LEMMA TransferEndsTables ==
    ASSUME RowsOK, NEW c \in DOMAIN cmds, cmds[c].kind = "transfer", NEW k, NEW res,
           TransferEnds(c, k, res)
    PROVE  TablesStep(IF res = "succeeded" THEN {xfers[cmds[c].x].src} ELSE {})
<1>. DEFINE t == cmds[c].x
            n == xfers[t].node
            st == IF res = "succeeded" /\ xfers[t].rec # 0 /\ ~Recoverable(t) THEN "failed" ELSE res
            rs == IF st # "succeeded" THEN replicas
                  ELSE IF xfers[t].rec # 0 THEN Rebound(t) ELSE Upserted(t)
            xs == [xfers EXCEPT ![t].status = st]
            end == IF res = "failed" THEN "failed"
                   ELSE IF res = "succeeded" THEN "succeeded" ELSE "cancelled"
            ended == [cmds EXCEPT ![c].status = end]
            next == xfers[t].rec # 0 /\ Live(n) /\ RecoveryDue(n, xs, rs)
            row == Recovery(n, xs, rs)
            e == TransferCommand(n, Len(xs) + 1)
            S == IF res = "succeeded" THEN {xfers[t].src} ELSE {}
<1>1. /\ xfers' = IF next THEN Append(xs, row) ELSE xs
      /\ cmds' = IF next THEN Append(ended, e) ELSE ended
      /\ replicas' = rs
  BY DEF TransferEnds
<1>2. t \in DOMAIN xfers /\ TransfersOK(xfers) /\ ReplicasOK(replicas) /\ CommandsOK(cmds, xfers, replicas)
  BY DEF RowsOK, CommandsOK, CommandOK
<1>3. TransfersOK(xs) /\ SourcesKept(xfers, xs) /\ DOMAIN xs = DOMAIN xfers
  BY <1>2, TransferStatus
<1>4. ReplicasOK(rs) /\ SourcesKept(replicas, rs) /\ NewlyReady(rs, S)
  <2>1. NewlyReady(replicas, S) /\ SourcesKept(replicas, replicas)
    BY DEF NewlyReady, SourcesKept
  <2>2. /\ ReplicasOK(Rebound(t)) /\ SourcesKept(replicas, Rebound(t)) /\ NewlyReady(Rebound(t), S)
        /\ ReplicasOK(Upserted(t)) /\ SourcesKept(replicas, Upserted(t))
        /\ NewlyReady(Upserted(t), {xfers[t].src})
    BY <1>2, ReplicaOfTransfer DEF NewlyReady
  <2>3. st = "succeeded" => res = "succeeded"
    OBVIOUS
  <2>. HIDE DEF st, t
  <2>. QED  BY <1>2, <2>1, <2>2, <2>3
<1>5. Rewritten(cmds, ended)
  <2>1. end \in {"queued", "cancelled", "failed", "succeeded"}
    OBVIOUS
  <2>. HIDE DEF end
  <2>. QED  BY <2>1, EndedRewritten
<1>6. CommandsOK(ended, xfers, replicas) /\ CommandsKept(cmds, ended)
  BY <1>2, <1>5, CommandsRewritten
<1>7. CommandsOK(ended, xs, rs)
  BY <1>3, <1>4, <1>6, CommandsWidened DEF SourcesKept
<1>8. /\ TransfersOK(xfers') /\ SourcesKept(xfers, xfers')
      /\ CommandsOK(cmds', xfers', rs) /\ CommandsKept(cmds, cmds')
  <2>. HIDE DEF xs, rs, ended, next, n
  <2>1. CASE next
    <3>1. xfers' = Append(xs, row) /\ cmds' = Append(ended, e)
      BY <1>1, <2>1
    <3>2. IsTransfer(row) /\ row.src \in Releases
      BY <1>4, <2>1, RecoveryRow DEF next
    <3>. HIDE DEF row
    <3>3. TransfersOK(xfers') /\ SourcesKept(xs, xfers') /\ Len(xs) + 1 \in DOMAIN xfers'
      BY <1>3, <3>1, <3>2, TransferAppended, Zenon
    <3>4. CommandsOK(ended, xfers', rs)
      BY <1>7, <3>3, CommandsWidened DEF SourcesKept
    <3>5. CommandOK(e, xfers', rs)
      BY <3>3, NewCommand DEF TransferCommand
    <3>. HIDE DEF e
    <3>6. CommandsOK(cmds', xfers', rs) /\ CommandsKept(ended, cmds')
      BY <3>1, <3>4, <3>5, CommandQueued, Zenon
    <3>7. SourcesKept(xfers, xfers') /\ CommandsKept(cmds, cmds')
      BY <1>3, <1>6, <3>3, <3>6 DEF SourcesKept, CommandsKept
    <3>. QED  BY <3>3, <3>6, <3>7
  <2>2. CASE ~next
    BY <1>1, <1>3, <1>6, <1>7, <2>2
  <2>. QED  BY <2>1, <2>2
<1>9. TablesStep(S)
  <2>. HIDE DEF xs, rs, ended, next, n, S
  <2>. QED  BY <1>1, <1>4, <1>8 DEF TablesStep, RowsOK, RowsKept, OffersOnly, NewlyReady
<1>. QED  BY <1>9

(* The result of a stop, a removal or a report.                             *)
LEMMA OtherResultsTables ==
    ASSUME RowsOK, NEW c, NEW k
    PROVE  /\ ReportProgress(c, k) => TablesStep({})
           /\ \A ok : StopEnds(c, k, ok) => TablesStep({})
           /\ \A ok : RemoveEnds(c, k, ok) => TablesStep({replicas[cmds[c].x].src})
<1>1. TransfersOK(xfers) /\ ReplicasOK(replicas) /\ CommandsOK(cmds, xfers, replicas)
  BY DEF RowsOK
<1>2. ASSUME NEW xs, TransfersOK(xs), SourcesKept(xfers, xs), xfers' = xs, replicas' = replicas,
             Rewritten(cmds, cmds')
      PROVE  TablesStep({})
  <2>1. CommandsOK(cmds', xfers, replicas) /\ CommandsKept(cmds, cmds')
    BY <1>1, <1>2, CommandsRewritten
  <2>2. CommandsOK(cmds', xfers', replicas)
    BY <1>2, <2>1, CommandsWidened DEF SourcesKept
  <2>. QED  BY <1>2, <2>1, <2>2, ReplicasStay
<1>3. TransfersOK(xfers) /\ SourcesKept(xfers, xfers) /\ Rewritten(cmds, cmds)
  BY <1>1 DEF SourcesKept, Rewritten, CommandsOK, IsSequence
<1>4. ASSUME ReportProgress(c, k)
      PROVE  TablesStep({})
  <2>1. PICK s : xfers' = [xfers EXCEPT ![cmds[c].x].status = s]
    BY <1>4 DEF ReportProgress, SetStatus
  <2>2. TransfersOK(xfers') /\ SourcesKept(xfers, xfers')
    BY <1>1, <2>1, TransferStatus
  <2>. QED  BY <1>2, <1>3, <1>4, <2>2 DEF ReportProgress
<1>5. ASSUME NEW ok, StopEnds(c, k, ok) \/ RemoveEnds(c, k, ok)
      PROVE  Rewritten(cmds, cmds')
  <2>. DEFINE end == IF ok THEN "succeeded" ELSE "failed"
  <2>1. cmds' = [cmds EXCEPT ![c].status = end]
    BY <1>5 DEF StopEnds, RemoveEnds, Finished
  <2>2. end \in {"queued", "cancelled", "failed", "succeeded"}
    OBVIOUS
  <2>. HIDE DEF end
  <2>. QED  BY <2>1, <2>2, EndedRewritten
<1>6. ASSUME NEW ok, StopEnds(c, k, ok)
      PROVE  TablesStep({})
  <2>1. xfers' = xfers \/ \E s : xfers' = [xfers EXCEPT ![cmds[c].x].status = s]
    BY <1>6 DEF StopEnds
  <2>2. ASSUME NEW s, xfers' = [xfers EXCEPT ![cmds[c].x].status = s]
        PROVE  TransfersOK(xfers') /\ SourcesKept(xfers, xfers')
    BY <1>1, <2>2, TransferStatus
  <2>3. TransfersOK(xfers') /\ SourcesKept(xfers, xfers')
    BY <1>3, <2>1, <2>2
  <2>. QED  BY <1>2, <1>5, <1>6, <2>3 DEF StopEnds
<1>7. ASSUME NEW ok, RemoveEnds(c, k, ok)
      PROVE  TablesStep({replicas[cmds[c].x].src})
  <2>. DEFINE x == cmds[c].x
  <2>1. xfers' = xfers /\ \E s : replicas' = [replicas EXCEPT ![x].status = s]
    BY <1>7 DEF RemoveEnds
  <2>2. ReplicasOK(replicas') /\ SourcesKept(replicas, replicas') /\ DOMAIN replicas' = DOMAIN replicas
    BY <1>1, <2>1, ReplicasRewritten
  <2>3. CommandsOK(cmds', xfers, replicas) /\ CommandsKept(cmds, cmds')
    BY <1>1, <1>5, <1>7, CommandsRewritten
  <2>4. CommandsOK(cmds', xfers', replicas')
    BY <2>1, <2>2, <2>3, CommandsWidened
  <2>5. OffersOnly({replicas[x].src})
    <3>1. \A r \in DOMAIN replicas : r # x => replicas'[r] = replicas[r]
      BY <2>1
    <3>. QED  BY <2>2, <3>1 DEF OffersOnly, SourcesKept
  <2>. QED  BY <1>3, <2>1, <2>2, <2>3, <2>4, <2>5 DEF TablesStep, RowsOK, RowsKept
<1>. QED  BY <1>4, <1>6, <1>7

-----------------------------------------------------------------------------
(* What is placed and what is handed out stays so, and a replica that is    *)
(* offered anew has its data, when the step offers no more than what is     *)
(* placed and takes a directory away only for a removal.                    *)
LEMMA DiskKept ==
    ASSUME DiskInv, NEW S, TablesStep(S), \A d \in S : Placed(d),
           \A d \in Releases : full[d] = "whole" => full'[d] = "whole" \/ RemovalTaken(d)
    PROVE  /\ \A d \in Releases : Placed(d) => Placed(d)'
           /\ \A v : HandOK(v, cmds) => HandOK(v, cmds')
           /\ \A m : MgrOK(m, cmds) => MgrOK(m, cmds')
           /\ UnremovedReplicaOnDisk'
<1>1. RowsOK /\ RowsOK' /\ RowsKept /\ OffersOnly(S) /\ UnremovedReplicaOnDisk
  BY DEF DiskInv, TablesStep
<1>2. ASSUME NEW d, RemovalTaken(d)
      PROVE  RemovalTaken(d)'
  <2>1. PICK c \in DOMAIN cmds : cmds[c].kind = "remove" /\ cmds[c].claim # 0 /\ replicas[cmds[c].x].src = d
    BY <1>2 DEF RemovalTaken
  <2>2. cmds[c].x \in DOMAIN replicas
    BY <1>1, <2>1 DEF RowsOK, CommandsOK, CommandOK
  <2>3. /\ c \in DOMAIN cmds' /\ cmds'[c].kind = "remove" /\ cmds'[c].claim # 0
        /\ replicas'[cmds'[c].x].src = d
    BY <1>1, <2>1, <2>2 DEF RowsKept, CommandsKept, SourcesKept
  <2>. QED  BY <2>3 DEF RemovalTaken
<1>3. ASSUME NEW d \in Releases, Placed(d)
      PROVE  Placed(d)'
  BY <1>2, <1>3 DEF Placed
<1>4. \A v : HandOK(v, cmds) => HandOK(v, cmds')
  BY <1>1 DEF HandOK, RowsKept, CommandsKept
<1>5. \A m : MgrOK(m, cmds) => MgrOK(m, cmds')
  BY <1>1 DEF MgrOK, RowsKept, CommandsKept
<1>6. ASSUME NEW r \in DOMAIN replicas', NEW d, d = replicas'[r].src,
             replicas'[r].status = "ready", ~RemovalTaken(d)'
      PROVE  full'[d] = "whole"
  <2>1. d \in Releases
    BY <1>1, <1>6 DEF RowsOK, ReplicasOK
  <2>2. CASE r \in DOMAIN replicas /\ replicas[r].status = "ready"
    <3>1. replicas[r].src = d
      BY <1>1, <1>6, <2>2 DEF RowsKept, SourcesKept
    <3>2. Placed(d)
      BY <1>1, <2>2, <3>1 DEF UnremovedReplicaOnDisk, Placed
    <3>. QED  BY <1>3, <1>6, <2>1, <3>2 DEF Placed
  <2>3. CASE d \in S
    BY <1>3, <1>6, <2>1, <2>3 DEF Placed
  <2>. QED  BY <1>1, <1>6, <2>2, <2>3 DEF OffersOnly
<1>7. UnremovedReplicaOnDisk'
  BY <1>6 DEF UnremovedReplicaOnDisk, RemovalTaken
<1>. QED  BY <1>3, <1>4, <1>5, <1>7

(* A step of the tables, of the directories and of the threads.             *)
LEMMA DiskStepKeeps ==
    ASSUME DiskInv, NEW S, TablesStep(S), \A d \in S : Placed(d),
           full' = [d \in Releases |-> full'[d]],
           \A d \in Releases : full[d] = "whole" => full'[d] = "whole" \/ RemovalTaken(d),
           hands' = [h \in Threads |-> hands'[h]],
           \A h \in Threads : hands'[h] = hands[h] \/ HandOK(hands'[h], cmds'),
           mgr' = mgr \/ (MgrOK(mgr', cmds') /\ SuccessIsPlaced')
    PROVE  DiskInv'
<1>1. /\ \A d \in Releases : Placed(d) => Placed(d)'
      /\ \A v : HandOK(v, cmds) => HandOK(v, cmds')
      /\ \A m : MgrOK(m, cmds) => MgrOK(m, cmds')
      /\ UnremovedReplicaOnDisk'
  BY DiskKept
<1>2. \A h \in Threads : HandOK(hands'[h], cmds')
  BY <1>1 DEF DiskInv, WorkerOK
<1>3. MgrOK(mgr', cmds')
  BY <1>1 DEF DiskInv, WorkerOK
<1>4. SuccessIsPlaced'
  <2>1. CASE mgr' = mgr /\ mgr.pc = "publish" /\ mgr.res = "succeeded"
    <3>1. mgr.x \in DOMAIN xfers /\ Placed(xfers[mgr.x].src)
      BY <2>1 DEF DiskInv, WorkerOK, MgrOK, SuccessIsPlaced, Release, RowsOK, CommandsOK, CommandOK
    <3>2. xfers'[mgr.x].src = xfers[mgr.x].src /\ xfers[mgr.x].src \in Releases
      BY <3>1 DEF TablesStep, RowsKept, SourcesKept, DiskInv, RowsOK, TransfersOK
    <3>3. PICK d \in Releases : d = xfers[mgr.x].src
      BY <3>2
    <3>4. Placed(d)'
      BY <1>1, <3>1, <3>3
    <3>5. d = xfers'[mgr'.x].src
      BY <2>1, <3>2, <3>3
    <3>. QED  BY <3>4, <3>5 DEF SuccessIsPlaced, Release, Placed, RemovalTaken
  <2>2. CASE mgr' = mgr /\ ~(mgr.pc = "publish" /\ mgr.res = "succeeded")
    BY <2>2 DEF SuccessIsPlaced
  <2>. QED  BY <2>1, <2>2
<1>. QED  BY <1>1, <1>2, <1>3, <1>4 DEF DiskInv, WorkerOK, TablesStep

(* The threads: those that stop hold nothing.                               *)
LEMMA NothingHeld ==
    ASSUME NEW cs
    PROVE  HandOK(NoHand, cs) /\ MgrOK(NoMgr, cs) /\ NoMgr.pc = "idle"
BY DEF HandOK, MgrOK, NoHand, NoMgr, IsHand, IsMgr

(* The steps that touch neither directories nor threads.                    *)
LEMMA TablesOnly ==
    ASSUME DiskInv, TablesStep({}), full' = full,
           UNCHANGED <<mgr, hands>> \/ WorkerStops
    PROVE  DiskInv'
<1>1. /\ hands' = [h \in Threads |-> hands'[h]]
      /\ \A h \in Threads : hands'[h] = hands[h] \/ HandOK(hands'[h], cmds')
  BY NothingHeld DEF WorkerStops, DiskInv, WorkerOK
<1>2. mgr' = mgr \/ (MgrOK(mgr', cmds') /\ SuccessIsPlaced')
  BY NothingHeld DEF WorkerStops, SuccessIsPlaced
<1>3. full' = [d \in Releases |-> full'[d]]
  BY DEF DiskInv, WorkerOK
<1>. QED  BY <1>1, <1>2, <1>3, DiskStepKeeps

(* One thread that takes commands moves.                                    *)
LEMMA HandMoves ==
    ASSUME DiskInv, NEW h \in Threads, NEW v, Hand(h, v), HandOK(v, cmds')
    PROVE  /\ hands' = [g \in Threads |-> hands'[g]]
           /\ \A g \in Threads : hands'[g] = hands[g] \/ HandOK(hands'[g], cmds')
BY DEF DiskInv, WorkerOK, Hand

(* A thread goes on with the command it holds.                              *)
LEMMA HandGoesOn ==
    ASSUME NEW v, NEW cs, HandOK(v, cs), v.pc # "idle", NEW pc, NEW ok,
           pc \in {"publish", "join"} \/ (pc = "rmtree" /\ v.pc = "remove")
    PROVE  HandOK([v EXCEPT !.pc = pc], cs) /\ HandOK([v EXCEPT !.pc = pc, !.ok = ok], cs)
<1>. DEFINE mid == [v EXCEPT !.pc = pc]
<1>0. IsHand(v)
  BY DEF HandOK
<1>1. mid = [pc |-> pc, cmd |-> v.cmd, claim |-> v.claim, ok |-> v.ok]
  BY <1>0 DEF IsHand
<1>4. [mid EXCEPT !.ok = ok] = [pc |-> pc, cmd |-> v.cmd, claim |-> v.claim, ok |-> ok]
  <2>. HIDE DEF mid
  <2>. QED  BY <1>1
<1>5. [v EXCEPT !.pc = pc, !.ok = ok] = [mid EXCEPT !.ok = ok]
  OBVIOUS
<1>2. /\ v.cmd \in DOMAIN cs /\ cs[v.cmd].claim # 0 /\ pc # "transfer"
      /\ pc \in {"remove", "rmtree"} => cs[v.cmd].kind = "remove"
  BY DEF HandOK
<1>3. \A k : HandOK([pc |-> pc, cmd |-> v.cmd, claim |-> v.claim, ok |-> k], cs)
  BY <1>2 DEF HandOK, IsHand
<1>. QED  BY <1>1, <1>3, <1>4, <1>5

(* The transfer thread goes on with its transfer.                           *)
LEMMA ManagerRecord ==
    ASSUME NEW m, NEW cs, MgrOK(m, cs), m.pc # "idle", NEW pc, NEW stop, NEW discard, NEW res, NEW w,
           w = [pc |-> pc, cmd |-> m.cmd, claim |-> m.claim, x |-> m.x, stop |-> stop,
                discard |-> discard, res |-> res]
    PROVE  MgrOK(w, cs) /\ w.pc = pc /\ w.res = res /\ w.x = m.x
<1>1. m.cmd \in DOMAIN cs /\ cs[m.cmd].kind = "transfer" /\ cs[m.cmd].x = m.x
  BY DEF MgrOK
<1>2. /\ w.pc = pc /\ w.cmd = m.cmd /\ w.claim = m.claim /\ w.x = m.x
      /\ w.stop = stop /\ w.discard = discard /\ w.res = res
  OBVIOUS
<1>3. IsMgr(w)
  BY <1>2 DEF IsMgr
<1>. QED  BY <1>1, <1>2, <1>3 DEF MgrOK

(* Two fields of the transfer thread change.                                *)
LEMMA ManagerChanged ==
    ASSUME NEW m, IsMgr(m), NEW u, NEW w
    PROVE  /\ [m EXCEPT !.pc = u, !.res = w] =
                [pc |-> u, cmd |-> m.cmd, claim |-> m.claim, x |-> m.x, stop |-> m.stop,
                 discard |-> m.discard, res |-> w]
           /\ [m EXCEPT !.stop = u, !.discard = w] =
                [pc |-> m.pc, cmd |-> m.cmd, claim |-> m.claim, x |-> m.x, stop |-> u,
                 discard |-> w, res |-> m.res]
<1>. DEFINE p == [m EXCEPT !.pc = u]
            s == [m EXCEPT !.stop = u]
<1>1. /\ p = [pc |-> u, cmd |-> m.cmd, claim |-> m.claim, x |-> m.x, stop |-> m.stop,
              discard |-> m.discard, res |-> m.res]
      /\ s = [pc |-> m.pc, cmd |-> m.cmd, claim |-> m.claim, x |-> m.x, stop |-> u,
              discard |-> m.discard, res |-> m.res]
  BY DEF IsMgr
<1>2. [m EXCEPT !.pc = u, !.res = w] = [p EXCEPT !.res = w]
  OBVIOUS
<1>3. [m EXCEPT !.stop = u, !.discard = w] = [s EXCEPT !.discard = w]
  OBVIOUS
<1>. HIDE DEF p, s
<1>4. [p EXCEPT !.res = w] = [pc |-> u, cmd |-> m.cmd, claim |-> m.claim, x |-> m.x, stop |-> m.stop,
                              discard |-> m.discard, res |-> w]
  BY <1>1
<1>5. [s EXCEPT !.discard = w] = [pc |-> m.pc, cmd |-> m.cmd, claim |-> m.claim, x |-> m.x,
                                  stop |-> u, discard |-> w, res |-> m.res]
  BY <1>1
<1>. QED  BY <1>2, <1>3, <1>4, <1>5

(* One thread moves; the tables and the directories stay.                   *)
LEMMA HandStep ==
    ASSUME DiskInv, UNCHANGED <<dataVars, full, mgr>>, NEW h \in Threads, NEW v,
           Hand(h, v), HandOK(v, cmds)
    PROVE  DiskInv'
<1>1. cmds' = cmds /\ TablesStep({})
  BY TablesStay DEF dataVars, DiskInv
<1>2. HandOK(v, cmds')
  BY <1>1
<1>3. /\ hands' = [g \in Threads |-> hands'[g]]
      /\ \A g \in Threads : hands'[g] = hands[g] \/ HandOK(hands'[g], cmds')
  BY <1>2, HandMoves
<1>4. full' = [d \in Releases |-> full'[d]] /\ full' = full /\ mgr' = mgr
  BY DEF DiskInv, WorkerOK
<1>. QED  BY <1>1, <1>3, <1>4, DiskStepKeeps

(* The transfer thread moves; the tables stay.                              *)
LEMMA ManagerStep ==
    ASSUME DiskInv, UNCHANGED <<dataVars, hands>>, MgrOK(mgr', cmds), SuccessIsPlaced',
           full' = [d \in Releases |-> full'[d]],
           \A d \in Releases : full[d] = "whole" => full'[d] = "whole"
    PROVE  DiskInv'
<1>1. cmds' = cmds /\ TablesStep({})
  BY TablesStay DEF dataVars, DiskInv
<1>2. MgrOK(mgr', cmds')
  BY <1>1
<1>3. hands' = hands /\ hands' = [g \in Threads |-> hands'[g]]
  BY DEF DiskInv, WorkerOK
<1>. QED  BY <1>1, <1>2, <1>3, DiskStepKeeps

(* The transfer thread goes from one step to the next.                      *)
LEMMA ManagerMoves ==
    ASSUME DiskInv, UNCHANGED <<dataVars, full, hands>>, mgr.pc # "idle",
           NEW pc, NEW res, MgrTo(pc, res),
           pc = "publish" /\ res = "succeeded" => full[Release(mgr.x)] = "whole"
    PROVE  DiskInv'
<1>1. MgrOK(mgr', cmds) /\ mgr'.pc = pc /\ mgr'.res = res /\ mgr'.x = mgr.x
  <2>1. MgrOK(mgr, cmds) /\ IsMgr(mgr)
    BY DEF DiskInv, WorkerOK, MgrOK
  <2>2. mgr' = [pc |-> pc, cmd |-> mgr.cmd, claim |-> mgr.claim, x |-> mgr.x, stop |-> mgr.stop,
                discard |-> mgr.discard, res |-> res]
    BY <2>1, ManagerChanged DEF MgrTo
  <2>. QED  BY <2>1, <2>2, ManagerRecord
<1>2. xfers' = xfers /\ full' = full /\ full' = [d \in Releases |-> full'[d]]
  BY DEF dataVars, DiskInv, WorkerOK
<1>3. SuccessIsPlaced'
  BY <1>1, <1>2 DEF SuccessIsPlaced, Placed, Release
<1>. QED  BY <1>1, <1>2, <1>3, ManagerStep

(* A transfer starts, or finds the transfer thread at work.                 *)
LEMMA StartTransferKeeps ==
    ASSUME DiskInv, NEW h \in Threads, StartTransfer(h)
    PROVE  DiskInv'
<1>. DEFINE v == hands[h]
<1>1. HandOK(v, cmds) /\ v.pc = "transfer" /\ UNCHANGED <<dataVars, full>>
  BY DEF DiskInv, WorkerOK, StartTransfer
<1>2. CASE mgr.pc = "idle"
  <2>. DEFINE w == [pc |-> "load", cmd |-> v.cmd, claim |-> v.claim, x |-> cmds[v.cmd].x,
                    stop |-> FALSE, discard |-> FALSE, res |-> "none"]
  <2>1. mgr' = w /\ Hand(h, NoHand)
    BY <1>2 DEF StartTransfer, NoMgr
  <2>2. MgrOK(w, cmds) /\ w.pc = "load"
    BY <1>1 DEF HandOK, MgrOK, IsMgr
  <2>3. cmds' = cmds /\ TablesStep({})
    BY <1>1, TablesStay DEF dataVars, DiskInv
  <2>4. MgrOK(mgr', cmds') /\ SuccessIsPlaced'
    <3>. HIDE DEF w
    <3>. QED  BY <2>1, <2>2, <2>3 DEF SuccessIsPlaced
  <2>5. /\ hands' = [g \in Threads |-> hands'[g]]
        /\ \A g \in Threads : hands'[g] = hands[g] \/ HandOK(hands'[g], cmds')
    BY <2>1, HandMoves, NothingHeld
  <2>6. full' = [d \in Releases |-> full'[d]] /\ full' = full
    BY <1>1 DEF DiskInv, WorkerOK
  <2>. QED  BY <2>3, <2>4, <2>5, <2>6, DiskStepKeeps
<1>3. CASE mgr.pc # "idle"
  <2>1. Hand(h, [v EXCEPT !.pc = "publish"]) /\ mgr' = mgr
    BY <1>3 DEF StartTransfer
  <2>2. HandOK([v EXCEPT !.pc = "publish"], cmds)
    BY <1>1, HandGoesOn
  <2>. HIDE DEF v
  <2>. QED  BY <1>1, <2>1, <2>2, HandStep
<1>. QED  BY <1>2, <1>3

(* A stop is passed on to the transfer thread, or finds nothing to stop.    *)
LEMMA HandleStopKeeps ==
    ASSUME DiskInv, NEW h \in Threads, HandleStop(h)
    PROVE  DiskInv'
<1>. DEFINE v == hands[h]
            w == [v EXCEPT !.pc = "publish"]
            ok == [v EXCEPT !.pc = "publish", !.ok = TRUE]
            j == [v EXCEPT !.pc = "join"]
<1>1. HandOK(v, cmds) /\ v.pc = "stop" /\ UNCHANGED <<dataVars, full>>
  BY DEF DiskInv, WorkerOK, HandleStop
<1>2. HandOK(w, cmds) /\ HandOK(ok, cmds) /\ HandOK(j, cmds)
  BY <1>1, HandGoesOn
<1>3. CASE mgr' = mgr /\ (Hand(h, w) \/ Hand(h, ok))
  <2>. HIDE DEF w, ok
  <2>. QED  BY <1>1, <1>2, <1>3, HandStep
<1>4. ASSUME NEW discard, mgr.pc # "idle", mgr' = [mgr EXCEPT !.stop = TRUE, !.discard = discard],
             Hand(h, j)
      PROVE  DiskInv'
  <2>1. MgrOK(mgr', cmds) /\ mgr'.pc = mgr.pc /\ mgr'.res = mgr.res /\ mgr'.x = mgr.x
    <3>1. MgrOK(mgr, cmds) /\ IsMgr(mgr)
      BY DEF DiskInv, WorkerOK, MgrOK
    <3>2. mgr' = [pc |-> mgr.pc, cmd |-> mgr.cmd, claim |-> mgr.claim, x |-> mgr.x, stop |-> TRUE,
                  discard |-> discard, res |-> mgr.res]
      BY <1>4, <3>1, ManagerChanged
    <3>3. mgr.pc # "idle"
      BY <1>4
    <3>. HIDE DEF v, w, ok, j
    <3>. QED  BY <3>1, <3>2, <3>3, ManagerRecord
  <2>2. cmds' = cmds /\ xfers' = xfers /\ replicas' = replicas /\ full' = full /\ TablesStep({})
    BY <1>1, TablesStay DEF dataVars, DiskInv
  <2>3. MgrOK(mgr', cmds') /\ SuccessIsPlaced'
    BY <2>1, <2>2 DEF DiskInv, WorkerOK, SuccessIsPlaced, Placed, Release, RemovalTaken
  <2>4. HandOK(j, cmds')
    BY <1>2, <2>2
  <2>. HIDE DEF j
  <2>5. /\ hands' = [g \in Threads |-> hands'[g]]
        /\ \A g \in Threads : hands'[g] = hands[g] \/ HandOK(hands'[g], cmds')
    BY <1>4, <2>4, HandMoves
  <2>6. full' = [d \in Releases |-> full'[d]]
    BY <2>2 DEF DiskInv, WorkerOK
  <2>. QED  BY <2>2, <2>3, <2>5, <2>6, DiskStepKeeps
<1>5. \/ mgr' = mgr /\ (Hand(h, w) \/ Hand(h, ok))
      \/ /\ mgr.pc # "idle" /\ Hand(h, j)
         /\ mgr' = [mgr EXCEPT !.stop = TRUE, !.discard = (cmds[v.cmd].act = "cancel")]
  BY DEF HandleStop
<1>. QED  BY <1>3, <1>4, <1>5

(* The transfer thread has stopped, or takes too long.                      *)
LEMMA JoinTransferKeeps ==
    ASSUME DiskInv, NEW h \in Threads, JoinTransfer(h)
    PROVE  DiskInv'
<1>. DEFINE v == hands[h]
            w == [v EXCEPT !.pc = "publish"]
            ok == [v EXCEPT !.pc = "publish", !.ok = TRUE]
<1>1. HandOK(v, cmds) /\ v.pc = "join" /\ UNCHANGED <<dataVars, full, mgr>>
  BY DEF DiskInv, WorkerOK, JoinTransfer
<1>2. HandOK(w, cmds) /\ HandOK(ok, cmds)
  BY <1>1, HandGoesOn
<1>3. Hand(h, w) \/ Hand(h, ok)
  BY DEF JoinTransfer
<1>. HIDE DEF w, ok
<1>. QED  BY <1>1, <1>2, <1>3, HandStep

(* A removal finds its directory, or none.                                  *)
LEMMA BeginRemoveKeeps ==
    ASSUME DiskInv, NEW h \in Threads, BeginRemove(h)
    PROVE  DiskInv'
<1>. DEFINE v == hands[h]
            w == [v EXCEPT !.pc = "rmtree"]
            ok == [v EXCEPT !.pc = "publish", !.ok = TRUE]
<1>1. HandOK(v, cmds) /\ v.pc = "remove" /\ UNCHANGED <<dataVars, full, mgr>>
  BY DEF DiskInv, WorkerOK, BeginRemove
<1>2. HandOK(w, cmds) /\ HandOK(ok, cmds)
  BY <1>1, HandGoesOn
<1>3. Hand(h, w) \/ Hand(h, ok)
  BY DEF BeginRemove
<1>. HIDE DEF w, ok
<1>. QED  BY <1>1, <1>2, <1>3, HandStep

(* A removal that a thread carries out is one that was handed out.          *)
LEMMA RemovalInHand ==
    ASSUME NEW c \in DOMAIN cmds, cmds[c].kind = "remove", cmds[c].claim # 0
    PROVE  RemovalTaken(replicas[cmds[c].x].src)
BY DEF RemovalTaken

(* The directory goes, wholly or in part, for a removal that was handed out. *)
LEMMA EndRemoveKeeps ==
    ASSUME DiskInv, NEW h \in Threads, EndRemove(h)
    PROVE  DiskInv'
<1>. DEFINE v == hands[h]
            d == replicas[cmds[v.cmd].x].src
            w == [v EXCEPT !.pc = "publish"]
            ok == [v EXCEPT !.pc = "publish", !.ok = TRUE]
<1>1. HandOK(v, cmds) /\ v.pc = "rmtree" /\ UNCHANGED <<dataVars, mgr>>
  BY DEF DiskInv, WorkerOK, EndRemove
<1>2. HandOK(w, cmds) /\ HandOK(ok, cmds)
  BY <1>1, HandGoesOn
<1>3. Hand(h, w) \/ Hand(h, ok)
  BY DEF EndRemove
<1>4. RemovalTaken(d)
  BY <1>1, RemovalInHand DEF HandOK
<1>5. cmds' = cmds /\ mgr' = mgr /\ TablesStep({})
  BY <1>1, TablesStay DEF dataVars, DiskInv
<1>6. full = [e \in Releases |-> full[e]]
  BY DEF DiskInv, WorkerOK
<1>7. /\ full' = [e \in Releases |-> full'[e]]
      /\ \A e \in Releases : e # d => full'[e] = full[e]
  BY <1>6 DEF EndRemove
<1>8. \A e \in Releases : full[e] = "whole" => full'[e] = "whole" \/ RemovalTaken(e)
  BY <1>4, <1>7
<1>9. /\ hands' = [g \in Threads |-> hands'[g]]
      /\ \A g \in Threads : hands'[g] = hands[g] \/ HandOK(hands'[g], cmds')
  <2>. HIDE DEF w, ok
  <2>. QED  BY <1>2, <1>3, <1>5, HandMoves
<1>. QED  BY <1>5, <1>7, <1>8, <1>9, DiskStepKeeps

(* A thread that published its result holds nothing.                        *)
LEMMA PublishedKeeps ==
    ASSUME DiskInv, NEW h \in Threads, Hand(h, NoHand), UNCHANGED <<full, mgr>>,
           NEW S, TablesStep(S), \A d \in S : Placed(d)
    PROVE  DiskInv'
<1>1. /\ hands' = [g \in Threads |-> hands'[g]]
      /\ \A g \in Threads : hands'[g] = hands[g] \/ HandOK(hands'[g], cmds')
  BY HandMoves, NothingHeld
<1>2. full' = [d \in Releases |-> full'[d]] /\ full' = full
  BY DEF DiskInv, WorkerOK
<1>. QED  BY <1>1, <1>2, DiskStepKeeps

(* A result that offers a replica is that of a removal that failed.         *)
LEMMA PublishKeeps ==
    ASSUME DiskInv, NEW h \in Threads, Publish(h)
    PROVE  DiskInv'
<1>. DEFINE v == hands[h]
            c == v.cmd
<1>1. RowsOK /\ HandOK(v, cmds) /\ v.pc = "publish" /\ Hand(h, NoHand) /\ UNCHANGED <<full, mgr>>
  BY DEF DiskInv, WorkerOK, Publish
<1>2. c \in DOMAIN cmds /\ cmds[c].claim # 0
  BY <1>1 DEF HandOK
<1>. HIDE DEF v
<1>3. CASE cmds[c].kind = "transfer" /\ TransferEnds(c, v.claim, "failed")
  <2>1. TablesStep({})
    <3>1. TablesStep(IF "failed" = "succeeded" THEN {xfers[cmds[c].x].src} ELSE {})
      BY <1>1, <1>2, <1>3, TransferEndsTables
    <3>2. (IF "failed" = "succeeded" THEN {xfers[cmds[c].x].src} ELSE {}) = {}
      OBVIOUS
    <3>. QED  BY <3>1, <3>2
  <2>. QED  BY <1>1, <2>1, PublishedKeeps
<1>4. CASE StopEnds(c, v.claim, v.ok)
  BY <1>1, <1>4, OtherResultsTables, PublishedKeeps
<1>5. CASE cmds[c].kind = "remove" /\ RemoveEnds(c, v.claim, v.ok)
  <2>1. TablesStep({replicas[cmds[c].x].src})
    BY <1>1, <1>5, OtherResultsTables
  <2>2. PICK S : S = {replicas[cmds[c].x].src}
    OBVIOUS
  <2>3. TablesStep(S)
    BY <2>1, <2>2
  <2>4. RemovalTaken(replicas[cmds[c].x].src)
    BY <1>2, <1>5, RemovalInHand
  <2>5. \A d \in S : Placed(d)
    BY <2>2, <2>4 DEF Placed
  <2>. QED  BY <1>1, <2>3, <2>5, PublishedKeeps
<1>6. CASE UNCHANGED dataVars
  <2>1. TablesStep({})
    BY <1>1, <1>6, TablesStay DEF dataVars
  <2>. QED  BY <1>1, <2>1, PublishedKeeps
<1>. QED  BY <1>3, <1>4, <1>5, <1>6 DEF Publish, Refused, v

(* A thread takes a command: from now on it was handed out.                 *)
LEMMA TakeCommandKeeps ==
    ASSUME DiskInv, NEW h \in Threads, NEW n, NEW E, NEW c, TakeCommand(h, n, E, c)
    PROVE  DiskInv'
<1>1. /\ TablesStep({})
      /\ c # None => c \in DOMAIN cmds /\ cmds'[c].claim # 0
      /\ full' = full /\ mgr' = mgr
  <2>1. RowsOK /\ ClaimCommands(n, E, c) /\ full' = full /\ mgr' = mgr
    BY DEF TakeCommand, DiskInv
  <2>. QED  BY <2>1, ClaimTables
<1>2. CASE UNCHANGED hands
  BY <1>1, <1>2, TablesOnly
<1>3. CASE /\ c # None
           /\ Hand(h, [pc |-> cmds[c].kind, cmd |-> c, claim |-> cmds'[c].claim, ok |-> FALSE])
  <2>. DEFINE w == [pc |-> cmds[c].kind, cmd |-> c, claim |-> cmds'[c].claim, ok |-> FALSE]
  <2>1. PICK u : u = w
    OBVIOUS
  <2>2. u.pc = cmds[c].kind /\ u.cmd = c /\ IsHand(u) /\ Hand(h, u)
    BY <1>3, <2>1 DEF IsHand
  <2>3. c \in DOMAIN cmds' /\ cmds'[c].kind = cmds[c].kind /\ cmds'[c].claim # 0
    BY <1>1, <1>3 DEF TablesStep, RowsKept, CommandsKept
  <2>4. cmds[c].kind # "rmtree"
    BY <1>1, <1>3 DEF DiskInv, RowsOK, CommandsOK, CommandOK
  <2>5. HandOK(u, cmds')
    BY <2>2, <2>3, <2>4 DEF HandOK
  <2>6. /\ hands' = [g \in Threads |-> hands'[g]]
        /\ \A g \in Threads : hands'[g] = hands[g] \/ HandOK(hands'[g], cmds')
    BY <2>2, <2>5, HandMoves
  <2>7. full' = [d \in Releases |-> full'[d]]
    BY <1>1 DEF DiskInv, WorkerOK
  <2>. QED  BY <1>1, <2>6, <2>7, DiskStepKeeps
<1>. QED  BY <1>2, <1>3 DEF TakeCommand

-----------------------------------------------------------------------------
(* The transfer thread.                                                     *)
LEMMA CopyingKeeps ==
    ASSUME DiskInv, Copying
    PROVE  DiskInv'
<1>1. CASE LoadInventory
  <2>1. UNCHANGED <<dataVars, full, hands>> /\ mgr.pc # "idle"
    BY <1>1 DEF LoadInventory, MgrOnly
  <2>2. \/ full[Release(mgr.x)] = "whole" /\ MgrTo("publish", "succeeded")
        \/ MgrTo("copy", "none") \/ MgrTo("publish", "failed")
    BY <1>1 DEF LoadInventory, Matching
  <2>. QED  BY <2>1, <2>2, ManagerMoves
<1>2. CASE ReportCopy
  <2>1. TablesStep({})
    BY <1>2, OtherResultsTables DEF ReportCopy, DiskInv
  <2>2. full' = full /\ UNCHANGED <<mgr, hands>>
    BY <1>2 DEF ReportCopy, workerVars
  <2>. QED  BY <2>1, <2>2, TablesOnly
<1>3. CASE CopyEnds
  <2>1. UNCHANGED <<dataVars, full, hands>> /\ mgr.pc # "idle"
    BY <1>3 DEF CopyEnds, MgrOnly
  <2>2. MgrTo("place", "none") \/ MgrTo("publish", "failed")
    BY <1>3 DEF CopyEnds
  <2>. QED  BY <2>1, <2>2, ManagerMoves
<1>4. CASE Place
  <2>. DEFINE d == Release(mgr.x)
  <2>1. UNCHANGED <<dataVars, hands>> /\ mgr.pc = "place" /\ mgr.pc # "idle"
    BY <1>4 DEF Place, MgrOnly
  <2>2. CASE d \in part /\ full[d] = "none"
    <3>1. full' = [full EXCEPT ![d] = "whole"] /\ MgrTo("publish", "succeeded")
      BY <1>4, <2>2 DEF Place
    <3>2. MgrOK(mgr, cmds) /\ full = [e \in Releases |-> full[e]] /\ RowsOK /\ IsMgr(mgr)
      BY DEF DiskInv, WorkerOK, MgrOK
    <3>3. mgr.x \in DOMAIN xfers
      BY <2>1, <3>2 DEF MgrOK, RowsOK, CommandsOK, CommandOK
    <3>4. d \in Releases
      BY <3>2, <3>3 DEF RowsOK, TransfersOK, Release
    <3>5. mgr' = [pc |-> "publish", cmd |-> mgr.cmd, claim |-> mgr.claim, x |-> mgr.x,
                  stop |-> mgr.stop, discard |-> mgr.discard, res |-> "succeeded"]
      BY <3>1, <3>2, ManagerChanged DEF MgrTo
    <3>6. MgrOK(mgr', cmds) /\ mgr'.x = mgr.x
      BY <2>1, <3>2, <3>5, ManagerRecord
    <3>. HIDE DEF d
    <3>7. full'[d] = "whole" /\ full' = [e \in Releases |-> full'[e]]
      BY <3>1, <3>2, <3>4
    <3>8. \A e \in Releases : full[e] = "whole" => full'[e] = "whole"
      BY <3>1, <3>2, <3>4
    <3>9. Release(mgr.x)' = d
      BY <2>1, <3>6 DEF Release, dataVars, d
    <3>10. SuccessIsPlaced'
      BY <3>7, <3>9 DEF SuccessIsPlaced, Placed
    <3>. QED  BY <2>1, <3>6, <3>7, <3>8, <3>10, ManagerStep
  <2>3. CASE ~(d \in part /\ full[d] = "none")
    <3>1. MgrTo("publish", "failed") /\ full' = full
      BY <1>4, <2>3 DEF Place
    <3>. QED  BY <2>1, <3>1, ManagerMoves
  <2>. QED  BY <2>2, <2>3
<1>5. CASE StopSeen
  <2>1. UNCHANGED <<dataVars, full, hands>> /\ mgr.pc # "idle"
    BY <1>5 DEF StopSeen, MgrOnly
  <2>2. \E res \in {"cancelled", "paused", "failed"} : MgrTo("publish", res)
    BY <1>5 DEF StopSeen
  <2>. QED  BY <2>1, <2>2, ManagerMoves
<1>6. CASE PublishTransfer
  <2>1. /\ mgr.pc = "publish" /\ full' = full /\ hands' = hands /\ RowsOK
        /\ MgrOK(mgr, cmds) /\ SuccessIsPlaced /\ IsMgr(mgr)
    BY <1>6 DEF PublishTransfer, DiskInv, WorkerOK, MgrOK
  <2>2. mgr.cmd \in DOMAIN cmds /\ cmds[mgr.cmd].kind = "transfer" /\ cmds[mgr.cmd].x = mgr.x
    BY <2>1 DEF MgrOK
  <2>. DEFINE w == [pc |-> "end", cmd |-> mgr.cmd, claim |-> mgr.claim, x |-> mgr.x,
                    stop |-> mgr.stop, discard |-> mgr.discard, res |-> mgr.res]
  <2>3. mgr' = w
    BY <1>6, <2>1 DEF PublishTransfer, IsMgr
  <2>4. PICK S : TablesStep(S) /\ \A d \in S : Placed(d)
    <3>1. CASE TransferEnds(mgr.cmd, mgr.claim, mgr.res)
      <4>1. PICK S : S = IF mgr.res = "succeeded" THEN {xfers[cmds[mgr.cmd].x].src} ELSE {}
        OBVIOUS
      <4>2. TablesStep(IF mgr.res = "succeeded" THEN {xfers[cmds[mgr.cmd].x].src} ELSE {})
        BY <2>1, <2>2, <3>1, TransferEndsTables
      <4>3. TablesStep(S)
        BY <4>1, <4>2
      <4>4. \A d \in S : Placed(d)
        BY <2>1, <2>2, <4>1 DEF SuccessIsPlaced, Release
      <4>. QED  BY <4>3, <4>4
    <3>2. CASE UNCHANGED dataVars
      <4>1. TablesStep({})
        BY <2>1, <3>2, TablesStay DEF dataVars
      <4>. QED  BY <4>1
    <3>. QED  BY <1>6, <3>1, <3>2 DEF PublishTransfer, Refused
  <2>5. cmds'[mgr.cmd].kind = "transfer" /\ cmds'[mgr.cmd].x = mgr.x /\ mgr.cmd \in DOMAIN cmds'
    BY <2>2, <2>4 DEF TablesStep, RowsKept, CommandsKept
  <2>6. MgrOK(w, cmds') /\ w.pc = "end"
    BY <2>5 DEF MgrOK, IsMgr
  <2>. HIDE DEF w
  <2>7. MgrOK(mgr', cmds') /\ SuccessIsPlaced'
    BY <2>3, <2>6 DEF SuccessIsPlaced
  <2>8. full' = [d \in Releases |-> full'[d]] /\ hands' = [h \in Threads |-> hands'[h]]
    BY <2>1 DEF DiskInv, WorkerOK
  <2>. QED  BY <2>1, <2>4, <2>7, <2>8, DiskStepKeeps
<1>7. CASE TransferGone
  <2>1. UNCHANGED <<dataVars, hands>> /\ full' = full /\ mgr' = NoMgr
    BY <1>7 DEF TransferGone, MgrOnly
  <2>2. MgrOK(mgr', cmds) /\ SuccessIsPlaced'
    BY <2>1, NothingHeld DEF SuccessIsPlaced
  <2>3. full' = [d \in Releases |-> full'[d]]
    BY <2>1 DEF DiskInv, WorkerOK
  <2>. QED  BY <2>1, <2>2, <2>3, ManagerStep
<1>. QED  BY <1>1, <1>2, <1>3, <1>4, <1>5, <1>6, <1>7 DEF Copying

(* Every step keeps the data of the replicas on offer.                      *)
LEMMA DiskStep ==
    ASSUME DiskInv, [PlaneNext]_planeVars
    PROVE  DiskInv'
<1>1. RowsOK
  BY DEF DiskInv
<1>2. CASE /\ full' = full /\ (UNCHANGED <<mgr, hands>> \/ WorkerStops)
           /\ UNCHANGED <<xfers, cmds, replicas>>
  <2>1. TablesStep({})
    BY <1>1, <1>2, TablesStay
  <2>. QED  BY <1>2, <2>1, TablesOnly
<1>3. CASE UserNodes \/ UserModels \/ Verifications \/ Installers \/ WorkerRestarts
           \/ CenterRestarts \/ UNCHANGED planeVars
  BY <1>2, <1>3 DEF UserNodes, UserModels, Verifications, Installers, Service, WorkerRestarts,
                    CenterRestarts, planeVars, dataVars, workerVars
<1>4. CASE UserData \/ UserDeletes \/ Preparation \/ Heartbeats
  <2>1. TablesStep({})
    BY <1>1, <1>4, UserDataTables, DeleteTables, PreparationTables, HeartbeatTables
  <2>2. full' = full /\ UNCHANGED <<mgr, hands>>
    BY <1>4 DEF UserData, UserDeletes, Preparation, Heartbeats, workerVars
  <2>. QED  BY <2>1, <2>2, TablesOnly
<1>5. CASE Commands
  BY <1>5, TakeCommandKeeps, StartTransferKeeps, HandleStopKeeps, JoinTransferKeeps,
     BeginRemoveKeeps, EndRemoveKeeps, PublishKeeps DEF Commands
<1>6. CASE Copying
  BY <1>6, CopyingKeeps
<1>. QED  BY <1>3, <1>4, <1>5, <1>6 DEF PlaneNext

(* A replica on offer, of a release whose removal was never handed to the   *)
(* Worker, is a whole directory on the machine: whatever was paused,        *)
(* cancelled, cut off, answered late or recovered on the way there          *)
(* (datasets.py, _run_transfer; store.py, _apply_terminal_command_result).  *)
THEOREM UnremovedReplicasOnDisk == PlaneSpec => []UnremovedReplicaOnDisk
<1>1. PlaneInit => DiskInv
  <2>1. ASSUME PlaneInit
        PROVE  RowsOK /\ UnremovedReplicaOnDisk
    BY <2>1 DEF PlaneInit, DataInit, RowsOK, TransfersOK, ReplicasOK, CommandsOK, IsSequence,
                UnremovedReplicaOnDisk
  <2>2. ASSUME PlaneInit
        PROVE  WorkerOK
    <3>1. /\ full = [d \in Releases |-> "none"] /\ mgr = NoMgr
          /\ hands = [h \in Threads |-> NoHand]
      BY <2>2 DEF PlaneInit, WorkerInit
    <3>. QED  BY <3>1, NothingHeld DEF WorkerOK, SuccessIsPlaced
  <2>. QED  BY <2>1, <2>2 DEF DiskInv
<1>2. DiskInv /\ [PlaneNext]_planeVars => DiskInv'
  BY DiskStep
<1>3. DiskInv => UnremovedReplicaOnDisk
  BY DEF DiskInv
<1>. QED  BY <1>1, <1>2, <1>3, PTL DEF PlaneSpec
=============================================================================
