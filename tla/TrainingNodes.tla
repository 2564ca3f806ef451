--------------------------- MODULE TrainingNodes ---------------------------
(***************************************************************************)
(* Training nodes as the center registers them (training/store.py), the    *)
(* deployment and the removal of a Worker over SSH (training/service.py,   *)
(* worker_deployment*.py) and the verification of a model configuration.   *)
(*                                                                         *)
(* All registered nodes are rows for ONE machine: the user may delete a    *)
(* node and register the same machine again.  A credential is a pair of a  *)
(* row and the revision that minted its enrolment token, so every          *)
(* credential ever issued is a different value; the worker instance id     *)
(* lives and dies with the credential file and is left out.                *)
(***************************************************************************)
EXTENDS Integers, Sequences, FiniteSets

CONSTANTS
    Nodes,          \* the rows the user may register for the machine
    MaxRev,         \* bound: no user request on a row at this revision
    MaxModelRev,    \* bound on the edits of the model configuration
    MaxChecks,      \* bound on the verification requests
    SshFaults,      \* whether the SSH steps of an installer may fail
    None

VARIABLES
    node,           \* table training_nodes
    enrol,          \* node -> the enrolment token not yet consumed, or 0
    host,           \* the machine: token file and the credential in use
    op,             \* node -> the deployment or removal request at work on it
    model,          \* the model configuration
    check,          \* its last verification request
    testing,        \* verifications the Worker has been handed
    proved          \* history: revisions a Worker found good

nodeVars == <<node, enrol, host, op>>
modelVars == <<model, check, testing, proved>>

Statuses == {"pending_enrollment", "online", "degraded", "offline", "repair_required", "disabled"}
Deployments == {"not_started", "deploying", "succeeded", "failed"}
OpPlaces == {"idle", "token", "install", "wait", "done", "failed", "succeeds", "fails",
             "remove", "removed", "kept"}

NoRow == [row |-> "none", status |-> "pending_enrollment", deploy |-> "not_started", rev |-> 0,
          token |-> 0, key |-> FALSE, installed |-> FALSE, enrolled |-> FALSE, snap |-> FALSE,
          beat |-> FALSE]
NoOp == [pc |-> "idle", tok |-> 0, rev |-> 0, repair |-> FALSE, forced |-> FALSE]
NoCheck == [id |-> 0, status |-> "none", rev |-> 0, node |-> None]

NodesInit ==
    /\ node = [n \in Nodes |-> NoRow]
    /\ enrol = [n \in Nodes |-> 0]
    /\ host = [file |-> None, run |-> None]
    /\ op = [n \in Nodes |-> NoOp]

ModelInit ==
    /\ model = [rev |-> 1, status |-> "draft"]
    /\ check = NoCheck
    /\ testing = {}
    /\ proved = {}

Live(n) == node[n].row = "live"
Editable(n) == Live(n) /\ node[n].rev < MaxRev

(* Every change a user makes carries the revision the user has read.        *)
Bump(n, row) == node' = [node EXCEPT ![n] = [row EXCEPT !.rev = @ + 1]]

CreateNode(n) ==
    /\ node[n].row = "none"
    /\ node' = [node EXCEPT ![n] = [NoRow EXCEPT !.row = "live", !.rev = 1]]
    /\ UNCHANGED <<enrol, host, op>>

(* Mutant: the credential survives the disabling.                           *)
UpdateKeepsToken(n, desired) ==
    LET row == node[n]
        status == IF desired = None THEN row.status ELSE desired
    IN
    /\ Editable(n)
    /\ Bump(n, [row EXCEPT !.status = status])
    /\ enrol' = IF status = "disabled" THEN [enrol EXCEPT ![n] = 0] ELSE enrol
    /\ UNCHANGED <<host, op>>

(* A disabled node loses its credential and its enrolment tokens.           *)
UpdateNode(n, desired) ==
    LET row == node[n]
        status == IF desired = None THEN row.status ELSE desired
    IN
    /\ Editable(n)
    /\ Bump(n, [row EXCEPT !.status = status,
                           !.token = IF status = "disabled" THEN 0 ELSE @])
    /\ enrol' = IF status = "disabled" THEN [enrol EXCEPT ![n] = 0] ELSE enrol
    /\ UNCHANGED <<host, op>>

(* Only a node without history can go: its verifications fail, its replicas *)
(* are left without a node (see DatasetTransfers).                          *)
DeleteRow(n) ==
    /\ Live(n) /\ ~node[n].enrolled /\ ~node[n].snap
    /\ node' = [node EXCEPT ![n].row = "deleted"]
    /\ enrol' = [enrol EXCEPT ![n] = 0]
    /\ check' = IF check.node = n /\ check.status \in {"queued", "running"}
                THEN [check EXCEPT !.status = "failed"] ELSE check
    /\ UNCHANGED <<host, op, model, testing, proved>>

CreateToken(n) ==
    /\ Editable(n) /\ node[n].status # "disabled"
    /\ Bump(n, node[n])
    /\ enrol' = [enrol EXCEPT ![n] = node[n].rev]
    /\ UNCHANGED <<host, op>>

-----------------------------------------------------------------------------
(* enroll_node: the token is consumed, the node is online with a new        *)
(* credential, and its heartbeat revision moves on.                         *)
Enrollable(n, k) == Live(n) /\ k # 0 /\ enrol[n] = k /\ node[n].status # "disabled"

Enroll(n, k) ==
    /\ node' = [node EXCEPT ![n].status = "online", ![n].enrolled = TRUE, ![n].token = k,
                            ![n].beat = TRUE]
    /\ enrol' = [enrol EXCEPT ![n] = 0]

(* The installer: begin_node_deployment, then an enrolment token for the    *)
(* revision it left, then the SSH steps.  A repair is a deployment on a row *)
(* that had a Worker and is not online; a row that says online may in fact  *)
(* be late with its heartbeats.                                             *)
HadWorker(n) == node[n].installed \/ node[n].enrolled

BeginDeployment(n) ==
    /\ Editable(n) /\ node[n].status # "disabled" /\ node[n].deploy # "deploying"
    /\ Bump(n, [node[n] EXCEPT !.deploy = "deploying", !.key = TRUE, !.beat = FALSE])
    /\ \E late \in BOOLEAN :
          op' = [op EXCEPT ![n] =
                    [NoOp EXCEPT !.pc = "token", !.rev = node[n].rev + 1,
                        !.repair = HadWorker(n) /\ (node[n].status # "online" \/ late)]]
    /\ UNCHANGED <<enrol, host>>

DeployToken(n) ==
    /\ op[n].pc = "token"
    /\ IF Live(n) /\ node[n].rev = op[n].rev /\ node[n].status # "disabled"
       THEN /\ Bump(n, node[n])
            /\ enrol' = [enrol EXCEPT ![n] = node[n].rev]
            /\ op' = [op EXCEPT ![n].pc = "install", ![n].tok = node[n].rev]
       ELSE /\ op' = [op EXCEPT ![n].pc = "failed"]
            /\ UNCHANGED <<node, enrol>>
    /\ UNCHANGED host

(* The service is restarted with the credential file and this node's name;  *)
(* another row's credential is refused by the center.                       *)
Restarted(n, file) == IF file # None /\ file[1] = n THEN file ELSE <<None, 0>>

AfterInstall(n) == IF op[n].repair THEN "wait" ELSE "done"

(* deploy_worker keeps an enrolled Worker unless enrolment is forced.       *)
Enrols(n) == op[n].forced \/ host.file = None

(* The enrolment runs the Worker's own command line, which refuses to enrol *)
(* over a credential file (cli.py) and otherwise calls enroll_node.         *)
DeployInstalls(n) ==
    /\ op[n].pc = "install"
    /\ \/ /\ ~Enrols(n)
          /\ host' = [host EXCEPT !.run = Restarted(n, host.file)]
          /\ op' = [op EXCEPT ![n].pc = AfterInstall(n)]
          /\ UNCHANGED <<node, enrol>>
       \/ /\ Enrols(n) /\ (host.file # None \/ ~Enrollable(n, op[n].tok))
          /\ op' = [op EXCEPT ![n].pc = "failed"]
          /\ UNCHANGED <<node, enrol, host>>
       \/ /\ Enrols(n) /\ host.file = None /\ Enrollable(n, op[n].tok)
          /\ Enroll(n, op[n].tok)
          /\ host' = [file |-> <<n, op[n].tok>>, run |-> <<n, op[n].tok>>]
          /\ op' = [op EXCEPT ![n].pc = AfterInstall(n)]

(* An SSH step fails: before the enrolment, or after it and before the      *)
(* service is restarted with the new credential.                            *)
DeployBreaks(n) ==
    /\ SshFaults
    /\ op[n].pc = "install"
    /\ op' = [op EXCEPT ![n].pc = "failed"]
    /\ \/ UNCHANGED <<node, enrol, host>>
       \/ /\ host.file = None /\ Enrollable(n, op[n].tok)
          /\ Enroll(n, op[n].tok)
          /\ host' = [host EXCEPT !.file = <<n, op[n].tok>>]

(* A repair waits for a heartbeat; without one it installs again and forces *)
(* the enrolment, then waits once more.                                     *)
DeployWaits(n) ==
    /\ op[n].pc = "wait"
    /\ op' = [op EXCEPT ![n] =
                 IF node[n].beat THEN [@ EXCEPT !.pc = "done"]
                 ELSE IF op[n].forced THEN [@ EXCEPT !.pc = "failed"]
                 ELSE [@ EXCEPT !.pc = "install", !.forced = TRUE]]
    /\ UNCHANGED <<node, enrol, host>>

(* invalidate_node_enrollment_tokens, then in a transaction of its own      *)
(* finish_node_deployment, whatever happened to the row meanwhile.          *)
DeployInvalidates(n) ==
    /\ op[n].pc \in {"done", "failed"}
    /\ op' = [op EXCEPT ![n].pc = IF @ = "done" THEN "succeeds" ELSE "fails"]
    /\ enrol' = [enrol EXCEPT ![n] = IF Live(n) THEN 0 ELSE @]
    /\ UNCHANGED <<node, host>>

DeployFinishes(n) ==
    /\ op[n].pc \in {"succeeds", "fails"}
    /\ op' = [op EXCEPT ![n] = NoOp]
    /\ IF Live(n)
       THEN Bump(n, [node[n] EXCEPT
                        !.deploy = IF op[n].pc = "succeeds" THEN "succeeded" ELSE "failed",
                        !.installed = @ \/ op[n].pc = "succeeds"])
       ELSE UNCHANGED node
    /\ UNCHANGED <<enrol, host>>

BeginRemoval(n) ==
    /\ Editable(n) /\ node[n].deploy # "deploying" /\ HadWorker(n)
    /\ Bump(n, [node[n] EXCEPT !.status = "disabled", !.token = 0, !.deploy = "deploying"])
    /\ enrol' = [enrol EXCEPT ![n] = 0]
    /\ op' = [op EXCEPT ![n] = [NoOp EXCEPT !.pc = "remove"]]
    /\ UNCHANGED host

(* remove_system_worker stops the service and deletes the state directory   *)
(* with the credential; a node without a confirmed host key fails first.    *)
RemovalRuns(n) ==
    /\ op[n].pc = "remove"
    /\ \/ /\ node[n].key
          /\ host' = [file |-> None, run |-> None]
          /\ op' = [op EXCEPT ![n].pc = "removed"]
       \/ /\ SshFaults \/ ~node[n].key
          /\ op' = [op EXCEPT ![n].pc = "kept"]
          /\ UNCHANGED host
    /\ UNCHANGED <<node, enrol>>

RemovalFinishes(n) ==
    /\ op[n].pc \in {"removed", "kept"}
    /\ op' = [op EXCEPT ![n] = NoOp]
    /\ \/ ~Live(n) /\ UNCHANGED node
       \/ /\ Live(n) /\ op[n].pc = "removed"
          /\ Bump(n, [node[n] EXCEPT !.status = "pending_enrollment", !.deploy = "not_started",
                         !.installed = FALSE, !.enrolled = FALSE, !.token = 0, !.snap = FALSE])
       \/ /\ Live(n) /\ op[n].pc = "kept"
          /\ Bump(n, [node[n] EXCEPT !.status = "repair_required", !.deploy = "failed",
                         !.token = 0])
    /\ UNCHANGED <<enrol, host>>

(* The center process stops: a request at work is gone, its row stays as it *)
(* was, and nothing at startup looks for one left "deploying".              *)
InstallersLost ==
    /\ op' = [n \in Nodes |-> NoOp]
    /\ UNCHANGED <<node, enrol, host>>

-----------------------------------------------------------------------------
(* The Worker on the machine is the one the center knows for this node.     *)
Authentic(n) == Live(n) /\ node[n].token # 0 /\ host.run = <<n, node[n].token>>

(* record_node_heartbeat.                                                   *)
Beats(n, health) ==
    /\ Authentic(n) /\ node[n].status # "disabled"
    /\ node' = [node EXCEPT ![n].status = health, ![n].snap = TRUE, ![n].beat = TRUE]
    /\ UNCHANGED <<enrol, host, op>>

Reachable(n) == Live(n) /\ node[n].status \in {"online", "degraded"}

-----------------------------------------------------------------------------
(* Model verification.                                                      *)
UpdateModel ==
    /\ model.rev < MaxModelRev
    /\ model' = [rev |-> model.rev + 1, status |-> "draft"]
    /\ UNCHANGED <<check, testing, proved>>

RequestVerification(n) ==
    /\ check.status \notin {"queued", "running"} /\ check.id < MaxChecks
    /\ Live(n) /\ node[n].status = "online"
    /\ check' = [id |-> check.id + 1, status |-> "queued", rev |-> model.rev, node |-> n]
    /\ UNCHANGED <<model, testing, proved>>

(* Claimed on a heartbeat; a claim 90 seconds old is queued and claimed     *)
(* again.  The answer may not reach the Worker.                             *)
ClaimVerification(n) ==
    /\ check.node = n /\ check.status \in {"queued", "running"} /\ Reachable(n)
    /\ check' = [check EXCEPT !.status = "running"]
    /\ \/ testing' = testing \cup {[id |-> check.id, rev |-> check.rev, node |-> n]}
       \/ UNCHANGED testing
    /\ UNCHANGED <<model, proved>>

(* Mutant: the verdict is for whatever configuration is current.            *)
VerdictForAny(t, good) == [model EXCEPT !.status = IF good THEN "verified" ELSE "draft"]

(* The configuration is verified only if it is still the one that was       *)
(* tested.                                                                  *)
Verdict(t, good) ==
    IF t.rev = model.rev THEN [model EXCEPT !.status = IF good THEN "verified" ELSE "draft"]
    ELSE model

FinishVerification(t, good) ==
    /\ t \in testing
    /\ testing' = testing \ {t}
    /\ IF Authentic(t.node) /\ check.id = t.id /\ check.status = "running"
       THEN /\ check' = [check EXCEPT !.status = IF good THEN "succeeded" ELSE "failed"]
            /\ model' = Verdict(t, good)
            /\ proved' = IF good THEN proved \cup {t.rev} ELSE proved
       ELSE UNCHANGED <<model, check, proved>>

-----------------------------------------------------------------------------
(* A disabled node holds neither a credential nor an enrolment token: a     *)
(* deployment, an enrolment or a removal that was under way when the user   *)
(* disabled the node (update_node) gives it none.                           *)
DisabledIsLockedOut ==
    \A n \in Nodes : Live(n) /\ node[n].status = "disabled" => node[n].token = 0 /\ enrol[n] = 0

(* A configuration is "verified" only if a Worker found that very revision  *)
(* good: neither a verdict that arrives after an edit, nor the verdict of a *)
(* claim that was given up and repeated, verifies something else            *)
(* (finish_model_verification).                                             *)
VerifiedIsCurrent == model.status = "verified" => model.rev \in proved

=============================================================================
