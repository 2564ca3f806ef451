----------------------------- MODULE DataPlane -----------------------------
(***************************************************************************)
(* The Worker's side of the data plane (training_worker/daemon.py and      *)
(* datasets.py) and the whole of it together.  Two threads of the Worker   *)
(* take commands: the one that polls for them and the one that sends       *)
(* heartbeats.  A transfer is copied by a thread of its own.  A result the *)
(* center does not answer is lost: no thread sends it again.               *)
(***************************************************************************)
EXTENDS DatasetTransfers

CONSTANTS
    Expiring,       \* kinds of command whose claim may run out under the hands of the Worker
    Lossy,          \* whether an answer or a result may be lost
    MaxCrashes,     \* bound on the restarts of the Worker, and of the center
    IoFaults,       \* whether removing a directory may fail half way
    Slow            \* whether a copy may outlast the 60 s a stop waits for it

VARIABLES
    part,           \* releases with a partial directory on the machine
    full,           \* release -> "none", "whole" or "torn": the final directory
    mgr,            \* the transfer thread (DatasetTransferManager)
    hands,          \* the two threads that take commands
    crashes

workerVars == <<part, full, mgr, hands, crashes>>
planeVars == <<nodeVars, modelVars, dataVars, workerVars>>

Threads == {"poll", "beat"}
NoMgr == [pc |-> "idle", cmd |-> 0, claim |-> 0, x |-> 0, stop |-> FALSE, discard |-> FALSE,
          res |-> "none"]
NoHand == [pc |-> "idle", cmd |-> 0, claim |-> 0, ok |-> FALSE]

WorkerInit ==
    /\ part = {}
    /\ full = [d \in Releases |-> "none"]
    /\ mgr = NoMgr
    /\ hands = [h \in Threads |-> NoHand]
    /\ crashes = [worker |-> 0, center |-> 0]

Running == host.run # None
Hand(h, v) == hands' = [hands EXCEPT ![h] = v]
Release(t) == xfers[t].src

(* A directory whose marker and files agree with the inventory.             *)
Matching(d) == full[d] = "whole"
Discarded(d) == part \ {d}

-----------------------------------------------------------------------------
(* A claim lasts 90 seconds: one that never arrived, or whose thread is     *)
(* gone, runs out; so does one still at work, for the kinds of Expiring.    *)
AtWork(c) ==
    \/ \E h \in Threads : hands[h].pc # "idle" /\ hands[h].cmd = c
    \/ mgr.pc # "idle" /\ mgr.cmd = c
RunsOut(c) == AtWork(c) => cmds[c].kind \in Expiring

(* Taking a command.  The heartbeat thread claims after a verification, if  *)
(* there is one.                                                            *)
TakeCommand(h, n, E, c) ==
    /\ hands[h].pc = "idle"
    /\ h = "beat" => ~(check.node = n /\ check.status \in {"queued", "running"})
    /\ ClaimCommands(n, E, c)
    /\ \/ c # None /\ Hand(h, [pc |-> cmds[c].kind, cmd |-> c, claim |-> cmds'[c].claim, ok |-> FALSE])
       \/ (c = None \/ Lossy) /\ UNCHANGED hands
    /\ UNCHANGED <<nodeVars, modelVars, part, full, mgr, crashes>>

(* DatasetTransferManager.start: one transfer at a time; otherwise the      *)
(* command fails.                                                           *)
StartTransfer(h) ==
    LET v == hands[h] IN
    /\ v.pc = "transfer" /\ Running
    /\ IF mgr.pc = "idle"
       THEN /\ mgr' = [NoMgr EXCEPT !.pc = "load", !.cmd = v.cmd, !.claim = v.claim,
                                    !.x = cmds[v.cmd].x]
            /\ Hand(h, NoHand)
       ELSE /\ Hand(h, [v EXCEPT !.pc = "publish"])
            /\ UNCHANGED mgr
    /\ UNCHANGED <<nodeVars, modelVars, dataVars, part, full, crashes>>

(* cancel_dataset_transfer: the copying thread is told and waited for; when *)
(* it does not copy this transfer, a cancellation removes the partial       *)
(* directory itself.                                                        *)
HandleStop(h) ==
    LET v == hands[h]
        t == cmds[v.cmd].x
        discard == cmds[v.cmd].act = "cancel"
    IN
    /\ v.pc = "stop" /\ Running
    /\ \/ /\ mgr.pc # "idle" /\ mgr.x = t
          /\ mgr' = [mgr EXCEPT !.stop = TRUE, !.discard = discard]
          /\ Hand(h, [v EXCEPT !.pc = "join"])
          /\ UNCHANGED part
       \/ /\ ~(mgr.pc # "idle" /\ mgr.x = t)
          /\ part' = IF discard THEN Discarded(Release(t)) ELSE part
          /\ Hand(h, [v EXCEPT !.pc = "publish", !.ok = TRUE])
          /\ UNCHANGED mgr
       \/ /\ IoFaults /\ discard /\ Release(t) \in part /\ ~(mgr.pc # "idle" /\ mgr.x = t)
          /\ Hand(h, [v EXCEPT !.pc = "publish"])
          /\ UNCHANGED <<part, mgr>>
    /\ UNCHANGED <<nodeVars, modelVars, dataVars, full, crashes>>

JoinTransfer(h) ==
    /\ hands[h].pc = "join" /\ Running
    /\ \/ mgr.pc = "idle" /\ Hand(h, [hands[h] EXCEPT !.pc = "publish", !.ok = TRUE])
       \/ Slow /\ mgr.pc # "idle" /\ Hand(h, [hands[h] EXCEPT !.pc = "publish"])
    /\ UNCHANGED <<nodeVars, modelVars, dataVars, part, full, mgr, crashes>>

(* remove_dataset_replica: a directory that is not there is removed; one    *)
(* whose marker does not match is left alone.  Removing takes time: another *)
(* thread may be removing the same directory, and then one of them fails.   *)
BeginRemove(h) ==
    LET v == hands[h]
        d == replicas[cmds[v.cmd].x].src IN
    /\ v.pc = "remove" /\ Running
    /\ Hand(h, IF full[d] = "none" THEN [v EXCEPT !.pc = "publish", !.ok = TRUE]
               ELSE [v EXCEPT !.pc = "rmtree"])
    /\ UNCHANGED <<nodeVars, modelVars, dataVars, part, full, mgr, crashes>>

EndRemove(h) ==
    LET v == hands[h]
        d == replicas[cmds[v.cmd].x].src IN
    /\ v.pc = "rmtree" /\ Running
    /\ \/ /\ full[d] # "none"
          /\ full' = [full EXCEPT ![d] = "none"]
          /\ Hand(h, [v EXCEPT !.pc = "publish", !.ok = TRUE])
       \/ /\ full[d] = "none"       \* the other thread was faster
          /\ Hand(h, [v EXCEPT !.pc = "publish"])
          /\ UNCHANGED full
       \/ /\ IoFaults /\ full[d] # "none"
          /\ full' = [full EXCEPT ![d] = "torn"]
          /\ Hand(h, [v EXCEPT !.pc = "publish"])
    /\ UNCHANGED <<nodeVars, modelVars, dataVars, part, mgr, crashes>>

(* The result reaches the center, or is lost.                               *)
Publish(h) ==
    LET v == hands[h]
        kind == cmds[v.cmd].kind IN
    /\ v.pc = "publish" /\ Running
    /\ \/ kind = "transfer" /\ TransferEnds(v.cmd, v.claim, "failed")
       \/ kind = "stop" /\ StopEnds(v.cmd, v.claim, v.ok)
       \/ kind = "remove" /\ RemoveEnds(v.cmd, v.claim, v.ok)
       \/ Refused(v.cmd, v.claim)
       \/ Lossy /\ UNCHANGED dataVars
    /\ Hand(h, NoHand)
    /\ UNCHANGED <<nodeVars, modelVars, part, full, mgr, crashes>>

-----------------------------------------------------------------------------
(* _run_transfer, step by step.                                             *)
MgrTo(pc, res) == mgr' = [mgr EXCEPT !.pc = pc, !.res = res]
MgrOnly == UNCHANGED <<nodeVars, modelVars, dataVars, hands, crashes>>

(* The inventory; a whole directory with a matching marker is enough; a     *)
(* final directory that does not match fails the transfer.                  *)
LoadInventory ==
    LET d == Release(mgr.x) IN
    /\ mgr.pc = "load" /\ Running
    /\ \/ Matching(d) /\ MgrTo("publish", "succeeded") /\ UNCHANGED part
       \/ full[d] = "none" /\ part' = part \cup {d} /\ MgrTo("copy", "none")
       \/ ~Matching(d) /\ MgrTo("publish", "failed") /\ UNCHANGED part
    /\ UNCHANGED full
    /\ MgrOnly

ReportCopy ==
    /\ mgr.pc = "copy" /\ Running
    /\ ReportProgress(mgr.cmd, mgr.claim)
    /\ UNCHANGED <<nodeVars, modelVars, workerVars>>

(* Mutant: the transfer succeeds before its directory is in place.          *)
CopyEndsUnplaced ==
    /\ mgr.pc = "copy" /\ ~mgr.stop /\ Running
    /\ MgrTo("publish", IF Release(mgr.x) \in part THEN "succeeded" ELSE "failed")
    /\ UNCHANGED <<part, full>>
    /\ MgrOnly

(* The last file is copied; or a file fails its checksum, the center does   *)
(* not answer, or the partial directory has gone: what was copied stays.    *)
CopyEnds ==
    LET d == Release(mgr.x) IN
    /\ mgr.pc = "copy" /\ ~mgr.stop /\ Running
    /\ \/ d \in part /\ MgrTo("place", "none")
       \/ MgrTo("publish", "failed")
    /\ UNCHANGED <<part, full>>
    /\ MgrOnly

(* os.replace: the partial directory becomes the final one.                 *)
Place ==
    LET d == Release(mgr.x) IN
    /\ mgr.pc = "place" /\ Running
    /\ IF d \in part /\ full[d] = "none"
       THEN /\ part' = part \ {d}
            /\ full' = [full EXCEPT ![d] = "whole"]
            /\ MgrTo("publish", "succeeded")
       ELSE MgrTo("publish", "failed") /\ UNCHANGED <<part, full>>
    /\ MgrOnly

(* The stop is seen between two chunks: the partial directory goes only if  *)
(* the transfer was cancelled.                                              *)
StopSeen ==
    LET d == Release(mgr.x) IN
    /\ mgr.pc = "copy" /\ mgr.stop /\ Running
    /\ \/ /\ part' = IF mgr.discard THEN Discarded(d) ELSE part
          /\ MgrTo("publish", IF mgr.discard THEN "cancelled" ELSE "paused")
       \/ /\ IoFaults /\ mgr.discard
          /\ MgrTo("publish", "failed")
          /\ UNCHANGED part
    /\ UNCHANGED full
    /\ MgrOnly

PublishTransfer ==
    /\ mgr.pc = "publish" /\ Running
    /\ \/ TransferEnds(mgr.cmd, mgr.claim, mgr.res)
       \/ Refused(mgr.cmd, mgr.claim)
       \/ Lossy /\ UNCHANGED dataVars
    /\ mgr' = [mgr EXCEPT !.pc = "end"]
    /\ UNCHANGED <<nodeVars, modelVars, part, full, hands, crashes>>

(* The thread gives up the transfer after it published the result.          *)
TransferGone ==
    /\ mgr.pc = "end" /\ Running
    /\ mgr' = NoMgr
    /\ UNCHANGED <<part, full>>
    /\ MgrOnly

-----------------------------------------------------------------------------
(* The service stops (it is updated, or dies) and starts again with the     *)
(* credential it had; the threads are gone, the directories stay.           *)
WorkerStops == mgr' = NoMgr /\ hands' = [h \in Threads |-> NoHand]

WorkerRestarts ==
    /\ crashes.worker < MaxCrashes /\ Running
    /\ WorkerStops
    /\ crashes' = [crashes EXCEPT !.worker = @ + 1]
    /\ UNCHANGED <<nodeVars, modelVars, dataVars, part, full>>

CenterRestarts ==
    /\ crashes.center < MaxCrashes
    /\ InstallersLost
    /\ prep' = None
    /\ crashes' = [crashes EXCEPT !.center = @ + 1]
    /\ UNCHANGED <<modelVars, source, xfers, cmds, replicas, part, full, mgr, hands>>

-----------------------------------------------------------------------------
PlaneInit == NodesInit /\ ModelInit /\ DataInit /\ WorkerInit

(* Installing and removing restart or stop the service.                     *)
Service == IF host' = host THEN UNCHANGED <<mgr, hands>> ELSE WorkerStops

UserNodes ==
    /\ \E n \in Nodes :
          \/ CreateNode(n) \/ CreateToken(n) \/ BeginDeployment(n) \/ BeginRemoval(n)
          \/ \E s \in {None, "offline", "repair_required", "disabled"} : UpdateNode(n, s)
    /\ UNCHANGED <<modelVars, dataVars, workerVars>>

Installers ==
    /\ \E n \in Nodes :
          \/ DeployToken(n) \/ DeployInstalls(n) \/ DeployBreaks(n) \/ DeployWaits(n)
          \/ DeployInvalidates(n) \/ DeployFinishes(n) \/ RemovalRuns(n) \/ RemovalFinishes(n)
    /\ Service
    /\ UNCHANGED <<modelVars, dataVars, part, full, crashes>>

UserDeletes ==
    /\ \E n \in Nodes : DeleteNode(n)
    /\ UNCHANGED workerVars

UserModels ==
    /\ UpdateModel \/ \E n \in Nodes : RequestVerification(n)
    /\ UNCHANGED <<nodeVars, dataVars, workerVars>>

Verifications ==
    /\ \/ \E n \in Nodes : Authentic(n) /\ ClaimVerification(n)
       \/ \E t \in testing, good \in BOOLEAN : FinishVerification(t, good)
    /\ UNCHANGED <<nodeVars, dataVars, workerVars>>

Heartbeats ==
    /\ \E n \in Nodes, s \in {"online", "degraded", "repair_required"} : Heartbeat(n, s)
    /\ UNCHANGED <<modelVars, workerVars>>

UserData ==
    /\ \/ \E n \in Nodes, ds \in SUBSET Releases : CreateTransfers(n, ds)
       \/ \E t \in DOMAIN xfers : PauseTransfer(t) \/ CancelTransfer(t) \/ RetryTransfer(t)
       \/ \E r \in DOMAIN replicas : RemoveReplica(r)
    /\ UNCHANGED <<nodeVars, modelVars, workerVars>>

Preparation ==
    /\ (\E d \in Releases : ClaimPreparation(d)) \/ CompletePreparation \/ FailPreparation
    /\ UNCHANGED <<nodeVars, modelVars, workerVars>>

Commands ==
    \E h \in Threads :
       \/ \E n \in Nodes : \E E \in SUBSET {c \in Expirable(n) : RunsOut(c)},
                             c \in DOMAIN cmds \cup {None} : TakeCommand(h, n, E, c)
       \/ StartTransfer(h) \/ HandleStop(h) \/ JoinTransfer(h) \/ BeginRemove(h) \/ EndRemove(h)
       \/ Publish(h)

Copying ==
    \/ LoadInventory \/ ReportCopy \/ CopyEnds \/ Place \/ StopSeen \/ PublishTransfer
    \/ TransferGone

PlaneNext ==
    \/ UserNodes \/ UserDeletes \/ UserModels \/ UserData
    \/ Installers \/ Preparation \/ Verifications \/ Heartbeats
    \/ Commands \/ Copying
    \/ WorkerRestarts \/ CenterRestarts

PlaneSpec == PlaneInit /\ [][PlaneNext]_planeVars

-----------------------------------------------------------------------------
(* A replica that the center offers to training runs (resolve_dataset_      *)
(* selection takes the "ready" ones) is a whole directory on the machine:   *)
(* no copy that was paused, cancelled or cut off, no late result and no     *)
(* recovery makes one of something else.  Only a release whose removal the  *)
(* Worker was ever handed is in doubt: a transfer that found the directory  *)
(* in place may report its success after the removal has ended, and the     *)
(* center then offers the replica anew (_apply_terminal_command_result).    *)
RemovalTaken(d) ==
    \E c \in DOMAIN cmds :
       cmds[c].kind = "remove" /\ cmds[c].claim # 0 /\ replicas[cmds[c].x].src = d

UnremovedReplicaOnDisk ==
    \A r \in DOMAIN replicas :
       replicas[r].status = "ready" /\ ~RemovalTaken(replicas[r].src)
          => full[replicas[r].src] = "whole"

(* A node is given one transfer at a time: a claim that ran out, a request  *)
(* for several releases, a retry and a recovery may each leave commands in  *)
(* the queue, and of those of one node at most one is claimed               *)
(* (claim_node_commands).                                                   *)
OneTransferRunning ==
    \A c, o \in DOMAIN cmds :
       /\ cmds[c].kind = "transfer" /\ cmds[o].kind = "transfer"
       /\ cmds[c].status = "running" /\ cmds[o].status = "running"
       /\ cmds[c].node = cmds[o].node
       => c = o
=============================================================================
