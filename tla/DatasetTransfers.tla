-------------------------- MODULE DatasetTransfers --------------------------
(***************************************************************************)
(* The managed data plane of the center (training/store.py,                *)
(* training/datasets.py): the source inventories it prepares, the          *)
(* transfers a user asks for, the replicas it believes a node has, and the *)
(* commands it queues for the Worker.  A command is claimed for a time: a  *)
(* claim that runs out is queued again and the result of the old claim is  *)
(* refused by its claim token.                                             *)
(***************************************************************************)
EXTENDS TrainingNodes, SequencesExt

CONSTANTS
    Releases,       \* released dates (each one a directory on the machine)
    MaxTransfers,   \* bound on the transfers
    MaxCommands,    \* bound on the commands queued by users
    MaxClaims       \* bound on the claims of one command

ASSUME ReleasesAssumption == IsFiniteSet(Releases)

VARIABLES
    source,         \* table dataset_source_manifests
    prep,           \* the release the preparation thread works on, or None
    xfers,          \* table dataset_transfers
    cmds,           \* table training_node_commands
    replicas        \* table dataset_replicas

dataVars == <<source, prep, xfers, cmds, replicas>>

ActiveStatuses == {"preparing", "queued", "running", "pause_requested", "cancel_requested"}
TransferStatuses == ActiveStatuses \cup {"paused", "failed", "cancelled", "succeeded"}

DataInit ==
    /\ source = [d \in Releases |-> "none"]
    /\ prep = None
    /\ xfers = <<>>
    /\ cmds = <<>>
    /\ replicas = <<>>

Command(kind, n, x, act) ==
    [kind |-> kind, node |-> n, x |-> x, act |-> act, status |-> "queued", claim |-> 0]

TransferCommand(n, t) == Command("transfer", n, t, "none")

Queue(cs) ==
    /\ Len(cmds) + Len(cs) <= MaxCommands
    /\ cmds' = cmds \o cs

ActiveOn(n) == \E t \in DOMAIN xfers : xfers[t].node = n /\ xfers[t].status \in ActiveStatuses
ReplicaOn(n, d) == \E r \in DOMAIN replicas : replicas[r].node = n /\ replicas[r].src = d
                                              /\ replicas[r].status # "gone"
SetStatus(t, s) == xfers' = [xfers EXCEPT ![t].status = s]

(* The row numbers in S in the order in which the queries return them.      *)
InRowOrder(S) ==
    [i \in 1 .. Cardinality(S) |-> CHOOSE s \in S : Cardinality({r \in S : r <= s}) = i]

-----------------------------------------------------------------------------
(* The inventories.  A transfer waits for the inventory of its release.     *)
ClaimPreparation(d) ==
    /\ prep = None
    /\ source[d] \in {"preparing", "building"}     \* a "building" row: its lease ran out
    /\ source' = [source EXCEPT ![d] = "building"]
    /\ prep' = d
    /\ UNCHANGED <<xfers, cmds, replicas>>

Waiting(d) == {t \in DOMAIN xfers : xfers[t].src = d /\ xfers[t].status = "preparing"}

CompletePreparation ==
    LET ts == InRowOrder({t \in Waiting(prep) : Live(xfers[t].node)}) IN
    /\ prep # None
    /\ source' = [source EXCEPT ![prep] = "ready"]
    /\ xfers' = [t \in DOMAIN xfers |->
                    IF t \in Waiting(prep) THEN [xfers[t] EXCEPT !.status = "queued"] ELSE xfers[t]]
    /\ Queue([i \in DOMAIN ts |-> TransferCommand(xfers[ts[i]].node, ts[i])])
    /\ prep' = None
    /\ UNCHANGED replicas

FailPreparation ==
    /\ prep # None
    /\ source' = [source EXCEPT ![prep] = "failed"]
    /\ xfers' = [t \in DOMAIN xfers |->
                    IF t \in Waiting(prep) THEN [xfers[t] EXCEPT !.status = "failed"] ELSE xfers[t]]
    /\ prep' = None
    /\ UNCHANGED <<cmds, replicas>>

-----------------------------------------------------------------------------
(* The user's requests.                                                     *)
(* One request may ask for several releases: their transfers are queued     *)
(* together and carried out one after another.                              *)
CreateTransfers(n, ds) ==
    LET new == SetToSeq(ds)
        first == Len(xfers)
        ready == InRowOrder({i \in DOMAIN new : source[new[i]] = "ready"})
    IN
    /\ Reachable(n) /\ ~ActiveOn(n) /\ ds # {}
    /\ \A d \in ds : ~ReplicaOn(n, d)
    /\ \A t \in DOMAIN xfers : xfers[t].node = n /\ xfers[t].src \in ds
                                  => xfers[t].status \notin {"failed", "paused"}
    /\ first + Len(new) <= MaxTransfers
    /\ xfers' = xfers \o [i \in DOMAIN new |->
                    [node |-> n, src |-> new[i], rec |-> 0,
                     status |-> IF source[new[i]] = "ready" THEN "queued" ELSE "preparing"]]
    /\ source' = [d \in Releases |-> IF d \in ds /\ source[d] \in {"none", "failed"}
                                     THEN "preparing" ELSE source[d]]
    /\ Queue([i \in DOMAIN ready |-> TransferCommand(n, first + ready[i])])
    /\ UNCHANGED <<prep, replicas>>

CommandRunning(t) ==
    \E c \in DOMAIN cmds : cmds[c].kind = "transfer" /\ cmds[c].x = t /\ cmds[c].status = "running"

CancelQueued(t) ==
    [c \in DOMAIN cmds |-> IF cmds[c].kind = "transfer" /\ cmds[c].x = t /\ cmds[c].status = "queued"
                           THEN [cmds[c] EXCEPT !.status = "cancelled"] ELSE cmds[c]]

(* A transfer the Worker may be working on is asked to stop by a command;   *)
(* one that is only queued is taken from the queue.                         *)
Asked(act) == IF act = "cancel" THEN "cancel_requested" ELSE "pause_requested"
Stopped(act) == IF act = "cancel" THEN "cancelled" ELSE "paused"

StopTransfer(t, act, atWorker) ==
    LET n == xfers[t].node IN
    /\ SetStatus(t, IF atWorker THEN Asked(act) ELSE Stopped(act))
    /\ IF atWorker
       THEN /\ Reachable(n)
            /\ Queue(<<Command("stop", n, t, act)>>)
       ELSE cmds' = IF xfers[t].status = "queued" THEN CancelQueued(t) ELSE cmds
    /\ UNCHANGED <<source, prep, replicas>>

PauseTransfer(t) ==
    /\ xfers[t].status \in {"preparing", "queued", "running"}
    /\ StopTransfer(t, "pause", xfers[t].status = "running" \/ CommandRunning(t))

CancelTransfer(t) ==
    /\ xfers[t].status \in {"preparing", "queued", "running", "paused", "failed"}
    /\ StopTransfer(t, "cancel",
                    ~(xfers[t].status = "preparing"
                        \/ (xfers[t].status = "queued" /\ ~CommandRunning(t))))

RetryTransfer(t) ==
    LET d == xfers[t].src
        ready == source[d] = "ready" IN
    /\ xfers[t].status \in {"failed", "paused"}
    /\ Reachable(xfers[t].node)
    /\ SetStatus(t, IF ready THEN "queued" ELSE "preparing")
    /\ source' = IF ready THEN source ELSE [source EXCEPT ![d] = "preparing"]
    /\ Queue(IF ready THEN <<TransferCommand(xfers[t].node, t)>> ELSE <<>>)
    /\ UNCHANGED <<prep, replicas>>

RemoveReplica(r) ==
    /\ replicas[r].status = "ready" /\ replicas[r].node \in Nodes /\ Reachable(replicas[r].node)
    /\ replicas' = [replicas EXCEPT ![r].status = "removing"]
    /\ Queue(<<Command("remove", replicas[r].node, r, "none")>>)
    /\ UNCHANGED <<source, prep, xfers>>

(* delete_node leaves the replicas of the node without one.                 *)
DeleteNode(n) ==
    /\ DeleteRow(n)
    /\ replicas' = [r \in DOMAIN replicas |->
                       IF replicas[r].node = n THEN [replicas[r] EXCEPT !.node = None] ELSE replicas[r]]
    /\ UNCHANGED <<source, prep, xfers, cmds>>

-----------------------------------------------------------------------------
(* _queue_detached_dataset_replica_recovery: the machine of the node holds  *)
(* a replica no node owns; the Worker is asked to look at it, once.  All    *)
(* rows are one machine, so the host keys agree.                            *)
Detached(n, xs, rs) ==
    {r \in DOMAIN rs : /\ rs[r].node = None /\ rs[r].status = "ready"
                       /\ source[rs[r].src] = "ready"
                       /\ \A q \in DOMAIN rs : ~(rs[q].node = n /\ rs[q].src = rs[r].src
                                                  /\ rs[q].status # "gone")
                       /\ \A t \in DOMAIN xs : xs[t].rec # r}

RecoveryDue(n, xs, rs) ==
    /\ node[n].key
    /\ \A t \in DOMAIN xs : ~(xs[t].node = n /\ xs[t].status \in ActiveStatuses)
    /\ Detached(n, xs, rs) # {}
    /\ Len(xs) < MaxTransfers /\ Len(cmds) < MaxCommands

Recovery(n, xs, rs) ==
    LET r == CHOOSE q \in Detached(n, xs, rs) : \A p \in Detached(n, xs, rs) : q <= p
    IN [node |-> n, src |-> rs[r].src, status |-> "queued", rec |-> r]

(* A heartbeat of a healthy Worker looks for one replica to recover.        *)
Heartbeat(n, health) ==
    /\ Beats(n, health)
    /\ IF health = "online" /\ RecoveryDue(n, xfers, replicas)
       THEN /\ xfers' = Append(xfers, Recovery(n, xfers, replicas))
            /\ cmds' = Append(cmds, TransferCommand(n, Len(xfers) + 1))
       ELSE UNCHANGED <<xfers, cmds>>
    /\ UNCHANGED <<source, prep, replicas>>

-----------------------------------------------------------------------------
(* claim_node_commands.  A transfer whose user no longer wants it is        *)
(* settled instead of claimed or queued again.                              *)
Wanted(t) == xfers[t].status \in {"queued", "running"}
Abandoned(c) == cmds[c].kind = "transfer" /\ ~Wanted(cmds[c].x)


(* _settle_abandoned_transfer_command.                                      *)
Settle(x) ==
    CASE x.status = "pause_requested" -> [x EXCEPT !.status = "paused"]
      [] x.status = "cancel_requested" -> [x EXCEPT !.status = "failed"]
      [] OTHER -> x

SettledTransfers(S) ==
    [t \in DOMAIN xfers |-> IF \E c \in S : Abandoned(c) /\ cmds[c].x = t
                            THEN Settle(xfers[t]) ELSE xfers[t]]

(* The claims E of node n have run out.                                     *)
Expirable(n) == {c \in DOMAIN cmds : cmds[c].node = n /\ cmds[c].status = "running"}

Requeued(E) ==
    [c \in DOMAIN cmds |->
        IF c \notin E THEN cmds[c]
        ELSE [cmds[c] EXCEPT !.status = IF Abandoned(c) THEN "cancelled" ELSE "queued"]]

(* Mutant: transfers are handed out side by side.                           *)
ClaimableSideBySide(n, cs) == {c \in DOMAIN cs : cs[c].node = n /\ cs[c].status = "queued"}

(* The oldest queued command; a transfer only when none is running.         *)
Claimable(n, cs) ==
    {c \in DOMAIN cs : /\ cs[c].node = n /\ cs[c].status = "queued"
                       /\ cs[c].kind = "transfer" =>
                            \A o \in DOMAIN cs : ~(cs[o].node = n /\ cs[o].kind = "transfer"
                                                    /\ cs[o].status = "running")}

Oldest(S) == {c \in S : \A o \in S : c <= o}

(* Commands E are taken back, and c is claimed: None when there is nothing  *)
(* to claim or the oldest one is a transfer that is settled.                *)
ClaimCommands(n, E, c) ==
    LET cs == Requeued(E)
        first == Oldest(Claimable(n, cs)) IN
    /\ Authentic(n)
    /\ E \subseteq Expirable(n)
    /\ \/ /\ c # None /\ c \in first /\ ~Abandoned(c) /\ cs[c].claim < MaxClaims
          /\ cmds' = [cs EXCEPT ![c].status = "running", ![c].claim = @ + 1]
          /\ xfers' = SettledTransfers(E)
       \/ /\ c = None /\ \A f \in first : Abandoned(f)
          /\ cmds' = [b \in DOMAIN cs |->
                         IF b \in first THEN [cs[b] EXCEPT !.status = "cancelled"] ELSE cs[b]]
          /\ xfers' = SettledTransfers(E \cup first)
    /\ UNCHANGED <<source, prep, replicas>>


-----------------------------------------------------------------------------
(* finish_node_command: accepted from the holder of the claim alone.        *)
ClaimHeld(c, k) == cmds[c].status = "running" /\ cmds[c].claim = k

TakesResult(c, k) == Authentic(cmds[c].node) /\ ClaimHeld(c, k)

Finished(c, s) == cmds' = [cmds EXCEPT ![c].status = s]

(* _update_running_command.                                                 *)
ReportProgress(c, k) ==
    /\ TakesResult(c, k)
    /\ SetStatus(cmds[c].x, IF xfers[cmds[c].x].status = "queued" THEN "running"
                            ELSE xfers[cmds[c].x].status)
    /\ UNCHANGED <<source, prep, cmds, replicas>>

(* The replica a successful transfer leaves: the recovered one is rebound,  *)
(* the row of the node and release is made ready, or there is a new row.    *)
Rebound(t) == [replicas EXCEPT ![xfers[t].rec].node = xfers[t].node]

Upserted(t) ==
    LET own == {r \in DOMAIN replicas : replicas[r].node = xfers[t].node
                                        /\ replicas[r].src = xfers[t].src
                                        /\ replicas[r].status # "gone"}
    IN IF own = {}
       THEN Append(replicas, [node |-> xfers[t].node, src |-> xfers[t].src, status |-> "ready"])
       ELSE [r \in DOMAIN replicas |->
                IF r \in own THEN [replicas[r] EXCEPT !.status = "ready"] ELSE replicas[r]]

Recoverable(t) == replicas[xfers[t].rec].node = None /\ replicas[xfers[t].rec].status = "ready"

(* The result of a transfer is final whatever the user asked for meanwhile. *)
TransferEnds(c, k, res) ==
    LET t == cmds[c].x
        n == xfers[t].node
        ok == res = "succeeded"
        rec == xfers[t].rec # 0
        status == IF ok /\ rec /\ ~Recoverable(t) THEN "failed" ELSE res
        rs == IF status # "succeeded" THEN replicas ELSE IF rec THEN Rebound(t) ELSE Upserted(t)
        xs == [xfers EXCEPT ![t].status = status]
        next == rec /\ Live(n) /\ RecoveryDue(n, xs, rs)
        ended == [cmds EXCEPT ![c].status = IF res = "failed" THEN "failed"
                                            ELSE IF ok THEN "succeeded" ELSE "cancelled"]
    IN
    /\ TakesResult(c, k)
    /\ replicas' = rs
    /\ xfers' = IF next THEN Append(xs, Recovery(n, xs, rs)) ELSE xs
    /\ cmds' = IF next THEN Append(ended, TransferCommand(n, Len(xs) + 1)) ELSE ended
    /\ UNCHANGED <<source, prep>>

RemoveEnds(c, k, ok) ==
    /\ TakesResult(c, k)
    /\ Finished(c, IF ok THEN "succeeded" ELSE "failed")
    /\ replicas' = [replicas EXCEPT ![cmds[c].x].status =
                       IF ok THEN "gone" ELSE IF @ = "gone" THEN @ ELSE "ready"]
    /\ UNCHANGED <<source, prep, xfers>>

(* A stop that the Worker confirmed counts while it is still asked for.     *)
StopEnds(c, k, ok) ==
    LET t == cmds[c].x
        act == cmds[c].act IN
    /\ TakesResult(c, k)
    /\ Finished(c, IF ok THEN "succeeded" ELSE "failed")
    /\ xfers' = IF ok /\ xfers[t].status = Asked(act)
                THEN [xfers EXCEPT ![t].status = Stopped(act)] ELSE xfers
    /\ UNCHANGED <<source, prep, replicas>>

Refused(c, k) == ~TakesResult(c, k) /\ UNCHANGED dataVars
=============================================================================
