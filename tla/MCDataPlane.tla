---------------------------- MODULE MCDataPlane ----------------------------
(* Situations explored one by one.  "nodes": a machine is registered,       *)
(* installed, repaired and removed.  "models": a model is verified on a     *)
(* node that the user may disable.  "prepare": inventories are taken and    *)
(* fail.  "data": a dataset is moved to a node and removed while the Worker *)
(* restarts.  "both": two datasets are asked for at once.  "again": the     *)
(* machine was registered again while it held a replica of its former row.  *)
(* The bounds of a situation are those of its record; stops and removals    *)
(* are claimed again in "again" only.                                       *)
EXTENDS DataPlane

CONSTANTS Scenarios, n1, n2, d1, d2

VARIABLE scenario

mcVars == <<scenario, planeVars>>

Up(n) == [NoRow EXCEPT !.row = "live", !.status = "online", !.deploy = "succeeded", !.rev = 3,
                       !.token = 2, !.key = TRUE, !.installed = TRUE, !.enrolled = TRUE,
                       !.snap = TRUE]
Gone == [NoRow EXCEPT !.row = "deleted", !.key = TRUE]

Case(what, rels, transfers, commands, cr) ==
    [what |-> what, rels |-> rels, transfers |-> transfers, commands |-> commands, crashes |-> cr]

MCScenarios ==
    {Case("nodes", {}, 0, 0, 1), Case("models", {}, 0, 0, 0),
     Case("prepare", {d1, d2}, 2, 3, 1), Case("data", {d1}, 1, 3, 1),
     Case("both", {d1, d2}, 2, 3, 0), Case("again", {d1}, 2, 2, 0)}

MCInit ==
    /\ scenario \in Scenarios
    /\ ModelInit
    /\ enrol = [n \in Nodes |-> 0]
    /\ op = [n \in Nodes |-> NoOp]
    /\ prep = None /\ xfers = <<>> /\ cmds = <<>> /\ part = {}
    /\ mgr = NoMgr /\ hands = [h \in Threads |-> NoHand]
    /\ crashes = [worker |-> 0, center |-> 0]
    /\ CASE scenario.what = "nodes" ->
              /\ NodesInit
              /\ source = [d \in Releases |-> "none"]
              /\ replicas = <<>> /\ full = [d \in Releases |-> "none"]
         [] scenario.what \in {"prepare", "data", "both", "models"} ->
              /\ node = [n \in Nodes |-> IF n = n1 THEN Up(n) ELSE NoRow]
              /\ host = [file |-> <<n1, 2>>, run |-> <<n1, 2>>]
              /\ source = [d \in Releases |-> IF scenario.what = "prepare" THEN "none" ELSE "ready"]
              /\ replicas = <<>> /\ full = [d \in Releases |-> "none"]
         [] scenario.what = "again" ->
              /\ node = [n \in Nodes |-> IF n = n1 THEN Gone ELSE Up(n)]
              /\ host = [file |-> <<n2, 2>>, run |-> <<n2, 2>>]
              /\ source = [d \in Releases |-> "ready"]
              /\ replicas = <<[node |-> None, src |-> d1, status |-> "ready"]>>
              /\ full = [d \in Releases |-> IF d = d1 THEN "whole" ELSE "none"]

Bounds ==
    /\ Len(xfers') <= scenario.transfers /\ Len(cmds') <= scenario.commands
    /\ \A t \in DOMAIN xfers' : xfers'[t].src \in scenario.rels
    /\ crashes'.worker + crashes'.center <= scenario.crashes
    /\ \A c \in DOMAIN cmds' :
          scenario.what = "both" \/ (scenario.what = "data" /\ cmds'[c].kind # "transfer")
             => cmds'[c].claim <= 1
    /\ scenario.what \in {"nodes", "models"} => node'[n2] = node[n2]
    /\ scenario.what = "models" => node'[n1].rev <= 4

In(whats, Step) == scenario.what \in whats /\ UNCHANGED scenario /\ Step /\ Bounds

MCNext ==
    \/ In({"nodes", "models"}, UserNodes)
    \/ In({"nodes"}, UserDeletes)
    \/ In({"nodes"}, Installers)
    \/ In({"nodes", "models", "again"}, Heartbeats)
    \/ In({"nodes", "prepare"}, CenterRestarts)
    \/ In({"models"}, UserModels)
    \/ In({"models"}, Verifications)
    \/ In({"prepare", "data", "both", "again"}, UserData)
    \/ In({"prepare"}, Preparation)
    \/ In({"data", "both", "again"}, Commands)
    \/ In({"data", "both", "again"}, Copying)
    \/ In({"data"}, WorkerRestarts)

MCSpec == MCInit /\ [][MCNext]_mcVars
=============================================================================
