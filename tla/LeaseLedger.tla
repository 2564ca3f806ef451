---------------------------- MODULE LeaseLedger ----------------------------
(***************************************************************************)
(* What the training center promises about GPUs and master ports, without  *)
(* runs, stages or Workers: a run is granted a set of free GPUs, and a     *)
(* port if it wants one, in a single step and once only; it gives all of   *)
(* them back in a single step (several runs may do so at once); nothing    *)
(* else ever changes a lease.                                              *)
(***************************************************************************)
CONSTANTS Runs, Gpus, Ports, None

VARIABLES phase,     \* phase[r] \in {"new", "holding", "done"}
          gpuLease, portLease

ledgerVars == <<phase, gpuLease, portLease>>

Init == /\ phase = [r \in Runs |-> "new"]
        /\ gpuLease = [g \in Gpus |-> None]
        /\ portLease = [p \in Ports |-> None]

Grant(r, gs, ps) ==
    /\ phase[r] = "new"
    /\ \A g \in gs : gpuLease[g] = None
    /\ \A p \in ps : portLease[p] = None
    /\ phase' = [phase EXCEPT ![r] = "holding"]
    /\ gpuLease' = [g \in Gpus |-> IF g \in gs THEN r ELSE gpuLease[g]]
    /\ portLease' = [p \in Ports |-> IF p \in ps THEN r ELSE portLease[p]]

Release(rs) ==
    /\ \A r \in rs : phase[r] = "holding"
    /\ phase' = [r \in Runs |-> IF r \in rs THEN "done" ELSE phase[r]]
    /\ gpuLease' = [g \in Gpus |-> IF gpuLease[g] \in rs THEN None ELSE gpuLease[g]]
    /\ portLease' = [p \in Ports |-> IF portLease[p] \in rs THEN None ELSE portLease[p]]

Next ==
    \/ \E r \in Runs, gs \in (SUBSET Gpus) \ {{}}, ps \in SUBSET Ports : Grant(r, gs, ps)
    \/ \E rs \in SUBSET Runs : Release(rs)

Spec == Init /\ [][Next]_ledgerVars
=============================================================================
