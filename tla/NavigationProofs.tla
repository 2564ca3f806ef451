-------------------------- MODULE NavigationProofs --------------------------
(***************************************************************************)
(* Proofs about plan execution, for any tasks, phases, plans and threads   *)
(* of processing tools: a step is invoked once, a step given up is dead, a *)
(* decision is consumed once, and a superseded plan is at rest.            *)
(*                                                                         *)
(* None of the four is inductive.  NavInv adds to them where every actor   *)
(* may stand and on which step, that a tool between the gate and its       *)
(* return holds the writer lock (so that only one works), that a step      *)
(* about to be invoked was not, what the coordinator was told, and for     *)
(* every decision whether its step is decided and its handoff claimed.     *)
(*                                                                         *)
(* A step is proved in two halves.  Most transactions write one row: they  *)
(* disturb neither running work nor decisions (Gentle), may give running   *)
(* work up (Firm), or change the delivery of a decision (Loose).  Then     *)
(* one actor moves (ActorMoves) while the others keep what they hold.      *)
(***************************************************************************)
EXTENDS NavigationExecution, SequenceFacts, FiniteSetTheorems, WellFoundedInduction

(* The row of a plan, with one status and one outbox entry for every step.  *)
IsPlan(v) ==
    /\ v = [task |-> v.task, phase |-> v.phase, st |-> v.st, step |-> v.step,
            box |-> v.box, hand |-> v.hand]
    /\ v.task \in Tasks /\ v.phase \in Phases
    /\ v.step = [i \in DOMAIN StepsOf[v.phase] |-> v.step[i]]
    /\ v.box = [i \in DOMAIN StepsOf[v.phase] |-> v.box[i]]
    /\ v.hand = [st |-> v.hand.st, del |-> v.hand.del]
    /\ \A i \in DOMAIN v.box : v.box[i].to # "pending"
Quiet(v) ==
    /\ \A i \in DOMAIN v.step : /\ v.step[i] \notin {"running", "waiting_user"}
                                /\ v.box[i] = NoBox
    /\ v.hand.st \notin {"pending", "recovery_required"}

PlansOK ==
    /\ IsSequence(plans) /\ Len(plans) <= MaxPlans
    /\ \A p \in DOMAIN plans : IsPlan(plans[p])

(* OneLivePlan, with a superseded plan quiet wherever it stands.            *)
LiveOK ==
    /\ \A p, q \in DOMAIN plans : plans[p].task = plans[q].task /\ p < q
                                     => plans[p].st # "active"
    /\ \A p \in DOMAIN plans : plans[p].st = "superseded" => Quiet(plans[p])

(* Where an actor may be and what it holds there.                           *)
Places(x) ==
    IF x \in Invokers
    THEN {"lock", "gate", "replan", "claim", "run", "stage", "read", "write", "attach",
          "final", "oversized"}
    ELSE IF x = W THEN {"claim", "begin", "await", "read", "write", "attach", "final"}
    ELSE IF x = C THEN {"stage", "read", "write", "attach", "final", "wake"}
    ELSE {"read", "write", "attach", "final", "deliver", "chat", "settle"}
StepKind(x) == IF x \in Invokers THEN "process" ELSE IF x = H THEN "human" ELSE "workflow"
OnPlan == {"deliver", "chat", "settle", "wake"}
IsActor(a) == a = [pc |-> a.pc, p |-> a.p, i |-> a.i, to |-> a.to, wrote |-> a.wrote,
                   cancelled |-> a.cancelled]
Stands(x, a, t) ==
    /\ IsActor(a)
    /\ a.pc # "idle" => a.pc \in Places(x) /\ a.p \in DOMAIN t
    /\ a.pc \notin OnPlan \cup {"idle"} => /\ a.i \in DOMAIN t[a.p].step
                                           /\ StepsOf[t[a.p].phase][a.i] = StepKind(x)
    /\ x \in Invokers /\ a.pc = "stage" => a.to \in {"completed", "failed"}
ActorsOK == act = [x \in Actors |-> act[x]] /\ \A x \in Actors : Stands(x, act[x], plans)

(* A coordinator at work is delivering the oldest handoff of its task.      *)
NotesOK ==
    /\ notes \in [Tasks -> Seq({"running", "completed", "failed"})]
    /\ act[C].pc # "idle" => /\ notes[TaskOf(P(C))] # <<>>
                             /\ Told(TaskOf(P(C))) \in {"completed", "failed"}

(* A processing tool that has entered the lock holds it.                    *)
LockOK == \A x \in Invokers : act[x].pc \notin {"idle", "lock"} => holder = HeldBy(x)

(* A step that was invoked is never pending again, and one about to be      *)
(* invoked was not.                                                         *)
RanOK ==
    /\ \A r \in ran : /\ r[3] = 1 /\ r[1] \in DOMAIN plans /\ r[2] \in Steps(r[1])
                      /\ plans[r[1]].step[r[2]] # "pending"
    /\ \A x \in Invokers : act[x].pc = "run" =>
          /\ plans[P(x)].step[I(x)] # "pending"
          /\ \A r \in ran : ~(r[1] = P(x) /\ r[2] = I(x))

(* The human step of a plan has been decided.                               *)
Human(v, i) == StepsOf[v.phase][i] = "human"
DecidedRow(v) == \A i \in DOMAIN v.step : Human(v, i) => v.step[i] \notin {"pending", "waiting_user"}
(* The handoff of a plan whose decision the agent has consumed c times.     *)
HandRow(c, v) ==
    /\ c = 1 => DecidedRow(v) /\ ~(v.hand.st = "pending" /\ v.hand.del = "none")
    /\ \A i \in DOMAIN v.step : Human(v, i) =>
          /\ v.box[i] # NoBox => v.box[i].to \in {"completed", "failed"}
          /\ v.hand.st = "pending" => v.box[i] # NoBox \/ DecidedRow(v)
ChatsOK ==
    /\ chat = [p \in 1 .. MaxPlans |-> chat[p]]
    /\ \A p \in 1 .. MaxPlans : chat[p] \in {0, 1} /\ (p \notin DOMAIN plans => chat[p] = 0)
    /\ \A p \in DOMAIN plans : HandRow(chat[p], plans[p])
(* While the chat runs, nobody else can deliver the decision.               *)
InDelivery == {"delivering", "expired", "recovery_required"}
HumanOK ==
    /\ act[H].pc \in {"deliver", "chat"} => DecidedRow(plans[P(H)])
    /\ act[H].pc = "chat" => chat[P(H)] = 0 /\ plans[P(H)].hand.del \in InDelivery

NavInv == /\ PlansOK /\ LiveOK /\ ActorsOK /\ NotesOK /\ LockOK /\ RanOK
          /\ GivenUpMeansDead /\ ChatsOK /\ HumanOK

----------------------------------------------------------------------------
(* What a transaction may do to the row of a plan.                          *)
Moves(u, v) ==
    /\ IsPlan(v) /\ v.task = u.task /\ v.phase = u.phase
    /\ v.st = "active" => u.st = "active"
    /\ v.st = "superseded" /\ (u.st = "superseded" => Quiet(u)) => Quiet(v)
    /\ \A i \in DOMAIN u.step : v.step[i] = "pending" => u.step[i] = "pending"
Working(v, i) == v.hand.st # "quarantined" => v.st = "active" /\ v.step[i] = "running"
KeepsWork(u, v) ==
    \A i \in DOMAIN u.step :
        StepsOf[u.phase][i] = "process" /\ Working(u, i) => Working(v, i)
KeepsDecision(c, u, v) ==
    HandRow(c, u) => HandRow(c, v) /\ (DecidedRow(u) => DecidedRow(v))

Puts(p, v) == plans' = [plans EXCEPT ![p] = v]
(* A step that changes one row and disturbs neither work nor decisions.     *)
Gentle(p) ==
    \E v : /\ Puts(p, v) /\ Moves(plans[p], v) /\ KeepsWork(plans[p], v)
           /\ KeepsDecision(chat[p], plans[p], v)
           /\ v.hand.del = plans[p].hand.del
(* The same when the running step of a processing tool may be given up.     *)
Firm(p) ==
    \E v : /\ Puts(p, v) /\ Moves(plans[p], v) /\ KeepsDecision(chat[p], plans[p], v)
           /\ v.hand.del = plans[p].hand.del

(* The same for the delivery of a decision, which may also be claimed.      *)
Loose(p) ==
    \E v : /\ Puts(p, v) /\ Moves(plans[p], v) /\ KeepsWork(plans[p], v)
           /\ KeepsDecision(chat[p], plans[p], v)

(* What a step may do to the table: rows move, new rows are fresh.          *)
Fresh(p, v) ==
    /\ IsPlan(v) /\ v.hand = NoHand /\ v.st = "active"
    /\ \A i \in DOMAIN v.step : v.step[i] = "pending" /\ v.box[i] = NoBox
    /\ \A q \in DOMAIN plans : q < p /\ (plans[q].task = v.task => plans'[q].st # "active")
TableStep ==
    /\ IsSequence(plans') /\ Len(plans') <= MaxPlans /\ DOMAIN plans \subseteq DOMAIN plans'
    /\ \A p \in DOMAIN plans : Moves(plans[p], plans'[p])
    /\ \A p \in DOMAIN plans' \ DOMAIN plans : Fresh(p, plans'[p])
    /\ \A p, q \in DOMAIN plans' \ DOMAIN plans : p = q
DecisionsKept == \A p \in DOMAIN plans : KeepsDecision(chat[p], plans[p], plans'[p])

(* ... and to the actors, of which at most x moves.                         *)
Same(y) ==
    /\ IsActor(act'[y]) /\ act'[y].pc = act[y].pc /\ act'[y].p = act[y].p
    /\ act'[y].i = act[y].i /\ act'[y].to = act[y].to
Others(x) == act' = [y \in Actors |-> act'[y]] /\ \A y \in Actors \ {x} : Same(y)
WorkKept(x) ==
    \A y \in Invokers \ {x} : act[y].pc \in {"run", "stage"}
                                => KeepsWork(plans[P(y)], plans'[P(y)])
LockKept(x) ==
    /\ \A y \in Invokers \ {x} : holder = HeldBy(y) => holder' = HeldBy(y)
    /\ x \in Invokers /\ act'[x].pc \notin {"idle", "lock"} => holder' = HeldBy(x)

(* The smallest member of a set of naturals.                                *)
LEMMA LeastMember ==
    ASSUME NEW S, S \subseteq Nat, S # {}
    PROVE  \E m \in S : \A k \in S : m <= k
<1>. DEFINE R == OpToRel(<, Nat)
<1>1. IsWellFoundedOn(R, Nat)
  BY NatLessThanWellFounded
<1>2. \E m \in S : \A k \in S : ~(<<k, m>> \in R)
  BY <1>1, WFMin
<1>3. ASSUME NEW k \in Nat, NEW m \in Nat, k < m PROVE <<k, m>> \in R
  BY <1>3 DEF OpToRel
<1>. HIDE DEF R
<1>4. PICK m \in S : \A k \in S : ~(<<k, m>> \in R)
  BY <1>2
<1>5. \A k \in S : ~(k < m)
  BY <1>3, <1>4
<1>. QED  BY <1>5

(* The steps of a plan are numbered from 1.                                 *)
LEMMA StepNumbers ==
    ASSUME NEW u, IsPlan(u)
    PROVE  /\ DOMAIN u.step = DOMAIN StepsOf[u.phase] /\ DOMAIN u.box = DOMAIN u.step
           /\ \E n \in Nat : DOMAIN u.step = 1 .. n
<1>1. StepsOf[u.phase] \in Seq({"human", "workflow", "process"})
  BY PlansAssumption DEF IsPlan
<1>. QED  BY <1>1 DEF IsPlan

(* The current step of a plan is one of its steps.                          *)
LEMMA CurrentStepIn ==
    ASSUME PlansOK, NEW p \in DOMAIN plans, CurrentStep(p) # 0
    PROVE  CurrentStep(p) \in Steps(p)
<1>. DEFINE S == {i \in Steps(p) : plans[p].step[i] # "completed"}
<1>1. PICK n \in Nat : Steps(p) = 1 .. n
  BY StepNumbers DEF PlansOK, Steps
<1>2. S \subseteq Nat /\ S # {}
  BY <1>1 DEF CurrentStep
<1>3. PICK m \in S : \A k \in S : m <= k
  BY <1>2, LeastMember
<1>4. \A j \in 1 .. m - 1 : j \in Steps(p) /\ j \notin S
  BY <1>1, <1>2, <1>3
<1>5. \E i \in Steps(p) : /\ plans[p].step[i] # "completed"
                          /\ \A j \in 1 .. i - 1 : plans[p].step[j] = "completed"
  BY <1>3, <1>4
<1>. QED  BY <1>2, <1>5 DEF CurrentStep

----------------------------------------------------------------------------
(* Rows with one field changed.                                             *)
Row(t, ph, st, step, box, hand, del) ==
    [task |-> t, phase |-> ph, st |-> st, step |-> step, box |-> box,
     hand |-> [st |-> hand, del |-> del]]
(* A row with one field replaced: its status,                               *)
LEMMA PutStatus ==
    ASSUME NEW t, NEW ph, NEW st, NEW step, NEW box, NEW hand, NEW del, NEW x
    PROVE  [Row(t, ph, st, step, box, hand, del) EXCEPT !.st = x] = Row(t, ph, x, step, box, hand, del)
BY DEF Row

(* all its step statuses,                                                   *)
LEMMA PutSteps ==
    ASSUME NEW t, NEW ph, NEW st, NEW step, NEW box, NEW hand, NEW del, NEW x
    PROVE  [Row(t, ph, st, step, box, hand, del) EXCEPT !.step = x] = Row(t, ph, st, x, box, hand, del)
BY DEF Row

(* all its staged results,                                                  *)
LEMMA PutBoxes ==
    ASSUME NEW t, NEW ph, NEW st, NEW step, NEW box, NEW hand, NEW del, NEW x
    PROVE  [Row(t, ph, st, step, box, hand, del) EXCEPT !.box = x] = Row(t, ph, st, step, x, hand, del)
BY DEF Row

(* the status of its handoff.                                               *)
LEMMA PutHandStatus ==
    ASSUME NEW t, NEW ph, NEW st, NEW step, NEW box, NEW hand, NEW del, NEW x
    PROVE  [Row(t, ph, st, step, box, hand, del) EXCEPT !.hand.st = x] = Row(t, ph, st, step, box, x, del)
BY DEF Row

(* The row that results has the shape of a plan and the fields it was       *)
(* given.                                                                   *)
LEMMA RowMade ==
    ASSUME NEW u, IsPlan(u), NEW st, NEW step, NEW box, NEW hand, NEW del,
           DOMAIN step = DOMAIN u.step, step = [i \in DOMAIN step |-> step[i]],
           DOMAIN box = DOMAIN u.step, box = [i \in DOMAIN box |-> box[i]],
           \A i \in DOMAIN box : box[i].to # "pending", NEW v,
           v = Row(u.task, u.phase, st, step, box, hand, del)
    PROVE  /\ IsPlan(v) /\ v.task = u.task /\ v.phase = u.phase /\ v.st = st
           /\ v.step = step /\ v.box = box /\ v.hand.st = hand /\ v.hand.del = del
<1>1. DOMAIN u.step = DOMAIN StepsOf[u.phase]
  BY DEF IsPlan
<1>2. /\ v.task = u.task /\ v.phase = u.phase /\ v.st = st
      /\ v.step = step /\ v.box = box /\ v.hand.st = hand /\ v.hand.del = del
  BY DEF Row
<1>3. /\ v = [task |-> v.task, phase |-> v.phase, st |-> v.st, step |-> v.step,
              box |-> v.box, hand |-> v.hand]
      /\ v.hand = [st |-> v.hand.st, del |-> v.hand.del]
  BY DEF Row
<1>4. u.task \in Tasks /\ u.phase \in Phases
  BY DEF IsPlan
<1>. QED  BY <1>1, <1>2, <1>3, <1>4 DEF IsPlan

(* A row with one step status replaced, without the other fields in sight.  *)
LEMMA StepPut ==
    ASSUME NEW u, IsPlan(u), NEW i \in DOMAIN u.step, NEW s, NEW v, v = [u EXCEPT !.step[i] = s]
    PROVE  /\ IsPlan(v) /\ v.task = u.task /\ v.phase = u.phase /\ v.st = u.st
           /\ v.box = u.box /\ v.hand = u.hand /\ DOMAIN v.step = DOMAIN u.step
           /\ v.step[i] = s /\ \A j \in DOMAIN u.step \ {i} : v.step[j] = u.step[j]
BY DEF IsPlan

----------------------------------------------------------------------------
(* The transactions on steps.  A step is claimed, resumed or made to wait   *)
(* for a workflow.                                                          *)
LEMMA StepWritten ==
    ASSUME PlansOK, NEW p \in DOMAIN plans, NEW i \in Steps(p), NEW s,
           plans' = [plans EXCEPT ![p].step[i] = s], plans[p].st = "active",
           s # "pending", Kind(p, i) # "human", Kind(p, i) = "process" => s = "running"
    PROVE  Gentle(p)
<1>. DEFINE u == plans[p]
            v == [u EXCEPT !.step[i] = s]
<1>1. IsPlan(u) /\ i \in DOMAIN u.step /\ Puts(p, v)
  BY DEF PlansOK, Steps, Puts
<1>. HIDE DEF v
<1>2. /\ IsPlan(v) /\ v.task = u.task /\ v.phase = u.phase /\ v.st = u.st
      /\ v.box = u.box /\ v.hand = u.hand /\ DOMAIN v.step = DOMAIN u.step
      /\ v.step[i] = s /\ \A j \in DOMAIN u.step \ {i} : v.step[j] = u.step[j]
  BY <1>1, StepPut DEF v
<1>3. Moves(u, v)
  BY <1>2 DEF Moves
<1>4. KeepsWork(u, v)
  BY <1>2 DEF KeepsWork, Working, Kind
<1>5. KeepsDecision(chat[p], u, v)
  BY <1>2 DEF KeepsDecision, HandRow, DecidedRow, Human, Kind
<1>. QED  BY <1>1, <1>2, <1>3, <1>4, <1>5 DEF Gentle

(* The human step is shown to the user.                                     *)
LEMMA HumanWaits ==
    ASSUME PlansOK, NEW p \in DOMAIN plans, NEW i \in Steps(p), MarkWaitingUser(p, i),
           Kind(p, i) = "human"
    PROVE  Gentle(p)
<1>. DEFINE u == plans[p]
            v == [u EXCEPT !.step[i] = "waiting_user"]
<1>1. IsPlan(u) /\ i \in DOMAIN u.step /\ Puts(p, v) /\ u.st = "active" /\ u.step[i] = "pending"
  BY DEF PlansOK, Steps, Puts, MarkWaitingUser
<1>. HIDE DEF v
<1>2. /\ IsPlan(v) /\ v.task = u.task /\ v.phase = u.phase /\ v.st = u.st
      /\ v.box = u.box /\ v.hand = u.hand /\ DOMAIN v.step = DOMAIN u.step
      /\ v.step[i] = "waiting_user" /\ \A j \in DOMAIN u.step \ {i} : v.step[j] = u.step[j]
  BY <1>1, StepPut DEF v
<1>3. Moves(u, v)
  BY <1>1, <1>2 DEF Moves
<1>4. KeepsWork(u, v)
  BY <1>1, <1>2 DEF KeepsWork, Working, Kind
<1>5. ~DecidedRow(u)
  BY <1>1 DEF DecidedRow, Human, Kind
<1>6. KeepsDecision(chat[p], u, v)
  BY <1>2, <1>5 DEF KeepsDecision, HandRow, Human
<1>. QED  BY <1>1, <1>2, <1>3, <1>4, <1>6 DEF Gentle

(* A result is staged for a step that no human decides.                     *)
LEMMA Staged ==
    ASSUME PlansOK, NEW p \in DOMAIN plans, NEW i \in Steps(p), NEW to, NEW exp,
           StageResult(p, i, to, exp), Kind(p, i) # "human", to # "pending", to # "none"
    PROVE  Gentle(p)
<1>. DEFINE u == plans[p]
            b == [to |-> to, exp |-> exp]
            v == [u EXCEPT !.box[i] = b]
<1>1. IsPlan(u) /\ i \in DOMAIN u.step /\ Puts(p, v)
  BY DEF PlansOK, Steps, Puts, StageResult
<1>2. b.to # "pending" /\ (u.box[i] # NoBox \/ u.st = "active")
  BY DEF StageResult, Stageable
<1>. HIDE DEF v, b
<1>3. /\ IsPlan(v) /\ v.task = u.task /\ v.phase = u.phase /\ v.st = u.st
      /\ v.step = u.step /\ v.hand = u.hand
      /\ v.box[i] = b /\ \A j \in DOMAIN u.step \ {i} : v.box[j] = u.box[j]
  BY <1>1, <1>2 DEF v, IsPlan
<1>4. v.st = "superseded" => ~Quiet(u)
  BY <1>1, <1>2, <1>3 DEF Quiet
<1>5. Moves(u, v)
  BY <1>3, <1>4 DEF Moves
<1>6. KeepsWork(u, v)
  BY <1>3 DEF KeepsWork, Working
<1>7. KeepsDecision(chat[p], u, v)
  BY <1>3 DEF KeepsDecision, HandRow, DecidedRow, Human, Kind
<1>. QED  BY <1>1, <1>3, <1>5, <1>6, <1>7 DEF Gentle

(* A staged result is applied to its step.                                  *)
LEMMA Finalized ==
    ASSUME PlansOK, NEW p \in DOMAIN plans, NEW i \in Steps(p), FinalizeStep(p, i)
    PROVE  /\ Firm(p)
           /\ Kind(p, i) # "process" => Gentle(p)
           /\ Kind(p, i) = "human" /\ HandRow(chat[p], plans[p]) => DecidedRow(plans'[p])
<1>. DEFINE u == plans[p]
            to == u.box[i].to
            last == CompletesPlan(p, i)
            v == [u EXCEPT !.step[i] = to, !.box[i] = NoBox, !.st = IF last THEN "completed" ELSE @]
<1>1. /\ IsPlan(u) /\ i \in DOMAIN u.step /\ Puts(p, v)
      /\ u.st = "active" /\ u.box[i] # NoBox
  BY DEF PlansOK, Steps, Puts, FinalizeStep, Finalizable
<1>2. last => \A j \in DOMAIN u.step \ {i} : u.step[j] = "completed"
  BY DEF CompletesPlan, Steps
<1>3. to # "pending" /\ DOMAIN u.box = DOMAIN u.step
  BY <1>1 DEF IsPlan
<1>. HIDE DEF last
<1>. DEFINE ns == [u.step EXCEPT ![i] = to]
            nb == [u.box EXCEPT ![i] = NoBox]
            st == IF last THEN "completed" ELSE u.st
<1>4a. v = Row(u.task, u.phase, st, ns, nb, u.hand.st, u.hand.del)
  <2>. DEFINE m == [u EXCEPT !.step[i] = to]
              n == [m EXCEPT !.box[i] = NoBox]
  <2>1. u = Row(u.task, u.phase, u.st, u.step, u.box, u.hand.st, u.hand.del)
    BY <1>1 DEF IsPlan, Row
  <2>1a. m = [u EXCEPT !.step = ns]
    OBVIOUS
  <2>. HIDE DEF ns
  <2>2. m = Row(u.task, u.phase, u.st, ns, u.box, u.hand.st, u.hand.del)
    BY ONLY <2>1, <2>1a, PutSteps
  <2>. HIDE DEF m
  <2>3a. m.box = u.box
    BY <2>2 DEF Row
  <2>3b. n = [m EXCEPT !.box = nb]
    BY <2>3a
  <2>. HIDE DEF nb
  <2>3. n = Row(u.task, u.phase, u.st, ns, nb, u.hand.st, u.hand.del)
    BY <2>2, <2>3b, PutBoxes
  <2>4. n.st = u.st
    BY <2>3 DEF Row
  <2>. HIDE DEF n
  <2>5. v = [n EXCEPT !.st = st]
    BY <2>4 DEF n, m
  <2>. QED  BY <2>3, <2>5, PutStatus
<1>4b. /\ DOMAIN ns = DOMAIN u.step /\ ns = [j \in DOMAIN ns |-> ns[j]]
       /\ ns[i] = to /\ \A j \in DOMAIN u.step \ {i} : ns[j] = u.step[j]
  BY <1>1 DEF IsPlan
<1>4c. /\ DOMAIN nb = DOMAIN u.step /\ nb = [j \in DOMAIN nb |-> nb[j]]
       /\ nb[i] = NoBox /\ \A j \in DOMAIN u.step \ {i} : nb[j] = u.box[j]
  BY <1>1, <1>3 DEF IsPlan
<1>4d. \A j \in DOMAIN nb : nb[j].to # "pending"
  BY <1>1, <1>3, <1>4c DEF IsPlan, NoBox
<1>. HIDE DEF v, ns, nb, st
<1>4e. /\ IsPlan(v) /\ v.task = u.task /\ v.phase = u.phase /\ v.st = st /\ v.step = ns
       /\ v.box = nb /\ v.hand.st = u.hand.st /\ v.hand.del = u.hand.del
  BY <1>1, <1>4a, <1>4b, <1>4c, <1>4d, RowMade
<1>4. /\ IsPlan(v) /\ v.task = u.task /\ v.phase = u.phase /\ v.st = IF last THEN "completed" ELSE u.st
      /\ v.hand.st = u.hand.st /\ v.hand.del = u.hand.del /\ DOMAIN v.step = DOMAIN u.step
      /\ v.step[i] = to /\ v.box[i] = NoBox
      /\ \A j \in DOMAIN u.step \ {i} : v.step[j] = u.step[j] /\ v.box[j] = u.box[j]
  BY <1>4b, <1>4c, <1>4e DEF st
<1>. HIDE DEF to
<1>5. Moves(u, v)
  BY <1>1, <1>3, <1>4 DEF Moves
<1>6. StepsOf[u.phase][i] # "process" => KeepsWork(u, v)
  BY <1>1, <1>2, <1>4 DEF KeepsWork, Working
<1>7. \A j \in DOMAIN u.step : Human(u, j) /\ Human(u, i) => j = i
  BY <1>1, OneDecisionAssumption DEF IsPlan, Human
<1>8. HandRow(chat[p], u) /\ Human(u, i) => to \notin {"pending", "waiting_user"}
  BY <1>1 DEF HandRow, to
<1>9. HandRow(chat[p], u) /\ Human(u, i) => DecidedRow(v)
  BY <1>4, <1>7, <1>8 DEF DecidedRow, Human
<1>10. DecidedRow(u) /\ ~Human(u, i) => DecidedRow(v)
  BY <1>4 DEF DecidedRow, Human
<1>11. KeepsDecision(chat[p], u, v)
  <2>1. CASE Human(u, i)
    <3>1. HandRow(chat[p], u) => HandRow(chat[p], v)
      BY <1>4, <1>7, <1>9, <2>1 DEF HandRow, Human
    <3>. QED  BY <1>9, <2>1, <3>1 DEF KeepsDecision
  <2>2. CASE ~Human(u, i)
    <3>1. HandRow(chat[p], u) => HandRow(chat[p], v)
      BY <1>4, <1>10, <2>2 DEF HandRow, Human
    <3>. QED  BY <1>10, <2>2, <3>1 DEF KeepsDecision
  <2>. QED  BY <2>1, <2>2
<1>12. plans'[p] = v
  BY <1>1 DEF Puts, PlansOK, IsSequence
<1>. QED  BY <1>1, <1>4, <1>5, <1>6, <1>9, <1>11, <1>12 DEF Gentle, Firm, Kind, Human

(* A plan is given up with its unfinished steps.                            *)
LEMMA GivenUp ==
    ASSUME PlansOK, NEW p \in DOMAIN plans, plans' = Invalidated(p), plans[p].st = "active"
    PROVE  Firm(p) /\ (~InFlight(p) => Gentle(p))
<1>. DEFINE u == plans[p]
            v == [u EXCEPT !.st = "invalidated", !.step = Unfinished(p, "needs_replan")]
<1>1. IsPlan(u) /\ Puts(p, v)
  BY DEF PlansOK, Puts, Invalidated
<1>. DEFINE ns == Unfinished(p, "needs_replan")
<1>2a. v = Row(u.task, u.phase, "invalidated", ns, u.box, u.hand.st, u.hand.del)
  <2>. DEFINE m == [u EXCEPT !.st = "invalidated"]
  <2>1. u = Row(u.task, u.phase, u.st, u.step, u.box, u.hand.st, u.hand.del)
    BY <1>1 DEF IsPlan, Row
  <2>2. m = Row(u.task, u.phase, "invalidated", u.step, u.box, u.hand.st, u.hand.del)
    BY <2>1, PutStatus
  <2>. HIDE DEF m
  <2>3. v = [m EXCEPT !.step = ns]
    BY DEF m
  <2>. QED  BY <2>2, <2>3, PutSteps
<1>2b. /\ DOMAIN ns = DOMAIN u.step /\ ns = [j \in DOMAIN ns |-> ns[j]]
       /\ \A j \in DOMAIN u.step :
            ns[j] = IF u.step[j] = "completed" THEN "completed" ELSE "needs_replan"
  BY DEF Unfinished, Steps
<1>. DEFINE bs == u.box
<1>2c. /\ DOMAIN bs = DOMAIN u.step /\ bs = [i \in DOMAIN bs |-> bs[i]]
       /\ \A i \in DOMAIN bs : bs[i].to # "pending"
  BY <1>1 DEF IsPlan
<1>2d. v = Row(u.task, u.phase, "invalidated", ns, bs, u.hand.st, u.hand.del)
  BY <1>2a
<1>. HIDE DEF v, ns, bs
<1>2e. /\ IsPlan(v) /\ v.task = u.task /\ v.phase = u.phase /\ v.st = "invalidated"
       /\ v.step = ns /\ v.box = bs /\ v.hand.st = u.hand.st /\ v.hand.del = u.hand.del
  BY <1>1, <1>2b, <1>2c, <1>2d, RowMade
<1>2. /\ IsPlan(v) /\ v.task = u.task /\ v.phase = u.phase /\ v.st = "invalidated"
      /\ v.hand.st = u.hand.st /\ v.hand.del = u.hand.del /\ v.box = u.box
      /\ DOMAIN v.step = DOMAIN u.step
      /\ \A j \in DOMAIN u.step :
            v.step[j] = IF u.step[j] = "completed" THEN "completed" ELSE "needs_replan"
  BY <1>2b, <1>2e DEF bs
<1>3. Moves(u, v)
  BY <1>1, <1>2 DEF Moves
<1>4. ~InFlight(p) => KeepsWork(u, v)
  BY <1>2 DEF KeepsWork, Working, InFlight, Steps
<1>5. DecidedRow(v)
  BY <1>2 DEF DecidedRow
<1>6. KeepsDecision(chat[p], u, v)
  BY <1>2, <1>5 DEF KeepsDecision, HandRow, Human
<1>. QED  BY <1>1, <1>2, <1>3, <1>4, <1>6 DEF Gentle, Firm

(* An operator gives up a plan with the handoff that nobody may deliver.    *)
LEMMA Quarantined ==
    ASSUME PlansOK, NEW p \in DOMAIN plans, QuarantineHandoff(p), LiveOK
    PROVE  Gentle(p)
<1>. DEFINE u == plans[p]
            bs == [i \in Steps(p) |-> IF Kind(p, i) = "human" THEN NoBox ELSE u.box[i]]
            w == [u EXCEPT !.st = "invalidated", !.step = Unfinished(p, "needs_replan")]
            v == [w EXCEPT !.hand.st = "quarantined", !.box = bs]
<1>1. IsPlan(u) /\ Puts(p, v) /\ u.hand.st = "recovery_required"
  BY DEF PlansOK, Puts, QuarantineHandoff, Invalidated
<1>. DEFINE ns == Unfinished(p, "needs_replan")
<1>2a. v = Row(u.task, u.phase, "invalidated", ns, bs, "quarantined", u.hand.del)
  <2>. DEFINE m == [u EXCEPT !.st = "invalidated"]
              n == [w EXCEPT !.hand.st = "quarantined"]
  <2>1. u = Row(u.task, u.phase, u.st, u.step, u.box, u.hand.st, u.hand.del)
    BY <1>1 DEF IsPlan, Row
  <2>2. m = Row(u.task, u.phase, "invalidated", u.step, u.box, u.hand.st, u.hand.del)
    BY <2>1, PutStatus
  <2>. HIDE DEF m
  <2>3. w = [m EXCEPT !.step = ns]
    BY DEF m
  <2>4. w = Row(u.task, u.phase, "invalidated", ns, u.box, u.hand.st, u.hand.del)
    BY <2>2, <2>3, PutSteps
  <2>. HIDE DEF w
  <2>5. n = Row(u.task, u.phase, "invalidated", ns, u.box, "quarantined", u.hand.del)
    BY <2>4, PutHandStatus
  <2>. HIDE DEF n
  <2>6. v = [n EXCEPT !.box = bs]
    BY DEF n
  <2>. QED  BY <2>5, <2>6, PutBoxes
<1>2b. /\ DOMAIN ns = DOMAIN u.step /\ ns = [j \in DOMAIN ns |-> ns[j]]
       /\ \A j \in DOMAIN u.step :
            ns[j] = IF u.step[j] = "completed" THEN "completed" ELSE "needs_replan"
  BY DEF Unfinished, Steps
<1>2c. /\ DOMAIN bs = DOMAIN u.step /\ bs = [i \in DOMAIN bs |-> bs[i]]
       /\ \A j \in DOMAIN u.step : bs[j] = IF Human(u, j) THEN NoBox ELSE u.box[j]
  BY DEF Steps, Kind, Human
<1>2d. \A j \in DOMAIN bs : bs[j].to # "pending"
  BY <1>1, <1>2c DEF IsPlan, NoBox
<1>. HIDE DEF v, ns, bs
<1>2e. /\ IsPlan(v) /\ v.task = u.task /\ v.phase = u.phase /\ v.st = "invalidated"
       /\ v.step = ns /\ v.box = bs /\ v.hand.st = "quarantined" /\ v.hand.del = u.hand.del
  BY <1>1, <1>2a, <1>2b, <1>2c, <1>2d, RowMade
<1>2. DOMAIN v.step = DOMAIN u.step /\ \A j \in DOMAIN u.step :
            v.step[j] = IF u.step[j] = "completed" THEN "completed" ELSE "needs_replan"
  BY <1>2b, <1>2e
<1>3. /\ IsPlan(v) /\ v.task = u.task /\ v.phase = u.phase /\ v.st = "invalidated"
      /\ v.hand.st = "quarantined" /\ v.hand.del = u.hand.del
      /\ \A j \in DOMAIN u.step : v.box[j] = IF Human(u, j) THEN NoBox ELSE u.box[j]
  BY <1>2c, <1>2e
<1>4. Moves(u, v)
  BY <1>1, <1>2, <1>3 DEF Moves, LiveOK, Quiet
<1>5. KeepsWork(u, v)
  BY <1>3 DEF KeepsWork, Working
<1>6. DecidedRow(v)
  BY <1>2, <1>3 DEF DecidedRow
<1>7. KeepsDecision(chat[p], u, v)
  BY <1>2, <1>3, <1>6 DEF KeepsDecision, HandRow, Human
<1>. QED  BY <1>1, <1>3, <1>4, <1>5, <1>7 DEF Gentle

----------------------------------------------------------------------------
(* What these steps preserve.                                               *)
LEMMA TableKept ==
    ASSUME PlansOK, LiveOK, TableStep
    PROVE  PlansOK' /\ LiveOK'
<1>1. PlansOK'
  BY DEF PlansOK, TableStep, Moves, Fresh
<1>2. ASSUME NEW p \in DOMAIN plans', NEW q \in DOMAIN plans', plans'[p].task = plans'[q].task,
             p < q
      PROVE  plans'[p].st # "active"
  <2>1. DOMAIN plans = 1 .. Len(plans) /\ DOMAIN plans' = 1 .. Len(plans') /\ Len(plans) \in Nat
        /\ Len(plans') \in Nat
    BY SequenceDomain DEF TableStep, PlansOK
  <2>2. CASE q \in DOMAIN plans
    <3>1. p \in DOMAIN plans
      BY <1>2, <2>1, <2>2
    <3>. QED  BY <1>2, <2>2, <3>1 DEF LiveOK, TableStep, Moves
  <2>3. CASE q \notin DOMAIN plans
    <3>1. Fresh(q, plans'[q])
      BY <2>3 DEF TableStep
    <3>2. p \in DOMAIN plans
      BY <1>2, <2>1, <2>3 DEF TableStep
    <3>3. plans[p].task = plans'[q].task
      BY <1>2, <3>2 DEF TableStep, Moves
    <3>. QED  BY <3>1, <3>2, <3>3 DEF Fresh
  <2>. QED  BY <2>2, <2>3
<1>3. ASSUME NEW p \in DOMAIN plans', plans'[p].st = "superseded"
      PROVE  Quiet(plans'[p])
  <2>1. p \in DOMAIN plans
    BY <1>3 DEF TableStep, Fresh
  <2>. QED  BY <1>3, <2>1 DEF LiveOK, TableStep, Moves
<1>. QED  BY <1>1, <1>2, <1>3 DEF LiveOK

(* An actor keeps its place when the table moves under it,                  *)
LEMMA StandsStill ==
    ASSUME TableStep, PlansOK, NEW x, NEW a, Stands(x, a, plans)
    PROVE  Stands(x, a, plans')
<1>1. \A p \in DOMAIN plans : p \in DOMAIN plans' /\ plans'[p].phase = plans[p].phase
                               /\ DOMAIN plans'[p].step = DOMAIN plans[p].step
  BY StepNumbers DEF TableStep, Moves, PlansOK
<1>2. a.pc \notin OnPlan \cup {"idle"} => a.pc # "idle"
  OBVIOUS
<1>. QED  BY <1>1, <1>2 DEF Stands

(* and so do all of them when one of them moves.                            *)
LEMMA ActorsKept ==
    ASSUME PlansOK, ActorsOK, TableStep, NEW x \in Actors, Others(x), Stands(x, act'[x], plans')
    PROVE  ActorsOK'
<1>1. ASSUME NEW y \in Actors PROVE Stands(y, act'[y], plans')
  <2>1. CASE y = x
    BY <2>1
  <2>2. CASE y # x
    <3>1. Stands(y, act[y], plans')
      BY StandsStill DEF ActorsOK
    <3>. QED  BY <2>2, <3>1 DEF Others, Same, Stands
  <2>. QED  BY <2>1, <2>2
<1>. QED  BY <1>1 DEF ActorsOK, Others

(* The tools inside the lock stay its holders.                              *)
LEMMA LockStaysOK ==
    ASSUME LockOK, NEW x \in Actors, Others(x), LockKept(x)
    PROVE  LockOK'
BY DEF LockOK, Others, Same, LockKept, Actors, HeldBy

(* A step that was invoked stays so when no tool is about to invoke.        *)
LEMMA RanStaysOK ==
    ASSUME PlansOK, ActorsOK, RanOK, TableStep, NEW x \in Actors, Others(x), ran' = ran,
           x \in Invokers => act'[x].pc # "run"
    PROVE  RanOK'
<1>1. \A p \in DOMAIN plans : /\ p \in DOMAIN plans' /\ DOMAIN plans'[p].step = DOMAIN plans[p].step
                              /\ \A i \in DOMAIN plans[p].step :
                                    plans'[p].step[i] = "pending" => plans[p].step[i] = "pending"
  BY StepNumbers DEF TableStep, Moves, PlansOK
<1>2. ASSUME NEW r \in ran
      PROVE  /\ r[3] = 1 /\ r[1] \in DOMAIN plans' /\ r[2] \in DOMAIN plans'[r[1]].step
             /\ plans'[r[1]].step[r[2]] # "pending"
  BY <1>1, <1>2 DEF RanOK, Steps
<1>3. ASSUME NEW y \in Invokers, act'[y].pc = "run"
      PROVE  /\ plans'[act'[y].p].step[act'[y].i] # "pending"
             /\ \A r \in ran : ~(r[1] = act'[y].p /\ r[2] = act'[y].i)
  <2>1. Same(y) /\ y \in Actors
    BY <1>3 DEF Others, Actors
  <2>2. act[y].pc = "run" /\ act'[y].p = P(y) /\ act'[y].i = I(y)
    BY <1>3, <2>1 DEF Same, P, I
  <2>3. P(y) \in DOMAIN plans /\ I(y) \in DOMAIN plans[P(y)].step
    BY <2>1, <2>2 DEF ActorsOK, Stands, OnPlan, P, I
  <2>. QED  BY <1>1, <2>2, <2>3 DEF RanOK
<1>. QED  BY <1>2, <1>3 DEF RanOK, Steps, P, I

(* The work of the tools that did not move is still theirs.                 *)
LEMMA GivenUpStaysDead ==
    ASSUME PlansOK, ActorsOK, GivenUpMeansDead, TableStep, NEW x \in Actors, Others(x), WorkKept(x),
           x \in Invokers => act'[x].pc \notin {"run", "stage"}
    PROVE  GivenUpMeansDead'
<1>. SUFFICES ASSUME NEW y \in Invokers, act'[y].pc \in {"run", "stage"}
              PROVE  Working(plans'[act'[y].p], act'[y].i)
  BY DEF GivenUpMeansDead, Working, P, I
<1>1. y \in Actors /\ y # x
  BY DEF Actors
<1>2. Same(y)
  BY <1>1 DEF Others
<1>3. act[y].pc \in {"run", "stage"} /\ act'[y].p = P(y) /\ act'[y].i = I(y)
  BY <1>2 DEF Same, P, I
<1>4. Stands(y, act[y], plans)
  BY <1>1 DEF ActorsOK
<1>5. /\ P(y) \in DOMAIN plans /\ I(y) \in DOMAIN plans[P(y)].step
      /\ StepsOf[plans[P(y)].phase][I(y)] = "process"
  BY <1>3, <1>4 DEF Stands, OnPlan, P, I, StepKind
<1>6. Working(plans[P(y)], I(y))
  BY <1>3 DEF GivenUpMeansDead, Working
<1>7. KeepsWork(plans[P(y)], plans'[P(y)])
  BY <1>1, <1>3 DEF WorkKept
<1>. QED  BY <1>3, <1>5, <1>6, <1>7 DEF KeepsWork

(* The decisions keep their handoffs.                                       *)
LEMMA ChatsStayOK ==
    ASSUME PlansOK, ChatsOK, TableStep, DecisionsKept, chat' = chat
    PROVE  ChatsOK'
<1>1. DOMAIN plans = 1 .. Len(plans) /\ DOMAIN plans' = 1 .. Len(plans') /\ Len(plans) \in Nat
        /\ Len(plans') \in Nat /\ Len(plans') <= MaxPlans /\ MaxPlans \in Nat
  BY SequenceDomain, PlansAssumption DEF TableStep, PlansOK
<1>2. ASSUME NEW p \in DOMAIN plans' PROVE HandRow(chat[p], plans'[p])
  <2>1. CASE p \in DOMAIN plans
    BY <2>1 DEF DecisionsKept, KeepsDecision, ChatsOK
  <2>2. CASE p \notin DOMAIN plans
    <3>1. Fresh(p, plans'[p])
      BY <2>2 DEF TableStep
    <3>2. chat[p] = 0
      BY <1>1, <2>2 DEF ChatsOK
    <3>. QED  BY <3>1, <3>2 DEF Fresh, HandRow, NoHand
  <2>. QED  BY <2>1, <2>2
<1>. QED  BY <1>2 DEF ChatsOK, TableStep

(* A delivery under way keeps its handoff.                                  *)
LEMMA HumanStaysOK ==
    ASSUME PlansOK, ActorsOK, ChatsOK, HumanOK, TableStep, DecisionsKept, chat' = chat, Same(H),
           act[H].pc = "chat" => \/ plans'[P(H)].hand.del = plans[P(H)].hand.del
                                 \/ plans'[P(H)].hand.del \in InDelivery
    PROVE  HumanOK'
<1>1. act'[H].pc = act[H].pc /\ act'[H].p = P(H)
  BY DEF Same, P
<1>2. act[H].pc # "idle" => P(H) \in DOMAIN plans
  BY DEF ActorsOK, Stands, P, H, Actors, OnLoop
<1>3. act[H].pc \in {"deliver", "chat"} => DecidedRow(plans'[P(H)])
  BY <1>2 DEF HumanOK, DecisionsKept, KeepsDecision, ChatsOK
<1>. QED  BY <1>1, <1>3 DEF HumanOK, P

(* The coordinator keeps what it was told.                                  *)
LEMMA NotesStayOK ==
    ASSUME PlansOK, ActorsOK, NotesOK, TableStep, notes' = notes,
           Same(C) \/ act'[C].pc = "idle" \/ (act[C].pc # "idle" /\ act'[C].p = P(C))
    PROVE  NotesOK'
<1>1. act'[C].pc # "idle" => act[C].pc # "idle" /\ act'[C].p = P(C)
  BY DEF Same, P
<1>2. act[C].pc # "idle" => P(C) \in DOMAIN plans
  BY DEF ActorsOK, Stands, P, C, Actors
<1>3. act[C].pc # "idle" => plans'[P(C)].task = TaskOf(P(C))
  BY <1>2 DEF TableStep, Moves, TaskOf
<1>. QED  BY <1>1, <1>3 DEF NotesOK, TaskOf, Told, P

(* A step in which at most actor x moves.                                   *)
LEMMA ActorMoves ==
    ASSUME NavInv, NEW x \in Actors, TableStep, WorkKept(x), DecisionsKept, Others(x), LockKept(x),
           Stands(x, act'[x], plans'), x \in Invokers => act'[x].pc \notin {"run", "stage"},
           ran' = ran, chat' = chat, NotesOK', HumanOK'
    PROVE  NavInv'
BY TableKept, ActorsKept, LockStaysOK, RanStaysOK, GivenUpStaysDead, ChatsStayOK DEF NavInv

----------------------------------------------------------------------------
(* The transactions as steps of the table.                                  *)
DelKept == \A p \in DOMAIN plans : plans'[p].hand.del = plans[p].hand.del
AllWork == \A p \in DOMAIN plans : KeepsWork(plans[p], plans'[p])
Soft == TableStep /\ DecisionsKept /\ DelKept

(* When no work is lost, nobody's is.                                       *)
LEMMA WorkIsKept ==
    ASSUME ActorsOK, AllWork
    PROVE  \A x : WorkKept(x)
<1>1. ASSUME NEW y \in Invokers, act[y].pc \in {"run", "stage"}
      PROVE  P(y) \in DOMAIN plans
  BY <1>1 DEF ActorsOK, Stands, Actors, P
<1>. QED  BY <1>1 DEF AllWork, WorkKept

(* A row that is not written moves nowhere.                                 *)
LEMMA Unmoved ==
    ASSUME NEW u, IsPlan(u), NEW c
    PROVE  Moves(u, u) /\ KeepsWork(u, u) /\ KeepsDecision(c, u, u)
BY DEF Moves, KeepsWork, KeepsDecision

(* A step that writes no row keeps everything a table keeps.                *)
LEMMA NothingStored ==
    ASSUME PlansOK, plans' = plans
    PROVE  Soft /\ AllWork
<1>1. \A p \in DOMAIN plans : /\ Moves(plans[p], plans[p]) /\ KeepsWork(plans[p], plans[p])
                             /\ KeepsDecision(chat[p], plans[p], plans[p])
  BY Unmoved DEF PlansOK
<1>. QED  BY <1>1 DEF PlansOK, Soft, TableStep, DecisionsKept, DelKept, AllWork

(* The table with one row replaced.                                         *)
LEMMA RowPut ==
    ASSUME PlansOK, NEW p \in DOMAIN plans, NEW v, Puts(p, v)
    PROVE  /\ IsSequence(plans') /\ Len(plans') = Len(plans) /\ DOMAIN plans' = DOMAIN plans
           /\ plans'[p] = v /\ \A q \in DOMAIN plans \ {p} : plans'[q] = plans[q]
<1>1. /\ DOMAIN plans' = DOMAIN plans /\ plans'[p] = v
      /\ plans' = [q \in DOMAIN plans' |-> plans'[q]]
      /\ \A q \in DOMAIN plans \ {p} : plans'[q] = plans[q]
  BY DEF Puts, PlansOK, IsSequence
<1>2. IsSequence(plans')
  BY <1>1, SequenceRewritten DEF PlansOK
<1>3. Len(plans') = Len(plans)
  BY <1>1, <1>2, SequenceDomain DEF PlansOK
<1>. QED  BY <1>1, <1>2, <1>3

(* It keeps what its row keeps.                                             *)
LEMMA RowMoved ==
    ASSUME PlansOK, NEW p \in DOMAIN plans, NEW v, Puts(p, v), Moves(plans[p], v),
           KeepsDecision(chat[p], plans[p], v)
    PROVE  /\ TableStep /\ DecisionsKept
           /\ v.hand.del = plans[p].hand.del => DelKept
           /\ KeepsWork(plans[p], v) => AllWork
<1>1. /\ IsSequence(plans') /\ Len(plans') = Len(plans) /\ DOMAIN plans' = DOMAIN plans
      /\ plans'[p] = v /\ \A q \in DOMAIN plans \ {p} : plans'[q] = plans[q]
  BY RowPut
<1>2. \A q \in DOMAIN plans : /\ Moves(plans[q], plans[q]) /\ KeepsWork(plans[q], plans[q])
                             /\ KeepsDecision(chat[q], plans[q], plans[q])
  BY Unmoved DEF PlansOK
<1>3. \A q \in DOMAIN plans : Moves(plans[q], plans'[q])
  BY <1>1, <1>2
<1>4. TableStep
  BY <1>1, <1>3 DEF TableStep, PlansOK
<1>5. DecisionsKept
  BY <1>1, <1>2 DEF DecisionsKept
<1>6. v.hand.del = plans[p].hand.del => DelKept
  BY <1>1 DEF DelKept
<1>7. KeepsWork(plans[p], v) => AllWork
  BY <1>1, <1>2 DEF AllWork
<1>. QED  BY <1>4, <1>5, <1>6, <1>7

(* The three kinds of transactions and what they leave of the table: one    *)
(* that disturbs nothing,                                                   *)
LEMMA GentleStep ==
    ASSUME PlansOK, NEW p \in DOMAIN plans, Gentle(p)
    PROVE  Soft /\ AllWork
BY RowMoved DEF Gentle, Soft

(* one that may give up running work,                                       *)
LEMMA FirmStep ==
    ASSUME PlansOK, NEW p \in DOMAIN plans, Firm(p)
    PROVE  Soft
BY RowMoved DEF Firm, Soft

(* one that may claim or settle a delivery.                                 *)
LEMMA LooseStep ==
    ASSUME PlansOK, NEW p \in DOMAIN plans, Loose(p)
    PROVE  /\ TableStep /\ DecisionsKept /\ AllWork
           /\ \A q \in DOMAIN plans \ {p} : plans'[q] = plans[q]
BY RowMoved, RowPut DEF Loose

(* The handoff of a plan is written.                                        *)
LEMMA HandWritten ==
    ASSUME PlansOK, NEW p \in DOMAIN plans, NEW a, NEW d, NEW h, SetHand(p, h),
           h = [st |-> a, del |-> d],
           plans[p].st = "superseded" => a = plans[p].hand.st \/ a = "none",
           plans[p].hand.st = "quarantined" => a = "quarantined",
           chat[p] = 1 => ~(a = "pending" /\ d = "none"),
           a = "pending" => plans[p].hand.st = "pending" \/ DecidedRow(plans[p])
    PROVE  Loose(p) /\ plans'[p].hand.del = d
<1>. DEFINE u == plans[p]
            v == [u EXCEPT !.hand = h]
<1>1. IsPlan(u) /\ Puts(p, v)
  BY DEF PlansOK, Puts, SetHand
<1>2. /\ IsPlan(v) /\ v.task = u.task /\ v.phase = u.phase /\ v.st = u.st
      /\ v.step = u.step /\ v.box = u.box /\ v.hand.st = a /\ v.hand.del = d
  BY <1>1 DEF IsPlan
<1>. HIDE DEF v
<1>3. Moves(u, v)
  BY <1>1, <1>2 DEF Moves, Quiet
<1>4. KeepsWork(u, v)
  BY <1>2 DEF KeepsWork, Working
<1>5. DecidedRow(u) => DecidedRow(v)
  BY <1>2 DEF DecidedRow, Human
<1>6. KeepsDecision(chat[p], u, v)
  BY <1>2, <1>5 DEF KeepsDecision, HandRow, Human
<1>7. plans'[p] = v
  BY <1>1, RowPut
<1>. QED  BY <1>1, <1>2, <1>3, <1>4, <1>6, <1>7 DEF Loose

(* A decision of the user is stored with the result of its step.            *)
LEMMA DecisionStaged ==
    ASSUME PlansOK, NEW p \in DOMAIN plans, NEW i \in Steps(p), NEW choice,
           StageDecision(p, i, choice), Kind(p, i) = "human"
    PROVE  Loose(p)
<1>. DEFINE u == plans[p]
            to == IF choice = "confirm" THEN "completed" ELSE "failed"
            b == [to |-> to, exp |-> {"pending", "waiting_user"}]
            nb == [u.box EXCEPT ![i] = b]
            h == [st |-> "pending", del |-> "none"]
            v == [u EXCEPT !.hand = h, !.box[i] = b]
<1>1. /\ IsPlan(u) /\ Puts(p, v) /\ i \in DOMAIN u.step /\ u.st = "active"
      /\ u.step[i] \in {"pending", "waiting_user"} /\ u.hand.st = "none"
  BY DEF PlansOK, Puts, StageDecision, Steps
<1>2. b.to \in {"completed", "failed"} /\ b # NoBox
  BY DEF NoBox
<1>3. DOMAIN u.box = DOMAIN u.step /\ u.box = [j \in DOMAIN u.box |-> u.box[j]]
      /\ \A j \in DOMAIN u.box : u.box[j].to # "pending"
  BY <1>1 DEF IsPlan
<1>4. /\ DOMAIN u.step = DOMAIN u.step /\ u.step = [j \in DOMAIN u.step |-> u.step[j]]
  BY <1>1 DEF IsPlan
<1>. HIDE DEF b
<1>5. /\ DOMAIN nb = DOMAIN u.step /\ nb = [j \in DOMAIN nb |-> nb[j]]
      /\ nb[i] = b /\ \A j \in DOMAIN u.step \ {i} : nb[j] = u.box[j]
  BY <1>1, <1>3
<1>6. \A j \in DOMAIN nb : nb[j].to # "pending"
  BY <1>2, <1>3, <1>5
<1>7. v = Row(u.task, u.phase, u.st, u.step, nb, "pending", "none")
  <2>. DEFINE m == [u EXCEPT !.hand = h]
  <2>1. m = Row(u.task, u.phase, u.st, u.step, u.box, "pending", "none")
    BY <1>1 DEF IsPlan, Row
  <2>2. m.box = u.box
    BY <2>1 DEF Row
  <2>. HIDE DEF m
  <2>3. v = [m EXCEPT !.box = nb]
    BY <2>2 DEF m
  <2>. HIDE DEF nb, v
  <2>. QED  BY <2>1, <2>3, PutBoxes
<1>. DEFINE ss == u.step
<1>8. v = Row(u.task, u.phase, u.st, ss, nb, "pending", "none")
      /\ DOMAIN ss = DOMAIN u.step /\ ss = [j \in DOMAIN ss |-> ss[j]]
  BY <1>4, <1>7
<1>. HIDE DEF v, nb, ss
<1>9. /\ IsPlan(v) /\ v.task = u.task /\ v.phase = u.phase /\ v.st = u.st /\ v.step = ss
      /\ v.box = nb /\ v.hand.st = "pending" /\ v.hand.del = "none"
  BY <1>1, <1>5, <1>6, <1>8, RowMade
<1>10. v.step = u.step
  BY <1>9 DEF ss
<1>11. Moves(u, v)
  BY <1>1, <1>9, <1>10 DEF Moves
<1>12. KeepsWork(u, v)
  BY <1>1, <1>9, <1>10 DEF KeepsWork, Working
<1>13. ~DecidedRow(u)
  BY <1>1 DEF DecidedRow, Human, Kind
<1>14. \A j \in DOMAIN u.step : Human(u, j) => j = i
  BY <1>1, OneDecisionAssumption DEF IsPlan, Human, Kind
<1>15. KeepsDecision(chat[p], u, v)
  BY <1>2, <1>5, <1>9, <1>10, <1>13, <1>14 DEF KeepsDecision, HandRow, Human
<1>. QED  BY <1>1, <1>11, <1>12, <1>15 DEF Loose

(* A new plan supersedes the one the task had, which is at rest.            *)
LEMMA Activated ==
    ASSUME PlansOK, NEW t \in Tasks, NEW ph \in Phases, Activate(t, ph)
    PROVE  Soft /\ AllWork
<1>. DEFINE old == [p \in DOMAIN plans |->
                      IF plans[p].task = t /\ plans[p].st = "active"
                      THEN [plans[p] EXCEPT !.st = "superseded"] ELSE plans[p]]
            new == Row(t, ph, "active", [i \in DOMAIN StepsOf[ph] |-> "pending"],
                       [i \in DOMAIN StepsOf[ph] |-> NoBox], "none", "none")
<1>1. plans' = Append(old, new) /\ Len(plans) < MaxPlans
  BY DEF Activate, Row, NoHand
<1>2. DOMAIN old = DOMAIN plans /\ old = [p \in DOMAIN old |-> old[p]]
  OBVIOUS
<1>3. Len(plans) \in Nat /\ DOMAIN plans = 1 .. Len(plans)
  BY SequenceDomain DEF PlansOK
<1>4. IsSequence(old) /\ Len(old) = Len(plans)
  <2>1. IsSequence(old)
    BY <1>2, SequenceRewritten DEF PlansOK
  <2>. HIDE DEF old
  <2>. QED  BY <1>2, <1>3, <2>1, SequenceDomain
<1>5. ASSUME NEW p \in DOMAIN plans
      PROVE  /\ Moves(plans[p], old[p]) /\ KeepsWork(plans[p], old[p])
             /\ KeepsDecision(chat[p], plans[p], old[p])
             /\ old[p].hand.del = plans[p].hand.del
             /\ plans[p].task = t => old[p].st # "active"
  <2>1. CASE plans[p].task = t /\ plans[p].st = "active"
    <3>. DEFINE u == plans[p]
                v == [u EXCEPT !.st = "superseded"]
    <3>1. IsPlan(u) /\ old[p] = v
      BY <2>1 DEF PlansOK
    <3>2. /\ IsPlan(v) /\ v.task = u.task /\ v.phase = u.phase /\ v.st = "superseded"
          /\ v.step = u.step /\ v.box = u.box /\ v.hand = u.hand
      BY <3>1 DEF IsPlan
    <3>3. ~InFlight(p)
      BY <2>1 DEF Activate, TaskInFlight
    <3>4. Quiet(u)
      BY <3>3 DEF InFlight, Quiet, Steps
    <3>. HIDE DEF v, old
    <3>5. Moves(u, v)
      BY <3>2, <3>4, <2>1 DEF Moves, Quiet
    <3>6. KeepsWork(u, v)
      BY <3>2, <3>4 DEF KeepsWork, Working, Quiet
    <3>7. KeepsDecision(chat[p], u, v)
      BY <3>2 DEF KeepsDecision, HandRow, DecidedRow, Human
    <3>. QED  BY <3>1, <3>2, <3>5, <3>6, <3>7
  <2>2. CASE ~(plans[p].task = t /\ plans[p].st = "active")
    <3>1. old[p] = plans[p] /\ IsPlan(plans[p])
      BY <2>2 DEF PlansOK
    <3>. HIDE DEF old
    <3>. QED  BY <2>2, <3>1, Unmoved
  <2>. QED  BY <2>1, <2>2
<1>6. /\ IsPlan(new) /\ new.hand = NoHand /\ new.st = "active" /\ new.task = t
      /\ \A i \in DOMAIN new.step : new.step[i] = "pending" /\ new.box[i] = NoBox
  BY DEF IsPlan, Row, NoHand, NoBox
<1>. HIDE DEF old, new
<1>7. /\ IsSequence(plans') /\ DOMAIN plans' = 1 .. Len(plans) + 1
      /\ \A p \in DOMAIN plans : plans'[p] = old[p]
      /\ plans'[Len(plans) + 1] = new
  BY <1>1, <1>2, <1>4, SequenceAppend
<1>8. Len(plans') = Len(plans) + 1
  BY <1>3, <1>7, SequenceDomain
<1>9. DOMAIN plans \subseteq DOMAIN plans' /\ DOMAIN plans' \ DOMAIN plans = {Len(plans) + 1}
  BY <1>3, <1>7
<1>10. Fresh(Len(plans) + 1, new)
  BY <1>3, <1>5, <1>6, <1>7 DEF Fresh
<1>11. TableStep
  <2>1. Len(plans') <= MaxPlans
    BY <1>1, <1>3, <1>8, PlansAssumption
  <2>. QED  BY <1>5, <1>7, <1>9, <1>10, <2>1 DEF TableStep
<1>. QED  BY <1>5, <1>7, <1>11 DEF Soft, DecisionsKept, DelKept, AllWork

(* A dataset reset gives up every plan of the tasks it cancels.             *)
LEMMA ResetRow ==
    ASSUME PlansOK, NEW p \in DOMAIN plans, NEW v,
           v = [plans[p] EXCEPT
                      !.box = [i \in Steps(p) |-> NoBox],
                      !.hand.st = IF @ = "none" THEN @ ELSE "quarantined",
                      !.step = IF plans[p].st = "active"
                               THEN Unfinished(p, "failed") ELSE @,
                      !.st = IF @ = "active" THEN "invalidated" ELSE @]
    PROVE  /\ Moves(plans[p], v) /\ KeepsDecision(chat[p], plans[p], v)
           /\ v.hand.del = plans[p].hand.del
<1>. DEFINE u == plans[p]
            nb == [i \in Steps(p) |-> NoBox]
            nh == IF u.hand.st = "none" THEN "none" ELSE "quarantined"
            ns == IF u.st = "active" THEN Unfinished(p, "failed") ELSE u.step
            st == IF u.st = "active" THEN "invalidated" ELSE u.st
            k == [u EXCEPT !.box = nb]
            m == [k EXCEPT !.hand.st = nh]
            n == [m EXCEPT !.step = ns]
<1>1. IsPlan(u)
  BY DEF PlansOK
<1>2. /\ DOMAIN nb = DOMAIN u.step /\ nb = [i \in DOMAIN nb |-> nb[i]]
      /\ \A i \in DOMAIN u.step : nb[i] = NoBox
  BY DEF Steps
<1>3. /\ DOMAIN ns = DOMAIN u.step /\ ns = [i \in DOMAIN ns |-> ns[i]]
      /\ \A i \in DOMAIN u.step : ns[i] = u.step[i] \/ ns[i] = "failed"
      /\ u.st # "active" => ns = u.step
  BY <1>1 DEF Unfinished, Steps, IsPlan
<1>4. \A i \in DOMAIN nb : nb[i].to # "pending"
  BY <1>2 DEF NoBox
<1>5. u = Row(u.task, u.phase, u.st, u.step, u.box, u.hand.st, u.hand.del)
  BY <1>1 DEF IsPlan, Row
<1>. HIDE DEF nb, ns
<1>6. k = Row(u.task, u.phase, u.st, u.step, nb, u.hand.st, u.hand.del)
  BY <1>5, PutBoxes
<1>7. k.hand.st = u.hand.st
  BY <1>6 DEF Row
<1>. HIDE DEF k, nh
<1>8. m = Row(u.task, u.phase, u.st, u.step, nb, nh, u.hand.del)
  BY <1>6, PutHandStatus
<1>9. m.step = u.step
  BY <1>8 DEF Row
<1>. HIDE DEF m
<1>10. n = Row(u.task, u.phase, u.st, ns, nb, nh, u.hand.del)
  BY <1>8, PutSteps
<1>11. n.st = u.st
  BY <1>10 DEF Row
<1>. HIDE DEF n
<1>12. v = [n EXCEPT !.st = st]
  BY <1>7, <1>9, <1>11 DEF n, m, k, nb, nh, ns
<1>. HIDE DEF st
<1>13. v = Row(u.task, u.phase, st, ns, nb, nh, u.hand.del)
  BY ONLY <1>10, <1>12, PutStatus
<1>14. /\ IsPlan(v) /\ v.task = u.task /\ v.phase = u.phase /\ v.st = st /\ v.step = ns
       /\ v.box = nb /\ v.hand.st = nh /\ v.hand.del = u.hand.del
  BY ONLY <1>1, <1>2, <1>3, <1>4, <1>13, RowMade
<1>15. Moves(u, v)
  BY <1>2, <1>3, <1>14 DEF Moves, Quiet, st, nh
<1>16. KeepsDecision(chat[p], u, v)
  BY <1>2, <1>3, <1>14 DEF KeepsDecision, HandRow, DecidedRow, Human, nh
<1>. QED  BY <1>14, <1>15, <1>16

(* cancel_nonterminal_for_dataset_reset, over all plans.                    *)
LEMMA DatasetReset ==
    ASSUME PlansOK, CancelForReset
    PROVE  Soft
<1>1. DOMAIN plans' = DOMAIN plans /\ plans' = [p \in DOMAIN plans' |-> plans'[p]]
  BY DEF CancelForReset
<1>2. IsSequence(plans') /\ Len(plans') = Len(plans)
  <2>1. IsSequence(plans')
    BY <1>1, SequenceRewritten DEF PlansOK
  <2>. QED  BY <1>1, <2>1, SequenceDomain DEF PlansOK
<1>3. ASSUME NEW p \in DOMAIN plans
      PROVE  /\ Moves(plans[p], plans'[p]) /\ KeepsDecision(chat[p], plans[p], plans'[p])
             /\ plans'[p].hand.del = plans[p].hand.del
  <2>1. \/ plans'[p] = plans[p]
        \/ plans'[p] = [plans[p] EXCEPT
                      !.box = [i \in Steps(p) |-> NoBox],
                      !.hand.st = IF @ = "none" THEN @ ELSE "quarantined",
                      !.step = IF plans[p].st = "active"
                               THEN Unfinished(p, "failed") ELSE @,
                      !.st = IF @ = "active" THEN "invalidated" ELSE @]
    BY DEF CancelForReset
  <2>2. CASE plans'[p] = plans[p]
    BY <2>2, Unmoved DEF PlansOK
  <2>3. CASE plans'[p] # plans[p]
    BY <2>1, <2>3, ResetRow
  <2>. QED  BY <2>2, <2>3
<1>. QED  BY <1>1, <1>2, <1>3 DEF Soft, TableStep, DecisionsKept, DelKept, PlansOK

----------------------------------------------------------------------------
(* The actors as they move.                                                 *)
LEMMA ActorNames ==
    /\ H \in Actors /\ C \in Actors /\ W \in Actors /\ Invokers \subseteq Actors
    /\ H \notin Invokers /\ C \notin Invokers /\ W \notin Invokers /\ H # C /\ H # W /\ C # W
BY InvokersAssumption DEF H, C, W, Actors, OnLoop

(* The table of actors with one of them replaced.                           *)
LEMMA OneMoved ==
    ASSUME ActorsOK, NEW x \in Actors, NEW a, act' = [act EXCEPT ![x] = a]
    PROVE  Others(x) /\ act'[x] = a /\ \A y \in Actors \ {x} : act'[y] = act[y]
<1>1. /\ act' = [y \in Actors |-> act'[y]] /\ act'[x] = a
      /\ \A y \in Actors \ {x} : act'[y] = act[y]
  BY DEF ActorsOK
<1>2. \A y \in Actors : IsActor(act[y])
  BY DEF ActorsOK, Stands
<1>. QED  BY <1>1, <1>2 DEF Others, Same

(* Actor x moves to a place where it neither executes a step, nor stages    *)
(* what the coordinator was told, nor delivers a decision.                  *)
LEMMA ActorGoes ==
    ASSUME NavInv, NEW x \in Actors, NEW a, act' = [act EXCEPT ![x] = a], Stands(x, a, plans),
           a.pc \notin {"run", "stage", "deliver", "chat"}, LockKept(x), TableStep, DecisionsKept,
           WorkKept(x), x = H \/ DelKept, ran' = ran, chat' = chat, notes' = notes,
           x = C => a.pc = "idle" \/ (act[C].pc # "idle" /\ a.p = P(C))
    PROVE  NavInv'
<1>1. /\ PlansOK /\ LiveOK /\ ActorsOK /\ NotesOK /\ LockOK /\ RanOK
      /\ GivenUpMeansDead /\ ChatsOK /\ HumanOK
  BY DEF NavInv
<1>2. Others(x) /\ act'[x] = a
  BY <1>1, OneMoved
<1>3. Stands(x, act'[x], plans')
  BY <1>1, <1>2, StandsStill
<1>4. NotesOK'
  <2>1. Same(C) \/ act'[C].pc = "idle" \/ (act[C].pc # "idle" /\ act'[C].p = P(C))
    BY <1>2, ActorNames DEF Others
  <2>. QED  BY <1>1, <2>1, NotesStayOK
<1>5. HumanOK'
  <2>1. CASE x = H
    BY <1>2, <2>1 DEF HumanOK
  <2>2. CASE x # H
    <3>1. Same(H)
      BY <1>2, <2>2, ActorNames DEF Others
    <3>2. act[H].pc = "chat" => plans'[P(H)].hand.del = plans[P(H)].hand.del
      BY <1>1, <2>2, ActorNames DEF ActorsOK, Stands, P, DelKept
    <3>. QED  BY <1>1, <3>1, <3>2, HumanStaysOK
  <2>. QED  BY <2>1, <2>2
<1>. QED  BY <1>2, <1>3, <1>4, <1>5, ActorMoves

(* An actor without work stands anywhere.                                   *)
LEMMA IdleStands ==
    ASSUME NEW x
    PROVE  Stands(x, Idle, plans) /\ Idle.pc = "idle"
BY DEF Stands, Idle, IsActor

(* The lock when x does not leave it, and when it does.                     *)
LEMMA LockUntouched ==
    ASSUME LockOK, NEW x, UNCHANGED lockVars,
           x \in Invokers /\ act'[x].pc \notin {"idle", "lock"} => act[x].pc \notin {"idle", "lock"}
    PROVE  LockKept(x)
BY DEF LockOK, LockKept, lockVars

(* The end of a tool call leaves the lock to the others.                    *)
LEMMA Returned ==
    ASSUME ActorsOK, NEW x \in Actors, Return(x)
    PROVE  act' = [act EXCEPT ![x] = Idle] /\ LockKept(x)
<1>1. act' = [act EXCEPT ![x] = Idle] /\ act'[x] = Idle
  BY OneMoved DEF Return, Leave
<1>2. \A y \in Invokers \ {x} : HeldBy(y) # HeldBy(x)
  BY DEF HeldBy
<1>3. \A y \in Invokers \ {x} : holder = HeldBy(y) => holder' = HeldBy(y)
  BY <1>2 DEF Return, lockVars
<1>. QED  BY <1>1, <1>3, IdleStands DEF LockKept

(* Nobody moves.                                                            *)
LEMMA NobodyMoves ==
    ASSUME NavInv, Others(H), Same(H), TableStep, DecisionsKept, WorkKept(H),
           \A y \in Invokers : holder = HeldBy(y) => holder' = HeldBy(y),
           act[H].pc = "chat" => \/ plans'[P(H)].hand.del = plans[P(H)].hand.del
                                 \/ plans'[P(H)].hand.del \in InDelivery,
           ran' = ran, chat' = chat, NotesOK'
    PROVE  NavInv'
<1>1. /\ PlansOK /\ LiveOK /\ ActorsOK /\ NotesOK /\ LockOK /\ RanOK
      /\ GivenUpMeansDead /\ ChatsOK /\ HumanOK
  BY DEF NavInv
<1>2. LockKept(H)
  BY ActorNames DEF LockKept
<1>3. Stands(H, act'[H], plans')
  <2>1. Stands(H, act[H], plans')
    BY <1>1, ActorNames, StandsStill DEF ActorsOK
  <2>. QED  BY <2>1 DEF Same, Stands
<1>4. HumanOK'
  BY <1>1, HumanStaysOK
<1>. QED  BY <1>2, <1>3, <1>4, ActorNames, ActorMoves

(* No actor is touched.                                                     *)
LEMMA AllStay ==
    ASSUME ActorsOK, act' = act
    PROVE  Others(H) /\ \A y \in Actors : Same(y)
BY DEF ActorsOK, Stands, Others, Same

(* The parts of the invariant.                                              *)
LEMMA NavParts ==
    ASSUME NavInv
    PROVE  /\ PlansOK /\ LiveOK /\ ActorsOK /\ NotesOK /\ LockOK /\ RanOK
           /\ GivenUpMeansDead /\ ChatsOK /\ HumanOK
BY DEF NavInv

(* A step of nobody that disturbs no row.                                   *)
LEMMA StillStep ==
    ASSUME NavInv, act' = act, Soft, AllWork, ran' = ran, chat' = chat, NotesOK',
           \A y \in Invokers : holder = HeldBy(y) => holder' = HeldBy(y)
    PROVE  NavInv'
<1>1. ActorsOK /\ Others(H) /\ Same(H)
  BY NavParts, AllStay, ActorNames
<1>2. WorkKept(H)
  BY <1>1, WorkIsKept
<1>3. act[H].pc = "chat" => plans'[P(H)].hand.del = plans[P(H)].hand.del
  BY <1>1, ActorNames DEF ActorsOK, Stands, P, DelKept, Soft
<1>. QED  BY <1>1, <1>2, <1>3, NobodyMoves DEF Soft

(* What the coordinator was told, when nobody moves.                        *)
LEMMA NotesUntouched ==
    ASSUME NavInv, act' = act, TableStep, notes' = notes
    PROVE  NotesOK'
BY NavParts, AllStay, ActorNames, NotesStayOK

(* Tasks, plans and user control.                                           *)
LEMMA TaskSteps ==
    ASSUME NavInv, NEW t \in Tasks, StartTask(t) \/ SettleControl(t) \/ ContinueTask(t)
    PROVE  NavInv'
<1>1. plans' = plans /\ UNCHANGED <<lockVars, execVars>>
  BY DEF StartTask, SettleControl, ContinueTask, CreateTaskAttempt, CreateLinkedFix, UpdateTask
<1>2. Soft /\ AllWork
  BY <1>1, NavParts, NothingStored
<1>3. NotesOK'
  BY <1>1, <1>2, NotesUntouched DEF execVars, Soft
<1>. QED  BY <1>1, <1>2, <1>3, StillStep DEF execVars, lockVars

(* submit_complete_plan                                                     *)
LEMMA PlanSubmitted ==
    ASSUME NavInv, NEW t \in Tasks, NEW ph \in Phases, SubmitPlan(t, ph)
    PROVE  NavInv'
<1>1. Activate(t, ph) /\ UNCHANGED <<lockVars, execVars>>
  BY DEF SubmitPlan
<1>2. Soft /\ AllWork
  BY <1>1, NavParts, Activated
<1>3. NotesOK'
  BY <1>1, <1>2, NotesUntouched DEF execVars, Soft
<1>. QED  BY <1>1, <1>2, <1>3, StillStep DEF execVars, lockVars

(* control_navigation_agent_task: the tools are told, and none of them      *)
(* moves.                                                                   *)
LEMMA ControlRequested ==
    ASSUME NavInv, NEW t \in Tasks, NEW s, RequestControl(t, s)
    PROVE  NavInv'
<1>1. /\ plans' = plans /\ UNCHANGED <<lockVars, notes, chat, ran>>
      /\ act' = [x \in Actors |-> IF x \in Background(t)
                                THEN [act[x] EXCEPT !.cancelled = TRUE] ELSE act[x]]
  BY DEF RequestControl, UpdateTask
<1>2. Soft /\ AllWork
  BY <1>1, NavParts, NothingStored
<1>3. ASSUME NEW x \in Actors PROVE Same(x)
  <2>1. IsActor(act[x])
    BY NavParts DEF ActorsOK, Stands
  <2>2. act'[x] = [act[x] EXCEPT !.cancelled = TRUE] \/ act'[x] = act[x]
    BY <1>1
  <2>. QED  BY <2>1, <2>2 DEF Same, IsActor
<1>4. Others(H)
  BY <1>1, <1>3 DEF Others
<1>5. NotesOK'
  BY <1>1, <1>2, <1>3, NavParts, ActorNames, NotesStayOK DEF Soft
<1>6. WorkKept(H)
  BY <1>2, NavParts, WorkIsKept
<1>. QED  BY <1>1, <1>2, <1>3, <1>4, <1>5, <1>6, ActorNames, NobodyMoves DEF Soft, lockVars

(* A free lock is held by no tool.                                          *)
LEMMA NobodyHolds ==
    ASSUME NEW y \in Invokers
    PROVE  HeldBy(y) # Nobody
BY InvokersAssumption, WritersAssumption DEF HeldBy, Nobody

(* reset_navigation_dataset: no tool is inside the lock, so no running work *)
(* is cancelled.                                                            *)
LEMMA Reset ==
    ASSUME NavInv, ResetDataset
    PROVE  NavInv'
<1>1. /\ holder = Nobody /\ UNCHANGED <<lockVars, act, notes, chat, ran>> /\ CancelForReset
  BY DEF ResetDataset
<1>2. Soft
  BY <1>1, NavParts, DatasetReset
<1>3. WorkKept(H)
  BY <1>1, NobodyHolds, NavParts DEF WorkKept, LockOK
<1>4. ActorsOK /\ Others(H) /\ Same(H)
  BY <1>1, NavParts, AllStay, ActorNames
<1>5. NotesOK'
  BY <1>1, <1>2, NotesUntouched DEF Soft
<1>6. act[H].pc = "chat" => plans'[P(H)].hand.del = plans[P(H)].hand.del
  BY <1>2, <1>4, ActorNames DEF ActorsOK, Stands, P, DelKept, Soft
<1>. QED  BY <1>1, <1>2, <1>3, <1>4, <1>5, <1>6, NobodyMoves DEF Soft, lockVars

(* The markers are cleared, or the child of a dead writer ends.             *)
LEMMA LockCleared ==
    ASSUME NavInv, OperatorClears \/ ChildEnds
    PROVE  NavInv'
<1>1. plans' = plans /\ UNCHANGED execVars
  BY DEF OperatorClears, ChildEnds, planVars
<1>2. \A y \in Invokers : holder = HeldBy(y) => holder' = HeldBy(y)
  BY DEF OperatorClears, ChildEnds, ClearMarkers, OrphanExits, HeldBy
<1>3. Soft /\ AllWork
  BY <1>1, NavParts, NothingStored
<1>4. NotesOK'
  BY <1>1, <1>3, NotesUntouched DEF execVars, Soft
<1>. QED  BY <1>1, <1>2, <1>3, <1>4, StillStep DEF execVars

(* recover_human_decision_handoff                                           *)
LEMMA HandoffRecovered ==
    ASSUME NavInv, NEW p \in DOMAIN plans, RecoverHandoff(p)
    PROVE  NavInv'
<1>1. QuarantineHandoff(p) /\ UNCHANGED <<lockVars, execVars>>
  BY DEF RecoverHandoff
<1>2. Soft /\ AllWork
  BY <1>1, NavParts, Quarantined, GentleStep
<1>3. NotesOK'
  BY <1>1, <1>2, NotesUntouched DEF execVars, Soft
<1>. QED  BY <1>1, <1>2, <1>3, StillStep DEF execVars, lockVars

----------------------------------------------------------------------------
(* The coordinator and what it is told.                                     *)
LEMMA LatestIn ==
    ASSUME PlansOK, NEW t, LatestPlan(t) # 0
    PROVE  LatestPlan(t) \in DOMAIN plans /\ TaskOf(LatestPlan(t)) = t
<1>. DEFINE all == {p \in DOMAIN plans : plans[p].task = t}
            ps == {p \in all : /\ plans[p].st \in {"active", "completed"}
                               /\ \A q \in all : (\A r \in all : r <= q)
                                     => plans[q].phase = plans[p].phase}
            S == {Len(plans) - p : p \in ps}
<1>1. Len(plans) \in Nat /\ DOMAIN plans = 1 .. Len(plans)
  BY SequenceDomain DEF PlansOK
<1>2. ps # {}
  BY DEF LatestPlan
<1>3. S \subseteq Nat /\ S # {}
  BY <1>1, <1>2
<1>4. PICK m \in S : \A k \in S : m <= k
  BY <1>3, LeastMember
<1>5. PICK p \in ps : m = Len(plans) - p
  BY <1>4
<1>6. ASSUME NEW q \in ps PROVE q <= p
  <2>1. Len(plans) - q \in S
    BY <1>6
  <2>2. m <= Len(plans) - q
    BY <1>4, <2>1
  <2>. QED  BY <1>1, <1>5, <2>2
<1>7. \E r \in ps : \A q \in ps : q <= r
  BY <1>6
<1>. QED  BY <1>2, <1>7 DEF LatestPlan, TaskOf

(* The workflow step a delivery is about is a step of an active plan.       *)
LEMMA OpenStepIn ==
    ASSUME PlansOK, NEW t, OpenWorkflowStep(t) # 0
    PROVE  /\ LatestPlan(t) \in DOMAIN plans /\ OpenWorkflowStep(t) \in Steps(LatestPlan(t))
           /\ plans[LatestPlan(t)].st = "active"
           /\ Kind(LatestPlan(t), OpenWorkflowStep(t)) = "workflow"
           /\ plans[LatestPlan(t)].step[OpenWorkflowStep(t)] \in {"pending", "waiting_user", "running"}
<1>. DEFINE p == LatestPlan(t)
            i == CurrentStep(p)
<1>1. /\ p # 0 /\ plans[p].st = "active" /\ i # 0 /\ Kind(p, i) = "workflow"
      /\ OpenWorkflowStep(t) = i
      /\ plans[p].step[i] \in {"pending", "waiting_user", "running"}
  BY DEF OpenWorkflowStep
<1>2. p \in DOMAIN plans
  BY <1>1, LatestIn
<1>3. i \in Steps(p)
  BY <1>1, <1>2, CurrentStepIn
<1>. QED  BY <1>1, <1>2, <1>3

(* The oldest handoff stays the oldest when one is added.                   *)
LEMMA HeadKept ==
    ASSUME NEW S, NEW q \in Seq(S), NEW e \in S
    PROVE  /\ Append(q, e) \in Seq(S) /\ Append(q, e) # <<>>
           /\ q # <<>> => Head(Append(q, e)) = Head(q)
<1>1. Append(q, e) \in Seq(S) /\ Len(Append(q, e)) = Len(q) + 1 /\ Len(q) \in Nat
  OBVIOUS
<1>2. Append(q, e) # <<>>
  BY <1>1
<1>3. q # <<>> => Len(q) > 0
  OBVIOUS
<1>4. q # <<>> => Append(q, e)[1] = q[1]
  BY <1>1, <1>3
<1>. QED  BY <1>1, <1>2, <1>4

(* A handoff that was delivered is taken from its queue.                    *)
LEMMA NoteDelivered ==
    ASSUME NotesOK, NEW t \in Tasks, notes[t] # <<>>, Delivered(t), act'[C].pc = "idle"
    PROVE  NotesOK'
<1>1. Tail(notes[t]) \in Seq({"running", "completed", "failed"})
  BY DEF NotesOK
<1>2. notes' \in [Tasks -> Seq({"running", "completed", "failed"})]
  BY <1>1 DEF NotesOK, Delivered
<1>. QED  BY <1>2 DEF NotesOK

(* The annotation job advances and says so.                                 *)
LEMMA AnnotationMoves ==
    ASSUME NavInv, NEW t \in Tasks, AnnotationAdvances(t)
    PROVE  NavInv'
<1>1. plans' = plans /\ UNCHANGED <<lockVars, act, chat, ran>>
  BY DEF AnnotationAdvances, planVars
<1>2. Soft /\ AllWork
  BY <1>1, NavParts, NothingStored
<1>3. PICK s \in {"running", "completed", "failed"} : notes' = [notes EXCEPT ![t] = Append(@, s)]
  BY DEF AnnotationAdvances
<1>4. notes \in [Tasks -> Seq({"running", "completed", "failed"})]
  BY NavParts DEF NotesOK
<1>5. /\ Append(notes[t], s) \in Seq({"running", "completed", "failed"})
      /\ Append(notes[t], s) # <<>>
      /\ notes[t] # <<>> => Head(Append(notes[t], s)) = Head(notes[t])
  BY <1>4, HeadKept
<1>6. /\ notes' \in [Tasks -> Seq({"running", "completed", "failed"})]
      /\ \A k \in Tasks : notes[k] # <<>> => notes'[k] # <<>> /\ Head(notes'[k]) = Head(notes[k])
  BY <1>3, <1>4, <1>5
<1>7. act[C].pc # "idle" => P(C) \in DOMAIN plans /\ TaskOf(P(C)) \in Tasks
  BY NavParts, ActorNames DEF ActorsOK, Stands, P, PlansOK, IsPlan, TaskOf
<1>8. NotesOK'
  BY <1>1, <1>6, <1>7, NavParts DEF NotesOK, Told, P, TaskOf
<1>. QED  BY <1>1, <1>2, <1>8, StillStep DEF lockVars

(* The coordinator resumes a step, or finds it done.                        *)
LEMMA CoordinatorWaits ==
    ASSUME NavInv, NEW t \in Tasks, CoordinatorResumes(t) \/ CoordinatorSkips(t)
    PROVE  NavInv'
<1>1. /\ UNCHANGED <<lockVars, act, chat, ran>> /\ act[C].pc = "idle" /\ notes[t] # <<>>
      /\ Delivered(t)
  BY DEF CoordinatorResumes, CoordinatorSkips, At
<1>2. NotesOK'
  BY <1>1, NavParts, NoteDelivered
<1>3. Soft /\ AllWork
  <2>1. CASE CoordinatorResumes(t)
    <3>. DEFINE p == LatestPlan(t)
                i == OpenWorkflowStep(t)
    <3>1. i # 0 /\ Resumable(p, i) /\ ResumeWorkflowStep(p, i)
      BY <2>1 DEF CoordinatorResumes
    <3>2. p \in DOMAIN plans /\ i \in Steps(p) /\ Kind(p, i) = "workflow" /\ plans[p].st = "active"
      BY <3>1, NavParts, OpenStepIn
    <3>3. plans' = [plans EXCEPT ![p].step[i] = "running"]
      BY <3>1 DEF ResumeWorkflowStep
    <3>. HIDE DEF p, i
    <3>4. Gentle(p)
      BY <3>2, <3>3, NavParts, StepWritten
    <3>. QED  BY <3>2, <3>4, NavParts, GentleStep
  <2>2. CASE CoordinatorSkips(t)
    <3>1. plans' = plans
      BY <2>2 DEF CoordinatorSkips, UpdateTask, planVars
    <3>. QED  BY <3>1, NavParts, NothingStored
  <2>. QED  BY <2>1, <2>2
<1>. QED  BY <1>1, <1>2, <1>3, StillStep DEF lockVars

----------------------------------------------------------------------------
(* Human decisions.                                                         *)
LEMMA HandPair ==
    ASSUME NEW c, NEW d, NEW h, h = [st |-> h.st, del |-> h.del]
    PROVE  [h EXCEPT !.st = c, !.del = d] = [st |-> c, del |-> d]
<1>. DEFINE m == [h EXCEPT !.st = c]
<1>1. m = [st |-> c, del |-> h.del]
  OBVIOUS
<1>. HIDE DEF m
<1>2. [m EXCEPT !.del = d] = [st |-> c, del |-> d]
  BY <1>1
<1>. QED  BY <1>2 DEF m

(* Every transaction on a handoff disturbs no step, and none makes a        *)
(* consumed decision deliverable.                                           *)
LEMMA HandMoves ==
    ASSUME PlansOK, LiveOK, ChatsOK, NEW p \in DOMAIN plans
    PROVE  /\ ClaimDelivery(p) => Loose(p) /\ plans'[p].hand.del = "delivering"
           /\ NeedsRecovery(p) => Loose(p) /\ plans'[p].hand.del = "recovery_required"
           /\ \A i : AnchorRecovery(p, i) => Loose(p)
           /\ FinishDelivery(p, TRUE) => Loose(p)
           /\ FinishDelivery(p, FALSE) /\ chat[p] = 0 => Loose(p)
           /\ MarkConsumed(p) /\ chat[p] = 1 => Loose(p)
           /\ Acknowledge(p) => Loose(p)
<1>. DEFINE u == plans[p]
<1>1. u.hand = [st |-> u.hand.st, del |-> u.hand.del]
  BY DEF PlansOK, IsPlan
<1>2. u.hand.st \in {"pending", "recovery_required"} => u.st # "superseded"
  BY DEF LiveOK, Quiet
<1>3. HandRow(chat[p], u)
  BY DEF ChatsOK
<1>4. chat[p] = 1 => DecidedRow(u)
  BY <1>3 DEF HandRow
<1>5. ASSUME ClaimDelivery(p) PROVE Loose(p) /\ plans'[p].hand.del = "delivering"
  <2>. DEFINE h == [u.hand EXCEPT !.del = "delivering"]
  <2>1. h = [st |-> "pending", del |-> "delivering"] /\ SetHand(p, h) /\ u.hand.st = "pending"
    BY <1>1, <1>5 DEF ClaimDelivery, Deliverable
  <2>. HIDE DEF h
  <2>. QED  BY <1>2, <2>1, HandWritten
<1>6. ASSUME NeedsRecovery(p)
      PROVE  Loose(p) /\ plans'[p].hand.del = "recovery_required"
  <2>. DEFINE h == [st |-> "recovery_required", del |-> "recovery_required"]
  <2>1. /\ h = [st |-> "recovery_required", del |-> "recovery_required"]
        /\ SetHand(p, h) /\ u.hand.st = "pending"
    BY <1>6 DEF NeedsRecovery
  <2>. HIDE DEF h
  <2>. QED  BY <1>2, <2>1, HandWritten
<1>7. ASSUME NEW i, AnchorRecovery(p, i) PROVE Loose(p)
  <2>. DEFINE h == [st |-> "recovery_required", del |-> "recovery_required"]
  <2>1. /\ h = [st |-> "recovery_required", del |-> "recovery_required"] /\ SetHand(p, h)
        /\ u.hand.st = "none" /\ u.st = "active"
    BY <1>7 DEF AnchorRecovery, NoHand
  <2>. HIDE DEF h
  <2>. QED  BY <2>1, HandWritten
<1>8. ASSUME FinishDelivery(p, TRUE) PROVE Loose(p)
  <2>. DEFINE h == [u.hand EXCEPT !.del = "delivered"]
  <2>1. h = [st |-> "pending", del |-> "delivered"] /\ SetHand(p, h) /\ u.hand.st = "pending"
    BY <1>1, <1>8 DEF FinishDelivery
  <2>. HIDE DEF h
  <2>. QED  BY <1>2, <2>1, HandWritten
<1>9. ASSUME FinishDelivery(p, FALSE), chat[p] = 0 PROVE Loose(p)
  <2>. DEFINE h == [u.hand EXCEPT !.del = "none"]
  <2>1. h = [st |-> "pending", del |-> "none"] /\ SetHand(p, h) /\ u.hand.st = "pending"
    BY <1>1, <1>9 DEF FinishDelivery
  <2>. HIDE DEF h
  <2>. QED  BY <1>2, <1>9, <2>1, HandWritten
<1>10. ASSUME MarkConsumed(p), chat[p] = 1 PROVE Loose(p)
  <2>. DEFINE h == [u.hand EXCEPT !.st = "pending", !.del = "delivered"]
  <2>0. h = [st |-> "pending", del |-> "delivered"]
    BY ONLY <1>1, HandPair
  <2>1. /\ h = [st |-> "pending", del |-> "delivered"] /\ SetHand(p, h)
        /\ u.hand.st \in {"pending", "recovery_required"}
    BY <1>10, <2>0 DEF MarkConsumed
  <2>. HIDE DEF h
  <2>. QED  BY <1>2, <1>4, <1>10, <2>1, HandWritten
<1>11. ASSUME Acknowledge(p) PROVE Loose(p)
  <2>1. SetHand(p, NoHand) /\ NoHand = [st |-> "none", del |-> "none"] /\ u.hand.st = "pending"
    BY <1>11 DEF Acknowledge, NoHand
  <2>. QED  BY <2>1, HandWritten
<1>. QED  BY <1>5, <1>6, <1>7, <1>8, <1>9, <1>10, <1>11

(* A transaction on a handoff by nobody in particular.                      *)
LEMMA LooseStill ==
    ASSUME NavInv, act' = act, NEW p \in DOMAIN plans, Loose(p),
           act[H].pc = "chat" => P(H) # p \/ plans'[p].hand.del \in InDelivery,
           UNCHANGED <<lockVars, notes, chat, ran>>
    PROVE  NavInv'
<1>1. PlansOK /\ ActorsOK /\ Others(H) /\ Same(H)
  BY NavParts, AllStay, ActorNames
<1>2. /\ TableStep /\ DecisionsKept /\ AllWork
      /\ \A q \in DOMAIN plans \ {p} : plans'[q] = plans[q]
  BY <1>1, LooseStep
<1>3. WorkKept(H)
  BY <1>1, <1>2, WorkIsKept
<1>4. act[H].pc = "chat" => P(H) \in DOMAIN plans
  BY <1>1, ActorNames DEF ActorsOK, Stands, P
<1>5. NotesOK'
  BY <1>2, NotesUntouched
<1>. QED  BY <1>1, <1>2, <1>3, <1>4, <1>5, NobodyMoves DEF lockVars

(* prepare_plan_human_decision                                              *)
LEMMA DecisionPrepared ==
    ASSUME NavInv, NEW p \in DOMAIN plans, PrepareDecision(p)
    PROVE  NavInv'
<1>. DEFINE i == CurrentStep(p)
<1>1. /\ act[H].pc = "idle" /\ i # 0 /\ Kind(p, i) = "human"
      /\ UNCHANGED <<lockVars, act, notes, chat, ran>>
      /\ MarkWaitingUser(p, i) \/ AnchorRecovery(p, i) \/ MarkNeedsReplan(p)
  BY DEF PrepareDecision
<1>2. PlansOK /\ LiveOK /\ ChatsOK /\ i \in Steps(p)
  BY <1>1, NavParts, CurrentStepIn
<1>. HIDE DEF i
<1>3. CASE MarkWaitingUser(p, i) \/ MarkNeedsReplan(p)
  <2>1. ASSUME MarkWaitingUser(p, i) PROVE Gentle(p)
    BY <1>1, <1>2, <2>1, HumanWaits
  <2>2. ASSUME MarkNeedsReplan(p) PROVE Gentle(p)
    BY <1>2, <2>2, GivenUp DEF MarkNeedsReplan, Replannable
  <2>3. Gentle(p)
    BY <1>3, <2>1, <2>2
  <2>4. Soft /\ AllWork
    BY <1>2, <2>3, GentleStep
  <2>5. NotesOK'
    BY <1>1, <2>4, NotesUntouched DEF Soft
  <2>. QED  BY <1>1, <2>4, <2>5, StillStep DEF lockVars
<1>4. CASE AnchorRecovery(p, i)
  <2>1. Loose(p)
    BY <1>2, <1>4, HandMoves
  <2>. QED  BY <1>1, <2>1, LooseStill
<1>. QED  BY <1>1, <1>3, <1>4

(* A decision was consumed once or not at all.                              *)
LEMMA ChatCount ==
    ASSUME PlansOK, ChatsOK, NEW p \in DOMAIN plans
    PROVE  chat[p] \in {0, 1} /\ (Consumed(p) <=> chat[p] = 1) /\ p \in 1 .. MaxPlans
<1>1. p \in 1 .. MaxPlans
  BY SequenceDomain, PlansAssumption DEF PlansOK
<1>2. chat[p] \in {0, 1}
  BY <1>1 DEF ChatsOK
<1>. QED  BY <1>1, <1>2 DEF Consumed

(* submit_human_decision for a decision that was delivered or consumed      *)
LEMMA SubmittedAgain ==
    ASSUME NavInv, NEW p \in DOMAIN plans, SubmitAgain(p)
    PROVE  NavInv'
<1>1. /\ UNCHANGED <<lockVars, execVars>>
      /\ \/ act[H].pc = "idle" /\ Acknowledge(p)
         \/ Consumed(p) /\ MarkConsumed(p)
         \/ NeedsRecovery(p)
  BY DEF SubmitAgain
<1>2. PlansOK /\ LiveOK /\ ChatsOK /\ HumanOK
  BY NavParts
<1>3. chat[p] \in {0, 1} /\ (Consumed(p) <=> chat[p] = 1)
  BY <1>2, ChatCount
<1>4. Loose(p)
  BY <1>1, <1>2, <1>3, HandMoves
<1>5. act[H].pc = "chat" => P(H) # p \/ plans'[p].hand.del \in InDelivery
  <2>1. act[H].pc = "chat" /\ P(H) = p => chat[p] = 0
    BY <1>2 DEF HumanOK
  <2>2. NeedsRecovery(p) => plans'[p].hand.del \in InDelivery
    BY <1>2, HandMoves DEF InDelivery
  <2>. QED  BY <1>1, <1>3, <2>1, <2>2
<1>. QED  BY <1>1, <1>4, <1>5, LooseStill DEF execVars

(* The lease of a delivery runs out.                                        *)
LEMMA LeaseRunOut ==
    ASSUME NavInv, NEW p \in DOMAIN plans, LeaseRunsOut(p)
    PROVE  NavInv'
<1>. DEFINE h == [plans[p].hand EXCEPT !.del = "expired"]
<1>1. SetHand(p, h) /\ act' = act /\ UNCHANGED <<lockVars, notes, chat, ran>>
  BY DEF LeaseRunsOut
<1>2a. PlansOK
  BY NavParts
<1>2b. plans[p].hand = [st |-> plans[p].hand.st, del |-> plans[p].hand.del]
  BY <1>2a DEF PlansOK, IsPlan
<1>2. PlansOK /\ h = [st |-> plans[p].hand.st, del |-> "expired"]
  BY ONLY <1>2a, <1>2b
<1>. HIDE DEF h
<1>3. plans[p].hand.del = "delivering"
  BY DEF LeaseRunsOut
<1>4. chat[p] = 1 => DecidedRow(plans[p])
  BY <1>2a, NavParts DEF ChatsOK, HandRow
<1>5. Loose(p) /\ plans'[p].hand.del = "expired"
  BY <1>1, <1>2, <1>4, HandWritten
<1>6. plans'[p].hand.del \in InDelivery
  BY <1>5 DEF InDelivery
<1>. QED  BY <1>1, <1>5, <1>6, LooseStill

(* Only the human decision moves.                                           *)
LEMMA HumanMoves ==
    ASSUME NavInv, NEW a, act' = [act EXCEPT ![H] = a], Stands(H, a, plans), TableStep,
           DecisionsKept, AllWork, UNCHANGED <<lockVars, notes, chat, ran>>, HumanOK'
    PROVE  NavInv'
<1>1. PlansOK /\ ActorsOK /\ NotesOK /\ LockOK
  BY NavParts
<1>2. Others(H) /\ act'[H] = a
  BY <1>1, OneMoved, ActorNames
<1>3. Stands(H, act'[H], plans')
  BY <1>1, <1>2, StandsStill
<1>4. LockKept(H)
  BY <1>1, ActorNames, LockUntouched
<1>5. NotesOK'
  BY <1>1, <1>2, ActorNames, NotesStayOK DEF Others
<1>6. WorkKept(H)
  BY <1>1, WorkIsKept
<1>. QED  BY <1>2, <1>3, <1>4, <1>5, <1>6, ActorNames, ActorMoves

(* The record of an actor, without what is not looked at.                   *)
Actor(a, pc, p, i, to) == IsActor(a) /\ a.pc = pc /\ a.p = p /\ a.i = i /\ a.to = to

(* An actor with one field replaced: its place,                             *)
LEMMA PcPut ==
    ASSUME NEW a, NEW pc, NEW p, NEW i, NEW to, NEW x, Actor(a, pc, p, i, to)
    PROVE  Actor([a EXCEPT !.pc = x], x, p, i, to)
BY DEF Actor, IsActor

(* its plan,                                                                *)
LEMMA PlanPut ==
    ASSUME NEW a, NEW pc, NEW p, NEW i, NEW to, NEW x, Actor(a, pc, p, i, to)
    PROVE  Actor([a EXCEPT !.p = x], pc, x, i, to)
BY DEF Actor, IsActor

(* its step,                                                                *)
LEMMA NumberPut ==
    ASSUME NEW a, NEW pc, NEW p, NEW i, NEW to, NEW x, Actor(a, pc, p, i, to)
    PROVE  Actor([a EXCEPT !.i = x], pc, p, x, to)
BY DEF Actor, IsActor

(* its result.                                                              *)
LEMMA ToPut ==
    ASSUME NEW a, NEW pc, NEW p, NEW i, NEW to, NEW x, Actor(a, pc, p, i, to)
    PROVE  Actor([a EXCEPT !.to = x], pc, p, i, x)
BY DEF Actor, IsActor

(* The records of actors that start.                                        *)
LEMMA Started ==
    ASSUME NEW pc, NEW p, NEW i, NEW to
    PROVE  /\ Actor([Idle EXCEPT !.pc = pc, !.p = p], pc, p, 0, "none")
           /\ Actor([Idle EXCEPT !.pc = pc, !.p = p, !.i = i], pc, p, i, "none")
           /\ Actor([Idle EXCEPT !.pc = pc, !.p = p, !.to = to], pc, p, 0, to)
           /\ Actor([Idle EXCEPT !.pc = pc, !.p = p, !.i = i, !.to = to], pc, p, i, to)
           /\ Actor([Idle EXCEPT !.p = p, !.i = i, !.to = to, !.pc = pc], pc, p, i, to)
<1>. DEFINE k == [Idle EXCEPT !.pc = pc]
            m == [k EXCEPT !.p = p]
            n == [m EXCEPT !.i = i]
            u == [Idle EXCEPT !.p = p]
            v == [u EXCEPT !.i = i]
            w == [v EXCEPT !.to = to]
<1>1. Actor(Idle, "idle", 0, 0, "none")
  BY DEF Idle, Actor, IsActor
<1>2. Actor(k, pc, 0, 0, "none")
  BY <1>1, PcPut
<1>3. Actor(u, "idle", p, 0, "none")
  BY <1>1, PlanPut
<1>. HIDE DEF k, u
<1>4. Actor(m, pc, p, 0, "none")
  BY <1>2, PlanPut
<1>5. Actor(v, "idle", p, i, "none")
  BY <1>3, NumberPut
<1>. HIDE DEF m, v
<1>6. Actor(n, pc, p, i, "none")
  BY <1>4, NumberPut
<1>7. Actor(w, "idle", p, i, to)
  BY <1>5, ToPut
<1>. HIDE DEF n, w
<1>8. Actor([m EXCEPT !.to = to], pc, p, 0, to)
  BY <1>4, ToPut
<1>9. Actor([n EXCEPT !.to = to], pc, p, i, to)
  BY <1>6, ToPut
<1>10. Actor([w EXCEPT !.pc = pc], pc, p, i, to)
  BY <1>7, PcPut
<1>11. [Idle EXCEPT !.pc = pc, !.p = p] = m
  BY DEF m, k
<1>12. [Idle EXCEPT !.pc = pc, !.p = p, !.i = i] = n
  BY DEF n, m, k
<1>13. [Idle EXCEPT !.pc = pc, !.p = p, !.to = to] = [m EXCEPT !.to = to]
  BY DEF m, k
<1>14. [Idle EXCEPT !.pc = pc, !.p = p, !.i = i, !.to = to] = [n EXCEPT !.to = to]
  BY DEF n, m, k
<1>15. [Idle EXCEPT !.p = p, !.i = i, !.to = to, !.pc = pc] = [w EXCEPT !.pc = pc]
  BY DEF w, v, u
<1>. QED  BY <1>4, <1>6, <1>8, <1>9, <1>10, <1>11, <1>12, <1>13, <1>14, <1>15

(* submit_human_decision for a new decision                                 *)
LEMMA DecisionSubmitted ==
    ASSUME NavInv, NEW p \in DOMAIN plans, NEW choice, SubmitDecision(p, choice)
    PROVE  NavInv'
<1>. DEFINE i == CurrentStep(p)
            a == [Idle EXCEPT !.pc = "read", !.p = p, !.i = i]
<1>1. /\ i # 0 /\ Kind(p, i) = "human" /\ StageDecision(p, i, choice)
      /\ act' = [act EXCEPT ![H] = a] /\ UNCHANGED <<lockVars, notes, chat, ran>>
  BY DEF SubmitDecision
<1>2. PlansOK /\ ActorsOK /\ i \in Steps(p)
  BY <1>1, NavParts, CurrentStepIn
<1>. HIDE DEF i
<1>3. TableStep /\ DecisionsKept /\ AllWork
  BY <1>1, <1>2, DecisionStaged, LooseStep
<1>4a. Actor(a, "read", p, i, "none")
  BY ONLY Started, Zenon
<1>. HIDE DEF a
<1>4. IsActor(a) /\ a.pc = "read" /\ a.p = p /\ a.i = i
  BY <1>4a DEF Actor
<1>5. Stands(H, a, plans)
  BY <1>1, <1>2, <1>4, ActorNames DEF Stands, Places, StepKind, Kind, Steps
<1>6. HumanOK'
  BY <1>1, <1>2, <1>4, OneMoved, ActorNames DEF HumanOK
<1>. QED  BY <1>1, <1>3, <1>5, <1>6, HumanMoves

(* H leaves after writing the handoff or nothing.                           *)
LEMMA HumanLeaves ==
    ASSUME NavInv, Leave(H), TableStep, DecisionsKept, AllWork, UNCHANGED <<lockVars, notes, chat, ran>>
    PROVE  NavInv'
<1>1. act' = [act EXCEPT ![H] = Idle] /\ Stands(H, Idle, plans)
  BY IdleStands DEF Leave
<1>2. HumanOK'
  BY <1>1, NavParts, OneMoved, ActorNames, IdleStands DEF HumanOK
<1>. QED  BY <1>1, <1>2, HumanMoves

(* submit_human_decision for a decision that waits for its delivery         *)
LEMMA DecisionResubmitted ==
    ASSUME NavInv, NEW p \in DOMAIN plans, ResubmitDecision(p)
    PROVE  NavInv'
<1>1. PICK i \in Steps(p) :
         /\ Kind(p, i) = "human"
         /\ act' = [act EXCEPT ![H] =
                IF plans[p].box[i] # NoBox THEN [Idle EXCEPT !.pc = "read", !.p = p, !.i = i]
                ELSE IF plans[p].hand.st = "pending"
                THEN [Idle EXCEPT !.pc = "deliver", !.p = p] ELSE Idle]
  BY DEF ResubmitDecision
<1>2. /\ plans' = plans /\ UNCHANGED <<lockVars, notes, chat, ran>>
  BY DEF ResubmitDecision, planVars
<1>3. PlansOK /\ ActorsOK /\ ChatsOK
  BY NavParts
<1>4. TableStep /\ DecisionsKept /\ AllWork
  BY <1>2, <1>3, NothingStored DEF Soft
<1>7. CASE plans[p].box[i] = NoBox /\ plans[p].hand.st # "pending"
  <2>1. Leave(H)
    BY <1>1, <1>7 DEF Leave
  <2>. QED  BY <1>2, <1>4, <2>1, HumanLeaves
<1>5. CASE plans[p].box[i] = NoBox /\ plans[p].hand.st = "pending"
  <2>. DEFINE a == [Idle EXCEPT !.pc = "deliver", !.p = p]
  <2>1a. Actor(a, "deliver", p, 0, "none")
    BY ONLY Started, Zenon
  <2>2. act' = [act EXCEPT ![H] = a]
    BY <1>1, <1>5
  <2>. HIDE DEF a
  <2>1. IsActor(a) /\ a.pc = "deliver" /\ a.p = p
    BY <2>1a DEF Actor
  <2>3. Stands(H, a, plans)
    BY <2>1, ActorNames DEF Stands, Places, OnPlan
  <2>4. DecidedRow(plans[p])
    BY <1>1, <1>2, <1>3, <1>5 DEF ChatsOK, HandRow, Human, Kind, Steps
  <2>5. HumanOK'
    BY <1>2, <1>3, <2>1, <2>2, <2>4, OneMoved, ActorNames DEF HumanOK, P
  <2>. QED  BY <1>2, <1>4, <2>2, <2>3, <2>5, HumanMoves
<1>6. CASE plans[p].box[i] # NoBox
  <2>. DEFINE a == [Idle EXCEPT !.pc = "read", !.p = p, !.i = i]
  <2>1a. Actor(a, "read", p, i, "none")
    BY ONLY Started, Zenon
  <2>2. act' = [act EXCEPT ![H] = a]
    BY <1>1, <1>6
  <2>. HIDE DEF a
  <2>1. IsActor(a) /\ a.pc = "read" /\ a.p = p /\ a.i = i
    BY <2>1a DEF Actor
  <2>3. Stands(H, a, plans)
    BY <1>1, <2>1, ActorNames DEF Stands, Places, StepKind, Kind, Steps
  <2>4. HumanOK'
    BY <1>3, <2>1, <2>2, OneMoved, ActorNames DEF HumanOK
  <2>. QED  BY <1>2, <1>4, <2>2, <2>3, <2>4, HumanMoves
<1>. QED  BY <1>5, <1>6, <1>7

(* An actor at work keeps its row when it moves on.                         *)
LEMMA WentTo ==
    ASSUME ActorsOK, NEW x \in Actors, NEW pc, Goto(x, pc)
    PROVE  \E a : /\ act' = [act EXCEPT ![x] = a] /\ IsActor(a) /\ a.pc = pc
                  /\ a.p = P(x) /\ a.i = I(x) /\ a.to = act[x].to
<1>. DEFINE a == [act[x] EXCEPT !.pc = pc]
<1>1. act' = [act EXCEPT ![x] = a]
  BY DEF Goto
<1>2. IsActor(act[x])
  BY DEF ActorsOK, Stands
<1>3. IsActor(a) /\ a.pc = pc /\ a.p = P(x) /\ a.i = I(x) /\ a.to = act[x].to
  BY <1>2 DEF IsActor, P, I
<1>. HIDE DEF a
<1>. QED  BY <1>1, <1>3

(* claim_human_decision_delivery: only an undelivered decision, never a     *)
(* consumed one.                                                            *)
LEMMA DecisionDelivers ==
    ASSUME NavInv, DeliverDecision
    PROVE  NavInv'
<1>. DEFINE p == P(H)
<1>1. act[H].pc = "deliver" /\ UNCHANGED <<lockVars, notes, chat, ran>>
  BY DEF DeliverDecision, At
<1>2. PlansOK /\ LiveOK /\ ActorsOK /\ ChatsOK /\ HumanOK
  BY NavParts
<1>3. p \in DOMAIN plans
  BY <1>1, <1>2, ActorNames DEF ActorsOK, Stands, P
<1>4. CASE ClaimDelivery(p) /\ Goto(H, "chat")
  <2>1. Loose(p) /\ plans'[p].hand.del = "delivering"
    BY <1>2, <1>3, <1>4, HandMoves
  <2>2. TableStep /\ DecisionsKept /\ AllWork
    BY <1>2, <1>3, <2>1, LooseStep
  <2>3. PICK a : act' = [act EXCEPT ![H] = a] /\ IsActor(a) /\ a.pc = "chat" /\ a.p = p
    BY <1>2, <1>4, WentTo, ActorNames
  <2>4. Stands(H, a, plans)
    BY <1>3, <2>3, ActorNames DEF Stands, Places, OnPlan
  <2>5. chat[p] = 0
    BY <1>2, <1>3, <1>4, ChatCount DEF ChatsOK, HandRow, ClaimDelivery, Deliverable
  <2>6. DecidedRow(plans'[p])
    BY <1>1, <1>2, <1>3, <2>2 DEF HumanOK, DecisionsKept, KeepsDecision, ChatsOK
  <2>7. act'[H].pc = "chat" /\ act'[H].p = p
    BY <1>2, <2>3, OneMoved, ActorNames
  <2>8. HumanOK'
    BY <1>1, <2>1, <2>5, <2>6, <2>7 DEF HumanOK, InDelivery, P
  <2>. QED  BY <1>1, <2>2, <2>3, <2>4, <2>8, HumanMoves
<1>5. CASE NeedsRecovery(p) /\ Leave(H)
  <2>1. Loose(p)
    BY <1>2, <1>3, <1>5, HandMoves
  <2>. QED  BY <1>1, <1>2, <1>3, <1>5, <2>1, LooseStep, HumanLeaves
<1>6. CASE Leave(H) /\ plans' = plans
  BY <1>1, <1>2, <1>6, NothingStored, HumanLeaves DEF Soft
<1>. QED  BY <1>4, <1>5, <1>6 DEF DeliverDecision, planVars

(* The agent consumes the decision in delivery, for the first time.         *)
LEMMA DecisionConsumed ==
    ASSUME NavInv, ChatConsumes
    PROVE  NavInv'
<1>. DEFINE p == P(H)
<1>1. /\ act[H].pc = "chat" /\ plans' = plans /\ UNCHANGED <<lockVars, notes, ran>>
      /\ Goto(H, "settle") /\ chat' = [chat EXCEPT ![p] = IF @ < 2 THEN @ + 1 ELSE @]
  BY DEF ChatConsumes, At, planVars
<1>2. /\ PlansOK /\ LiveOK /\ ActorsOK /\ NotesOK /\ LockOK /\ RanOK
      /\ GivenUpMeansDead /\ ChatsOK /\ HumanOK
  BY NavParts
<1>3. p \in DOMAIN plans
  BY <1>1, <1>2, ActorNames DEF ActorsOK, Stands, P
<1>4. chat[p] = 0 /\ p \in 1 .. MaxPlans /\ DecidedRow(plans[p]) /\ plans[p].hand.del # "none"
  BY <1>1, <1>2, <1>3, ChatCount DEF HumanOK, InDelivery
<1>5. chat' = [chat EXCEPT ![p] = 1]
  BY <1>1, <1>2, <1>4 DEF ChatsOK
<1>6. PICK a : act' = [act EXCEPT ![H] = a] /\ IsActor(a) /\ a.pc = "settle" /\ a.p = p
  BY <1>1, <1>2, WentTo, ActorNames
<1>. HIDE DEF p
<1>7. HandRow(1, plans[p])
  <2>1. HandRow(0, plans[p])
    BY <1>2, <1>3, <1>4 DEF ChatsOK
  <2>. QED  BY <1>4, <2>1 DEF HandRow
<1>8. ChatsOK'
  <2>1. /\ chat' = [q \in 1 .. MaxPlans |-> chat'[q]] /\ chat'[p] = 1
        /\ \A q \in (1 .. MaxPlans) \ {p} : chat'[q] = chat[q]
    BY <1>2, <1>4, <1>5 DEF ChatsOK
  <2>2. ASSUME NEW q \in DOMAIN plans PROVE HandRow(chat'[q], plans'[q])
    <3>1. q \in 1 .. MaxPlans
      BY <1>2, ChatCount
    <3>. QED  BY <1>1, <1>2, <1>7, <2>1, <3>1 DEF ChatsOK
  <2>. QED  BY <1>1, <1>2, <1>3, <2>1, <2>2 DEF ChatsOK
<1>9. Others(H) /\ act'[H] = a
  BY <1>2, <1>6, OneMoved, ActorNames
<1>10. Soft /\ AllWork
  BY <1>1, <1>2, NothingStored
<1>11. Stands(H, act'[H], plans')
  BY <1>1, <1>3, <1>6, <1>9, ActorNames DEF Stands, Places, OnPlan
<1>12. LockKept(H)
  BY <1>1, <1>2, ActorNames, LockUntouched
<1>13. NotesOK'
  BY <1>1, <1>2, <1>9, <1>10, ActorNames, NotesStayOK DEF Others, Soft
<1>14. WorkKept(H)
  BY <1>2, <1>10, WorkIsKept
<1>15. HumanOK'
  BY <1>6, <1>9 DEF HumanOK
<1>16. PlansOK' /\ LiveOK' /\ ActorsOK'
  BY <1>2, <1>9, <1>10, <1>11, ActorNames, TableKept, ActorsKept DEF Soft
<1>17. LockOK' /\ RanOK' /\ GivenUpMeansDead'
  BY <1>1, <1>2, <1>9, <1>10, <1>12, <1>14, ActorNames, LockStaysOK, RanStaysOK, GivenUpStaysDead
     DEF Soft
<1>. QED  BY <1>8, <1>13, <1>15, <1>16, <1>17 DEF NavInv

(* The agent run fails or is cancelled.                                     *)
LEMMA ChatFailed ==
    ASSUME NavInv, ChatFails
    PROVE  NavInv'
<1>1. /\ act[H].pc = "chat" /\ plans' = plans /\ UNCHANGED <<lockVars, notes, chat, ran>>
      /\ Goto(H, "settle") \/ Leave(H)
  BY DEF ChatFails, At, planVars
<1>2. PlansOK /\ ActorsOK
  BY NavParts
<1>3. TableStep /\ DecisionsKept /\ AllWork
  BY <1>1, <1>2, NothingStored DEF Soft
<1>4. CASE Leave(H)
  BY <1>1, <1>3, <1>4, HumanLeaves
<1>5. CASE Goto(H, "settle")
  <2>1. PICK a : act' = [act EXCEPT ![H] = a] /\ IsActor(a) /\ a.pc = "settle" /\ a.p = P(H)
    BY <1>2, <1>5, WentTo, ActorNames
  <2>2. P(H) \in DOMAIN plans
    BY <1>1, <1>2, ActorNames DEF ActorsOK, Stands, P
  <2>3. Stands(H, a, plans)
    BY <2>1, <2>2, ActorNames DEF Stands, Places, OnPlan
  <2>4. HumanOK'
    BY <1>2, <2>1, OneMoved, ActorNames DEF HumanOK
  <2>. QED  BY <1>1, <1>3, <2>1, <2>3, <2>4, HumanMoves
<1>. QED  BY <1>1, <1>4, <1>5

(* run_with_claim after the agent run                                       *)
LEMMA DeliverySettled ==
    ASSUME NavInv, DeliverySettles
    PROVE  NavInv'
<1>. DEFINE p == P(H)
<1>1. act[H].pc = "settle" /\ UNCHANGED <<lockVars, notes, chat, ran>>
  BY DEF DeliverySettles, At
<1>2. PlansOK /\ LiveOK /\ ActorsOK /\ ChatsOK
  BY NavParts
<1>3. p \in DOMAIN plans
  BY <1>1, <1>2, ActorNames DEF ActorsOK, Stands, P
<1>4. chat[p] \in {0, 1} /\ (Consumed(p) <=> chat[p] = 1)
  BY <1>2, <1>3, ChatCount
<1>5. \/ Leave(H) /\ chat[p] = 0 /\ (FinishDelivery(p, FALSE) \/ NeedsRecovery(p))
      \/ Leave(H) /\ Acknowledge(p)
      \/ Leave(H) /\ plans' = plans
      \/ act' = act /\ chat[p] = 1 /\ (FinishDelivery(p, TRUE) \/ MarkConsumed(p))
  BY <1>4 DEF DeliverySettles, planVars
<1>. HIDE DEF p
<1>6. plans' = plans \/ Loose(p)
  BY <1>2, <1>3, <1>5, HandMoves
<1>7. TableStep /\ DecisionsKept /\ AllWork
  BY <1>2, <1>3, <1>6, LooseStep, NothingStored DEF Soft
<1>8. CASE Leave(H)
  BY <1>1, <1>7, <1>8, HumanLeaves
<1>9. CASE act' = act /\ Loose(p)
  BY <1>1, <1>3, <1>9, LooseStill
<1>10. act' = act => Loose(p) \/ Leave(H)
  BY <1>2, <1>3, <1>5, HandMoves
<1>. QED  BY <1>5, <1>8, <1>9, <1>10

----------------------------------------------------------------------------
(* Leaving, going on, and the result that every actor finalizes.            *)
LEMMA ActorReturns ==
    ASSUME NavInv, NEW x \in Actors, Return(x) \/ (Leave(x) /\ UNCHANGED lockVars), TableStep,
           DecisionsKept, WorkKept(x), x = H \/ DelKept, UNCHANGED <<notes, chat, ran>>
    PROVE  NavInv'
<1>1. ActorsOK /\ LockOK
  BY NavParts
<1>2. act' = [act EXCEPT ![x] = Idle]
  BY DEF Return, Leave
<1>3. act'[x].pc = "idle"
  BY <1>1, <1>2, OneMoved, IdleStands
<1>4. LockKept(x)
  BY <1>1, <1>3, Returned, LockUntouched
<1>. QED  BY <1>2, <1>4, IdleStands, ActorGoes

(* An actor goes to another place of the step it is in.                     *)
LEMMA ActorGoesOn ==
    ASSUME NavInv, NEW x \in Actors, NEW a, act' = [act EXCEPT ![x] = a], IsActor(a),
           a.p = P(x), a.i = I(x), a.pc \in Places(x) \ {"lock", "run", "stage", "deliver", "chat"},
           act[x].pc \notin OnPlan \cup {"idle"}, x \in Invokers => act[x].pc # "lock",
           UNCHANGED lockVars, Soft, WorkKept(x), UNCHANGED <<notes, chat, ran>>
    PROVE  NavInv'
<1>1. ActorsOK /\ LockOK
  BY NavParts
<1>2. Stands(x, a, plans)
  <2>1. Stands(x, act[x], plans)
    BY <1>1 DEF ActorsOK
  <2>. QED  BY <2>1 DEF Stands, P, I
<1>3. act'[x] = a
  BY <1>1, OneMoved
<1>4. LockKept(x)
  BY <1>1, <1>3, LockUntouched
<1>. QED  BY <1>2, <1>4, ActorGoes DEF Soft, OnPlan

(* A tool inside the lock is alone.                                         *)
LEMMA AloneInLock ==
    ASSUME LockOK, NEW x \in Invokers, act[x].pc \notin {"idle", "lock"}
    PROVE  WorkKept(x) /\ \A y \in Invokers \ {x} : act[y].pc \in {"idle", "lock"}
<1>1. holder = HeldBy(x)
  BY DEF LockOK
<1>2. ASSUME NEW y \in Invokers \ {x} PROVE act[y].pc \in {"idle", "lock"}
  BY <1>1, <1>2 DEF LockOK, HeldBy
<1>. QED  BY <1>2 DEF WorkKept

(* An actor that moves on changes its place and one other field.            *)
LEMMA FieldsPut ==
    ASSUME NEW u, IsActor(u), NEW pc, NEW to, NEW w
    PROVE  /\ Actor([[u EXCEPT !.to = to] EXCEPT !.pc = pc], pc, u.p, u.i, to)
           /\ Actor([[u EXCEPT !.pc = pc] EXCEPT !.to = to], pc, u.p, u.i, to)
           /\ Actor([[u EXCEPT !.pc = pc] EXCEPT !.wrote = w], pc, u.p, u.i, u.to)
<1>. DEFINE m == [u EXCEPT !.to = to]
            n == [u EXCEPT !.pc = pc]
<1>1. Actor(u, u.pc, u.p, u.i, u.to)
  BY DEF Actor
<1>2. Actor(m, u.pc, u.p, u.i, to) /\ Actor(n, pc, u.p, u.i, u.to)
  BY <1>1, ToPut, PcPut
<1>. HIDE DEF m, n
<1>3. Actor([m EXCEPT !.pc = pc], pc, u.p, u.i, to)
  BY <1>2, PcPut
<1>4. Actor([n EXCEPT !.to = to], pc, u.p, u.i, to)
  BY <1>2, ToPut
<1>5. Actor([n EXCEPT !.wrote = w], pc, u.p, u.i, u.to)
  BY <1>2 DEF Actor, IsActor
<1>. QED  BY <1>3, <1>4, <1>5 DEF m, n

(* The record of an actor.                                                  *)
LEMMA IsAt ==
    ASSUME ActorsOK, NEW x \in Actors
    PROVE  IsActor(act[x]) /\ act[x].p = P(x) /\ act[x].i = I(x)
BY DEF ActorsOK, Stands, P, I

(* The places of the last steps belong to everyone.                         *)
LEMMA CommonPlaces ==
    ASSUME NEW x
    PROVE  {"read", "write", "attach", "final"} \subseteq
               Places(x) \ {"lock", "run", "stage", "deliver", "chat"}
BY DEF Places

(* A step of x that writes no row.                                          *)
LEMMA NoRowWritten ==
    ASSUME NavInv, NEW x \in Actors, plans' = plans
    PROVE  Soft /\ WorkKept(x)
BY NavParts, NothingStored, WorkIsKept

(* _finalize_staged_result reads the row,                                   *)
LEMMA ResultRead ==
    ASSUME NavInv, NEW x \in Actors, ReadStaged(x)
    PROVE  NavInv'
<1>. DEFINE b == plans[P(x)].box[I(x)]
            pc == IF Evidence(P(x), I(x), b.to) \in evid THEN "attach" ELSE "write"
            to == b.to
<1>1. /\ act[x].pc = "read" /\ plans' = plans /\ UNCHANGED <<notes, chat, ran>>
      /\ \/ Return(x)
         \/ act' = [act EXCEPT ![x].to = to, ![x].pc = pc] /\ UNCHANGED lockVars
  BY DEF ReadStaged, At, planVars
<1>2. Soft /\ WorkKept(x)
  BY <1>1, NoRowWritten
<1>3. CASE Return(x)
  BY <1>1, <1>2, <1>3, ActorReturns DEF Soft
<1>5. ActorsOK
  BY NavParts
<1>4. CASE act' = [act EXCEPT ![x].to = to, ![x].pc = pc] /\ UNCHANGED lockVars
  <2>. DEFINE u == act[x]
              a == [[u EXCEPT !.to = to] EXCEPT !.pc = pc]
  <2>0. pc \in {"write", "attach"}
    OBVIOUS
  <2>3. IsActor(u) /\ u.p = P(x) /\ u.i = I(x)
    BY <1>5, IsAt
  <2>. HIDE DEF pc, to
  <2>4. act' = [act EXCEPT ![x] = a]
    BY <1>4
  <2>. HIDE DEF u
  <2>5. Actor(a, pc, u.p, u.i, to)
    BY ONLY <2>3, FieldsPut, Zenon
  <2>. HIDE DEF a
  <2>1. act' = [act EXCEPT ![x] = a] /\ IsActor(a) /\ a.pc = pc /\ a.p = P(x) /\ a.i = I(x)
    BY <2>3, <2>4, <2>5 DEF Actor
  <2>2. a.pc \in Places(x) \ {"lock", "run", "stage", "deliver", "chat"}
    BY <2>0, <2>1, CommonPlaces
  <2>. QED  BY <1>1, <1>2, <1>4, <2>1, <2>2, ActorGoesOn DEF OnPlan
<1>. QED  BY <1>1, <1>3, <1>4

(* writes the evidence,                                                     *)
LEMMA EvidenceWritten ==
    ASSUME NavInv, NEW x \in Actors, WriteEvidence(x)
    PROVE  NavInv'
<1>. DEFINE true == TRUE
<1>1. /\ act[x].pc = "write" /\ plans' = plans /\ UNCHANGED <<notes, chat, ran>>
      /\ \/ Return(x)
         \/ act' = [act EXCEPT ![x].pc = "attach", ![x].wrote = true] /\ UNCHANGED lockVars
  BY DEF WriteEvidence, At, planVars
<1>2. Soft /\ WorkKept(x)
  BY <1>1, NoRowWritten
<1>3. CASE Return(x)
  BY <1>1, <1>2, <1>3, ActorReturns DEF Soft
<1>5. ActorsOK
  BY NavParts
<1>4. CASE act' = [act EXCEPT ![x].pc = "attach", ![x].wrote = true] /\ UNCHANGED lockVars
  <2>. HIDE DEF true
  <2>. DEFINE u == act[x]
              a == [[u EXCEPT !.pc = "attach"] EXCEPT !.wrote = true]
  <2>3. IsActor(u) /\ u.p = P(x) /\ u.i = I(x)
    BY <1>5, IsAt
  <2>4. act' = [act EXCEPT ![x] = a]
    BY <1>4
  <2>. HIDE DEF u
  <2>5. Actor(a, "attach", u.p, u.i, u.to)
    BY ONLY <2>3, FieldsPut, Zenon
  <2>. HIDE DEF a
  <2>1. act' = [act EXCEPT ![x] = a] /\ IsActor(a) /\ a.pc = "attach" /\ a.p = P(x) /\ a.i = I(x)
    BY <2>3, <2>4, <2>5 DEF Actor
  <2>2. a.pc \in Places(x) \ {"lock", "run", "stage", "deliver", "chat"}
    BY <2>1, CommonPlaces
  <2>. QED  BY <1>1, <1>2, <1>4, <2>1, <2>2, ActorGoesOn DEF OnPlan
<1>. QED  BY <1>1, <1>3, <1>4

(* and looks at the row again.                                              *)
LEMMA EvidenceAttached ==
    ASSUME NavInv, NEW x \in Actors, AttachEvidence(x)
    PROVE  NavInv'
<1>1. /\ act[x].pc = "attach" /\ plans' = plans /\ UNCHANGED <<notes, chat, ran>>
      /\ Return(x) \/ (Goto(x, "final") /\ UNCHANGED lockVars)
  BY DEF AttachEvidence, At, planVars
<1>2. Soft /\ WorkKept(x)
  BY <1>1, NoRowWritten
<1>3. CASE Return(x)
  BY <1>1, <1>2, <1>3, ActorReturns DEF Soft
<1>4. CASE Goto(x, "final") /\ UNCHANGED lockVars
  <2>1. PICK a : act' = [act EXCEPT ![x] = a] /\ IsActor(a) /\ a.pc = "final" /\ a.p = P(x) /\ a.i = I(x)
    BY <1>4, NavParts, WentTo
  <2>2. a.pc \in Places(x) \ {"lock", "run", "stage", "deliver", "chat"}
    BY <2>1, CommonPlaces
  <2>. QED  BY <1>1, <1>2, <1>4, <2>1, <2>2, ActorGoesOn DEF OnPlan
<1>. QED  BY <1>1, <1>3, <1>4

(* The row an actor works on, once it is inside its step.                   *)
LEMMA WorksOn ==
    ASSUME ActorsOK, NEW x \in Actors, act[x].pc \notin OnPlan \cup {"idle"}
    PROVE  P(x) \in DOMAIN plans /\ I(x) \in Steps(P(x)) /\ Kind(P(x), I(x)) = StepKind(x)
BY DEF ActorsOK, Stands, P, I, Steps, Kind

(* Writing the row of one's own step disturbs no other tool's work.         *)
LEMMA OwnRow ==
    ASSUME NavInv, NEW x \in Actors, NEW p \in DOMAIN plans, Firm(p),
           x \notin Invokers => Gentle(p),
           x \in Invokers => act[x].pc \notin {"idle", "lock"}
    PROVE  Soft /\ WorkKept(x)
<1>1. PlansOK /\ ActorsOK /\ LockOK
  BY NavParts
<1>2. Soft
  BY <1>1, FirmStep
<1>3. CASE x \in Invokers
  BY <1>1, <1>2, <1>3, AloneInLock
<1>4. CASE x \notin Invokers
  BY <1>1, <1>2, <1>4, GentleStep, WorkIsKept
<1>. QED  BY <1>3, <1>4

(* Finalize: the result takes effect and the actor returns, or goes on to   *)
(* deliver the decision or to wake the task.                                *)
LEMMA StepFinal ==
    ASSUME NavInv, NEW x \in Actors, act[x].pc = "final", FinalizeStep(P(x), I(x))
    PROVE  /\ Soft /\ WorkKept(x) /\ P(x) \in DOMAIN plans
           /\ x \notin Invokers => AllWork
           /\ x = H => DecidedRow(plans'[P(x)])
<1>. DEFINE p == P(x)
            i == I(x)
<1>1. PlansOK /\ ActorsOK /\ LockOK /\ ChatsOK
  BY NavParts
<1>2. p \in DOMAIN plans /\ i \in Steps(p) /\ Kind(p, i) = StepKind(x)
  BY <1>1, WorksOn DEF OnPlan
<1>3. FinalizeStep(p, i)
  OBVIOUS
<1>. HIDE DEF p, i
<1>4. /\ Firm(p)
      /\ Kind(p, i) # "process" => Gentle(p)
      /\ Kind(p, i) = "human" /\ HandRow(chat[p], plans[p]) => DecidedRow(plans'[p])
  BY <1>1, <1>2, <1>3, Finalized
<1>5. x \notin Invokers => Gentle(p)
  BY <1>2, <1>4 DEF StepKind
<1>6. Soft /\ WorkKept(x)
  BY <1>2, <1>4, <1>5, OwnRow
<1>7. x \notin Invokers => AllWork
  BY <1>1, <1>2, <1>5, GentleStep
<1>8. x = H => DecidedRow(plans'[p])
  BY <1>1, <1>2, <1>4, ActorNames DEF StepKind, ChatsOK
<1>. QED  BY <1>2, <1>6, <1>7, <1>8 DEF p

(* finalize_staged_step, whoever calls it.                                  *)
LEMMA StepFinalized ==
    ASSUME NavInv, NEW x \in Actors, Finalize(x)
    PROVE  NavInv'
<1>1. act[x].pc = "final" /\ UNCHANGED <<notes, chat, ran>>
  BY DEF Finalize, At
<1>2. PlansOK /\ ActorsOK /\ LockOK
  BY NavParts
<1>3. CASE Return(x) /\ plans' = plans
  BY <1>1, <1>3, NoRowWritten, ActorReturns DEF Soft
<1>4. CASE FinalizeStep(P(x), I(x)) /\ Return(x)
  BY <1>1, <1>4, StepFinal, ActorReturns DEF Soft
<1>. DEFINE to == IF x = "human" THEN "none" ELSE act[x].to
            pc == NextAfter(x)
            p == P(x)
            a == [Idle EXCEPT !.pc = pc, !.p = p, !.to = to]
<1>5. CASE /\ FinalizeStep(P(x), I(x)) /\ pc # "idle"
           /\ act' = [act EXCEPT ![x] = a] /\ UNCHANGED lockVars
  <2>1. Soft /\ WorkKept(x) /\ p \in DOMAIN plans
    BY <1>1, <1>5, StepFinal
  <2>0. pc # "idle"
    BY <1>5
  <2>2. (x = H /\ pc = "deliver") \/ (x = C /\ pc = "wake")
    BY ONLY <2>0 DEF NextAfter, H, C
  <2>. HIDE DEF pc, p, to
  <2>3. Actor(a, pc, p, 0, to)
    BY ONLY Started, Zenon
  <2>. HIDE DEF a
  <2>4. IsActor(a) /\ a.pc = pc /\ a.p = p
    BY <2>3 DEF Actor
  <2>5. Stands(x, a, plans)
    BY <2>1, <2>2, <2>4, ActorNames DEF Stands, Places, OnPlan
  <2>6. CASE x = H
    <3>1. AllWork /\ DecidedRow(plans'[p])
      BY <1>1, <1>5, <2>6, StepFinal, ActorNames DEF p
    <3>2. act'[H] = a
      BY <1>2, <1>5, <2>6, OneMoved
    <3>3. HumanOK'
      <4>1. pc = "deliver"
        BY <2>2, <2>6, ActorNames
      <4>. QED  BY <2>4, <3>1, <3>2, <4>1 DEF HumanOK, P
    <3>. QED  BY <1>1, <1>5, <2>1, <2>5, <2>6, <3>1, <3>3, HumanMoves DEF Soft
  <2>7. CASE x = C
    <3>1. a.pc = "wake"
      BY <2>2, <2>4, <2>7, ActorNames
    <3>2. LockKept(x)
      BY <1>2, <1>5, <2>7, ActorNames, LockUntouched
    <3>. QED  BY <1>1, <1>5, <2>1, <2>4, <2>5, <2>7, <3>1, <3>2, ActorGoes DEF Soft, p
  <2>. QED  BY <2>2, <2>6, <2>7
<1>. QED  BY <1>3, <1>4, <1>5 DEF Finalize, planVars

----------------------------------------------------------------------------
(* Processing tools.                                                        *)
LEMMA ToolBegins ==
    ASSUME NavInv, NEW x \in Invokers, NEW p \in DOMAIN plans, ToolStarts(x, p)
    PROVE  NavInv'
<1>. DEFINE i == CurrentStep(p)
            a == [Idle EXCEPT !.pc = "lock", !.p = p, !.i = i]
<1>1. /\ i # 0 /\ Kind(p, i) = "process" /\ act' = [act EXCEPT ![x] = a]
      /\ plans' = plans /\ UNCHANGED <<lockVars, notes, chat, ran>>
  BY DEF ToolStarts, planVars
<1>2. PlansOK /\ ActorsOK /\ LockOK /\ x \in Actors /\ i \in Steps(p)
  BY <1>1, NavParts, CurrentStepIn, ActorNames
<1>. HIDE DEF i
<1>3. Actor(a, "lock", p, i, "none")
  BY ONLY Started, Zenon
<1>. HIDE DEF a
<1>4. IsActor(a) /\ a.pc = "lock" /\ a.p = p /\ a.i = i
  BY <1>3 DEF Actor
<1>5. Stands(x, a, plans)
  BY <1>1, <1>2, <1>4 DEF Stands, Places, StepKind, Kind, Steps
<1>6. act'[x] = a
  BY <1>1, <1>2, OneMoved
<1>7. LockKept(x)
  BY <1>1, <1>2, <1>4, <1>6, LockUntouched
<1>8. Soft /\ WorkKept(x)
  BY <1>1, <1>2, NoRowWritten
<1>. QED  BY <1>1, <1>2, <1>4, <1>5, <1>7, <1>8, ActorGoes, ActorNames DEF Soft

(* navigation_writer_lock lets one tool in.                                 *)
LEMMA ToolEnters ==
    ASSUME NavInv, NEW x \in Invokers, ToolLocks(x)
    PROVE  NavInv'
<1>1. /\ act[x].pc = "lock" /\ plans' = plans /\ UNCHANGED <<notes, chat, ran>>
      /\ (Acquire(x) /\ Goto(x, "gate")) \/ (Refused(x) /\ Leave(x))
  BY DEF ToolLocks, At, planVars
<1>2. PlansOK /\ ActorsOK /\ LockOK /\ x \in Actors
  BY NavParts, ActorNames
<1>3. Soft /\ WorkKept(x)
  BY <1>1, <1>2, NoRowWritten
<1>4. CASE Refused(x) /\ Leave(x)
  BY <1>1, <1>2, <1>3, <1>4, ActorReturns DEF Soft, Refused
<1>5. CASE Acquire(x) /\ Goto(x, "gate")
  <2>1. PICK a : act' = [act EXCEPT ![x] = a] /\ IsActor(a) /\ a.pc = "gate" /\ a.p = P(x) /\ a.i = I(x)
    BY <1>2, <1>5, WentTo
  <2>2. Stands(x, a, plans)
    <3>1. P(x) \in DOMAIN plans /\ I(x) \in Steps(P(x)) /\ Kind(P(x), I(x)) = StepKind(x)
      BY <1>1, <1>2, WorksOn DEF OnPlan
    <3>. QED  BY <2>1, <3>1 DEF Stands, Places, Kind, Steps
  <2>3. holder = Nobody /\ holder' = HeldBy(x)
    BY <1>5 DEF Acquire
  <2>4. LockKept(x)
    BY <2>3, NobodyHolds DEF LockKept
  <2>. QED  BY <1>1, <1>2, <1>3, <2>1, <2>2, <2>4, ActorGoes, ActorNames DEF Soft
<1>. QED  BY <1>1, <1>4, <1>5

(* What a tool inside the lock may do to its row before it returns.         *)
LEMMA ToolReturns ==
    ASSUME NavInv, NEW x \in Invokers, act[x].pc \notin {"idle", "lock"}, Return(x),
           \/ plans' = plans
           \/ RecoverRunningStep(P(x), I(x)) \/ MarkNeedsReplan(P(x))
           \/ TerminalizedNeedsReplan(P(x), I(x)),
           UNCHANGED <<notes, chat, ran>>
    PROVE  NavInv'
<1>1. PlansOK /\ ActorsOK /\ x \in Actors
  BY NavParts, ActorNames
<1>2. act[x].pc \notin OnPlan \cup {"idle"}
  BY <1>1 DEF ActorsOK, Stands, Places, OnPlan
<1>3. P(x) \in DOMAIN plans
  BY <1>1, <1>2, WorksOn
<1>4. CASE plans' = plans
  BY <1>1, <1>4, NoRowWritten, ActorReturns DEF Soft
<1>5. CASE plans' # plans
  <2>1. plans' = Invalidated(P(x)) /\ plans[P(x)].st = "active"
    BY <1>5 DEF RecoverRunningStep, MarkNeedsReplan, TerminalizedNeedsReplan,
                Recoverable, Replannable, Terminalized
  <2>2. Firm(P(x))
    BY <1>1, <1>3, <2>1, GivenUp
  <2>3. Soft /\ WorkKept(x)
    BY <1>1, <1>3, <2>2, OwnRow
  <2>. QED  BY <1>1, <2>3, ActorReturns DEF Soft
<1>. QED  BY <1>4, <1>5

(* A tool goes on inside the lock.                                          *)
LEMMA ToolGoesOn ==
    ASSUME NavInv, NEW x \in Invokers, act[x].pc \notin {"idle", "lock"}, NEW pc, Goto(x, pc),
           pc \in {"read", "claim", "replan", "oversized"}, Soft, WorkKept(x),
           UNCHANGED <<lockVars, notes, chat, ran>>
    PROVE  NavInv'
<1>1. ActorsOK /\ x \in Actors
  BY NavParts, ActorNames
<1>2. act[x].pc \notin OnPlan \cup {"idle"}
  BY <1>1 DEF ActorsOK, Stands, Places, OnPlan
<1>3. PICK a : act' = [act EXCEPT ![x] = a] /\ IsActor(a) /\ a.pc = pc /\ a.p = P(x) /\ a.i = I(x)
  BY <1>1, WentTo
<1>4. a.pc \in Places(x) \ {"lock", "run", "stage", "deliver", "chat"}
  BY <1>3 DEF Places
<1>. QED  BY <1>1, <1>2, <1>3, <1>4, ActorGoesOn

(* _gate_step                                                               *)
LEMMA GatePassed ==
    ASSUME NavInv, NEW x \in Invokers, Gate(x)
    PROVE  NavInv'
<1>1. /\ act[x].pc = "gate" /\ UNCHANGED <<notes, chat, ran>> /\ x \in Actors
      /\ \/ Return(x) /\ plans' = plans
         \/ Return(x) /\ RecoverRunningStep(P(x), I(x))
         \/ Goto(x, "read") /\ plans' = plans /\ UNCHANGED lockVars
         \/ Goto(x, "claim") /\ plans' = plans /\ UNCHANGED lockVars
         \/ Goto(x, "replan") /\ plans' = plans /\ UNCHANGED lockVars
  BY ActorNames DEF Gate, At, planVars
<1>2. CASE Return(x)
  BY <1>1, <1>2, ToolReturns DEF Return, Leave, Goto
<1>3. CASE plans' = plans /\ UNCHANGED lockVars
  <2>1. Soft /\ WorkKept(x)
    BY <1>1, <1>3, NoRowWritten
  <2>. QED  BY <1>1, <1>2, <1>3, <2>1, ToolGoesOn
<1>. QED  BY <1>1, <1>2, <1>3

(* _record_changed_preconditions and mark_terminalized_claim_needs_replan   *)
LEMMA ReplanNoted ==
    ASSUME NavInv, NEW x \in Invokers, ChangedPreconditions(x) \/ OversizedReplan(x)
    PROVE  NavInv'
<1>1. /\ act[x].pc \in {"replan", "oversized"} /\ UNCHANGED <<notes, chat, ran>> /\ Return(x)
      /\ plans' = plans \/ MarkNeedsReplan(P(x)) \/ TerminalizedNeedsReplan(P(x), I(x))
  BY DEF ChangedPreconditions, OversizedReplan, At, planVars
<1>. QED  BY <1>1, ToolReturns

(* A result over the outbox limit is recorded as failed.                    *)
LEMMA OversizedStored ==
    ASSUME NavInv, NEW x \in Invokers, Oversized(x)
    PROVE  NavInv'
<1>1. /\ act[x].pc = "final" /\ FinalizeStep(P(x), I(x)) /\ Goto(x, "oversized") /\ x \in Actors
      /\ UNCHANGED <<lockVars, notes, chat, ran>>
  BY ActorNames DEF Oversized, At
<1>2. Soft /\ WorkKept(x)
  BY <1>1, StepFinal
<1>. QED  BY <1>1, <1>2, ToolGoesOn

(* A tool inside the lock moves to the execution of its step.               *)
LEMMA ToolWorks ==
    ASSUME NavInv, NEW x \in Invokers, act[x].pc \notin {"idle", "lock"}, NEW a,
           act' = [act EXCEPT ![x] = a], a.pc \in {"run", "stage"}, a.p = P(x), a.i = I(x),
           IsActor(a), a.pc = "stage" => a.to \in {"completed", "failed"}, Soft,
           UNCHANGED <<lockVars, notes, chat>>, RanOK',
           Working(plans'[P(x)], I(x))
    PROVE  NavInv'
<1>1. /\ PlansOK /\ LiveOK /\ ActorsOK /\ NotesOK /\ LockOK /\ RanOK
      /\ GivenUpMeansDead /\ ChatsOK /\ HumanOK /\ x \in Actors /\ x # C /\ x # H
  BY NavParts, ActorNames
<1>2. act[x].pc \notin OnPlan \cup {"idle"}
  BY <1>1 DEF ActorsOK, Stands, Places, OnPlan
<1>3. P(x) \in DOMAIN plans /\ I(x) \in Steps(P(x)) /\ Kind(P(x), I(x)) = StepKind(x)
  BY <1>1, <1>2, WorksOn
<1>4. Others(x) /\ act'[x] = a
  BY <1>1, OneMoved
<1>5. Stands(x, a, plans)
  BY <1>3 DEF Stands, Places, Kind, Steps, OnPlan
<1>6. Stands(x, act'[x], plans')
  BY <1>1, <1>4, <1>5, StandsStill DEF Soft
<1>7. PlansOK' /\ LiveOK' /\ ActorsOK' /\ ChatsOK'
  BY <1>1, <1>4, <1>6, TableKept, ActorsKept, ChatsStayOK DEF Soft
<1>8. LockOK'
  BY <1>1, <1>4, LockUntouched, LockStaysOK
<1>9. NotesOK'
  BY <1>1, <1>4, ActorNames, NotesStayOK DEF Others, Soft
<1>10. HumanOK'
  <2>1. Same(H)
    BY <1>1, <1>4, ActorNames DEF Others
  <2>2. act[H].pc = "chat" => plans'[P(H)].hand.del = plans[P(H)].hand.del
    BY <1>1, ActorNames DEF ActorsOK, Stands, P, DelKept, Soft
  <2>. QED  BY <1>1, <2>1, <2>2, HumanStaysOK DEF Soft
<1>11. GivenUpMeansDead'
  <2>1. ASSUME NEW y \in Invokers, y # x PROVE act'[y].pc \notin {"run", "stage"}
    BY <1>1, <1>4, <2>1, AloneInLock, ActorNames DEF Others, Same
  <2>. QED  BY <1>4, <2>1 DEF GivenUpMeansDead, Working, P, I
<1>. QED  BY <1>7, <1>8, <1>9, <1>10, <1>11 DEF NavInv

(* claim_step: the step was pending, so it was never invoked.               *)
LEMMA StepClaimed ==
    ASSUME NavInv, NEW x \in Invokers, Claim(x)
    PROVE  NavInv'
<1>. DEFINE p == P(x)
            i == I(x)
<1>1. /\ act[x].pc = "claim" /\ UNCHANGED <<notes, chat, ran>>
      /\ \/ Return(x) /\ plans' = plans
         \/ ClaimStep(p, i) /\ Goto(x, "run") /\ UNCHANGED lockVars
  BY DEF Claim, At, planVars
<1>2. PlansOK /\ ActorsOK /\ LockOK /\ RanOK /\ x \in Actors
  BY NavParts, ActorNames
<1>3. CASE Return(x) /\ plans' = plans
  BY <1>1, <1>3, ToolReturns
<1>4. CASE ClaimStep(p, i) /\ Goto(x, "run") /\ UNCHANGED lockVars
  <2>1. p \in DOMAIN plans /\ i \in Steps(p) /\ Kind(p, i) = "process"
    BY <1>1, <1>2, WorksOn DEF OnPlan, StepKind
  <2>2. /\ plans' = [plans EXCEPT ![p].step[i] = "running"] /\ plans[p].st = "active"
        /\ plans[p].step[i] = "pending"
    BY <1>4 DEF ClaimStep, Claimable
  <2>3. PICK a : act' = [act EXCEPT ![x] = a] /\ IsActor(a) /\ a.pc = "run" /\ a.p = p /\ a.i = i
    BY <1>2, <1>4, WentTo
  <2>. HIDE DEF p, i
  <2>4. Soft
    BY <1>2, <2>1, <2>2, StepWritten, GentleStep
  <2>5. IsPlan(plans[p]) /\ i \in DOMAIN plans[p].step
    BY <1>2, <2>1 DEF PlansOK, Steps
  <2>6. plans'[p].st = "active" /\ plans'[p].step[i] = "running"
    <3>. DEFINE v == [plans[p] EXCEPT !.step[i] = "running"]
    <3>1. v.st = "active" /\ v.step[i] = "running"
      BY <2>2, <2>5, StepPut
    <3>2. plans'[p] = v
      BY <2>1, <2>2
    <3>. QED  BY <3>1, <3>2
  <2>7. Working(plans'[p], i)
    BY <2>6 DEF Working
  <2>8. Others(x) /\ act'[x] = a
    BY <1>2, <2>3, OneMoved
  <2>9. \A r \in ran : ~(r[1] = p /\ r[2] = i)
    BY <1>2, <2>2 DEF RanOK
  <2>10. RanOK'
    <3>1. ASSUME NEW r \in ran
          PROVE  /\ r[3] = 1 /\ r[1] \in DOMAIN plans' /\ r[2] \in DOMAIN plans'[r[1]].step
                 /\ plans'[r[1]].step[r[2]] # "pending"
      <4>1. /\ r[3] = 1 /\ r[1] \in DOMAIN plans /\ r[2] \in DOMAIN plans[r[1]].step
            /\ plans[r[1]].step[r[2]] # "pending"
        BY <1>2, <3>1 DEF RanOK, Steps
      <4>2. Moves(plans[r[1]], plans'[r[1]]) /\ r[1] \in DOMAIN plans'
        BY <2>4, <4>1 DEF Soft, TableStep
      <4>3. DOMAIN plans'[r[1]].step = DOMAIN plans[r[1]].step
        BY <1>2, <4>1, <4>2, StepNumbers DEF PlansOK, Moves
      <4>. QED  BY <4>1, <4>2, <4>3 DEF Moves
    <3>2. ASSUME NEW y \in Invokers, y # x PROVE act'[y].pc # "run"
      BY <1>1, <1>2, <2>8, <3>2, AloneInLock, ActorNames DEF Others, Same
    <3>. QED  BY <1>1, <2>3, <2>6, <2>8, <2>9, <3>1, <3>2 DEF RanOK, Steps, P, I
  <2>. QED  BY <1>1, <1>4, <2>3, <2>4, <2>7, <2>10, ToolWorks DEF p, i
<1>. QED  BY <1>1, <1>3, <1>4

(* The function of the step is invoked for the first time.                  *)
LEMMA StepRun ==
    ASSUME NavInv, NEW x \in Invokers, RunStep(x)
    PROVE  NavInv'
<1>. DEFINE p == P(x)
            i == I(x)
            n == Cardinality({r \in ran : r[1] = p /\ r[2] = i})
            u == act[x]
<1>1. /\ act[x].pc = "run" /\ UNCHANGED <<lockVars, notes, chat>> /\ plans' = plans
      /\ ran' = ran \cup {<<p, i, 1 + n>>}
  BY DEF RunStep, At, planVars
<1>2. PICK to \in {"completed", "failed"} : act' = [act EXCEPT ![x].pc = "stage", ![x].to = to]
  BY DEF RunStep
<1>3. /\ PlansOK /\ ActorsOK /\ LockOK /\ RanOK /\ GivenUpMeansDead /\ x \in Actors
  BY NavParts, ActorNames
<1>4. p \in DOMAIN plans /\ i \in Steps(p)
  BY <1>1, <1>3, WorksOn DEF OnPlan
<1>5. n = 0
  <2>1. {r \in ran : r[1] = p /\ r[2] = i} = {}
    BY <1>1, <1>3 DEF RanOK
  <2>. QED  BY <2>1, FS_EmptySet
<1>. DEFINE a == [[u EXCEPT !.pc = "stage"] EXCEPT !.to = to]
<1>6. IsActor(u) /\ u.p = p /\ u.i = i
  BY <1>3, IsAt
<1>7. act' = [act EXCEPT ![x] = a]
  BY <1>2
<1>. HIDE DEF u
<1>8. Actor(a, "stage", u.p, u.i, to)
  BY ONLY <1>6, FieldsPut, Zenon
<1>. HIDE DEF a
<1>9. IsActor(a) /\ a.pc = "stage" /\ a.p = p /\ a.i = i /\ a.to = to
  BY <1>6, <1>8 DEF Actor
<1>10. Soft
  BY <1>1, <1>3, NothingStored
<1>11. Working(plans'[p], i)
  BY <1>1, <1>3 DEF GivenUpMeansDead, Working
<1>12. Others(x) /\ act'[x] = a
  BY <1>3, <1>7, OneMoved
<1>13. plans[p].step[i] # "pending"
  BY <1>1, <1>3 DEF RanOK
<1>14. ASSUME NEW y \in Invokers PROVE act'[y].pc # "run"
  BY <1>1, <1>3, <1>9, <1>12, AloneInLock, ActorNames DEF Others, Same
<1>15. ran' = ran \cup {<<p, i, 1>>}
  BY <1>1, <1>5
<1>. HIDE DEF p, i
<1>16. RanOK'
  BY <1>1, <1>3, <1>4, <1>13, <1>14, <1>15 DEF RanOK, Steps
<1>. QED  BY <1>1, <1>7, <1>9, <1>10, <1>11, <1>16, ToolWorks DEF p, i

(* The result is staged, or the claim given up.                             *)
LEMMA RunStaged ==
    ASSUME NavInv, NEW x \in Invokers, StageRun(x)
    PROVE  NavInv'
<1>. DEFINE p == P(x)
            i == I(x)
            to == act[x].to
<1>1. /\ act[x].pc = "stage" /\ UNCHANGED <<notes, chat, ran>>
      /\ \/ StageResult(p, i, to, {"running"}) /\ Goto(x, "read") /\ UNCHANGED lockVars
         \/ Return(x) /\ (plans' = plans \/ RecoverRunningStep(p, i))
  BY DEF StageRun, At, planVars
<1>2. PlansOK /\ ActorsOK /\ x \in Actors
  BY NavParts, ActorNames
<1>3. CASE Return(x) /\ (plans' = plans \/ RecoverRunningStep(p, i))
  BY <1>1, <1>3, ToolReturns
<1>4. CASE StageResult(p, i, to, {"running"}) /\ Goto(x, "read") /\ UNCHANGED lockVars
  <2>1. p \in DOMAIN plans /\ i \in Steps(p) /\ Kind(p, i) = "process"
    BY <1>1, <1>2, WorksOn DEF OnPlan, StepKind
  <2>2. to \in {"completed", "failed"}
    BY <1>1, <1>2 DEF ActorsOK, Stands
  <2>. HIDE DEF p, i, to
  <2>3. Gentle(p)
    BY <1>2, <1>4, <2>1, <2>2, Staged
  <2>4. Soft /\ WorkKept(x)
    BY <1>2, <2>1, <2>3, GentleStep, WorkIsKept
  <2>. QED  BY <1>1, <1>4, <2>4, ToolGoesOn
<1>. QED  BY <1>1, <1>3, <1>4

----------------------------------------------------------------------------
(* The workflow tool and the coordinator at work.                           *)
LEMMA LoopGoesOn ==
    ASSUME NavInv, NEW x \in {W, C}, act[x].pc \notin OnPlan \cup {"idle"}, NEW pc, Goto(x, pc),
           pc \in {"read", "await"}, pc = "await" => x = W, Soft, AllWork,
           UNCHANGED <<lockVars, notes, chat, ran>>
    PROVE  NavInv'
<1>1. ActorsOK /\ x \in Actors /\ x \notin Invokers
  BY NavParts, ActorNames
<1>2. PICK a : act' = [act EXCEPT ![x] = a] /\ IsActor(a) /\ a.pc = pc /\ a.p = P(x) /\ a.i = I(x)
  BY <1>1, WentTo
<1>3. a.pc \in Places(x) \ {"lock", "run", "stage", "deliver", "chat"}
  BY <1>1, <1>2, ActorNames DEF Places
<1>4. WorkKept(x)
  BY <1>1, WorkIsKept
<1>. QED  BY <1>1, <1>2, <1>3, <1>4, ActorGoesOn

(* The workflow tool or the coordinator is done.                            *)
LEMMA LoopLeaves ==
    ASSUME NavInv, NEW x \in {W, C}, Leave(x), Soft, AllWork, UNCHANGED <<lockVars, notes, chat, ran>>
    PROVE  NavInv'
<1>1. ActorsOK /\ x \in Actors
  BY NavParts, ActorNames
<1>2. WorkKept(x)
  BY <1>1, WorkIsKept
<1>. QED  BY <1>1, <1>2, ActorReturns DEF Soft

(* make_annotation_workflow_action finds its step,                          *)
LEMMA WorkflowCalled ==
    ASSUME NavInv, NEW p \in DOMAIN plans, WorkflowStarts(p)
    PROVE  NavInv'
<1>. DEFINE i == CurrentStep(p)
            to == plans[p].step[i]
            pc == IF plans[p].box[i] # NoBox THEN "read"
                  ELSE IF plans[p].step[i] = "pending" THEN "claim" ELSE "begin"
            a == [Idle EXCEPT !.p = p, !.i = i, !.to = to, !.pc = pc]
<1>1. /\ i # 0 /\ Kind(p, i) = "workflow" /\ act' = [act EXCEPT ![W] = a]
      /\ plans' = plans /\ UNCHANGED <<lockVars, notes, chat, ran>>
  BY DEF WorkflowStarts, planVars
<1>2. PlansOK /\ ActorsOK /\ LockOK /\ i \in Steps(p)
  BY <1>1, NavParts, CurrentStepIn
<1>3. pc \in {"read", "claim", "begin"}
  OBVIOUS
<1>. HIDE DEF i, to, pc
<1>4. Actor(a, pc, p, i, to)
  BY ONLY Started, Zenon
<1>. HIDE DEF a
<1>5. IsActor(a) /\ a.pc = pc /\ a.p = p /\ a.i = i
  BY <1>4 DEF Actor
<1>6. Stands(W, a, plans)
  BY <1>1, <1>2, <1>3, <1>5, ActorNames DEF Stands, Places, StepKind, Kind, Steps
<1>7. LockKept(W)
  BY <1>1, <1>2, ActorNames, LockUntouched
<1>8. Soft /\ WorkKept(W)
  BY <1>1, NoRowWritten, ActorNames
<1>. QED  BY <1>1, <1>3, <1>5, <1>6, <1>7, <1>8, ActorNames, ActorGoes DEF Soft

(* claims it,                                                               *)
LEMMA WorkflowClaimed ==
    ASSUME NavInv, WorkflowClaims
    PROVE  NavInv'
<1>. DEFINE p == P(W)
            i == I(W)
            u == act[W]
            a == [[u EXCEPT !.pc = "begin"] EXCEPT !.to = "running"]
<1>1. /\ act[W].pc = "claim" /\ UNCHANGED <<lockVars, notes, chat, ran>>
      /\ \/ Leave(W) /\ plans' = plans
         \/ /\ ClaimStep(p, i)
            /\ act' = [act EXCEPT ![W].pc = "begin", ![W].to = "running"]
  BY DEF WorkflowClaims, At, planVars
<1>2. PlansOK /\ ActorsOK /\ W \in Actors /\ W \notin Invokers
  BY NavParts, ActorNames
<1>3. CASE Leave(W) /\ plans' = plans
  BY <1>1, <1>2, <1>3, NothingStored, LoopLeaves
<1>4. CASE ClaimStep(p, i) /\ act' = [act EXCEPT ![W].pc = "begin", ![W].to = "running"]
  <2>1. p \in DOMAIN plans /\ i \in Steps(p) /\ Kind(p, i) = "workflow"
    BY <1>1, <1>2, ActorNames, WorksOn DEF OnPlan, StepKind
  <2>2. plans' = [plans EXCEPT ![p].step[i] = "running"] /\ plans[p].st = "active"
    BY <1>4 DEF ClaimStep, Claimable
  <2>3. IsActor(u) /\ u.p = p /\ u.i = i
    BY <1>2, IsAt
  <2>4. act' = [act EXCEPT ![W] = a]
    BY <1>4
  <2>. HIDE DEF u
  <2>5. Actor(a, "begin", u.p, u.i, "running")
    BY ONLY <2>3, FieldsPut, Zenon
  <2>. HIDE DEF a
  <2>6. IsActor(a) /\ a.pc = "begin" /\ a.p = p /\ a.i = i
    BY <2>3, <2>5 DEF Actor
  <2>. HIDE DEF p, i
  <2>7. Gentle(p)
    BY <1>2, <2>1, <2>2, StepWritten
  <2>8. Soft /\ WorkKept(W)
    BY <1>2, <2>1, <2>7, GentleStep, WorkIsKept
  <2>9. a.pc \in Places(W) \ {"lock", "run", "stage", "deliver", "chat"}
    BY <1>2, <2>6 DEF Places
  <2>. QED  BY <1>1, <1>2, <2>4, <2>6, <2>8, <2>9, ActorGoesOn DEF OnPlan, p, i
<1>. QED  BY <1>1, <1>3, <1>4

(* What the workflow tool and the coordinator write to their step.          *)
LEMMA WorkflowRow ==
    ASSUME NavInv, NEW x \in {W, C}, act[x].pc \notin OnPlan \cup {"idle"}, NEW to, NEW exp,
           \/ plans' = plans
           \/ ResumeWorkflowStep(P(x), I(x)) \/ AwaitWorkflowStep(P(x), I(x))
           \/ StageResult(P(x), I(x), to, exp) /\ to \in {"completed", "failed"}
    PROVE  Soft /\ AllWork
<1>. DEFINE p == P(x)
            i == I(x)
<1>1. PlansOK /\ ActorsOK /\ x \in Actors /\ x \notin Invokers
  BY NavParts, ActorNames
<1>2. p \in DOMAIN plans /\ i \in Steps(p) /\ Kind(p, i) = "workflow"
  BY <1>1, ActorNames, WorksOn DEF StepKind
<1>3. \/ plans' = plans
      \/ ResumeWorkflowStep(p, i) \/ AwaitWorkflowStep(p, i)
      \/ StageResult(p, i, to, exp) /\ to \in {"completed", "failed"}
  OBVIOUS
<1>. HIDE DEF p, i
<1>4. CASE plans' = plans
  BY <1>1, <1>4, NothingStored
<1>5. CASE ResumeWorkflowStep(p, i)
  <2>1. plans' = [plans EXCEPT ![p].step[i] = "running"] /\ plans[p].st = "active"
    BY <1>5 DEF ResumeWorkflowStep, Resumable
  <2>. QED  BY <1>1, <1>2, <2>1, StepWritten, GentleStep
<1>6. CASE AwaitWorkflowStep(p, i)
  <2>1. plans' = [plans EXCEPT ![p].step[i] = "waiting_user"] /\ plans[p].st = "active"
    BY <1>6 DEF AwaitWorkflowStep, Awaitable
  <2>. QED  BY <1>1, <1>2, <2>1, StepWritten, GentleStep
<1>7. CASE StageResult(p, i, to, exp) /\ to \in {"completed", "failed"}
  BY <1>1, <1>2, <1>7, Staged, GentleStep
<1>. QED  BY <1>3, <1>4, <1>5, <1>6, <1>7

(* learns how far the job is,                                               *)
LEMMA WorkflowBegun ==
    ASSUME NavInv, WorkflowBegins
    PROVE  NavInv'
<1>. DEFINE p == P(W)
            i == I(W)
            seen == act[W].to
<1>1. /\ act[W].pc = "begin" /\ UNCHANGED <<lockVars, notes, chat, ran>>
  BY DEF WorkflowBegins, At
<1>2. \/ (Leave(W) \/ Goto(W, "await")) /\ plans' = plans
      \/ Leave(W) /\ ResumeWorkflowStep(p, i)
      \/ Goto(W, "read") /\ StageResult(p, i, "completed", {seen})
      \/ Goto(W, "read") /\ StageResult(p, i, "failed", {"running"})
  BY Zenon DEF WorkflowBegins, planVars
<1>3. Soft /\ AllWork
  BY <1>1, <1>2, WorkflowRow DEF OnPlan
<1>4. Leave(W) \/ Goto(W, "await") \/ Goto(W, "read")
  BY <1>2
<1>. QED  BY <1>1, <1>3, <1>4, LoopLeaves, LoopGoesOn DEF OnPlan

(* and leaves the step waiting for the user.                                *)
LEMMA WorkflowWaits ==
    ASSUME NavInv, WorkflowAwaits
    PROVE  NavInv'
<1>1. /\ act[W].pc = "await" /\ UNCHANGED <<lockVars, notes, chat, ran>> /\ Leave(W)
      /\ plans' = plans \/ AwaitWorkflowStep(P(W), I(W))
  BY DEF WorkflowAwaits, At, planVars
<1>2. Soft /\ AllWork
  BY <1>1, WorkflowRow DEF OnPlan
<1>. QED  BY <1>1, <1>2, LoopLeaves

(* The coordinator stages what it was told.                                 *)
LEMMA CoordinatorStaged ==
    ASSUME NavInv, CoordinatorStages
    PROVE  NavInv'
<1>. DEFINE p == P(C)
            i == I(C)
            to == Told(TaskOf(p))
<1>1. /\ act[C].pc = "stage" /\ UNCHANGED <<lockVars, notes, chat, ran>>
      /\ \/ StageResult(p, i, to, {act[C].to}) /\ Goto(C, "read")
         \/ (Leave(C) \/ Goto(C, "read")) /\ plans' = plans
  BY DEF CoordinatorStages, At, planVars
<1>2. to \in {"completed", "failed"}
  BY <1>1, NavParts DEF NotesOK
<1>3. Soft /\ AllWork
  BY <1>1, <1>2, WorkflowRow DEF OnPlan
<1>. QED  BY <1>1, <1>3, LoopLeaves, LoopGoesOn DEF OnPlan

(* The coordinator starts or ends a delivery.                               *)
LEMMA CoordinatorMoves ==
    ASSUME NavInv, NEW a, act' = [act EXCEPT ![C] = a], Stands(C, a, plans), plans' = plans,
           UNCHANGED <<lockVars, chat, ran>>, NotesOK'
    PROVE  NavInv'
<1>1. PlansOK /\ ActorsOK /\ LockOK /\ ChatsOK /\ HumanOK /\ C \in Actors
  BY NavParts, ActorNames
<1>2. Soft /\ AllWork
  BY <1>1, NothingStored
<1>3. Others(C) /\ act'[C] = a
  BY <1>1, OneMoved
<1>4. Stands(C, act'[C], plans')
  BY <1>3
<1>5. LockKept(C)
  BY <1>1, ActorNames, LockUntouched
<1>6. WorkKept(C)
  BY <1>1, <1>2, WorkIsKept
<1>7. HumanOK'
  BY <1>1, <1>2, <1>3, ActorNames, HumanStaysOK DEF Others, Soft
<1>. QED  BY <1>1, <1>2, <1>3, <1>4, <1>5, <1>6, <1>7, ActorNames, ActorMoves DEF Soft

(* complete_ and fail_annotation_workflow_step find the step of the         *)
(* handoff.                                                                 *)
LEMMA CoordinatorRead ==
    ASSUME NavInv, NEW t \in Tasks, CoordinatorReads(t)
    PROVE  NavInv'
<1>. DEFINE p == LatestPlan(t)
            i == OpenWorkflowStep(t)
            to == plans[p].step[i]
            a == [Idle EXCEPT !.pc = "stage", !.p = p, !.i = i, !.to = to]
<1>1. /\ notes[t] # <<>> /\ Told(t) \in {"completed", "failed"} /\ i # 0
      /\ act' = [act EXCEPT ![C] = a] /\ plans' = plans /\ UNCHANGED <<lockVars, notes, chat, ran>>
  BY DEF CoordinatorReads, planVars
<1>2. PlansOK /\ ActorsOK /\ NotesOK
  BY NavParts
<1>3. p \in DOMAIN plans /\ i \in Steps(p) /\ Kind(p, i) = "workflow"
  BY <1>1, <1>2, OpenStepIn
<1>4. TaskOf(p) = t
  <2>1. p # 0
    BY <1>2, <1>3, SequenceDomain DEF PlansOK
  <2>. QED  BY <1>2, <2>1, LatestIn
<1>. HIDE DEF p, i, to
<1>5. Actor(a, "stage", p, i, to)
  BY ONLY Started, Zenon
<1>. HIDE DEF a
<1>6. IsActor(a) /\ a.pc = "stage" /\ a.p = p /\ a.i = i
  BY <1>5 DEF Actor
<1>7. Stands(C, a, plans)
  BY <1>3, <1>6, ActorNames DEF Stands, Places, StepKind, Kind, Steps
<1>8. act'[C] = a
  BY <1>1, <1>2, OneMoved, ActorNames
<1>9. NotesOK'
  BY <1>1, <1>2, <1>4, <1>6, <1>8 DEF NotesOK, Told, P, TaskOf
<1>. QED  BY <1>1, <1>7, <1>9, CoordinatorMoves

(* The task is woken and the handoff delivered.                             *)
LEMMA CoordinatorEnds ==
    ASSUME NavInv, CoordinatorWakes
    PROVE  NavInv'
<1>. DEFINE t == TaskOf(P(C))
<1>1. /\ act[C].pc = "wake" /\ act' = [act EXCEPT ![C] = Idle] /\ plans' = plans
      /\ UNCHANGED <<lockVars, chat, ran>> /\ (Delivered(t) \/ notes' = notes)
  BY DEF CoordinatorWakes, At, Leave, UpdateTask, planVars
<1>2. PlansOK /\ ActorsOK /\ NotesOK
  BY NavParts
<1>3. notes[t] # <<>> /\ t \in Tasks
  BY <1>1, <1>2, ActorNames DEF NotesOK, ActorsOK, Stands, P, PlansOK, IsPlan, TaskOf
<1>4. act'[C].pc = "idle"
  BY <1>1, <1>2, OneMoved, ActorNames, IdleStands
<1>. HIDE DEF t
<1>5. NotesOK'
  BY <1>1, <1>2, <1>3, <1>4, NoteDelivered DEF NotesOK
<1>. QED  BY <1>1, <1>5, IdleStands, CoordinatorMoves

(* The service dies: every actor is gone.                                   *)
LEMMA ServiceDies ==
    ASSUME NavInv, Crash
    PROVE  NavInv'
<1>1. act' = [x \in Actors |-> Idle] /\ plans' = plans /\ UNCHANGED <<notes, chat, ran>>
  BY DEF Crash, planVars
<1>2. /\ PlansOK /\ LiveOK /\ ActorsOK /\ NotesOK /\ LockOK /\ RanOK
      /\ GivenUpMeansDead /\ ChatsOK /\ HumanOK
  BY NavParts
<1>3. \A x \in Actors : act'[x] = Idle /\ act'[x].pc = "idle"
  BY <1>1, IdleStands
<1>4. PlansOK' /\ LiveOK' /\ ChatsOK'
  BY <1>1, <1>2 DEF PlansOK, LiveOK, ChatsOK
<1>5. ActorsOK'
  BY <1>1, <1>3, IdleStands DEF ActorsOK
<1>6. NotesOK' /\ HumanOK'
  BY <1>1, <1>2, <1>3, ActorNames DEF NotesOK, HumanOK
<1>7. LockOK' /\ GivenUpMeansDead'
  BY <1>3, ActorNames DEF LockOK, GivenUpMeansDead
<1>8. RanOK'
  BY <1>1, <1>2, <1>3, ActorNames DEF RanOK, Steps
<1>. QED  BY <1>4, <1>5, <1>6, <1>7, <1>8 DEF NavInv

----------------------------------------------------------------------------
(* The invariant holds at the start,                                        *)
LEMMA NavInit ==
    ASSUME Init
    PROVE  NavInv
<1>1. /\ plans = <<>> /\ act = [x \in Actors |-> Idle] /\ notes = [t \in Tasks |-> <<>>]
      /\ chat = [p \in 1 .. MaxPlans |-> 0] /\ ran = {}
  BY DEF Init, PlansInit
<1>2. IsSequence(plans) /\ Len(plans) = 0 /\ DOMAIN plans = {}
  BY <1>1 DEF IsSequence
<1>3. \A x \in Actors : act[x] = Idle /\ act[x].pc = "idle"
  BY <1>1, IdleStands
<1>4. PlansOK /\ LiveOK
  BY <1>2, PlansAssumption DEF PlansOK, LiveOK
<1>5. ActorsOK
  BY <1>1, <1>3, IdleStands DEF ActorsOK
<1>6. NotesOK /\ HumanOK
  BY <1>1, <1>3, ActorNames DEF NotesOK, HumanOK
<1>7. LockOK /\ RanOK /\ GivenUpMeansDead
  BY <1>1, <1>3, ActorNames DEF LockOK, RanOK, GivenUpMeansDead
<1>8. ChatsOK
  BY <1>1, <1>2 DEF ChatsOK
<1>. QED  BY <1>4, <1>5, <1>6, <1>7, <1>8 DEF NavInv

(* in a step that changes nothing,                                          *)
LEMMA NothingHappens ==
    ASSUME NavInv, UNCHANGED vars
    PROVE  NavInv'
<1>1. plans' = plans /\ UNCHANGED <<lockVars, execVars>>
  BY DEF vars, planVars
<1>2. Soft /\ AllWork
  BY <1>1, NavParts, NothingStored
<1>3. NotesOK'
  BY <1>1, <1>2, NotesUntouched DEF execVars, Soft
<1>. QED  BY <1>1, <1>2, <1>3, StillStep DEF execVars, lockVars

(* and in every step of the service.                                        *)
LEMMA NavStep ==
    ASSUME NavInv, [Next]_vars
    PROVE  NavInv'
<1>1. ASSUME NEW t \in Tasks,
             \/ StartTask(t) \/ ContinueTask(t) \/ SettleControl(t) \/ AnnotationAdvances(t)
             \/ CoordinatorResumes(t) \/ CoordinatorReads(t) \/ CoordinatorSkips(t)
             \/ \E ph \in Phases : SubmitPlan(t, ph)
             \/ \E s \in {"pausing", "cancelling"} : RequestControl(t, s)
      PROVE  NavInv'
  BY <1>1, TaskSteps, AnnotationMoves, CoordinatorWaits, CoordinatorRead, PlanSubmitted,
     ControlRequested
<1>2. ASSUME NEW p \in DOMAIN plans,
             \/ WorkflowStarts(p) \/ PrepareDecision(p) \/ SubmitAgain(p) \/ ResubmitDecision(p)
             \/ LeaseRunsOut(p) \/ RecoverHandoff(p)
             \/ \E choice \in {"confirm", "guide"} : SubmitDecision(p, choice)
             \/ \E x \in Invokers : ToolStarts(x, p)
      PROVE  NavInv'
  BY <1>2, WorkflowCalled, DecisionPrepared, SubmittedAgain, DecisionResubmitted, LeaseRunOut,
     HandoffRecovered, DecisionSubmitted, ToolBegins
<1>3. ASSUME NEW x \in Invokers,
             \/ ToolLocks(x) \/ Gate(x) \/ ChangedPreconditions(x) \/ Claim(x) \/ RunStep(x)
             \/ StageRun(x) \/ Oversized(x) \/ OversizedReplan(x)
      PROVE  NavInv'
  BY <1>3, ToolEnters, GatePassed, ReplanNoted, StepClaimed, StepRun, RunStaged, OversizedStored
<1>4. ASSUME NEW x \in Actors, ReadStaged(x) \/ WriteEvidence(x) \/ AttachEvidence(x) \/ Finalize(x)
      PROVE  NavInv'
  BY <1>4, ResultRead, EvidenceWritten, EvidenceAttached, StepFinalized
<1>5. ASSUME \/ WorkflowClaims \/ WorkflowBegins \/ WorkflowAwaits \/ CoordinatorStages
             \/ CoordinatorWakes \/ DeliverDecision \/ ChatConsumes \/ ChatFails
             \/ DeliverySettles \/ ResetDataset \/ Crash \/ OperatorClears \/ ChildEnds
      PROVE  NavInv'
  BY <1>5, WorkflowClaimed, WorkflowBegun, WorkflowWaits, CoordinatorStaged, CoordinatorEnds,
     DecisionDelivers, DecisionConsumed, ChatFailed, DeliverySettled, Reset, ServiceDies, LockCleared
<1>. QED  BY <1>1, <1>2, <1>3, <1>4, <1>5, NothingHappens DEF Next

(* What every state keeps: the rows, the places of the actors, the writer   *)
(* lock around an invocation, and the state of each decision.               *)
THEOREM NavigationInvariant == Spec => []NavInv
<1>1. Init => NavInv
  BY NavInit
<1>2. NavInv /\ [Next]_vars => NavInv'
  BY NavStep
<1>. QED  BY <1>1, <1>2, PTL DEF Spec

(* claim_step: the function of a plan step is invoked at most once, over    *)
(* crashes, retries and recoveries.                                         *)
THEOREM StepsInvokedOnce == Spec => []InvokedOnce
<1>1. NavInv => InvokedOnce
  BY DEF NavInv, RanOK, InvokedOnce
<1>. QED  BY <1>1, NavigationInvariant, PTL

(* recover_running_step_without_result: a step given up by the recovery has *)
(* no thread that still executes it.                                        *)
THEOREM GivenUpStepsDead == Spec => []GivenUpMeansDead
<1>1. NavInv => GivenUpMeansDead
  BY DEF NavInv
<1>. QED  BY <1>1, NavigationInvariant, PTL

(* A human decision is consumed by the agent at most once.                  *)
THEOREM DecisionsConsumedOnce == Spec => []DecisionConsumedOnce
<1>1. ASSUME NavInv PROVE DecisionConsumedOnce
  <2>1. \A p \in DOMAIN plans : chat[p] \in {0, 1}
    BY <1>1, NavParts, ChatCount
  <2>. QED  BY <2>1 DEF DecisionConsumedOnce
<1>. QED  BY <1>1, NavigationInvariant, PTL

(* activate: a task has one active plan, and a superseded plan leaves no    *)
(* work in flight.                                                          *)
THEOREM OnePlanLives == Spec => []OneLivePlan
<1>1. ASSUME NavInv PROVE OneLivePlan
  <2>1. \A p \in DOMAIN plans : Quiet(plans[p]) => ~InFlight(p)
    BY DEF Quiet, InFlight, Steps
  <2>. QED  BY <1>1, <2>1 DEF NavInv, LiveOK, OneLivePlan
<1>. QED  BY <1>1, NavigationInvariant, PTL
=============================================================================
