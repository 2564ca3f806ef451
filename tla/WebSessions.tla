---------------------------- MODULE WebSessions ----------------------------
(***************************************************************************)
(* The database of one conversation (web/session_store.py, contract v1).   *)
(* A turn is one exchange with the user; the session has at most one       *)
(* running turn, and one producer holds the right to give its final        *)
(* answer.  The Router and one Navigation agent per task run in sessions   *)
(* of their own, whose events are appended here.  Every operator below is  *)
(* one transaction: it maps the database d to the database it commits.     *)
(***************************************************************************)
EXTENDS Integers, Sequences, FiniteSets, FiniteSetsExt

CONSTANTS
    Tasks,          \* navigation tasks of the conversation
    None

VARIABLE db

Sessions == {"router"} \cup Tasks
Role(s) == IF s = "router" THEN "router" ELSE "navigation"

Terminal == {"completed", "failed", "interrupted"}
OpenReply == {"pending", "running", "waiting"}
OpenTool == {"running", "background"}
Attentive == {"completed", "failed", "needs_replan", "waiting_user"}

NoBinding == [status |-> "none", slot |-> "none", wait |-> 0]
NoEvent == [raw |-> "none", reply |-> 0, call |-> 0, tool |-> "none", final |-> FALSE,
            ask |-> FALSE, state |-> "none"]

(* turns: the turns in order, with the response authority of each and the  *)
(* state of the latest navigation run recorded for it.  replies: the leases *)
(* of agent replies; reply 0 is a lease whose run has not started yet.      *)
DbInit ==
    db = [turns   |-> <<>>,
          bound   |-> [s \in Sessions |-> 0],
          cursor  |-> [s \in Sessions |-> 0],
          replies |-> <<>>,
          tools   |-> <<>>,
          binding |-> [t \in Tasks |-> NoBinding],
          prompts |-> <<>>,
          outbox  |-> <<>>,
          shown   |-> {}]

-----------------------------------------------------------------------------
(* Turns and response authority.                                            *)
Turn(origin, key, producer) ==
    [origin |-> origin, key |-> key, status |-> "running", producer |-> producer,
     lease |-> "open", final |-> "none", run |-> "none"]

ActiveTurns(d) == {t \in DOMAIN d.turns : d.turns[t].status = "running"}
ActiveTurn(d) == IF ActiveTurns(d) = {} THEN 0 ELSE Max(ActiveTurns(d))
TurnFor(d, origin, key) ==
    {t \in DOMAIN d.turns : /\ d.turns[t].status # "deleted"
                            /\ d.turns[t].origin = origin /\ d.turns[t].key = key}

Owns(d, producer, t) ==
    /\ d.turns[t].producer = producer
    /\ d.turns[t].lease = "open"
    /\ d.turns[t].final = "none"

OpenSlots(d) == {t \in Tasks : d.binding[t].slot = "open"}

Unbind(d, t) ==
    [d EXCEPT !.bound = [s \in Sessions |-> IF d.bound[s] = t THEN 0 ELSE d.bound[s]]]
Bind(d, s, t) == [d EXCEPT !.bound[s] = t]

(* begin_user_turn: one running turn per session.                           *)
CanBeginTurn(d) == ActiveTurn(d) = 0
BeginUserTurn(d, q) == [d EXCEPT !.turns = Append(@, Turn("user", q, "router"))]

(* abort_initial_turn: the rows of a turn whose first run was refused go.   *)
AbortInitialTurn(d, t) ==
    [Unbind(d, t) EXCEPT
        !.turns[t] = [@ EXCEPT !.status = "deleted", !.lease = "closed", !.run = "none"],
        !.tools = [k \in {j \in DOMAIN d.tools : j[1] # t} |-> d.tools[k]],
        !.replies = [i \in DOMAIN d.replies |->
                        IF d.replies[i].turn = t THEN [d.replies[i] EXCEPT !.status = "deleted"]
                                                 ELSE d.replies[i]]]

(* begin_navigation_workflow_turn: a system turn for a workflow boundary,   *)
(* opened once per hint and only when no other turn is running.             *)
OpensWorkflowTurn(d, t, h) ==
    /\ d.binding[t].slot = "open"
    /\ TurnFor(d, "system", h) = {}
    /\ CanBeginTurn(d)
WorkflowTurn(d, t, h) ==
    IF OpensWorkflowTurn(d, t, h)
    THEN Bind([d EXCEPT !.turns = Append(@, Turn("system", h, "navigation"))], t, Len(d.turns) + 1)
    ELSE d

(* _transfer_response_authority, for a hand-over and for a take-over.       *)
Handover(d, t, producer) == [d EXCEPT !.turns[t].producer = producer]

(* The statements that end a turn: its status, its final answer, its lease. *)
Close(d, t, status, by) ==
    [d EXCEPT !.turns[t] = [@ EXCEPT !.status = status, !.final = by, !.lease = "closed"]]

(* commit_authorized_final by the system controller, after a take-over of   *)
(* the authority from whoever holds it.                                     *)
SystemFinal(d, t, status) ==
    LET taken == Handover(d, t, "system_controller") IN
    Unbind(Close(taken, t, status, "system_controller"), t)

(* interrupt_active_turn: the user's stop ends the turn without an answer.  *)
InterruptActiveTurn(d) ==
    LET t == ActiveTurn(d) IN
    IF t = 0 THEN d
    ELSE Unbind([d EXCEPT
            !.turns[t] = [@ EXCEPT !.status = "interrupted", !.lease = "closed",
                                   !.run = IF @ = "running" THEN "interrupted" ELSE @],
            !.replies = [i \in DOMAIN d.replies |->
                IF d.replies[i].turn = t /\ d.replies[i].status \in OpenReply
                THEN [d.replies[i] EXCEPT !.status = "interrupted"] ELSE d.replies[i]],
            !.tools = [k \in DOMAIN d.tools |->
                IF k[1] = t /\ d.tools[k] \in OpenTool THEN "interrupted" ELSE d.tools[k]]], t)

(* create_turn_run, update_turn_run.                                        *)
SetRun(d, t, status) == [d EXCEPT !.turns[t].run = status]

-----------------------------------------------------------------------------
(* Reply leases.                                                            *)
Lease(t, s, r, status) == [turn |-> t, session |-> s, reply |-> r, status |-> status]
Pending(d, t, s) ==
    {i \in DOMAIN d.replies : /\ d.replies[i].turn = t /\ d.replies[i].session = s
                              /\ d.replies[i].status = "pending"}
ReplyRow(d, s, r) ==
    {i \in DOMAIN d.replies : /\ r # 0 /\ d.replies[i].session = s /\ d.replies[i].reply = r
                              /\ d.replies[i].status # "deleted"}

(* register_pending_reply: a lease that has not started is used again.      *)
LeaseFor(d, t, s) == IF Pending(d, t, s) # {} THEN Max(Pending(d, t, s)) ELSE Len(d.replies) + 1
RegisterPending(d, t, s) ==
    IF Pending(d, t, s) # {} THEN d
    ELSE [d EXCEPT !.replies = Append(@, Lease(t, s, 0, "pending"))]

(* discard_pending_reply.                                                   *)
DiscardPending(d, i) ==
    IF d.replies[i].status = "pending" THEN [d EXCEPT !.replies[i].status = "deleted"] ELSE d

(* fail_reply_lease: the lease fails; its turn fails with it when no reply  *)
(* and no tool of the turn, of whichever session, is open any more.         *)
TurnBlocked(d, t) ==
    \/ \E i \in DOMAIN d.replies : d.replies[i].turn = t /\ d.replies[i].status \in OpenReply
    \/ \E k \in DOMAIN d.tools : k[1] = t /\ d.tools[k] \in OpenTool
FailLease(d, i) ==
    LET t == d.replies[i].turn
        f == IF d.replies[i].status \in OpenReply
             THEN [d EXCEPT !.replies[i].status = "failed"] ELSE d
    IN IF \/ d.replies[i].status = "deleted"
          \/ d.turns[t].status \in Terminal
          \/ TurnBlocked(f, t)
          \/ d.turns[t].lease # "open"
       THEN f
       ELSE SystemFinal(f, t, "failed")

(* transfer_waiting_reply_to_turn: the paused reply goes to the turn of the *)
(* answer, unless it was interrupted meanwhile.                             *)
Transferable(d, s, r, t) ==
    /\ d.turns[t].origin = "interaction" /\ d.turns[t].status = "running"
    /\ d.turns[t].producer = "navigation" /\ d.turns[t].lease = "open"
    /\ \E i \in ReplyRow(d, s, r) :
          d.replies[i].status \in {"waiting", "ended", "failed", "pending", "running"}
TransferReply(d, s, r, t) ==
    LET i == CHOOSE j \in ReplyRow(d, s, r) : TRUE IN
    [d EXCEPT !.replies[i] = [@ EXCEPT !.turn = t, !.status = "pending"]]

-----------------------------------------------------------------------------
(* append_projected_event_batch: the private ledgers, the public events and *)
(* the cursor of one event e of session s, projected to p, in one           *)
(* transaction.                                                             *)
KnownTurn(d, s, p) ==
    LET rows == ReplyRow(d, s, p.reply) IN
    IF rows = {} THEN 0 ELSE d.replies[Max(rows)].turn
KnownTerminal(d, s, p) ==
    KnownTurn(d, s, p) # 0 /\ d.turns[KnownTurn(d, s, p)].status \in Terminal
Mapped(d, s, p) == IF d.bound[s] # 0 THEN d.bound[s] ELSE KnownTurn(d, s, p)

(* An event of an agent that no turn asked for waits in the outbox while a  *)
(* turn of another producer is running.                                     *)
MustWait(d, s, p) ==
    /\ ~KnownTerminal(d, s, p) /\ Mapped(d, s, p) = 0 /\ ActiveTurn(d) # 0
    /\ d.turns[ActiveTurn(d)].lease = "open"
    /\ d.turns[ActiveTurn(d)].producer # Role(s)

Target(d, s, p) == IF Mapped(d, s, p) # 0 THEN Mapped(d, s, p) ELSE ActiveTurn(d)
Attention(p) == p.final \/ p.ask \/ p.state \in Attentive

(* The gate: only the producer that holds the authority of the turn is      *)
(* heard.                                                                   *)
(* Mutant: every producer is heard.                                        *)
HeardAlways(d, s, t) == TRUE
Heard(d, s, t) == t # 0 => Owns(d, Role(s), t)

Advance(d, s, e) == [d EXCEPT !.cursor[s] = e]

(* An event that wants the user's attention outside any turn opens one.     *)
WithSystemTurn(d, s, p) ==
    LET n == Len(d.turns) + 1
        o == [d EXCEPT !.turns = Append(@, Turn("system", 0, Role(s)))]
        rows == ReplyRow(d, s, p.reply)
    IN IF p.reply = 0 THEN o
       ELSE IF rows = {} THEN [o EXCEPT !.replies = Append(@, Lease(n, s, p.reply, "waiting"))]
       ELSE [o EXCEPT !.replies[Max(rows)] = [@ EXCEPT !.turn = n, !.status = "waiting"]]

(* _record_private_tool_events: a tool that ended stays ended.              *)
ToolRow(d, t, s, p) ==
    LET k == <<t, s, p.call>> IN
    IF p.tool = "none" \/ (k \in DOMAIN d.tools /\ d.tools[k] \notin OpenTool) THEN d
    ELSE [d EXCEPT !.tools = [j \in DOMAIN d.tools \cup {k} |->
                                  IF j = k THEN p.tool ELSE d.tools[j]]]

(* REPLY_START: the lease of the run gets its reply; leases of earlier      *)
(* runs that never started are revoked.                                     *)
ReplyStarted(d, t, s, p) ==
    LET waiting == Pending(d, t, s)
        i == Max(waiting)
        rows == ReplyRow(d, s, p.reply)
    IN IF p.raw # "REPLY_START" THEN d
       ELSE IF waiting # {}
       THEN [d EXCEPT !.replies =
               [j \in DOMAIN d.replies |->
                  IF j = i THEN [d.replies[j] EXCEPT !.reply = p.reply, !.status = "running"]
                  ELSE IF j \in waiting THEN [d.replies[j] EXCEPT !.status = "interrupted"]
                  ELSE d.replies[j]]]
       ELSE IF rows = {}
       THEN [d EXCEPT !.replies = Append(@, Lease(t, s, p.reply, "running"))]
       ELSE [d EXCEPT !.replies[Max(rows)].status = "running"]

(* _finalize_v1_interaction_turn: a question ends its turn; the reply that  *)
(* asked waits, and only its own session leaves the turn.                   *)
AskedUser(d, t, s, p) ==
    IF ~p.ask THEN d
    ELSE LET c == Close(d, t, "completed", Role(s)) IN
         [c EXCEPT !.bound[s] = IF @ = t THEN 0 ELSE @,
                   !.replies = [i \in DOMAIN d.replies |->
                      IF /\ i \in ReplyRow(d, s, p.reply) /\ d.replies[i].turn = t
                         /\ d.replies[i].status \in OpenReply
                      THEN [d.replies[i] EXCEPT !.status = "waiting"] ELSE d.replies[i]]]

ReplyEnded(d, t, s, p) ==
    [d EXCEPT !.replies = [i \in DOMAIN d.replies |->
        IF i \in ReplyRow(d, s, p.reply) /\ d.replies[i].turn = t
        THEN [d.replies[i] EXCEPT !.status = "ended"] ELSE d.replies[i]]]

(* What still keeps the producer's own turn open.                           *)
OwnTools(d, t, s, states) == {k \in DOMAIN d.tools : k[1] = t /\ k[2] = s /\ d.tools[k] \in states}
OwnReplies(d, t, s) ==
    {i \in DOMAIN d.replies : /\ d.replies[i].turn = t /\ d.replies[i].session = s
                              /\ d.replies[i].status \in OpenReply}
Blocked(d, t, s) == OwnReplies(d, t, s) # {} \/ OwnTools(d, t, s, OpenTool) # {}
HeldTask(d, s) ==
    IF s = "router" THEN OpenSlots(d) # {} ELSE d.binding[s].slot = "open"

(* A turn of the user that ends without a text while a task is open.        *)
BackgroundFinal(d, t, s) ==
    [Close(d, t, "completed", Role(s)) EXCEPT !.bound[s] = IF @ = t THEN 0 ELSE @]
(* A background update of an open task ends its system turn silently.       *)
SilentEnd(d, t, s) ==
    [Close(d, t, "completed", "none") EXCEPT !.bound[s] = 0]

(* REPLY_END: with work of its own still open the text is only progress;    *)
(* otherwise the turn ends, with a text, a substitute for it or a failure.  *)
EndTurn(d, t, s, p) ==
    LET blocked == Blocked(d, t, s)
        held == HeldTask(d, s)
        behind == OwnTools(d, t, s, {"background"}) # {}
        origin == d.turns[t].origin
        text == p.final \/ (origin = "system" /\ d.turns[t].key # 0 /\ ~blocked)
    IN IF origin \in {"user", "interaction"} /\ ~p.final /\ held /\ (behind \/ ~blocked)
       THEN BackgroundFinal(d, t, s)
       ELSE IF origin = "system" /\ (p.state = "active" \/ held) /\ ~text /\ ~blocked
       THEN SilentEnd(d, t, s)
       ELSE IF blocked THEN d
       ELSE Unbind(Close(d, t, IF text THEN "completed" ELSE "failed", Role(s)), t)

(* The events of one entry, applied to turn t.  An entry appended before    *)
(* publishes nothing again.                                                 *)
Publish(d, s, e, p, t) ==
    LET fresh == <<s, e>> \notin d.shown
        q == IF fresh THEN p ELSE [p EXCEPT !.ask = FALSE]
        started == ReplyStarted(ToolRow(Bind(d, s, t), t, s, p), t, s, p)
        asked == AskedUser(started, t, s, q)
        noted == [asked EXCEPT !.shown = IF Attention(p) THEN @ \cup {<<s, e>>} ELSE @]
        ended == ReplyEnded(noted, t, s, p)
    IN IF p.raw # "REPLY_END" THEN noted
       ELSE IF p.final /\ ~fresh THEN ended
       ELSE EndTurn(ended, t, s, p)

Receive(d, s, e, p) ==
    LET t == Target(d, s, p) IN
    IF KnownTerminal(d, s, p) \/ ~Heard(d, s, t) THEN d
    ELSE IF t # 0 THEN Publish(d, s, e, p, t)
    ELSE IF Attention(p) THEN Publish(WithSystemTurn(d, s, p), s, e, p, Len(d.turns) + 1)
    ELSE d

-----------------------------------------------------------------------------
(* The outbox: work promised in the same transaction as its cause.  A key   *)
(* is enqueued once; an item is in one pair of hands at a time.             *)
Item(status, t, p) == [status |-> status, by |-> "none", tries |-> 0, turn |-> t, event |-> p]
PutItem(d, k, v) ==
    [d EXCEPT !.outbox = [j \in DOMAIN d.outbox \cup {k} |-> IF j = k THEN v ELSE d.outbox[j]]]
Enqueued(d, k) == k \in DOMAIN d.outbox
Enqueue(d, k, t, p) == IF Enqueued(d, k) THEN d ELSE PutItem(d, k, Item("pending", t, p))
Receipt(d, k) == IF Enqueued(d, k) THEN d ELSE PutItem(d, k, Item("completed", 0, NoEvent))

(* claim_outbox, claim_outbox_item: the claim of a dead owner runs out.     *)
Due(d, k) ==
    /\ Enqueued(d, k)
    /\ d.outbox[k].status = "pending" \/ (d.outbox[k].status = "claimed" /\ d.outbox[k].by = "dead")
Claimable(d, k) == Due(d, k) \/ (Enqueued(d, k) /\ d.outbox[k].status = "failed")
MaxTries == 3      \* attempts are counted up to the number that matters
Claim(d, k, who) ==
    [d EXCEPT !.outbox[k] = [@ EXCEPT !.status = "claimed", !.by = who,
                                      !.tries = IF @ < MaxTries THEN @ + 1 ELSE @]]
Holds(d, k, who) == Enqueued(d, k) /\ d.outbox[k].status = "claimed" /\ d.outbox[k].by = who

(* complete_outbox: done, given up or put back for a later try.             *)
Complete(d, k, status) ==
    IF d.outbox[k].status = "completed" THEN d
    ELSE [d EXCEPT !.outbox[k] = [@ EXCEPT !.status = status, !.by = "none"]]

(* The append of an event that must wait.                                   *)
Defer(d, s, e, p) == Advance(Enqueue(d, <<"system", s, e>>, 0, p), s, e)
AppendRefused(d, s, e, p) == MustWait(d, s, p) /\ Enqueued(d, <<"system", s, e>>)
AppendBatch(d, s, e, p) ==
    IF MustWait(d, s, p) THEN Defer(d, s, e, p) ELSE Advance(Receive(d, s, e, p), s, e)

-----------------------------------------------------------------------------
(* Tasks of the conversation.  create_task_binding: one open task at a      *)
(* time, with the order to start it.                                        *)
CanBindTask(d, t) == OpenSlots(d) = {} /\ d.binding[t].slot = "none"
BindTask(d, t, n) ==
    Enqueue([d EXCEPT !.binding[t] = [NoBinding EXCEPT !.status = "active", !.slot = "open"]],
            <<"start", t, 0>>, n, NoEvent)

(* update_task_binding, mark_task_binding_terminal.                         *)
UpdateBinding(d, t, status) == [d EXCEPT !.binding[t].status = status]
ResumeBinding(d, t) == [d EXCEPT !.binding[t] = [@ EXCEPT !.status = "active", !.wait = 0]]
WaitBinding(d, t, e) == [d EXCEPT !.binding[t] = [@ EXCEPT !.status = "waiting_user", !.wait = e]]
EndBinding(d, t, status) ==
    IF d.binding[t].slot # "open" THEN d
    ELSE [d EXCEPT !.binding[t] = [@ EXCEPT !.status = status, !.slot = "closed"]]

(* handover_response_authority_with_outbox.                                 *)
HandoverWith(d, t, k) == Enqueue(Handover(d, t, "navigation"), k, t, NoEvent)

-----------------------------------------------------------------------------
(* Questions.  create_interaction: the same question is asked once.         *)
PromptOf(d, t, r) == {i \in DOMAIN d.prompts : d.prompts[i].task = t /\ d.prompts[i].reply = r}
OpenPrompts(d, t) == {i \in DOMAIN d.prompts : d.prompts[i].task = t /\ d.prompts[i].status = "open"}
CreatePrompt(d, t, r, rev) ==
    IF PromptOf(d, t, r) # {} THEN d
    ELSE [d EXCEPT !.prompts = Append(@, [task |-> t, reply |-> r, rev |-> rev, status |-> "open"])]

(* consume_interaction: the task must still be at the revision asked about. *)
Consumable(d, i, rev) == d.prompts[i].status = "open" /\ d.prompts[i].rev = rev
Consume(d, i) == [d EXCEPT !.prompts[i].status = "resolved"]

(* create_interaction_turn: a turn for the answer and the order to resume.  *)
CanAnswer(d, i) == TurnFor(d, "interaction", i) # {} \/ CanBeginTurn(d)
InteractionTurn(d, i) ==
    IF TurnFor(d, "interaction", i) # {} THEN d
    ELSE Enqueue([d EXCEPT !.turns = Append(@, Turn("interaction", i, "navigation"))],
                 <<"resume", d.prompts[i].task, i>>, Len(d.turns) + 1, NoEvent)

-----------------------------------------------------------------------------
(* What the bridge repairs when the program starts, in this order.          *)
(* reconcile_terminal_turn_residues.                                        *)
CloseResidues(d) ==
    LET over == {t \in DOMAIN d.turns : d.turns[t].status \in Terminal} IN
    [d EXCEPT !.replies = [i \in DOMAIN d.replies |->
                 IF d.replies[i].turn \in over /\ d.replies[i].status \in OpenReply
                 THEN [d.replies[i] EXCEPT !.status = "interrupted"] ELSE d.replies[i]],
              !.turns = [t \in DOMAIN d.turns |->
                 IF t \notin over THEN d.turns[t]
                 ELSE [d.turns[t] EXCEPT
                         !.run = IF @ = "running" THEN "interrupted" ELSE @,
                         !.lease = IF d.turns[t].final = "none" THEN "closed" ELSE @]],
              !.bound = [s \in Sessions |-> IF d.bound[s] \in over THEN 0 ELSE d.bound[s]]]

(* reconcile_stale_reply_leases.                                            *)
ReleaseStaleReplies(d) ==
    [d EXCEPT !.replies = [i \in DOMAIN d.replies |->
        IF /\ d.replies[i].status \in {"pending", "running"}
           /\ d.turns[d.replies[i].turn].status = "running"
        THEN [d.replies[i] EXCEPT !.status = "interrupted"] ELSE d.replies[i]]]

(* list_unresolved_background_tools, append_background_tool_reconciliation: *)
(* a background call that no process runs any more is over.                 *)
EndBackgroundTools(d) ==
    [d EXCEPT !.tools = [k \in DOMAIN d.tools |->
        IF d.tools[k] = "background" THEN "failed" ELSE d.tools[k]]]
=============================================================================
