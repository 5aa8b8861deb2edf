--------------------------- MODULE ResponseOutbox ---------------------------
(***************************************************************************)
(* Response actions of a completed run, from the outbox to the endpoint:   *)
(*                                                                         *)
(*   - complete_run enqueues one row per selected action                   *)
(*     (response/dispatch.py);                                             *)
(*   - executors, one per API replica, drain the rows: an autonomous       *)
(*     capability runs at once, a gated one becomes a proposal             *)
(*     (response/executor.py, core/ir/runtime.py);                         *)
(*   - operators approve or reject proposals; an approval enqueues the     *)
(*     row that executes it (core/ir/runtime.py, core/api/ir.py).          *)
(*                                                                         *)
(* An executor claims, handles and settles a row in ONE transaction: until *)
(* the commit its locks keep others out and a crash rolls everything back, *)
(* except the POST it has already made.  An operator's request reads the   *)
(* proposal and updates it in two statements (READ COMMITTED): what it     *)
(* read may be stale when it writes.                                       *)
(***************************************************************************)
EXTENDS Naturals

CONSTANTS
    Annotations,   \* dispatched actions annotate_investigation: a database write
    Webhooks,      \* dispatched actions notify_webhook: autonomous POST
    Gated,         \* dispatched actions external_action: POST after approval
    Executors,     \* ResponseExecutor loops
    Operators,     \* approve and reject requests in flight at a time
    None,          \* no row, no action
    MaxAttempts,   \* investigation_outbox.max_attempts
    MaxCrashes     \* bound: executor transactions that do not commit

Actions == Annotations \cup Webhooks \cup Gated
Posted == Webhooks \cup Gated

ASSUME AttemptsAssumption == MaxAttempts \in Nat \ {0}
ASSUME CrashesAssumption == MaxCrashes \in Nat
ASSUME KindsAssumption ==
    /\ Annotations \cap Webhooks = {}
    /\ Annotations \cap Gated = {}
    /\ Webhooks \cap Gated = {}

VARIABLES
    rowStatus,   \* investigation_outbox.status, "absent" before the insert
    attempts,    \* investigation_outbox.attempts
    ready,       \* next_attempt_at <= now()
    proposal,    \* proposals.status, "absent" before the insert
    executor,    \* the open transaction of each executor
    operator,    \* the open request of each operator
    notes,       \* system notes on the case
    posts,       \* POSTs of an action that reached its endpoint
    executed,    \* actions with an 'executed' row in execution_log
    crashes

rowVars == <<rowStatus, attempts, ready>>
vars == <<rowVars, proposal, executor, operator, notes, posts, executed, crashes>>

\* An action has a response_action row; a gated one gets an execute_proposal
\* row, keyed by its proposal, when it is approved.  The proposal is keyed by
\* the action's delivery key, so there is one per gated action.
Row(k, a) == [kind |-> k, action |-> a]
Rows == [kind : {"response_action"}, action : Actions]
            \cup [kind : {"execute_proposal"}, action : Gated]

ASSUME NoneAssumption == None \notin Actions \cup Rows

RowStatuses == {"absent", "pending", "succeeded", "failed"}
ProposalStatuses == {"absent", "proposed", "approved", "rejected", "executed", "failed"}

\* "claimed": the row is locked.  "executing": so is the approved proposal.
\* "ok", "error": the handler has returned or raised.
Resting == [phase |-> "idle", row |-> None]
ExecutorStates ==
    [phase : {"claimed", "executing", "ok", "error"}, row : Rows] \cup {Resting}
Waiting == [phase |-> "idle", action |-> None, verb |-> "none"]
OperatorStates ==
    [phase : {"checked"}, action : Gated, verb : {"approve", "reject"}] \cup {Waiting}

TypeOK ==
    /\ rowStatus \in [Rows -> RowStatuses]
    /\ attempts \in [Rows -> 0..MaxAttempts]
    /\ ready \in [Rows -> BOOLEAN]
    /\ proposal \in [Gated -> ProposalStatuses]
    /\ executor \in [Executors -> ExecutorStates]
    /\ operator \in [Operators -> OperatorStates]
    /\ notes \in [Annotations -> Nat]
    /\ posts \in [Posted -> Nat]
    /\ executed \subseteq Actions
    /\ crashes \in 0..MaxCrashes

Init ==
    /\ rowStatus = [q \in Rows |-> "absent"]
    /\ attempts = [q \in Rows |-> 0]
    /\ ready = [q \in Rows |-> FALSE]
    /\ proposal = [a \in Gated |-> "absent"]
    /\ executor = [x \in Executors |-> Resting]
    /\ operator = [o \in Operators |-> Waiting]
    /\ notes = [a \in Annotations |-> 0]
    /\ posts = [a \in Posted |-> 0]
    /\ executed = {}
    /\ crashes = 0

\* INSERT ... ON CONFLICT (idempotency_key) DO NOTHING.
Enqueue(q) ==
    /\ rowStatus' = [rowStatus EXCEPT ![q] = IF @ = "absent" THEN "pending" ELSE @]
    /\ ready' = [ready EXCEPT ![q] = @ \/ rowStatus[q] = "absent"]
    /\ UNCHANGED attempts

\* dispatch_for_completed_run, inside the transaction of complete_run.  The
\* kill switch and the playbooks decide whether it happens at all.
Dispatch(a) ==
    /\ rowStatus[Row("response_action", a)] = "absent"
    /\ Enqueue(Row("response_action", a))
    /\ UNCHANGED <<proposal, executor, operator, notes, posts, executed, crashes>>

-----------------------------------------------------------------------------
(* Operators.                                                              *)

\* The first statement of approve_proposal and reject_proposal.
CheckProposal(o, a, verb) ==
    /\ operator[o] = Waiting
    /\ proposal[a] = "proposed"
    /\ operator' = [operator EXCEPT ![o] = [phase |-> "checked", action |-> a, verb |-> verb]]
    /\ UNCHANGED <<rowVars, proposal, executor, notes, posts, executed, crashes>>

\* A transaction has updated the proposal of a and not committed yet.
Locked(a) ==
    \E x \in Executors :
        executor[x].row = Row("execute_proposal", a) /\ executor[x].phase # "claimed"

\* Mutant of ApproveProposal: a conflicting row is queued again.
ApproveProposal_Requeues(o) ==
    LET a == operator[o].action
        q == Row("execute_proposal", a)
    IN  /\ operator[o] # Waiting
        /\ operator[o].verb = "approve"
        /\ ~Locked(a)
        /\ proposal' = [proposal EXCEPT ![a] = "approved"]
        /\ rowStatus' = [rowStatus EXCEPT ![q] = "pending"]
        /\ ready' = [ready EXCEPT ![q] = TRUE]
        /\ operator' = [operator EXCEPT ![o] = Waiting]
        /\ UNCHANGED <<attempts, executor, notes, posts, executed, crashes>>

\* The rest of approve_proposal.  UPDATE ... WHERE id = :id waits for the row
\* lock and does not look at the status again.
ApproveProposal(o) ==
    LET a == operator[o].action
    IN  /\ operator[o] # Waiting
        /\ operator[o].verb = "approve"
        /\ ~Locked(a)
        /\ proposal' = [proposal EXCEPT ![a] = "approved"]
        /\ Enqueue(Row("execute_proposal", a))
        /\ operator' = [operator EXCEPT ![o] = Waiting]
        /\ UNCHANGED <<executor, notes, posts, executed, crashes>>

\* The rest of reject_proposal.
RejectProposal(o) ==
    LET a == operator[o].action
    IN  /\ operator[o] # Waiting
        /\ operator[o].verb = "reject"
        /\ ~Locked(a)
        /\ proposal' = [proposal EXCEPT ![a] = "rejected"]
        /\ operator' = [operator EXCEPT ![o] = Waiting]
        /\ UNCHANGED <<rowVars, executor, notes, posts, executed, crashes>>

\* The request fails and rolls back.
DropRequest(o) ==
    /\ operator[o] # Waiting
    /\ operator' = [operator EXCEPT ![o] = Waiting]
    /\ UNCHANGED <<rowVars, proposal, executor, notes, posts, executed, crashes>>

-----------------------------------------------------------------------------
(* Executors.                                                              *)

\* claim_next_outbox: FOR UPDATE SKIP LOCKED.  The status 'in_flight' it sets
\* is never committed on its own.
ClaimNextOutbox(x, q) ==
    /\ executor[x] = Resting
    /\ rowStatus[q] = "pending" /\ ready[q]
    /\ \A y \in Executors : executor[y].row # q
    /\ executor' = [executor EXCEPT ![x] = [phase |-> "claimed", row |-> q]]
    /\ UNCHANGED <<rowVars, proposal, operator, notes, posts, executed, crashes>>

\* mark_outbox_succeeded and the commit.
Succeed(x) ==
    /\ rowStatus' = [rowStatus EXCEPT ![executor[x].row] = "succeeded"]
    /\ executor' = [executor EXCEPT ![x] = Resting]
    /\ UNCHANGED <<attempts, ready>>

\* _route_to_proposal: create_proposal keeps a proposal that is already there.
RouteToProposal(x) ==
    LET q == executor[x].row
    IN  /\ executor[x].phase = "claimed"
        /\ q.kind = "response_action" /\ q.action \in Gated
        /\ proposal' = [proposal EXCEPT ![q.action] = IF @ = "absent" THEN "proposed" ELSE @]
        /\ Succeed(x)
        /\ UNCHANGED <<operator, notes, posts, executed, crashes>>

\* Mutant of ClaimProposal: the status is not part of the update's condition.
ClaimProposal_AnyStatus(x) ==
    /\ executor[x].phase = "claimed"
    /\ executor[x].row.kind = "execute_proposal"
    /\ executor' = [executor EXCEPT ![x].phase = "executing"]
    /\ UNCHANGED <<rowVars, proposal, operator, notes, posts, executed, crashes>>

\* handle_execute_proposal, the guarded update approved -> executing.
ClaimProposal(x) ==
    /\ executor[x].phase = "claimed"
    /\ executor[x].row.kind = "execute_proposal"
    /\ proposal[executor[x].row.action] = "approved"
    /\ executor' = [executor EXCEPT ![x].phase = "executing"]
    /\ UNCHANGED <<rowVars, proposal, operator, notes, posts, executed, crashes>>

\* handle_execute_proposal, no row claimed: a noop that settles the row.
SkipProposal(x) ==
    /\ executor[x].phase = "claimed"
    /\ executor[x].row.kind = "execute_proposal"
    /\ proposal[executor[x].row.action] # "approved"
    /\ Succeed(x)
    /\ UNCHANGED <<proposal, operator, notes, posts, executed, crashes>>

\* The capability's handler, under a SAVEPOINT.  A POST may have reached the
\* endpoint and still raise (a timeout, an error status).
CallHandler(x, reached, ok) ==
    LET q == executor[x].row
    IN  /\ \/ executor[x].phase = "executing"
           \/ /\ executor[x].phase = "claimed"
              /\ q.kind = "response_action" /\ q.action \notin Gated
        /\ ok => reached
        /\ executor' = [executor EXCEPT ![x].phase = IF ok THEN "ok" ELSE "error"]
        /\ posts' = [a \in Posted |-> IF a = q.action /\ reached THEN posts[a] + 1 ELSE posts[a]]
        /\ UNCHANGED <<rowVars, proposal, operator, notes, executed, crashes>>

\* The handler returned: the outcome is recorded and committed.
CommitSuccess(x) ==
    LET q == executor[x].row
    IN  /\ executor[x].phase = "ok"
        /\ proposal' = [a \in Gated |-> IF a = q.action THEN "executed" ELSE proposal[a]]
        /\ notes' = [a \in Annotations |-> IF a = q.action THEN notes[a] + 1 ELSE notes[a]]
        /\ executed' = executed \cup {q.action}
        /\ Succeed(x)
        /\ UNCHANGED <<operator, posts, crashes>>

\* Mutants of CommitFailure: the attempt is not charged; a failure settles the row.
CommitFailure_Uncharged(x) ==
    LET q == executor[x].row
    IN  /\ executor[x].phase = "error"
        /\ proposal' = [a \in Gated |-> IF a = q.action THEN "failed" ELSE proposal[a]]
        /\ ready' = [ready EXCEPT ![q] = FALSE]
        /\ executor' = [executor EXCEPT ![x] = Resting]
        /\ UNCHANGED <<rowStatus, attempts, operator, notes, posts, executed, crashes>>
CommitFailure_Settles(x) ==
    LET q == executor[x].row
    IN  /\ executor[x].phase = "error"
        /\ proposal' = [a \in Gated |-> IF a = q.action THEN "failed" ELSE proposal[a]]
        /\ Succeed(x)
        /\ UNCHANGED <<operator, notes, posts, executed, crashes>>

\* The handler raised: the proposal fails, mark_outbox_failed reschedules the
\* row or gives it up.
CommitFailure(x) ==
    LET q == executor[x].row
    IN  /\ executor[x].phase = "error"
        /\ proposal' = [a \in Gated |-> IF a = q.action THEN "failed" ELSE proposal[a]]
        /\ attempts' = [attempts EXCEPT ![q] = @ + 1]
        /\ rowStatus' = [rowStatus EXCEPT ![q] =
               IF attempts[q] + 1 >= MaxAttempts THEN "failed" ELSE "pending"]
        /\ ready' = [ready EXCEPT ![q] = FALSE]
        /\ executor' = [executor EXCEPT ![x] = Resting]
        /\ UNCHANGED <<operator, notes, posts, executed, crashes>>

\* The process dies or the commit fails: the transaction rolls back.
Crash(x) ==
    /\ executor[x] # Resting
    /\ crashes < MaxCrashes
    /\ crashes' = crashes + 1
    /\ executor' = [executor EXCEPT ![x] = Resting]
    /\ UNCHANGED <<rowVars, proposal, operator, notes, posts, executed>>

\* The backoff of a rescheduled row is over.
BecomeReady(q) ==
    /\ rowStatus[q] = "pending" /\ ~ready[q]
    /\ ready' = [ready EXCEPT ![q] = TRUE]
    /\ UNCHANGED <<rowStatus, attempts, proposal, executor, operator, notes, posts,
                   executed, crashes>>

-----------------------------------------------------------------------------
Operate(o) ==
    \/ \E a \in Gated, verb \in {"approve", "reject"} : CheckProposal(o, a, verb)
    \/ ApproveProposal(o)
    \/ RejectProposal(o)
    \/ DropRequest(o)

\* What an executor does with a row it has claimed.
Work(x) ==
    \/ RouteToProposal(x)
    \/ ClaimProposal(x)
    \/ SkipProposal(x)
    \/ \E reached, ok \in BOOLEAN : CallHandler(x, reached, ok)
    \/ CommitSuccess(x)
    \/ CommitFailure(x)

Next ==
    \/ \E a \in Actions : Dispatch(a)
    \/ \E o \in Operators : Operate(o)
    \/ \E x \in Executors : Work(x) \/ Crash(x) \/ \E q \in Rows : ClaimNextOutbox(x, q)
    \/ \E q \in Rows : BecomeReady(q)

Spec == Init /\ [][Next]_vars

-----------------------------------------------------------------------------
(* Properties.                                                             *)

\* A gated action reaches its endpoint only while its proposal is approved:
\* no race of approvals, rejections, retries and crashes lets an executor act
\* on a proposal whose committed status is anything else.
PostedOnlyWhileApproved ==
    [][\A a \in Gated : posts'[a] # posts[a] => proposal[a] = "approved"]_vars

\* "a committed 'executed' proposal is never re-POSTed", and so for every
\* action: once an execution is recorded the endpoint is not called again, not
\* even when a late approval overwrites the status of the proposal.
NeverPostedAgain ==
    [][\A a \in Posted \cap executed : posts'[a] = posts[a]]_vars

\* The endpoint sees an action at most once per charged attempt, plus once for
\* the call that succeeds or is under way and once per lost transaction: the
\* at-least-once delivery is bounded by max_attempts (mark_outbox_failed).
PostsBounded ==
    \A q \in Rows :
        q.action \in Webhooks \/ q.kind = "execute_proposal" =>
            posts[q.action] <= attempts[q] + crashes + 1

\* What the outbox reports as done has been done: a note is written exactly
\* once per settled row, a settled notification and an executed proposal have
\* reached their endpoint.
SucceededIsDone ==
    /\ \A a \in Annotations :
          notes[a] = IF rowStatus[Row("response_action", a)] = "succeeded" THEN 1 ELSE 0
    /\ \A a \in Webhooks : rowStatus[Row("response_action", a)] = "succeeded" => posts[a] > 0
    /\ \A a \in Gated : proposal[a] = "executed" => posts[a] > 0

-----------------------------------------------------------------------------
(* Liveness.  Each executor loop finishes the row it holds (the POST has a *)
(* timeout) and polls again, oldest row first; backoffs end.  Dispatch,    *)
(* operators and crashes are not fair.                                     *)

ClaimedBySome(q) == \E x \in Executors : ClaimNextOutbox(x, q)

Fairness ==
    /\ \A x \in Executors : WF_vars(Work(x))
    /\ \A q \in Rows : WF_vars(BecomeReady(q)) /\ SF_vars(ClaimedBySome(q))

FairSpec == Spec /\ Fairness

\* Every queued row is settled: it succeeds or exhausts max_attempts, whatever
\* crashes and whoever else is in the queue.
RowsSettle ==
    \A q \in Rows : rowStatus[q] = "pending" ~> rowStatus[q] \in {"succeeded", "failed"}

-----------------------------------------------------------------------------
(* What the documents say and the code does not keep.                      *)

\* "On rejected: ... No outbox row": a rejected proposal has no row that
\* executes it (reject_proposal after a concurrent approve_proposal).
RejectedHasNoRow ==
    \A a \in Gated :
        proposal[a] = "rejected" => rowStatus[Row("execute_proposal", a)] = "absent"

\* "Raise to fail the action (the outbox retries per its max_attempts budget)":
\* the row of an action that failed is not settled as succeeded
\* (handle_execute_proposal skips the retry).
RaisedIsRetried ==
    \A a \in Gated :
        proposal[a] = "failed" => rowStatus[Row("execute_proposal", a)] # "succeeded"
=============================================================================
