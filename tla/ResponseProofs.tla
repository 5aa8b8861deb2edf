--------------------------- MODULE ResponseProofs ---------------------------
(***************************************************************************)
(* Proofs about ResponseOutbox.  OutboxInv describes what an open executor *)
(* transaction may rely on: the row it holds is pending and nobody else's, *)
(* the proposal it executes is approved, and what it has posted is not yet *)
(* accounted for.                                                          *)
(***************************************************************************)
EXTENDS ResponseOutbox, TLAPS

\* The rows whose handler posts.
Posting(q) == q.action \in Webhooks \/ q.kind = "execute_proposal"

\* The row under which the execution of an action is recorded.
Main(a) == Row(IF a \in Gated THEN "execute_proposal" ELSE "response_action", a)

Busy(x) == executor[x] # Resting
Returned(x) == executor[x].phase \in {"ok", "error"}

Held == \A x \in Executors : Busy(x) => rowStatus[executor[x].row] = "pending"

Exclusive ==
    \A x, y \in Executors : Busy(x) /\ executor[x].row = executor[y].row => x = y

AttemptsLeft == \A q \in Rows : rowStatus[q] \in {"absent", "pending"} => attempts[q] < MaxAttempts

\* A response_action row of a gated action is routed, never executed, and only
\* an execute_proposal row is "executing".
Phases ==
    \A x \in Executors :
        /\ executor[x].phase = "executing" => executor[x].row.kind = "execute_proposal"
        /\ Returned(x) => executor[x].row = Main(executor[x].row.action)

\* The row lock on a proposal keeps its status.
Locks ==
    \A x \in Executors :
        Busy(x) /\ executor[x].phase # "claimed" /\ executor[x].row.kind = "execute_proposal"
            => proposal[executor[x].row.action] = "approved"

Recorded == \A a \in executed : rowStatus[Main(a)] = "succeeded"

\* POSTs not covered by attempts and crashes: one for a row that succeeded,
\* one for a handler that has returned and is not committed.
Owed(q) ==
    \/ rowStatus[q] = "succeeded"
    \/ \E x \in Executors : Returned(x) /\ executor[x].row = q

Bounded ==
    \A q \in Rows :
        Posting(q) =>
            /\ posts[q.action] <= attempts[q] + crashes + 1
            /\ ~Owed(q) => posts[q.action] <= attempts[q] + crashes

OkPosted ==
    \A x \in Executors :
        executor[x].phase = "ok" /\ executor[x].row.action \in Posted
            => posts[executor[x].row.action] > 0

NotesDone ==
    \A a \in Annotations :
        notes[a] = IF rowStatus[Row("response_action", a)] = "succeeded" THEN 1 ELSE 0
WebhooksDone ==
    \A a \in Webhooks : rowStatus[Row("response_action", a)] = "succeeded" => posts[a] > 0
GatedDone == \A a \in Gated : proposal[a] = "executed" => posts[a] > 0

TypeInv == TypeOK /\ Held /\ Exclusive /\ AttemptsLeft
OutboxInv == Phases /\ Locks /\ Recorded /\ Bounded /\ OkPosted
                /\ NotesDone /\ WebhooksDone /\ GatedDone

-----------------------------------------------------------------------------
LEMMA RowType ==
    /\ \A a \in Actions : Row("response_action", a) \in Rows
    /\ \A a \in Gated : Row("execute_proposal", a) \in Rows
    /\ \A q \in Rows : q.action \in Actions
    /\ \A q \in Rows : q.kind = "execute_proposal" => q.action \in Gated
    /\ \A q \in Rows : q = Row(q.kind, q.action)
BY DEF Rows, Row, Actions

LEMMA BusyType ==
    ASSUME TypeOK, NEW x \in Executors, Busy(x)
    PROVE  /\ executor[x] \in [phase : {"claimed", "executing", "ok", "error"}, row : Rows]
           /\ executor[x].row \in Rows
BY DEF TypeOK, ExecutorStates, Busy

LEMMA PhaseBusy ==
    ASSUME TypeOK, NEW x \in Executors, executor[x].phase # "idle"
    PROVE  Busy(x)
BY DEF TypeOK, ExecutorStates, Busy, Resting

LEMMA OperatorType ==
    ASSUME TypeOK, NEW o \in Operators, operator[o] # Waiting
    PROVE  operator[o].action \in Gated
BY DEF TypeOK, OperatorStates

LEMMA EnqueueType ==
    ASSUME TypeInv, NEW q \in Rows, Enqueue(q)
    PROVE  /\ rowStatus' \in [Rows -> RowStatuses] /\ attempts' \in [Rows -> 0..MaxAttempts]
           /\ ready' \in [Rows -> BOOLEAN]
           /\ \A s \in Rows : rowStatus[s] # "absent" => rowStatus'[s] = rowStatus[s]
           /\ \A s \in Rows : rowStatus[s] = "absent" => rowStatus'[s] \in {"absent", "pending"}
           /\ attempts' = attempts
<1> DEFINE flag == ready[q] \/ rowStatus[q] = "absent"
<1>1. flag \in BOOLEAN
  OBVIOUS
<1>2. ready' = [ready EXCEPT ![q] = flag]
  BY DEF Enqueue
<1> HIDE DEF flag
<1>3. ready' \in [Rows -> BOOLEAN]
  BY <1>1, <1>2 DEF TypeInv, TypeOK
<1> QED BY <1>3 DEF TypeInv, TypeOK, Enqueue, RowStatuses

\* An executor that lets go of its row may change the status of that row only.
LEMMA LetGo ==
    ASSUME TypeInv, NEW x \in Executors, Busy(x),
           executor' = [executor EXCEPT ![x] = Resting],
           \A q \in Rows \ {executor[x].row} : rowStatus'[q] = rowStatus[q]
    PROVE  Held' /\ Exclusive'
<1>1. \A y \in Executors : Busy(y)' => y # x /\ Busy(y) /\ executor'[y] = executor[y]
  BY DEF Busy, TypeInv, TypeOK
<1>2. executor'[x].row = None /\ executor[x].row \in Rows
  BY BusyType DEF Resting, TypeInv, TypeOK
<1>3. Held'
  BY <1>1, <1>2, BusyType DEF Held, Exclusive, TypeInv
<1>4. \A y \in Executors : Busy(y) => executor[y].row # None
  BY BusyType, NoneAssumption DEF TypeInv
<1>5. Exclusive'
  <2> SUFFICES ASSUME NEW y \in Executors, NEW z \in Executors, Busy(y)',
                      executor'[y].row = executor'[z].row
               PROVE  y = z
    BY DEF Exclusive
  <2>1. z # x
    BY <1>1, <1>2, <1>4
  <2>2. executor'[z] = executor[z]
    BY <2>1 DEF TypeInv, TypeOK
  <2> QED BY <1>1, <2>2 DEF Exclusive, TypeInv
<1> QED BY <1>3, <1>5

LEMMA SucceedType ==
    ASSUME TypeInv, NEW x \in Executors, Busy(x), Succeed(x)
    PROVE  /\ rowStatus' \in [Rows -> RowStatuses]
           /\ executor' \in [Executors -> ExecutorStates]
           /\ rowStatus' = [rowStatus EXCEPT ![executor[x].row] = "succeeded"]
           /\ executor' = [executor EXCEPT ![x] = Resting]
           /\ attempts' = attempts /\ ready' = ready
           /\ Held' /\ Exclusive' /\ AttemptsLeft'
<1>1. executor[x].row \in Rows /\ executor' = [executor EXCEPT ![x] = Resting]
  BY BusyType DEF Succeed, TypeInv
<1>2. \A q \in Rows \ {executor[x].row} : rowStatus'[q] = rowStatus[q]
  BY <1>1 DEF Succeed, TypeInv, TypeOK
<1>3. Held' /\ Exclusive'
  BY <1>1, <1>2, LetGo
<1> QED BY <1>1, <1>3 DEF TypeInv, TypeOK, Succeed, RowStatuses, ExecutorStates, AttemptsLeft

\* TypeInv is kept by every step.
LEMMA TypeInit == Init => TypeInv
BY AttemptsAssumption, CrashesAssumption, RowType
   DEF Init, TypeInv, TypeOK, Held, Exclusive, AttemptsLeft, Busy, RowStatuses, ProposalStatuses,
       ExecutorStates, OperatorStates

LEMMA TypeStep == TypeInv /\ [Next]_vars => TypeInv'
<1> SUFFICES ASSUME TypeInv, [Next]_vars PROVE TypeInv'
  OBVIOUS
<1> USE AttemptsAssumption, CrashesAssumption DEF TypeInv
<1>1. ASSUME NEW a \in Actions, Dispatch(a) PROVE TypeInv'
  <2>1. Row("response_action", a) \in Rows
    BY RowType
  <2> QED BY <1>1, <2>1, EnqueueType, BusyType, RowType
     DEF Dispatch, TypeOK, Held, Exclusive, AttemptsLeft, Busy
<1>2. ASSUME NEW o \in Operators, Operate(o) PROVE TypeInv'
  <2>1. ASSUME NEW a \in Gated, NEW verb \in {"approve", "reject"}, CheckProposal(o, a, verb)
        PROVE  TypeInv'
    BY <2>1 DEF CheckProposal, TypeOK, OperatorStates, Held, Exclusive, AttemptsLeft, Busy, rowVars
  <2>2. CASE ApproveProposal(o)
    <3>1. operator[o].action \in Gated
      BY <2>2, OperatorType DEF ApproveProposal
    <3>2. Row("execute_proposal", operator[o].action) \in Rows
      BY <3>1, RowType
    <3>3. proposal' \in [Gated -> ProposalStatuses]
      BY <2>2, <3>1 DEF ApproveProposal, TypeOK, ProposalStatuses
    <3>4. operator' \in [Operators -> OperatorStates]
      BY <2>2 DEF ApproveProposal, TypeOK, OperatorStates
    <3> QED BY <2>2, <3>2, <3>3, <3>4, EnqueueType, BusyType
       DEF ApproveProposal, TypeOK, Held, Exclusive, AttemptsLeft, Busy
  <2>3. CASE RejectProposal(o)
    BY <2>3, OperatorType
       DEF RejectProposal, TypeOK, OperatorStates, ProposalStatuses, Held, Exclusive, AttemptsLeft, Busy, rowVars
  <2>4. CASE DropRequest(o)
    BY <2>4 DEF DropRequest, TypeOK, OperatorStates, Held, Exclusive, AttemptsLeft, Busy, rowVars
  <2> QED BY <1>2, <2>1, <2>2, <2>3, <2>4 DEF Operate
<1>3. ASSUME NEW x \in Executors, Work(x) PROVE TypeInv'
  <2>1. CASE RouteToProposal(x)
    <3>1. Busy(x) /\ executor[x].row \in Rows /\ executor[x].row.action \in Gated /\ Succeed(x)
      BY <2>1, PhaseBusy, BusyType DEF RouteToProposal
    <3>2. proposal' \in [Gated -> ProposalStatuses]
      BY <2>1, <3>1 DEF RouteToProposal, TypeOK, ProposalStatuses
    <3> QED BY <2>1, <3>1, <3>2, SucceedType DEF RouteToProposal, TypeOK
  <2>2. CASE ClaimProposal(x)
    <3>1. Busy(x) /\ executor[x] \in [phase : {"claimed", "executing", "ok", "error"}, row : Rows]
      BY <2>2, PhaseBusy, BusyType DEF ClaimProposal
    <3>2. executor' \in [Executors -> ExecutorStates]
      BY <2>2, <3>1 DEF ClaimProposal, TypeOK, ExecutorStates
    <3>3. \A y \in Executors : Busy(y)' => Busy(y) /\ executor'[y].row = executor[y].row
      BY <2>2, <3>1 DEF ClaimProposal, TypeOK, ExecutorStates, Busy
    <3> QED BY <2>2, <3>2, <3>3 DEF ClaimProposal, TypeOK, Held, Exclusive, AttemptsLeft, rowVars
  <2>3. CASE SkipProposal(x)
    <3>1. Busy(x) /\ executor[x].row \in Rows /\ Succeed(x)
      BY <2>3, PhaseBusy, BusyType DEF SkipProposal
    <3> QED BY <2>3, <3>1, SucceedType DEF SkipProposal, TypeOK
  <2>4. ASSUME NEW reached \in BOOLEAN, NEW ok \in BOOLEAN, CallHandler(x, reached, ok)
        PROVE  TypeInv'
    <3>1. Busy(x) /\ executor[x] \in [phase : {"claimed", "executing", "ok", "error"}, row : Rows]
      BY <2>4, PhaseBusy, BusyType DEF CallHandler
    <3>2. executor' \in [Executors -> ExecutorStates]
      BY <2>4, <3>1 DEF CallHandler, TypeOK, ExecutorStates
    <3>3. \A y \in Executors : Busy(y)' => Busy(y) /\ executor'[y].row = executor[y].row
      BY <2>4, <3>1 DEF CallHandler, TypeOK, ExecutorStates, Busy
    <3>4. posts' \in [Posted -> Nat]
      BY <2>4 DEF CallHandler, TypeOK
    <3> QED BY <2>4, <3>2, <3>3, <3>4 DEF CallHandler, TypeOK, Held, Exclusive, AttemptsLeft, rowVars
  <2>5. CASE CommitSuccess(x)
    <3>1. Busy(x) /\ executor[x].row \in Rows /\ Succeed(x)
      BY <2>5, PhaseBusy, BusyType DEF CommitSuccess
    <3>2. proposal' \in [Gated -> ProposalStatuses] /\ notes' \in [Annotations -> Nat]
      BY <2>5 DEF CommitSuccess, TypeOK, ProposalStatuses
    <3>4. executed' \subseteq Actions
      BY <2>5, <3>1, RowType DEF CommitSuccess, TypeOK
    <3> QED BY <2>5, <3>1, <3>2, <3>4, SucceedType DEF CommitSuccess, TypeOK
  <2>6. CASE CommitFailure(x)
    <3>1. Busy(x) /\ executor[x].row \in Rows /\ rowStatus[executor[x].row] = "pending"
      BY <2>6, PhaseBusy, BusyType DEF CommitFailure, Held
    <3>2. proposal' \in [Gated -> ProposalStatuses]
      BY <2>6 DEF CommitFailure, TypeOK, ProposalStatuses
    <3>4. attempts[executor[x].row] < MaxAttempts /\ attempts[executor[x].row] \in 0..MaxAttempts
      BY <3>1 DEF AttemptsLeft, TypeOK
    <3>5. executor' \in [Executors -> ExecutorStates]
      BY <2>6 DEF CommitFailure, TypeOK, ExecutorStates
    <3>6. attempts' \in [Rows -> 0..MaxAttempts] /\ rowStatus' \in [Rows -> RowStatuses]
      BY <2>6, <3>1, <3>4 DEF CommitFailure, TypeOK, RowStatuses
    <3>7. AttemptsLeft'
      BY <2>6, <3>1, <3>4 DEF CommitFailure, TypeOK, AttemptsLeft
    <3>8. Held' /\ Exclusive'
      BY <2>6, <3>1, LetGo DEF CommitFailure, TypeOK
    <3> QED BY <2>6, <3>1, <3>2, <3>5, <3>6, <3>7, <3>8 DEF CommitFailure, TypeOK
  <2> QED BY <1>3, <2>1, <2>2, <2>3, <2>4, <2>5, <2>6 DEF Work
<1>4. ASSUME NEW x \in Executors, NEW q \in Rows, ClaimNextOutbox(x, q) PROVE TypeInv'
  <2>1. executor' = [executor EXCEPT ![x] = [phase |-> "claimed", row |-> q]]
    BY <1>4 DEF ClaimNextOutbox
  <2>2. executor' \in [Executors -> ExecutorStates]
    BY <2>1 DEF TypeOK, ExecutorStates
  <2>3. Held'
    BY <1>4, <2>1 DEF ClaimNextOutbox, TypeOK, Held, Busy, rowVars
  <2>4. Exclusive'
    BY <1>4, <2>1 DEF ClaimNextOutbox, TypeOK, Exclusive, Busy
  <2> QED BY <1>4, <2>2, <2>3, <2>4 DEF ClaimNextOutbox, TypeOK, AttemptsLeft, rowVars
<1>5. ASSUME NEW x \in Executors, Crash(x) PROVE TypeInv'
  <2>1. executor' = [executor EXCEPT ![x] = Resting] /\ Busy(x)
    BY <1>5 DEF Crash, Busy
  <2>3. executor' \in [Executors -> ExecutorStates] /\ crashes' \in 0..MaxCrashes
    BY <1>5, <2>1 DEF Crash, TypeOK, ExecutorStates
  <2>4. Held' /\ Exclusive'
    BY <1>5, <2>1, LetGo DEF Crash, rowVars
  <2> QED BY <1>5, <2>3, <2>4 DEF Crash, TypeOK, AttemptsLeft, rowVars
<1>6. ASSUME NEW q \in Rows, BecomeReady(q) PROVE TypeInv'
  BY <1>6 DEF BecomeReady, TypeOK, Held, Exclusive, AttemptsLeft, Busy
<1>7. CASE UNCHANGED vars
  BY <1>7 DEF vars, rowVars, TypeOK, Held, Exclusive, AttemptsLeft, Busy
<1> QED BY <1>1, <1>2, <1>3, <1>4, <1>5, <1>6, <1>7 DEF Next

\* For any number of actions, executors and operators the state is well typed;
\* no row is charged more than max_attempts (mark_outbox_failed), which needs
\* that a row is held by one executor at a time (claim_next_outbox).
THEOREM OutboxTypeCorrect == Spec => []TypeOK
<1>1. Spec => []TypeInv
  BY TypeInit, TypeStep, PTL DEF Spec
<1>2. TypeInv => TypeOK
  BY DEF TypeInv
<1> QED BY <1>1, <1>2, PTL

-----------------------------------------------------------------------------
LEMMA OutboxInit == Init => OutboxInv
BY RowType DEF Init, OutboxInv, Phases, Locks, Recorded, Bounded, OkPosted, NotesDone,
   WebhooksDone, GatedDone, Busy, Returned, Resting, Owed, Posting, Posted, Rows, Actions

LEMMA Kinds ==
    /\ \A a \in Actions : Main(a) \in Rows
    /\ \A q \in Rows : Posting(q) => q = Main(q.action) /\ q.action \in Posted
    /\ \A q \in Rows : q.kind = "execute_proposal" => q = Main(q.action)
    /\ \A q \in Rows : q.kind = "response_action" /\ q.action \notin Gated => q = Main(q.action)
    /\ \A a \in Annotations \cup Webhooks : Main(a) = Row("response_action", a)
    /\ \A a \in Gated : Main(a) = Row("execute_proposal", a)
    /\ \A a, b \in Actions : Main(a) = Main(b) => a = b
BY KindsAssumption DEF Main, Posting, Posted, Rows, Row, Actions

\* Steps of operators, of the clock and of the dispatcher leave the executors
\* and their records alone.
LEMMA Bystander ==
    ASSUME TypeInv, OutboxInv,
           \A q \in Rows : rowStatus'[q] = "succeeded" <=> rowStatus[q] = "succeeded",
           UNCHANGED <<attempts, executor, notes, posts, executed, crashes>>
    PROVE  Phases' /\ Recorded' /\ Bounded' /\ OkPosted' /\ NotesDone' /\ WebhooksDone'
<1>1. Phases' /\ OkPosted'
  BY DEF OutboxInv, Phases, OkPosted, Returned
<1>2. Recorded'
  BY Kinds DEF OutboxInv, Recorded, TypeInv, TypeOK
<1>3. Bounded'
  BY DEF OutboxInv, Bounded, Owed, Returned
<1>4. NotesDone' /\ WebhooksDone'
  BY RowType DEF OutboxInv, NotesDone, WebhooksDone, Actions
<1> QED BY <1>1, <1>2, <1>3, <1>4

LEMMA OutboxOperate ==
    ASSUME TypeInv, OutboxInv, NEW o \in Operators, Operate(o)
    PROVE  OutboxInv'
<1>1. ASSUME NEW a \in Gated, NEW verb \in {"approve", "reject"}, CheckProposal(o, a, verb)
      PROVE  OutboxInv'
  <2>1. Locks' /\ GatedDone'
    BY <1>1 DEF CheckProposal, OutboxInv, Locks, GatedDone, Busy
  <2> QED BY <1>1, <2>1, Bystander DEF CheckProposal, OutboxInv, rowVars
<1>2. ASSUME operator[o] # Waiting, ~Locked(operator[o].action),
             NEW s \in {"approved", "rejected"},
             proposal' = [proposal EXCEPT ![operator[o].action] = s],
             UNCHANGED <<executor, posts>>
      PROVE  Locks' /\ GatedDone'
  <2>1. operator[o].action \in Gated
    BY <1>2, OperatorType DEF TypeInv
  <2>2. GatedDone'
    BY <1>2, <2>1 DEF OutboxInv, GatedDone, TypeInv, TypeOK
  <2>3. ASSUME NEW x \in Executors, Busy(x), executor[x].phase # "claimed",
               executor[x].row.kind = "execute_proposal"
        PROVE  executor[x].row.action # operator[o].action
    BY <1>2, <2>3, BusyType, RowType DEF Locked, TypeInv
  <2>4. Locks'
    BY <1>2, <2>1, <2>3, BusyType, RowType DEF OutboxInv, Locks, TypeInv, TypeOK, Busy
  <2> QED BY <2>2, <2>4
<1>3. CASE ApproveProposal(o)
  <2>1. Row("execute_proposal", operator[o].action) \in Rows
    BY <1>3, OperatorType, RowType DEF ApproveProposal, TypeInv
  <2>2. Locks' /\ GatedDone'
    BY <1>2, <1>3 DEF ApproveProposal
  <2>3. \A q \in Rows : rowStatus'[q] = "succeeded" <=> rowStatus[q] = "succeeded"
    BY <1>3, <2>1, EnqueueType DEF ApproveProposal
  <2> QED BY <1>3, <2>1, <2>2, <2>3, EnqueueType, Bystander DEF ApproveProposal, OutboxInv
<1>4. CASE RejectProposal(o)
  <2>1. Locks' /\ GatedDone'
    BY <1>2, <1>4 DEF RejectProposal
  <2> QED BY <1>4, <2>1, Bystander DEF RejectProposal, OutboxInv, rowVars
<1>5. CASE DropRequest(o)
  <2>1. Locks' /\ GatedDone'
    BY <1>5 DEF DropRequest, OutboxInv, Locks, GatedDone, Busy
  <2> QED BY <1>5, <2>1, Bystander DEF DropRequest, OutboxInv, rowVars
<1> QED BY <1>1, <1>3, <1>4, <1>5 DEF Operate

\* An executor that lets go of its row leaves the other transactions as they
\* were, if it touches no approved proposal but the one it has locked.
LEMMA LetGoLocks ==
    ASSUME TypeInv, OutboxInv, NEW x \in Executors, Busy(x),
           executor' = [executor EXCEPT ![x] = Resting], posts' = posts,
           \A a \in Gated : executor[x].row # Row("execute_proposal", a) =>
               (proposal[a] = "approved" => proposal'[a] = "approved")
    PROVE  Phases' /\ Locks' /\ OkPosted'
<1>1. \A y \in Executors : y # x => executor'[y] = executor[y]
  BY DEF TypeInv, TypeOK
<1>2. executor'[x] = Resting
  BY DEF TypeInv, TypeOK
<1>3. Phases'
  BY <1>1, <1>2 DEF Phases, Returned, Resting, OutboxInv
<1>4. OkPosted'
  BY <1>1, <1>2 DEF OkPosted, Resting, OutboxInv
<1>5. Locks'
  <2> SUFFICES ASSUME NEW y \in Executors, Busy(y)', executor'[y].phase # "claimed",
                      executor'[y].row.kind = "execute_proposal"
               PROVE  proposal'[executor'[y].row.action] = "approved"
    BY DEF Locks
  <2>1. y # x /\ Busy(y) /\ executor'[y] = executor[y]
    BY <1>1, <1>2 DEF Busy
  <2>2. executor[y].row # executor[x].row /\ executor[y].row \in Rows
    BY <2>1, BusyType DEF TypeInv, Exclusive
  <2>3. executor[y].row.action \in Gated
        /\ executor[y].row = Row("execute_proposal", executor[y].row.action)
    BY <2>1, <2>2, RowType
  <2>4. proposal[executor[y].row.action] = "approved"
    BY <2>1 DEF OutboxInv, Locks
  <2> QED BY <2>1, <2>2, <2>3, <2>4
<1> QED BY <1>3, <1>4, <1>5

\* Settling a row pays for the call that is still owed.
LEMMA SucceedBounded ==
    ASSUME TypeInv, OutboxInv, NEW x \in Executors, Busy(x), Succeed(x),
           UNCHANGED <<posts, crashes>>
    PROVE  Bounded'
<1>1. executor[x].row \in Rows
  BY BusyType DEF TypeInv
<1>2. rowStatus'[executor[x].row] = "succeeded"
  BY <1>1 DEF Succeed, TypeInv, TypeOK
<1> SUFFICES ASSUME NEW q \in Rows, Posting(q)
             PROVE  /\ posts[q.action] <= attempts[q] + crashes + 1
                    /\ ~Owed(q)' => posts[q.action] <= attempts[q] + crashes
  BY DEF Bounded, Succeed
<1>3. CASE q = executor[x].row
  BY <1>2, <1>3 DEF OutboxInv, Bounded, Owed
<1>4. CASE q # executor[x].row
  <2>1. Owed(q) => Owed(q)'
    BY <1>4, <1>1 DEF Owed, Returned, Succeed, TypeInv, TypeOK
  <2> QED BY <2>1 DEF OutboxInv, Bounded
<1> QED BY <1>3, <1>4

\* A settled row records what was done, for the row that executes the action.
LEMMA SucceedRecorded ==
    ASSUME TypeInv, OutboxInv, NEW x \in Executors, Busy(x), Succeed(x),
           executed' \in {executed, executed \cup {executor[x].row.action}},
           executed' # executed => executor[x].row = Main(executor[x].row.action)
    PROVE  Recorded'
<1>1. executor[x].row \in Rows
  BY BusyType DEF TypeInv
<1>2. \A q \in Rows : rowStatus[q] = "succeeded" \/ q = executor[x].row
                          => rowStatus'[q] = "succeeded"
  BY <1>1 DEF Succeed, TypeInv, TypeOK
<1>3. \A a \in executed : Main(a) \in Rows
  BY Kinds DEF TypeInv, TypeOK
<1> QED BY <1>1, <1>2, <1>3 DEF OutboxInv, Recorded

LEMMA OutboxWork ==
    ASSUME TypeInv, OutboxInv, NEW x \in Executors, Work(x)
    PROVE  OutboxInv'
<1> DEFINE q == executor[x].row
<1>1. CASE RouteToProposal(x)
  <2>1. Busy(x) /\ q \in Rows /\ q.kind = "response_action" /\ q.action \in Gated /\ Succeed(x)
    BY <1>1, PhaseBusy, BusyType DEF RouteToProposal, TypeInv
  <2>2. \A a \in Gated : proposal'[a] = proposal[a] \/ (proposal[a] = "absent" /\ proposal'[a] = "proposed")
    BY <1>1, <2>1 DEF RouteToProposal, TypeInv, TypeOK
  <2>3. Phases' /\ Locks' /\ OkPosted'
    BY <1>1, <2>1, <2>2, LetGoLocks DEF RouteToProposal, Succeed
  <2>4. Bounded' /\ Recorded'
    BY <1>1, <2>1, SucceedBounded, SucceedRecorded DEF RouteToProposal
  <2>5. NotesDone' /\ WebhooksDone'
    BY <1>1, <2>1, KindsAssumption
       DEF RouteToProposal, Succeed, OutboxInv, NotesDone, WebhooksDone, TypeInv, TypeOK, Row, Rows, Actions
  <2>6. GatedDone'
    BY <1>1, <2>2 DEF RouteToProposal, OutboxInv, GatedDone
  <2> QED BY <2>3, <2>4, <2>5, <2>6 DEF OutboxInv
<1>2. CASE SkipProposal(x)
  <2>1. Busy(x) /\ q \in Rows /\ q.kind = "execute_proposal" /\ Succeed(x)
    BY <1>2, PhaseBusy, BusyType DEF SkipProposal, TypeInv
  <2>2. Phases' /\ Locks' /\ OkPosted'
    BY <1>2, <2>1, LetGoLocks DEF SkipProposal, Succeed
  <2>3. Bounded' /\ Recorded'
    BY <1>2, <2>1, SucceedBounded, SucceedRecorded DEF SkipProposal
  <2>4. NotesDone' /\ WebhooksDone'
    BY <1>2, <2>1
       DEF SkipProposal, Succeed, OutboxInv, NotesDone, WebhooksDone, TypeInv, TypeOK, Row, Rows, Actions
  <2>5. GatedDone'
    BY <1>2 DEF SkipProposal, OutboxInv, GatedDone
  <2> QED BY <2>2, <2>3, <2>4, <2>5 DEF OutboxInv
<1>3. CASE ClaimProposal(x)
  <2>1. Busy(x) /\ q \in Rows /\ q.kind = "execute_proposal" /\ executor[x].phase = "claimed"
        /\ executor[x] \in [phase : {"claimed", "executing", "ok", "error"}, row : Rows]
    BY <1>3, PhaseBusy, BusyType DEF ClaimProposal, TypeInv
  <2>2. /\ \A y \in Executors \ {x} : executor'[y] = executor[y]
        /\ executor'[x].phase = "executing" /\ executor'[x].row = q
    BY <1>3, <2>1 DEF ClaimProposal, TypeInv, TypeOK
  <2>3. Phases' /\ OkPosted'
    BY <1>3, <2>1, <2>2 DEF ClaimProposal, OutboxInv, Phases, OkPosted, Returned
  <2>4. Locks'
    BY <1>3, <2>1, <2>2 DEF ClaimProposal, OutboxInv, Locks, Busy
  <2>5. \A s \in Rows : Owed(s) => Owed(s)'
    BY <1>3, <2>1, <2>2 DEF ClaimProposal, Owed, Returned, rowVars
  <2>6. Bounded'
    BY <1>3, <2>5 DEF ClaimProposal, OutboxInv, Bounded, rowVars
  <2>7. Recorded' /\ NotesDone' /\ WebhooksDone' /\ GatedDone'
    BY <1>3 DEF ClaimProposal, OutboxInv, Recorded, NotesDone, WebhooksDone, GatedDone, rowVars
  <2> QED BY <2>3, <2>4, <2>6, <2>7 DEF OutboxInv
<1>4. ASSUME NEW reached \in BOOLEAN, NEW ok \in BOOLEAN, CallHandler(x, reached, ok)
      PROVE  OutboxInv'
  <2>1. Busy(x) /\ q \in Rows
        /\ executor[x] \in [phase : {"claimed", "executing", "ok", "error"}, row : Rows]
    BY <1>4, PhaseBusy, BusyType DEF CallHandler, TypeInv
  <2>2. executor[x].phase \in {"claimed", "executing"}
        /\ (executor[x].phase = "claimed" => q.kind = "response_action" /\ q.action \notin Gated)
        /\ (executor[x].phase = "executing" => q.kind = "execute_proposal")
    BY <1>4 DEF CallHandler, OutboxInv, Phases
  <2>3. q = Main(q.action) /\ rowStatus[q] = "pending"
    BY <2>1, <2>2, Kinds DEF TypeInv, Held
  <2>4. /\ \A y \in Executors \ {x} : executor'[y] = executor[y]
        /\ executor'[x].phase \in {"ok", "error"} /\ executor'[x].row = q
        /\ executor'[x].phase = "ok" => reached
    BY <1>4, <2>1 DEF CallHandler, TypeInv, TypeOK
  <2>5. /\ \A a \in Posted : posts'[a] \in {posts[a], posts[a] + 1}
        /\ \A a \in Posted : a # q.action => posts'[a] = posts[a]
        /\ \A a \in Posted : a = q.action /\ reached => posts'[a] = posts[a] + 1
        /\ \A a \in Posted : posts[a] \in Nat
    BY <1>4 DEF CallHandler, TypeInv, TypeOK
  <2>6. UNCHANGED <<rowVars, proposal, notes, executed, crashes>>
    BY <1>4 DEF CallHandler
  <2>7. Phases'
    BY <2>3, <2>4 DEF OutboxInv, Phases, Returned
  <2>8. Locks'
    <3>1. q.kind = "execute_proposal" => proposal[q.action] = "approved"
      BY <2>1, <2>2 DEF OutboxInv, Locks
    <3> QED BY <3>1, <2>4, <2>6 DEF OutboxInv, Locks, Busy
  <2>9. OkPosted'
    BY <2>4, <2>5 DEF OutboxInv, OkPosted
  <2>10. \A s \in Rows : s = q => ~Owed(s)
    BY <2>1, <2>2, <2>3 DEF Owed, Returned, TypeInv, Exclusive
  <2>11. \A s \in Rows : s = q \/ Owed(s) => Owed(s)'
    BY <2>1, <2>2, <2>4, <2>6 DEF Owed, Returned, rowVars
  <2>12. Bounded'
    <3> SUFFICES ASSUME NEW s \in Rows, Posting(s)
                 PROVE  /\ posts'[s.action] <= attempts[s] + crashes + 1
                        /\ ~Owed(s)' => posts'[s.action] <= attempts[s] + crashes
      BY <2>6 DEF Bounded, rowVars
    <3>1. s.action \in Posted /\ s = Main(s.action)
      BY Kinds
    <3>2. /\ posts[s.action] <= attempts[s] + crashes + 1
          /\ ~Owed(s) => posts[s.action] <= attempts[s] + crashes
      BY DEF OutboxInv, Bounded
    <3>3. CASE s.action = q.action
      <4>1. s = q
        BY <2>3, <3>1, <3>3
      <4>2. attempts[s] \in Nat /\ crashes \in Nat
        BY AttemptsAssumption, CrashesAssumption DEF TypeInv, TypeOK
      <4>3. posts[s.action] <= attempts[s] + crashes /\ Owed(s)'
        BY <2>10, <2>11, <3>2, <4>1
      <4> QED BY <2>5, <3>1, <4>2, <4>3
    <3>4. CASE s.action # q.action
      BY <2>5, <2>11, <3>1, <3>2, <3>4
    <3> QED BY <3>3, <3>4
  <2>13. Recorded' /\ NotesDone'
    BY <2>6 DEF OutboxInv, Recorded, NotesDone, rowVars
  <2>14. WebhooksDone' /\ GatedDone'
    BY <2>5, <2>6 DEF OutboxInv, WebhooksDone, GatedDone, rowVars, Posted
  <2> QED BY <2>7, <2>8, <2>9, <2>12, <2>13, <2>14 DEF OutboxInv
<1>5. CASE CommitSuccess(x)
  <2>1. Busy(x) /\ q \in Rows /\ Succeed(x) /\ q = Main(q.action) /\ rowStatus[q] = "pending"
    BY <1>5, PhaseBusy, BusyType DEF CommitSuccess, TypeInv, Held, OutboxInv, Phases, Returned
  <2>2. q.action \in Actions
    BY <2>1, RowType
  <2>3. Phases' /\ Locks' /\ OkPosted'
    <3>1. \A a \in Gated : q # Row("execute_proposal", a) => proposal'[a] = proposal[a]
      BY <1>5, <2>1, Kinds DEF CommitSuccess
    <3> QED BY <1>5, <2>1, <3>1, LetGoLocks DEF CommitSuccess, Succeed
  <2>4. Bounded'
    BY <1>5, <2>1, SucceedBounded DEF CommitSuccess
  <2>5. Recorded'
    BY <1>5, <2>1, SucceedRecorded DEF CommitSuccess
  <2>6. \A a \in Annotations \cup Webhooks :
          /\ a = q.action => /\ Row("response_action", a) = q
                             /\ rowStatus'[Row("response_action", a)] = "succeeded"
          /\ a # q.action => rowStatus'[Row("response_action", a)] = rowStatus[Row("response_action", a)]
    <3>1. \A a \in Annotations \cup Webhooks :
            Row("response_action", a) \in Rows /\ Row("response_action", a).action = a
      BY RowType DEF Row, Actions
    <3>2. \A a \in Annotations \cup Webhooks : a = q.action => Row("response_action", a) = q
      BY <2>1, Kinds
    <3>3. rowStatus' = [rowStatus EXCEPT ![q] = "succeeded"]
      BY <2>1 DEF Succeed
    <3> QED BY <3>1, <3>2, <3>3, <2>1 DEF TypeInv, TypeOK
  <2>7. NotesDone'
    <3> SUFFICES ASSUME NEW a \in Annotations
                 PROVE  notes'[a] = IF rowStatus'[Row("response_action", a)] = "succeeded" THEN 1 ELSE 0
      BY DEF NotesDone
    <3>1. notes'[a] = IF a = q.action THEN notes[a] + 1 ELSE notes[a]
      BY <1>5 DEF CommitSuccess
    <3>2. notes[a] = IF rowStatus[Row("response_action", a)] = "succeeded" THEN 1 ELSE 0
      BY DEF OutboxInv, NotesDone
    <3> QED BY <2>1, <2>6, <3>1, <3>2
  <2>8. \A a \in Posted : a = q.action => posts'[a] > 0
    BY <1>5 DEF CommitSuccess, OutboxInv, OkPosted
  <2>9. WebhooksDone'
    BY <1>5, <2>6, <2>8 DEF CommitSuccess, OutboxInv, WebhooksDone, Posted
  <2>10. GatedDone'
    BY <1>5, <2>8 DEF CommitSuccess, OutboxInv, GatedDone, Posted
  <2> QED BY <2>3, <2>4, <2>5, <2>7, <2>9, <2>10 DEF OutboxInv
<1>6. CASE CommitFailure(x)
  <2>1. Busy(x) /\ q \in Rows /\ q = Main(q.action) /\ rowStatus[q] = "pending"
    BY <1>6, PhaseBusy, BusyType DEF CommitFailure, TypeInv, Held, OutboxInv, Phases, Returned
  <2>2. /\ \A s \in Rows \ {q} : rowStatus'[s] = rowStatus[s] /\ attempts'[s] = attempts[s]
        /\ rowStatus'[q] # "succeeded" /\ attempts'[q] = attempts[q] + 1
        /\ UNCHANGED <<notes, posts, executed, crashes>>
    BY <1>6, <2>1 DEF CommitFailure, TypeInv, TypeOK
  <2>3. Phases' /\ Locks' /\ OkPosted'
    <3>1. \A a \in Gated : q # Row("execute_proposal", a) => proposal'[a] = proposal[a]
      BY <1>6, <2>1, Kinds DEF CommitFailure
    <3> QED BY <1>6, <2>1, <3>1, LetGoLocks DEF CommitFailure
  <2>4. \A s \in Rows : rowStatus'[s] = "succeeded" <=> rowStatus[s] = "succeeded"
    BY <2>1, <2>2
  <2>5. Bounded'
    <3> SUFFICES ASSUME NEW s \in Rows, Posting(s)
                 PROVE  /\ posts[s.action] <= attempts'[s] + crashes + 1
                        /\ ~Owed(s)' => posts[s.action] <= attempts'[s] + crashes
      BY <2>2 DEF Bounded
    <3>1. /\ posts[s.action] <= attempts[s] + crashes + 1
          /\ ~Owed(s) => posts[s.action] <= attempts[s] + crashes
      BY DEF OutboxInv, Bounded
    <3>2. CASE s = q
      <4>1. attempts[s] \in Nat /\ crashes \in Nat /\ posts[s.action] \in Nat
        BY AttemptsAssumption, CrashesAssumption, Kinds DEF TypeInv, TypeOK
      <4> QED BY <2>2, <3>1, <3>2, <4>1
    <3>3. CASE s # q
      <4>1. Owed(s) => Owed(s)'
        BY <1>6, <2>2, <3>3 DEF CommitFailure, Owed, Returned, TypeInv, TypeOK
      <4> QED BY <2>2, <3>1, <3>3, <4>1
    <3> QED BY <3>2, <3>3
  <2>6. Recorded'
    BY <2>2, <2>4, Kinds DEF OutboxInv, Recorded, TypeInv, TypeOK
  <2>7. NotesDone' /\ WebhooksDone'
    BY <2>2, <2>4, RowType DEF OutboxInv, NotesDone, WebhooksDone, Actions
  <2>8. GatedDone'
    BY <1>6 DEF CommitFailure, OutboxInv, GatedDone
  <2> QED BY <2>3, <2>5, <2>6, <2>7, <2>8 DEF OutboxInv
<1> QED BY <1>1, <1>2, <1>3, <1>4, <1>5, <1>6 DEF Work

LEMMA OutboxStep == TypeInv /\ OutboxInv /\ [Next]_vars => OutboxInv'
<1> SUFFICES ASSUME TypeInv, OutboxInv, [Next]_vars PROVE OutboxInv'
  OBVIOUS
<1>1. ASSUME NEW a \in Actions, Dispatch(a) PROVE OutboxInv'
  <2>1. Row("response_action", a) \in Rows
    BY RowType
  <2>2. \A q \in Rows : rowStatus'[q] = "succeeded" <=> rowStatus[q] = "succeeded"
    BY <1>1, <2>1, EnqueueType DEF Dispatch
  <2>3. Locks' /\ GatedDone'
    BY <1>1 DEF Dispatch, OutboxInv, Locks, GatedDone, Busy
  <2> QED BY <1>1, <2>1, <2>2, <2>3, EnqueueType, Bystander DEF Dispatch, OutboxInv
<1>2. ASSUME NEW x \in Executors, NEW q \in Rows, ClaimNextOutbox(x, q) PROVE OutboxInv'
  <2>1. /\ \A y \in Executors \ {x} : executor'[y] = executor[y]
        /\ executor[x] = Resting
        /\ executor'[x].phase = "claimed" /\ executor'[x].row = q
        /\ UNCHANGED <<rowVars, proposal, notes, posts, executed, crashes>>
    BY <1>2 DEF ClaimNextOutbox, TypeInv, TypeOK
  <2>2. Phases' /\ Locks' /\ OkPosted'
    BY <2>1 DEF OutboxInv, Phases, Locks, OkPosted, Returned, Busy
  <2>3. \A s \in Rows : Owed(s) => Owed(s)'
    BY <2>1 DEF Owed, Returned, Resting, rowVars
  <2>4. Bounded'
    BY <2>1, <2>3 DEF OutboxInv, Bounded, rowVars
  <2>5. Recorded' /\ NotesDone' /\ WebhooksDone' /\ GatedDone'
    BY <2>1 DEF OutboxInv, Recorded, NotesDone, WebhooksDone, GatedDone, rowVars
  <2> QED BY <2>2, <2>4, <2>5 DEF OutboxInv
<1>3. ASSUME NEW x \in Executors, Crash(x) PROVE OutboxInv'
  <2>1. Busy(x) /\ executor' = [executor EXCEPT ![x] = Resting] /\ crashes' = crashes + 1
        /\ UNCHANGED <<rowVars, proposal, notes, posts, executed>>
    BY <1>3 DEF Crash, Busy
  <2>2. Phases' /\ Locks' /\ OkPosted'
    BY <2>1, LetGoLocks
  <2>3. Bounded'
    <3> SUFFICES ASSUME NEW s \in Rows, Posting(s)
                 PROVE  posts[s.action] <= attempts[s] + (crashes + 1)
                        /\ posts[s.action] <= attempts[s] + (crashes + 1) + 1
      BY <2>1 DEF Bounded, rowVars
    <3>1. posts[s.action] <= attempts[s] + crashes + 1
      BY DEF OutboxInv, Bounded
    <3>2. attempts[s] \in Nat /\ crashes \in Nat /\ posts[s.action] \in Nat
      BY AttemptsAssumption, CrashesAssumption, Kinds DEF TypeInv, TypeOK
    <3> QED BY <3>1, <3>2
  <2>4. Recorded' /\ NotesDone' /\ WebhooksDone' /\ GatedDone'
    BY <2>1 DEF OutboxInv, Recorded, NotesDone, WebhooksDone, GatedDone, rowVars
  <2> QED BY <2>2, <2>3, <2>4 DEF OutboxInv
<1>4. ASSUME NEW q \in Rows, BecomeReady(q) PROVE OutboxInv'
  <2>1. Locks' /\ GatedDone'
    BY <1>4 DEF BecomeReady, OutboxInv, Locks, GatedDone, Busy
  <2> QED BY <1>4, <2>1, Bystander DEF BecomeReady, OutboxInv
<1>5. CASE UNCHANGED vars
  <2>1. Locks' /\ GatedDone'
    BY <1>5 DEF vars, OutboxInv, Locks, GatedDone, Busy
  <2> QED BY <1>5, <2>1, Bystander DEF vars, rowVars, OutboxInv
<1> QED BY <1>1, <1>2, <1>3, <1>4, <1>5, OutboxOperate, OutboxWork DEF Next

LEMMA OutboxAlways == Spec => [](TypeInv /\ OutboxInv)
BY TypeInit, TypeStep, OutboxInit, OutboxStep, PTL DEF Spec

-----------------------------------------------------------------------------
\* For any number of executors, operators, attempts and crashes, the endpoint
\* sees an action at most once per charged attempt and per lost transaction,
\* plus once (mark_outbox_failed, execute_one).
THEOREM OutboxPostsBounded == Spec => []PostsBounded
<1>1. OutboxInv => PostsBounded
  BY DEF OutboxInv, Bounded, PostsBounded, Posting
<1> QED BY <1>1, OutboxAlways, PTL

\* For any number of executors and operators, what the outbox reports as done
\* has been done, and a note is written once (handle_response_action,
\* handle_execute_proposal, execute_one).
THEOREM OutboxSucceededIsDone == Spec => []SucceededIsDone
<1>1. OutboxInv => SucceededIsDone
  BY DEF OutboxInv, NotesDone, WebhooksDone, GatedDone, SucceededIsDone
<1> QED BY <1>1, OutboxAlways, PTL

\* A step that changes posts is the handler of an executor whose row is the
\* one that records the action.
LEMMA PostStep ==
    ASSUME TypeInv, OutboxInv, Next, NEW a \in Posted, posts'[a] # posts[a]
    PROVE  \E x \in Executors :
               /\ Busy(x) /\ executor[x].row = Main(a)
               /\ a \in Gated => executor[x].phase = "executing"
<1>1. PICK x \in Executors : \E reached, ok \in BOOLEAN : CallHandler(x, reached, ok)
  BY DEF Next, Dispatch, Operate, CheckProposal, ApproveProposal, RejectProposal, DropRequest,
     Work, RouteToProposal, ClaimProposal, SkipProposal, CommitSuccess, CommitFailure, Crash,
     ClaimNextOutbox, BecomeReady
<1>2. executor[x].row.action = a
  BY <1>1 DEF CallHandler, TypeInv, TypeOK
<1>3. Busy(x) /\ executor[x].row \in Rows
  BY <1>1, PhaseBusy, BusyType DEF CallHandler, TypeInv
<1>4. CASE executor[x].phase = "executing"
  BY <1>2, <1>3, <1>4, Kinds DEF OutboxInv, Phases
<1>5. CASE executor[x].phase # "executing"
  BY <1>1, <1>2, <1>3, <1>5, Kinds DEF CallHandler
<1> QED BY <1>4, <1>5

\* Whatever approvals, rejections, retries and crashes race, a gated action is
\* posted only while its proposal is approved (the guarded update and the row
\* lock of handle_execute_proposal).
THEOREM OutboxPostedOnlyWhileApproved == Spec => PostedOnlyWhileApproved
<1>1. TypeInv /\ OutboxInv /\ [Next]_vars =>
          [\A a \in Gated : posts'[a] # posts[a] => proposal[a] = "approved"]_vars
  <2> SUFFICES ASSUME TypeInv, OutboxInv, Next, NEW a \in Gated, posts'[a] # posts[a]
               PROVE  proposal[a] = "approved"
    OBVIOUS
  <2>1. PICK x \in Executors :
            Busy(x) /\ executor[x].row = Main(a) /\ executor[x].phase = "executing"
    BY PostStep DEF Posted
  <2>2. executor[x].row.kind = "execute_proposal" /\ executor[x].row.action = a
    BY <2>1, Kinds DEF Row
  <2> QED BY <2>1, <2>2 DEF OutboxInv, Locks
<1> QED BY <1>1, OutboxAlways, PTL DEF Spec, PostedOnlyWhileApproved

\* An action whose execution is recorded is never posted again, for any number
\* of executors and of late approvals (the row of a recorded execution is
\* settled, and executors claim pending rows only).
THEOREM OutboxNeverPostedAgain == Spec => NeverPostedAgain
<1>1. TypeInv /\ OutboxInv /\ [Next]_vars =>
          [\A a \in Posted \cap executed : posts'[a] = posts[a]]_vars
  <2> SUFFICES ASSUME TypeInv, OutboxInv, Next, NEW a \in Posted \cap executed,
                      posts'[a] # posts[a]
               PROVE  FALSE
    OBVIOUS
  <2>1. PICK x \in Executors : Busy(x) /\ executor[x].row = Main(a)
    BY PostStep
  <2>2. rowStatus[Main(a)] = "pending"
    BY <2>1 DEF TypeInv, Held
  <2> QED BY <2>2 DEF OutboxInv, Recorded
<1> QED BY <1>1, OutboxAlways, PTL DEF Spec, NeverPostedAgain

=============================================================================
