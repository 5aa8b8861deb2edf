------------------------ MODULE RunLifecycleProofs ------------------------
(***************************************************************************)
(* Machine-checked proofs about RunLifecycle, for every number of          *)
(* investigations, runs, workers and events and every bound.               *)
(***************************************************************************)
EXTENDS RunLifecycle, TLAPS

-----------------------------------------------------------------------------
(* Types.                                                                  *)

\* What a busy worker holds: a run to report on and, once it reports, a body.
WorkerOK ==
    \A w \in Workers :
        /\ worker[w].phase # "idle" => worker[w].run \in Runs
        /\ worker[w].phase = "posting" => worker[w].body \in Bodies

\* A run that is live, or will be, has an attempt left.
AttemptsLeft ==
    \A r \in Runs :
        runStatus[r] \notin {"completed", "failed"} => attempts[r] < MaxAttempts

\* A run has an investigation exactly when it exists.
RunsOwned == \A r \in Runs : runStatus[r] = "unused" <=> runCase[r] = NoCase

TypeInv == TypeOK /\ WorkerOK /\ AttemptsLeft /\ RunsOwned

\* A single worker changes what it is doing.
LEMMA WorkerUpdate ==
    ASSUME TypeOK, WorkerOK, NEW w \in Workers, NEW x \in WorkerStates,
           worker' = [worker EXCEPT ![w] = x],
           x.phase # "idle" => x.run \in Runs,
           x.phase = "posting" => x.body \in Bodies
    PROVE  /\ worker' \in [Workers -> WorkerStates]
           /\ WorkerOK'
BY DEF TypeOK, WorkerOK

LEMMA IdleType == Idle \in WorkerStates /\ Idle.phase = "idle"
BY PostAttemptsAssumption DEF Idle, WorkerStates

\* What the posting worker sends is a request.
LEMMA RequestType ==
    ASSUME TypeOK, WorkerOK, NEW w \in Workers, worker[w].phase = "posting"
    PROVE  RequestOf(w) \in Requests
BY DEF TypeOK, WorkerOK, RequestOf, Requests, WorkerStates

\* Counting a fault keeps the bound.
LEMMA FaultType == ASSUME TypeOK, Fault PROVE faults' \in 0..MaxFaults
BY BoundsAssumption DEF TypeOK, Fault

LEMMA TypeInit == Init => TypeInv
BY MaxAttemptsAssumption, PostAttemptsAssumption, BoundsAssumption, IdleType
   DEF Init, TypeInv, TypeOK, WorkerOK, AttemptsLeft, RunsOwned, Idle, InvStatuses, RunStatuses

LEMMA TypeIngest == TypeInv /\ Ingest => TypeInv'
<1> SUFFICES ASSUME TypeInv, NEW e \in Events, NEW i \in Investigations,
                    \/ \E r \in Runs, bypass \in BOOLEAN : PromoteAlert(e, i, r, bypass)
                    \/ AutoCloseAlert(e, i)
                    \/ AttachEvent(e, i)
                    \/ CheckAndReopen(e, i)
             PROVE  TypeInv'
  BY DEF Ingest
<1> USE DEF TypeInv, invVars, runVars, leaseVars, netVars, boundVars
<1>1. ASSUME NEW r \in Runs, NEW bypass \in BOOLEAN, PromoteAlert(e, i, r, bypass)
      PROVE  TypeInv'
  <2>1. StartRun(i, r, runStatus, bypass)
    BY <1>1 DEF PromoteAlert
  <2>2. /\ runCase' \in [Runs -> Investigations \cup {NoCase}]
        /\ runCase' = [runCase EXCEPT ![r] = i]
        /\ runStatus' \in [Runs -> RunStatuses]
        /\ due' = [due EXCEPT ![r] = bypass]
        /\ \A s \in Runs : runStatus'[s] = IF s = r THEN "active" ELSE runStatus[s]
    BY <2>1 DEF StartRun, TypeOK, RunStatuses
  <2>3. runStatus[r] = "unused"
    BY <2>1 DEF StartRun
  <2>4. TypeOK'
    BY <1>1, <2>2 DEF PromoteAlert, TypeOK, InvStatuses
  <2>5. WorkerOK'
    BY <1>1 DEF PromoteAlert, WorkerOK
  <2>6. AttemptsLeft'
    BY <1>1, <2>2, <2>3 DEF PromoteAlert, AttemptsLeft
  <2>7. RunsOwned'
    BY <2>2, NoCaseAssumption DEF TypeOK, RunsOwned
  <2> QED BY <2>4, <2>5, <2>6, <2>7
<1>2. CASE AutoCloseAlert(e, i)
  BY <1>2 DEF AutoCloseAlert, TypeOK, WorkerOK, AttemptsLeft, RunsOwned, InvStatuses
<1>3. CASE AttachEvent(e, i)
  <2>1. newEvidence' \in [Investigations -> BOOLEAN]
    <3> DEFINE flag == newEvidence[i] \/ LiveRunsOf(i) # {}
    <3>1. newEvidence' = [newEvidence EXCEPT ![i] = flag]
      BY <1>3 DEF AttachEvent
    <3>2. flag \in BOOLEAN
      OBVIOUS
    <3> HIDE DEF flag
    <3> QED BY <3>1, <3>2 DEF TypeOK
  <2>2. evidence' \in [Investigations -> SUBSET Events] /\ flagged' \subseteq Events
    BY <1>3 DEF AttachEvent, TypeOK
  <2>3. TypeOK'
    BY <1>3, <2>1, <2>2 DEF AttachEvent, TypeOK
  <2>4. WorkerOK' /\ AttemptsLeft' /\ RunsOwned'
    BY <1>3 DEF AttachEvent, WorkerOK, AttemptsLeft, RunsOwned
  <2> QED BY <2>3, <2>4
<1>4. CASE CheckAndReopen(e, i)
  <2>1. CASE UNCHANGED <<runCase, runStatus, due>>
    BY <1>4, <2>1 DEF CheckAndReopen, TypeOK, WorkerOK, AttemptsLeft, RunsOwned, InvStatuses
  <2>2. ASSUME NEW r \in Runs, StartRun(i, r, runStatus, TRUE)
        PROVE  TypeInv'
    <3>1. /\ runCase' \in [Runs -> Investigations \cup {NoCase}]
          /\ runCase' = [runCase EXCEPT ![r] = i]
          /\ runStatus' \in [Runs -> RunStatuses]
          /\ due' = [due EXCEPT ![r] = TRUE]
          /\ \A s \in Runs : runStatus'[s] = IF s = r THEN "active" ELSE runStatus[s]
      BY <2>2 DEF StartRun, TypeOK, RunStatuses
    <3>2. runStatus[r] = "unused"
      BY <2>2 DEF StartRun
    <3>3. TypeOK'
      BY <1>4, <3>1 DEF CheckAndReopen, TypeOK, InvStatuses
    <3>4. WorkerOK'
      BY <1>4 DEF CheckAndReopen, WorkerOK
    <3>5. AttemptsLeft'
      BY <1>4, <3>1, <3>2 DEF CheckAndReopen, AttemptsLeft
    <3>6. RunsOwned'
      BY <3>1, NoCaseAssumption DEF TypeOK, RunsOwned
    <3> QED BY <3>3, <3>4, <3>5, <3>6
  <2> QED BY <1>4, <2>1, <2>2 DEF CheckAndReopen
<1> QED BY <1>1, <1>2, <1>3, <1>4

LEMMA TypeWorkerStep == TypeInv /\ WorkerStep => TypeInv'
<1> SUFFICES ASSUME TypeInv, NEW w \in Workers,
                    \/ \E r \in Runs, answered \in BOOLEAN : ClaimRun(w, r, answered)
                    \/ HeartbeatRun(w)
                    \/ \E b \in Bodies : FinishGraph(w, b)
                    \/ PostRequest(w)
                    \/ PostTimeout(w)
                    \/ CrashWorker(w)
             PROVE  TypeInv'
  BY DEF WorkerStep
<1> USE DEF TypeInv, invVars, runVars, leaseVars, netVars, boundVars
<1>1. ASSUME NEW r \in Runs, NEW answered \in BOOLEAN, ClaimRun(w, r, answered)
      PROVE  TypeInv'
  <2>1. /\ runCase[r] \in Investigations \cup {NoCase}
        /\ grants' \in [Runs -> Nat]
        /\ lease' \in [Runs -> Nat]
        /\ expired' \in [Runs -> BOOLEAN]
    BY <1>1 DEF ClaimRun, TypeOK
  <2>2. evidence[runCase[r]] \in SUBSET Events
    BY <1>1, NoCaseAssumption DEF ClaimRun, Claimable, TypeOK, RunsOwned
  <2>3. snapshot' \in [Runs -> SUBSET Events]
    BY <1>1, <2>2 DEF ClaimRun, TypeOK
  <2> DEFINE x == [phase |-> "running", run |-> r, lease |-> grants[r] + 1,
                   body |-> "none", tries |-> 0]
  <2>4. CASE UNCHANGED faults /\ worker' = [worker EXCEPT ![w] = x]
    <3>1. x \in WorkerStates /\ x.phase = "running" /\ x.run = r
      BY PostAttemptsAssumption DEF WorkerStates, TypeOK
    <3> HIDE DEF x
    <3>2. worker' \in [Workers -> WorkerStates] /\ WorkerOK'
      BY <2>4, <3>1, WorkerUpdate
    <3>3. TypeOK'
      BY <1>1, <2>1, <2>3, <2>4, <3>2 DEF ClaimRun, TypeOK
    <3>4. AttemptsLeft' /\ RunsOwned'
      BY <1>1 DEF ClaimRun, AttemptsLeft, RunsOwned
    <3> QED BY <3>2, <3>3, <3>4
  <2>5. CASE Fault /\ UNCHANGED worker
    <3>1. TypeOK'
      BY <1>1, <2>1, <2>3, <2>5, FaultType DEF ClaimRun, TypeOK
    <3> QED BY <1>1, <2>5, <3>1 DEF ClaimRun, WorkerOK, AttemptsLeft, RunsOwned
  <2> HIDE DEF x
  <2> QED BY <1>1, <2>4, <2>5 DEF ClaimRun, x
<1>2. CASE HeartbeatRun(w)
  BY <1>2 DEF HeartbeatRun, TypeOK, WorkerOK, AttemptsLeft, RunsOwned
<1>3. ASSUME NEW b \in Bodies, FinishGraph(w, b)
      PROVE  TypeInv'
  <2> DEFINE x == [worker[w] EXCEPT !.phase = "posting", !.body = b]
  <2>1. worker' = [worker EXCEPT ![w] = x]
    BY <1>3 DEF FinishGraph, TypeOK, WorkerStates
  <2>2. /\ x \in WorkerStates /\ x.phase = "posting" /\ x.run \in Runs /\ x.body \in Bodies
    BY <1>3 DEF FinishGraph, TypeOK, WorkerOK, WorkerStates
  <2> HIDE DEF x
  <2>3. worker' \in [Workers -> WorkerStates] /\ WorkerOK'
    BY <2>1, <2>2, WorkerUpdate
  <2> QED BY <1>3, <2>3 DEF FinishGraph, TypeOK, AttemptsLeft, RunsOwned
<1>4. ASSUME worker[w].phase = "posting", NEW n \in 1..PostAttempts,
             worker' = [worker EXCEPT ![w].tries = n]
      PROVE  worker' \in [Workers -> WorkerStates] /\ WorkerOK'
  <2> DEFINE x == [worker[w] EXCEPT !.tries = n]
  <2>1. worker' = [worker EXCEPT ![w] = x]
    BY <1>4 DEF TypeOK, WorkerStates
  <2>2. x \in WorkerStates /\ x.phase = "posting" /\ x.run \in Runs /\ x.body \in Bodies
    BY <1>4, PostAttemptsAssumption DEF TypeOK, WorkerOK, WorkerStates
  <2> HIDE DEF x
  <2> QED BY <2>1, <2>2, WorkerUpdate
<1>5. CASE PostRequest(w)
  <2>1. worker' \in [Workers -> WorkerStates] /\ WorkerOK'
    <3>1. 1 \in 1..PostAttempts
      BY PostAttemptsAssumption
    <3> QED BY <1>4, <1>5, <3>1 DEF PostRequest
  <2>2. wire' \subseteq Requests
    BY <1>5, RequestType DEF PostRequest, TypeOK
  <2> QED BY <1>5, <2>1, <2>2 DEF PostRequest, TypeOK, AttemptsLeft, RunsOwned
<1>6. CASE PostTimeout(w)
  <2>1. faults' \in 0..MaxFaults
    BY <1>6, FaultType DEF PostTimeout, TypeOK
  <2>2. wire' \subseteq Requests
    BY <1>6, RequestType DEF PostTimeout, TypeOK
  <2>3. worker' \in [Workers -> WorkerStates] /\ WorkerOK'
    <3>1. CASE worker' = [worker EXCEPT ![w] = Idle]
      BY <3>1, IdleType, WorkerUpdate
    <3>2. CASE /\ worker[w].tries < PostAttempts
               /\ worker' = [worker EXCEPT ![w].tries = @ + 1]
      <4>1. worker[w].tries + 1 \in 1..PostAttempts
        BY <3>2, PostAttemptsAssumption DEF TypeOK, WorkerStates
      <4>2. worker' = [worker EXCEPT ![w].tries = worker[w].tries + 1]
        BY <3>2
      <4> QED BY <1>4, <1>6, <4>1, <4>2 DEF PostTimeout
    <3> QED BY <1>6, <3>1, <3>2 DEF PostTimeout
  <2> QED BY <1>6, <2>1, <2>2, <2>3 DEF PostTimeout, TypeOK, AttemptsLeft, RunsOwned
<1>7. CASE CrashWorker(w)
  <2>1. worker' \in [Workers -> WorkerStates] /\ WorkerOK'
    BY <1>7, IdleType, WorkerUpdate DEF CrashWorker
  <2> QED BY <1>7, <2>1, FaultType DEF CrashWorker, TypeOK, AttemptsLeft, RunsOwned
<1> QED BY <1>1, <1>2, <1>3, <1>5, <1>6, <1>7

\* Answering a request touches its sender, the wire and the fault count only.
LEMMA AnswerType ==
    ASSUME TypeOK, WorkerOK, NEW m \in wire, Answer(m)
    PROVE  /\ worker' \in [Workers -> WorkerStates]
           /\ WorkerOK'
           /\ wire' \subseteq Requests
           /\ faults' \in 0..MaxFaults
<1>1. m.from \in Workers
  BY DEF TypeOK, Requests
<1>2. wire' \subseteq Requests
  BY DEF Answer, TypeOK
<1>3. faults' \in 0..MaxFaults
  BY FaultType DEF Answer, TypeOK
<1>4. CASE worker' = [worker EXCEPT ![m.from] = Idle]
  BY <1>1, <1>2, <1>3, <1>4, IdleType, WorkerUpdate
<1>5. CASE UNCHANGED worker
  BY <1>2, <1>3, <1>5 DEF TypeOK, WorkerOK
<1> QED BY <1>4, <1>5 DEF Answer

LEMMA DropLeaseType ==
    ASSUME TypeOK, NEW r \in Runs, DropLease(r)
    PROVE  lease' \in [Runs -> Nat] /\ expired' \in [Runs -> BOOLEAN]
BY DEF TypeOK, DropLease

\* What the tail of complete_run does to the runs: r gets its final status
\* and at most one unused run of the same case becomes active.
LEMMA FollowUpType ==
    ASSUME TypeOK, RunsOwned, NEW i \in Investigations, NEW r \in Runs, NEW b \in CompleteBodies,
           FollowUp(i, r, b)
    PROVE  /\ newEvidence' \in [Investigations -> BOOLEAN]
           /\ due' \in [Runs -> BOOLEAN]
           /\ \/ /\ runStatus' = [runStatus EXCEPT ![r] = StatusOf(b)]
                 /\ UNCHANGED runCase
              \/ \E r2 \in Runs :
                    /\ b \in CompletedBodies /\ invStatus'[i] = "active"
                    /\ runStatus[r2] = "unused"
                    /\ runStatus' = [[runStatus EXCEPT ![r] = StatusOf(b)] EXCEPT ![r2] = "active"]
                    /\ runCase' = [runCase EXCEPT ![r2] = i]
<1>1. CASE UNCHANGED <<newEvidence, runCase, due>> /\ runStatus' = [runStatus EXCEPT ![r] = StatusOf(b)]
  BY <1>1 DEF TypeOK
<1>2. ASSUME NEW r2 \in Runs, StartRun(i, r2, [runStatus EXCEPT ![r] = StatusOf(b)], TRUE),
             newEvidence' = [newEvidence EXCEPT ![i] = FALSE],
             b \in CompletedBodies, invStatus'[i] = "active"
      PROVE  /\ newEvidence' \in [Investigations -> BOOLEAN]
             /\ due' \in [Runs -> BOOLEAN]
             /\ runStatus[r2] = "unused"
             /\ runStatus' = [[runStatus EXCEPT ![r] = StatusOf(b)] EXCEPT ![r2] = "active"]
             /\ runCase' = [runCase EXCEPT ![r2] = i]
  BY <1>2 DEF StartRun, TypeOK
<1> QED BY <1>1, <1>2 DEF FollowUp

LEMMA StatusOfType == \A b \in CompleteBodies : StatusOf(b) \in {"completed", "failed", "halted_budget"}
BY DEF StatusOf, CompleteBodies, CompletedBodies

LEMMA TypeComplete ==
    ASSUME TypeInv, NEW m \in wire, NEW veto \in BOOLEAN, CompleteRun(m, veto)
    PROVE  TypeInv'
<1> DEFINE r == m.run
           i == runCase[r]
<1> USE DEF TypeInv, invVars, runVars, leaseVars, netVars, boundVars
<1>1. r \in Runs /\ m.body \in CompleteBodies
  BY DEF TypeOK, Requests, CompleteRun
<1>2. i \in Investigations /\ runStatus[r] = "active"
  BY <1>1, NoCaseAssumption DEF CompleteRun, Owns, TypeOK, RunsOwned
<1>3. /\ FollowUp(i, r, m.body)
      /\ DropLease(r)
      /\ Answer(m)
      /\ ApplyDisposition(i, EffectiveDisposition(m, veto))
      /\ verdicts' = [verdicts EXCEPT ![r] = IF m.body \in CompletedBodies THEN @ + 1 ELSE @]
      /\ UNCHANGED <<evidence, decidedReview, attempts, flagged, unlocks>>
  BY DEF CompleteRun
<1> HIDE DEF r, i
<1>4. invStatus' \in [Investigations -> InvStatuses]
  BY <1>2, <1>3 DEF ApplyDisposition, TypeOK, InvStatuses
<1>5. pendingReview' \in [Investigations -> BOOLEAN]
  <2> DEFINE flag == pendingReview[i] \/ EffectiveDisposition(m, veto) = "escalate"
  <2>1. flag \in BOOLEAN
    OBVIOUS
  <2>2. pendingReview' = [pendingReview EXCEPT ![i] = flag]
    BY <1>3 DEF ApplyDisposition
  <2> HIDE DEF flag
  <2> QED BY <2>1, <2>2 DEF TypeOK
<1>6. verdicts' \in [Runs -> Nat]
  BY <1>1, <1>3 DEF TypeOK
<1>7. /\ lease' \in [Runs -> Nat] /\ expired' \in [Runs -> BOOLEAN]
      /\ UNCHANGED <<grants, snapshot>>
  BY <1>1, <1>3, DropLeaseType DEF DropLease
<1>8. /\ worker' \in [Workers -> WorkerStates]
      /\ WorkerOK'
      /\ wire' \subseteq Requests
      /\ faults' \in 0..MaxFaults
  BY <1>3, AnswerType
<1>9. /\ newEvidence' \in [Investigations -> BOOLEAN]
      /\ due' \in [Runs -> BOOLEAN]
      /\ \/ /\ runStatus' = [runStatus EXCEPT ![r] = StatusOf(m.body)]
            /\ UNCHANGED runCase
         \/ \E r2 \in Runs :
               /\ m.body \in CompletedBodies /\ invStatus'[i] = "active"
               /\ runStatus[r2] = "unused"
               /\ runStatus' = [[runStatus EXCEPT ![r] = StatusOf(m.body)] EXCEPT ![r2] = "active"]
               /\ runCase' = [runCase EXCEPT ![r2] = i]
  BY <1>1, <1>2, <1>3, FollowUpType
<1>10. StatusOf(m.body) \in {"completed", "failed", "halted_budget"}
  BY <1>1, StatusOfType
<1>11. /\ runStatus' \in [Runs -> RunStatuses]
       /\ runCase' \in [Runs -> Investigations \cup {NoCase}]
       /\ RunsOwned'
       /\ AttemptsLeft'
  BY <1>1, <1>2, <1>3, <1>9, <1>10, NoCaseAssumption DEF TypeOK, RunsOwned, AttemptsLeft, RunStatuses
<1>12. TypeOK'
  BY <1>3, <1>4, <1>5, <1>6, <1>7, <1>8, <1>9, <1>11 DEF TypeOK
<1> QED BY <1>8, <1>11, <1>12

LEMMA TypeRelease ==
    ASSUME TypeInv, NEW m \in wire, ReleaseRun(m)
    PROVE  TypeInv'
<1> USE DEF TypeInv, invVars, runVars, leaseVars, netVars, boundVars
<1>1. m.run \in Runs
  BY DEF TypeOK, Requests
<1>2. runStatus[m.run] = "active" /\ attempts[m.run] + 1 \in 0..MaxAttempts
  BY <1>1, MaxAttemptsAssumption DEF ReleaseRun, Owns, TypeOK, AttemptsLeft
<1>3. /\ worker' \in [Workers -> WorkerStates]
      /\ WorkerOK'
      /\ wire' \subseteq Requests
      /\ faults' \in 0..MaxFaults
  BY AnswerType DEF ReleaseRun
<1>4. /\ lease' \in [Runs -> Nat] /\ expired' \in [Runs -> BOOLEAN]
      /\ UNCHANGED <<grants, snapshot>>
  BY <1>1, DropLeaseType DEF ReleaseRun, DropLease
<1>5. /\ attempts' = [attempts EXCEPT ![m.run] = attempts[m.run] + 1]
      /\ runStatus' = [runStatus EXCEPT ![m.run] =
             IF attempts[m.run] + 1 >= MaxAttempts THEN "failed" ELSE "active"]
      /\ due' = [due EXCEPT ![m.run] = FALSE]
      /\ UNCHANGED <<invVars, runCase, verdicts, flagged, unlocks>>
  BY DEF ReleaseRun
<1>6. TypeOK'
  BY <1>1, <1>2, <1>3, <1>4, <1>5 DEF TypeOK, RunStatuses
<1>7. AttemptsLeft' /\ RunsOwned'
  BY <1>1, <1>2, <1>5, MaxAttemptsAssumption DEF TypeOK, AttemptsLeft, RunsOwned
<1> QED BY <1>3, <1>6, <1>7

LEMMA TypeApi == TypeInv /\ Api => TypeInv'
<1> SUFFICES ASSUME TypeInv, Api PROVE TypeInv'
  OBVIOUS
<1> USE DEF TypeInv, invVars, runVars, leaseVars, netVars, boundVars
<1>1. ASSUME NEW m \in wire, RefuseStale(m) PROVE TypeInv'
  BY <1>1, AnswerType DEF RefuseStale, TypeOK, AttemptsLeft, RunsOwned
<1>2. ASSUME NEW m \in wire, LoseRequest(m) PROVE TypeInv'
  BY <1>2, FaultType DEF LoseRequest, TypeOK, WorkerOK, AttemptsLeft, RunsOwned
<1>3. ASSUME NEW m \in wire, ServerError(m) PROVE TypeInv'
  <2>1. m.from \in Workers
    BY DEF TypeOK, Requests
  <2>2. worker' \in [Workers -> WorkerStates] /\ WorkerOK'
    BY <1>3, <2>1, IdleType, WorkerUpdate DEF ServerError
  <2> QED BY <1>3, <2>2, FaultType DEF ServerError, TypeOK, AttemptsLeft, RunsOwned
<1>4. CASE ReapExpiredLeases
  BY <1>4 DEF ReapExpiredLeases, TypeOK, WorkerOK, AttemptsLeft, RunsOwned
<1> QED BY <1>1, <1>2, <1>3, <1>4, TypeRelease, TypeComplete DEF Api, Handle

LEMMA TypeAnalyst == TypeInv /\ Analyst => TypeInv'
<1> SUFFICES ASSUME TypeInv, Analyst PROVE TypeInv'
  OBVIOUS
<1> USE DEF TypeInv, invVars, runVars, leaseVars, netVars, boundVars
<1>1. ASSUME NEW i \in Investigations, CancelInvestigation(i) PROVE TypeInv'
  BY <1>1, NoCaseAssumption
     DEF CancelInvestigation, TypeOK, WorkerOK, AttemptsLeft, RunsOwned, InvStatuses, RunStatuses,
         LiveRunsOf, Live, LiveStatuses
<1>2. ASSUME NEW i \in Investigations, NEW reject \in BOOLEAN, NEW late \in BOOLEAN,
             ReviewDecision(i, reject, late)
      PROVE  TypeInv'
  <2>1. pendingReview' \in [Investigations -> BOOLEAN]
    <3> DEFINE flag == pendingReview[i] /\ late
    <3>1. flag \in BOOLEAN
      OBVIOUS
    <3>2. pendingReview' = [pendingReview EXCEPT ![i] = flag]
      BY <1>2 DEF ReviewDecision
    <3> HIDE DEF flag
    <3> QED BY <3>1, <3>2 DEF TypeOK
  <2>2. invStatus' \in [Investigations -> InvStatuses]
    BY <1>2 DEF ReviewDecision, TypeOK, InvStatuses
  <2> QED BY <1>2, <2>1, <2>2 DEF ReviewDecision, TypeOK, WorkerOK, AttemptsLeft, RunsOwned
<1>3. ASSUME NEW r \in Runs, UnlockRun(r) PROVE TypeInv'
  <2>1. unlocks' \in 0..MaxUnlocks
    BY <1>3, BoundsAssumption DEF UnlockRun, TypeOK
  <2>2. TypeOK'
    BY <1>3, <2>1, DropLeaseType DEF UnlockRun, DropLease, TypeOK, RunStatuses
  <2> QED BY <1>3, <2>2 DEF UnlockRun, TypeOK, WorkerOK, AttemptsLeft, RunsOwned
<1> QED BY <1>1, <1>2, <1>3 DEF Analyst

LEMMA TypeClock == TypeInv /\ Clock => TypeInv'
<1> SUFFICES ASSUME TypeInv, NEW r \in Runs,
                    BecomeDue(r) \/ ExpireAbandoned(r) \/ ExpireEarly(r)
             PROVE  TypeInv'
  BY DEF Clock
<1> USE DEF TypeInv, invVars, runVars, leaseVars, netVars, boundVars
<1>1. CASE BecomeDue(r)
  BY <1>1 DEF BecomeDue, TypeOK, WorkerOK, AttemptsLeft, RunsOwned
<1>2. CASE ExpireAbandoned(r)
  BY <1>2 DEF ExpireAbandoned, Expire, TypeOK, WorkerOK, AttemptsLeft, RunsOwned
<1>3. CASE ExpireEarly(r)
  BY <1>3, FaultType DEF ExpireEarly, Expire, TypeOK, WorkerOK, AttemptsLeft, RunsOwned
<1> QED BY <1>1, <1>2, <1>3

LEMMA TypeStutter == TypeInv /\ UNCHANGED vars => TypeInv'
BY DEF TypeInv, TypeOK, WorkerOK, AttemptsLeft, RunsOwned, vars, invVars, runVars, leaseVars,
       netVars, boundVars

LEMMA TypeStep == TypeInv /\ [Next]_vars => TypeInv'
BY TypeIngest, TypeWorkerStep, TypeApi, TypeAnalyst, TypeClock, TypeStutter DEF Next

LEMMA TypeAlways == Spec => []TypeInv
BY TypeInit, TypeStep, PTL DEF Spec

\* Type correctness of every row, worker and request: in particular no run is
\* charged more attempts than max_attempts (release_run), which no type of the
\* schema enforces.
THEOREM TypeCorrect == Spec => []TypeOK
<1>1. TypeInv => TypeOK
  BY DEF TypeInv
<1> QED BY <1>1, TypeAlways, PTL

-----------------------------------------------------------------------------
(* The effects a step can have on cases, runs and verdicts.                *)

CaseVars == <<invStatus, runCase, runStatus, verdicts>>

Opens(i, r) ==
    /\ runStatus[r] = "unused"
    /\ \/ invStatus[i] = "absent"
       \/ invStatus[i] = "auto_closed_fp" /\ LiveRunsOf(i) = {}
    /\ invStatus' = [invStatus EXCEPT ![i] = "active"]
    /\ runCase' = [runCase EXCEPT ![r] = i]
    /\ runStatus' = [runStatus EXCEPT ![r] = "active"]
    /\ UNCHANGED verdicts

MovesCase(i) ==
    /\ \E s \in {"active", "auto_closed_fp"} : invStatus' = [invStatus EXCEPT ![i] = s]
    /\ UNCHANGED <<runCase, runStatus, verdicts>>

Cancels(i) ==
    /\ invStatus' = [invStatus EXCEPT ![i] = "cancelled"]
    /\ runStatus' = [r \in Runs |-> IF r \in LiveRunsOf(i) THEN "failed" ELSE runStatus[r]]
    /\ UNCHANGED <<runCase, verdicts>>

Restates(r) ==
    /\ Live(r)
    /\ \E s \in {"active", "halted_budget", "failed"} : runStatus' = [runStatus EXCEPT ![r] = s]
    /\ UNCHANGED <<invStatus, runCase, verdicts>>

Settles(r) ==
    /\ Live(r)
    /\ runStatus' = [runStatus EXCEPT ![r] = "completed"]
    /\ verdicts' = [verdicts EXCEPT ![r] = verdicts[r] + 1]
    /\ UNCHANGED runCase
    /\ \/ UNCHANGED invStatus
       \/ invStatus' = [invStatus EXCEPT ![runCase[r]] = "auto_closed_fp"]

Continues(r, r2) ==
    /\ Live(r)
    /\ runStatus[r2] = "unused"
    /\ invStatus[runCase[r]] = "active"
    /\ runStatus' = [[runStatus EXCEPT ![r] = "completed"] EXCEPT ![r2] = "active"]
    /\ runCase' = [runCase EXCEPT ![r2] = runCase[r]]
    /\ verdicts' = [verdicts EXCEPT ![r] = verdicts[r] + 1]
    /\ UNCHANGED invStatus

CaseStep ==
    \/ UNCHANGED CaseVars
    \/ \E i \in Investigations : MovesCase(i) \/ Cancels(i) \/ \E r \in Runs : Opens(i, r)
    \/ \E r \in Runs : Restates(r) \/ Settles(r) \/ \E r2 \in Runs : Continues(r, r2)

LEMMA CompleteEffect ==
    ASSUME TypeInv, NEW m \in wire, NEW veto \in BOOLEAN, CompleteRun(m, veto)
    PROVE  CaseStep
<1> DEFINE r == m.run
           i == runCase[r]
           d == EffectiveDisposition(m, veto)
<1> USE DEF TypeInv
<1>1. r \in Runs /\ m.body \in CompleteBodies
  BY DEF TypeOK, Requests, CompleteRun
<1>2. i \in Investigations /\ runStatus[r] = "active" /\ Live(r)
  BY <1>1, NoCaseAssumption DEF CompleteRun, Owns, TypeOK, RunsOwned, Live, LiveStatuses
<1>3. /\ FollowUp(i, r, m.body)
      /\ ApplyDisposition(i, d)
      /\ verdicts' = [verdicts EXCEPT ![r] = IF m.body \in CompletedBodies THEN @ + 1 ELSE @]
  BY DEF CompleteRun
<1>4. m.body \notin CompletedBodies => d = m.body
  BY DEF EffectiveDisposition, CompletedBodies
<1> HIDE DEF r, i, d
<1>5. \/ UNCHANGED invStatus
      \/ /\ d = "close_fp"
         /\ invStatus' = [invStatus EXCEPT ![i] = "auto_closed_fp"]
  BY <1>2, <1>3 DEF ApplyDisposition, TypeOK
<1>6. CASE m.body \notin CompletedBodies
  <2>1. UNCHANGED invStatus
    BY <1>4, <1>5, <1>6 DEF CompletedBodies
  <2>2. UNCHANGED verdicts
    BY <1>1, <1>3, <1>6 DEF TypeOK
  <2>3. UNCHANGED runCase /\ runStatus' = [runStatus EXCEPT ![r] = m.body]
    BY <1>3, <1>6 DEF FollowUp, StatusOf
  <2>4. m.body \in {"failed", "halted_budget"}
    BY <1>1, <1>6 DEF CompleteBodies
  <2>5. Restates(r)
    BY <1>2, <2>1, <2>2, <2>3, <2>4 DEF Restates
  <2> QED BY <1>1, <2>5 DEF CaseStep
<1>7. CASE m.body \in CompletedBodies
  <2>1. verdicts' = [verdicts EXCEPT ![r] = verdicts[r] + 1]
    BY <1>3, <1>7
  <2>2. StatusOf(m.body) = "completed"
    BY <1>7 DEF StatusOf
  <2>3. CASE UNCHANGED runCase /\ runStatus' = [runStatus EXCEPT ![r] = StatusOf(m.body)]
    <3>1. Settles(r)
      BY <1>2, <1>5, <2>1, <2>2, <2>3 DEF Settles, i
    <3> QED BY <1>1, <3>1 DEF CaseStep
  <2>4. ASSUME NEW r2 \in Runs,
               invStatus'[i] = "active", runStatus[r2] = "unused",
               runStatus' = [[runStatus EXCEPT ![r] = StatusOf(m.body)] EXCEPT ![r2] = "active"],
               runCase' = [runCase EXCEPT ![r2] = i]
        PROVE  CaseStep
    <3>1. UNCHANGED invStatus
      BY <1>2, <1>5, <2>4 DEF TypeOK
    <3>2. Continues(r, r2)
      BY <1>2, <2>1, <2>2, <2>4, <3>1 DEF Continues, i
    <3> QED BY <1>1, <3>2 DEF CaseStep
  <2> QED BY <1>1, <1>2, <1>3, <2>3, <2>4, FollowUpType
<1> QED BY <1>6, <1>7

\* Every step is one of the effects: the lease protocol reaches cases, runs
\* and verdicts through these only.
LEMMA StepEffect == TypeInv /\ [Next]_vars => CaseStep
<1> SUFFICES ASSUME TypeInv, [Next]_vars PROVE CaseStep
  OBVIOUS
<1> USE DEF TypeInv, invVars, runVars, leaseVars, netVars, boundVars
<1>1. CASE UNCHANGED vars
  BY <1>1 DEF vars, CaseStep, CaseVars
<1>2. CASE Ingest
  <2> SUFFICES ASSUME NEW e \in Events, NEW i \in Investigations,
                      \/ \E r \in Runs, bypass \in BOOLEAN : PromoteAlert(e, i, r, bypass)
                      \/ AutoCloseAlert(e, i)
                      \/ AttachEvent(e, i)
                      \/ CheckAndReopen(e, i)
               PROVE  CaseStep
    BY <1>2 DEF Ingest
  <2>1. ASSUME NEW r \in Runs, NEW bypass \in BOOLEAN, PromoteAlert(e, i, r, bypass)
        PROVE  CaseStep
    <3>1. StartRun(i, r, runStatus, bypass)
      BY <2>1 DEF PromoteAlert
    <3>2. /\ runStatus[r] = "unused"
          /\ runCase' = [runCase EXCEPT ![r] = i]
          /\ runStatus' = [runStatus EXCEPT ![r] = "active"]
      BY <3>1 DEF StartRun
    <3>3. /\ invStatus[i] = "absent"
          /\ invStatus' = [invStatus EXCEPT ![i] = "active"]
          /\ UNCHANGED verdicts
      BY <2>1 DEF PromoteAlert
    <3>4. Opens(i, r)
      BY <3>2, <3>3 DEF Opens
    <3> QED BY <3>4 DEF CaseStep
  <2>2. CASE AutoCloseAlert(e, i)
    <3>1. MovesCase(i)
      BY <2>2 DEF AutoCloseAlert, MovesCase
    <3> QED BY <3>1 DEF CaseStep
  <2>3. CASE AttachEvent(e, i)
    BY <2>3 DEF AttachEvent, CaseStep, CaseVars
  <2>4. CASE CheckAndReopen(e, i)
    <3>1. CASE UNCHANGED <<runCase, runStatus, due>>
      <4>1. MovesCase(i)
        BY <2>4, <3>1 DEF CheckAndReopen, MovesCase
      <4> QED BY <4>1 DEF CaseStep
    <3>2. ASSUME NEW r \in Runs, LiveRunsOf(i) = {}, StartRun(i, r, runStatus, TRUE)
          PROVE  CaseStep
      <4>1. Opens(i, r)
        BY <2>4, <3>2 DEF CheckAndReopen, StartRun, Opens
      <4> QED BY <4>1 DEF CaseStep
    <3> QED BY <2>4, <3>1, <3>2 DEF CheckAndReopen
  <2> QED BY <2>1, <2>2, <2>3, <2>4
<1>3. CASE WorkerStep
  BY <1>3 DEF WorkerStep, ClaimRun, HeartbeatRun, FinishGraph, PostRequest, PostTimeout,
              CrashWorker, CaseStep, CaseVars
<1>4. CASE Api
  <2>1. ASSUME NEW m \in wire, RefuseStale(m) \/ LoseRequest(m) \/ ServerError(m)
        PROVE  CaseStep
    BY <2>1 DEF RefuseStale, LoseRequest, ServerError, CaseStep, CaseVars
  <2>2. ASSUME NEW m \in wire, ReleaseRun(m) PROVE CaseStep
    <3>1. m.run \in Runs
      BY DEF TypeOK, Requests
    <3>2. Live(m.run)
      BY <2>2 DEF ReleaseRun, Owns, Live, LiveStatuses
    <3>3. \E s \in {"active", "failed"} : runStatus' = [runStatus EXCEPT ![m.run] = s]
      BY <2>2 DEF ReleaseRun
    <3>4. Restates(m.run)
      BY <2>2, <3>2, <3>3 DEF ReleaseRun, Restates
    <3> QED BY <3>1, <3>4 DEF CaseStep
  <2>3. CASE ReapExpiredLeases
    BY <2>3 DEF ReapExpiredLeases, CaseStep, CaseVars
  <2> QED BY <1>4, <2>1, <2>2, <2>3, CompleteEffect DEF Api, Handle
<1>5. CASE Analyst
  <2>1. ASSUME NEW i \in Investigations, CancelInvestigation(i) PROVE CaseStep
    <3>1. Cancels(i)
      BY <2>1 DEF CancelInvestigation, Cancels
    <3> QED BY <3>1 DEF CaseStep
  <2>2. ASSUME NEW i \in Investigations, NEW reject \in BOOLEAN, NEW late \in BOOLEAN,
               ReviewDecision(i, reject, late)
        PROVE  CaseStep
    <3>1. MovesCase(i) \/ UNCHANGED CaseVars
      BY <2>2 DEF ReviewDecision, MovesCase, CaseVars, TypeOK
    <3> QED BY <3>1 DEF CaseStep
  <2>3. ASSUME NEW r \in Runs, UnlockRun(r) PROVE CaseStep
    <3>1. Restates(r)
      BY <2>3 DEF UnlockRun, Restates, Live, LiveStatuses
    <3> QED BY <3>1 DEF CaseStep
  <2> QED BY <1>5, <2>1, <2>2, <2>3 DEF Analyst
<1>6. CASE Clock
  BY <1>6 DEF Clock, BecomeDue, ExpireAbandoned, ExpireEarly, Expire, CaseStep, CaseVars
<1> QED BY <1>1, <1>2, <1>3, <1>4, <1>5, <1>6 DEF Next

-----------------------------------------------------------------------------
(* One live run per case, one verdict per run.                             *)

\* A run's investigation has been inserted.
CasesExist ==
    \A r \in Runs : runCase[r] \in Investigations => invStatus[runCase[r]] # "absent"

CaseInv == SingleLiveRun /\ OneVerdict /\ CancelledIsQuiet /\ CasesExist

LEMMA CaseInit == Init => CaseInv
BY NoCaseAssumption
   DEF Init, CaseInv, SingleLiveRun, OneVerdict, CancelledIsQuiet, CasesExist, LiveRunsOf, Live,
       LiveStatuses

\* A case that does not exist, or whose last run has ended, has no live run.
LEMMA OpensQuietCase ==
    ASSUME TypeInv, CaseInv, NEW i \in Investigations, NEW r \in Runs, Opens(i, r)
    PROVE  \A s \in Runs : ~(runCase[s] = i /\ Live(s))
BY DEF Opens, CaseInv, CasesExist, LiveRunsOf

LEMMA CaseStepInv == TypeInv /\ CaseInv /\ CaseStep => CaseInv'
<1> SUFFICES ASSUME TypeInv, CaseInv, CaseStep PROVE CaseInv'
  OBVIOUS
<1> USE DEF TypeInv, Live, LiveStatuses
<1>1. CASE UNCHANGED CaseVars
  BY <1>1 DEF CaseVars, CaseInv, SingleLiveRun, OneVerdict, CancelledIsQuiet, CasesExist, LiveRunsOf
<1>2. ASSUME NEW i \in Investigations, MovesCase(i) PROVE CaseInv'
  BY <1>2 DEF MovesCase, CaseInv, SingleLiveRun, OneVerdict, CancelledIsQuiet, CasesExist,
              LiveRunsOf, TypeOK
<1>3. ASSUME NEW i \in Investigations, Cancels(i) PROVE CaseInv'
  <2>1. SingleLiveRun' /\ OneVerdict'
    BY <1>3 DEF Cancels, CaseInv, SingleLiveRun, OneVerdict, LiveRunsOf, TypeOK
  <2>2. CancelledIsQuiet' /\ CasesExist'
    BY <1>3 DEF Cancels, CaseInv, CancelledIsQuiet, CasesExist, LiveRunsOf, TypeOK
  <2> QED BY <2>1, <2>2 DEF CaseInv
<1>4. ASSUME NEW i \in Investigations, NEW r \in Runs, Opens(i, r) PROVE CaseInv'
  <2>1. \A s \in Runs : ~(runCase[s] = i /\ Live(s))
    BY <1>4, OpensQuietCase
  <2>2. SingleLiveRun' /\ OneVerdict'
    BY <1>4, <2>1 DEF Opens, CaseInv, SingleLiveRun, OneVerdict, TypeOK
  <2>3. CancelledIsQuiet' /\ CasesExist'
    BY <1>4, <2>1 DEF Opens, CaseInv, CancelledIsQuiet, CasesExist, LiveRunsOf, TypeOK
  <2> QED BY <2>2, <2>3 DEF CaseInv
<1>5. ASSUME NEW r \in Runs, Restates(r) PROVE CaseInv'
  <2>1. SingleLiveRun' /\ OneVerdict'
    BY <1>5 DEF Restates, CaseInv, SingleLiveRun, OneVerdict, TypeOK
  <2>2. CancelledIsQuiet' /\ CasesExist'
    BY <1>5 DEF Restates, CaseInv, CancelledIsQuiet, CasesExist, LiveRunsOf, TypeOK
  <2> QED BY <2>1, <2>2 DEF CaseInv
<1>6. ASSUME NEW r \in Runs, Settles(r) PROVE CaseInv'
  <2>1. SingleLiveRun' /\ OneVerdict'
    BY <1>6 DEF Settles, CaseInv, SingleLiveRun, OneVerdict, TypeOK
  <2>2. CancelledIsQuiet' /\ CasesExist'
    BY <1>6 DEF Settles, CaseInv, CancelledIsQuiet, CasesExist, LiveRunsOf, TypeOK
  <2> QED BY <2>1, <2>2 DEF CaseInv
<1>7. ASSUME NEW r \in Runs, NEW r2 \in Runs, Continues(r, r2) PROVE CaseInv'
  <2>1. SingleLiveRun' /\ OneVerdict'
    BY <1>7 DEF Continues, CaseInv, SingleLiveRun, OneVerdict, TypeOK
  <2>2. CancelledIsQuiet' /\ CasesExist'
    BY <1>7 DEF Continues, CaseInv, CancelledIsQuiet, CasesExist, LiveRunsOf, TypeOK
  <2> QED BY <2>1, <2>2 DEF CaseInv
<1> QED BY <1>1, <1>2, <1>3, <1>4, <1>5, <1>6, <1>7 DEF CaseStep

LEMMA CaseAlways == Spec => [](TypeInv /\ CaseInv)
<1>1. TypeInv /\ CaseInv /\ [Next]_vars => CaseInv'
  BY StepEffect, CaseStepInv
<1> QED BY <1>1, CaseInit, TypeAlways, PTL DEF Spec

\* No interleaving of promotion, reopening, follow-up, unlock, cancellation
\* and lease traffic gives an investigation two live runs, so the callers of
\* start_run never run into the unique index.
THEOREM OneLiveRunPerCase == Spec => []SingleLiveRun
<1>1. CaseInv => SingleLiveRun
  BY DEF CaseInv
<1> QED BY <1>1, CaseAlways, PTL

\* However often a completion is repeated, delayed or overtaken, the verdict
\* of a run is applied exactly once if it completed and never otherwise.
THEOREM VerdictAppliedOnce == Spec => []OneVerdict
<1>1. CaseInv => OneVerdict
  BY DEF CaseInv
<1> QED BY <1>1, CaseAlways, PTL

\* Nothing runs on a cancelled investigation.
THEOREM NothingRunsOnCancelled == Spec => []CancelledIsQuiet
<1>1. CaseInv => CancelledIsQuiet
  BY DEF CaseInv
<1> QED BY <1>1, CaseAlways, PTL

\* A completed or failed run is never brought back.
THEOREM TerminalRunsStay == Spec => TerminalIsFinal
<1>1. ASSUME TypeInv, CaseStep
      PROVE  \A r \in Runs :
                runStatus[r] \in {"completed", "failed"} => runStatus'[r] = runStatus[r]
  BY <1>1 DEF CaseStep, CaseVars, MovesCase, Cancels, Opens, Restates, Settles, Continues,
              TypeInv, TypeOK, Live, LiveStatuses, LiveRunsOf
<1>2. TypeInv /\ [Next]_vars =>
        [\A r \in Runs :
            runStatus[r] \in {"completed", "failed"} => runStatus'[r] = runStatus[r]]_vars
  BY <1>1, StepEffect
<1> QED BY <1>2, TypeAlways, PTL DEF Spec, TerminalIsFinal

-----------------------------------------------------------------------------
(* The lease protocol implements the contract.                             *)

\* What the mapped phase of a run is.
LEMMA PhaseOf ==
    ASSUME TypeOK
    PROVE  /\ ContractPhase \in [Runs -> {"unused", "live", "settled", "dropped"}]
           /\ \A r \in Runs :
                 /\ ContractPhase[r] = "unused" <=> runStatus[r] = "unused"
                 /\ ContractPhase[r] = "live" <=> Live(r)
                 /\ ContractPhase[r] = "settled" <=> runStatus[r] = "completed"
                 /\ ContractPhase[r] = "dropped" <=> runStatus[r] = "failed"
BY DEF ContractPhase, TypeOK, RunStatuses, LiveStatuses, Live

LEMMA ContractStep ==
    TypeInv /\ TypeInv' /\ CaseInv /\ CaseStep => [TC!ContractNext]_(TC!contractVars)
<1> SUFFICES ASSUME TypeInv, TypeInv', CaseInv, CaseStep
             PROVE  [TC!ContractNext]_(TC!contractVars)
  OBVIOUS
<1> DEFINE P == ContractPhase
           Q == ContractPhase'
<1>1. /\ P \in [Runs -> {"unused", "live", "settled", "dropped"}]
      /\ \A r \in Runs :
            /\ P[r] = "unused" <=> runStatus[r] = "unused"
            /\ P[r] = "live" <=> Live(r)
            /\ P[r] = "settled" <=> runStatus[r] = "completed"
            /\ P[r] = "dropped" <=> runStatus[r] = "failed"
  BY PhaseOf DEF TypeInv
<1>2. TypeOK' => /\ Q \in [Runs -> {"unused", "live", "settled", "dropped"}]
                 /\ \A r \in Runs :
                       /\ Q[r] = "unused" <=> runStatus'[r] = "unused"
                       /\ Q[r] = "live" <=> Live(r)'
                       /\ Q[r] = "settled" <=> runStatus'[r] = "completed"
                       /\ Q[r] = "dropped" <=> runStatus'[r] = "failed"
  BY DEF ContractPhase, TypeOK, RunStatuses, LiveStatuses, Live
<1>3. /\ Q \in [Runs -> {"unused", "live", "settled", "dropped"}]
      /\ \A r \in Runs :
            /\ Q[r] = "unused" <=> runStatus'[r] = "unused"
            /\ Q[r] = "live" <=> Live(r)'
            /\ Q[r] = "settled" <=> runStatus'[r] = "completed"
            /\ Q[r] = "dropped" <=> runStatus'[r] = "failed"
  BY <1>2 DEF TypeInv
<1> SUFFICES \/ P = Q /\ UNCHANGED <<runCase, verdicts>>
             \/ TC!ContractNext
  BY DEF TC!contractVars
<1> HIDE DEF P, Q
<1> USE DEF TypeInv, TypeOK, Live, LiveStatuses
<1>4. CASE UNCHANGED CaseVars
  BY <1>1, <1>3, <1>4 DEF CaseVars
<1>5. ASSUME NEW i \in Investigations, MovesCase(i) PROVE P = Q /\ UNCHANGED <<runCase, verdicts>>
  BY <1>1, <1>3, <1>5 DEF MovesCase
<1>6. ASSUME NEW i \in Investigations, Cancels(i)
      PROVE  (P = Q /\ UNCHANGED <<runCase, verdicts>>) \/ TC!ContractNext
  <2>1. CASE LiveRunsOf(i) = {}
    BY <1>1, <1>3, <1>6, <2>1 DEF Cancels, LiveRunsOf
  <2>2. ASSUME NEW r \in LiveRunsOf(i) PROVE TC!ContractNext
    <3>1. \A s \in Runs : s \in LiveRunsOf(i) <=> s = r
      BY <2>2 DEF CaseInv, SingleLiveRun, LiveRunsOf
    <3>2. Q = [P EXCEPT ![r] = "dropped"]
      BY <1>1, <1>3, <1>6, <3>1 DEF Cancels, LiveRunsOf
    <3>3. P[r] = "live" /\ r \in Runs
      BY <1>1 DEF LiveRunsOf
    <3>4. TC!Drop(r)
      BY <1>6, <3>2, <3>3 DEF TC!Drop, Cancels, P, Q
    <3> QED BY <3>3, <3>4 DEF TC!ContractNext
  <2> QED BY <2>1, <2>2
<1>7. ASSUME NEW i \in Investigations, NEW r \in Runs, Opens(i, r) PROVE TC!ContractNext
  <2>1. Q = [P EXCEPT ![r] = "live"]
    BY <1>1, <1>3, <1>7 DEF Opens
  <2>2. TC!LiveOn(i) = {}
    BY <1>1, <1>7, OpensQuietCase DEF TC!LiveOn, P
  <2>3. P[r] = "unused"
    BY <1>1, <1>7 DEF Opens
  <2>4. TC!Open(i, r)
    BY <1>7, <2>1, <2>2, <2>3 DEF TC!Open, Opens, P, Q
  <2> QED BY <2>4 DEF TC!ContractNext
<1>8. ASSUME NEW r \in Runs, Restates(r)
      PROVE  (P = Q /\ UNCHANGED <<runCase, verdicts>>) \/ TC!ContractNext
  <2>1. P[r] = "live"
    BY <1>1, <1>8 DEF Restates
  <2>2. CASE runStatus' = [runStatus EXCEPT ![r] = "failed"]
    <3>1. Q = [P EXCEPT ![r] = "dropped"]
      BY <1>1, <1>3, <2>2
    <3>2. TC!Drop(r)
      BY <1>8, <2>1, <3>1 DEF TC!Drop, Restates, P, Q
    <3> QED BY <3>2 DEF TC!ContractNext
  <2>3. CASE \E s \in {"active", "halted_budget"} : runStatus' = [runStatus EXCEPT ![r] = s]
    BY <1>1, <1>3, <1>8, <2>1, <2>3 DEF Restates
  <2> QED BY <1>8, <2>2, <2>3 DEF Restates
<1>9. ASSUME NEW r \in Runs, Settles(r) PROVE TC!ContractNext
  <2>1. Q = [P EXCEPT ![r] = "settled"] /\ P[r] = "live"
    BY <1>1, <1>3, <1>9 DEF Settles
  <2>2. verdicts' = [verdicts EXCEPT ![r] = 1]
    <3>1. verdicts[r] = 0
      BY <1>9 DEF Settles, CaseInv, OneVerdict
    <3> QED BY <1>9, <3>1 DEF Settles
  <2>3. TC!Settle(r)
    BY <1>9, <2>1, <2>2 DEF TC!Settle, Settles, P, Q
  <2> QED BY <2>3 DEF TC!ContractNext
<1>10. ASSUME NEW r \in Runs, NEW r2 \in Runs, Continues(r, r2) PROVE TC!ContractNext
  <2>1. P[r] = "live" /\ P[r2] = "unused" /\ r # r2
    BY <1>1, <1>10 DEF Continues
  <2>2. Q = [P EXCEPT ![r] = "settled", ![r2] = "live"]
    BY <1>1, <1>3, <1>10, <2>1 DEF Continues
  <2>3. verdicts' = [verdicts EXCEPT ![r] = 1]
    <3>1. verdicts[r] = 0
      BY <1>10 DEF Continues, CaseInv, OneVerdict
    <3> QED BY <1>10, <3>1 DEF Continues
  <2>4. TC!SettleAndContinue(r, r2)
    BY <1>10, <2>1, <2>2, <2>3 DEF TC!SettleAndContinue, Continues, P, Q
  <2> QED BY <2>4 DEF TC!ContractNext
<1> QED BY <1>4, <1>5, <1>6, <1>7, <1>8, <1>9, <1>10 DEF CaseStep

\* The whole machinery of claims, leases, retries, reaping, reviews and
\* cancellation implements the contract of TriageContract.
THEOREM RefinesContract == Spec => ImplementsContract
<1>1. Init => TC!ContractInit
  <2> SUFFICES ASSUME Init PROVE TC!ContractInit
    OBVIOUS
  <2>1. ContractPhase = [r \in Runs |-> "unused"]
    BY TypeInit, PhaseOf DEF Init, TypeInv
  <2> QED BY <2>1 DEF Init, TC!ContractInit
<1>2. TypeInv /\ CaseInv /\ [Next]_vars => [TC!ContractNext]_(TC!contractVars)
  BY TypeStep, StepEffect, ContractStep
<1> QED BY <1>1, <1>2, CaseAlways, PTL DEF Spec, ImplementsContract, TC!Contract
-----------------------------------------------------------------------------
(* Holders.                                                                *)

\* An idle worker holds nothing.
IdleHoldsNothing == \A w \in Workers : worker[w].phase = "idle" => worker[w].run = NoRun

\* A request carries a lease that was granted for its run.
RequestsGranted == \A m \in wire : m.lease \in 1..grants[m.run]

HolderInv == LeaseUnique /\ IdleHoldsNothing /\ RequestsGranted

\* Workers keep what they hold or become idle; what is new on the wire is the
\* request of a posting worker.
Keeps ==
    /\ UNCHANGED grants
    /\ \A w \in Workers :
          \/ worker'[w] = Idle
          \/ /\ worker'[w].phase # "idle" <=> worker[w].phase # "idle"
             /\ worker'[w].run = worker[w].run
             /\ worker'[w].lease = worker[w].lease
    /\ \A m \in wire' :
          \/ m \in wire
          \/ \E w \in Workers : worker[w].phase = "posting" /\ m = RequestOf(w)

Takes(w, r) ==
    /\ worker[w].phase = "idle"
    /\ grants' = [grants EXCEPT ![r] = grants[r] + 1]
    /\ \/ UNCHANGED worker
       \/ \E x \in WorkerStates :
             /\ worker' = [worker EXCEPT ![w] = x]
             /\ x.phase = "running" /\ x.run = r /\ x.lease = grants[r] + 1
    /\ UNCHANGED wire

HolderStep == Keeps \/ \E w \in Workers, r \in Runs : Takes(w, r)

LEMMA HolderInit == Init => HolderInv
BY NoRunAssumption DEF Init, HolderInv, LeaseUnique, IdleHoldsNothing, RequestsGranted, Idle

LEMMA QuietKeeps ==
    ASSUME TypeInv, UNCHANGED <<grants, worker, wire>> PROVE Keeps
BY DEF Keeps

LEMMA AnswerKeeps ==
    ASSUME TypeInv, NEW m \in wire, Answer(m), UNCHANGED grants PROVE Keeps
BY DEF TypeInv, TypeOK, Requests, Answer, Keeps

LEMMA HolderEffect == TypeInv /\ [Next]_vars => HolderStep
<1> SUFFICES ASSUME TypeInv, [Next]_vars PROVE HolderStep
  OBVIOUS
<1> USE DEF invVars, runVars, leaseVars, netVars, boundVars
<1>1. CASE UNCHANGED vars
  BY <1>1, QuietKeeps DEF vars, HolderStep
<1>2. CASE Ingest
  BY <1>2, QuietKeeps DEF Ingest, PromoteAlert, AutoCloseAlert, AttachEvent, CheckAndReopen, HolderStep
<1>3. CASE WorkerStep
  <2> SUFFICES ASSUME NEW w \in Workers,
                      \/ \E r \in Runs, answered \in BOOLEAN : ClaimRun(w, r, answered)
                      \/ HeartbeatRun(w)
                      \/ \E b \in Bodies : FinishGraph(w, b)
                      \/ PostRequest(w)
                      \/ PostTimeout(w)
                      \/ CrashWorker(w)
               PROVE  HolderStep
    BY <1>3 DEF WorkerStep
  <2>1. ASSUME NEW r \in Runs, NEW answered \in BOOLEAN, ClaimRun(w, r, answered)
        PROVE  HolderStep
    <3> DEFINE x == [phase |-> "running", run |-> r, lease |-> grants[r] + 1,
                     body |-> "none", tries |-> 0]
    <3>1. x \in WorkerStates /\ x.phase = "running" /\ x.run = r /\ x.lease = grants[r] + 1
      BY PostAttemptsAssumption DEF WorkerStates, TypeInv, TypeOK
    <3>2. \/ UNCHANGED worker
          \/ worker' = [worker EXCEPT ![w] = x]
      BY <2>1 DEF ClaimRun
    <3>3. /\ worker[w].phase = "idle"
          /\ grants' = [grants EXCEPT ![r] = grants[r] + 1]
          /\ UNCHANGED wire
      BY <2>1 DEF ClaimRun
    <3> HIDE DEF x
    <3>4. Takes(w, r)
      BY <3>1, <3>2, <3>3 DEF Takes
    <3> QED BY <3>4 DEF HolderStep
  <2>2. CASE HeartbeatRun(w)
    BY <2>2, QuietKeeps DEF HeartbeatRun, HolderStep
  <2>3. ASSUME NEW b \in Bodies, FinishGraph(w, b) PROVE HolderStep
    BY <2>3 DEF FinishGraph, HolderStep, Keeps, TypeInv, TypeOK, WorkerStates
  <2>4. CASE PostRequest(w)
    BY <2>4 DEF PostRequest, HolderStep, Keeps, TypeInv, TypeOK, WorkerStates
  <2>5. CASE PostTimeout(w)
    BY <2>5 DEF PostTimeout, HolderStep, Keeps, TypeInv, TypeOK, WorkerStates
  <2>6. CASE CrashWorker(w)
    BY <2>6 DEF CrashWorker, HolderStep, Keeps, TypeInv, TypeOK
  <2> QED BY <2>1, <2>2, <2>3, <2>4, <2>5, <2>6
<1>4. CASE Api
  <2>1. ASSUME NEW m \in wire, LoseRequest(m) \/ ServerError(m) PROVE HolderStep
    BY <2>1 DEF LoseRequest, ServerError, HolderStep, Keeps, TypeInv, TypeOK, Requests
  <2>2. ASSUME NEW m \in wire, Handle(m) PROVE HolderStep
    <3>1. Answer(m) /\ UNCHANGED grants
      BY <2>2 DEF Handle, RefuseStale, ReleaseRun, CompleteRun, DropLease
    <3> QED BY <3>1, AnswerKeeps DEF HolderStep
  <2>3. CASE ReapExpiredLeases
    BY <2>3, QuietKeeps DEF ReapExpiredLeases, HolderStep
  <2> QED BY <1>4, <2>1, <2>2, <2>3 DEF Api
<1>5. CASE Analyst
  BY <1>5, QuietKeeps DEF Analyst, CancelInvestigation, ReviewDecision, UnlockRun, DropLease, HolderStep
<1>6. CASE Clock
  BY <1>6, QuietKeeps DEF Clock, BecomeDue, ExpireAbandoned, ExpireEarly, Expire, HolderStep
<1> QED BY <1>1, <1>2, <1>3, <1>4, <1>5, <1>6 DEF Next

LEMMA HolderStepInv == TypeInv /\ TypeInv' /\ HolderInv /\ HolderStep => HolderInv'
<1> SUFFICES ASSUME TypeInv, TypeInv', HolderInv, HolderStep PROVE HolderInv'
  OBVIOUS
<1> USE DEF TypeInv, HolderInv
<1>1. CASE Keeps
  <2>1. IdleHoldsNothing'
    BY <1>1 DEF Keeps, IdleHoldsNothing, Idle
  <2>2. LeaseUnique'
    BY <1>1 DEF Keeps, LeaseUnique, Idle
  <2>3. RequestsGranted'
    <3> SUFFICES ASSUME NEW m \in wire' PROVE m.lease \in 1..grants[m.run]
      BY <1>1 DEF RequestsGranted, Keeps
    <3>1. CASE m \in wire
      BY <3>1 DEF RequestsGranted
    <3>2. ASSUME NEW w \in Workers, worker[w].phase = "posting", m = RequestOf(w)
          PROVE  m.lease \in 1..grants[m.run]
      <4>1. worker[w].run \in Runs /\ m.run = worker[w].run /\ m.lease = worker[w].lease
        BY <3>2 DEF WorkerOK, RequestOf
      <4> QED BY <4>1, NoRunAssumption DEF LeaseUnique
    <3> QED BY <1>1, <3>1, <3>2 DEF Keeps
  <2> QED BY <2>1, <2>2, <2>3
<1>2. ASSUME NEW w \in Workers, NEW r \in Runs, Takes(w, r) PROVE HolderInv'
  <2>1. \A s \in Runs : grants[s] \in Nat /\ grants'[s] = IF s = r THEN grants[s] + 1 ELSE grants[s]
    BY <1>2 DEF Takes, TypeOK
  <2>2. \A v \in Workers : worker[v] \in WorkerStates /\ worker[v].run \in Runs \cup {NoRun}
    BY DEF TypeOK, WorkerStates
  <2>3. RequestsGranted'
    <3>1. \A m \in wire : m.run \in Runs /\ m.lease \in Nat
      BY DEF TypeOK, Requests
    <3> QED BY <1>2, <2>1, <3>1 DEF Takes, RequestsGranted
  <2>4. CASE UNCHANGED worker
    BY <2>1, <2>2, <2>3, <2>4 DEF LeaseUnique, IdleHoldsNothing
  <2>5. ASSUME NEW x \in WorkerStates, worker' = [worker EXCEPT ![w] = x],
               x.phase = "running", x.run = r, x.lease = grants[r] + 1
        PROVE  HolderInv'
    <3>1. \A v \in Workers : worker'[v] = IF v = w THEN x ELSE worker[v]
      BY <2>5 DEF TypeOK
    <3>2. IdleHoldsNothing'
      BY <2>5, <3>1 DEF IdleHoldsNothing
    <3>3. LeaseUnique'
      BY <2>1, <2>2, <2>5, <3>1, NoRunAssumption DEF LeaseUnique, WorkerStates
    <3> QED BY <2>3, <3>2, <3>3
  <2> QED BY <1>2, <2>4, <2>5 DEF Takes
<1> QED BY <1>1, <1>2 DEF HolderStep

LEMMA HolderAlways == Spec => [](TypeInv /\ HolderInv)
<1>1. TypeInv /\ HolderInv /\ [Next]_vars => HolderInv'
  BY TypeStep, HolderEffect, HolderStepInv
<1> QED BY <1>1, HolderInit, TypeAlways, PTL DEF Spec

\* No two workers ever work under the same lease of a run, however many of
\* them crash, lose answers or overtake each other (claim_run).
THEOREM LeaseIsUnique == Spec => []LeaseUnique
<1>1. HolderInv => LeaseUnique
  BY DEF HolderInv
<1> QED BY <1>1, HolderAlways, PTL

-----------------------------------------------------------------------------
(* Charges and fencing.                                                    *)

\* The lease column holds the latest grant or nothing.
LatestLease == \A r \in Runs : lease[r] = 0 \/ lease[r] = grants[r]

\* Only an active run, or one that a cancellation failed, has a lease.
ParkedHasNoLease ==
    \A r \in Runs : runStatus[r] \in {"unused", "halted_budget", "completed"} => lease[r] = 0

ChargeInv == AttemptsCharged /\ LatestLease /\ ParkedHasNoLease

\* An unexpired lease that ends was given up by its holder.
Fenced ==
    \A r \in Runs :
        lease[r] # 0 /\ ~expired[r] /\ lease'[r] # lease[r] =>
            \E m \in wire : m.run = r /\ m.lease = lease[r]

\* Nothing about leases and charges changes, and no parked run gets a lease
\* by a change of status.
Spares ==
    /\ UNCHANGED <<lease, grants, attempts>>
    /\ \A r \in Runs :
          \/ runStatus'[r] = runStatus[r]
          \/ runStatus[r] = "unused" /\ runStatus'[r] = "active"
          \/ runStatus'[r] = "failed"

\* The claim of r ends: r is released, completed, halted, failed or unlocked,
\* and an unused run may become active.
Ends(r) ==
    /\ lease' = [lease EXCEPT ![r] = 0]
    /\ UNCHANGED grants
    /\ \/ UNCHANGED attempts
       \/ /\ runStatus[r] = "active" /\ lease[r] # 0
          /\ attempts' = [attempts EXCEPT ![r] = attempts[r] + 1]
    /\ \A s \in Runs :
          \/ s = r
          \/ runStatus'[s] = runStatus[s]
          \/ runStatus[s] = "unused" /\ runStatus'[s] = "active"
    /\ \/ runStatus[r] = "halted_budget"
       \/ \E m \in wire : m.run = r /\ m.lease = lease[r]

Grants(r) ==
    /\ lease[r] = 0 \/ expired[r]
    /\ runStatus[r] = "active"
    /\ grants' = [grants EXCEPT ![r] = grants[r] + 1]
    /\ lease' = [lease EXCEPT ![r] = grants[r] + 1]
    /\ UNCHANGED <<attempts, runStatus>>

Reaps ==
    /\ \A r \in Runs : lease'[r] = lease[r] \/ (expired[r] /\ lease'[r] = 0)
    /\ UNCHANGED <<grants, attempts, runStatus>>

ChargeStep == Spares \/ Reaps \/ \E r \in Runs : Ends(r) \/ Grants(r)

LEMMA ChargeInit == Init => ChargeInv
BY MaxAttemptsAssumption
   DEF Init, ChargeInv, AttemptsCharged, LatestLease, ParkedHasNoLease, Live, LiveStatuses

LEMMA QuietSpares ==
    ASSUME UNCHANGED <<lease, grants, attempts, runStatus>> PROVE ChargeStep
BY DEF ChargeStep, Spares

LEMMA HandleEffect ==
    ASSUME TypeInv, HolderInv, NEW m \in wire, Handle(m)
    PROVE  ChargeStep
<1> DEFINE r == m.run
<1>1. r \in Runs /\ m.lease # 0
  BY DEF TypeInv, TypeOK, Requests, HolderInv, RequestsGranted
<1>2. CASE RefuseStale(m)
  BY <1>2, QuietSpares DEF RefuseStale, leaseVars, runVars
<1>3. CASE ReleaseRun(m)
  <2>1. Owns(r, m.lease) /\ DropLease(r)
    BY <1>3 DEF ReleaseRun
  <2>2. /\ attempts' = [attempts EXCEPT ![r] = attempts[r] + 1]
        /\ \A s \in Runs : s = r \/ runStatus'[s] = runStatus[s]
    BY <1>1, <1>3 DEF ReleaseRun, TypeInv, TypeOK
  <2> HIDE DEF r
  <2>3. Ends(r)
    BY <1>1, <2>1, <2>2 DEF Owns, DropLease, Ends, r
  <2> QED BY <1>1, <2>3 DEF ChargeStep
<1>4. ASSUME NEW veto \in BOOLEAN, CompleteRun(m, veto) PROVE ChargeStep
  <2>1. Owns(r, m.lease) /\ DropLease(r) /\ UNCHANGED attempts
    BY <1>4 DEF CompleteRun
  <2>2. runCase[r] \in Investigations /\ m.body \in CompleteBodies
    BY <1>1, <1>4, NoCaseAssumption DEF CompleteRun, Owns, TypeInv, TypeOK, RunsOwned
  <2>3. FollowUp(runCase[r], r, m.body)
    BY <1>4 DEF CompleteRun
  <2>4. \/ runStatus' = [runStatus EXCEPT ![r] = StatusOf(m.body)]
        \/ \E r2 \in Runs :
              /\ runStatus[r2] = "unused"
              /\ runStatus' = [[runStatus EXCEPT ![r] = StatusOf(m.body)] EXCEPT ![r2] = "active"]
    BY <1>1, <2>2, <2>3, FollowUpType DEF TypeInv
  <2>5. \A s \in Runs :
          \/ s = r
          \/ runStatus'[s] = runStatus[s]
          \/ runStatus[s] = "unused" /\ runStatus'[s] = "active"
    BY <1>1, <2>4 DEF TypeInv, TypeOK
  <2> HIDE DEF r
  <2>6. Ends(r)
    BY <2>1, <2>5 DEF Owns, DropLease, Ends, r
  <2> QED BY <1>1, <2>6 DEF ChargeStep
<1> QED BY <1>2, <1>3, <1>4 DEF Handle

LEMMA ChargeEffect == TypeInv /\ HolderInv /\ [Next]_vars => ChargeStep
<1> SUFFICES ASSUME TypeInv, HolderInv, [Next]_vars PROVE ChargeStep
  OBVIOUS
<1> USE DEF invVars, runVars, leaseVars, netVars, boundVars
<1>1. CASE UNCHANGED vars
  BY <1>1, QuietSpares DEF vars
<1>2. CASE Ingest
  <2>1. UNCHANGED <<lease, grants, attempts>>
    BY <1>2 DEF Ingest, PromoteAlert, AutoCloseAlert, AttachEvent, CheckAndReopen
  <2>2. \/ UNCHANGED runStatus
        \/ \E r \in Runs :
              runStatus[r] = "unused" /\ runStatus' = [runStatus EXCEPT ![r] = "active"]
    BY <1>2 DEF Ingest, PromoteAlert, AutoCloseAlert, AttachEvent, CheckAndReopen, StartRun
  <2> QED BY <2>1, <2>2 DEF ChargeStep, Spares, TypeInv, TypeOK
<1>3. CASE WorkerStep
  <2>1. ASSUME NEW w \in Workers, NEW r \in Runs, NEW answered \in BOOLEAN,
               ClaimRun(w, r, answered)
        PROVE  ChargeStep
    <3>1. Grants(r)
      BY <2>1 DEF ClaimRun, Claimable, Grants
    <3> QED BY <3>1 DEF ChargeStep
  <2>2. ASSUME NEW w \in Workers,
               \/ HeartbeatRun(w)
               \/ \E b \in Bodies : FinishGraph(w, b)
               \/ PostRequest(w)
               \/ PostTimeout(w)
               \/ CrashWorker(w)
        PROVE  ChargeStep
    BY <2>2, QuietSpares DEF HeartbeatRun, FinishGraph, PostRequest, PostTimeout, CrashWorker
  <2> QED BY <1>3, <2>1, <2>2 DEF WorkerStep
<1>4. CASE Api
  <2>1. ASSUME NEW m \in wire, LoseRequest(m) \/ ServerError(m) PROVE ChargeStep
    BY <2>1, QuietSpares DEF LoseRequest, ServerError
  <2>2. CASE ReapExpiredLeases
    BY <2>2 DEF ReapExpiredLeases, ChargeStep, Reaps
  <2> QED BY <1>4, <2>1, <2>2, HandleEffect DEF Api
<1>5. CASE Analyst
  <2>1. ASSUME NEW i \in Investigations, CancelInvestigation(i) PROVE ChargeStep
    BY <2>1 DEF CancelInvestigation, ChargeStep, Spares
  <2>2. ASSUME NEW i \in Investigations, NEW reject \in BOOLEAN, NEW late \in BOOLEAN,
               ReviewDecision(i, reject, late)
        PROVE  ChargeStep
    BY <2>2, QuietSpares DEF ReviewDecision
  <2>3. ASSUME NEW r \in Runs, UnlockRun(r) PROVE ChargeStep
    <3>1. \A s \in Runs : s = r \/ runStatus'[s] = runStatus[s]
      BY <2>3 DEF UnlockRun, TypeInv, TypeOK
    <3>2. Ends(r)
      BY <2>3, <3>1 DEF UnlockRun, DropLease, Ends
    <3> QED BY <3>2 DEF ChargeStep
  <2> QED BY <1>5, <2>1, <2>2, <2>3 DEF Analyst
<1>6. CASE Clock
  BY <1>6, QuietSpares DEF Clock, BecomeDue, ExpireAbandoned, ExpireEarly, Expire
<1> QED BY <1>1, <1>2, <1>3, <1>4, <1>5, <1>6 DEF Next

LEMMA ChargeStepInv == TypeInv /\ TypeInv' /\ ChargeInv /\ ChargeStep => ChargeInv' /\ Fenced
<1> SUFFICES ASSUME TypeInv, TypeInv', ChargeInv, ChargeStep PROVE ChargeInv' /\ Fenced
  OBVIOUS
<1> USE DEF TypeInv, ChargeInv, Live, LiveStatuses
<1>1. \A r \in Runs : /\ lease[r] \in Nat /\ lease'[r] \in Nat
                      /\ grants[r] \in Nat /\ grants'[r] \in Nat
                      /\ attempts[r] \in Nat /\ attempts'[r] \in Nat
  BY MaxAttemptsAssumption DEF TypeOK
<1>2. \A r \in Runs : Live(r)' => attempts'[r] < MaxAttempts
  BY DEF AttemptsLeft
<1>3. CASE Spares
  BY <1>1, <1>2, <1>3 DEF Spares, AttemptsCharged, LatestLease, ParkedHasNoLease, Fenced
<1>4. CASE Reaps
  BY <1>1, <1>2, <1>4 DEF Reaps, AttemptsCharged, LatestLease, ParkedHasNoLease, Fenced
<1>5. ASSUME NEW r \in Runs, Ends(r) PROVE ChargeInv' /\ Fenced
  <2>1. \A s \in Runs : lease'[s] = IF s = r THEN 0 ELSE lease[s]
    BY <1>5 DEF Ends, TypeOK
  <2>2. \A s \in Runs : s # r => attempts'[s] = attempts[s]
    BY <1>5 DEF Ends, TypeOK
  <2>3. attempts'[r] <= grants[r]
    BY <1>1, <1>5 DEF Ends, TypeOK, AttemptsCharged
  <2>4. AttemptsCharged'
    BY <1>1, <1>2, <1>5, <2>1, <2>2, <2>3 DEF Ends, AttemptsCharged, ParkedHasNoLease
  <2>5. LatestLease' /\ ParkedHasNoLease'
    BY <1>1, <1>5, <2>1 DEF Ends, LatestLease, ParkedHasNoLease
  <2>6. Fenced
    BY <1>5, <2>1 DEF Ends, ParkedHasNoLease, Fenced
  <2> QED BY <2>4, <2>5, <2>6
<1>6. ASSUME NEW r \in Runs, Grants(r) PROVE ChargeInv' /\ Fenced
  <2>1. \A s \in Runs : /\ lease'[s] = IF s = r THEN grants[r] + 1 ELSE lease[s]
                        /\ grants'[s] = IF s = r THEN grants[r] + 1 ELSE grants[s]
    BY <1>6 DEF Grants, TypeOK
  <2>2. AttemptsCharged'
    BY <1>1, <1>2, <1>6, <2>1 DEF Grants, AttemptsCharged
  <2>3. LatestLease' /\ ParkedHasNoLease'
    BY <1>1, <1>6, <2>1 DEF Grants, LatestLease, ParkedHasNoLease
  <2>4. Fenced
    BY <1>6, <2>1 DEF Grants, Fenced
  <2> QED BY <2>2, <2>3, <2>4
<1> QED BY <1>3, <1>4, <1>5, <1>6 DEF ChargeStep

LEMMA ChargeAlways == Spec => [](TypeInv /\ HolderInv /\ ChargeInv)
<1>1. TypeInv /\ HolderInv /\ ChargeInv /\ [Next]_vars => ChargeInv'
  BY TypeStep, ChargeEffect, ChargeStepInv
<1> QED BY <1>1, ChargeInit, HolderAlways, PTL DEF Spec

\* A claim costs at most one attempt, whatever is repeated or arrives late.
THEOREM ReleaseChargesOnce == Spec => []AttemptsCharged
<1>1. ChargeInv => AttemptsCharged
  BY DEF ChargeInv
<1> QED BY <1>1, ChargeAlways, PTL

\* An overtaken worker cannot end the claim of the worker that overtook it.
THEOREM HolderIsFenced == Spec => LeaseFenced
<1>1. TypeInv /\ HolderInv /\ ChargeInv /\ [Next]_vars => [Fenced]_vars
  BY TypeStep, ChargeEffect, ChargeStepInv
<1>2. [Fenced]_vars =>
        [\A r \in Runs :
            lease[r] # 0 /\ ~expired[r] /\ lease'[r] # lease[r] =>
                \E m \in wire : m.run = r /\ m.lease = lease[r]]_vars
  BY DEF Fenced
<1> QED BY <1>1, <1>2, ChargeAlways, PTL DEF Spec, LeaseFenced

-----------------------------------------------------------------------------
(* Evidence that arrives during a run.                                     *)

\* A case that does not exist has no evidence.
Unborn == \A i \in Investigations : invStatus[i] = "absent" => evidence[i] = {}

FlaggedIsEvidence == \A e \in flagged : \E i \in Investigations : e \in evidence[i]

\* While has_new_evidence is off, the run under a lease has read what was flagged.
ClaimReadFlagged ==
    \A r \in Runs :
        runStatus[r] = "active" /\ lease[r] # 0 /\ ~newEvidence[runCase[r]] =>
            evidence[runCase[r]] \cap flagged \subseteq snapshot[r]

EvidenceInv == Unborn /\ FlaggedIsEvidence /\ ClaimReadFlagged

\* What the completion of run r leaves behind.
Covered(r) ==
    LET i == runCase[r]
    IN  /\ runStatus[r] # "completed" /\ runStatus'[r] = "completed"
        /\ invStatus'[i] = "active"
        => \/ evidence[i] \cap flagged \subseteq snapshot[r]
           \/ LiveRunsOf(i)' # {}

\* Every other invariant of the runs.
RunInv == TypeInv /\ CaseInv /\ HolderInv /\ ChargeInv

LEMMA EvidenceInit == Init => EvidenceInv
BY DEF Init, EvidenceInv, Unborn, FlaggedIsEvidence, ClaimReadFlagged

\* No run completes, and no lease is granted.
LEMMA EvidenceRests ==
    ASSUME EvidenceInv, UNCHANGED <<evidence, newEvidence, flagged, runCase, snapshot>>,
           \A i \in Investigations : invStatus'[i] = "absent" => invStatus[i] = "absent",
           \A r \in Runs :
              /\ runStatus'[r] = "active" /\ lease'[r] # 0 => runStatus[r] = "active" /\ lease[r] # 0
              /\ runStatus'[r] = "completed" => runStatus[r] = "completed"
    PROVE  EvidenceInv' /\ \A r \in Runs : Covered(r)
BY DEF EvidenceInv, Unborn, FlaggedIsEvidence, ClaimReadFlagged, Covered

\* An event that was not delivered before becomes the evidence of a case, unflagged;
\* the case may get a new run.
LEMMA EvidenceDelivered ==
    ASSUME RunInv, EvidenceInv, NEW e \in Events, NEW i \in Investigations, Undelivered(e),
           evidence' = [evidence EXCEPT ![i] = evidence[i] \cup {e}],
           invStatus'[i] # "absent", \A j \in Investigations \ {i} : invStatus'[j] = invStatus[j],
           UNCHANGED <<newEvidence, flagged, lease, snapshot>>,
           \A r \in Runs : \/ runCase'[r] = runCase[r] /\ runStatus'[r] = runStatus[r]
                           \/ runStatus[r] = "unused" /\ runStatus'[r] = "active"
    PROVE  EvidenceInv' /\ \A r \in Runs : Covered(r)
<1>0. /\ evidence \in [Investigations -> SUBSET Events]
      /\ \A r \in Runs : runStatus[r] = "active" => runCase[r] \in Investigations
  BY NoCaseAssumption DEF RunInv, TypeInv, TypeOK, RunsOwned
<1>1. /\ \A j \in Investigations : evidence'[j] = IF j = i THEN evidence[j] \cup {e} ELSE evidence[j]
      /\ e \notin flagged
  BY <1>0 DEF EvidenceInv, FlaggedIsEvidence, Undelivered
<1>2. Unborn' /\ FlaggedIsEvidence'
  BY <1>1 DEF EvidenceInv, Unborn, FlaggedIsEvidence
<1>3. \A r \in Runs : runStatus[r] = "unused" => lease[r] = 0
  BY DEF RunInv, ChargeInv, ParkedHasNoLease
<1>4. ClaimReadFlagged'
  <2> SUFFICES ASSUME NEW r \in Runs, runStatus'[r] = "active", lease'[r] # 0,
                      ~newEvidence'[runCase'[r]]
               PROVE  evidence'[runCase'[r]] \cap flagged' \subseteq snapshot'[r]
    BY DEF ClaimReadFlagged
  <2>1. runCase'[r] = runCase[r] /\ runStatus[r] = "active" /\ lease[r] # 0
    BY <1>3
  <2>2. evidence[runCase[r]] \cap flagged \subseteq snapshot[r]
    BY <2>1 DEF EvidenceInv, ClaimReadFlagged
  <2>3. evidence'[runCase[r]] \cap flagged = evidence[runCase[r]] \cap flagged
    BY <1>0, <1>1, <2>1
  <2> QED BY <2>1, <2>2, <2>3
<1> QED BY <1>2, <1>4 DEF EvidenceInv, Covered

\* triage_event.
LEMMA EvidenceIngest ==
    ASSUME RunInv, EvidenceInv, NEW e \in Events, NEW i \in Investigations,
           \/ \E r \in Runs, bypass \in BOOLEAN : PromoteAlert(e, i, r, bypass)
           \/ AutoCloseAlert(e, i)
           \/ AttachEvent(e, i)
           \/ CheckAndReopen(e, i)
    PROVE  EvidenceInv' /\ \A r \in Runs : Covered(r)
<1>0. /\ evidence \in [Investigations -> SUBSET Events]
      /\ newEvidence \in [Investigations -> BOOLEAN]
      /\ invStatus \in [Investigations -> InvStatuses]
      /\ runCase \in [Runs -> Investigations \cup {NoCase}] /\ runStatus \in [Runs -> RunStatuses]
      /\ \A r \in Runs : runStatus[r] = "active" => runCase[r] \in Investigations
  BY NoCaseAssumption DEF RunInv, TypeInv, TypeOK, RunsOwned
<1>1. CASE AttachEvent(e, i)
  <2>1. /\ Undelivered(e) /\ invStatus[i] # "absent"
        /\ evidence' = [evidence EXCEPT ![i] = evidence[i] \cup {e}]
        /\ newEvidence' = [newEvidence EXCEPT ![i] = newEvidence[i] \/ LiveRunsOf(i) # {}]
        /\ flagged' \subseteq flagged \cup {e}
        /\ UNCHANGED <<invStatus, runCase, runStatus, lease, snapshot>>
    BY <1>1 DEF AttachEvent, runVars, leaseVars
  <2>2. \A j \in Investigations :
           /\ evidence'[j] = IF j = i THEN evidence[j] \cup {e} ELSE evidence[j]
           /\ j # i => newEvidence'[j] = newEvidence[j]
           /\ e \notin evidence[j]
    BY <1>0, <2>1 DEF Undelivered
  <2>3. Unborn'
    BY <2>1, <2>2 DEF EvidenceInv, Unborn
  <2>4. FlaggedIsEvidence'
    BY <2>1, <2>2 DEF EvidenceInv, FlaggedIsEvidence
  <2>5. ClaimReadFlagged'
    <3> SUFFICES ASSUME NEW r \in Runs, runStatus[r] = "active", lease[r] # 0,
                        ~newEvidence'[runCase[r]]
                 PROVE  evidence'[runCase[r]] \cap flagged' \subseteq snapshot[r]
      BY <2>1 DEF ClaimReadFlagged
    <3>1. runCase[r] # i
      <4> SUFFICES ASSUME runCase[r] = i PROVE FALSE
        OBVIOUS
      <4>1. LiveRunsOf(i) # {}
        BY DEF LiveRunsOf, Live, LiveStatuses
      <4>2. newEvidence'[i]
        BY <1>0, <2>1, <4>1
      <4> QED BY <4>2
    <3>2. runCase[r] \in Investigations
      BY <1>0
    <3>3. ~newEvidence[runCase[r]] /\ evidence'[runCase[r]] = evidence[runCase[r]]
          /\ e \notin evidence[runCase[r]]
      BY <2>2, <3>1, <3>2
    <3>4. evidence[runCase[r]] \cap flagged \subseteq snapshot[r]
      BY <3>3 DEF EvidenceInv, ClaimReadFlagged
    <3> QED BY <2>1, <3>3, <3>4
  <2>6. \A r \in Runs : Covered(r)
    BY <2>1 DEF Covered
  <2> QED BY <2>3, <2>4, <2>5, <2>6 DEF EvidenceInv
<1>2. ASSUME NEW r \in Runs, NEW bypass \in BOOLEAN, PromoteAlert(e, i, r, bypass)
      PROVE  EvidenceInv' /\ \A s \in Runs : Covered(s)
  <2>1. /\ Undelivered(e) /\ evidence' = [evidence EXCEPT ![i] = {e}]
        /\ invStatus[i] = "absent" /\ invStatus' = [invStatus EXCEPT ![i] = "active"]
        /\ UNCHANGED <<newEvidence, flagged, lease, snapshot>>
        /\ runStatus[r] = "unused" /\ runCase' = [runCase EXCEPT ![r] = i]
        /\ runStatus' = [runStatus EXCEPT ![r] = "active"]
    BY <1>2 DEF PromoteAlert, StartRun, leaseVars
  <2>2. evidence[i] \cup {e} = {e}
    BY <2>1 DEF EvidenceInv, Unborn
  <2> QED BY <1>0, <2>1, <2>2, EvidenceDelivered
<1>3. CASE AutoCloseAlert(e, i)
  <2>1. /\ Undelivered(e) /\ evidence' = [evidence EXCEPT ![i] = {e}]
        /\ invStatus[i] = "absent" /\ invStatus' = [invStatus EXCEPT ![i] = "auto_closed_fp"]
        /\ UNCHANGED <<newEvidence, flagged, lease, snapshot, runCase, runStatus>>
    BY <1>3 DEF AutoCloseAlert, leaseVars, runVars
  <2>2. evidence[i] \cup {e} = {e}
    BY <2>1 DEF EvidenceInv, Unborn
  <2> QED BY <1>0, <2>1, <2>2, EvidenceDelivered
<1>4. CASE CheckAndReopen(e, i)
  <2>1. /\ Undelivered(e) /\ evidence' = [evidence EXCEPT ![i] = evidence[i] \cup {e}]
        /\ invStatus' = [invStatus EXCEPT ![i] = "active"]
        /\ UNCHANGED <<newEvidence, flagged, lease, snapshot>>
    BY <1>4 DEF CheckAndReopen, leaseVars
  <2>2. \A s \in Runs : \/ runCase'[s] = runCase[s] /\ runStatus'[s] = runStatus[s]
                        \/ runStatus[s] = "unused" /\ runStatus'[s] = "active"
    BY <1>0, <1>4 DEF CheckAndReopen, StartRun
  <2> QED BY <1>0, <2>1, <2>2, EvidenceDelivered
<1> QED BY <1>1, <1>2, <1>3, <1>4

\* claim_run reads every alert of the case.
LEMMA EvidenceClaim ==
    ASSUME RunInv, EvidenceInv, NEW w \in Workers, NEW r \in Runs, NEW answered \in BOOLEAN,
           ClaimRun(w, r, answered)
    PROVE  EvidenceInv' /\ \A s \in Runs : Covered(s)
<1>1. /\ lease' = [lease EXCEPT ![r] = grants[r] + 1]
      /\ snapshot' = [snapshot EXCEPT ![r] = evidence[runCase[r]]]
      /\ UNCHANGED <<invStatus, evidence, newEvidence, runCase, runStatus, flagged>>
  BY DEF ClaimRun, invVars, runVars
<1>2. \A s \in Runs : s # r => lease'[s] = lease[s] /\ snapshot'[s] = snapshot[s]
  BY <1>1 DEF RunInv, TypeInv, TypeOK
<1>3. snapshot'[r] = evidence[runCase[r]]
  BY <1>1 DEF RunInv, TypeInv, TypeOK
<1>4. ClaimReadFlagged'
  BY <1>1, <1>2, <1>3 DEF EvidenceInv, ClaimReadFlagged
<1>5. Unborn' /\ FlaggedIsEvidence' /\ \A s \in Runs : Covered(s)
  BY <1>1 DEF EvidenceInv, Unborn, FlaggedIsEvidence, Covered
<1> QED BY <1>4, <1>5 DEF EvidenceInv

\* complete_run: the run that is settled is the one under the lease, and what it has
\* not read gets a run of its own.
LEMMA EvidenceComplete ==
    ASSUME RunInv, EvidenceInv, NEW m \in wire, NEW veto \in BOOLEAN, CompleteRun(m, veto)
    PROVE  EvidenceInv' /\ \A s \in Runs : Covered(s)
<1> DEFINE r == m.run
           i == runCase[r]
           again == m.body \in CompletedBodies /\ newEvidence[i] /\ invStatus'[i] = "active"
<1>0. /\ newEvidence \in [Investigations -> BOOLEAN] /\ lease \in [Runs -> Nat]
      /\ invStatus \in [Investigations -> InvStatuses]
      /\ runCase \in [Runs -> Investigations \cup {NoCase}] /\ runStatus \in [Runs -> RunStatuses]
  BY DEF RunInv, TypeInv, TypeOK
<1>1. r \in Runs /\ m.body \in CompleteBodies /\ m.lease # 0
  BY DEF RunInv, TypeInv, TypeOK, Requests, CompleteRun, HolderInv, RequestsGranted
<1>2. i \in Investigations /\ runStatus[r] = "active" /\ lease[r] # 0
  BY <1>1, NoCaseAssumption DEF CompleteRun, Owns, RunInv, TypeInv, TypeOK, RunsOwned
<1>3. /\ FollowUp(i, r, m.body)
      /\ lease' = [lease EXCEPT ![r] = 0]
      /\ UNCHANGED <<evidence, flagged, snapshot>>
      /\ \A j \in Investigations : invStatus'[j] = "absent" => invStatus[j] = "absent"
  BY <1>0, <1>2 DEF CompleteRun, DropLease, ApplyDisposition
<1>4. StatusOf(m.body) \in {"completed", "failed", "halted_budget"}
      /\ (StatusOf(m.body) = "completed" <=> m.body \in CompletedBodies)
  BY <1>1 DEF StatusOf, CompleteBodies, CompletedBodies
<1>5. \A s \in Runs : s # r /\ runStatus[s] = "active" => runCase[s] # i
  BY <1>1, <1>2 DEF RunInv, CaseInv, SingleLiveRun, Live, LiveStatuses
<1>6. Unborn' /\ FlaggedIsEvidence'
  BY <1>3 DEF EvidenceInv, Unborn, FlaggedIsEvidence
<1>7. \A s \in Runs : lease'[s] = IF s = r THEN 0 ELSE lease[s]
  BY <1>0, <1>3
<1>8. CASE again
  <2>1. PICK r2 \in Runs :
          /\ newEvidence' = [newEvidence EXCEPT ![i] = FALSE]
          /\ runStatus[r2] = "unused" /\ runCase' = [runCase EXCEPT ![r2] = i]
          /\ runStatus' = [[runStatus EXCEPT ![r] = StatusOf(m.body)] EXCEPT ![r2] = "active"]
    BY <1>3, <1>8 DEF FollowUp, StartRun
  <2>2. r2 # r /\ lease[r2] = 0
    BY <1>2, <2>1 DEF RunInv, ChargeInv, ParkedHasNoLease
  <2> HIDE DEF r, i, again
  <2>3. \A s \in Runs : /\ s # r2 => runCase'[s] = runCase[s]
                        /\ s \notin {r, r2} => runStatus'[s] = runStatus[s]
    BY <1>0, <2>1
  <2>4. runCase'[r2] = i /\ runStatus'[r2] = "active"
    BY <1>0, <1>1, <2>1
  <2>5. ClaimReadFlagged'
    <3> SUFFICES ASSUME NEW s \in Runs, runStatus'[s] = "active", lease'[s] # 0,
                        ~newEvidence'[runCase'[s]]
                 PROVE  evidence'[runCase'[s]] \cap flagged' \subseteq snapshot'[s]
      BY DEF ClaimReadFlagged
    <3>1. s # r /\ s # r2
      BY <1>7, <2>2
    <3>2. runStatus[s] = "active" /\ lease[s] # 0 /\ runCase'[s] = runCase[s]
      BY <1>7, <2>3, <3>1
    <3>3. runCase[s] # i
      BY <1>5, <3>1, <3>2
    <3>4. ~newEvidence[runCase[s]]
      BY <1>0, <2>1, <3>2, <3>3
    <3> QED BY <1>3, <3>2, <3>4 DEF EvidenceInv, ClaimReadFlagged
  <2>6. runCase'[r] = i
    BY <1>1, <2>2, <2>3 DEF i
  <2>7. LiveRunsOf(runCase[r])' # {}
    BY <2>4, <2>6 DEF LiveRunsOf, Live, LiveStatuses
  <2>8. \A s \in Runs : Covered(s)
    <3> SUFFICES ASSUME NEW s \in Runs, runStatus[s] # "completed", runStatus'[s] = "completed"
                 PROVE  LiveRunsOf(runCase[s])' # {}
      BY DEF Covered
    <3>1. s = r
      BY <2>3, <2>4
    <3> QED BY <2>7, <3>1
  <2> QED BY <1>6, <2>5, <2>8 DEF EvidenceInv
<1>9. CASE ~again
  <2>1. /\ runStatus' = [runStatus EXCEPT ![r] = StatusOf(m.body)]
        /\ UNCHANGED <<newEvidence, runCase>>
    BY <1>3, <1>9 DEF FollowUp
  <2>2. \A s \in Runs : s # r => runStatus'[s] = runStatus[s]
    BY <1>0, <2>1
  <2>3. ClaimReadFlagged'
    <3> SUFFICES ASSUME NEW s \in Runs, runStatus'[s] = "active", lease'[s] # 0,
                        ~newEvidence[runCase[s]]
                 PROVE  evidence[runCase[s]] \cap flagged \subseteq snapshot[s]
      BY <1>3, <2>1 DEF ClaimReadFlagged
    <3>1. s # r
      BY <1>7
    <3> QED BY <1>7, <2>2, <3>1 DEF EvidenceInv, ClaimReadFlagged
  <2>4. \A s \in Runs : Covered(s)
    <3> SUFFICES ASSUME NEW s \in Runs, runStatus[s] # "completed", runStatus'[s] = "completed",
                        invStatus'[runCase[s]] = "active"
                 PROVE  evidence[runCase[s]] \cap flagged \subseteq snapshot[s]
      BY DEF Covered
    <3>1. s = r
      BY <2>2
    <3>2. m.body \in CompletedBodies
      BY <1>0, <1>1, <1>4, <2>1, <3>1
    <3>3. ~newEvidence[i]
      BY <1>9, <3>1, <3>2
    <3> QED BY <1>2, <3>1, <3>3 DEF EvidenceInv, ClaimReadFlagged
  <2> QED BY <1>6, <2>3, <2>4 DEF EvidenceInv
<1> QED BY <1>8, <1>9

LEMMA EvidenceStep ==
    ASSUME RunInv, EvidenceInv, [Next]_vars
    PROVE  EvidenceInv' /\ \A r \in Runs : Covered(r)
<1> DEFINE Goal == EvidenceInv' /\ \A r \in Runs : Covered(r)
<1> SUFFICES Goal
  OBVIOUS
<1>0. /\ runStatus \in [Runs -> RunStatuses] /\ lease \in [Runs -> Nat]
      /\ invStatus \in [Investigations -> InvStatuses]
  BY DEF RunInv, TypeInv, TypeOK
<1> USE DEF invVars, runVars, leaseVars, netVars, boundVars
<1>1. CASE Ingest
  BY <1>1, EvidenceIngest DEF Ingest
<1>2. ASSUME NEW w \in Workers, NEW r \in Runs, NEW answered \in BOOLEAN, ClaimRun(w, r, answered)
      PROVE  Goal
  BY <1>2, EvidenceClaim
<1>3. ASSUME NEW m \in wire, NEW veto \in BOOLEAN, CompleteRun(m, veto) PROVE Goal
  BY <1>3, EvidenceComplete
<1>4. ASSUME UNCHANGED <<invStatus, evidence, newEvidence, flagged, runCase, runStatus, lease, snapshot>>
      PROVE  Goal
  BY <1>4, EvidenceRests
<1>5. ASSUME \/ \E w \in Workers :
                   \/ HeartbeatRun(w) \/ PostRequest(w) \/ PostTimeout(w) \/ CrashWorker(w)
                   \/ \E b \in Bodies : FinishGraph(w, b)
             \/ \E m \in wire : RefuseStale(m) \/ LoseRequest(m) \/ ServerError(m)
             \/ Clock
             \/ UNCHANGED vars
      PROVE  Goal
  <2>1. UNCHANGED <<invStatus, evidence, newEvidence, flagged, runCase, runStatus, lease, snapshot>>
    BY <1>5 DEF HeartbeatRun, PostRequest, PostTimeout, CrashWorker, FinishGraph, RefuseStale,
       LoseRequest, ServerError, Clock, BecomeDue, ExpireAbandoned, ExpireEarly, Expire, vars
  <2> QED BY <1>4, <2>1
<1>6. ASSUME NEW m \in wire, ReleaseRun(m) PROVE Goal
  <2>1. /\ m.run \in Runs /\ runStatus[m.run] = "active"
        /\ runStatus' = [runStatus EXCEPT ![m.run] =
              IF attempts[m.run] + 1 >= MaxAttempts THEN "failed" ELSE "active"]
        /\ lease' = [lease EXCEPT ![m.run] = 0]
        /\ UNCHANGED <<invStatus, evidence, newEvidence, flagged, runCase, snapshot>>
    BY <1>6 DEF ReleaseRun, DropLease, Owns, RunInv, TypeInv, TypeOK, Requests
  <2>2. \A r \in Runs :
           /\ runStatus'[r] = "active" /\ lease'[r] # 0 => runStatus[r] = "active" /\ lease[r] # 0
           /\ runStatus'[r] = "completed" => runStatus[r] = "completed"
    BY <1>0, <2>1
  <2> QED BY <2>1, <2>2, EvidenceRests
<1>7. CASE ReapExpiredLeases
  <2>1. /\ \A r \in Runs : lease'[r] = lease[r] \/ lease'[r] = 0
        /\ UNCHANGED <<invStatus, evidence, newEvidence, flagged, runCase, runStatus, snapshot>>
    BY <1>7 DEF ReapExpiredLeases
  <2> QED BY <2>1, EvidenceRests
<1>8. ASSUME NEW i \in Investigations, CancelInvestigation(i) PROVE Goal
  <2>1. /\ \A j \in Investigations : invStatus'[j] = IF j = i THEN "cancelled" ELSE invStatus[j]
        /\ \A r \in Runs : runStatus'[r] = runStatus[r] \/ runStatus'[r] = "failed"
        /\ UNCHANGED <<evidence, newEvidence, flagged, runCase, lease, snapshot>>
    BY <1>0, <1>8 DEF CancelInvestigation
  <2> QED BY <2>1, EvidenceRests
<1>9. ASSUME NEW i \in Investigations, NEW reject \in BOOLEAN, NEW late \in BOOLEAN,
             ReviewDecision(i, reject, late)
      PROVE  Goal
  <2>1. /\ \A j \in Investigations : invStatus'[j] = "absent" => invStatus[j] = "absent"
        /\ UNCHANGED <<evidence, newEvidence, flagged, runCase, runStatus, lease, snapshot>>
    BY <1>0, <1>9 DEF ReviewDecision
  <2> QED BY <2>1, EvidenceRests
<1>10. ASSUME NEW r \in Runs, UnlockRun(r) PROVE Goal
  <2>1. /\ runStatus' = [runStatus EXCEPT ![r] = "active"] /\ lease' = [lease EXCEPT ![r] = 0]
        /\ UNCHANGED <<invStatus, evidence, newEvidence, flagged, runCase, snapshot>>
    BY <1>10 DEF UnlockRun, DropLease
  <2>2. \A s \in Runs :
           /\ runStatus'[s] = "active" /\ lease'[s] # 0 => runStatus[s] = "active" /\ lease[s] # 0
           /\ runStatus'[s] = "completed" => runStatus[s] = "completed"
    BY <1>0, <2>1
  <2> QED BY <2>1, <2>2, EvidenceRests
<1> HIDE DEF Goal
<1> QED BY <1>1, <1>2, <1>3, <1>5, <1>6, <1>7, <1>8, <1>9, <1>10
        DEF Next, WorkerStep, Api, Handle, Analyst

LEMMA EvidenceAlways == Spec => [](RunInv /\ EvidenceInv)
<1>1. RunInv /\ EvidenceInv /\ [Next]_vars => EvidenceInv'
  BY EvidenceStep
<1>2. TypeInv /\ CaseInv /\ HolderInv /\ ChargeInv => RunInv
  BY DEF RunInv
<1> QED BY <1>1, <1>2, EvidenceInit, CaseAlways, ChargeAlways, PTL DEF Spec

\* Evidence attached during a run is not lost when the run completes and its case stays
\* active: the completed run had read it, or a live run of the case will
\* (has_new_evidence and the follow-up run of complete_run).
THEOREM FollowUpCovers == Spec => FollowUpCoversFlagged
<1>1. RunInv /\ EvidenceInv /\ [Next]_vars => [\A r \in Runs : Covered(r)]_vars
  BY EvidenceStep
<1>2. [\A r \in Runs : Covered(r)]_vars =>
        [\A r \in Runs :
            LET i == runCase[r]
            IN  /\ runStatus[r] # "completed" /\ runStatus'[r] = "completed"
                /\ invStatus'[i] = "active"
                => \/ evidence[i] \cap flagged \subseteq snapshot[r]
                   \/ LiveRunsOf(i)' # {}]_vars
  BY DEF Covered
<1> QED BY <1>1, <1>2, EvidenceAlways, PTL DEF Spec, FollowUpCoversFlagged
=============================================================================
