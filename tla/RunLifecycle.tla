--------------------------- MODULE RunLifecycle ---------------------------
(***************************************************************************)
(* Investigations, their triage runs and the workers that lease them:      *)
(*                                                                         *)
(*   - the adapter's events open, extend, auto-close and reopen            *)
(*     investigations (core/ir/triage.py, core/ir/runtime.py);             *)
(*   - runs-worker processes claim a run under a lease, heartbeat, and     *)
(*     post a completion or a release (runs_worker/main.py);               *)
(*   - the API applies those requests, reaps dead leases, and lets an      *)
(*     analyst cancel, unlock and review (core/api/worker_runs.py,         *)
(*     core/api/run_budget.py, core/ir/labels.py, core/ir/review_events.py)*)
(*                                                                         *)
(* Every API action is one HTTP request, hence one transaction of          *)
(* DBSessionMiddleware: it commits whole or not at all.  Requests a worker *)
(* posted travel on "wire": they may be late, lost, repeated, or answered  *)
(* after the worker has stopped listening.                                 *)
(***************************************************************************)
EXTENDS Naturals, FiniteSets

CONSTANTS
    Investigations,   \* identities of rows of "investigations"
    Runs,             \* identities of rows of "investigation_runs"
    Workers,          \* worker loops (one claim at a time each)
    Events,           \* source events the adapter delivers, each once
    NoCase,           \* run not created yet
    NoRun,            \* worker without a claim
    MaxAttempts,      \* investigation_runs.max_attempts
    PostAttempts,     \* tries of one POST before the worker gives up
    MaxFaults,        \* bound: crashes, losses and early lease expiries
    MaxUnlocks        \* bound: operator unlocks of budget-halted runs

ASSUME MaxAttemptsAssumption == MaxAttempts \in Nat \ {0}
ASSUME PostAttemptsAssumption == PostAttempts \in Nat \ {0}
ASSUME BoundsAssumption == MaxFaults \in Nat /\ MaxUnlocks \in Nat
ASSUME NoCaseAssumption == NoCase \notin Investigations
ASSUME NoRunAssumption == NoRun \notin Runs

VARIABLES
    invStatus,      \* investigations.status, "absent" before the insert
    evidence,       \* events on the alerts linked to the investigation
    newEvidence,    \* investigations.has_new_evidence
    pendingReview,  \* a pending_reviews row with status 'pending' exists
    decidedReview,  \* a pending_reviews row that was decided or expired exists
    runCase,        \* investigation_runs.investigation_id
    runStatus,      \* investigation_runs.status, "unused" before the insert
    lease,          \* lease_id: the number of the grant, 0 is NULL
    expired,        \* lease_expires_at < now()
    due,            \* not_before <= now()
    attempts,       \* investigation_runs.attempts
    worker,         \* what each worker loop is doing
    wire,           \* completion and release requests not yet handled
    grants,         \* history: leases ever granted per run
    snapshot,       \* history: evidence read by the latest claim of a run
    verdicts,       \* history: completions applied per run
    flagged,        \* history: events attached to a case while a run was live
    faults,         \* crashes, losses and early expiries so far
    unlocks         \* unlocks so far

invVars  == <<invStatus, evidence, newEvidence, pendingReview, decidedReview>>
runVars  == <<runCase, runStatus, due, attempts>>
leaseVars == <<lease, expired, grants, snapshot>>
netVars  == <<worker, wire>>
boundVars == <<faults, unlocks>>
vars == <<invVars, runVars, leaseVars, netVars, verdicts, flagged, boundVars>>

InvStatuses == {"absent", "active", "auto_closed_fp", "cancelled"}
RunStatuses == {"unused", "active", "halted_budget", "completed", "failed"}

\* Statuses under the unique index uq_investigation_runs_single_active.  The
\* index also lists 'paused' and 'waiting_on_gate', which no caller in the
\* tree sets on a run.
LiveStatuses == {"active", "halted_budget"}

\* What a worker can report: the release of a transient failure, or a
\* completion whose status and disposition are folded into one word.
CompletedBodies == {"close_fp", "escalate", "leave_open"}
CompleteBodies == CompletedBodies \cup {"failed", "halted_budget"}
Bodies == CompleteBodies \cup {"release"}

Idle == [phase |-> "idle", run |-> NoRun, lease |-> 0, body |-> "none", tries |-> 0]
WorkerStates ==
    [phase : {"idle", "running", "posting"}, run : Runs \cup {NoRun}, lease : Nat,
     body : Bodies \cup {"none"}, tries : 0..PostAttempts]
Requests == [from : Workers, run : Runs, lease : Nat, body : Bodies]

Live(r) == runStatus[r] \in LiveStatuses

\* active_run_for_case
LiveRunsOf(i) == {r \in Runs : runCase[r] = i /\ Live(r)}

\* Mutants of Owns: the status, the lease, or both left out of the predicate.
Owns_IdOnly(r, l) == runStatus[r] # "unused"
Owns_LeaseOnly(r, l) == lease[r] = l
Owns_StatusOnly(r, l) == runStatus[r] = "active"

\* The predicate every worker-side UPDATE carries: the caller's lease is the
\* current one and the run is still active.
Owns(r, l) == lease[r] = l /\ runStatus[r] = "active"

\* Some worker process is still working under the current lease of r.
HolderAlive(r) ==
    \E w \in Workers : worker[w].run = r /\ worker[w].lease = lease[r]

TypeOK ==
    /\ invStatus \in [Investigations -> InvStatuses]
    /\ evidence \in [Investigations -> SUBSET Events]
    /\ newEvidence \in [Investigations -> BOOLEAN]
    /\ pendingReview \in [Investigations -> BOOLEAN]
    /\ decidedReview \in [Investigations -> BOOLEAN]
    /\ runCase \in [Runs -> Investigations \cup {NoCase}]
    /\ runStatus \in [Runs -> RunStatuses]
    /\ lease \in [Runs -> Nat]
    /\ expired \in [Runs -> BOOLEAN]
    /\ due \in [Runs -> BOOLEAN]
    /\ attempts \in [Runs -> 0..MaxAttempts]
    /\ worker \in [Workers -> WorkerStates]
    /\ wire \subseteq Requests
    /\ grants \in [Runs -> Nat]
    /\ snapshot \in [Runs -> SUBSET Events]
    /\ verdicts \in [Runs -> Nat]
    /\ flagged \subseteq Events
    /\ faults \in 0..MaxFaults
    /\ unlocks \in 0..MaxUnlocks

Init ==
    /\ invStatus = [i \in Investigations |-> "absent"]
    /\ evidence = [i \in Investigations |-> {}]
    /\ newEvidence = [i \in Investigations |-> FALSE]
    /\ pendingReview = [i \in Investigations |-> FALSE]
    /\ decidedReview = [i \in Investigations |-> FALSE]
    /\ runCase = [r \in Runs |-> NoCase]
    /\ runStatus = [r \in Runs |-> "unused"]
    /\ lease = [r \in Runs |-> 0]
    /\ expired = [r \in Runs |-> FALSE]
    /\ due = [r \in Runs |-> FALSE]
    /\ attempts = [r \in Runs |-> 0]
    /\ worker = [w \in Workers |-> Idle]
    /\ wire = {}
    /\ grants = [r \in Runs |-> 0]
    /\ snapshot = [r \in Runs |-> {}]
    /\ verdicts = [r \in Runs |-> 0]
    /\ flagged = {}
    /\ faults = 0
    /\ unlocks = 0

Fault == faults < MaxFaults /\ faults' = faults + 1

-----------------------------------------------------------------------------
(* Ingest: triage_event, one action per way an event can end.              *)

\* The adapter's event has not been delivered yet: alert_source_events
\* reserves (source, source_event_id), a redelivery changes nothing.
Undelivered(e) == \A i \in Investigations : e \notin evidence[i]

\* start_run: insert an active run.  The insert itself does not look for a
\* live run; only the unique index would refuse a second one.
StartRun(i, r, statuses, ready) ==
    /\ runStatus[r] = "unused"
    /\ runCase' = [runCase EXCEPT ![r] = i]
    /\ runStatus' = [statuses EXCEPT ![r] = "active"]
    /\ due' = [due EXCEPT ![r] = ready]

\* promote_alert_to_case: a new investigation with its first run, delayed by
\* the settle window unless the alert's severity bypasses it.
PromoteAlert(e, i, r, bypass) ==
    /\ Undelivered(e)
    /\ invStatus[i] = "absent"
    /\ invStatus' = [invStatus EXCEPT ![i] = "active"]
    /\ evidence' = [evidence EXCEPT ![i] = {e}]
    /\ StartRun(i, r, runStatus, bypass)
    /\ UNCHANGED <<newEvidence, pendingReview, decidedReview, attempts, leaseVars, netVars,
                   verdicts, flagged, boundVars>>

\* auto_close_alert: memoized or rule-based close, an investigation born
\* closed and without a run.
AutoCloseAlert(e, i) ==
    /\ Undelivered(e)
    /\ invStatus[i] = "absent"
    /\ invStatus' = [invStatus EXCEPT ![i] = "auto_closed_fp"]
    /\ evidence' = [evidence EXCEPT ![i] = {e}]
    /\ UNCHANGED <<newEvidence, pendingReview, decidedReview, runVars, leaseVars, netVars,
                   verdicts, flagged, boundVars>>

\* Mutant of AttachEvent: the live run is not looked up.
AttachEvent_Unflagged(e, i) ==
    /\ Undelivered(e)
    /\ invStatus[i] \notin {"absent", "auto_closed_fp"}
    /\ evidence' = [evidence EXCEPT ![i] = @ \cup {e}]
    /\ flagged' = IF LiveRunsOf(i) # {} THEN flagged \cup {e} ELSE flagged
    /\ UNCHANGED <<invStatus, newEvidence, pendingReview, decidedReview, runVars,
                   leaseVars, netVars, verdicts, boundVars>>

\* The event repeats a promoted alert, or shares an entity with an active
\* investigation: it becomes evidence there and never starts a run; a live
\* run makes it "new evidence".  Only an auto-closed case is skipped.
AttachEvent(e, i) ==
    /\ Undelivered(e)
    /\ invStatus[i] \notin {"absent", "auto_closed_fp"}
    /\ evidence' = [evidence EXCEPT ![i] = @ \cup {e}]
    /\ newEvidence' = [newEvidence EXCEPT ![i] = @ \/ LiveRunsOf(i) # {}]
    /\ flagged' = IF LiveRunsOf(i) # {} THEN flagged \cup {e} ELSE flagged
    /\ UNCHANGED <<invStatus, pendingReview, decidedReview, runVars, leaseVars, netVars,
                   verdicts, boundVars>>

\* Mutant of CheckAndReopen: a reopen always starts a run.
CheckAndReopen_AlwaysStarts(e, i) ==
    /\ Undelivered(e)
    /\ invStatus[i] = "auto_closed_fp"
    /\ invStatus' = [invStatus EXCEPT ![i] = "active"]
    /\ evidence' = [evidence EXCEPT ![i] = @ \cup {e}]
    /\ \E r \in Runs : StartRun(i, r, runStatus, TRUE)
    /\ UNCHANGED <<newEvidence, pendingReview, decidedReview, attempts, leaseVars, netVars,
                   verdicts, flagged, boundVars>>

\* _check_and_reopen: a match inside the reopen window makes the case active
\* again and starts a run unless a live one is still there.
CheckAndReopen(e, i) ==
    /\ Undelivered(e)
    /\ invStatus[i] = "auto_closed_fp"
    /\ invStatus' = [invStatus EXCEPT ![i] = "active"]
    /\ evidence' = [evidence EXCEPT ![i] = @ \cup {e}]
    /\ \/ LiveRunsOf(i) # {} /\ UNCHANGED <<runCase, runStatus, due>>
       \/ LiveRunsOf(i) = {} /\ \E r \in Runs : StartRun(i, r, runStatus, TRUE)
    /\ UNCHANGED <<newEvidence, pendingReview, decidedReview, attempts, leaseVars, netVars,
                   verdicts, flagged, boundVars>>

-----------------------------------------------------------------------------
(* The worker and the API it calls.                                        *)

\* Mutant of Claimable: a run on its last attempt is not offered any more.
Claimable_LastAttemptSkipped(r) ==
    /\ runStatus[r] = "active"
    /\ due[r]
    /\ lease[r] = 0 \/ expired[r]
    /\ invStatus[runCase[r]] = "active"
    /\ attempts[r] + 1 < MaxAttempts

\* The row the claim query looks for: released, or its lease has run out.
Claimable(r) ==
    /\ runStatus[r] = "active"
    /\ due[r]
    /\ lease[r] = 0 \/ expired[r]
    /\ invStatus[runCase[r]] = "active"

\* claim_run: a fresh lease and a snapshot of the case's alerts.  When the
\* response is lost the lease is granted and nobody works under it.
ClaimRun(w, r, answered) ==
    /\ worker[w].phase = "idle"
    /\ Claimable(r)
    /\ grants' = [grants EXCEPT ![r] = @ + 1]
    /\ lease' = [lease EXCEPT ![r] = grants[r] + 1]
    /\ expired' = [expired EXCEPT ![r] = FALSE]
    /\ snapshot' = [snapshot EXCEPT ![r] = evidence[runCase[r]]]
    /\ \/ /\ answered
          /\ worker' = [worker EXCEPT ![w] =
                 [phase |-> "running", run |-> r, lease |-> grants[r] + 1,
                  body |-> "none", tries |-> 0]]
          /\ UNCHANGED faults
       \/ ~answered /\ Fault /\ UNCHANGED worker
    /\ UNCHANGED <<invVars, runVars, wire, verdicts, flagged, unlocks>>

\* heartbeat_run: an expired lease nobody has taken over yet is extended.
\* The loop ignores the status of the answer: a 409 does not stop the graph.
HeartbeatRun(w) ==
    /\ worker[w].phase = "running"
    /\ Owns(worker[w].run, worker[w].lease)
    /\ expired[worker[w].run]
    /\ expired' = [expired EXCEPT ![worker[w].run] = FALSE]
    /\ UNCHANGED <<invVars, runVars, lease, grants, snapshot, netVars, verdicts,
                   flagged, boundVars>>

\* _run_one after graph.ainvoke: the final state decides what is reported.
FinishGraph(w, b) ==
    /\ worker[w].phase = "running"
    /\ worker' = [worker EXCEPT ![w].phase = "posting", ![w].body = b]
    /\ UNCHANGED <<invVars, runVars, leaseVars, wire, verdicts, flagged, boundVars>>

RequestOf(w) ==
    [from |-> w, run |-> worker[w].run, lease |-> worker[w].lease, body |-> worker[w].body]

\* The first try of _post_complete or _post_release.
PostRequest(w) ==
    /\ worker[w].phase = "posting"
    /\ worker[w].tries = 0
    /\ worker' = [worker EXCEPT ![w].tries = 1]
    /\ wire' = wire \cup {RequestOf(w)}
    /\ UNCHANGED <<invVars, runVars, leaseVars, verdicts, flagged, boundVars>>

\* The client times out: no answer is coming, or (a fault) the request is
\* still under way and may yet be applied.  The worker posts the same body
\* again, and after the last try leaves the run to the lease reaper.
PostTimeout(w) ==
    /\ worker[w].phase = "posting"
    /\ worker[w].tries > 0
    /\ \/ RequestOf(w) \in wire /\ Fault
       \/ RequestOf(w) \notin wire /\ UNCHANGED faults
    /\ \/ /\ worker[w].tries < PostAttempts
          /\ worker' = [worker EXCEPT ![w].tries = @ + 1]
          /\ wire' = wire \cup {RequestOf(w)}
       \/ /\ worker[w].tries = PostAttempts
          /\ worker' = [worker EXCEPT ![w] = Idle]
          /\ UNCHANGED wire
    /\ UNCHANGED <<invVars, runVars, leaseVars, verdicts, flagged, unlocks>>

\* The sender of m is still waiting for an answer.
Waiting(m) ==
    /\ worker[m.from].phase = "posting"
    /\ RequestOf(m.from) = m

\* Handling m takes it off the wire.  Any answer, whatever its status code,
\* ends the sender's wait; an answer may also get lost (a fault).
Answer(m) ==
    /\ wire' = wire \ {m}
    /\ \/ Waiting(m) /\ worker' = [worker EXCEPT ![m.from] = Idle] /\ UNCHANGED faults
       \/ Waiting(m) /\ Fault /\ UNCHANGED worker
       \/ ~Waiting(m) /\ UNCHANGED <<worker, faults>>

\* 409: the lease is not current or the run is not active; the transaction,
\* the spend ledger row included, rolls back.
RefuseStale(m) ==
    /\ ~Owns(m.run, m.lease)
    /\ Answer(m)
    /\ UNCHANGED <<invVars, runVars, leaseVars, verdicts, flagged, unlocks>>

\* The lease columns set to NULL.
DropLease(r) ==
    /\ lease' = [lease EXCEPT ![r] = 0]
    /\ expired' = [expired EXCEPT ![r] = FALSE]
    /\ UNCHANGED <<grants, snapshot>>

\* release_run: charge an attempt, back off, fail on the last one.
ReleaseRun(m) ==
    /\ m.body = "release"
    /\ Owns(m.run, m.lease)
    /\ attempts' = [attempts EXCEPT ![m.run] = @ + 1]
    /\ runStatus' = [runStatus EXCEPT ![m.run] =
           IF attempts[m.run] + 1 >= MaxAttempts THEN "failed" ELSE "active"]
    /\ due' = [due EXCEPT ![m.run] = FALSE]
    /\ DropLease(m.run)
    /\ Answer(m)
    /\ UNCHANGED <<invVars, runCase, verdicts, flagged, unlocks>>

\* The run's status a completion asks for.
StatusOf(b) == IF b \in CompletedBodies THEN "completed" ELSE b

\* close_fp_floor_veto: the server's floor (kill switch, active sibling,
\* volume cap) turns a close of a still active case into an escalation.
EffectiveDisposition(m, veto) ==
    IF m.body = "close_fp" /\ veto /\ invStatus[runCase[m.run]] = "active"
    THEN "escalate" ELSE m.body

\* The disposition applied to the case: a close only to an active one, an
\* escalation (record_human_review_requested) to any.
ApplyDisposition(i, d) ==
    /\ invStatus' = [invStatus EXCEPT ![i] =
           IF d = "close_fp" /\ @ = "active" THEN "auto_closed_fp" ELSE @]
    /\ pendingReview' = [pendingReview EXCEPT ![i] = @ \/ d = "escalate"]

\* Mutant of FollowUp: the flag is cleared and no run started.
FollowUp_ClearsOnly(i, r, b) ==
    /\ newEvidence' = [newEvidence EXCEPT ![i] = @ /\ invStatus'[i] # "active"]
    /\ runStatus' = [runStatus EXCEPT ![r] = StatusOf(b)]
    /\ UNCHANGED <<runCase, due>>

\* The tail of complete_run: evidence that arrived during a completed run of
\* a case that is still active gets a run of its own.
FollowUp(i, r, b) ==
    LET statuses == [runStatus EXCEPT ![r] = StatusOf(b)]
        again == b \in CompletedBodies /\ newEvidence[i] /\ invStatus'[i] = "active"
    IN  \/ /\ again
           /\ newEvidence' = [newEvidence EXCEPT ![i] = FALSE]
           /\ \E r2 \in Runs : StartRun(i, r2, statuses, TRUE)
        \/ /\ ~again
           /\ runStatus' = statuses
           /\ UNCHANGED <<newEvidence, runCase, due>>

CompleteRun(m, veto) ==
    LET i == runCase[m.run]
    IN  /\ m.body \in CompleteBodies
        /\ Owns(m.run, m.lease)
        /\ ApplyDisposition(i, EffectiveDisposition(m, veto))
        /\ FollowUp(i, m.run, m.body)
        /\ verdicts' = [verdicts EXCEPT ![m.run] =
               IF m.body \in CompletedBodies THEN @ + 1 ELSE @]
        /\ DropLease(m.run)
        /\ Answer(m)
        /\ UNCHANGED <<evidence, decidedReview, attempts, flagged, unlocks>>

\* reap_expired_leases: one UPDATE over every active run.
ReapExpiredLeases ==
    LET stale == {r \in Runs : runStatus[r] = "active" /\ lease[r] # 0 /\ expired[r]}
    IN  /\ stale # {}
        /\ lease' = [r \in Runs |-> IF r \in stale THEN 0 ELSE lease[r]]
        /\ expired' = [r \in Runs |-> IF r \in stale THEN FALSE ELSE expired[r]]
        /\ UNCHANGED <<invVars, runVars, grants, snapshot, netVars, verdicts,
                       flagged, boundVars>>

-----------------------------------------------------------------------------
(* Operators and analysts.                                                 *)

\* Mutant of CancelInvestigation: a run parked on its budget is forgotten.
CancelInvestigation_ActiveOnly(i) ==
    /\ invStatus[i] = "active"
    /\ invStatus' = [invStatus EXCEPT ![i] = "cancelled"]
    /\ runStatus' = [r \in Runs |->
           IF r \in LiveRunsOf(i) /\ runStatus[r] = "active" THEN "failed" ELSE runStatus[r]]
    /\ UNCHANGED <<evidence, newEvidence, pendingReview, decidedReview, runCase, due,
                   attempts, leaseVars, netVars, verdicts, flagged, boundVars>>

\* cancel_investigation: refused on a terminal case; the live run fails, its
\* lease columns stay.
CancelInvestigation(i) ==
    /\ invStatus[i] = "active"
    /\ invStatus' = [invStatus EXCEPT ![i] = "cancelled"]
    /\ runStatus' = [r \in Runs |-> IF r \in LiveRunsOf(i) THEN "failed" ELSE runStatus[r]]
    /\ UNCHANGED <<evidence, newEvidence, pendingReview, decidedReview, runCase, due, attempts,
                   leaseVars, netVars, verdicts, flagged, boundVars>>

\* unlock_run: a budget-halted run of an active case is claimable again.
UnlockRun(r) ==
    /\ unlocks < MaxUnlocks
    /\ runStatus[r] = "halted_budget"
    /\ invStatus[runCase[r]] = "active"
    /\ runStatus' = [runStatus EXCEPT ![r] = "active"]
    /\ due' = [due EXCEPT ![r] = TRUE]
    /\ DropLease(r)
    /\ unlocks' = unlocks + 1
    /\ UNCHANGED <<invVars, runCase, attempts, netVars, verdicts, flagged, faults>>

\* record_human_decision_received and record_human_review_expired on one row.
\* A reject closes the case, whatever its status; approve, request-info and
\* expire only retire the row.  The row is the pending one, or ("late") one
\* already decided: the review API checks the status in an earlier
\* transaction, and dispatch_confirm of the chat does not check it at all.
ReviewDecision(i, reject, late) ==
    /\ IF late THEN decidedReview[i] ELSE pendingReview[i]
    /\ pendingReview' = [pendingReview EXCEPT ![i] = @ /\ late]
    /\ decidedReview' = [decidedReview EXCEPT ![i] = TRUE]
    /\ invStatus' = [invStatus EXCEPT ![i] = IF reject THEN "auto_closed_fp" ELSE @]
    /\ UNCHANGED <<evidence, newEvidence, runVars, leaseVars, netVars, verdicts,
                   flagged, boundVars>>

-----------------------------------------------------------------------------
(* Time and failures.                                                      *)

\* not_before passes: the settle window or the retry backoff is over.
BecomeDue(r) ==
    /\ runStatus[r] = "active" /\ ~due[r]
    /\ due' = [due EXCEPT ![r] = TRUE]
    /\ UNCHANGED <<invVars, runCase, runStatus, attempts, leaseVars, netVars,
                   verdicts, flagged, boundVars>>

Expire(r) ==
    /\ runStatus[r] = "active" /\ lease[r] # 0 /\ ~expired[r]
    /\ expired' = [expired EXCEPT ![r] = TRUE]
    /\ UNCHANGED <<invVars, runVars, lease, grants, snapshot, netVars, verdicts,
                   flagged, unlocks>>

\* Nobody renews the lease any more.
ExpireAbandoned(r) == ~HolderAlive(r) /\ Expire(r) /\ UNCHANGED faults

\* The holder is alive but its heartbeats did not get through for a TTL.
ExpireEarly(r) == HolderAlive(r) /\ Expire(r) /\ Fault

\* The process dies, the drain deadline cancels it, or an exception escapes
\* _run_one; what it has posted stays on the wire.
CrashWorker(w) ==
    /\ worker[w].phase # "idle"
    /\ Fault
    /\ worker' = [worker EXCEPT ![w] = Idle]
    /\ UNCHANGED <<invVars, runVars, leaseVars, wire, verdicts, flagged, unlocks>>

\* A request never reaches the API.
LoseRequest(m) ==
    /\ Fault
    /\ wire' = wire \ {m}
    /\ UNCHANGED <<invVars, runVars, leaseVars, worker, verdicts, flagged, unlocks>>

\* The API fails and rolls back (a deadlock victim, a database error): the
\* worker does not retry an answer it got, whatever its status.
ServerError(m) ==
    /\ Waiting(m)
    /\ Fault
    /\ wire' = wire \ {m}
    /\ worker' = [worker EXCEPT ![m.from] = Idle]
    /\ UNCHANGED <<invVars, runVars, leaseVars, verdicts, flagged, unlocks>>

-----------------------------------------------------------------------------
Ingest ==
    \E e \in Events, i \in Investigations :
        \/ \E r \in Runs, bypass \in BOOLEAN : PromoteAlert(e, i, r, bypass)
        \/ AutoCloseAlert(e, i)
        \/ AttachEvent(e, i)
        \/ CheckAndReopen(e, i)

Handle(m) ==
    \/ RefuseStale(m)
    \/ ReleaseRun(m)
    \/ \E veto \in BOOLEAN : CompleteRun(m, veto)

WorkerStep ==
    \E w \in Workers :
        \/ \E r \in Runs, answered \in BOOLEAN : ClaimRun(w, r, answered)
        \/ HeartbeatRun(w)
        \/ \E b \in Bodies : FinishGraph(w, b)
        \/ PostRequest(w)
        \/ PostTimeout(w)
        \/ CrashWorker(w)

Api ==
    \/ \E m \in wire : Handle(m) \/ LoseRequest(m) \/ ServerError(m)
    \/ ReapExpiredLeases

Analyst ==
    \/ \E i \in Investigations :
          \/ CancelInvestigation(i)
          \/ \E reject, late \in BOOLEAN : ReviewDecision(i, reject, late)
    \/ \E r \in Runs : UnlockRun(r)

Clock == \E r \in Runs : BecomeDue(r) \/ ExpireAbandoned(r) \/ ExpireEarly(r)

Next == Ingest \/ WorkerStep \/ Api \/ Analyst \/ Clock

Spec == Init /\ [][Next]_vars

-----------------------------------------------------------------------------
(* Properties.                                                             *)

\* At most one live run per investigation, whatever the order of promotion,
\* reopening, follow-up, unlock and cancellation: start_run's callers keep it
\* without the help of uq_investigation_runs_single_active, so no request ever
\* fails on that index.
SingleLiveRun ==
    \A r1, r2 \in Runs :
        Live(r1) /\ Live(r2) /\ runCase[r1] = runCase[r2] => r1 = r2

\* A verdict takes effect at most once per run and exactly on the completed
\* ones: a repeated, late or stale completion, or one that arrives after the
\* case was cancelled or the run released, adds nothing (complete_run).
OneVerdict ==
    \A r \in Runs : verdicts[r] = IF runStatus[r] = "completed" THEN 1 ELSE 0

\* A retry is charged at most once per claim, and a run that may still be
\* claimed has retries left: a release whose answer was lost and that is
\* posted again never burns a second attempt (release_run).
AttemptsCharged ==
    \A r \in Runs :
        /\ attempts[r] + (IF runStatus[r] = "active" /\ lease[r] # 0 THEN 1 ELSE 0) <= grants[r]
        /\ Live(r) => attempts[r] < MaxAttempts

\* Two workers never work under the same lease of a run, and nobody holds a
\* lease newer than the current grant (claim_run hands out fresh lease ids).
LeaseUnique ==
    \A w1, w2 \in Workers :
        /\ worker[w1].run # NoRun => worker[w1].lease \in 1..grants[worker[w1].run]
        /\ /\ worker[w1].run # NoRun
           /\ worker[w1].run = worker[w2].run
           /\ worker[w1].lease = worker[w2].lease
           => w1 = w2

\* A cancelled investigation has no live run: no worker can claim, heartbeat
\* or complete one, whichever of cancel, complete, unlock and follow-up comes
\* first (cancel_investigation).
CancelledIsQuiet ==
    \A i \in Investigations : invStatus[i] = "cancelled" => LiveRunsOf(i) = {}

\* A lease that has not expired is only given up by a request its own holder
\* posted: a worker that was overtaken cannot end the claim of the worker that
\* overtook it (the lease_id predicate of release_run and complete_run).
LeaseFenced ==
    [][\A r \in Runs :
          lease[r] # 0 /\ ~expired[r] /\ lease'[r] # lease[r] =>
              \E m \in wire : m.run = r /\ m.lease = lease[r]]_vars

\* A completed or failed run stays what it is: unlock, reaper, late requests
\* and reopening of its case never bring it back.
TerminalIsFinal ==
    [][\A r \in Runs :
          runStatus[r] \in {"completed", "failed"} => runStatus'[r] = runStatus[r]]_vars

\* Evidence attached while a run was live is not lost when the run completes
\* and its case stays active: the completed run had read it, or the case has a
\* live run that will (has_new_evidence and the follow-up run of complete_run).
FollowUpCoversFlagged ==
    [][\A r \in Runs :
          LET i == runCase[r]
          IN  /\ runStatus[r] # "completed" /\ runStatus'[r] = "completed"
              /\ invStatus'[i] = "active"
              => \/ evidence[i] \cap flagged \subseteq snapshot[r]
                 \/ LiveRunsOf(i)' # {}]_vars

\* The phases of the abstract contract that the run statuses stand for.
ContractPhase ==
    [r \in Runs |->
        CASE runStatus[r] = "unused" -> "unused"
          [] runStatus[r] \in LiveStatuses -> "live"
          [] runStatus[r] = "completed" -> "settled"
          [] runStatus[r] = "failed" -> "dropped"]

TC == INSTANCE TriageContract WITH caseOf <- runCase, phase <- ContractPhase

\* The lease protocol, with its crashes, retries and stale requests,
\* implements the abstract contract: one live run per case, one verdict or
\* none per run, nothing after the end.
ImplementsContract == TC!Contract

-----------------------------------------------------------------------------
(* Liveness.  The scheduling the code guarantees: the worker loops poll    *)
(* for ever and finish or time out every HTTP call; the claim query takes  *)
(* the oldest claimable run first, so a run that keeps becoming claimable  *)
(* is claimed; the API handles what reaches it; clocks advance and the     *)
(* reaper runs every 30 s.  Ingest, analysts and faults are not fair.      *)

ClaimAnswered(r) == \E w \in Workers : ClaimRun(w, r, TRUE)
GraphEnds(w) == \E b \in Bodies : FinishGraph(w, b)
HandleFrom(w) == \E m \in wire : m.from = w /\ Handle(m)

Fairness ==
    /\ \A r \in Runs :
          /\ WF_vars(BecomeDue(r))
          /\ WF_vars(ExpireAbandoned(r))
          /\ SF_vars(ClaimAnswered(r))
    /\ \A w \in Workers :
          /\ WF_vars(GraphEnds(w))
          /\ WF_vars(PostRequest(w))
          /\ WF_vars(PostTimeout(w))
          /\ WF_vars(HandleFrom(w))
    /\ WF_vars(ReapExpiredLeases)

FairSpec == Spec /\ Fairness

\* No run is stranded: an active run of an active case settles, halts, fails
\* or loses its case, whatever crashes, lost requests and releases happen on
\* the way (lease expiry, reaper and the attempt cap).
RunSettles ==
    \A r \in Runs :
        (runStatus[r] = "active" /\ invStatus[runCase[r]] = "active")
            ~> (runStatus[r] # "active" \/ invStatus[runCase[r]] # "active")

\* Evidence that arrived during a run is eventually read by some claim, unless
\* the case leaves "active" or one of its runs fails or halts on its budget.
FlaggedIsExamined ==
    \A e \in Events, i \in Investigations :
        (e \in flagged /\ e \in evidence[i]) ~>
            \/ \E r \in Runs : runCase[r] = i /\ e \in snapshot[r]
            \/ invStatus[i] # "active"
            \/ \E r \in Runs : runCase[r] = i /\ runStatus[r] \in {"failed", "halted_budget"}
-----------------------------------------------------------------------------
(* What comments and docstrings of the code promise and the code does not  *)
(* keep: each is refuted by a run of its own.                              *)

\* "mid-run recurrence is picked up by the follow-up-run mechanism": evidence
\* that arrived during a run is read by that run or by a later one even when
\* the run closes its case (triage_event on what complete_run does).
RecurrencePickedUp ==
    [][\A r \in Runs :
          LET i == runCase[r]
          IN  runStatus[r] # "completed" /\ runStatus'[r] = "completed"
              => \/ evidence[i] \cap flagged \subseteq snapshot[r]
                 \/ LiveRunsOf(i)' # {}]_vars

\* "the existing run simply continues with the reopened investigation's
\* accumulated evidence": a run that completes and leaves its case active has
\* read all of its evidence, or a live run will (_check_and_reopen).
AccumulatedEvidenceRead ==
    [][\A r \in Runs :
          LET i == runCase[r]
          IN  /\ runStatus[r] # "completed" /\ runStatus'[r] = "completed"
              /\ invStatus'[i] = "active"
              => evidence[i] \subseteq snapshot[r] \/ LiveRunsOf(i)' # {}]_vars

\* No completion creates a pending review on a closed investigation, which is
\* what close_fp_floor_veto says it avoids; the plain escalation of
\* complete_run does not check.
ReviewsOnlyOpenCases ==
    [][\A i \in Investigations :
          ~pendingReview[i] /\ pendingReview'[i] => invStatus[i] = "active"]_vars

\* "a terminal transition": a cancelled investigation stays cancelled
\* (cancel_investigation; record_human_decision_received does not check).
CancelIsTerminal ==
    [][\A i \in Investigations :
          invStatus[i] = "cancelled" => invStatus'[i] = "cancelled"]_vars
=============================================================================
