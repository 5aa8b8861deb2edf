---------------------------- MODULE AgentProofs ----------------------------
(***************************************************************************)
(* Proofs about the agent protocol, for every set of charts and pods and   *)
(* every number of tokens, retries and faults.                             *)
(***************************************************************************)
EXTENDS AgentInstall, TLAPS

-----------------------------------------------------------------------------
(***************************************************************************)
(* The inductive invariant                                                 *)
(***************************************************************************)

\* A row that a request has read, if there was one, has a chart.
Known(r) == r.state # "none" => state # "none" /\ r.desired \in Charts

\* The first token creates the installation with its chart; before it there is no
\* token, no job and no registration.
Created ==
    IF state = "none"
    THEN /\ \A t \in Tokens : boot[t] = "unminted"
         /\ \A k \in Keys : status[k] = "absent"
         /\ ~enqueuing
    ELSE desired \in Charts

\* What requests have read: an issue that moves the chart was not rejected.
RequestsKnow ==
    /\ \A t \in Tokens : /\ Known(issue[t].row)
                         /\ issue[t].at \notin {"none", "done"} => issue[t].chart \in Charts
                         /\ issue[t].at \in {"moved", "revoked"} => issue[t].row.state # "none"
                         /\ issue[t].chart # issue[t].row.desired =>
                               issue[t].row.state \notin {"provisioning", "upgrading"}
    /\ \A i \in Retries : /\ Known(retry[i].row)
                          /\ retry[i].at = "read" => retry[i].row.state # "none"
    /\ Known(report.row)

Installed == Created /\ RequestsKnow

\* A call of :issue-agent mints its token at the end.  Between the revocation and the
\* token no other token is live and no other call is there, unless that is recorded.
Issuing ==
    /\ \A t \in Tokens : issue[t].at # "done" => boot[t] = "unminted"
    /\ "issues_overlapped" \notin overlaps =>
          \A t, u \in Tokens : issue[t].at = "revoked" =>
             boot[u] # "live" /\ (issue[u].at = "revoked" => t = u)

\* The completion under way is that of an authorized pod, for a job that stays
\* outstanding until it commits; only an operator's hold changes the tenant meanwhile,
\* and no other request makes the installation active.
Reporting ==
    report.by # NoPod =>
        /\ Authorized(report.by) /\ task[report.by] # NoJob /\ result[report.by] # "none"
        /\ Outstanding(task[report.by])
        /\ tenant \in {report.tenant, "held"}
        /\ state = "active" => report.row.state = "active"

\* The jobs whose success the installation waits for in state st.
AwaitedIn(st) ==
    {k \in Keys : \/ st = "agent_connected" /\ k = Preflight
                  \/ st = "provisioning" /\ k.kind \in {"install_helm_release"} \cup WaitKinds
                  \/ st = "upgrading" /\ k.kind \in {"upgrade_helm_release"} \cup WaitKinds}

\* On its way an installation has the job it waits for in the queue; that some job
\* is outstanding is not inductive, it may be one the state does not wait for.
Pipeline ==
    causes = {} /\ Moving => \/ state = "agent_connected" /\ enqueuing
                             \/ \E k \in AwaitedIn(state) : Outstanding(k)

IInv ==
    /\ TypeOK /\ Installed /\ Issuing /\ Reporting /\ OneCredential
    /\ Pipeline /\ Recoverable /\ TenantFollows

-----------------------------------------------------------------------------
(***************************************************************************)
(* The queue and the completion of a job                                   *)
(***************************************************************************)

LEMMA KeyTypes ==
    /\ Preflight \in Keys /\ NoJob \notin Keys
    /\ \A c \in Charts, kind \in ApplyKinds \cup WaitKinds : [kind |-> kind, chart |-> c] \in Keys
    /\ \A k \in Keys : k = Preflight \/ k.kind \in ApplyKinds \cup WaitKinds
    /\ \A k \in Keys : k = Preflight => k.kind = "preflight"
    /\ \A k \in Keys : k.kind \in ApplyKinds =>
          WaitFor[k.kind] \in WaitKinds /\ ApplyState[k.kind] \in {"provisioning", "upgrading"}
    /\ \A k \in Keys : k.kind \in ApplyKinds =>
          /\ ApplyState[k.kind] = "provisioning" <=> k.kind = "install_helm_release"
          /\ ApplyState[k.kind] = "upgrading" <=> k.kind = "upgrade_helm_release"
BY JobAssumption DEF Preflight, Keys, ApplyKinds, WaitKinds, WaitFor, ApplyState

\* A request that is not recorded as stale commits on the row it has read.
LEMMA StaleFacts ==
    ASSUME NEW r PROVE Stale(r) \subseteq Causes /\ ("stale_read" \notin Stale(r) => r = Row)
BY DEF Stale, Causes

\* The key that is queued is pending afterwards, or its reuse is recorded; no other
\* row changes.
LEMMA EnqueueFacts ==
    ASSUME TypeOK, NEW st \in [Keys -> JobStatus], NEW k \in Keys, NEW seen \in SUBSET Causes,
           NEW c \in Charts \cup {NoChart}, EnqueueAgentJob(st, k, c, seen)
    PROVE  /\ rows' \in Seq(Keys) /\ status' \in [Keys -> JobStatus]
           /\ spec' \in [Keys -> Charts \cup {NoChart}]
           /\ causes' \subseteq Causes /\ causes \subseteq causes' /\ seen \subseteq causes'
           /\ causes' = {} => status'[k] = "pending"
           /\ \A j \in Keys : status'[j] = st[j] \/ (j = k /\ st[k] = "absent" /\ status'[j] = "pending")
<1>0. /\ rows \in Seq(Keys) /\ spec \in [Keys -> Charts \cup {NoChart}] /\ causes \subseteq Causes
      /\ "pending" \in JobStatus /\ "key_reused" \in Causes
  BY DEF TypeOK, JobStatus, Causes
<1>1. CASE st[k] = "absent"
  <2>1. /\ rows' = Append(rows, k) /\ status' = [st EXCEPT ![k] = "pending"]
        /\ spec' = [spec EXCEPT ![k] = c] /\ causes' = causes \cup seen
    BY <1>1 DEF EnqueueAgentJob
  <2>2. rows' \in Seq(Keys)
    BY <1>0, <2>1
  <2> QED BY <1>0, <1>1, <2>1, <2>2
<1>2. CASE st[k] # "absent"
  <2>1. status' = st /\ causes' = causes \cup seen \cup {"key_reused"} /\ rows' = rows
        /\ spec' = spec
    BY <1>2 DEF EnqueueAgentJob
  <2>2. causes' # {} /\ causes' \subseteq Causes /\ causes \subseteq causes' /\ seen \subseteq causes'
    BY <1>0, <2>1
  <2>3. \A j \in Keys : status'[j] = st[j]
    BY <2>1
  <2>4. rows' \in Seq(Keys) /\ status' \in [Keys -> JobStatus]
        /\ spec' \in [Keys -> Charts \cup {NoChart}]
    BY <1>0, <2>1
  <2> QED BY <2>2, <2>3, <2>4
<1> QED BY <1>1, <1>2

\* The completion of job k with the row r commits.
Completed(r, k) == JobFailed(r, k) \/ Advances(r, k)

\* The tenant that a projection leaves.
LEMMA ProjectFacts ==
    ASSUME NEW target, Project(target)
    PROVE  \/ tenant' = target
           \/ tenant' = tenant /\ (tenant = "held" \/ report.tenant \in {"held", target})
BY DEF Project

LEMMA CompletedFacts ==
    ASSUME TypeOK, NEW r \in Rows, NEW k \in Keys, r.state # "none" => r.desired \in Charts,
           Completed(r, k)
    PROVE  /\ state' \in States /\ desired' = desired /\ action' \in Actions
           /\ rows' \in Seq(Keys) /\ status' \in [Keys -> JobStatus]
           /\ spec' \in [Keys -> Charts \cup {NoChart}]
           /\ causes' \subseteq Causes /\ causes \subseteq causes' /\ Stale(r) \subseteq causes'
           /\ tenant' \in TenantStates
           /\ state' # "none" \/ state' = state
<1> DEFINE done == [status EXCEPT ![k] = "succeeded"]
<1>0. /\ Stale(r) \in SUBSET Causes /\ causes \subseteq Causes /\ spec \in [Keys -> Charts \cup {NoChart}]
      /\ done \in [Keys -> JobStatus] /\ status \in [Keys -> JobStatus] /\ rows \in Seq(Keys)
      /\ state \in States /\ action \in Actions /\ tenant \in TenantStates
  BY StaleFacts DEF TypeOK, JobStatus
<1>1. \A target \in {"active", "degraded"} : Project(target) => tenant' \in TenantStates
  BY <1>0 DEF Project, TenantStates
<1>2. CASE NothingToAdvance(r, k)
  BY <1>0, <1>2 DEF NothingToAdvance, installation
<1>3. CASE JobFailed(r, k)
  <2>1. /\ state' = Written("degraded", r.state, state) /\ Project("degraded")
        /\ status' = [status EXCEPT ![k] = "failed"] /\ causes' = causes \cup Stale(r)
        /\ UNCHANGED <<desired, action, rows, spec>>
    BY <1>3 DEF JobFailed
  <2>2. state' \in States /\ (state' # "none" \/ state' = state)
    BY <1>0, <2>1 DEF Written, States
  <2>3. status' \in [Keys -> JobStatus]
    BY <1>0, <2>1 DEF JobStatus
  <2> QED BY <1>0, <1>1, <2>1, <2>2, <2>3
<1>4. CASE WaitDone(r, k)
  <2>1. /\ state' = "active" /\ Project("active") /\ action' = Written("none", r.action, action)
        /\ status' = done /\ causes' = causes \cup Stale(r) /\ UNCHANGED <<desired, rows, spec>>
    BY <1>4 DEF WaitDone
  <2>2. state' \in States /\ action' \in Actions
    BY <1>0, <2>1 DEF Written, States, Actions
  <2> QED BY <1>0, <1>1, <2>1, <2>2
<1>5. CASE PreflightDone(r, k)
  <2> DEFINE next == [kind |-> "install_helm_release", chart |-> r.desired]
  <2>1. /\ state' = "provisioning" /\ UNCHANGED <<desired, action, tenant>>
        /\ EnqueueAgentJob(done, next, r.desired, Stale(r)) /\ r.state = "agent_connected"
    BY <1>5 DEF PreflightDone
  <2>2. next \in Keys /\ r.desired \in Charts
    BY <2>1, KeyTypes DEF ApplyKinds
  <2> HIDE DEF done, next
  <2> QED BY <1>0, <2>1, <2>2, EnqueueFacts DEF States
<1>6. CASE ApplyDone(r, k)
  <2> DEFINE next == [kind |-> WaitFor[k.kind], chart |-> r.desired]
  <2>1. /\ EnqueueAgentJob(done, next, r.desired, Stale(r)) /\ UNCHANGED <<state, desired, action, tenant>>
        /\ k.kind \in ApplyKinds /\ r.state = ApplyState[k.kind]
    BY <1>6 DEF ApplyDone, installation
  <2>2. r.desired \in Charts
    BY <2>1, KeyTypes
  <2>3. next \in Keys
    BY <2>1, <2>2, KeyTypes
  <2> HIDE DEF done, next
  <2> QED BY <1>0, <2>1, <2>2, <2>3, EnqueueFacts
<1> QED BY <1>2, <1>3, <1>4, <1>5, <1>6 DEF Completed, Advances

\* The completion that commits is the one under way.
LEMMA CommitFacts ==
    ASSUME TypeOK, Installed, Reporting, NEW p \in Pods, NEW answered \in BOOLEAN,
           CompleteCommits(p, answered)
    PROVE  /\ report.by = p /\ task[p] \in Keys /\ Outstanding(task[p]) /\ Authorized(p)
           /\ result[p] \in {"success", "failed"}
           /\ report.row \in Rows /\ (report.row.state # "none" => report.row.desired \in Charts)
           /\ Completed(report.row, task[p])
           /\ result[p] = "failed" => JobFailed(report.row, task[p])
           /\ result[p] = "success" => Advances(report.row, task[p])
           /\ report' = Silent /\ Answer(p, answered)
           /\ UNCHANGED <<issue, retry, boot, runtime, held, enqueuing, deployed, overlaps>>
<1>1. report.by = p /\ p # NoPod
  BY PodAssumption DEF CompleteCommits
<1>2. task[p] \in Keys /\ Outstanding(task[p]) /\ Authorized(p) /\ result[p] \in {"success", "failed"}
  BY <1>1 DEF Reporting, TypeOK
<1>3. report.row \in Rows /\ (report.row.state # "none" => report.row.desired \in Charts)
  BY DEF TypeOK, Installed, RequestsKnow, Known
<1>4. /\ result[p] = "failed" => JobFailed(report.row, task[p])
      /\ result[p] = "success" => Advances(report.row, task[p])
  BY <1>2 DEF CompleteCommits
<1>5. Completed(report.row, task[p])
  BY <1>2, <1>4 DEF Completed
<1> QED BY <1>1, <1>2, <1>3, <1>4, <1>5 DEF CompleteCommits, tokens

-----------------------------------------------------------------------------
(***************************************************************************)
(* Types                                                                   *)
(***************************************************************************)

LEMMA InitTypeOK == Init => TypeOK
<1> SUFFICES ASSUME Init PROVE TypeOK
  OBVIOUS
<1>1. rows \in Seq(Keys)
  BY DEF Init
<1>2. faults \in 0..MaxFaults
  BY BoundsAssumption DEF Init
<1>3. causes \subseteq Causes /\ overlaps \subseteq Overlaps
  BY DEF Init
<1>4. NoRow \in Rows
  BY DEF NoRow, Rows, States, Actions
<1>5. state \in States /\ desired \in Charts \cup {NoChart} /\ action \in Actions
  BY DEF Init, States, Actions
<1>6. issue \in [Tokens -> [at : {"none", "read", "moved", "revoked", "done"},
                            chart : Charts \cup {NoChart}, row : Rows]]
  BY <1>4 DEF Init, Called
<1>7. /\ retry \in [Retries -> [at : {"none", "read", "done"}, row : Rows]]
      /\ report \in [by : Pods \cup {NoPod}, row : Rows, tenant : TenantStates]
  BY <1>4 DEF Init, Silent, TenantStates
<1> QED BY <1>1, <1>2, <1>3, <1>5, <1>6, <1>7 DEF Init, TypeOK, TenantStates, JobStatus

\* Requests stay well typed.
Requests ==
    /\ issue \in [Tokens -> [at : {"none", "read", "moved", "revoked", "done"},
                             chart : Charts \cup {NoChart}, row : Rows]]
    /\ retry \in [Retries -> [at : {"none", "read", "done"}, row : Rows]]
    /\ report \in [by : Pods \cup {NoPod}, row : Rows, tenant : TenantStates]

LEMMA RowTypes == TypeOK => Row \in Rows /\ NoRow \in Rows /\ Requests
BY DEF TypeOK, Row, Rows, NoRow, States, Actions, Requests

LEMMA FaultTypes ==
    ASSUME TypeOK, faults' = faults \/ (faults < MaxFaults /\ faults' = faults + 1)
    PROVE  faults' \in 0..MaxFaults
BY BoundsAssumption DEF TypeOK

LEMMA IssueTypeOK ==
    ASSUME TypeOK, Installed, NEW t \in Tokens,
           \/ \E c \in Charts : IssueReads(t, c)
           \/ IssueCreates(t) \/ IssueDispatches(t) \/ IssueRevokes(t) \/ IssueMints(t)
    PROVE  TypeOK'
<1>0. Row \in Rows /\ NoRow \in Rows /\ Requests
  BY RowTypes
<1>1. ASSUME NEW c \in Charts, IssueReads(t, c) PROVE TypeOK'
  <2>1. Requests'
    BY <1>0, <1>1 DEF IssueReads, Requests
  <2> QED BY <1>1, <2>1 DEF IssueReads, TypeOK, Requests, installation, tokens, jobs, pods, history
<1>2. CASE IssueCreates(t)
  <2>1. Requests'
    BY <1>0, <1>2 DEF IssueCreates, Requests, Called
  <2>2. state' \in States /\ desired' \in Charts \cup {NoChart} /\ action' \in Actions
    BY <1>0, <1>2 DEF IssueCreates, Requests, States, Actions
  <2>3. boot' \in [Tokens -> {"unminted", "live", "consumed", "dead"}]
    BY <1>2 DEF IssueCreates, TypeOK
  <2> QED BY <1>2, <2>1, <2>2, <2>3 DEF IssueCreates, TypeOK, Requests, jobs, pods, history
<1>3. CASE IssueDispatches(t)
  <2> DEFINE i == issue[t]
  <2>1. i.chart \in Charts /\ i.row \in Rows
    BY <1>0, <1>3 DEF IssueDispatches, Installed, RequestsKnow, Requests
  <2>2. Upgrade(i.chart) \in Keys /\ status \in [Keys -> JobStatus] /\ Stale(i.row) \in SUBSET Causes
    BY <2>1, KeyTypes, StaleFacts DEF Upgrade, ApplyKinds, TypeOK
  <2>3. EnqueueAgentJob(status, Upgrade(i.chart), i.chart, Stale(i.row))
    BY <1>3 DEF IssueDispatches
  <2>4. /\ rows' \in Seq(Keys) /\ status' \in [Keys -> JobStatus]
        /\ spec' \in [Keys -> Charts \cup {NoChart}] /\ causes' \subseteq Causes
    BY <2>1, <2>2, <2>3, EnqueueFacts
  <2>5. state' \in States /\ desired' \in Charts \cup {NoChart} /\ action' \in Actions
    BY <1>3, <2>1 DEF IssueDispatches, States, Actions, Written, TypeOK
  <2>6. Requests'
    <3>1. [i.row EXCEPT !.desired = i.chart] \in Rows
      BY <2>1 DEF Rows
    <3>2. issue' = [issue EXCEPT ![t] = [at |-> "moved", chart |-> i.chart,
                                         row |-> [i.row EXCEPT !.desired = i.chart]]]
      BY <1>3 DEF IssueDispatches
    <3> HIDE DEF i
    <3> QED BY <1>0, <1>3, <2>1, <3>1, <3>2 DEF IssueDispatches, Requests
  <2> QED BY <1>3, <2>4, <2>5, <2>6 DEF IssueDispatches, TypeOK, Requests, tokens, pods
<1>4. CASE IssueRevokes(t)
  <2>1. Requests'
    <3>1. [issue[t] EXCEPT !.at = "revoked"]
             \in [at : {"none", "read", "moved", "revoked", "done"}, chart : Charts \cup {NoChart},
                  row : Rows]
      BY <1>0 DEF Requests
    <3>2. issue' = [issue EXCEPT ![t] = [issue[t] EXCEPT !.at = "revoked"]]
      BY <1>0, <1>4 DEF IssueRevokes, Requests
    <3> QED BY <1>0, <1>4, <3>1, <3>2 DEF IssueRevokes, Requests
  <2>2. boot' \in [Tokens -> {"unminted", "live", "consumed", "dead"}]
    BY <1>4 DEF IssueRevokes, TypeOK
  <2>3. overlaps' \subseteq Overlaps
    BY <1>4 DEF IssueRevokes, TypeOK, Overlaps
  <2> QED BY <1>4, <2>1, <2>2, <2>3 DEF IssueRevokes, TypeOK, Requests, installation, jobs, pods
<1>5. CASE IssueMints(t)
  <2>1. Requests'
    BY <1>0, <1>5 DEF IssueMints, Requests, Called
  <2>2. boot' \in [Tokens -> {"unminted", "live", "consumed", "dead"}]
    BY <1>5 DEF IssueMints, TypeOK
  <2>3. /\ state' \in States /\ desired' \in Charts \cup {NoChart} /\ action' \in Actions
        /\ causes' \subseteq Causes
    <3>1. issue[t].chart \in Charts
      BY <1>5 DEF IssueMints, Installed, RequestsKnow
    <3>2. Stale(issue[t].row) \subseteq Causes
      BY StaleFacts
    <3>3. CASE Reissue(issue[t])
      BY <3>3 DEF Reissue, TypeOK
    <3>4. CASE MoveEarly(issue[t])
      BY <3>1, <3>2, <3>4 DEF MoveEarly, TypeOK, Written, Actions
    <3>5. CASE UpgradeAgain(issue[t])
      BY <3>1, <3>2, <3>5 DEF UpgradeAgain, TypeOK, Written, Actions, States, Causes
    <3> QED BY <1>5, <3>3, <3>4, <3>5 DEF IssueMints
  <2> QED BY <1>5, <2>1, <2>2, <2>3 DEF IssueMints, TypeOK, Requests, jobs, pods
<1> QED BY <1>1, <1>2, <1>3, <1>4, <1>5

LEMMA RetryTypeOK ==
    ASSUME TypeOK, Installed, NEW i \in Retries, NEW broken \in SUBSET Resettable,
           RetryReads(i) \/ RetryCommits(i, broken)
    PROVE  TypeOK'
<1>0. Row \in Rows /\ NoRow \in Rows /\ Requests
  BY RowTypes
<1>1. CASE RetryReads(i)
  <2>1. Requests'
    BY <1>0, <1>1 DEF RetryReads, Requests
  <2> QED BY <1>1, <2>1 DEF RetryReads, TypeOK, Requests, installation, tokens, jobs, pods, history
<1>2. CASE RetryCommits(i, broken)
  <2>1. status' \in [Keys -> JobStatus]
    BY <1>2 DEF RetryCommits, TypeOK, JobStatus
  <2>2. spec' \in [Keys -> Charts \cup {NoChart}]
    <3>1. retry[i].row.desired \in Charts \cup {NoChart}
      BY <1>0 DEF Requests, Rows
    <3> QED BY <1>2, <3>1 DEF RetryCommits, TypeOK
  <2>3. state' \in States
    BY <1>2 DEF RetryCommits, ResumeState, TypeOK, States
  <2>4. causes' \subseteq Causes /\ overlaps' \subseteq Overlaps
    <3>1. Stale(retry[i].row) \subseteq Causes
      BY StaleFacts
    <3> QED BY <1>2, <3>1 DEF RetryCommits, TypeOK, Causes, Overlaps
  <2>5. Requests'
    BY <1>0, <1>2 DEF RetryCommits, Requests
  <2>6. UNCHANGED <<desired, action, tokens, rows, enqueuing, tenant, pods, deployed, faults>>
    BY <1>2 DEF RetryCommits
  <2> QED BY <2>1, <2>2, <2>3, <2>4, <2>5, <2>6 DEF TypeOK, Requests, tokens, pods
<1> QED BY <1>1, <1>2

LEMMA AnswerTypes ==
    ASSUME TypeOK, NEW p \in Pods, NEW answered \in BOOLEAN, Answer(p, answered)
    PROVE  /\ task' \in [Pods -> Keys \cup {NoJob}]
           /\ chartOf' \in [Pods -> Charts \cup {NoChart}]
           /\ result' \in [Pods -> {"none", "success", "failed"}]
           /\ faults' \in 0..MaxFaults
<1>1. faults' \in 0..MaxFaults
  BY FaultTypes DEF Answer
<1> QED BY <1>1 DEF Answer, TypeOK, pods

LEMMA CompletionTypeOK ==
    ASSUME TypeOK, Installed, Reporting, NEW p \in Pods, NEW answered \in BOOLEAN,
           Duplicate(p, answered) \/ CompleteReads(p) \/ CompleteCommits(p, answered)
    PROVE  TypeOK'
<1>0. Row \in Rows /\ NoRow \in Rows /\ Requests
  BY RowTypes
<1>1. CASE Duplicate(p, answered)
  <2>1. Answer(p, answered)
    BY <1>1 DEF Duplicate
  <2> QED BY <1>1, <2>1, AnswerTypes
      DEF Duplicate, TypeOK, installation, requests, tokens, jobs, history
<1>2. CASE CompleteReads(p)
  <2>1. Requests'
    BY <1>0, <1>2 DEF CompleteReads, Requests, TypeOK
  <2> QED BY <1>2, <2>1 DEF CompleteReads, TypeOK, Requests, installation, tokens, jobs, pods, history
<1>3. CASE CompleteCommits(p, answered)
  <2>1. /\ task[p] \in Keys /\ report.row \in Rows
        /\ report.row.state # "none" => report.row.desired \in Charts
        /\ Completed(report.row, task[p]) /\ report' = Silent /\ Answer(p, answered)
        /\ UNCHANGED <<issue, retry, boot, runtime, held, enqueuing, deployed, overlaps>>
    BY <1>3, CommitFacts
  <2>2. /\ state' \in States /\ desired' = desired /\ action' \in Actions
        /\ rows' \in Seq(Keys) /\ status' \in [Keys -> JobStatus]
        /\ spec' \in [Keys -> Charts \cup {NoChart}] /\ causes' \subseteq Causes
        /\ tenant' \in TenantStates
    BY <2>1, CompletedFacts
  <2>3. Requests'
    BY <1>0, <2>1, <2>2 DEF Requests, Silent, TenantStates
  <2>4. /\ task' \in [Pods -> Keys \cup {NoJob}]
        /\ chartOf' \in [Pods -> Charts \cup {NoChart}]
        /\ result' \in [Pods -> {"none", "success", "failed"}]
        /\ faults' \in 0..MaxFaults
    BY <2>1, AnswerTypes
  <2> QED BY <2>1, <2>2, <2>3, <2>4 DEF TypeOK, Requests
<1> QED BY <1>1, <1>2, <1>3

LEMMA NextTypeOK == TypeOK /\ Installed /\ Reporting /\ [Next]_vars => TypeOK'
<1> SUFFICES ASSUME TypeOK, Installed, Reporting, [Next]_vars PROVE TypeOK'
  OBVIOUS
<1>1. ASSUME NEW t \in Tokens,
             \/ \E c \in Charts : IssueReads(t, c)
             \/ IssueCreates(t) \/ IssueDispatches(t) \/ IssueRevokes(t) \/ IssueMints(t)
      PROVE  TypeOK'
  BY <1>1, IssueTypeOK
<1>2. ASSUME NEW i \in Retries, NEW broken \in SUBSET Resettable,
             RetryReads(i) \/ RetryCommits(i, broken)
      PROVE  TypeOK'
  BY <1>2, RetryTypeOK
<1>3. ASSUME NEW t \in Tokens, BootstrapExpires(t) PROVE TypeOK'
  BY <1>3 DEF BootstrapExpires, TypeOK, installation, requests, jobs, pods, history
<1>4. ASSUME NEW p \in Pods, NEW t \in Tokens, NEW answered \in BOOLEAN, Register(p, t, answered)
      PROVE  TypeOK'
  <2>1. /\ state' \in States /\ enqueuing' \in BOOLEAN
    BY <1>4 DEF Register, Connect, TypeOK, States
  <2>2. boot' \in [Tokens -> {"unminted", "live", "consumed", "dead"}] /\ runtime' \subseteq Tokens
    BY <1>4 DEF Register, TypeOK
  <2>3. held' \in [Pods -> Tokens \cup {0}]
    BY <1>4 DEF Register, TypeOK
  <2>4. faults' \in 0..MaxFaults
    BY <1>4, FaultTypes DEF Register
  <2> QED BY <1>4, <2>1, <2>2, <2>3, <2>4 DEF Register, TypeOK, requests, jobs, pods, history
<1>5. ASSUME QueuePreflight PROVE TypeOK'
  <2>1. status \in [Keys -> JobStatus] /\ Preflight \in Keys
    BY KeyTypes DEF TypeOK
  <2>2. EnqueueAgentJob(status, Preflight, NoChart, {})
    BY <1>5 DEF QueuePreflight
  <2>3. /\ rows' \in Seq(Keys) /\ status' \in [Keys -> JobStatus]
        /\ spec' \in [Keys -> Charts \cup {NoChart}] /\ causes' \subseteq Causes
    BY <2>1, <2>2, EnqueueFacts
  <2> QED BY <1>5, <2>3 DEF QueuePreflight, TypeOK, installation, requests, tokens, pods
<1>6. ASSUME RegisterDies PROVE TypeOK'
  <2>1. faults' \in 0..MaxFaults
    BY <1>6, FaultTypes DEF RegisterDies
  <2>2. causes' \subseteq Causes /\ enqueuing' \in BOOLEAN
    BY <1>6 DEF RegisterDies, TypeOK, Causes
  <2> QED BY <1>6, <2>1, <2>2 DEF RegisterDies, TypeOK, installation, requests, tokens, jobs, pods
<1>7. ASSUME NEW p \in Pods, NEW k \in Keys, NEW old \in InFlight, NEW answered \in BOOLEAN,
             ClaimJob(p, k, old, answered)
      PROVE  TypeOK'
  <2>1. status' \in [Keys -> JobStatus]
    BY <1>7 DEF ClaimJob, Reclaim, TypeOK, JobStatus
  <2>2. /\ task' \in [Pods -> Keys \cup {NoJob}]
        /\ chartOf' \in [Pods -> Charts \cup {NoChart}]
    <3>1. spec[k] \in Charts \cup {NoChart}
      BY DEF TypeOK
    <3>2. \/ task' = [task EXCEPT ![p] = k] /\ chartOf' = [chartOf EXCEPT ![p] = spec[k]]
          \/ task' = task /\ chartOf' = chartOf
      BY <1>7 DEF ClaimJob
    <3> QED BY <3>1, <3>2 DEF TypeOK
  <2>3. faults' \in 0..MaxFaults
    BY <1>7, FaultTypes DEF ClaimJob
  <2>4. overlaps' \subseteq Overlaps
    BY <1>7 DEF ClaimJob, TypeOK, Overlaps
  <2> QED BY <1>7, <2>1, <2>2, <2>3, <2>4 DEF ClaimJob, TypeOK, installation, requests, tokens
<1>8. ASSUME NEW p \in Pods, NEW r \in {"success", "failed"}, Execute(p, r)
      PROVE  TypeOK'
  <2>1. result' \in [Pods -> {"none", "success", "failed"}] /\ deployed' \in Charts \cup {NoChart}
    BY <1>8 DEF Execute, TypeOK
  <2> QED BY <1>8, <2>1 DEF Execute, TypeOK, installation, requests, tokens, jobs, history
<1>9. ASSUME NEW p \in Pods, NEW answered \in BOOLEAN,
             Duplicate(p, answered) \/ CompleteReads(p) \/ CompleteCommits(p, answered)
      PROVE  TypeOK'
  BY <1>9, CompletionTypeOK
<1>11. ASSUME NEW p \in Pods, PodStops(p) PROVE TypeOK'
  <2>1. faults' \in 0..MaxFaults
    BY <1>11, FaultTypes DEF PodStops
  <2> QED BY <1>11, <2>1 DEF PodStops, TypeOK, installation, requests, jobs, history
<1>12. ASSUME OperatorHolds PROVE TypeOK'
  BY <1>12 DEF OperatorHolds, TypeOK, TenantStates, installation, requests, tokens, jobs, pods, history
<1>13. ASSUME UNCHANGED vars PROVE TypeOK'
  BY <1>13 DEF vars, TypeOK, installation, requests, tokens, jobs, pods, history
<1> QED BY <1>1, <1>2, <1>3, <1>4, <1>5, <1>6, <1>7, <1>8, <1>9, <1>11, <1>12, <1>13
        DEF Next, Agent, Operator

-----------------------------------------------------------------------------
(***************************************************************************)
(* What requests have read                                                 *)
(***************************************************************************)

\* An installation that was created stays.
Stays == state # "none" => state' # "none"

LEMMA IssueCreated ==
    ASSUME TypeOK, Installed, NEW t \in Tokens,
           \/ \E c \in Charts : IssueReads(t, c)
           \/ IssueCreates(t) \/ IssueDispatches(t) \/ IssueRevokes(t) \/ IssueMints(t)
    PROVE  Created' /\ Stays
<1>0. Created /\ (issue[t].at \notin {"none", "done"} => issue[t].chart \in Charts)
      /\ (issue[t].at = "revoked" => issue[t].row.state # "none") /\ Known(issue[t].row)
  BY DEF Installed, RequestsKnow
<1>1. CASE \E c \in Charts : IssueReads(t, c)
  BY <1>0, <1>1 DEF IssueReads, Created, Stays, installation, tokens, jobs
<1>2. CASE IssueCreates(t) \/ IssueDispatches(t)
  BY <1>0, <1>2 DEF IssueCreates, IssueDispatches, Created, Stays
<1>3. CASE IssueRevokes(t)
  BY <1>0, <1>3 DEF IssueRevokes, Created, Known, Stays, installation
<1>4. CASE IssueMints(t)
  BY <1>0, <1>4 DEF IssueMints, Reissue, MoveEarly, UpgradeAgain, Created, Known, Stays
<1> QED BY <1>1, <1>2, <1>3, <1>4

LEMMA NextCreated == TypeOK /\ Installed /\ Reporting /\ [Next]_vars => Created' /\ Stays
<1> SUFFICES ASSUME TypeOK, Installed, Reporting, [Next]_vars PROVE Created' /\ Stays
  OBVIOUS
<1>0. Created /\ \A i \in Retries : /\ Known(retry[i].row)
                                    /\ retry[i].at = "read" => retry[i].row.state # "none"
  BY DEF Installed, RequestsKnow
<1>1. ASSUME NEW t \in Tokens,
             \/ \E c \in Charts : IssueReads(t, c)
             \/ IssueCreates(t) \/ IssueDispatches(t) \/ IssueRevokes(t) \/ IssueMints(t)
      PROVE  Created' /\ Stays
  BY <1>1, IssueCreated
<1>2. ASSUME NEW i \in Retries, NEW broken \in SUBSET Resettable, RetryCommits(i, broken)
      PROVE  Created' /\ Stays
  <2>1. state # "none" /\ desired' = desired
    BY <1>0, <1>2 DEF RetryCommits, Known
  <2>2. state' # "none"
    BY <1>2, <2>1 DEF RetryCommits, ResumeState
  <2> QED BY <1>0, <2>1, <2>2 DEF Created, Stays
<1>3. ASSUME NEW p \in Pods, NEW t \in Tokens, NEW answered \in BOOLEAN, Register(p, t, answered)
      PROVE  Created' /\ Stays
  BY <1>0, <1>3 DEF Register, Connect, Created, Stays
<1>4. ASSUME QueuePreflight \/ RegisterDies \/ \E t \in Tokens : BootstrapExpires(t)
      PROVE  Created' /\ Stays
  <2>1. state # "none" /\ UNCHANGED <<state, desired>>
    BY <1>0, <1>4 DEF QueuePreflight, RegisterDies, BootstrapExpires, Created, installation
  <2> QED BY <1>0, <2>1 DEF Created, Stays
<1>5. ASSUME NEW p \in Pods, NEW k \in Keys, NEW old \in InFlight, NEW answered \in BOOLEAN,
             ClaimJob(p, k, old, answered)
      PROVE  Created' /\ Stays
  <2>1. state # "none" /\ UNCHANGED <<state, desired>>
    BY <1>0, <1>5 DEF ClaimJob, IsOldest, Reclaim, InFlight, Created, installation
  <2> QED BY <1>0, <2>1 DEF Created, Stays
<1>6. ASSUME NEW p \in Pods, NEW answered \in BOOLEAN, CompleteCommits(p, answered)
      PROVE  Created' /\ Stays
  <2>1. /\ task[p] \in Keys /\ Outstanding(task[p]) /\ report.row \in Rows
        /\ report.row.state # "none" => report.row.desired \in Charts
        /\ Completed(report.row, task[p])
    BY <1>6, CommitFacts
  <2>2. desired' = desired /\ (state' # "none" \/ state' = state)
    BY <2>1, CompletedFacts
  <2>3. state # "none"
    BY <1>0, <2>1 DEF Created, Outstanding
  <2> QED BY <1>0, <2>2, <2>3 DEF Created, Stays
<1>7. ASSUME \/ \E i \in Retries : RetryReads(i)
             \/ \E p \in Pods, r \in {"success", "failed"} : Execute(p, r)
             \/ \E p \in Pods, answered \in BOOLEAN : Duplicate(p, answered)
             \/ \E p \in Pods : CompleteReads(p) \/ PodStops(p)
             \/ OperatorHolds \/ UNCHANGED vars
      PROVE  Created' /\ Stays
  <2>1. UNCHANGED <<state, desired, boot, status, enqueuing>>
    BY <1>7 DEF RetryReads, Execute, Duplicate, CompleteReads, PodStops, OperatorHolds, vars,
     installation, tokens, jobs
  <2> QED BY <1>0, <2>1 DEF Created, Stays
<1> QED BY <1>1, <1>2, <1>3, <1>4, <1>5, <1>6, <1>7 DEF Next, Agent, Operator

\* The steps that are no request of an operator and no completion.
Others ==
    \/ \E t \in Tokens : BootstrapExpires(t)
    \/ \E p \in Pods, t \in Tokens, answered \in BOOLEAN : Register(p, t, answered)
    \/ QueuePreflight \/ RegisterDies
    \/ \E p \in Pods, k \in Keys, old \in InFlight, answered \in BOOLEAN :
          ClaimJob(p, k, old, answered)
    \/ \E p \in Pods, r \in {"success", "failed"} : Execute(p, r)
    \/ \E p \in Pods, answered \in BOOLEAN : Duplicate(p, answered)
    \/ \E p \in Pods : PodStops(p)
    \/ OperatorHolds \/ UNCHANGED vars

LEMMA OthersAskNothing == Others => UNCHANGED requests
BY DEF Others, BootstrapExpires, Register, QueuePreflight, RegisterDies, ClaimJob, Execute, Duplicate,
   PodStops, OperatorHolds, vars

LEMMA NextKnow == TypeOK /\ Installed /\ Stays /\ [Next]_vars => RequestsKnow'
<1> SUFFICES ASSUME TypeOK, Installed, Stays, [Next]_vars PROVE RequestsKnow'
  OBVIOUS
<1>0. RequestsKnow /\ (state # "none" => desired \in Charts) /\ Requests
  BY RowTypes DEF Installed, Created
<1>1. /\ \A t \in Tokens : Known(issue[t].row) => (issue'[t] = issue[t] => Known(issue[t].row)')
      /\ \A i \in Retries : Known(retry[i].row) => (retry'[i] = retry[i] => Known(retry[i].row)')
      /\ Known(report.row) => (report' = report => Known(report.row)')
  BY DEF Known, Stays
<1>2. ASSUME NEW t \in Tokens, NEW c \in Charts, IssueReads(t, c) PROVE RequestsKnow'
  <2>1. /\ UNCHANGED <<retry, report, state, desired>>
        /\ issue' = [issue EXCEPT ![t] = [at |-> "read", chart |-> c, row |-> Row]]
        /\ c # desired => state \notin {"provisioning", "upgrading"}
    BY <1>2 DEF IssueReads, installation
  <2>2. \A u \in Tokens : issue'[u] = IF u = t THEN [at |-> "read", chart |-> c, row |-> Row]
                                      ELSE issue[u]
    BY <1>0, <2>1 DEF Requests
  <2>3. \A u \in Tokens : Known(issue[u].row)'
    BY <1>0, <1>1, <2>1, <2>2 DEF RequestsKnow, Known, Row
  <2> QED BY <1>0, <1>1, <2>1, <2>2, <2>3 DEF RequestsKnow, Row
<1>3. ASSUME NEW t \in Tokens, IssueCreates(t) \/ IssueMints(t) PROVE RequestsKnow'
  <2>1. UNCHANGED <<retry, report>> /\ issue' = [issue EXCEPT ![t] = [Called EXCEPT !.at = "done"]]
    BY <1>3 DEF IssueCreates, IssueMints
  <2>2. \A u \in Tokens : \/ issue'[u] = issue[u]
                          \/ issue'[u] = [at |-> "done", chart |-> NoChart, row |-> NoRow]
    BY <1>0, <2>1 DEF Requests, Called
  <2>3. \A u \in Tokens : Known(issue[u].row)'
    BY <1>0, <1>1, <2>2 DEF RequestsKnow, Known, NoRow
  <2>4. \A u \in Tokens :
           /\ issue'[u].at \notin {"none", "done"} => issue'[u].chart \in Charts
           /\ issue'[u].at \in {"moved", "revoked"} => issue'[u].row.state # "none"
           /\ issue'[u].chart # issue'[u].row.desired =>
                 issue'[u].row.state \notin {"provisioning", "upgrading"}
    BY <1>0, <2>2 DEF RequestsKnow, NoRow
  <2> QED BY <1>0, <1>1, <2>1, <2>3, <2>4 DEF RequestsKnow
<1>4. ASSUME NEW t \in Tokens, IssueDispatches(t) PROVE RequestsKnow'
  <2> DEFINE moved == [at |-> "moved", chart |-> issue[t].chart,
                       row |-> [issue[t].row EXCEPT !.desired = issue[t].chart]]
  <2>1. /\ UNCHANGED <<retry, report>> /\ issue' = [issue EXCEPT ![t] = moved]
        /\ issue[t].at = "read" /\ issue[t].row.state # "none" /\ state' # "none"
    BY <1>4 DEF IssueDispatches, Dispatches, Settled
  <2>2. issue[t].chart \in Charts /\ issue[t].row \in Rows
    BY <1>0, <2>1 DEF RequestsKnow, Requests
  <2>3. moved.row.state = issue[t].row.state /\ moved.row.desired = issue[t].chart
        /\ moved.at = "moved" /\ moved.chart = issue[t].chart
    BY <2>2 DEF Rows
  <2> HIDE DEF moved
  <2>4. \A u \in Tokens : issue'[u] = IF u = t THEN moved ELSE issue[u]
    BY <1>0, <2>1 DEF Requests
  <2>5. \A u \in Tokens : Known(issue[u].row)'
    BY <1>0, <1>1, <2>1, <2>2, <2>3, <2>4 DEF RequestsKnow, Known
  <2> QED BY <1>0, <1>1, <2>1, <2>2, <2>3, <2>4, <2>5 DEF RequestsKnow
<1>5. ASSUME NEW t \in Tokens, IssueRevokes(t) PROVE RequestsKnow'
  <2>1. /\ UNCHANGED <<retry, report>> /\ issue[t].at \in {"read", "moved"}
        /\ issue[t].row.state # "none" /\ issue' = [issue EXCEPT ![t].at = "revoked"]
    BY <1>5 DEF IssueRevokes
  <2>2. \A u \in Tokens : /\ issue'[u].row = issue[u].row /\ issue'[u].chart = issue[u].chart
                          /\ issue'[u].at = IF u = t THEN "revoked" ELSE issue[u].at
    BY <1>0, <2>1 DEF Requests
  <2>3. \A u \in Tokens : Known(issue[u].row)'
    BY <1>0, <2>2 DEF RequestsKnow, Known, Stays
  <2> QED BY <1>0, <1>1, <2>1, <2>2, <2>3 DEF RequestsKnow
<1>6. ASSUME NEW i \in Retries, RetryReads(i) PROVE RequestsKnow'
  <2>1. /\ UNCHANGED <<issue, report, state, desired>> /\ state # "none"
        /\ retry' = [retry EXCEPT ![i] = [at |-> "read", row |-> Row]]
    BY <1>6 DEF RetryReads, installation
  <2>2. \A j \in Retries : retry'[j] = retry[j] \/ retry'[j] = [at |-> "read", row |-> Row]
    BY <1>0, <2>1 DEF Requests
  <2> QED BY <1>0, <1>1, <2>1, <2>2 DEF RequestsKnow, Known, Row
<1>7. ASSUME NEW i \in Retries, NEW broken \in SUBSET Resettable, RetryCommits(i, broken)
      PROVE  RequestsKnow'
  <2>1. /\ UNCHANGED <<issue, report>>
        /\ retry' = [retry EXCEPT ![i] = [at |-> "done", row |-> NoRow]]
    BY <1>7 DEF RetryCommits
  <2>2. \A j \in Retries : retry'[j] = retry[j] \/ retry'[j] = [at |-> "done", row |-> NoRow]
    BY <1>0, <2>1 DEF Requests
  <2> QED BY <1>0, <1>1, <2>1, <2>2 DEF RequestsKnow, Known, NoRow
<1>8. ASSUME NEW p \in Pods, CompleteReads(p) PROVE RequestsKnow'
  <2>1. report'.row = Row /\ UNCHANGED <<issue, retry, state, desired>>
    BY <1>8 DEF CompleteReads, installation
  <2> QED BY <1>0, <1>1, <2>1 DEF RequestsKnow, Known, Row
<1>9. ASSUME NEW p \in Pods, NEW answered \in BOOLEAN, CompleteCommits(p, answered)
      PROVE  RequestsKnow'
  <2>1. report'.row = NoRow /\ UNCHANGED <<issue, retry>>
    BY <1>9 DEF CompleteCommits, Silent
  <2> QED BY <1>0, <1>1, <2>1 DEF RequestsKnow, Known, NoRow
<1>10. ASSUME Others PROVE RequestsKnow'
  <2>1. UNCHANGED <<issue, retry, report>>
    BY <1>10, OthersAskNothing DEF requests
  <2> QED BY <1>0, <1>1, <2>1 DEF RequestsKnow
<1> QED BY <1>2, <1>3, <1>4, <1>5, <1>6, <1>7, <1>8, <1>9, <1>10 DEF Next, Agent, Operator, Others

LEMMA NextInstalled == TypeOK /\ Installed /\ Reporting /\ [Next]_vars => Installed'
BY NextCreated, NextKnow DEF Installed

-----------------------------------------------------------------------------
(***************************************************************************)
(* Credentials                                                             *)
(***************************************************************************)

LEMMA InitCredentials == Init => Issuing /\ OneCredential
<1> SUFFICES ASSUME Init PROVE Issuing /\ OneCredential
  OBVIOUS
<1>1. /\ \A t \in Tokens : issue[t].at = "none" /\ boot[t] = "unminted"
      /\ runtime = {}
  BY DEF Init, Called
<1> QED BY <1>1 DEF Issuing, OneCredential

\* A step that mints nothing.
LEMMA CredentialsKept ==
    ASSUME Issuing, OneCredential, UNCHANGED <<boot, runtime>>,
           "issues_overlapped" \in overlaps => "issues_overlapped" \in overlaps',
           \A t \in Tokens : /\ issue'[t].at = "done" <=> issue[t].at = "done"
                             /\ issue'[t].at = "revoked" => issue[t].at = "revoked"
    PROVE  Issuing' /\ OneCredential'
BY DEF Issuing, OneCredential

LEMMA IssueCredentials ==
    ASSUME TypeOK, Installed, Issuing, OneCredential, NEW t \in Tokens,
           \/ \E c \in Charts : IssueReads(t, c)
           \/ IssueCreates(t) \/ IssueDispatches(t) \/ IssueRevokes(t) \/ IssueMints(t)
    PROVE  Issuing' /\ OneCredential'
<1>0. /\ Requests /\ Created /\ RequestsKnow
      /\ boot \in [Tokens -> {"unminted", "live", "consumed", "dead"}] /\ runtime \subseteq Tokens
  BY RowTypes DEF Installed, TypeOK
<1>1. ASSUME NEW c \in Charts, IssueReads(t, c) PROVE Issuing' /\ OneCredential'
  <2>1. /\ issue[t].at = "none" /\ UNCHANGED <<boot, runtime, overlaps>>
        /\ issue' = [issue EXCEPT ![t] = [at |-> "read", chart |-> c, row |-> Row]]
    BY <1>1 DEF IssueReads, tokens, history
  <2>2. \A u \in Tokens : issue'[u].at = IF u = t THEN "read" ELSE issue[u].at
    BY <1>0, <2>1 DEF Requests
  <2> QED BY <2>1, <2>2, CredentialsKept
<1>2. CASE IssueDispatches(t)
  <2>1. /\ issue[t].at = "read" /\ UNCHANGED <<boot, runtime, overlaps>>
        /\ issue' = [issue EXCEPT ![t] = [at |-> "moved", chart |-> issue[t].chart,
                                         row |-> [issue[t].row EXCEPT !.desired = issue[t].chart]]]
    BY <1>2 DEF IssueDispatches, tokens
  <2>2. \A u \in Tokens : issue'[u].at = IF u = t THEN "moved" ELSE issue[u].at
    BY <1>0, <2>1 DEF Requests
  <2> QED BY <2>1, <2>2, CredentialsKept
<1>3. CASE IssueCreates(t)
  <2>1. /\ state = "none" /\ UNCHANGED <<runtime, overlaps>>
        /\ boot' = [boot EXCEPT ![t] = "live"]
        /\ issue' = [issue EXCEPT ![t] = [Called EXCEPT !.at = "done"]]
    BY <1>3 DEF IssueCreates, history
  <2>2. \A u \in Tokens : boot[u] = "unminted" /\ issue[u].at \notin {"moved", "revoked"}
    BY <1>0, <2>1 DEF Created, RequestsKnow, Known
  <2>3. /\ runtime' = {} /\ \A u \in Tokens : boot'[u] = IF u = t THEN "live" ELSE "unminted"
        /\ \A u \in Tokens : issue'[u].at = IF u = t THEN "done" ELSE issue[u].at
    BY <1>0, <2>1, <2>2 DEF OneCredential, Requests, Called
  <2> QED BY <2>1, <2>2, <2>3 DEF Issuing, OneCredential
<1>4. CASE IssueRevokes(t)
  <2>1. /\ issue[t].at \in {"read", "moved"} /\ runtime' = runtime
        /\ boot' = [u \in Tokens |-> IF boot[u] = "live" THEN "dead" ELSE boot[u]]
        /\ issue' = [issue EXCEPT ![t].at = "revoked"] /\ overlaps \subseteq overlaps'
        /\ "issues_overlapped" \notin overlaps' => \A u \in Tokens : issue[u].at # "revoked"
    BY <1>4 DEF IssueRevokes
  <2>2. /\ \A u \in Tokens : boot'[u] = IF boot[u] = "live" THEN "dead" ELSE boot[u]
        /\ \A u \in Tokens : issue'[u].at = IF u = t THEN "revoked" ELSE issue[u].at
    BY <1>0, <2>1 DEF Requests
  <2>3. Issuing'
    BY <2>1, <2>2 DEF Issuing
  <2>4. OneCredential'
    BY <1>0, <2>1, <2>2 DEF OneCredential
  <2> QED BY <2>3, <2>4
<1>5. CASE IssueMints(t)
  <2>1. /\ issue[t].at = "revoked" /\ UNCHANGED <<runtime, overlaps>>
        /\ boot' = [boot EXCEPT ![t] = "live"]
        /\ issue' = [issue EXCEPT ![t] = [Called EXCEPT !.at = "done"]]
    BY <1>5 DEF IssueMints
  <2>2. /\ \A u \in Tokens : boot'[u] = IF u = t THEN "live" ELSE boot[u]
        /\ \A u \in Tokens : issue'[u].at = IF u = t THEN "done" ELSE issue[u].at
    BY <1>0, <2>1 DEF Requests, Called
  <2>3. t \notin runtime
    BY <2>1 DEF Issuing, OneCredential
  <2>4. "issues_overlapped" \notin overlaps =>
           \A u \in Tokens : boot[u] # "live" /\ (issue[u].at = "revoked" => u = t)
    BY <2>1 DEF Issuing
  <2>5. Issuing'
    BY <2>1, <2>2, <2>4 DEF Issuing
  <2>6. OneCredential'
    BY <1>0, <2>1, <2>2, <2>3, <2>4 DEF OneCredential
  <2> QED BY <2>5, <2>6
<1> QED BY <1>1, <1>2, <1>3, <1>4, <1>5

LEMMA NextCredentials ==
    TypeOK /\ Installed /\ Issuing /\ OneCredential /\ [Next]_vars => Issuing' /\ OneCredential'
<1> SUFFICES ASSUME TypeOK, Installed, Issuing, OneCredential, [Next]_vars
             PROVE  Issuing' /\ OneCredential'
  OBVIOUS
<1>1. ASSUME NEW t \in Tokens,
             \/ \E c \in Charts : IssueReads(t, c)
             \/ IssueCreates(t) \/ IssueDispatches(t) \/ IssueRevokes(t) \/ IssueMints(t)
      PROVE  Issuing' /\ OneCredential'
  BY <1>1, IssueCredentials
<1>2. ASSUME NEW t \in Tokens, BootstrapExpires(t) PROVE Issuing' /\ OneCredential'
  <2>1. /\ boot[t] = "live" /\ boot' = [boot EXCEPT ![t] = "dead"]
        /\ UNCHANGED <<runtime, issue, overlaps>>
    BY <1>2 DEF BootstrapExpires, requests, history
  <2>2. \A u \in Tokens : boot'[u] = IF u = t THEN "dead" ELSE boot[u]
    BY <2>1 DEF TypeOK
  <2> QED BY <2>1, <2>2 DEF TypeOK, Issuing, OneCredential
<1>3. ASSUME NEW p \in Pods, NEW t \in Tokens, NEW answered \in BOOLEAN, Register(p, t, answered)
      PROVE  Issuing' /\ OneCredential'
  <2>1. /\ boot[t] = "live" /\ boot' = [boot EXCEPT ![t] = "consumed"] /\ runtime' = {t}
        /\ UNCHANGED <<issue, overlaps>>
    BY <1>3 DEF Register, requests, history
  <2>2. \A u \in Tokens : boot'[u] = IF u = t THEN "consumed" ELSE boot[u]
    BY <2>1 DEF TypeOK
  <2> QED BY <2>1, <2>2 DEF Issuing, OneCredential
<1>4. ASSUME UNCHANGED <<boot, runtime, issue>>, overlaps \subseteq overlaps'
      PROVE  Issuing' /\ OneCredential'
  BY <1>4, CredentialsKept
<1>5. ASSUME \/ \E i \in Retries : RetryReads(i)
             \/ \E i \in Retries, broken \in SUBSET Resettable : RetryCommits(i, broken)
             \/ QueuePreflight \/ RegisterDies \/ OperatorHolds
             \/ \E p \in Pods, k \in Keys, old \in InFlight, answered \in BOOLEAN :
                   ClaimJob(p, k, old, answered)
             \/ \E p \in Pods, r \in {"success", "failed"} : Execute(p, r)
             \/ \E p \in Pods, answered \in BOOLEAN :
                   Duplicate(p, answered) \/ CompleteCommits(p, answered)
             \/ \E p \in Pods : CompleteReads(p) \/ PodStops(p)
             \/ UNCHANGED vars
      PROVE  UNCHANGED <<boot, runtime, issue>> /\ overlaps \subseteq overlaps'
  BY <1>5 DEF RetryReads, RetryCommits, QueuePreflight, RegisterDies, OperatorHolds, ClaimJob, Execute,
     Duplicate, CompleteReads, CompleteCommits, PodStops, vars, tokens, requests, history
<1> QED BY <1>1, <1>2, <1>3, <1>4, <1>5 DEF Next, Agent, Operator

-----------------------------------------------------------------------------
(***************************************************************************)
(* The completion under way                                                *)
(***************************************************************************)

LEMMA InitReporting == Init => Reporting
BY DEF Init, Reporting, Silent

\* Nothing that the completion relies on changes while it is under way.
LEMMA ReportingKept ==
    ASSUME TypeOK, Reporting, UNCHANGED <<report, runtime>>,
           report.by # NoPod =>
               /\ held'[report.by] = held[report.by] /\ task'[report.by] = task[report.by]
               /\ result'[report.by] = result[report.by],
           \A k \in Keys : Outstanding(k) => Outstanding(k)',
           tenant' \in {tenant, "held"}, state' = "active" => state = "active"
    PROVE  Reporting'
<1> SUFFICES ASSUME report.by # NoPod
             PROVE  /\ Authorized(report.by)' /\ task'[report.by] # NoJob /\ result'[report.by] # "none"
                    /\ Outstanding(task[report.by])'
                    /\ tenant' \in {report.tenant, "held"}
                    /\ state' = "active" => report.row.state = "active"
  BY DEF Reporting
<1>1. task[report.by] \in Keys /\ Outstanding(task[report.by]) /\ task'[report.by] = task[report.by]
  BY DEF TypeOK, Reporting
<1>2. Outstanding(task[report.by])'
  BY <1>1 DEF Outstanding
<1> QED BY <1>1, <1>2 DEF Reporting, Authorized

LEMMA IssueReporting ==
    ASSUME TypeOK, Installed, Reporting, NEW t \in Tokens,
           \/ \E c \in Charts : IssueReads(t, c)
           \/ IssueCreates(t) \/ IssueDispatches(t) \/ IssueRevokes(t) \/ IssueMints(t)
    PROVE  Reporting'
<1>1. UNCHANGED <<report, runtime, held, task, result, tenant>>
  BY DEF IssueReads, IssueCreates, IssueDispatches, IssueRevokes, IssueMints, tokens, pods
<1>2. CASE (\E c \in Charts : IssueReads(t, c)) \/ IssueCreates(t) \/ IssueRevokes(t) \/ IssueMints(t)
  <2>1. status' = status /\ (state' = state \/ state' \in {"pending", "upgrading"})
    BY <1>2 DEF IssueReads, IssueCreates, IssueRevokes, IssueMints, Reissue, MoveEarly, UpgradeAgain,
       installation, jobs
  <2>2. \A k \in Keys : Outstanding(k) => Outstanding(k)'
    BY <2>1 DEF Outstanding
  <2> QED BY <1>1, <2>1, <2>2, ReportingKept
<1>3. CASE IssueDispatches(t)
  <2>1. /\ issue[t].chart \in Charts /\ state' = "upgrading"
        /\ EnqueueAgentJob(status, Upgrade(issue[t].chart), issue[t].chart, Stale(issue[t].row))
    BY <1>3 DEF IssueDispatches, Installed, RequestsKnow
  <2>2. /\ Upgrade(issue[t].chart) \in Keys /\ status \in [Keys -> JobStatus]
        /\ Stale(issue[t].row) \in SUBSET Causes
    BY <2>1, KeyTypes, StaleFacts DEF Upgrade, ApplyKinds, TypeOK
  <2>3. \A j \in Keys : status'[j] = status[j] \/ status'[j] = "pending"
    BY <2>1, <2>2, EnqueueFacts
  <2>4. \A k \in Keys : Outstanding(k) => Outstanding(k)'
    BY <2>3 DEF Outstanding
  <2> QED BY <1>1, <2>1, <2>4, ReportingKept
<1> QED BY <1>2, <1>3

LEMMA NextReporting == TypeOK /\ Installed /\ Reporting /\ [Next]_vars => Reporting'
<1> SUFFICES ASSUME TypeOK, Installed, Reporting, [Next]_vars PROVE Reporting'
  OBVIOUS
<1>1. ASSUME NEW t \in Tokens,
             \/ \E c \in Charts : IssueReads(t, c)
             \/ IssueCreates(t) \/ IssueDispatches(t) \/ IssueRevokes(t) \/ IssueMints(t)
      PROVE  Reporting'
  BY <1>1, IssueReporting
<1>2. ASSUME NEW i \in Retries, NEW broken \in SUBSET Resettable, RetryCommits(i, broken)
      PROVE  Reporting'
  <2>1. /\ UNCHANGED <<report, runtime, held, task, result, tenant>>
        /\ \A k \in Keys : status'[k] \in {"pending", status[k]}
        /\ state' = "active" => state = "active"
    BY <1>2 DEF RetryCommits, ResumeState, tokens, pods
  <2>2. \A k \in Keys : Outstanding(k) => Outstanding(k)'
    BY <2>1 DEF Outstanding
  <2> QED BY <2>1, <2>2, ReportingKept
<1>3. ASSUME \/ \E p \in Pods, t \in Tokens, answered \in BOOLEAN : Register(p, t, answered)
             \/ \E p \in Pods, k \in Keys, old \in InFlight, answered \in BOOLEAN :
                   ClaimJob(p, k, old, answered)
             \/ \E p \in Pods, answered \in BOOLEAN : Duplicate(p, answered)
      PROVE  Reporting'
  <2>1. report.by = NoPod /\ report' = report
    BY <1>3 DEF Register, ClaimJob, Duplicate, TokenFree, requests
  <2> QED BY <2>1 DEF Reporting
<1>4. ASSUME NEW p \in Pods, CompleteReads(p) PROVE Reporting'
  <2>1. /\ Authorized(p) /\ task[p] # NoJob /\ result[p] # "none" /\ Outstanding(task[p])
        /\ report' = [by |-> p, row |-> Row, tenant |-> tenant]
        /\ UNCHANGED <<state, runtime, held, status, tenant, task, result>>
    BY <1>4 DEF CompleteReads, installation, tokens, jobs, pods
  <2>2. report'.by = p /\ report'.tenant = tenant /\ report'.row.state = state
    BY <2>1 DEF Row
  <2>3. Authorized(p)' /\ Outstanding(task[p])'
    BY <2>1 DEF Authorized, Outstanding
  <2> QED BY <2>1, <2>2, <2>3 DEF Reporting, Authorized, Outstanding
<1>5. ASSUME NEW p \in Pods, NEW answered \in BOOLEAN, CompleteCommits(p, answered) PROVE Reporting'
  BY <1>5 DEF CompleteCommits, Silent, Reporting
<1>6. ASSUME NEW p \in Pods, NEW r \in {"success", "failed"}, Execute(p, r) PROVE Reporting'
  <2>1. /\ result[p] = "none" /\ result' = [result EXCEPT ![p] = r]
        /\ UNCHANGED <<report, runtime, held, task, status, tenant, state>>
    BY <1>6 DEF Execute, installation, requests, tokens, jobs
  <2>2. report.by # NoPod => report.by # p
    BY <2>1 DEF Reporting
  <2>3. report.by # NoPod => result'[report.by] = result[report.by]
    BY <2>1, <2>2 DEF TypeOK
  <2>4. \A k \in Keys : Outstanding(k) => Outstanding(k)'
    BY <2>1 DEF Outstanding
  <2> QED BY <2>1, <2>3, <2>4, ReportingKept
<1>7. ASSUME NEW p \in Pods, PodStops(p) PROVE Reporting'
  <2>1. /\ report.by # p /\ held' = [held EXCEPT ![p] = 0] /\ task' = [task EXCEPT ![p] = NoJob]
        /\ result' = [result EXCEPT ![p] = "none"]
        /\ UNCHANGED <<report, runtime, status, tenant, state>>
    BY <1>7 DEF PodStops, installation, requests, jobs
  <2>2. report.by # NoPod =>
           /\ held'[report.by] = held[report.by] /\ task'[report.by] = task[report.by]
           /\ result'[report.by] = result[report.by]
    BY <2>1 DEF TypeOK
  <2>3. \A k \in Keys : Outstanding(k) => Outstanding(k)'
    BY <2>1 DEF Outstanding
  <2> QED BY <2>1, <2>2, <2>3, ReportingKept
<1>8. ASSUME QueuePreflight PROVE Reporting'
  <2>1. /\ EnqueueAgentJob(status, Preflight, NoChart, {}) /\ Preflight \in Keys
        /\ status \in [Keys -> JobStatus]
        /\ UNCHANGED <<report, runtime, held, task, result, tenant, state>>
    BY <1>8, KeyTypes DEF QueuePreflight, TypeOK, installation, requests, tokens, pods
  <2>2. \A j \in Keys : status'[j] = status[j] \/ status'[j] = "pending"
    BY <2>1, EnqueueFacts
  <2>3. \A k \in Keys : Outstanding(k) => Outstanding(k)'
    BY <2>2 DEF Outstanding
  <2> QED BY <2>1, <2>3, ReportingKept
<1>9. ASSUME \/ \E i \in Retries : RetryReads(i)
             \/ \E t \in Tokens : BootstrapExpires(t)
             \/ RegisterDies \/ OperatorHolds \/ UNCHANGED vars
      PROVE  Reporting'
  <2>1. /\ UNCHANGED <<report, runtime, held, task, result, status, state>>
        /\ tenant' \in {tenant, "held"}
    BY <1>9 DEF RetryReads, BootstrapExpires, RegisterDies, OperatorHolds, vars, installation, requests,
       tokens, jobs, pods
  <2>2. \A k \in Keys : Outstanding(k) => Outstanding(k)'
    BY <2>1 DEF Outstanding
  <2> QED BY <2>1, <2>2, ReportingKept
<1> QED BY <1>1, <1>2, <1>3, <1>4, <1>5, <1>6, <1>7, <1>8, <1>9 DEF Next, Agent, Operator

-----------------------------------------------------------------------------
(***************************************************************************)
(* The pipeline                                                            *)
(***************************************************************************)

LEMMA InitPipeline == Init => Pipeline /\ Recoverable /\ TenantFollows
BY DEF Init, Pipeline, Moving, Recoverable, TenantFollows

\* A state that is kept needs a job that is kept, or a new one.
LEMMA PipelineKept ==
    ASSUME Pipeline, causes \subseteq causes', state' = state,
           enqueuing' = enqueuing,
           \A k \in AwaitedIn(state) : Outstanding(k) => Outstanding(k)'
    PROVE  Pipeline'
BY DEF Pipeline, Moving

\* A new job keeps the pipeline, or its reuse is recorded.
LEMMA PipelineExtended ==
    ASSUME NEW k \in AwaitedIn(state'), causes' = {} => Outstanding(k)'
    PROVE  Pipeline'
BY DEF Pipeline, Moving

\* The completion projects on a tenant that only an operator may have changed.
LEMMA ProjectedTenant ==
    ASSUME Reporting, report.by # NoPod, NEW target, Project(target)
    PROVE  tenant' \in {"held", target}
BY DEF Reporting, Project

\* The tenant follows a completion, stale or not.
LEMMA CompletedTenant ==
    ASSUME TypeOK, Reporting, report.by # NoPod, TenantFollows, NEW k \in Keys,
           Completed(report.row, k)
    PROVE  TenantFollows'
<1> DEFINE r == report.row
<1>1. CASE JobFailed(r, k)
  <2>1. tenant' \in {"held", "degraded"} /\ state' = Written("degraded", r.state, state)
    BY <1>1, ProjectedTenant DEF JobFailed
  <2>2. state' # "active"
    BY <2>1 DEF Written, Reporting
  <2> QED BY <2>1, <2>2 DEF TenantFollows
<1>2. CASE WaitDone(r, k)
  <2>1. tenant' \in {"held", "active"} /\ state' = "active"
    BY <1>2, ProjectedTenant DEF WaitDone
  <2> QED BY <2>1 DEF TenantFollows
<1>3. CASE PreflightDone(r, k) \/ ApplyDone(r, k) \/ NothingToAdvance(r, k)
  <2>1. tenant' = tenant /\ (state' = state \/ state' = "provisioning")
    BY <1>3 DEF PreflightDone, ApplyDone, NothingToAdvance, installation
  <2> QED BY <2>1 DEF TenantFollows
<1> QED BY <1>1, <1>2, <1>3 DEF Completed, Advances

\* The completion of a job: the pipeline goes on, a failure leaves a failed job.
LEMMA CompletedPipeline ==
    ASSUME TypeOK, Installed, Pipeline, Recoverable,
           NEW r \in Rows, NEW k \in Keys, r.state # "none" => r.desired \in Charts,
           Outstanding(k), Completed(r, k), enqueuing' = enqueuing
    PROVE  Pipeline' /\ Recoverable'
<1> DEFINE done == [status EXCEPT ![k] = "succeeded"]
<1>0. done \in [Keys -> JobStatus] /\ Stale(r) \in SUBSET Causes
  BY StaleFacts DEF TypeOK, JobStatus
<1>1. \A j \in Keys : done[j] = IF j = k THEN "succeeded" ELSE status[j]
  BY DEF TypeOK
<1>2. CASE r # Row
  <2>1. "stale_read" \in causes'
    BY <1>2, CompletedFacts DEF Stale
  <2> QED BY <2>1 DEF Pipeline, Recoverable
<1>3. CASE r = Row /\ JobFailed(r, k)
  <2>1. state' = "degraded" /\ status'[k] = "failed"
    BY <1>3 DEF JobFailed, Row, Written, TypeOK
  <2> QED BY <2>1 DEF Pipeline, Moving, Recoverable
<1>4. CASE WaitDone(r, k)
  <2>1. state' = "active"
    BY <1>4 DEF WaitDone
  <2> QED BY <2>1 DEF Pipeline, Moving, Recoverable
<1>5. CASE PreflightDone(r, k)
  <2> DEFINE next == [kind |-> "install_helm_release", chart |-> r.desired]
  <2>1. /\ state' = "provisioning" /\ r.desired \in Charts
        /\ EnqueueAgentJob(done, next, r.desired, Stale(r))
    BY <1>5 DEF PreflightDone
  <2>2. next \in Keys /\ next.kind = "install_helm_release"
    BY <2>1, KeyTypes DEF ApplyKinds
  <2> HIDE DEF next, done
  <2>3. causes' = {} => status'[next] = "pending"
    BY <1>0, <2>1, <2>2, EnqueueFacts
  <2>4. next \in AwaitedIn(state')
    BY <2>1, <2>2 DEF AwaitedIn
  <2>5. Pipeline'
    BY <2>3, <2>4, PipelineExtended DEF Outstanding
  <2> QED BY <2>1, <2>5 DEF Recoverable
<1>6. CASE r = Row /\ ApplyDone(r, k)
  <2> DEFINE next == [kind |-> WaitFor[k.kind], chart |-> r.desired]
  <2>1. /\ state \in {"provisioning", "upgrading"} /\ state' = state
        /\ EnqueueAgentJob(done, next, r.desired, Stale(r)) /\ r.desired \in Charts
    BY <1>6, KeyTypes DEF ApplyDone, Row, installation
  <2>2. next \in Keys /\ next.kind \in WaitKinds
    BY <1>6, <2>1, KeyTypes DEF ApplyDone
  <2> HIDE DEF next, done
  <2>3. causes' = {} => status'[next] = "pending"
    BY <1>0, <2>1, <2>2, EnqueueFacts
  <2>4. next \in AwaitedIn(state')
    BY <2>1, <2>2 DEF AwaitedIn
  <2>5. Pipeline'
    BY <2>3, <2>4, PipelineExtended DEF Outstanding
  <2> QED BY <2>1, <2>5 DEF Recoverable
<1>7. CASE r = Row /\ NothingToAdvance(r, k)
  <2>1. /\ UNCHANGED <<state, desired, action>> /\ causes \subseteq causes' /\ status' = done
        /\ ~(k = Preflight /\ state = "agent_connected")
        /\ ~(k.kind \in ApplyKinds /\ state = ApplyState[k.kind])
        /\ ~(k.kind \in WaitKinds /\ state \in {"provisioning", "upgrading"})
    BY <1>7 DEF NothingToAdvance, Row, installation
  <2>2. k \notin AwaitedIn(state)
    <3> SUFFICES ASSUME k \in AwaitedIn(state) PROVE FALSE
      OBVIOUS
    <3>1. \/ state = "agent_connected" /\ k = Preflight
          \/ state = "provisioning" /\ (k.kind = "install_helm_release" \/ k.kind \in WaitKinds)
          \/ state = "upgrading" /\ (k.kind = "upgrade_helm_release" \/ k.kind \in WaitKinds)
      BY DEF AwaitedIn
    <3> QED BY <2>1, <3>1, KeyTypes DEF ApplyKinds
  <2>3. \A j \in AwaitedIn(state) : Outstanding(j) => Outstanding(j)'
    BY <1>1, <2>1, <2>2 DEF AwaitedIn, Outstanding
  <2>4. Pipeline'
    BY <2>1, <2>3, PipelineKept
  <2>5. \A j \in Keys : status[j] = "failed" => status'[j] = "failed"
    BY <1>1, <2>1 DEF Outstanding
  <2> QED BY <2>1, <2>4, <2>5 DEF Recoverable
<1> QED BY <1>2, <1>3, <1>4, <1>5, <1>6, <1>7 DEF Completed, Advances

\* A retry of a degraded installation puts the job it resumes with back in the queue,
\* unless it is recorded that the preflight or an old install is retried, or that the
\* installation has moved since it was read.
LEMMA RetryPipeline ==
    ASSUME TypeOK, Pipeline, Recoverable, NEW i \in Retries, NEW broken \in SUBSET Resettable,
           RetryCommits(i, broken)
    PROVE  Pipeline' /\ Recoverable'
<1> DEFINE r == retry[i].row
           retried == {k \in Keys : status[k] = "failed"}
           reset == {k \in Keys : status[k] = "in_flight"} \cup retried
           resumes == r.state = "degraded" /\ retried # {}
<1>1. /\ \A k \in Keys : status'[k] = IF k \in reset THEN "pending" ELSE status[k]
      /\ state' = IF resumes THEN ResumeState(r, retried) ELSE state
      /\ UNCHANGED <<enqueuing, tenant>> /\ causes \subseteq causes'
      /\ reset # {} => Stale(r) \subseteq causes'
      /\ Preflight \in retried => causes' # {}
      /\ (/\ resumes /\ ResumeState(r, retried) = "upgrading"
          /\ \A k \in retried : k.kind \in {"preflight", "install_helm_release"}) => causes' # {}
  BY DEF RetryCommits
<1>2. ResumeState(r, retried) = "upgrading"
      \/ (/\ ResumeState(r, retried) = "provisioning"
          /\ \A k \in retried : k.kind # "upgrade_helm_release")
  BY DEF ResumeState
<1>3. \A k \in reset : Outstanding(k)'
  BY <1>1 DEF Outstanding
<1>4. CASE reset # {} /\ r # Row
  <2>1. "stale_read" \in causes'
    BY <1>1, <1>4 DEF Stale
  <2> QED BY <2>1 DEF Pipeline, Recoverable
<1>5. CASE (reset = {} \/ r = Row) /\ ~resumes
  <2>1. state' = state
    BY <1>1, <1>5
  <2>2. \A k \in AwaitedIn(state) : Outstanding(k) => Outstanding(k)'
    BY <1>1 DEF AwaitedIn, Outstanding
  <2>3. Pipeline'
    BY <1>1, <2>1, <2>2, PipelineKept
  <2>4. CASE reset = {}
    <3>1. \A k \in Keys : status'[k] = status[k]
      BY <1>1, <2>4
    <3> QED BY <1>1, <2>1, <2>3, <3>1 DEF Recoverable
  <2>5. CASE r = Row
    <3>1. state = "degraded" => retried = {}
      BY <1>5, <2>5 DEF Row
    <3>2. state # "degraded" \/ "stale_read" \in causes
      BY <3>1 DEF Recoverable
    <3> QED BY <1>1, <2>1, <2>3, <3>2 DEF Recoverable
  <2> QED BY <1>5, <2>4, <2>5
<1>6. CASE resumes
  <2>1. state' = ResumeState(r, retried) /\ state' \in {"provisioning", "upgrading"}
    BY <1>1, <1>2, <1>6
  <2>2. Pipeline'
    <3> SUFFICES ASSUME causes' = {} PROVE Pipeline'
      BY DEF Pipeline
    <3>1. Preflight \notin retried /\ \A k \in retried : k.kind \in ApplyKinds \cup WaitKinds
      BY <1>1, KeyTypes
    <3>2. CASE ResumeState(r, retried) = "upgrading"
      <4>1. PICK k \in retried : k.kind \notin {"preflight", "install_helm_release"}
        BY <1>1, <1>6, <3>2
      <4>2. k.kind \in {"upgrade_helm_release"} \cup WaitKinds
        BY <3>1, <4>1 DEF ApplyKinds
      <4>3. k \in AwaitedIn(state')
        BY <2>1, <3>2, <4>1, <4>2 DEF AwaitedIn
      <4>4. k \in reset
        BY <4>1
      <4> QED BY <1>3, <4>3, <4>4, PipelineExtended
    <3>3. CASE ResumeState(r, retried) # "upgrading"
      <4>1. PICK k \in retried : TRUE
        BY <1>6
      <4>2. k.kind \in {"install_helm_release"} \cup WaitKinds
        BY <1>2, <3>1, <3>3, <4>1 DEF ApplyKinds
      <4>3. k \in AwaitedIn(state')
        BY <1>2, <2>1, <3>3, <4>1, <4>2 DEF AwaitedIn
      <4>4. k \in reset
        BY <4>1
      <4> QED BY <1>3, <4>3, <4>4, PipelineExtended
    <3> QED BY <3>2, <3>3
  <2> QED BY <2>1, <2>2 DEF Recoverable
<1> QED BY <1>4, <1>5, <1>6

LEMMA IssuePipeline ==
    ASSUME TypeOK, Installed, Pipeline, Recoverable, TenantFollows, NEW t \in Tokens,
           \/ \E c \in Charts : IssueReads(t, c)
           \/ IssueCreates(t) \/ IssueDispatches(t) \/ IssueRevokes(t) \/ IssueMints(t)
    PROVE  Pipeline' /\ Recoverable' /\ TenantFollows'
<1>0. UNCHANGED <<enqueuing, tenant>>
  BY DEF IssueReads, IssueCreates, IssueDispatches, IssueRevokes, IssueMints
<1>1. CASE (\E c \in Charts : IssueReads(t, c)) \/ IssueRevokes(t)
  <2>1. UNCHANGED <<state, status, causes>>
    BY <1>1 DEF IssueReads, IssueRevokes, installation, jobs, history
  <2> QED BY <1>0, <2>1 DEF Pipeline, Moving, AwaitedIn, Outstanding, Recoverable, TenantFollows
<1>2. CASE IssueCreates(t)
  <2>1. state' = "pending"
    BY <1>2 DEF IssueCreates
  <2> QED BY <2>1 DEF Pipeline, Moving, Recoverable, TenantFollows
<1>3. CASE IssueDispatches(t)
  <2> DEFINE k == Upgrade(issue[t].chart)
  <2>1. /\ issue[t].chart \in Charts /\ state' = "upgrading"
        /\ EnqueueAgentJob(status, k, issue[t].chart, Stale(issue[t].row))
    BY <1>3 DEF IssueDispatches, Installed, RequestsKnow
  <2>2. /\ k \in Keys /\ k.kind = "upgrade_helm_release" /\ status \in [Keys -> JobStatus]
        /\ Stale(issue[t].row) \in SUBSET Causes
    BY <2>1, KeyTypes, StaleFacts DEF Upgrade, ApplyKinds, TypeOK
  <2> HIDE DEF k
  <2>3. causes' = {} => status'[k] = "pending"
    BY <2>1, <2>2, EnqueueFacts
  <2>4. k \in AwaitedIn(state')
    BY <2>1, <2>2 DEF AwaitedIn
  <2>5. Pipeline'
    BY <2>3, <2>4, PipelineExtended DEF Outstanding
  <2> QED BY <2>1, <2>5 DEF Recoverable, TenantFollows
<1>4. CASE IssueMints(t)
  <2>1. UNCHANGED status
    BY <1>4 DEF IssueMints, jobs
  <2>2. CASE Reissue(issue[t]) \/ MoveEarly(issue[t])
    <3>1. state' = state /\ causes \subseteq causes'
      BY <2>2 DEF Reissue, MoveEarly
    <3> QED BY <1>0, <2>1, <3>1 DEF Pipeline, Moving, AwaitedIn, Outstanding, Recoverable,
            TenantFollows
  <2>3. CASE UpgradeAgain(issue[t])
    <3>1. state' = "upgrading" /\ causes' # {}
      BY <2>3 DEF UpgradeAgain
    <3> QED BY <3>1 DEF Pipeline, Recoverable, TenantFollows
  <2> QED BY <1>4, <2>2, <2>3 DEF IssueMints
<1> QED BY <1>1, <1>2, <1>3, <1>4

LEMMA NextPipeline ==
    TypeOK /\ Installed /\ Reporting /\ Pipeline /\ Recoverable /\ TenantFollows /\ [Next]_vars
       => Pipeline' /\ Recoverable' /\ TenantFollows'
<1> SUFFICES ASSUME TypeOK, Installed, Reporting, Pipeline, Recoverable, TenantFollows, [Next]_vars
             PROVE  Pipeline' /\ Recoverable' /\ TenantFollows'
  OBVIOUS
<1>1. ASSUME NEW t \in Tokens,
             \/ \E c \in Charts : IssueReads(t, c)
             \/ IssueCreates(t) \/ IssueDispatches(t) \/ IssueRevokes(t) \/ IssueMints(t)
      PROVE  Pipeline' /\ Recoverable' /\ TenantFollows'
  BY <1>1, IssuePipeline
<1>2. ASSUME NEW i \in Retries, NEW broken \in SUBSET Resettable, RetryCommits(i, broken)
      PROVE  Pipeline' /\ Recoverable' /\ TenantFollows'
  <2>1. tenant' = tenant /\ (state' = state \/ state' \in {"provisioning", "upgrading"})
    BY <1>2 DEF RetryCommits, ResumeState
  <2> QED BY <1>2, <2>1, RetryPipeline DEF TenantFollows
<1>3. ASSUME NEW p \in Pods, NEW t \in Tokens, NEW answered \in BOOLEAN, Register(p, t, answered)
      PROVE  Pipeline' /\ Recoverable' /\ TenantFollows'
  <2>1. UNCHANGED <<status, tenant, causes>> /\ Connect
    BY <1>3 DEF Register, jobs, history
  <2> QED BY <2>1 DEF Connect, Pipeline, Moving, AwaitedIn, Outstanding, Recoverable, TenantFollows
<1>4. ASSUME QueuePreflight PROVE Pipeline' /\ Recoverable' /\ TenantFollows'
  <2>1. /\ EnqueueAgentJob(status, Preflight, NoChart, {}) /\ Preflight \in Keys
        /\ status \in [Keys -> JobStatus] /\ UNCHANGED <<state, tenant>>
    BY <1>4, KeyTypes DEF QueuePreflight, TypeOK, installation
  <2>2. /\ causes \subseteq causes'
        /\ causes' = {} => status'[Preflight] = "pending"
        /\ \A j \in Keys : status'[j] = status[j] \/ (j = Preflight /\ status[Preflight] = "absent")
    BY <2>1, EnqueueFacts
  <2>3. Pipeline'
    <3>1. CASE state = "agent_connected"
      <4>1. Preflight \in AwaitedIn(state')
        BY <2>1, <3>1 DEF AwaitedIn
      <4> QED BY <2>2, <4>1, PipelineExtended DEF Outstanding
    <3>2. CASE state # "agent_connected"
      <4>1. \A k \in AwaitedIn(state) : Outstanding(k) => Outstanding(k)'
        BY <2>2 DEF AwaitedIn, Outstanding
      <4> QED BY <2>1, <2>2, <3>2, <4>1 DEF Pipeline, Moving
    <3> QED BY <3>1, <3>2
  <2>4. \A j \in Keys : status[j] = "failed" => status'[j] = "failed"
    BY <2>2
  <2> QED BY <2>1, <2>2, <2>3, <2>4 DEF Recoverable, TenantFollows
<1>5. ASSUME RegisterDies PROVE Pipeline' /\ Recoverable' /\ TenantFollows'
  <2>1. causes' # {} /\ causes \subseteq causes' /\ UNCHANGED <<state, status, tenant>>
    BY <1>5 DEF RegisterDies, installation, jobs
  <2> QED BY <2>1 DEF Pipeline, Recoverable, TenantFollows
<1>6. ASSUME NEW p \in Pods, NEW k \in Keys, NEW old \in InFlight, NEW answered \in BOOLEAN,
             ClaimJob(p, k, old, answered)
      PROVE  Pipeline' /\ Recoverable' /\ TenantFollows'
  <2>1. /\ UNCHANGED <<state, tenant, enqueuing, causes>>
        /\ \A j \in old : status[j] = "in_flight"
        /\ Reclaim(old)[k] = "pending" /\ status' = [Reclaim(old) EXCEPT ![k] = "in_flight"]
    BY <1>6 DEF ClaimJob, IsOldest, installation
  <2>2. \A j \in Keys : /\ Outstanding(j) => Outstanding(j)'
                        /\ status[j] = "failed" => status'[j] = "failed"
    BY <2>1 DEF Reclaim, Outstanding
  <2>3. Pipeline'
    BY <2>1, <2>2, PipelineKept DEF AwaitedIn
  <2> QED BY <2>1, <2>2, <2>3 DEF Recoverable, TenantFollows
<1>7. ASSUME NEW p \in Pods, NEW answered \in BOOLEAN, CompleteCommits(p, answered)
      PROVE  Pipeline' /\ Recoverable' /\ TenantFollows'
  <2>1. /\ report.by = p /\ task[p] \in Keys /\ Outstanding(task[p]) /\ report.row \in Rows
        /\ report.row.state # "none" => report.row.desired \in Charts
        /\ Completed(report.row, task[p]) /\ enqueuing' = enqueuing
    BY <1>7, CommitFacts
  <2>2. report.by # NoPod
    BY <2>1, PodAssumption
  <2>3. Pipeline' /\ Recoverable'
    BY <2>1, CompletedPipeline
  <2> QED BY <2>1, <2>2, <2>3, CompletedTenant
<1>8. ASSUME \/ \E i \in Retries : RetryReads(i)
             \/ \E t \in Tokens : BootstrapExpires(t)
             \/ \E p \in Pods, r \in {"success", "failed"} : Execute(p, r)
             \/ \E p \in Pods, answered \in BOOLEAN : Duplicate(p, answered)
             \/ \E p \in Pods : CompleteReads(p) \/ PodStops(p)
             \/ OperatorHolds \/ UNCHANGED vars
      PROVE  Pipeline' /\ Recoverable' /\ TenantFollows'
  <2>1. UNCHANGED <<state, status, enqueuing, causes>> /\ (tenant' = tenant \/ tenant' = "held")
    BY <1>8 DEF RetryReads, BootstrapExpires, Execute, Duplicate, CompleteReads, PodStops,
       OperatorHolds, vars, installation, jobs, history
  <2> QED BY <2>1 DEF Pipeline, Moving, AwaitedIn, Outstanding, Recoverable, TenantFollows
<1> QED BY <1>1, <1>2, <1>3, <1>4, <1>5, <1>6, <1>7, <1>8 DEF Next, Agent, Operator

-----------------------------------------------------------------------------
(***************************************************************************)
(* What settles is deployed                                                *)
(***************************************************************************)

\* A pod holds a token that was consumed, no two pods the same one, and a job only
\* with a token; an outcome belongs to a job.
Holders ==
    /\ \A p \in Pods : held[p] # 0 => boot[held[p]] = "consumed"
    /\ \A p, q \in Pods : held[p] # 0 /\ held[p] = held[q] => p = q
    /\ \A p \in Pods : held[p] = 0 => task[p] = NoJob
    /\ \A p \in Pods : task[p] = NoJob => result[p] = "none"

\* No job was taken back, no failed jobs were retried together, and the pipeline has
\* not lost its next job.
Clean == causes = {} /\ overlaps = {}

\* One job is outstanding at a time, and the installation waits for it.
OneJob ==
    /\ \A k \in Keys : Outstanding(k) => k \in AwaitedIn(state)
    /\ \A j, k \in Keys : Outstanding(j) /\ Outstanding(k) => j = k
    /\ enqueuing => state = "agent_connected" /\ ~Outstanding(Preflight)

\* A job that was not reported yet is in flight; another pod that still holds it has
\* failed it before and can no longer say so.
OneHolder ==
    /\ \A p \in Pods : task[p] # NoJob =>
          /\ result[p] = "none" => status[task[p]] = "in_flight"
          /\ result[p] = "success" => status[task[p]] \in {"in_flight", "succeeded"}
    /\ \A p, q \in Pods :
          /\ p # q /\ task[p] # NoJob /\ task[p] = task[q] /\ status[task[p]] = "in_flight"
          /\ result[q] # "failed"
          => result[p] = "failed" /\ ~Authorized(p)

\* The job that is outstanding applies the desired chart, or waits for it in the
\* cluster, and so does the failed job that a retry brings back, with its old spec when
\* no new one can be built.
OnDesired ==
    /\ \A k \in Keys : Outstanding(k) /\ k.kind \in ApplyKinds => spec[k] = desired
    /\ \A k \in Keys : Outstanding(k) /\ k.kind \in WaitKinds => deployed = desired
    /\ state = "active" => deployed = desired
    /\ state = "degraded" =>
          \E k \in Keys : /\ status[k] = "failed"
                          /\ k.kind \in ApplyKinds => spec[k] = desired
                          /\ k.kind \in WaitKinds => deployed = desired
    /\ \A p \in Pods : task[p] # NoJob /\ task[p].kind \in ApplyKinds =>
          /\ result[p] = "none" => chartOf[p] = desired
          /\ result[p] = "success" /\ status[task[p]] = "in_flight" => deployed = desired

Undisturbed == OneJob /\ OneHolder /\ OnDesired

LEMMA NextHolders ==
    ASSUME TypeOK, Issuing, OneCredential, Holders, [Next]_vars
    PROVE  Holders'
<1>0. /\ boot \in [Tokens -> {"unminted", "live", "consumed", "dead"}]
      /\ held \in [Pods -> Tokens \cup {0}] /\ task \in [Pods -> Keys \cup {NoJob}]
      /\ result \in [Pods -> {"none", "success", "failed"}]
      /\ \A t \in Tokens : t # 0
  BY BoundsAssumption DEF TypeOK, Tokens
<1>1. ASSUME NEW t \in Tokens,
             \/ \E c \in Charts : IssueReads(t, c)
             \/ IssueCreates(t) \/ IssueDispatches(t) \/ IssueRevokes(t) \/ IssueMints(t)
      PROVE  Holders'
  <2>1. UNCHANGED <<held, task, result>>
    BY <1>1 DEF IssueReads, IssueCreates, IssueDispatches, IssueRevokes, IssueMints, tokens, pods
  <2>2. \/ boot' = boot
        \/ boot' = [u \in Tokens |-> IF boot[u] = "live" THEN "dead" ELSE boot[u]]
        \/ boot[t] = "unminted" /\ boot' = [boot EXCEPT ![t] = "live"]
    BY <1>1 DEF IssueReads, IssueCreates, IssueDispatches, IssueRevokes, IssueMints, tokens, Issuing
  <2>3. \A u \in Tokens : boot[u] = "consumed" => boot'[u] = "consumed"
    BY <1>0, <2>2
  <2> QED BY <1>0, <2>1, <2>3 DEF Holders
<1>2. ASSUME NEW t \in Tokens, BootstrapExpires(t) PROVE Holders'
  <2>1. /\ UNCHANGED <<held, task, result>>
        /\ \A u \in Tokens : boot[u] = "consumed" => boot'[u] = "consumed"
    BY <1>0, <1>2 DEF BootstrapExpires, pods
  <2> QED BY <1>0, <2>1 DEF Holders
<1>3. ASSUME NEW p \in Pods, NEW t \in Tokens, NEW answered \in BOOLEAN, Register(p, t, answered)
      PROVE  Holders'
  <2>1. /\ boot[t] = "live" /\ held[p] = 0 /\ UNCHANGED <<task, result>>
        /\ boot' = [boot EXCEPT ![t] = "consumed"]
        /\ held' = held \/ held' = [held EXCEPT ![p] = t]
    BY <1>3 DEF Register, pods
  <2>2. /\ \A u \in Tokens : boot'[u] = IF u = t THEN "consumed" ELSE boot[u]
        /\ \A q \in Pods : held'[q] = held[q] \/ (q = p /\ held'[q] = t)
    BY <1>0, <2>1
  <2>3. \A q \in Pods : held[q] # t
    BY <1>0, <2>1 DEF Holders
  <2>4. \A q \in Pods : held'[q] # 0 => boot'[held'[q]] = "consumed"
    BY <1>0, <2>2 DEF Holders
  <2>5. \A q, r \in Pods : held'[q] # 0 /\ held'[q] = held'[r] => q = r
    BY <1>0, <2>2, <2>3 DEF Holders
  <2>6. \A q \in Pods : held'[q] = 0 => task'[q] = NoJob
    BY <1>0, <2>1, <2>2 DEF Holders
  <2> QED BY <2>1, <2>4, <2>5, <2>6 DEF Holders
<1>4. ASSUME NEW p \in Pods, NEW k \in Keys, NEW old \in InFlight, NEW answered \in BOOLEAN,
             ClaimJob(p, k, old, answered)
      PROVE  Holders'
  <2>1. /\ UNCHANGED <<boot, held, result>> /\ task[p] = NoJob /\ held[p] \in runtime
        /\ task' = task \/ task' = [task EXCEPT ![p] = k]
    BY <1>4 DEF ClaimJob, Authorized, tokens
  <2>2. held[p] # 0 /\ k # NoJob
    BY <1>0, <2>1, JobAssumption DEF TypeOK
  <2>3. \A q \in Pods : task'[q] = task[q] \/ (q = p /\ task'[q] = k)
    BY <1>0, <2>1
  <2> QED BY <2>1, <2>2, <2>3 DEF Holders
<1>5. ASSUME NEW p \in Pods, NEW r \in {"success", "failed"}, Execute(p, r) PROVE Holders'
  <2>1. /\ UNCHANGED <<boot, held, task>> /\ task[p] # NoJob
        /\ \A q \in Pods : q # p => result'[q] = result[q]
    BY <1>0, <1>5 DEF Execute, tokens
  <2> QED BY <2>1 DEF Holders
<1>6. ASSUME NEW p \in Pods, NEW answered \in BOOLEAN,
             Duplicate(p, answered) \/ CompleteCommits(p, answered)
      PROVE  Holders'
  <2>1. /\ UNCHANGED <<boot, held>>
        /\ \/ UNCHANGED <<task, result>>
           \/ /\ task' = [task EXCEPT ![p] = NoJob] /\ result' = [result EXCEPT ![p] = "none"]
    BY <1>6 DEF Duplicate, CompleteCommits, Answer, tokens, pods
  <2>2. \A q \in Pods : \/ task'[q] = task[q] /\ result'[q] = result[q]
                        \/ task'[q] = NoJob /\ result'[q] = "none"
    BY <1>0, <2>1
  <2> QED BY <2>1, <2>2 DEF Holders
<1>7. ASSUME NEW p \in Pods, PodStops(p) PROVE Holders'
  <2>1. /\ boot' = boot /\ held' = [held EXCEPT ![p] = 0]
        /\ task' = [task EXCEPT ![p] = NoJob] /\ result' = [result EXCEPT ![p] = "none"]
    BY <1>7 DEF PodStops
  <2>2. \A q \in Pods : \/ held'[q] = held[q] /\ task'[q] = task[q] /\ result'[q] = result[q]
                        \/ held'[q] = 0 /\ task'[q] = NoJob /\ result'[q] = "none"
    BY <1>0, <2>1
  <2> QED BY <2>1, <2>2 DEF Holders
<1>8. ASSUME \/ \E i \in Retries : RetryReads(i)
             \/ \E i \in Retries, broken \in SUBSET Resettable : RetryCommits(i, broken)
             \/ QueuePreflight \/ RegisterDies \/ OperatorHolds
             \/ \E p \in Pods : CompleteReads(p)
             \/ UNCHANGED vars
      PROVE  Holders'
  <2>1. UNCHANGED <<boot, held, task, result>>
    BY <1>8 DEF RetryReads, RetryCommits, QueuePreflight, RegisterDies, OperatorHolds, CompleteReads,
       vars, tokens, pods
  <2> QED BY <2>1 DEF Holders
<1> QED BY <1>1, <1>2, <1>3, <1>4, <1>5, <1>6, <1>7, <1>8 DEF Next, Agent, Operator

\* The history only grows.
LEMMA CleanBefore == [Next]_vars /\ Clean' => Clean
<1> SUFFICES ASSUME [Next]_vars PROVE causes \subseteq causes' /\ overlaps \subseteq overlaps'
  BY DEF Clean
<1> USE DEF history
<1>1. ASSUME NEW st, NEW k, NEW c, NEW seen, EnqueueAgentJob(st, k, c, seen)
      PROVE  causes \subseteq causes'
  BY <1>1 DEF EnqueueAgentJob
<1>2. ASSUME NEW t \in Tokens,
             \/ \E c \in Charts : IssueReads(t, c)
             \/ IssueCreates(t) \/ IssueDispatches(t) \/ IssueRevokes(t) \/ IssueMints(t)
      PROVE  causes \subseteq causes' /\ overlaps \subseteq overlaps'
  BY <1>1, <1>2 DEF IssueReads, IssueCreates, IssueDispatches, IssueRevokes, IssueMints, Reissue,
     MoveEarly, UpgradeAgain
<1>3. ASSUME NEW p \in Pods, NEW answered \in BOOLEAN, CompleteCommits(p, answered)
      PROVE  causes \subseteq causes' /\ overlaps \subseteq overlaps'
  BY <1>1, <1>3 DEF CompleteCommits, Advances, JobFailed, PreflightDone, ApplyDone, WaitDone,
     NothingToAdvance
<1>4. ASSUME QueuePreflight PROVE causes \subseteq causes' /\ overlaps \subseteq overlaps'
  BY <1>1, <1>4 DEF QueuePreflight
<1>5. ASSUME NEW i \in Retries, NEW broken \in SUBSET Resettable,
             RetryReads(i) \/ RetryCommits(i, broken)
      PROVE  causes \subseteq causes' /\ overlaps \subseteq overlaps'
  BY <1>5 DEF RetryReads, RetryCommits
<1>6. ASSUME Others, ~QueuePreflight
      PROVE  causes \subseteq causes' /\ overlaps \subseteq overlaps'
  BY <1>6 DEF Others, BootstrapExpires, Register, RegisterDies, ClaimJob, Execute, Duplicate, PodStops,
     OperatorHolds, vars
<1>7. ASSUME NEW p \in Pods, CompleteReads(p)
      PROVE  causes \subseteq causes' /\ overlaps \subseteq overlaps'
  BY <1>7 DEF CompleteReads
<1> QED BY <1>2, <1>3, <1>4, <1>5, <1>6, <1>7 DEF Next, Agent, Operator, Others

\* A job that is queued while no cause is recorded is new; nothing else changes.
LEMMA EnqueueFresh ==
    ASSUME NEW st \in [Keys -> JobStatus], NEW k \in Keys, NEW c, NEW seen, TypeOK,
           EnqueueAgentJob(st, k, c, seen), causes' = {}
    PROVE  /\ st[k] = "absent"
           /\ \A j \in Keys : /\ status'[j] = IF j = k THEN "pending" ELSE st[j]
                              /\ spec'[j] = IF j = k THEN c ELSE spec[j]
BY DEF EnqueueAgentJob, TypeOK

\* A pod keeps its job and gets no token for it, or has none any more.
PodsKept ==
    \A q \in Pods :
        \/ task'[q] = NoJob /\ result'[q] = "none"
        \/ /\ task'[q] = task[q] /\ chartOf'[q] = chartOf[q] /\ result'[q] = result[q]
           /\ Authorized(q)' => Authorized(q)

\* A step that touches neither the jobs nor the chart.
LEMMA NothingMoved ==
    ASSUME Undisturbed, PodsKept,
           UNCHANGED <<state, desired, status, spec, enqueuing, deployed>>
    PROVE  Undisturbed'
<1>1. OneJob'
  BY DEF Undisturbed, OneJob, AwaitedIn, Outstanding
<1>2. OneHolder'
  BY DEF Undisturbed, OneHolder, PodsKept
<1>3. OnDesired'
  BY DEF Undisturbed, OnDesired, PodsKept, Outstanding
<1> QED BY <1>1, <1>2, <1>3 DEF Undisturbed

\* The job that a pod reports was outstanding; other jobs may only appear.
LEMMA HolderKept ==
    ASSUME TypeOK, OneHolder, PodsKept, NEW p \in Pods, task[p] # NoJob, Outstanding(task[p]),
           Authorized(p), result[p] # "none",
           status'[task[p]] = IF result[p] = "success" THEN "succeeded" ELSE "failed",
           \A j \in Keys : j # task[p] => \/ status'[j] = status[j]
                                          \/ status[j] = "absent" /\ status'[j] = "pending"
    PROVE  /\ OneHolder'
           /\ \A q \in Pods : task'[q] # NoJob /\ status'[task'[q]] = "in_flight" =>
                                 status[task[q]] = "in_flight"
<1> DEFINE k == task[p]
<1>0. \A q \in Pods : task[q] # NoJob => task[q] \in Keys
  BY DEF TypeOK
<1>1. k \in Keys /\ status[k] \in {"pending", "in_flight"} /\ result[p] \in {"success", "failed"}
  BY <1>0 DEF Outstanding, TypeOK
<1>2. \A q \in Pods : q # p /\ task[q] = k => result[q] = "failed"
  <2> SUFFICES ASSUME NEW q \in Pods, q # p, task[q] = k, result[q] # "failed" PROVE FALSE
    OBVIOUS
  <2>1. status[k] = "in_flight"
    BY <1>1 DEF OneHolder, TypeOK
  <2> QED BY <2>1 DEF OneHolder
<1>3. \A q \in Pods : task[q] # NoJob =>
         /\ result[q] = "none" => status'[task[q]] = "in_flight"
         /\ result[q] = "success" => status'[task[q]] \in {"in_flight", "succeeded"}
  <2> SUFFICES ASSUME NEW q \in Pods, task[q] # NoJob
               PROVE  /\ result[q] = "none" => status'[task[q]] = "in_flight"
                      /\ result[q] = "success" => status'[task[q]] \in {"in_flight", "succeeded"}
    OBVIOUS
  <2>1. CASE task[q] # k
    BY <1>0, <2>1 DEF OneHolder
  <2>2. CASE task[q] = k /\ q # p
    BY <1>2, <2>2
  <2>3. CASE q = p
    BY <2>3
  <2> QED BY <2>1, <2>2, <2>3
<1>4. \A j \in Keys : status'[j] = "in_flight" => status[j] = "in_flight"
  BY <1>1
<1> HIDE DEF k
<1>5. OneHolder'
  <2>1. \A q \in Pods : task'[q] # NoJob =>
           /\ result'[q] = "none" => status'[task'[q]] = "in_flight"
           /\ result'[q] = "success" => status'[task'[q]] \in {"in_flight", "succeeded"}
    BY <1>3 DEF PodsKept
  <2>2. ASSUME NEW q \in Pods, NEW r \in Pods, q # r, task'[q] # NoJob, task'[q] = task'[r],
               status'[task'[q]] = "in_flight", result'[r] # "failed"
        PROVE  result'[q] = "failed" /\ ~Authorized(q)'
    <3>1. /\ task'[q] = task[q] /\ result'[q] = result[q] /\ (Authorized(q)' => Authorized(q))
          /\ task'[r] = task[r] /\ result'[r] = result[r]
      BY <2>2 DEF PodsKept
    <3>2. status[task[q]] = "in_flight"
      BY <1>0, <1>4, <2>2, <3>1
    <3>3. task[q] # NoJob /\ task[q] = task[r] /\ result[r] # "failed"
      BY <2>2, <3>1
    <3>4. result[q] = "failed" /\ ~Authorized(q)
      BY <2>2, <3>2, <3>3 DEF OneHolder
    <3> QED BY <3>1, <3>4
  <2> QED BY <2>1, <2>2 DEF OneHolder
<1>6. ASSUME NEW q \in Pods, task'[q] # NoJob, status'[task'[q]] = "in_flight"
      PROVE  status[task[q]] = "in_flight"
  <2>1. task'[q] = task[q]
    BY <1>6 DEF PodsKept
  <2> QED BY <1>0, <1>4, <1>6, <2>1
<1> QED BY <1>5, <1>6

\* The jobs that a pod still has to report apply the chart that stays desired.
HeldJobs ==
    \A p \in Pods : task[p] # NoJob /\ task[p].kind \in ApplyKinds =>
        /\ result[p] = "none" => chartOf[p] = desired
        /\ result[p] = "success" /\ status[task[p]] = "in_flight" => deployed = desired

LEMMA HeldJobsKept ==
    ASSUME HeldJobs, PodsKept, UNCHANGED <<desired, deployed>>,
           \A q \in Pods : task'[q] # NoJob /\ status'[task'[q]] = "in_flight" =>
                              status[task[q]] = "in_flight"
    PROVE  HeldJobs'
<1> SUFFICES ASSUME NEW q \in Pods, task'[q] # NoJob, task'[q].kind \in ApplyKinds
             PROVE  /\ result'[q] = "none" => chartOf'[q] = desired'
                    /\ result'[q] = "success" /\ status'[task'[q]] = "in_flight"
                          => deployed' = desired'
  BY DEF HeldJobs
<1>1. task'[q] = task[q] /\ chartOf'[q] = chartOf[q] /\ result'[q] = result[q]
  BY DEF PodsKept
<1> QED BY <1>1 DEF HeldJobs

LEMMA KindsApart ==
    /\ \A k \in Keys : ~(k.kind \in ApplyKinds /\ k.kind \in WaitKinds)
    /\ Preflight.kind \notin ApplyKinds \cup WaitKinds
    /\ ApplyKinds = {"install_helm_release", "upgrade_helm_release"}
BY DEF ApplyKinds, WaitKinds, Preflight

\* A completion that commits on the row it has read.
LEMMA CompletionUndisturbed ==
    ASSUME TypeOK, Installed, Undisturbed, PodsKept, causes' = {},
           UNCHANGED <<enqueuing, deployed>>, NEW p \in Pods, Authorized(p), task[p] # NoJob,
           Outstanding(task[p]), result[p] # "none",
           \/ result[p] = "failed" /\ JobFailed(Row, task[p])
           \/ result[p] = "success" /\ Advances(Row, task[p])
    PROVE  Undisturbed'
<1> DEFINE k == task[p]
           done == [status EXCEPT ![k] = "succeeded"]
<1>0. /\ k \in Keys /\ OneJob /\ OneHolder /\ OnDesired /\ HeldJobs
      /\ status \in [Keys -> JobStatus] /\ done \in [Keys -> JobStatus]
      /\ \A j \in Keys : done[j] = IF j = k THEN "succeeded" ELSE status[j]
  BY DEF Undisturbed, TypeOK, JobStatus, HeldJobs, OnDesired
<1>1. /\ k \in AwaitedIn(state) /\ \A j \in Keys : j # k => ~Outstanding(j)
      /\ ~enqueuing
  BY <1>0 DEF OneJob, AwaitedIn
<1>2. \/ k = Preflight /\ state = "agent_connected"
      \/ k.kind \in ApplyKinds /\ state = ApplyState[k.kind]
      \/ k.kind \in WaitKinds /\ state \in {"provisioning", "upgrading"}
  <2>1. \/ state = "agent_connected" /\ k = Preflight
        \/ state = "provisioning" /\ (k.kind = "install_helm_release" \/ k.kind \in WaitKinds)
        \/ state = "upgrading" /\ (k.kind = "upgrade_helm_release" \/ k.kind \in WaitKinds)
    BY <1>1 DEF AwaitedIn
  <2> QED BY <1>0, <2>1, KeyTypes DEF ApplyKinds
<1>3. CASE result[p] = "failed" /\ JobFailed(Row, k)
  <2>1. /\ state' = "degraded" /\ UNCHANGED <<desired, spec>>
        /\ \A j \in Keys : status'[j] = IF j = k THEN "failed" ELSE status[j]
    BY <1>0, <1>3 DEF JobFailed, Row, Written
  <2>2. OneHolder' /\ HeldJobs'
    BY <1>0, <1>3, <2>1, HolderKept, HeldJobsKept
  <2>3. \A j \in Keys : ~Outstanding(j)'
    BY <1>1, <2>1 DEF Outstanding
  <2>4. OneJob'
    BY <1>1, <2>3 DEF OneJob
  <2>5. /\ status'[k] = "failed" /\ (k.kind \in ApplyKinds => spec'[k] = desired')
        /\ k.kind \in WaitKinds => deployed' = desired'
    BY <1>0, <2>1 DEF OnDesired
  <2>6. OnDesired'
    BY <1>0, <2>1, <2>2, <2>3, <2>5 DEF OnDesired, HeldJobs
  <2> QED BY <2>2, <2>4, <2>6 DEF Undisturbed
<1>4. ASSUME NEW next \in Keys, result[p] = "success", state' \in {"provisioning", "upgrading"},
             EnqueueAgentJob(done, next, desired, Stale(Row)), next \in AwaitedIn(state'),
             UNCHANGED desired, next.kind \in WaitKinds => deployed = desired
      PROVE  Undisturbed'
  <2> HIDE DEF done
  <2>1. /\ done[next] = "absent"
        /\ \A j \in Keys : /\ status'[j] = IF j = next THEN "pending" ELSE done[j]
                           /\ spec'[j] = IF j = next THEN desired ELSE spec[j]
    BY <1>0, <1>4, EnqueueFresh
  <2>2. /\ status'[k] = "succeeded"
        /\ \A j \in Keys : j # k => \/ status'[j] = status[j]
                                    \/ status[j] = "absent" /\ status'[j] = "pending"
    BY <1>0, <2>1
  <2>3. OneHolder' /\ HeldJobs'
    BY <1>0, <1>4, <2>2, HolderKept, HeldJobsKept
  <2>4. \A j \in Keys : Outstanding(j)' => j = next
    BY <1>0, <1>1, <2>1 DEF Outstanding
  <2>5. OneJob'
    BY <1>1, <1>4, <2>4 DEF OneJob
  <2>6. OnDesired'
    BY <1>4, <2>1, <2>3, <2>4 DEF OnDesired, HeldJobs
  <2> QED BY <2>3, <2>5, <2>6 DEF Undisturbed
<1>5. CASE result[p] = "success" /\ PreflightDone(Row, k)
  <2> DEFINE next == [kind |-> "install_helm_release", chart |-> desired]
  <2>1. /\ state' = "provisioning" /\ desired' = desired /\ desired \in Charts
        /\ EnqueueAgentJob(done, next, desired, Stale(Row))
    BY <1>5 DEF PreflightDone, Installed, Created, Row
  <2>2. next \in Keys /\ next.kind = "install_helm_release"
    BY <2>1, KeyTypes DEF ApplyKinds
  <2> HIDE DEF next, done
  <2>3. next \in AwaitedIn(state') /\ next.kind \notin WaitKinds
    BY <2>1, <2>2 DEF AwaitedIn, WaitKinds
  <2> QED BY <1>4, <1>5, <2>1, <2>2, <2>3
<1>6. CASE result[p] = "success" /\ ApplyDone(Row, k)
  <2> DEFINE next == [kind |-> WaitFor[k.kind], chart |-> desired]
  <2>1. /\ k.kind \in ApplyKinds /\ state \in {"provisioning", "upgrading"} /\ state' = state
        /\ desired' = desired /\ desired \in Charts /\ EnqueueAgentJob(done, next, desired, Stale(Row))
    BY <1>0, <1>6, KeyTypes DEF ApplyDone, Installed, Created, Row, installation
  <2>2. next \in Keys /\ next.kind \in WaitKinds
    BY <1>0, <2>1, KeyTypes
  <2>3. status[k] = "in_flight"
    BY <1>0, <1>6 DEF OneHolder, Outstanding
  <2>4. deployed = desired
    BY <1>0, <1>6, <2>1, <2>3 DEF HeldJobs
  <2> HIDE DEF next, done
  <2>5. next \in AwaitedIn(state')
    BY <2>1, <2>2 DEF AwaitedIn
  <2> QED BY <1>4, <1>6, <2>1, <2>2, <2>4, <2>5
<1>7. CASE result[p] = "success" /\ WaitDone(Row, k)
  <2>1. /\ k.kind \in WaitKinds /\ state' = "active" /\ UNCHANGED <<desired, spec>>
        /\ \A j \in Keys : status'[j] = IF j = k THEN "succeeded" ELSE status[j]
    BY <1>0, <1>7 DEF WaitDone, Row
  <2>2. OneHolder' /\ HeldJobs'
    BY <1>0, <1>7, <2>1, HolderKept, HeldJobsKept
  <2>3. \A j \in Keys : ~Outstanding(j)'
    BY <1>1, <2>1 DEF Outstanding
  <2>4. OneJob'
    BY <1>1, <2>3 DEF OneJob
  <2>5. deployed' = desired'
    BY <1>0, <2>1 DEF OnDesired
  <2>6. OnDesired'
    BY <2>1, <2>2, <2>3, <2>5 DEF OnDesired, HeldJobs
  <2> QED BY <2>2, <2>4, <2>6 DEF Undisturbed
<1>8. CASE NothingToAdvance(Row, k)
  BY <1>2, <1>8 DEF NothingToAdvance, Row
<1> QED BY <1>3, <1>5, <1>6, <1>7, <1>8 DEF Advances

\* An operator retries a degraded installation: the one failed job is the one that
\* failed last, and the installation waits for it again.
LEMMA RetryUndisturbed ==
    ASSUME TypeOK, Undisturbed, NEW i \in Retries, NEW broken \in SUBSET Resettable,
           RetryCommits(i, broken), Clean'
    PROVE  Undisturbed'
<1> DEFINE r == retry[i].row
           retried == {k \in Keys : status[k] = "failed"}
           reclaimed == {k \in Keys : status[k] = "in_flight"}
           reset == reclaimed \cup retried
           resumes == r.state = "degraded" /\ retried # {}
<1>0. OneJob /\ OneHolder /\ OnDesired /\ HeldJobs
  BY DEF Undisturbed, HeldJobs, OnDesired
<1>1. /\ status' = [k \in Keys |-> IF k \in reset THEN "pending" ELSE status[k]]
      /\ spec' = [k \in Keys |-> 
                                IF k \in reset \ (broken \cup {Preflight}) THEN r.desired ELSE spec[k]]
      /\ state' = IF resumes THEN ResumeState(r, retried) ELSE state
      /\ UNCHANGED <<desired, action, enqueuing, deployed, task, chartOf, result, runtime, held>>
  BY DEF RetryCommits, pods, tokens
<1>2. /\ reclaimed = {} /\ Preflight \notin retried
      /\ r.state # "degraded" => retried = {}
      /\ reset # {} => r = Row
      /\ \A j, k \in retried : j = k
  BY DEF RetryCommits, Clean, Stale
<1>3. ~(/\ resumes /\ ResumeState(r, retried) = "upgrading"
        /\ \A k \in retried : k.kind \in {"preflight", "install_helm_release"})
  BY DEF RetryCommits, Clean
<1>4. PodsKept
  BY <1>1 DEF PodsKept, Authorized
<1>5. CASE retried = {}
  <2>1. reset = {} /\ ~resumes
    BY <1>2, <1>5
  <2>2. status' = status /\ spec' = spec /\ state' = state
    BY <1>1, <2>1 DEF TypeOK
  <2> QED BY <1>1, <1>4, <2>2, NothingMoved
<1>6. CASE retried # {}
  <2>1. PICK k \in Keys : status[k] = "failed"
    BY <1>6
  <2>2. /\ r = Row /\ resumes /\ reset = {k} /\ retried = {k} /\ k # Preflight
    BY <1>2, <1>6, <2>1
  <2>0. state = "degraded" /\ r.desired = desired
    BY <2>2 DEF Row
  <2>3. /\ \A j \in Keys : status'[j] = IF j = k THEN "pending" ELSE status[j]
        /\ spec'[k] \in {desired, spec[k]}
        /\ state' = ResumeState(r, {k})
    BY <1>1, <2>0, <2>2
  <2>4. \A j \in Keys : ~Outstanding(j)
    BY <1>0, <2>0 DEF OneJob, AwaitedIn
  <2>5. \A j \in Keys : Outstanding(j)' => j = k
    BY <2>3, <2>4 DEF Outstanding
  <2>6. k.kind \in ApplyKinds \cup WaitKinds
    BY <2>2, KeyTypes
  <2>7. /\ state' \in {"provisioning", "upgrading"} /\ k \in AwaitedIn(state')
    <3>1. CASE ResumeState(r, {k}) = "upgrading"
      <4>1. k.kind \notin {"preflight", "install_helm_release"}
        BY <1>3, <2>2, <3>1
      <4>2. k.kind \in {"upgrade_helm_release"} \cup WaitKinds
        BY <2>6, <4>1 DEF ApplyKinds
      <4> QED BY <2>3, <3>1, <4>2 DEF AwaitedIn
    <3>2. CASE ResumeState(r, {k}) # "upgrading"
      <4>1. ResumeState(r, {k}) = "provisioning" /\ k.kind # "upgrade_helm_release"
        BY <3>2 DEF ResumeState
      <4>2. k.kind \in {"install_helm_release"} \cup WaitKinds
        BY <2>6, <4>1 DEF ApplyKinds
      <4> QED BY <2>3, <4>1, <4>2 DEF AwaitedIn
    <3> QED BY <3>1, <3>2
  <2>8. /\ k.kind \in ApplyKinds => spec'[k] = desired
        /\ k.kind \in WaitKinds => deployed = desired
    <3>1. PICK j \in Keys : /\ status[j] = "failed"
                            /\ j.kind \in ApplyKinds => spec[j] = desired
                            /\ j.kind \in WaitKinds => deployed = desired
      BY <1>0, <2>0 DEF OnDesired
    <3>2. j = k
      BY <1>2, <2>1, <3>1
    <3> QED BY <2>3, <3>1, <3>2
  <2>9. \A q \in Pods : task[q] # NoJob =>
           /\ task[q] \in Keys /\ result[q] # "none" /\ status[task[q]] # "in_flight"
           /\ result[q] = "success" => status[task[q]] = "succeeded"
    BY <2>4 DEF TypeOK, Outstanding, Undisturbed, OneHolder
  <2>10. \A q \in Pods : task[q] # NoJob =>
           /\ status'[task[q]] # "in_flight"
           /\ result[q] = "success" => status'[task[q]] = "succeeded"
    BY <2>1, <2>3, <2>9
  <2>11. OneHolder'
    BY <1>1, <2>9, <2>10 DEF OneHolder
  <2>12. OneJob'
    BY <1>0, <1>1, <2>0, <2>5, <2>7 DEF OneJob
  <2>13. HeldJobs'
    BY <1>1, <2>9, <2>10 DEF HeldJobs
  <2>14. OnDesired'
    BY <1>1, <2>3, <2>5, <2>7, <2>8, <2>13 DEF OnDesired, HeldJobs
  <2> QED BY <2>11, <2>12, <2>14 DEF Undisturbed
<1> QED BY <1>5, <1>6

\* A claim without a job that was taken back.
LEMMA ClaimUndisturbed ==
    ASSUME TypeOK, OneCredential, Holders, Undisturbed, NEW p \in Pods, NEW k \in Keys,
           NEW old \in InFlight, NEW answered \in BOOLEAN, ClaimJob(p, k, old, answered), Clean'
    PROVE  Undisturbed'
<1>0. OneJob /\ OneHolder /\ OnDesired /\ HeldJobs
      /\ task \in [Pods -> Keys \cup {NoJob}] /\ chartOf \in [Pods -> Charts \cup {NoChart}]
      /\ status \in [Keys -> JobStatus] /\ result \in [Pods -> {"none", "success", "failed"}]
  BY DEF Undisturbed, HeldJobs, OnDesired, TypeOK, JobStatus
<1>1. old = {}
  BY DEF ClaimJob, Clean
<1>2. Reclaim(old) = status
  BY <1>0, <1>1 DEF Reclaim
<1>3. /\ Authorized(p) /\ task[p] = NoJob /\ status[k] = "pending"
      /\ status' = [status EXCEPT ![k] = "in_flight"]
      /\ \/ task' = [task EXCEPT ![p] = k] /\ chartOf' = [chartOf EXCEPT ![p] = spec[k]]
         \/ UNCHANGED <<task, chartOf>>
      /\ UNCHANGED <<state, desired, runtime, held, spec, enqueuing, result, deployed>>
  BY <1>2 DEF ClaimJob, IsOldest, installation, tokens
<1>4. /\ \A j \in Keys : status'[j] = IF j = k THEN "in_flight" ELSE status[j]
      /\ \A q \in Pods : \/ q = p /\ task'[q] = k /\ chartOf'[q] = spec[k] /\ result[q] = "none"
                         \/ task'[q] = task[q] /\ chartOf'[q] = chartOf[q]
      /\ k # NoJob
  BY <1>0, <1>3, JobAssumption DEF Holders
<1>5. \A j \in Keys : Outstanding(j)' <=> Outstanding(j)
  BY <1>3, <1>4 DEF Outstanding
<1>6. \A q \in Pods : q # p => ~(held[q] \in runtime)
  BY <1>3, BoundsAssumption DEF Authorized, OneCredential, Holders, TypeOK, Tokens
<1>7. \A q \in Pods : task[q] = k => result[q] = "failed"
  BY <1>0, <1>3, <1>4 DEF OneHolder
<1>8. OneJob'
  BY <1>0, <1>3, <1>4, <1>5, KeyTypes DEF OneJob, AwaitedIn
<1>9. OneHolder'
  <2>1. ASSUME NEW q \in Pods, task'[q] # NoJob
        PROVE  /\ result'[q] = "none" => status'[task'[q]] = "in_flight"
               /\ result'[q] = "success" => status'[task'[q]] \in {"in_flight", "succeeded"}
    <3>1. CASE task'[q] = task[q]
      <4>1. task[q] \in Keys
        BY <1>0, <2>1, <3>1
      <4> QED BY <1>0, <1>3, <1>4, <2>1, <3>1, <4>1 DEF OneHolder
    <3>2. CASE q = p /\ task'[q] = k /\ result[q] = "none"
      BY <1>3, <1>4, <3>2
    <3> QED BY <1>4, <3>1, <3>2
  <2>2. ASSUME NEW q \in Pods, NEW r \in Pods, q # r, task'[q] # NoJob, task'[q] = task'[r],
               status'[task'[q]] = "in_flight", result'[r] # "failed"
        PROVE  result'[q] = "failed" /\ ~Authorized(q)'
    <3>0. result' = result /\ (Authorized(q)' <=> held[q] \in runtime)
      BY <1>3 DEF Authorized
    <3>1. CASE task'[q] = k
      <4>1. r = p
        BY <1>4, <1>7, <2>2, <3>0, <3>1
      <4>2. task[q] = k
        BY <1>4, <2>2, <3>1, <4>1
      <4> QED BY <1>6, <1>7, <2>2, <3>0, <4>1, <4>2
    <3>2. CASE task'[q] # k
      <4>1. task[q] = task'[q] /\ task[r] = task'[r] /\ task[q] \in Keys
        BY <1>0, <1>4, <2>2, <3>2
      <4>2. status[task[q]] = "in_flight" /\ task[q] # NoJob /\ task[q] = task[r]
            /\ result[r] # "failed"
        BY <1>4, <2>2, <3>0, <3>2, <4>1
      <4>3. result[q] = "failed" /\ ~Authorized(q)
        BY <1>0, <2>2, <4>2 DEF OneHolder
      <4> QED BY <3>0, <4>3 DEF Authorized
    <3> QED BY <3>1, <3>2
  <2> QED BY <2>1, <2>2 DEF OneHolder
<1>10. HeldJobs'
  <2> SUFFICES ASSUME NEW q \in Pods, task'[q] # NoJob, task'[q].kind \in ApplyKinds
               PROVE  /\ result'[q] = "none" => chartOf'[q] = desired'
                      /\ result'[q] = "success" /\ status'[task'[q]] = "in_flight"
                            => deployed' = desired'
    BY DEF HeldJobs
  <2>1. CASE q = p /\ task'[q] = k /\ chartOf'[q] = spec[k] /\ result[q] = "none"
    <3>1. Outstanding(k)
      BY <1>3 DEF Outstanding
    <3>2. spec[k] = desired
      BY <1>0, <2>1, <3>1 DEF OnDesired
    <3> QED BY <1>3, <2>1, <3>2
  <2>2. CASE task'[q] = task[q] /\ chartOf'[q] = chartOf[q]
    <3>1. result'[q] = "success" /\ status'[task'[q]] = "in_flight" => status[task[q]] = "in_flight"
      BY <1>0, <1>3, <1>4, <1>7, <2>2
    <3> QED BY <1>0, <1>3, <2>2, <3>1 DEF HeldJobs
  <2> QED BY <1>4, <2>1, <2>2
<1>11. \A j \in Keys : status[j] = "failed" => status'[j] = "failed"
  BY <1>3, <1>4
<1>12. OnDesired'
  BY <1>0, <1>3, <1>5, <1>10, <1>11 DEF OnDesired, HeldJobs
<1> QED BY <1>8, <1>9, <1>12 DEF Undisturbed

\* A pod carries out its job.
LEMMA ExecuteUndisturbed ==
    ASSUME TypeOK, Undisturbed, NEW p \in Pods, NEW r \in {"success", "failed"}, Execute(p, r)
    PROVE  Undisturbed'
<1>0. /\ OneJob /\ OneHolder /\ OnDesired /\ HeldJobs
      /\ result \in [Pods -> {"none", "success", "failed"}] /\ task \in [Pods -> Keys \cup {NoJob}]
  BY DEF Undisturbed, HeldJobs, OnDesired, TypeOK
<1>1. /\ task[p] # NoJob /\ result[p] = "none" /\ result' = [result EXCEPT ![p] = r]
      /\ deployed' = IF r = "success" /\ task[p].kind \in ApplyKinds THEN chartOf[p] ELSE deployed
      /\ UNCHANGED <<state, desired, status, spec, enqueuing, task, chartOf, held, runtime>>
  BY DEF Execute, installation, tokens, jobs
<1>2. \A q \in Pods : result'[q] = IF q = p THEN r ELSE result[q]
  BY <1>0, <1>1
<1>3. status[task[p]] = "in_flight"
  BY <1>0, <1>1 DEF OneHolder
<1>4. OneJob'
  BY <1>0, <1>1 DEF OneJob, AwaitedIn, Outstanding
<1>5. OneHolder'
  <2>1. \A q \in Pods : task'[q] # NoJob =>
           /\ result'[q] = "none" => status'[task'[q]] = "in_flight"
           /\ result'[q] = "success" => status'[task'[q]] \in {"in_flight", "succeeded"}
    BY <1>0, <1>1, <1>2, <1>3 DEF OneHolder
  <2>2. ASSUME NEW q \in Pods, NEW s \in Pods, q # s, task'[q] # NoJob, task'[q] = task'[s],
               status'[task'[q]] = "in_flight", result'[s] # "failed"
        PROVE  result'[q] = "failed" /\ ~Authorized(q)'
    <3>1. task[q] # NoJob /\ task[q] = task[s] /\ status[task[q]] = "in_flight"
      BY <1>1, <2>2
    <3>2. result[s] # "failed"
      BY <1>1, <1>2, <2>2
    <3>3. result[q] = "failed" /\ ~Authorized(q)
      BY <1>0, <2>2, <3>1, <3>2 DEF OneHolder
    <3>4. q # p
      BY <1>1, <3>3
    <3> QED BY <1>1, <1>2, <3>3, <3>4 DEF Authorized
  <2> QED BY <2>1, <2>2 DEF OneHolder
<1>6. deployed = desired => deployed' = desired
  BY <1>0, <1>1 DEF HeldJobs
<1>7. r = "success" /\ task[p].kind \in ApplyKinds => deployed' = desired
  BY <1>0, <1>1 DEF HeldJobs
<1>8. HeldJobs'
  <2> SUFFICES ASSUME NEW q \in Pods, task'[q] # NoJob, task'[q].kind \in ApplyKinds
               PROVE  /\ result'[q] = "none" => chartOf'[q] = desired'
                      /\ result'[q] = "success" /\ status'[task'[q]] = "in_flight"
                            => deployed' = desired'
    BY DEF HeldJobs
  <2> QED BY <1>0, <1>1, <1>2, <1>6, <1>7 DEF HeldJobs
<1>9. OnDesired'
  BY <1>0, <1>1, <1>6, <1>8 DEF OnDesired, HeldJobs, Outstanding
<1> QED BY <1>4, <1>5, <1>9 DEF Undisturbed

\* A token issue: a chart that moves finds no job that applies another one.
LEMMA IssueUndisturbed ==
    ASSUME TypeOK, Installed, Undisturbed, NEW t \in Tokens,
           \/ \E c \in Charts : IssueReads(t, c)
           \/ IssueCreates(t) \/ IssueDispatches(t) \/ IssueRevokes(t) \/ IssueMints(t),
           Clean'
    PROVE  Undisturbed'
<1>0. /\ OneJob /\ OneHolder /\ OnDesired /\ HeldJobs
      /\ task \in [Pods -> Keys \cup {NoJob}] /\ status \in [Keys -> JobStatus]
  BY DEF Undisturbed, HeldJobs, OnDesired, TypeOK
<1>1. UNCHANGED <<runtime, held, enqueuing, task, chartOf, result, deployed>>
  BY DEF IssueReads, IssueCreates, IssueDispatches, IssueRevokes, IssueMints, tokens, pods
<1>2. PodsKept
  BY <1>1 DEF PodsKept, Authorized
<1>3. CASE UNCHANGED <<state, desired, status, spec>>
  BY <1>1, <1>2, <1>3, NothingMoved
<1>4. ASSUME state' \notin {"active", "degraded"},
             \A k \in Keys : Outstanding(k) => k = Preflight, state' = state \/ state = "none",
             UNCHANGED <<status, spec>>
      PROVE  Undisturbed'
  <2>1. OneJob'
    BY <1>0, <1>1, <1>4 DEF OneJob, AwaitedIn, Outstanding
  <2>2. OneHolder'
    BY <1>0, <1>1, <1>4 DEF OneHolder, Authorized
  <2>3. \A q \in Pods : task[q] # NoJob /\ task[q].kind \in ApplyKinds =>
           status[task[q]] # "in_flight" /\ result[q] # "none"
    BY <1>0, <1>4, KindsApart DEF OneHolder, Outstanding
  <2>4. HeldJobs'
    BY <1>1, <1>4, <2>3 DEF HeldJobs
  <2>5. OnDesired'
    BY <1>4, <2>4, KindsApart DEF OnDesired, HeldJobs, Outstanding
  <2> QED BY <2>1, <2>2, <2>5 DEF Undisturbed
<1>5. CASE (\E c \in Charts : IssueReads(t, c)) \/ IssueRevokes(t)
  BY <1>3, <1>5 DEF IssueReads, IssueRevokes, installation, jobs
<1>6. CASE IssueCreates(t)
  <2>1. \A k \in Keys : ~Outstanding(k)
    BY <1>6 DEF IssueCreates, Installed, Created, Outstanding
  <2> QED BY <1>4, <1>6, <2>1 DEF IssueCreates, jobs
<1>7. CASE IssueMints(t)
  <2> DEFINE i == issue[t]
  <2>0. UNCHANGED <<status, spec>> /\ causes' = {}
    BY <1>7 DEF IssueMints, jobs, Clean
  <2>1. CASE Reissue(i)
    BY <1>3, <2>0, <2>1 DEF Reissue
  <2>2. CASE MoveEarly(i)
    <3>1. i.row = Row /\ state' = state
      BY <2>0, <2>2 DEF MoveEarly, Stale
    <3>2. state \notin {"active", "degraded", "provisioning", "upgrading"}
      BY <2>2, <3>1 DEF MoveEarly, Settled, Row, Installed, RequestsKnow
    <3>3. \A k \in Keys : Outstanding(k) => k = Preflight
      BY <1>0, <3>2 DEF OneJob, AwaitedIn
    <3> QED BY <1>4, <2>0, <3>1, <3>2, <3>3
  <2>3. CASE UpgradeAgain(i)
    BY <2>0, <2>3 DEF UpgradeAgain
  <2> QED BY <1>7, <2>1, <2>2, <2>3 DEF IssueMints
<1>8. CASE IssueDispatches(t)
  <2> DEFINE c == issue[t].chart
             next == Upgrade(c)
  <2>1. /\ state \in {"active", "degraded"} /\ state' = "upgrading" /\ desired' = c
        /\ EnqueueAgentJob(status, next, c, Stale(issue[t].row)) /\ causes' = {} /\ c \in Charts
    <3>1. /\ EnqueueAgentJob(status, next, c, Stale(issue[t].row)) /\ causes' = {}
          /\ c \in Charts /\ status[next] = "absent"
      BY <1>8 DEF IssueDispatches, Clean, Installed, RequestsKnow
    <3>2. issue[t].row = Row
      BY <3>1 DEF EnqueueAgentJob, Stale
    <3> QED BY <1>8, <3>1, <3>2 DEF IssueDispatches, Dispatches, Settled, Row
  <2>2. next \in Keys /\ next.kind = "upgrade_helm_release"
    BY <2>1, KeyTypes DEF ApplyKinds, Upgrade
  <2> HIDE DEF next, c
  <2>3. /\ status[next] = "absent"
        /\ \A j \in Keys : /\ status'[j] = IF j = next THEN "pending" ELSE status[j]
                           /\ spec'[j] = IF j = next THEN c ELSE spec[j]
    BY <1>0, <2>1, <2>2, EnqueueFresh
  <2>4. \A j \in Keys : ~Outstanding(j)
    BY <1>0, <2>1 DEF OneJob, AwaitedIn
  <2>5. \A j \in Keys : Outstanding(j)' => j = next
    BY <2>3, <2>4 DEF Outstanding
  <2>6. next \in AwaitedIn(state') /\ next.kind \notin WaitKinds
    BY <2>1, <2>2 DEF AwaitedIn, WaitKinds
  <2>7. OneJob'
    BY <1>0, <1>1, <2>1, <2>5, <2>6 DEF OneJob
  <2>8. \A q \in Pods : task[q] # NoJob =>
           /\ result[q] # "none" /\ task[q] \in Keys /\ status[task[q]] # "in_flight"
           /\ result[q] = "success" => status[task[q]] = "succeeded"
    BY <1>0, <2>4 DEF OneHolder, Outstanding
  <2>9. \A q \in Pods : task[q] # NoJob =>
           /\ status'[task[q]] # "in_flight"
           /\ result[q] = "success" => status'[task[q]] = "succeeded"
    BY <2>3, <2>8
  <2>10. OneHolder'
    BY <1>1, <2>8, <2>9 DEF OneHolder
  <2>11. HeldJobs'
    BY <1>1, <2>8, <2>9 DEF HeldJobs
  <2>12. OnDesired'
    BY <2>1, <2>3, <2>5, <2>6, <2>11 DEF OnDesired, HeldJobs
  <2> QED BY <2>7, <2>10, <2>12 DEF Undisturbed
<1> QED BY <1>5, <1>6, <1>7, <1>8

\* A pod registers.
LEMMA RegisterUndisturbed ==
    ASSUME TypeOK, Holders, Undisturbed, NEW p \in Pods, NEW t \in Tokens,
           NEW answered \in BOOLEAN, Register(p, t, answered)
    PROVE  Undisturbed'
<1>0. /\ OneJob /\ OneHolder /\ OnDesired /\ HeldJobs /\ held \in [Pods -> Tokens \cup {0}]
      /\ \A u \in Tokens : u # 0
  BY BoundsAssumption DEF Undisturbed, HeldJobs, OnDesired, TypeOK, Tokens
<1>1. /\ boot[t] = "live" /\ held[p] = 0 /\ runtime' = {t}
      /\ held' = held \/ held' = [held EXCEPT ![p] = t]
      /\ UNCHANGED <<desired, status, spec, task, chartOf, result, deployed>>
      /\ Connect
  BY DEF Register, jobs, pods
<1>2. \A q \in Pods : q # p => held'[q] # t
  BY <1>0, <1>1 DEF Holders
<1>3. PodsKept
  <2> SUFFICES ASSUME NEW q \in Pods
               PROVE  \/ task'[q] = NoJob /\ result'[q] = "none"
                      \/ /\ task'[q] = task[q] /\ chartOf'[q] = chartOf[q] /\ result'[q] = result[q]
                         /\ Authorized(q)' => Authorized(q)
    BY DEF PodsKept
  <2>1. CASE q = p
    BY <1>1, <2>1 DEF Holders
  <2>2. CASE q # p
    <3>1. ~Authorized(q)'
      BY <1>1, <1>2, <2>2 DEF Authorized
    <3> QED BY <1>1, <3>1
  <2> QED BY <2>1, <2>2
<1>4. CASE UNCHANGED <<state, enqueuing>>
  BY <1>1, <1>3, <1>4, NothingMoved
<1>5. CASE state = "pending" /\ state' = "agent_connected" /\ enqueuing' = TRUE
  <2>1. \A k \in Keys : ~Outstanding(k)
    BY <1>0, <1>5 DEF OneJob, AwaitedIn
  <2>2. OneJob'
    BY <1>1, <1>5, <2>1, KeyTypes DEF OneJob, Outstanding
  <2>3. OneHolder'
    BY <1>0, <1>1, <1>3 DEF OneHolder, PodsKept
  <2>4. OnDesired'
    BY <1>0, <1>1, <1>5 DEF OnDesired, Outstanding
  <2> QED BY <2>2, <2>3, <2>4 DEF Undisturbed
<1> QED BY <1>1, <1>4, <1>5 DEF Connect

\* The preflight is the first job.
LEMMA PreflightUndisturbed ==
    ASSUME TypeOK, Undisturbed, QueuePreflight, Clean'
    PROVE  Undisturbed'
<1>0. /\ OneJob /\ OneHolder /\ OnDesired /\ HeldJobs /\ Preflight \in Keys
      /\ task \in [Pods -> Keys \cup {NoJob}] /\ status \in [Keys -> JobStatus]
  BY KeyTypes DEF Undisturbed, HeldJobs, OnDesired, TypeOK, JobStatus
<1>1. /\ enqueuing /\ ~enqueuing' /\ EnqueueAgentJob(status, Preflight, NoChart, {}) /\ causes' = {}
      /\ UNCHANGED <<state, desired, runtime, held, task, chartOf, result, deployed>>
  BY DEF QueuePreflight, Clean, installation, tokens, pods
<1>2. /\ status[Preflight] = "absent"
      /\ \A j \in Keys : /\ status'[j] = IF j = Preflight THEN "pending" ELSE status[j]
                         /\ spec'[j] = IF j = Preflight THEN NoChart ELSE spec[j]
  BY <1>0, <1>1, EnqueueFresh
<1>3. state = "agent_connected"
  BY <1>0, <1>1 DEF OneJob
<1>4. \A j \in Keys : Outstanding(j)' => j = Preflight
  BY <1>0, <1>2, <1>3 DEF OneJob, AwaitedIn, Outstanding
<1>5. OneJob'
  BY <1>0, <1>1, <1>3, <1>4 DEF OneJob, AwaitedIn
<1>6. \A q \in Pods : task[q] # NoJob =>
         /\ status'[task[q]] = "in_flight" <=> status[task[q]] = "in_flight"
         /\ status[task[q]] = "succeeded" => status'[task[q]] = "succeeded"
  BY <1>0, <1>2
<1>7. OneHolder'
  BY <1>0, <1>1, <1>6 DEF OneHolder, Authorized
<1>8. HeldJobs'
  BY <1>0, <1>1, <1>6 DEF HeldJobs
<1>9. OnDesired'
  BY <1>1, <1>3, <1>4, <1>8, KindsApart DEF OnDesired, HeldJobs
<1> QED BY <1>5, <1>7, <1>9 DEF Undisturbed

LEMMA NextUndisturbed ==
    ASSUME TypeOK, Installed, Reporting, OneCredential, Holders, Undisturbed, [Next]_vars, Clean'
    PROVE  Undisturbed'
<1>1. ASSUME NEW t \in Tokens,
             \/ \E c \in Charts : IssueReads(t, c)
             \/ IssueCreates(t) \/ IssueDispatches(t) \/ IssueRevokes(t) \/ IssueMints(t)
      PROVE  Undisturbed'
  BY <1>1, IssueUndisturbed
<1>2. ASSUME NEW i \in Retries, NEW broken \in SUBSET Resettable, RetryCommits(i, broken)
      PROVE  Undisturbed'
  BY <1>2, RetryUndisturbed
<1>3. ASSUME NEW p \in Pods, NEW t \in Tokens, NEW answered \in BOOLEAN, Register(p, t, answered)
      PROVE  Undisturbed'
  BY <1>3, RegisterUndisturbed
<1>4. ASSUME QueuePreflight PROVE Undisturbed'
  BY <1>4, PreflightUndisturbed
<1>5. ASSUME RegisterDies PROVE FALSE
  BY <1>5 DEF RegisterDies, Clean
<1>6. ASSUME NEW p \in Pods, NEW k \in Keys, NEW old \in InFlight, NEW answered \in BOOLEAN,
             ClaimJob(p, k, old, answered)
      PROVE  Undisturbed'
  BY <1>6, ClaimUndisturbed
<1>7. ASSUME NEW p \in Pods, NEW r \in {"success", "failed"}, Execute(p, r) PROVE Undisturbed'
  BY <1>7, ExecuteUndisturbed
<1>8. ASSUME NEW p \in Pods, NEW answered \in BOOLEAN, Answer(p, answered), UNCHANGED <<runtime, held>>
      PROVE  PodsKept
  <2>1. \/ UNCHANGED <<task, chartOf, result>>
        \/ /\ task' = [task EXCEPT ![p] = NoJob] /\ chartOf' = [chartOf EXCEPT ![p] = NoChart]
           /\ result' = [result EXCEPT ![p] = "none"]
    BY <1>8 DEF Answer, pods
  <2> QED BY <1>8, <2>1 DEF PodsKept, Authorized, TypeOK
<1>9. ASSUME NEW p \in Pods, NEW answered \in BOOLEAN, Duplicate(p, answered) PROVE Undisturbed'
  <2>1. /\ Answer(p, answered)
        /\ UNCHANGED <<state, desired, status, spec, runtime, held, enqueuing, deployed>>
    BY <1>9 DEF Duplicate, installation, tokens, jobs
  <2> QED BY <1>8, <2>1, NothingMoved
<1>10. ASSUME NEW p \in Pods, NEW answered \in BOOLEAN, CompleteCommits(p, answered) PROVE Undisturbed'
  <2>1. /\ report.by = p /\ task[p] \in Keys /\ Outstanding(task[p]) /\ Authorized(p)
        /\ result[p] \in {"success", "failed"} /\ report.row \in Rows
        /\ report.row.state # "none" => report.row.desired \in Charts
        /\ Completed(report.row, task[p]) /\ Answer(p, answered)
        /\ result[p] = "failed" => JobFailed(report.row, task[p])
        /\ result[p] = "success" => Advances(report.row, task[p])
        /\ UNCHANGED <<runtime, held, enqueuing, deployed>>
    BY <1>10, CommitFacts
  <2>2. Stale(report.row) \subseteq causes' /\ causes' = {}
    BY <2>1, CompletedFacts DEF Clean
  <2>3. report.row = Row
    BY <2>2 DEF Stale
  <2>4. PodsKept
    BY <1>8, <2>1
  <2>5. task[p] # NoJob /\ result[p] # "none"
    BY <2>1, KeyTypes
  <2> QED BY <2>1, <2>2, <2>3, <2>4, <2>5, CompletionUndisturbed
<1>11. ASSUME NEW p \in Pods, PodStops(p) PROVE Undisturbed'
  <2>1. /\ held' = [held EXCEPT ![p] = 0] /\ task' = [task EXCEPT ![p] = NoJob]
        /\ chartOf' = [chartOf EXCEPT ![p] = NoChart] /\ result' = [result EXCEPT ![p] = "none"]
        /\ UNCHANGED <<state, desired, status, spec, runtime, enqueuing, deployed>>
    BY <1>11 DEF PodStops, installation, jobs
  <2>2. PodsKept
    BY <2>1 DEF PodsKept, Authorized, TypeOK
  <2> QED BY <2>1, <2>2, NothingMoved
<1>12. ASSUME \/ \E i \in Retries : RetryReads(i)
              \/ \E p \in Pods : CompleteReads(p)
              \/ \E t \in Tokens : BootstrapExpires(t)
              \/ OperatorHolds \/ UNCHANGED vars
       PROVE  Undisturbed'
  <2>1. UNCHANGED <<state, desired, status, spec, enqueuing, deployed, task, chartOf, result, held,
                    runtime>>
    BY <1>12 DEF RetryReads, CompleteReads, BootstrapExpires, OperatorHolds, vars, installation,
       tokens, jobs, pods
  <2>2. PodsKept
    BY <2>1 DEF PodsKept, Authorized
  <2> QED BY <2>1, <2>2, NothingMoved
<1> QED BY <1>1, <1>2, <1>3, <1>4, <1>5, <1>6, <1>7, <1>9, <1>10, <1>11, <1>12
        DEF Next, Agent, Operator

-----------------------------------------------------------------------------
(***************************************************************************)
(* The theorems                                                            *)
(***************************************************************************)

LEMMA InitIInv == Init => IInv
<1>1. Init => Installed
  BY DEF Init, Installed, Created, RequestsKnow, Known, Called, Silent, NoRow
<1> QED BY <1>1, InitTypeOK, InitCredentials, InitReporting, InitPipeline DEF IInv

LEMMA NextIInv == IInv /\ [Next]_vars => IInv'
BY NextTypeOK, NextInstalled, NextCredentials, NextReporting, NextPipeline DEF IInv

\* ... and while nothing disturbs it, the chart that is desired is applied.
DInv == IInv /\ Holders /\ (Clean => Undisturbed)

LEMMA InitDInv == Init => Holders /\ (Clean => Undisturbed)
<1> SUFFICES ASSUME Init PROVE Holders /\ Undisturbed
  OBVIOUS
<1> USE DEF Init
<1>1. Holders
  BY DEF Holders
<1>2. \A k \in Keys : ~Outstanding(k)
  BY DEF Outstanding
<1>3. OneJob /\ OneHolder /\ OnDesired
  BY <1>2 DEF OneJob, OneHolder, OnDesired
<1> QED BY <1>1, <1>3 DEF Undisturbed

LEMMA NextDInv == DInv /\ [Next]_vars => DInv'
<1> SUFFICES ASSUME DInv, [Next]_vars PROVE DInv'
  OBVIOUS
<1>1. IInv' /\ Holders'
  BY NextIInv, NextHolders DEF DInv, IInv
<1>2. ASSUME Clean' PROVE Undisturbed'
  <2>1. Clean
    BY <1>2, CleanBefore
  <2> QED BY <1>2, <2>1, NextUndisturbed DEF DInv, IInv
<1> QED BY <1>1, <1>2 DEF DInv

\* Every row, token, pod and request stays well typed; retries and faults stay within
\* their bounds.
THEOREM AgentTypeCorrect == Spec => []TypeOK
<1>1. IInv => TypeOK
  BY DEF IInv
<1> QED BY <1>1, InitIInv, NextIInv, PTL DEF Spec

\* However pods race and calls of :issue-agent interleave with everything else, one
\* runtime token is valid, and only the token minted last can register unless two calls
\* were both between the revocation and the token (register, issue_agent).
THEOREM OneCredentialAlways == Spec => []OneCredential
<1>1. IInv => OneCredential
  BY DEF IInv
<1> QED BY <1>1, InitIInv, NextIInv, PTL DEF Spec

\* No crash, lost answer, reclaimed or doubly executed job takes the next job from an
\* installation; only the five recorded events do (complete_job, retry_install,
\* issue_agent).
THEOREM OnlyKnownWedges == Spec => []WedgesAreKnown
<1>1. IInv => WedgesAreKnown
  BY DEF IInv, Pipeline, WedgesAreKnown, NoWedge, AwaitedIn
<1> QED BY <1>1, InitIInv, NextIInv, PTL DEF Spec

\* A degraded installation has a failed job to retry, unless a request has committed on
\* a row that was no longer the one it had read (complete_job, retry_install).
THEOREM DegradedIsRecoverable == Spec => []Recoverable
<1>1. IInv => Recoverable
  BY DEF IInv
<1> QED BY <1>1, InitIInv, NextIInv, PTL DEF Spec

\* The tenant says active or degraded when its installation does, whatever a completion
\* has read before it commits (_project_installation_state_to_tenant).
THEOREM TenantRowFollows == Spec => []TenantFollows
<1>1. IInv => TenantFollows
  BY DEF IInv
<1> QED BY <1>1, InitIInv, NextIInv, PTL DEF Spec

\* An active installation runs the chart that is desired, whatever registers, fails,
\* dies or loses an answer, as long as no job was taken back from a pod, no failed jobs
\* were retried together, no request committed on a row that had moved since it was read
\* and the pipeline has not lost its next job (complete_job, issue_agent, retry_install).
THEOREM SettledChartIsDeployed == Spec => []SettledIsDeployed
<1>1. Init => DInv
  BY InitIInv, InitDInv DEF DInv
<1>2. DInv => SettledIsDeployed
  BY DEF DInv, Undisturbed, OnDesired, Clean, SettledIsDeployed
<1> QED BY <1>1, <1>2, NextDInv, PTL DEF Spec
=============================================================================
