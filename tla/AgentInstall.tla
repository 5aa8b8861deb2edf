---------------------------- MODULE AgentInstall ----------------------------
(***************************************************************************)
(* The L2 agent of one tenant and the control plane that drives it:        *)
(*                                                                         *)
(*   - an operator issues a bootstrap token, moves the desired chart and   *)
(*     retries a failed installation (core/api/tenants.py);                *)
(*   - an agent pod registers with the token, claims the jobs of its       *)
(*     installation and completes them; the completion of a job advances   *)
(*     the installation and queues the next job (core/agents/api.py).      *)
(*                                                                         *)
(* Nobody locks the row of the installation.  issue_agent, retry_install   *)
(* and complete_job read it, build specs and commit later: each of them is *)
(* an action that takes a snapshot of the row and one that commits with    *)
(* it.  The calls of one runtime token are serialised by the row of the    *)
(* token (_resolve_runtime writes last_used_at), and a registration waits  *)
(* for that row when it revokes the token.  A request that dies before it  *)
(* commits leaves nothing behind, as if it had not read.                   *)
(*                                                                         *)
(* The pod, Helm and the cluster are external: a pod holds its tokens in   *)
(* memory, may die, be slow or lose an answer, and runs one job at a time. *)
(***************************************************************************)
EXTENDS Naturals, FiniteSets, Sequences

CONSTANTS
    Charts,      \* versions of the soctalk-tenant chart
    Pods,        \* agent pods
    NoChart,     \* nothing is installed
    NoJob,       \* the pod is idle
    NoPod,       \* no completion is under way
    MaxIssues,   \* bound: calls of :issue-agent
    MaxRetries,  \* bound: calls of :retry-install
    MaxFaults    \* bound: dead pods, lost answers, a control plane that dies

ApplyKinds == {"install_helm_release", "upgrade_helm_release"}
WaitKinds == {"wait_after_install", "wait_after_upgrade"}

\* The idempotency keys of the jobs.
Preflight == [kind |-> "preflight", chart |-> NoChart]
Keys == {Preflight} \cup [kind : ApplyKinds \cup WaitKinds, chart : Charts]
Tokens == 1..MaxIssues
Retries == 1..MaxRetries

ASSUME ChartsAssumption == NoChart \notin Charts
ASSUME JobAssumption == NoJob \notin Keys
ASSUME PodAssumption == NoPod \notin Pods
ASSUME BoundsAssumption == MaxIssues \in Nat /\ MaxRetries \in Nat /\ MaxFaults \in Nat

VARIABLES
    state,      \* tenant_installations.state, "none" before the row exists
    desired,    \* desired_chart_version
    action,     \* desired_action
    issue,      \* the calls of :issue-agent, by the token they mint: how far, chart, row read
    retry,      \* the calls of :retry-install: how far, row and jobs read
    report,     \* the completion under way: by which pod, row and tenant read
    boot,       \* bootstrap tokens
    runtime,    \* runtime tokens that are not revoked, by the token they were minted for
    rows,       \* the rows of agent_jobs by creation
    status,     \* agent_jobs.status, "absent" while there is no row
    spec,       \* the chart in agent_jobs.spec
    enqueuing,  \* a registration has committed and has not queued the preflight
    tenant,     \* tenants.state; "held": suspended, decommissioning, archived or purged
    held,       \* the runtime token of a pod, 0: none
    task,       \* the job a pod has claimed
    chartOf,    \* the chart in the spec it was given
    result,     \* the outcome it has to report
    deployed,   \* the chart in the cluster of the tenant
    causes,     \* history: races, and events after which the pipeline may have no job
    overlaps,   \* history: a job was taken back, old failed jobs were retried, issues overlapped
    faults

installation == <<state, desired, action>>
requests == <<issue, retry, report>>
tokens == <<boot, runtime, held>>
jobs == <<rows, status, spec>>
pods == <<task, chartOf, result>>
history == <<causes, overlaps>>
vars == <<installation, requests, tokens, jobs, enqueuing, tenant, pods, deployed, history, faults>>

States == {"none", "pending", "agent_connected", "provisioning", "upgrading", "active", "degraded"}
Actions == {"none", "install", "upgrade"}
TenantStates == {"pending", "active", "degraded", "held"}
JobStatus == {"absent", "pending", "in_flight", "succeeded", "failed"}
Causes == {"enqueue_lost", "preflight_retried", "key_reused", "install_resumed_as_upgrade",
           "stale_read"}
Overlaps == {"job_taken_back", "old_job_retried", "issues_overlapped"}

\* What a request reads of the installation.
Row == [state |-> state, desired |-> desired, action |-> action]
Rows == [state : States, desired : Charts \cup {NoChart}, action : Actions]
NoRow == [state |-> "none", desired |-> NoChart, action |-> "none"]

TypeOK ==
    /\ state \in States
    /\ desired \in Charts \cup {NoChart} /\ action \in Actions
    /\ issue \in [Tokens -> [at : {"none", "read", "moved", "revoked", "done"},
                             chart : Charts \cup {NoChart}, row : Rows]]
    /\ retry \in [Retries -> [at : {"none", "read", "done"}, row : Rows]]
    /\ report \in [by : Pods \cup {NoPod}, row : Rows, tenant : TenantStates]
    /\ boot \in [Tokens -> {"unminted", "live", "consumed", "dead"}]
    /\ runtime \subseteq Tokens
    /\ rows \in Seq(Keys)
    /\ status \in [Keys -> JobStatus]
    /\ spec \in [Keys -> Charts \cup {NoChart}]
    /\ enqueuing \in BOOLEAN
    /\ tenant \in TenantStates
    /\ held \in [Pods -> Tokens \cup {0}]
    /\ task \in [Pods -> Keys \cup {NoJob}]
    /\ chartOf \in [Pods -> Charts \cup {NoChart}]
    /\ result \in [Pods -> {"none", "success", "failed"}]
    /\ deployed \in Charts \cup {NoChart}
    /\ causes \subseteq Causes /\ overlaps \subseteq Overlaps
    /\ faults \in 0..MaxFaults

Called == [at |-> "none", chart |-> NoChart, row |-> NoRow]
Silent == [by |-> NoPod, row |-> NoRow, tenant |-> "pending"]

\* There is no installation yet, or one whose first token has expired.
Init ==
    /\ \/ state = "none" /\ desired = NoChart /\ action = "none"
       \/ state = "pending" /\ desired \in Charts /\ action = "install"
    /\ issue = [t \in Tokens |-> Called]
    /\ retry = [i \in Retries |-> [at |-> "none", row |-> NoRow]]
    /\ report = Silent
    /\ boot = [t \in Tokens |-> "unminted"] /\ runtime = {}
    /\ rows = <<>>
    /\ status = [k \in Keys |-> "absent"] /\ spec = [k \in Keys |-> NoChart]
    /\ enqueuing = FALSE /\ tenant = "pending"
    /\ held = [p \in Pods |-> 0]
    /\ task = [p \in Pods |-> NoJob]
    /\ chartOf = [p \in Pods |-> NoChart]
    /\ result = [p \in Pods |-> "none"]
    /\ deployed = NoChart
    /\ causes = {} /\ overlaps = {}
    /\ faults = 0

\* A column that a request writes: a value it has read is not written again.
Written(new, read, current) == IF new = read THEN current ELSE new

\* A request commits on a row that is not the one it has read.
Stale(read) == IF read = Row THEN {} ELSE {"stale_read"}

Outstanding(k) == status[k] \in {"pending", "in_flight"}
-----------------------------------------------------------------------------
(* The queue of the installation. *)

\* _enqueue_agent_job, after the rows have become st and seen is recorded: a key
\* that exists is left alone.
EnqueueAgentJob(st, k, c, seen) ==
    IF st[k] = "absent"
    THEN /\ rows' = Append(rows, k)
         /\ status' = [st EXCEPT ![k] = "pending"]
         /\ spec' = [spec EXCEPT ![k] = c]
         /\ causes' = causes \cup seen
    ELSE /\ status' = st
         /\ causes' = causes \cup seen \cup {"key_reused"}
         /\ UNCHANGED <<rows, spec>>

\* The order of claim_job: the oldest row that is pending in st.
IsOldest(st, k) ==
    \E i \in 1..Len(rows) :
        /\ rows[i] = k /\ st[k] = "pending"
        /\ \A j \in 1..(i - 1) : st[rows[j]] # "pending"
-----------------------------------------------------------------------------
(* The operator. *)

\* issue_agent reads the installation.  A chart that moves while a job applies
\* another one is rejected with 409.
Settled == {"active", "degraded"}

\* Mutant: no 409 while the chart is applied.
IssueReads_NoReject(t, c) ==
    /\ issue[t].at = "none" /\ \A u \in 1..(t - 1) : issue[u].at # "none"
    /\ issue' = [issue EXCEPT ![t] = [at |-> "read", chart |-> c, row |-> Row]]
    /\ UNCHANGED <<installation, retry, report, tokens, jobs, enqueuing, tenant, pods, deployed,
                   history, faults>>

IssueReads(t, c) ==
    /\ issue[t].at = "none" /\ \A u \in 1..(t - 1) : issue[u].at # "none"
    /\ c # desired => state \notin {"provisioning", "upgrading"}
    /\ issue' = [issue EXCEPT ![t] = [at |-> "read", chart |-> c, row |-> Row]]
    /\ UNCHANGED <<installation, retry, report, tokens, jobs, enqueuing, tenant, pods, deployed,
                   history, faults>>

\* The first issue creates the installation with its token, in one commit; one
\* that finds the row created by then fails on the unique index.
IssueCreates(t) ==
    LET i == issue[t] IN
    /\ i.at = "read" /\ i.row.state = "none" /\ state = "none"
    /\ state' = "pending" /\ desired' = i.chart /\ action' = "install"
    /\ boot' = [boot EXCEPT ![t] = "live"]
    /\ issue' = [issue EXCEPT ![t] = [Called EXCEPT !.at = "done"]]
    /\ UNCHANGED <<retry, report, runtime, held, jobs, enqueuing, tenant, pods, deployed,
                   history, faults>>

Upgrade(c) == [kind |-> "upgrade_helm_release", chart |-> c]

\* A chart that moves on a settled installation dispatches the upgrade, with a
\* commit of its own when the job is queued.
Dispatches(i) == i.chart # i.row.desired /\ i.row.state \in Settled

IssueDispatches(t) ==
    LET i == issue[t] IN
    /\ i.at = "read" /\ Dispatches(i) /\ status[Upgrade(i.chart)] = "absent"
    /\ state' = "upgrading" /\ desired' = i.chart
    /\ action' = Written("upgrade", i.row.action, action)
    /\ EnqueueAgentJob(status, Upgrade(i.chart), i.chart, Stale(i.row))
    /\ issue' = [issue EXCEPT ![t] = [at |-> "moved", chart |-> i.chart,
                                       row |-> [i.row EXCEPT !.desired = i.chart]]]
    /\ UNCHANGED <<retry, report, tokens, enqueuing, tenant, pods, deployed, overlaps,
                   faults>>

\* The tokens it finds are revoked.  (They stay locked until the commit: another
\* call finds nothing to revoke, a registration waits and fails.)
IssueRevokes(t) ==
    LET i == issue[t] IN
    /\ i.at \in {"read", "moved"} /\ i.row.state # "none"
    /\ Dispatches(i) => status[Upgrade(i.chart)] # "absent"
    /\ boot' = [u \in Tokens |-> IF boot[u] = "live" THEN "dead" ELSE boot[u]]
    /\ issue' = [issue EXCEPT ![t].at = "revoked"]
    /\ overlaps' = overlaps \cup {o \in {"issues_overlapped"} :
                                     \E u \in Tokens : issue[u].at = "revoked"}
    /\ UNCHANGED <<installation, retry, report, runtime, held, jobs, enqueuing, tenant, pods,
                   deployed, causes, faults>>

\* What else is in the commit of the token: nothing, ...
Reissue(i) ==
    /\ i.chart = i.row.desired
    /\ UNCHANGED <<state, desired, action, causes>>

\* ... a chart that moves before the install spec is built, metadata only, ...
MoveEarly(i) ==
    /\ i.chart # i.row.desired /\ i.row.state \notin Settled
    /\ desired' = i.chart /\ action' = Written("upgrade", i.row.action, action)
    /\ causes' = causes \cup Stale(i.row)
    /\ UNCHANGED state

\* ... or an upgrade whose key was used before: no job is queued.
UpgradeAgain(i) ==
    /\ Dispatches(i)
    /\ state' = "upgrading" /\ desired' = i.chart
    /\ action' = Written("upgrade", i.row.action, action)
    /\ causes' = causes \cup Stale(i.row) \cup {"key_reused"}

IssueMints(t) ==
    /\ issue[t].at = "revoked"
    /\ Reissue(issue[t]) \/ MoveEarly(issue[t]) \/ UpgradeAgain(issue[t])
    /\ boot' = [boot EXCEPT ![t] = "live"]
    /\ issue' = [issue EXCEPT ![t] = [Called EXCEPT !.at = "done"]]
    /\ UNCHANGED <<retry, report, runtime, held, jobs, enqueuing, tenant, pods, deployed,
                   overlaps, faults>>

Resettable == {k \in Keys : status[k] \in {"in_flight", "failed"}}

\* retry_install reads the installation.
RetryReads(i) ==
    /\ state # "none" /\ retry[i].at = "none" /\ \A j \in 1..(i - 1) : retry[j].at # "none"
    /\ retry' = [retry EXCEPT ![i] = [at |-> "read", row |-> Row]]
    /\ UNCHANGED <<installation, issue, report, tokens, jobs, enqueuing, tenant, pods, deployed,
                   history, faults>>

\* Mutant: an upgrade that was retried resumes as an install.
ResumeState_Install(r, retried) == "provisioning"

\* The state in which the pipeline resumes the jobs in retried.
ResumeState(r, retried) ==
    IF r.action = "upgrade" \/ \E k \in retried : k.kind = "upgrade_helm_release"
    THEN "upgrading" ELSE "provisioning"

\* It takes back what is in flight, of whatever age, puts failed jobs back in the
\* queue and rebuilds their specs, where that does not fail (broken); only an
\* installation that it has read as degraded changes its state.  An update
\* waits for a completion that has written its job; no other job is outstanding
\* between the updates and the commit, unless one was taken back before.
RetryCommits(i, broken) ==
    LET r == retry[i].row
        reclaimed == {k \in Keys : status[k] = "in_flight"}
        retried == {k \in Keys : status[k] = "failed"}
        reset == reclaimed \cup retried
        resumes == r.state = "degraded" /\ retried # {}
    IN
    /\ retry[i].at = "read"
    /\ broken \subseteq reset \ {Preflight}
    /\ report.by # NoPod => task[report.by] \notin reclaimed
    /\ status' = [k \in Keys |-> IF k \in reset THEN "pending" ELSE status[k]]
    /\ spec' = [k \in Keys |->
                   IF k \in reset \ (broken \cup {Preflight}) THEN r.desired ELSE spec[k]]
    /\ state' = IF resumes THEN ResumeState(r, retried) ELSE state
    /\ retry' = [retry EXCEPT ![i] = [at |-> "done", row |-> NoRow]]
    /\ causes' = causes
           \cup {c \in Stale(r) : reset # {}}
           \cup {c \in {"preflight_retried"} : Preflight \in retried}
           \cup {c \in {"install_resumed_as_upgrade"} :
                    /\ resumes /\ ResumeState(r, retried) = "upgrading"
                    /\ \A k \in retried : k.kind \in {"preflight", "install_helm_release"}}
    /\ overlaps' = overlaps
           \cup {o \in {"job_taken_back"} : reclaimed # {}}
           \cup {o \in {"old_job_retried"} :
                    \/ r.state # "degraded" /\ retried # {}
                    \/ \E j, k \in retried : j # k}
    /\ UNCHANGED <<desired, action, issue, report, tokens, rows, enqueuing, tenant, pods,
                   deployed, faults>>
-----------------------------------------------------------------------------
(* The agent protocol. *)

BootstrapExpires(t) ==
    /\ boot[t] = "live"
    /\ boot' = [boot EXCEPT ![t] = "dead"]
    /\ UNCHANGED <<installation, requests, runtime, held, jobs, enqueuing, tenant, pods, deployed,
                   history, faults>>

\* The row of the runtime token is not locked by a completion.
TokenFree == report.by = NoPod

\* register: consume the token, connect, revoke the runtime tokens and mint one.
Connect ==
    IF state = "pending"
    THEN state' = "agent_connected" /\ enqueuing' = TRUE
    ELSE UNCHANGED <<state, enqueuing>>

\* Mutant: the runtime tokens of earlier registrations stay valid.
Register_KeepsOld(p, t, answered) ==
    /\ boot[t] = "live" /\ held[p] = 0 /\ TokenFree
    /\ boot' = [boot EXCEPT ![t] = "consumed"]
    /\ Connect
    /\ runtime' = runtime \cup {t}
    /\ answered /\ held' = [held EXCEPT ![p] = t]
    /\ UNCHANGED <<desired, action, requests, jobs, tenant, pods, deployed, history, faults>>

Register(p, t, answered) ==
    /\ boot[t] = "live" /\ held[p] = 0 /\ TokenFree
    /\ boot' = [boot EXCEPT ![t] = "consumed"]
    /\ Connect
    /\ runtime' = {t}
    /\ \/ answered /\ held' = [held EXCEPT ![p] = t] /\ UNCHANGED faults
       \/ ~answered /\ faults < MaxFaults /\ faults' = faults + 1 /\ UNCHANGED held
    /\ UNCHANGED <<desired, action, requests, jobs, tenant, pods, deployed, history>>

\* ... then queue the preflight, in a transaction of its own.
QueuePreflight ==
    /\ enqueuing
    /\ enqueuing' = FALSE
    /\ EnqueueAgentJob(status, Preflight, NoChart, {})
    /\ UNCHANGED <<installation, requests, tokens, tenant, pods, deployed, overlaps, faults>>

\* The control plane dies between the two.
RegisterDies ==
    /\ enqueuing /\ faults < MaxFaults
    /\ enqueuing' = FALSE /\ faults' = faults + 1
    /\ causes' = causes \cup {"enqueue_lost"}
    /\ UNCHANGED <<installation, requests, tokens, jobs, tenant, pods, deployed, overlaps>>

Authorized(p) == held[p] \in runtime

\* Mutant: the claim that timed out is counted and not reset.
Reclaim_Nothing(old) == status

\* _reclaim_stale_for_installation: old are the jobs claimed too long ago.
Reclaim(old) == [k \in Keys |-> IF k \in old THEN "pending" ELSE status[k]]

ClaimJob(p, k, old, answered) ==
    /\ Authorized(p) /\ TokenFree /\ task[p] = NoJob
    /\ \A j \in old : status[j] = "in_flight"
    /\ IsOldest(Reclaim(old), k)
    /\ status' = [Reclaim(old) EXCEPT ![k] = "in_flight"]
    /\ overlaps' = overlaps \cup {o \in {"job_taken_back"} : old # {}}
    /\ \/ /\ answered
          /\ task' = [task EXCEPT ![p] = k]
          /\ chartOf' = [chartOf EXCEPT ![p] = spec[k]]
          /\ UNCHANGED faults
       \/ /\ ~answered /\ faults < MaxFaults /\ faults' = faults + 1
          /\ UNCHANGED <<task, chartOf>>
    /\ UNCHANGED <<installation, requests, tokens, rows, spec, enqueuing, tenant, result, deployed,
                   causes>>

\* External: the pod carries out its job.  Helm leaves the chart it was given;
\* a probe succeeds when the stack of some chart answers.
Execute(p, r) ==
    /\ task[p] # NoJob /\ result[p] = "none"
    /\ result' = [result EXCEPT ![p] = r]
    /\ r = "success" /\ task[p].kind \in WaitKinds => deployed # NoChart
    /\ deployed' = IF r = "success" /\ task[p].kind \in ApplyKinds THEN chartOf[p] ELSE deployed
    /\ UNCHANGED <<installation, requests, tokens, jobs, enqueuing, tenant, task, chartOf, history,
                   faults>>

\* The pod gets its answer, or does not and reports again.
Answer(p, answered) ==
    \/ /\ answered
       /\ task' = [task EXCEPT ![p] = NoJob]
       /\ chartOf' = [chartOf EXCEPT ![p] = NoChart]
       /\ result' = [result EXCEPT ![p] = "none"]
       /\ UNCHANGED faults
    \/ ~answered /\ faults < MaxFaults /\ faults' = faults + 1 /\ UNCHANGED pods

\* A completion that was recorded before.
Duplicate(p, answered) ==
    /\ Authorized(p) /\ TokenFree
    /\ task[p] # NoJob /\ result[p] # "none" /\ ~Outstanding(task[p])
    /\ Answer(p, answered)
    /\ UNCHANGED <<installation, requests, tokens, jobs, enqueuing, tenant, deployed, history>>

\* A new one reads the installation, builds the spec of the next job and commits.
CompleteReads(p) ==
    /\ Authorized(p) /\ TokenFree
    /\ task[p] # NoJob /\ result[p] # "none" /\ Outstanding(task[p])
    /\ report' = [by |-> p, row |-> Row, tenant |-> tenant]
    /\ UNCHANGED <<installation, issue, retry, tokens, jobs, enqueuing, tenant, pods, deployed,
                   history, faults>>

\* _project_installation_state_to_tenant reads the tenant at some time before the
\* commit: an operator's decision in between is overwritten.
Project(target) ==
    \E seen \in {report.tenant, tenant} :
        tenant' = IF seen \in {"held", target} THEN tenant ELSE target

\* The next job of the pipeline, from the row r that was read.
JobFailed(r, k) ==
    /\ state' = Written("degraded", r.state, state)
    /\ Project("degraded")
    /\ status' = [status EXCEPT ![k] = "failed"]
    /\ causes' = causes \cup Stale(r)
    /\ UNCHANGED <<desired, action, rows, spec>>

PreflightDone(r, k) ==
    /\ k = Preflight /\ r.state = "agent_connected"
    /\ state' = "provisioning"
    /\ EnqueueAgentJob([status EXCEPT ![k] = "succeeded"],
                       [kind |-> "install_helm_release", chart |-> r.desired], r.desired, Stale(r))
    /\ UNCHANGED <<desired, action, tenant>>

ApplyState == [install_helm_release |-> "provisioning", upgrade_helm_release |-> "upgrading"]
WaitFor == [install_helm_release |-> "wait_after_install",
            upgrade_helm_release |-> "wait_after_upgrade"]

ApplyDone(r, k) ==
    /\ k.kind \in ApplyKinds /\ r.state = ApplyState[k.kind]
    /\ EnqueueAgentJob([status EXCEPT ![k] = "succeeded"],
                       [kind |-> WaitFor[k.kind], chart |-> r.desired], r.desired, Stale(r))
    /\ UNCHANGED <<installation, tenant>>

WaitDone(r, k) ==
    /\ k.kind \in WaitKinds /\ r.state \in {"provisioning", "upgrading"}
    /\ state' = "active" /\ action' = Written("none", r.action, action)
    /\ Project("active")
    /\ status' = [status EXCEPT ![k] = "succeeded"]
    /\ causes' = causes \cup Stale(r)
    /\ UNCHANGED <<desired, rows, spec>>

\* A success that the state of the installation does not wait for.
NothingToAdvance(r, k) ==
    /\ ~(k = Preflight /\ r.state = "agent_connected")
    /\ ~(k.kind \in ApplyKinds /\ r.state = ApplyState[k.kind])
    /\ ~(k.kind \in WaitKinds /\ r.state \in {"provisioning", "upgrading"})
    /\ status' = [status EXCEPT ![k] = "succeeded"]
    /\ causes' = causes \cup Stale(r)
    /\ UNCHANGED <<installation, tenant, rows, spec>>

Advances(r, k) == PreflightDone(r, k) \/ ApplyDone(r, k) \/ WaitDone(r, k) \/ NothingToAdvance(r, k)

CompleteCommits(p, answered) ==
    /\ report.by = p
    /\ IF result[p] = "failed" THEN JobFailed(report.row, task[p]) ELSE Advances(report.row, task[p])
    /\ report' = Silent
    /\ Answer(p, answered)
    /\ UNCHANGED <<issue, retry, tokens, enqueuing, deployed, overlaps>>

\* The pod dies, or is told 401, and waits for a bootstrap token.  (A completion of
\* a dead pod goes on; nothing sees the pod before it has committed.)
PodStops(p) ==
    /\ held[p] # 0 /\ report.by # p
    /\ \/ ~Authorized(p) /\ UNCHANGED faults
       \/ Authorized(p) /\ faults < MaxFaults /\ faults' = faults + 1
    /\ held' = [held EXCEPT ![p] = 0]
    /\ task' = [task EXCEPT ![p] = NoJob]
    /\ chartOf' = [chartOf EXCEPT ![p] = NoChart]
    /\ result' = [result EXCEPT ![p] = "none"]
    /\ UNCHANGED <<installation, requests, boot, runtime, jobs, enqueuing, tenant, deployed, history>>

\* An operator suspends or decommissions the tenant.
OperatorHolds ==
    /\ tenant # "held" /\ tenant' = "held"
    /\ UNCHANGED <<installation, requests, tokens, jobs, enqueuing, pods, deployed, history, faults>>
-----------------------------------------------------------------------------
InFlight == SUBSET {k \in Keys : status[k] = "in_flight"}

Agent(p) ==
    \/ \E k \in Keys, old \in InFlight : ClaimJob(p, k, old, TRUE)
    \/ \E r \in {"success", "failed"} : Execute(p, r)
    \/ Duplicate(p, TRUE) \/ CompleteReads(p) \/ CompleteCommits(p, TRUE)

Operator ==
    \/ \E t \in Tokens, c \in Charts : IssueReads(t, c)
    \/ \E t \in Tokens : IssueCreates(t) \/ IssueDispatches(t) \/ IssueRevokes(t) \/ IssueMints(t)
    \/ \E i \in Retries : RetryReads(i)
    \/ \E i \in Retries, broken \in SUBSET Resettable : RetryCommits(i, broken)
    \/ OperatorHolds

Next ==
    \/ Operator
    \/ \E t \in Tokens : BootstrapExpires(t)
    \/ \E p \in Pods, t \in Tokens, answered \in BOOLEAN : Register(p, t, answered)
    \/ QueuePreflight
    \/ RegisterDies
    \/ \E p \in Pods : Agent(p)
    \/ \E p \in Pods, k \in Keys, old \in InFlight : ClaimJob(p, k, old, FALSE)
    \/ \E p \in Pods : \/ Duplicate(p, FALSE) \/ CompleteCommits(p, FALSE)
                       \/ PodStops(p)

Spec == Init /\ [][Next]_vars

\* The request that registered goes on; a pod with a valid token works on the
\* queue, in which a job that nobody finishes gets old; a pod whose token was
\* revoked notices.
Fairness ==
    /\ WF_vars(QueuePreflight)
    /\ \A p \in Pods : WF_vars(Agent(p)) /\ WF_vars(PodStops(p) /\ ~Authorized(p))

FairSpec == Spec /\ Fairness
-----------------------------------------------------------------------------
\* A revoked or replaced credential is dead: at any time at most one runtime token
\* is valid, and at most one bootstrap token can still be used to register, unless
\* two calls of :issue-agent were both between the revocation and the token
\* (register, issue_agent: "a lost token never remains valid").
OneCredential ==
    /\ \A t, u \in runtime : t = u
    /\ \A t \in runtime : boot[t] = "consumed"
    /\ "issues_overlapped" \notin overlaps =>
          \A t, u \in Tokens : boot[t] = "live" /\ boot[u] = "live" => t = u

\* The same without the exception (docstring of issue_agent).
LostTokenIsDead == \A t, u \in Tokens : boot[t] = "live" /\ boot[u] = "live" => t = u

\* The installation is on its way and nothing will move it: no job is
\* outstanding, and neither a token issue (409 while provisioning or upgrading)
\* nor a retry (nothing failed) queues one.
Moving == state \in {"agent_connected", "provisioning", "upgrading"}
NoWedge == Moving => enqueuing \/ \E k \in Keys : Outstanding(k)

\* The pipeline loses its next job in five ways only: the control plane dies
\* between connecting the agent and queueing the preflight, a failed preflight
\* is retried, an idempotency key comes back, a failed first install is resumed
\* as an upgrade, a request commits on an installation that has moved since it was
\* read.  Crashes, lost answers, reclaimed and doubly executed jobs never do it.
WedgesAreKnown == causes = {} => NoWedge

\* A degraded installation has a failed job, so :retry-install can resume it, unless
\* a request has committed on an installation that had moved (a retry that has read it
\* before the completion that degrades it takes the failed job back and leaves the
\* state).
Recoverable ==
    "stale_read" \notin causes /\ state = "degraded" => \E k \in Keys : status[k] = "failed"

\* An installation settles on the chart that is deployed (wait_for_ready copies
\* the desired version into reported_chart_version), unless a job was taken back
\* from a pod that was still at it, a retry brought back failed jobs besides the
\* one the installation waits for, a request committed on an installation that had
\* moved since it was read, or the pipeline has lost its next job.
SettledIsDeployed == state = "active" /\ overlaps = {} /\ causes = {} => deployed = desired

\* The comments of issue_agent and retry_install without the exception for stale
\* reads: a chart that moves early has "nothing to desync", and a degraded
\* installation can be retried.
OnlyStale == overlaps = {} /\ causes \subseteq {"stale_read"}
NothingToDesync == state = "active" /\ OnlyStale => deployed = desired
AlwaysRecoverable == state = "degraded" => \E k \in Keys : status[k] = "failed"

\* The tenant row follows the installation until an operator holds the tenant.
TenantFollows ==
    tenant # "held" => /\ state = "active" => tenant = "active"
                       /\ state = "degraded" => tenant = "degraded"

\* With an agent that holds the valid token an installation comes to rest,
\* active or degraded, unless its pipeline has lost its next job.
Settles ==
    Moving ~> \/ ~Moving \/ causes # {}
              \/ ~\E p \in Pods : Authorized(p)
=============================================================================
