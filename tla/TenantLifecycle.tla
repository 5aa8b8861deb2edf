--------------------------- MODULE TenantLifecycle ---------------------------
(***************************************************************************)
(* The life of one tenant of the MSSP control plane, from onboarding to    *)
(* archive:                                                                *)
(*                                                                         *)
(*   - operators suspend, resume, retry, reconcile and decommission it and *)
(*     edit its configuration (core/api/tenants.py, llm_config.py, ir.py); *)
(*   - provisioning workers claim the jobs of its queue, run them against  *)
(*     the cluster and record the outcome (provisioning/worker.py,         *)
(*     controller.py), and compare idle tenants with the cluster;          *)
(*   - the agent of an L2 tenant reports the state of its own cluster      *)
(*     (agents/api.py; the module AgentInstall has its detail).            *)
(*                                                                         *)
(* A job reads the tenant once, works for minutes and writes the row it    *)
(* read.  Between the two only the row lock of a pending UPDATE protects   *)
(* the tenant: provision takes it when it leaves "pending" or "degraded",  *)
(* decommission when it has to enter "decommissioning", reconcile never.   *)
(* A commit is an action; helm, the API server and the pods are external,  *)
(* so every step may fail and every job may run into its timeout.          *)
(***************************************************************************)
EXTENDS Integers, FiniteSets, Sequences

CONSTANTS
    Workers,      \* provisioning workers
    MaxAttempts,  \* provisioning_jobs.max_attempts
    MaxRows,      \* bound: jobs of one kind
    MaxEdits,     \* bound: edits of the configuration
    MaxRetries,   \* bound: calls of :retry
    MaxFaults     \* bound: crashed and stalled workers, vanished namespaces

ASSUME BoundsAssumption ==
    /\ MaxAttempts \in Nat \ {0} /\ MaxRows \in Nat \ {0}
    /\ MaxEdits \in Nat /\ MaxRetries \in Nat /\ MaxFaults \in Nat

VARIABLES
    tenant,       \* tenants.state, as committed
    remote,       \* the tenant has an installation: an agent manages its cluster
    marker,       \* runtime.namespace_missing_since: "none", "fresh", or "old" after the grace
    rows,         \* provisioning_jobs by kind, in the order of creation
    worker,       \* what a worker is at and what it has loaded
    ns,           \* the namespace of the tenant exists on the MSSP cluster
    config,       \* version of integration_configs
    rendered,     \* the version the release was last rendered with
    edit,         \* a request that edits the configuration and what it has read
    report,       \* the completion of an agent job and the tenant it has read
    reported,     \* the last state the agent of an L2 tenant reported
    missed,       \* history: an edit may not have reached the release
    overwritten,  \* history: a job, sweep or report wrote over what it had not seen
    stalled,      \* history: a claim was taken back from a live worker
    retries, faults

queue == <<rows, retries>>
cluster == <<ns, rendered>>
history == <<missed, overwritten, stalled>>
requests == <<edit, report, reported>>
vars == <<tenant, remote, marker, queue, worker, cluster, config, requests, history, faults>>

Kinds == {"provision", "reconcile", "decommission"}
TenantStates == {"pending", "provisioning", "active", "degraded", "suspended",
                 "decommissioning", "archived"}
Phases == {"idle", "claimed", "blocked", "starting", "namespaced", "applied", "removed",
           "succeeded", "failed", "missing", "ready", "unready"}
Job == [status : {"pending", "in_flight", "succeeded", "failed"}, attempts : Nat]
Worker == [at : Phases, kind : Kinds, row : 0..MaxRows, seen : TenantStates,
           config : 0..MaxEdits, marker : {"none", "fresh", "old"}]

\* Three requests edit what a release is rendered from.
Edits == {"llm", "policy", "siem"}
Edit == [at : {"none", "saved", "read", "looked"}, by : Edits, seen : TenantStates,
         found : BOOLEAN]
Report == [at : {"none", "read"}, state : {"active", "degraded"}, seen : TenantStates]

NoEdit == [at |-> "none", by |-> "llm", seen |-> "pending", found |-> FALSE]
NoReport == [at |-> "none", state |-> "active", seen |-> "pending"]
Idle == [at |-> "idle", kind |-> "provision", row |-> 0, seen |-> "pending",
         config |-> 0, marker |-> "none"]

TypeOK ==
    /\ tenant \in TenantStates
    /\ remote \in BOOLEAN /\ ns \in BOOLEAN
    /\ missed \in BOOLEAN /\ overwritten \in BOOLEAN /\ stalled \in BOOLEAN
    /\ marker \in {"none", "fresh", "old"}
    /\ rows \in [Kinds -> Seq(Job)]
    /\ \A k \in Kinds : Len(rows[k]) <= MaxRows
    /\ worker \in [Workers -> Worker]
    /\ config \in 0..MaxEdits /\ rendered \in -1..MaxEdits
    /\ edit \in Edit /\ report \in Report
    /\ reported \in {"none", "active", "degraded"}
    /\ retries \in 0..MaxRetries /\ faults \in 0..MaxFaults

NewJob == [status |-> "pending", attempts |-> 0]

\* :onboard queues the first job, POST /tenants only creates the row.
Onboard == rows = [k \in Kinds |-> IF k = "provision" THEN <<NewJob>> ELSE <<>>]
CreateTenant == rows = [k \in Kinds |-> <<>>]

Init ==
    /\ tenant = "pending" /\ remote \in BOOLEAN /\ marker = "none"
    /\ Onboard \/ CreateTenant
    /\ worker = [x \in Workers |-> Idle]
    /\ ns = FALSE /\ config = 0 /\ rendered = -1
    /\ edit = NoEdit /\ report = NoReport /\ reported = "none"
    /\ missed = FALSE /\ overwritten = FALSE /\ stalled = FALSE
    /\ retries = 0 /\ faults = 0
-----------------------------------------------------------------------------
(* The queue. *)

Active(job) == job.status \in {"pending", "in_flight"}
HasActive(k) == \E i \in 1..Len(rows[k]) : Active(rows[k][i])
Busy == \E k \in Kinds : HasActive(k)

\* An insert with the check that the unique index of active jobs backs up.
Enqueue(k) ==
    IF HasActive(k)
    THEN UNCHANGED rows
    ELSE /\ Len(rows[k]) < MaxRows
         /\ rows' = [rows EXCEPT ![k] = Append(@, NewJob)]
-----------------------------------------------------------------------------
(* The row of the tenant. *)

\* The worker has an uncommitted UPDATE of the tenant.
HoldsRow(x) ==
    \/ /\ worker[x].kind = "provision" /\ worker[x].seen \in {"pending", "degraded"}
       /\ worker[x].at \in {"starting", "namespaced", "applied"}
    \/ /\ worker[x].kind = "decommission" /\ worker[x].seen # "decommissioning"
       /\ worker[x].at \in {"starting", "removed"}
RowFree == \A x \in Workers : ~HoldsRow(x)
RowFreeFor(x) == \A y \in Workers \ {x} : ~HoldsRow(y)

\* A write over a state that is not the one that was read.
Overwrites(seen) == overwritten' = (overwritten \/ tenant # seen)

\* The tenant becomes active without a render.
Activate ==
    /\ tenant' = "active"
    /\ missed' = (missed \/ rendered # config)
-----------------------------------------------------------------------------
(* Operators. *)

Suspend ==
    /\ tenant = "active" /\ RowFree
    /\ tenant' = "suspended"
    /\ UNCHANGED <<remote, marker, queue, worker, cluster, config, requests, history, faults>>

Resume ==
    /\ tenant \in {"suspended", "degraded", "provisioning"} /\ RowFree
    /\ Activate
    /\ UNCHANGED <<remote, marker, queue, worker, cluster, config, requests, overwritten,
                   stalled, faults>>

\* The tenant is decommissioning at once, a job does the work.
DecommissionTenant ==
    /\ tenant \in {"decommissioning", "archived"} \/ RowFree
    /\ tenant' = IF tenant \in {"decommissioning", "archived"} THEN tenant ELSE "decommissioning"
    /\ Enqueue("decommission")
    /\ UNCHANGED <<remote, marker, retries, worker, cluster, config, requests, missed, overwritten,
                   stalled, faults>>

\* The newest failed job is reopened with a new budget.
Reopen ==
    \E i \in 1..Len(rows["provision"]) :
        /\ rows["provision"][i].status = "failed"
        /\ \A j \in (i + 1)..Len(rows["provision"]) : rows["provision"][j].status # "failed"
        /\ rows' = [rows EXCEPT !["provision"][i] = NewJob]

RetryProvisioning ==
    /\ tenant = "degraded" /\ retries < MaxRetries
    /\ retries' = retries + 1
    /\ IF ~HasActive("provision") /\ \E i \in 1..Len(rows["provision"]) :
                                         rows["provision"][i].status = "failed"
       THEN Reopen
       ELSE Enqueue("provision")
    /\ UNCHANGED <<tenant, remote, marker, worker, cluster, config, requests, history, faults>>

ReconcileTenant ==
    /\ tenant = "active" /\ ~remote
    /\ Enqueue("reconcile")
    /\ UNCHANGED <<tenant, remote, marker, retries, worker, cluster, config, requests, history,
                   faults>>

\* A worker has loaded the configuration and its job is still in flight.
Loaded(x) ==
    /\ worker[x].kind \in {"provision", "reconcile"}
    /\ worker[x].at \in {"starting", "namespaced", "applied", "succeeded"}

\* Mutant: a provision job whatever the state.
Queued_Provision(e) == IF e.by = "llm" THEN {"provision"}
                       ELSE IF e.seen = "active" THEN {"reconcile"} ELSE {}

\* The kind of job an edit asks for, if any: PATCH llm the one that fits the
\* state it has read, a triage policy and the external SIEM only a reconcile.
Queued(e) == IF e.seen = "active" THEN {"reconcile"}
             ELSE IF e.by = "llm" THEN {"provision"} ELSE {}

\* The SIEM's configuration is committed and its job is not queued yet.
Saved == edit.by = "siem" /\ edit.at # "none"

\* PATCH external-siem commits the configuration before it does anything else.
SaveSiem ==
    /\ edit.at = "none" /\ config < MaxEdits
    /\ config' = config + 1
    /\ edit' = [NoEdit EXCEPT !.at = "saved", !.by = "siem"]
    /\ missed' = (missed \/ \E x \in Workers : Loaded(x))
    /\ UNCHANGED <<tenant, remote, marker, queue, worker, cluster, report, reported,
                   overwritten, stalled, faults>>

\* The state of the tenant is read without a lock; a SIEM edit of a tenant that
\* is not active ends here ...
EditReads(by) ==
    /\ IF by = "siem" THEN edit.at = "saved" ELSE edit.at = "none" /\ config < MaxEdits
    /\ edit' = IF by = "siem" /\ tenant # "active" THEN NoEdit
               ELSE [at |-> "read", by |-> by, seen |-> tenant, found |-> FALSE]
    /\ UNCHANGED <<tenant, remote, marker, queue, worker, cluster, config, report, reported,
                   history, faults>>

\* ... then the active job of the kind is looked up.
EditLooks ==
    /\ edit.at = "read"
    /\ \E found \in {\E k \in Queued(edit) : HasActive(k)} :
           edit' = IF edit.by = "siem" /\ found THEN NoEdit
                   ELSE [edit EXCEPT !.at = "looked", !.found = found]
    /\ UNCHANGED <<tenant, remote, marker, queue, worker, cluster, config, report, reported,
                   history, faults>>

\* What the edit has read is no longer so: a job has loaded the configuration
\* before it, the tenant has become active, or the job it found has ended.
EditIsLate ==
    \/ \E x \in Workers : Loaded(x)
    \/ tenant = "active" /\ edit.seen # "active"
    \/ edit.found /\ ~\E k \in Queued(edit) : HasActive(k)

\* The configuration and the job are committed, the job alone for the SIEM.
EditCommits ==
    /\ edit.at = "looked" /\ edit' = NoEdit
    /\ \/ (edit.found \/ Queued(edit) = {}) /\ UNCHANGED rows
       \/ ~edit.found /\ \E k \in Queued(edit) : ~HasActive(k) /\ Enqueue(k)
    /\ IF edit.by = "siem"
       THEN UNCHANGED <<config, missed>>
       ELSE /\ config < MaxEdits /\ config' = config + 1
            /\ missed' = (missed \/ EditIsLate)
    /\ UNCHANGED <<tenant, remote, marker, retries, worker, cluster, report, reported,
                   overwritten, stalled, faults>>

\* Another request has queued the job since: the unique index refuses it and the
\* transaction is rolled back.
EditRefused ==
    /\ edit.at = "looked" /\ ~edit.found
    /\ \E k \in Queued(edit) : HasActive(k)
    /\ edit' = NoEdit
    /\ UNCHANGED <<tenant, remote, marker, queue, worker, cluster, config, report, reported,
                   history, faults>>

\* The request dies; only the SIEM's has committed anything.
EditDies ==
    /\ edit.at # "none" /\ edit' = NoEdit
    /\ missed' = (missed \/ edit.by = "siem")
    /\ UNCHANGED <<tenant, remote, marker, queue, worker, cluster, config, report, reported,
                   overwritten, stalled, faults>>

EditRequest ==
    \/ SaveSiem \/ (\E by \in Edits : EditReads(by))
    \/ EditLooks \/ EditCommits \/ EditRefused \/ EditDies
-----------------------------------------------------------------------------
(* The agent of an L2 tenant and the cluster. *)

\* complete_job: the tenant is read without a lock ...
L2Reads(s) ==
    /\ remote /\ report.at = "none"
    /\ report' = [at |-> "read", state |-> s, seen |-> tenant]
    /\ UNCHANGED <<tenant, remote, marker, queue, worker, cluster, config, edit, reported,
                   history, faults>>

Reports ==
    /\ remote /\ report.at = "read" /\ report' = NoReport
    /\ reported' = report.state
    /\ UNCHANGED <<remote, marker, queue, worker, cluster, config, edit, missed, stalled, faults>>

\* Mutant: the report wins over the operator.
L2Writes_Overrides ==
    /\ Reports /\ RowFree
    /\ tenant' = report.state /\ Overwrites(report.seen)

\* ... and written at the commit, unless an operator's state was read
\* (_project_installation_state_to_tenant).
L2Writes ==
    /\ Reports
    /\ IF report.seen \in {"suspended", "decommissioning", "archived", report.state}
       THEN UNCHANGED <<tenant, overwritten>>
       ELSE RowFree /\ tenant' = report.state /\ Overwrites(report.seen)

\* Somebody deletes the namespace.
NamespaceVanishes ==
    /\ ns /\ faults < MaxFaults
    /\ ns' = FALSE /\ faults' = faults + 1
    /\ UNCHANGED <<tenant, remote, marker, queue, worker, rendered, config, requests, history>>

GracePasses ==
    /\ marker = "fresh" /\ marker' = "old"
    /\ UNCHANGED <<tenant, remote, queue, worker, cluster, config, requests, history, faults>>
-----------------------------------------------------------------------------
(* A worker takes a job. *)

SetJob(x, status) ==
    rows' = [rows EXCEPT ![worker[x].kind][worker[x].row].status = status]
GoesTo(x, phase) == worker' = [worker EXCEPT ![x].at = phase]

\* The session is closed: what it has loaded is gone.
Ends(x, outcome) ==
    worker' = [worker EXCEPT ![x] = [Idle EXCEPT !.at = outcome, !.kind = worker[x].kind,
                                                 !.row = worker[x].row]]

Claim(x, k, i) ==
    /\ worker[x].at = "idle"
    /\ i <= Len(rows[k]) /\ rows[k][i].status = "pending"
    /\ rows' = [rows EXCEPT ![k][i] = [status |-> "in_flight", attempts |-> @.attempts + 1]]
    /\ worker' = [worker EXCEPT ![x] = [Idle EXCEPT !.at = "claimed", !.kind = k, !.row = i]]
    /\ UNCHANGED <<tenant, remote, marker, retries, cluster, config, requests, history, faults>>

\* A tenant in a terminal state: the job is abandoned.
Abandon(x) ==
    /\ worker[x].at = "claimed" /\ tenant = "archived"
    /\ SetJob(x, "failed")
    /\ worker' = [worker EXCEPT ![x] = Idle]
    /\ UNCHANGED <<tenant, remote, marker, retries, cluster, config, requests, history, faults>>

\* Where provision, reconcile and decommission go from the state they load.
ProvisionFrom(s) ==
    CASE s = "active" -> "succeeded"
      [] s \in {"pending", "degraded"} -> "blocked"
      [] s = "provisioning" -> IF remote THEN "succeeded" ELSE "starting"
      [] OTHER -> "failed"
ReconcileFrom(s) ==
    CASE s # "active" -> "failed"
      [] remote -> "succeeded"
      [] OTHER -> "namespaced"
DecommissionFrom(s) == IF s = "decommissioning" THEN "starting" ELSE "blocked"

Load(x) ==
    LET next == CASE worker[x].kind = "provision" -> ProvisionFrom(tenant)
                  [] worker[x].kind = "reconcile" -> ReconcileFrom(tenant)
                  [] worker[x].kind = "decommission" -> DecommissionFrom(tenant)
    IN
    /\ worker[x].at = "claimed" /\ tenant # "archived"
    /\ IF next \in {"succeeded", "failed"}
       THEN Ends(x, next)
       ELSE worker' = [worker EXCEPT ![x].at = next, ![x].seen = tenant, ![x].config = config]
    /\ UNCHANGED <<tenant, remote, marker, queue, cluster, config, requests, history, faults>>

\* The first UPDATE waits for the row.  An L2 tenant needs nothing else: the
\* state is committed and the agent does the work.
Enter(x) ==
    /\ worker[x].at = "blocked" /\ RowFreeFor(x)
    /\ Overwrites(worker[x].seen)
    /\ IF worker[x].kind = "provision" /\ remote
       THEN tenant' = "provisioning" /\ Ends(x, "succeeded")
       ELSE /\ worker' = [worker EXCEPT ![x].at = "starting", ![x].config = config]
            /\ UNCHANGED tenant
    /\ UNCHANGED <<remote, marker, queue, cluster, config, requests, missed, stalled, faults>>
-----------------------------------------------------------------------------
(* The steps of a job. *)

EnsureNamespace(x) ==
    /\ worker[x].kind = "provision" /\ worker[x].at = "starting"
    /\ ns' = TRUE
    /\ GoesTo(x, "namespaced")
    /\ UNCHANGED <<tenant, remote, marker, queue, rendered, config, requests, history, faults>>

\* Helm does not create the namespace.
HelmApplyTenant(x) ==
    /\ worker[x].at = "namespaced" /\ ns
    /\ rendered' = worker[x].config
    /\ GoesTo(x, "applied")
    /\ UNCHANGED <<tenant, remote, marker, queue, ns, config, requests, history, faults>>

\* The workloads are ready.  Only provision writes the tenant.
Finish(x) ==
    /\ worker[x].at = "applied" /\ ns
    /\ IF worker[x].kind = "provision"
       THEN RowFreeFor(x) /\ tenant' = "active"
       ELSE UNCHANGED tenant
    /\ Ends(x, "succeeded")
    /\ UNCHANGED <<remote, marker, queue, cluster, config, requests, history, faults>>

\* A step of provision or reconcile fails: the tenant is degraded, whatever it
\* has become since it was loaded.
FailStep(x) ==
    /\ worker[x].kind # "decommission"
    /\ worker[x].at \in {"starting", "namespaced", "applied"} /\ RowFreeFor(x)
    /\ tenant' = "degraded"
    /\ IF HoldsRow(x) THEN UNCHANGED overwritten ELSE Overwrites(worker[x].seen)
    /\ Ends(x, "failed")
    /\ UNCHANGED <<remote, marker, queue, cluster, config, requests, missed, stalled, faults>>

\* Mutant: the namespace is left behind.
Teardown_Releases(x) ==
    /\ worker[x].kind = "decommission" /\ worker[x].at = "starting"
    /\ GoesTo(x, "removed")
    /\ UNCHANGED <<tenant, remote, marker, queue, cluster, config, requests, history, faults>>

\* The releases are uninstalled and the namespace is deleted ...
Teardown(x) ==
    /\ worker[x].kind = "decommission" /\ worker[x].at = "starting"
    /\ ns' = FALSE
    /\ GoesTo(x, "removed")
    /\ UNCHANGED <<tenant, remote, marker, queue, rendered, config, requests, history, faults>>

\* ... then the tenant is archived.
Archive(x) ==
    /\ worker[x].at = "removed" /\ RowFreeFor(x)
    /\ tenant' = "archived"
    /\ IF HoldsRow(x) THEN UNCHANGED overwritten ELSE Overwrites(worker[x].seen)
    /\ Ends(x, "succeeded")
    /\ UNCHANGED <<remote, marker, queue, cluster, config, requests, missed, stalled, faults>>

\* The job runs into its timeout, or a decommission fails: nothing is committed.
RollBack(x) ==
    /\ worker[x].at \in {"blocked", "starting", "namespaced", "applied", "removed"}
    /\ Ends(x, "failed")
    /\ UNCHANGED <<tenant, remote, marker, queue, cluster, config, requests, history, faults>>
-----------------------------------------------------------------------------
(* The outcome of a job is written to its row, by id. *)

RecordSuccess(x) ==
    /\ worker[x].at = "succeeded"
    /\ SetJob(x, "succeeded")
    /\ worker' = [worker EXCEPT ![x] = Idle]
    /\ UNCHANGED <<tenant, remote, marker, retries, cluster, config, requests, history, faults>>

FailedStatus(job) == IF job.attempts >= MaxAttempts THEN "failed" ELSE "pending"

\* A row that would become active beside another one of its kind is refused by
\* the unique index; the worker logs it and goes on.
RecordFailure(x) ==
    LET k == worker[x].kind
        i == worker[x].row
        status == FailedStatus(rows[k][i])
        refused == /\ status = "pending"
                   /\ \E j \in (1..Len(rows[k])) \ {i} : Active(rows[k][j])
    IN
    /\ worker[x].at = "failed"
    /\ IF refused THEN UNCHANGED rows ELSE SetJob(x, status)
    /\ missed' = (missed \/ (status = "failed" /\ k = "reconcile"))
    /\ worker' = [worker EXCEPT ![x] = Idle]
    /\ UNCHANGED <<tenant, remote, marker, retries, cluster, config, requests, overwritten,
                   stalled, faults>>

\* The pod is replaced, or the outcome cannot be written.
Crash(x) ==
    /\ worker[x].at # "idle" /\ faults < MaxFaults
    /\ worker' = [worker EXCEPT ![x] = Idle] /\ faults' = faults + 1
    /\ UNCHANGED <<tenant, remote, marker, queue, cluster, config, requests, history>>

Holds(x, k, i) ==
    /\ worker[x].kind = k /\ worker[x].row = i
    /\ worker[x].at \notin {"idle", "missing", "ready", "unready"}

\* Mutant: any claim is stale.
ReclaimStale_Any(k, i) ==
    /\ i <= Len(rows[k]) /\ rows[k][i].status = "in_flight"
    /\ rows' = [rows EXCEPT ![k][i].status = "pending"]
    /\ UNCHANGED <<tenant, remote, marker, retries, worker, cluster, config, requests, history,
                   faults>>

\* A claim older than the stale window goes back to the queue.  The job timeout
\* is shorter than the window: its worker is gone, or it has stalled.
ReclaimStale(k, i) ==
    /\ i <= Len(rows[k]) /\ rows[k][i].status = "in_flight"
    /\ rows' = [rows EXCEPT ![k][i].status = "pending"]
    /\ IF \E x \in Workers : Holds(x, k, i)
       THEN faults < MaxFaults /\ faults' = faults + 1 /\ stalled' = TRUE
       ELSE UNCHANGED <<faults, stalled>>
    /\ UNCHANGED <<tenant, remote, marker, retries, worker, cluster, config, requests,
                   missed, overwritten>>
-----------------------------------------------------------------------------
(* The drift sweep of an idle worker. *)

\* sync_state: read the tenant, defer to its jobs, probe the cluster.
Probe(x) ==
    /\ worker[x].at = "idle"
    /\ tenant \in {"active", "degraded", "decommissioning"} /\ ~Busy
    /\ \E found \in IF ns THEN {"ready", "unready"} ELSE {"missing"} :
           worker' = [worker EXCEPT
               ![x] = [Idle EXCEPT !.at = found, !.seen = tenant, !.marker = marker]]
    /\ UNCHANGED <<tenant, remote, marker, queue, cluster, config, requests, history, faults>>

\* _reconcile_missing_namespace: archive after the grace, before it degrade.
Missing(seen, mark) ==
    /\ tenant' = IF seen = "decommissioning" \/ mark = "old" THEN "archived"
                 ELSE IF seen = "active" /\ mark = "none" THEN "degraded" ELSE tenant
    /\ marker' = IF seen # "decommissioning" /\ mark = "none" THEN "fresh" ELSE marker
    /\ UNCHANGED missed

\* _reconcile_present_namespace: clear the mark, degrade or recover.
Present(seen, mark, ready) ==
    /\ seen \in {"active", "degraded"}
    /\ marker' = IF mark # "none" THEN "none" ELSE marker
    /\ \/ seen = "degraded" /\ ready /\ Activate
       \/ seen = "active" /\ ~ready /\ tenant' = "degraded" /\ UNCHANGED missed
       \/ ~(seen = "degraded" /\ ready) /\ UNCHANGED <<tenant, missed>>

\* The row is locked and read again, but the session keeps what it has loaded:
\* the state and the mark are those of the probe, only the jobs are fresh.
SweepWrite(x) ==
    LET seen == worker[x].seen
        mark == worker[x].marker
    IN
    /\ worker[x].at \in {"missing", "ready", "unready"} /\ RowFree
    /\ \/ /\ ~Busy
          /\ \/ worker[x].at = "missing" /\ Missing(seen, mark)
             \/ worker[x].at # "missing" /\ Present(seen, mark, worker[x].at = "ready")
          /\ overwritten' = (\/ overwritten
                             \/ tenant' # tenant /\ (tenant # seen \/ (worker[x].at = "missing") = ns))
       \/ /\ Busy \/ (worker[x].at # "missing" /\ seen = "decommissioning")
          /\ UNCHANGED <<tenant, marker, missed, overwritten>>
    /\ worker' = [worker EXCEPT ![x] = Idle]
    /\ UNCHANGED <<remote, queue, cluster, config, requests, stalled, faults>>

\* _roll_outdated_tenants: the platform has changed since the last render.
RollOutdatedTenants(x) ==
    /\ worker[x].at = "idle" /\ tenant = "active" /\ ~remote /\ ~Busy
    /\ Enqueue("reconcile")
    /\ UNCHANGED <<tenant, remote, marker, retries, worker, cluster, config, requests, history,
                   faults>>
-----------------------------------------------------------------------------
RunJob(x) ==
    \/ Abandon(x) \/ Load(x) \/ Enter(x)
    \/ EnsureNamespace(x) \/ HelmApplyTenant(x) \/ Finish(x) \/ FailStep(x)
    \/ Teardown(x) \/ Archive(x) \/ RollBack(x)
    \/ RecordSuccess(x) \/ RecordFailure(x)
    \/ SweepWrite(x)

RowIds == 1..MaxRows
ClaimSome(x) == \E k \in Kinds, i \in RowIds : Claim(x, k, i)

Operator ==
    \/ Suspend \/ Resume \/ DecommissionTenant \/ RetryProvisioning \/ ReconcileTenant
    \/ EditRequest

Next ==
    \/ Operator
    \/ (\E s \in {"active", "degraded"} : L2Reads(s)) \/ L2Writes
    \/ NamespaceVanishes \/ GracePasses
    \/ \E x \in Workers : ClaimSome(x) \/ RunJob(x) \/ Crash(x) \/ Probe(x) \/ RollOutdatedTenants(x)
    \/ \E k \in Kinds, i \in RowIds : ReclaimStale(k, i)

Spec == Init /\ [][Next]_vars

\* A worker goes on with its job and polls the queue; a claim that nobody
\* works on becomes stale.
Fairness ==
    /\ \A x \in Workers : WF_vars(ClaimSome(x) \/ RunJob(x))
    /\ \A k \in Kinds, i \in RowIds :
           WF_vars(ReclaimStale(k, i) /\ ~\E x \in Workers : Holds(x, k, i))

FairSpec == Spec /\ Fairness
-----------------------------------------------------------------------------
\* A job runs on two workers at once only after a claim was taken back from a
\* worker that was still at it: the job timeout is shorter than the stale window
\* so that "the same job can[not] end up running twice" (worker.py).
OneRunner ==
    ~stalled => \A x, y \in Workers, k \in Kinds, i \in RowIds :
                    Holds(x, k, i) /\ Holds(y, k, i) => x = y

\* A job is claimed more often than its budget only by reclaimed claims, which
\* _maybe_reclaim_stale puts back without a look at the budget.
RetryBudget ==
    \A k \in Kinds : \A i \in 1..Len(rows[k]) : rows[k][i].attempts <= MaxAttempts + faults

\* The release of an active tenant at rest has the configuration in the
\* database, unless an edit was committed after what it had read was no longer so
\* or died between its two commits, the tenant became active without a render
\* (resume, recovery by the sweep), or a reconcile was given up.
RenderedUnlessMissed ==
    tenant = "active" /\ ~remote /\ ~Busy /\ ~Saved /\ ~missed => rendered = config

\* What is left of an archived tenant: nothing, whatever its workers and the
\* operators still do, unless a stale write came in between (decommission,
\* _reconcile_missing_namespace).
ArchivedClean == tenant = "archived" /\ ~overwritten => ~ns

\* A suspended, decommissioning or archived tenant leaves that state when its
\* operator says so or when the teardown is done; a job, a sweep or the report of
\* an agent changes it only by a stale write.
OperatorWins ==
    [][tenant' # tenant /\ tenant \in {"suspended", "decommissioning", "archived"}
           => \/ Operator
              \/ tenant = "decommissioning" /\ tenant' = "archived"
              \/ overwritten']_vars

\* "Terminal / operator-set states (suspended, decommissioning, archived, purged)
\* are never overridden" (agents/api.py).
ReportsYield ==
    [][L2Writes /\ tenant \in {"suspended", "decommissioning", "archived"}
           => tenant' = tenant]_vars

\* "The L2 agent's install state is the authoritative signal for whether the
\* tenant's SOC stack is actually up" (agents/api.py): a tenant whose agent
\* reports it active is not archived unless an operator asked for it.
L2Authoritative == remote /\ reported = "active" /\ rows["decommission"] = <<>> => tenant # "archived"

\* A decommission that is asked for ends in the archive, or with a failed job,
\* or is undone by a stale write or by an operator who resumes the tenant.
DecommissionEnds ==
    tenant = "decommissioning" ~>
        \/ tenant # "decommissioning" \/ overwritten
        \/ \E i \in 1..Len(rows["decommission"]) : rows["decommission"][i].status = "failed"
=============================================================================
