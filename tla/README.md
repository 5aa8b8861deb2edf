# A TLA+ verification of SocTalk

SocTalk triages security alerts with LLM-driven runs. This directory holds TLA+
models of the parts of it whose correctness depends on orderings, retries,
crashes and stale reads, TLC runs that check them on small instances, and TLAPS
proofs of their main properties for every instance. `PROJECT.json` lists the
components, the runs, the mutants that show each property has teeth, the source
lines each definition stands for, the hazards and the theorems; statements of the repository that do
not hold are in section 12.

Run a model with `tlc -workers 2 -config RunVerdicts.cfg MCRunLifecycle`, a proof with
`tlapm RunLifecycleProofs.tla`.

## 1. The system

Python 3, FastAPI and PostgreSQL, `src/src/soctalk` and `src/src/soctalk_adapter`. Every
HTTP request is one transaction (`DBSessionMiddleware`, `core/tenancy/db.py`): it
commits if and only if the response is 2xx or 3xx. The isolation level is READ
COMMITTED. Several processes share the database:

| component | state | operations | interacts with |
|---|---|---|---|
| adapter (`soctalk_adapter`) | keyset cursor, durable checkpoint | poll the indexer, forward batches, save checkpoint | posts events to the API |
| triage (`core/ir/triage.py`) | alerts, source events, investigations, entity keys | `triage_event`: deduplicate, attach, correlate, deconflict, reopen, auto-close, promote | starts runs |
| runs (`core/ir/runtime.py`, `core/api/worker_runs.py`) | `investigation_runs`: status, lease, attempts, not_before, spend | claim, heartbeat, release, complete, reap | workers, reviews, response dispatch |
| runs-worker (`runs_worker/main.py`) | N claim loops per process | claim, run the graph, post the result with retries | HTTP only |
| analyst actions (`core/ir/labels.py`, `core/api/run_budget.py`) | investigations, runs | cancel, unlock | race the workers |
| human review (`core/ir/review_events.py`, `core/api/legacy_stubs.py`, `chat/actions.py`) | `pending_reviews` | request, approve, reject, request info, expire, chat confirm | closes cases |
| response (`response/*`, proposals and outbox of `core/ir/runtime.py`) | `investigation_outbox`, `proposals`, `execution_log` | dispatch, route, approve, reject, execute, retry | external webhooks |
| facts (`core/ir/events.py`, `core/ir/reducer.py`) | event log, projection | append, consume, correct | UI and runs |
| spend (`core/cost.py`, `graph/budget.py`, `core/api/run_budget.py`) | spend ledger, caps | count, report, record delta, daily cap, halt, unlock | claim, heartbeat, chat |
| agents (`core/agents/api.py`, `core/api/tenants.py`) | installations, bootstrap and runtime tokens, agent jobs | issue, register, claim, complete, reclaim, retry, upgrade | remote clusters, tenant states |
| provisioning (`core/provisioning/*`, `core/api/tenants.py`) | provisioning jobs, tenant states | suspend, resume, decommission, edit; claim, run Helm, record, reclaim, sweep, roll | Kubernetes |
| auth (`core/auth/*`, `core/tenancy/*`) | users, sessions, lockout | login, refresh, revoke | every request |
| triage graph (`graph/*`, `supervisor/*`, `triage_policy/*`, `workers/*`) | the LangGraph state of one run | resolve the policy, decide, enrich, look up, gather, judge, guard, review, close | the runs-worker reports its end |
| authorization facts (`authorization/*`, `core/ir/authorization_store.py`, `core/api/authorization.py`) | `authorization_facts`, the question of a review | submit, assert, review, revoke, evaluate, ask, answer | claim, guard and floor, reviews |
| chat (`chat/*`, `core/api/chat.py`) | conversations, messages, turns that stream | post, stream a turn, bill, confirm an action | reviews, daily ceiling |
| pricing, dashboards, frontend, charts | - | configuration, views | - |

What makes it hard: a lease that expires under a working worker; a request that is
applied although its sender has given up; the same request posted again; an
analyst who closes, cancels or rejects a case while a run is in flight; evidence
that arrives during a run; a row read in one transaction and written in another,
minutes later; an external POST inside a transaction that may not commit; running
totals that arrive late or twice; a job reclaimed from an agent that is only slow;
a graph whose state outlives the pass that wrote it.

What must hold, component by component:

- runs: one live run per case; one verdict or none per run; an overtaken worker
  changes nothing; retries are charged once; no run is stranded;
- cases: evidence that arrived during a run is read by somebody; a cancelled case
  stays quiet;
- reviews: a decision is applied once, and only to a case it still concerns;
- response: no gated action without an approval, no committed action twice;
- adapter: no event between two cursors is lost silently, a stale writer does not
  move the checkpoint;
- spend: the ledger adds up to what the workers reported, caps are not overrun by
  more than what was in flight;
- agents: one valid credential; the pipeline of an installation never loses its next
  job; what is reported as settled is what is deployed;
- tenants: a job has one runner; a configuration edit reaches the release; what an
  operator decided is not undone by a job that has not seen it;
- authorization: what is put on file as a restriction never sanctions anything; what an analyst has
  answered is not asked again;
- chat: the bill of a conversation is complete, its budget holds, an action is carried out once;
- graph: no path to a close goes around the safety floor, a required step, a
  sign-off or a failure.

## 2. Plan

1. `RunLifecycle` with the abstract `TriageContract` and `RunLifecycleProofs`: runs,
   leases, workers, cases. **Done.**
2. `ResponseOutbox` with `ResponseProofs`: dispatch, routing, approval, execution.
   **Done.**
3. `AdapterIngest` with `AdapterProofs`: cursor, checkpoint, shedding, restart.
   **Done.**
4. `AgentInstall` with `AgentProofs`: tokens, the job pipeline of an installation.
   **Done.**
5. `TenantLifecycle` with `TenantProofs`: tenant states, provisioning jobs, drift sweep.
   **Done.**
6. `SpendLedger` with `SpendProofs`: reports to deltas, budgets, daily ceiling, unlock.
   **Done.**
7. `TriageGraph` with `GraphProofs`: the graph of a run, policies, guard and floor.
   **Done.**
8. `ChatTurns`, also in `SpendProofs`: the turns of a conversation, their bill, confirmed actions.
   **Done.**
9. `AuthorizationEngine` and `AuthorizationFacts` with `AuthorizationProofs`: the evaluator, the facts on
   file, the question and its answer. **Done.**

What would come next, in this order: the review routes with their check in a session of
its own and the NOT EXISTS insert of `record_human_review_requested`; attach, complete and
cancel split into statements under READ COMMITTED (the flag race and the lock
order), refining the attach and complete of `RunLifecycle` where it can; the facts projection
with an abstract log; the decision cascade of `triage_event` (memoization, scores,
correlation) as pure operators; login, refresh and lockout.

The modules share no state. They meet at these points, where one leaves open what
another fixes: `RunLifecycle` lets the graph end with any outcome and `TriageGraph` says which
outcomes there are; `RunLifecycle` admits any claim and `SpendLedger` says when the ceiling refuses it;
`TenantLifecycle` lets the agent of an L2 tenant report anything and `AgentInstall` says what it reports;
`ChatTurns` leaves the ceilings of the day to `SpendLedger` and what a decision does to `RunLifecycle`;
`TriageGraph` takes any authorization class and `AuthorizationEngine` says which one the facts give.

## 3. RunLifecycle

### State and actions

`invStatus`, `newEvidence`, `runStatus`, `lease`, `expired`, `due` and `attempts` are the columns
of `investigations` and `investigation_runs` with times turned into the one question the
code asks of them (`lease_expires_at < now()`, `not_before <= now()`). A lease id is
the number of the grant, 0 is NULL: `uuid4` never repeats. `evidence[i]` is the set
of events on the alerts linked to case `i`; `pendingReview` and `decidedReview` say whether a
review row of the case is pending or decided. `worker[w]` is the program counter of one
`_worker_loop` and `wire` the requests posted and not yet handled. `grants`, `snapshot`, `verdicts`
and `flagged` are history variables for the properties.

| action | code |
|---|---|
| `PromoteAlert`, `AutoCloseAlert`, `AttachEvent`, `CheckAndReopen` | the ways `triage_event` changes a case; a duplicate, a merge into an unpromoted alert and a deconflicted event change none and are stuttering steps |
| `ClaimRun` | `claim_run`; `answered = FALSE` is a grant whose answer was lost |
| `HeartbeatRun` | `heartbeat_run`, when it matters: it revives an expired lease |
| `FinishGraph` | the end of `graph.ainvoke` in `_run_one` and the choice of what to report |
| `PostRequest`, `PostTimeout` | `_post_complete`, `_post_release` and their retries |
| `RefuseStale`, `ReleaseRun`, `CompleteRun` | the API's handlers, one transaction each, tails included (floor, close, escalation, follow-up) |
| `ReapExpiredLeases` | `reap_expired_leases`, one UPDATE over all rows |
| `CancelInvestigation`, `UnlockRun`, `ReviewDecision` | `cancel_investigation`, `unlock_run`, `record_human_decision_received` and `record_human_review_expired` |
| `BecomeDue`, `ExpireAbandoned`, `ExpireEarly` | the clock |
| `CrashWorker`, `LoseRequest`, `ServerError` | faults |

Abstracted: which events correlate, coalesce or reopen (a free choice of the
model, so every choice the policies can make is covered), what the LLM decides,
severities, spend, audit and replay rows. The unique index
`uq_investigation_runs_single_active` is not a guard of the model: `SingleLiveRun` shows that
its callers never run into it. `merge_investigations` and `detach_alert` have no caller outside
the tests; `waiting_on_gate` is set only by `create_proposal` with a run id, and its only
caller passes none.

### Runs

| run | instance | checks |
|---|---|---|
| `run_verdicts` | 1 case, 2 runs, 2 workers, 2 events, 2 attempts, 2 posts, 1 fault, 1 unlock | `OneVerdict`, `AttemptsCharged`, `ImplementsContract`, `LeaseFenced` |
| `run_cases` | 2 cases, 3 runs, 1 worker, 3 events, 1 unlock | `SingleLiveRun`, `CancelledIsQuiet`, `FollowUpCoversFlagged` |
| `run_liveness` | 1 case, 2 runs, 1 worker, 2 events, 2 attempts, 2 posts, 1 fault | `RunSettles`, `FlaggedIsExamined` |

Two workers are enough for one to overtake the other; one fault for an expiry
under a living worker, a crash or a lost request, and two posts for the request
that is applied and sent again; two runs for a follow-up or a run after a reopen;
three events for open, attach and reopen. The
safety properties are proved for all instances (below), so the bounds matter only
for the two leads-to properties. Deadlock is not checked: once
every event is delivered and every run has settled the system rests.

Fairness (`FairSpec`): the worker loops poll for ever and every HTTP call has a
timeout, so graphs end, posts are made and time out (the graph's node timeouts and
recursion limit bound `ainvoke`); the claim query takes the oldest claimable run first,
so a run that becomes claimable again and again is claimed (strong fairness of an
answered claim; the number of faults is bounded, so some answer arrives); requests
on the wire are handled; the reaper loops every 30 s; clocks advance. The daily cap
is assumed not to stay exhausted: it resets every day. Events, analysts and faults
have no fairness.

### Proofs

`RunLifecycleProofs` proves, from the named assumptions on the constants only
(`MaxAttempts`, `PostAttempts` positive, `NoCase` and `NoRun` outside their sets):

- `TypeCorrect` from `TypeInv`, which adds to `TypeOK` that a busy worker has a run, that a live
  run has an attempt left (else `attempts + 1` could leave its type) and that a run in
  use belongs to a case;
- `OneLiveRunPerCase`, `VerdictAppliedOnce`, `NothingRunsOnCancelled` from `CaseInv`, their conjunction with
  `CasesExist` (a case that was never inserted has no run). `StepEffect` classifies every step of
  `Next` by what it does to cases and runs (opens, settles, settles and continues,
  drops, unlocks, leaves alone), and `CaseStepInv` treats each class once;
- `TerminalRunsStay` and `RefinesContract` from the same classification: every class is a step
  or a stutter of `TriageContract` under `ContractPhase`;
- `LeaseIsUnique` from `HolderInv`: every lease in a worker's or a request's hands is at most
  the number of grants of its run and belongs to one worker;
- `ReleaseChargesOnce` and `HolderIsFenced` from `ChargeInv`: attempts plus the open claim never
  exceed the grants, and only a request carrying the current lease changes it while it
  is not expired;
- `FollowUpCovers` (`FollowUpCoversFlagged`) from `EvidenceInv`: while `has_new_evidence` is off, the run under a lease has
  read all flagged evidence of its case (`ClaimReadFlagged`). That needs the other invariants: a second live
  run would lose its flag to the follow-up of the first (`SingleLiveRun`), and a completion without a lease
  would settle a run that has read nothing (`RequestsGranted`).

Only model-checked: `RunSettles` and `FlaggedIsExamined` (liveness under fairness is out of the prover's
reach).

## 4. ResponseOutbox

### State and actions

Actions dispatched by completed runs (`Annotations`, `Webhooks`, `Gated`, one set per capability)
have a `response_action` row in `investigation_outbox`; an approved gated action has an
`execute_proposal` row too. `rowStatus`, `attempts`, `ready` are the columns of a row, `proposal` the status of
the proposal of a gated action; `executor` and `operator` are the open transactions; `notes`,
`executed` the rows written on success; `posts` counts what the endpoints have seen, the
only part of the state that a rollback does not undo.

| action | code |
|---|---|
| `Dispatch` | `dispatch_for_completed_run`, for the actions the playbooks select |
| `CheckProposal`, then `ApproveProposal`, `RejectProposal` or `DropRequest` | the SELECT and the UPDATE of `approve_proposal` and `reject_proposal`, behind the proposal routes |
| `ClaimNextOutbox` | `claim_next_outbox` (FOR UPDATE SKIP LOCKED) |
| `RouteToProposal` | `handle_response_action` of a gated capability, `_route_to_proposal`, `create_proposal` |
| `ClaimProposal`, `SkipProposal` | the guarded update of `handle_execute_proposal` and its noop branch |
| `CallHandler` | the capability's handler; a POST may reach the endpoint and raise |
| `CommitSuccess`, `CommitFailure` | the end of the handlers, `mark_outbox_succeeded`, `mark_outbox_failed` and the commit |
| `Crash` | an executor transaction that does not commit |
| `BecomeReady` | the backoff of a rescheduled row ends |

An executor claims, handles and settles a row in one transaction
(`ResponseExecutor.run_forever` commits once per row), so the statuses `in_flight` and `executing` are
never visible to others: the lock stands for them (a row's lock is `executor[x].row`, a
proposal's is `Locked`). The in-flight lease of `claim_next_outbox` therefore never applies.
Left out: payloads whose scope does not match their row (the dispatcher writes
none), tool proposals of other origin, which have no producer in this repository
(`create_proposal` has one caller), audit and event rows.

### Runs

| run | instance | checks |
|---|---|---|
| `outbox` | 1 webhook, 1 gated action, 2 executors, 2 operators, 2 attempts, 1 crash | `PostsBounded`, `SucceededIsDone`, `PostedOnlyWhileApproved`, `NeverPostedAgain`, `RowsSettle` |

Two operators allow an approval that is executed and a late second decision that
overwrites the executed proposal; two executors compete for every row; two attempts
give a retry and a last attempt. The note capability writes a row and nothing
outside the database; its part of `SucceededIsDone` rests on the proof, as the run has no
note. The safety properties are proved for all instances. Deadlock is not checked:
settled rows and decided proposals rest.

Fairness (`FairSpec`): an executor finishes the row it holds (the POST has a timeout
of 10 s) and polls for ever; the claim takes the row with the oldest `next_attempt_at`
first, so a row that is claimable again and again is claimed; backoffs end. Nothing
is assumed of dispatch, operators and crashes, whose number is bounded.

### Proofs

`ResponseProofs`, from the assumptions on the constants only (`MaxAttempts` positive, the three kinds
of actions disjoint, `None` outside actions and rows):

- `OutboxTypeCorrect` from `TypeInv`: `TypeOK`, a held row is pending (`Held`), held by one executor
  (`Exclusive`), and a pending row has an attempt left (`AttemptsLeft`, without which `attempts + 1` could
  leave its type);
- `OutboxInv` on top of it: what phase an executor can be in with which row (`Phases`), that a
  locked proposal stays approved (`Locks`), that a recorded execution has a settled row
  (`Recorded`), that the POST of a handler that has returned is the only one not yet covered
  by attempts and crashes (`Bounded` with `Owed`), and what success implies (`OkPosted`, `NotesDone`,
  `WebhooksDone`, `GatedDone`). `OutboxPostsBounded` and `OutboxSucceededIsDone` follow from it;
- `OutboxPostedOnlyWhileApproved` and `OutboxNeverPostedAgain` from `PostStep`: a step that changes `posts` is the handler
  of an executor that holds the row which records the action; `Locks` gives the first,
  `Held` against `Recorded` the second.

Only model-checked: `RowsSettle`.

## 5. AdapterIngest

### State and actions

An alert is its sort key `(@timestamp, id)`, the only part of it the cursor logic reads.
`indexed` is the indexer, `ingested` the rows of `alert_source_events`, `checkpoint` the row of
`adapter_checkpoints` (`Start` when there is none). Per pod:
`phase`, the point its loop has reached; `cursor` (`last_alert_ts`, `last_alert_id`); `batch` and `next`, the
events being posted and the cursor that will follow; the flags `loaded`, `saved` and `failing`
(`checkpoint_loaded`, `checkpoint_saved`, `checkpoint_save_failing`). `dropped` is what shed mode has counted,
`stray` the requests that are still on their way although the sender has given up.

| action | code |
|---|---|
| `Index` | the indexer makes an alert searchable |
| `Boot`, `LoadCheckpoint`, `GiveUpLoading` | start of `_ingest_loop`: a load succeeds, or all its attempts fail |
| `Forward` | `_ingest_once` up to the POST: query, limiter, defer or shed |
| `ShedPage` | `_ingest_once` in shed mode when the limiter admits nothing |
| `IngestEvents` | `ingest_events` and its answer: the cursor moves |
| `PutCheckpoint` | `put_checkpoint` and its answer, in `_ingest_once` or in `_poll_cycle` |
| `RecoverCheckpoint` | `_poll_cycle` after a poll that moved nothing: save what is not known to be saved |
| `TimeOut` | a failed POST (a failed poll) or a failed save (tried again at the end of the poll) |
| `Crash` | the pod is replaced, its `_State` lost |
| `Deliver` | the API handles a stray |

The chart runs one replica with the default rolling update
(`charts/soctalk-tenant/templates/30-adapter.yaml`), so two pods overlap during every upgrade: that is
why `Adapters` has two members. The limiter admits any non-empty part of a page, or
nothing: its rate and burst are not modelled. A poll that fails in the query or
defers everything with a good checkpoint changes nothing and is a stuttering step.
What `triage_event` does with an event is `RunLifecycle`; here it is remembered once.

Assumed of the indexer: alerts become searchable in the order of the query. An alert
that is indexed behind the cursor is never read by this code (listed as a hazard).
`Start` is the initial cursor, the epoch or the time `SOCTALK_INGEST_INITIAL_TS` names: what lies before it is skipped on
purpose and is no member of `Alerts`. Its value `now`, which gives every new pod a start of its own, is not covered.

### Runs

| run | instance | checks |
|---|---|---|
| `adapter` | 3 alerts, two of them of one timestamp, pages of 2, 2 pods, 1 fault, both modes | `NothingSkipped`, `DurableInSync`, `AlertsArrive` |

The pods start at the timestamp of the first alert. The first page ends between the two alerts of one timestamp, and the limiter can cut
it anywhere. One fault gives a crash, a lost answer, or a request that is applied after
the same or the other pod has moved on; the proofs cover every number of them.
Deadlock is not checked: with every alert indexed and ingested the pods only poll.

Fairness (`FairSpec`): pods are started again by Kubernetes, loads, posts and saves are
answered (each has a timeout; failures are the bounded faults), and a poll that finds
alerts forwards some of them again and again, because the loop never ends and the
bucket refills (strong fairness of `Forward`, which other polls may disable in between).

### Proofs

`AdapterProofs`, from the assumptions on the constants only (finitely many alerts with a
positive id, none before `Start`, a positive page size):

- `AdapterTypeCorrect` from `TypeOK`;
- `AdapterNothingSkipped` from `SkipInv`: the checkpoint, every cursor and every stray cursor on its way are
  `Covered` (a key that is `Start` or an indexed alert, with everything up to it accounted
  for), and for a pod that posts everything up to `next` is accounted for or in its batch
  (`CoveredNext`). That a cursor is a key of an indexed alert is needed for `Index`: a new alert
  lies behind none of them. `PagePrefix` is the one fact about pages: they are an initial
  segment of what lies ahead of the cursor;
- `AdapterDurableInSync` from `SyncInv`: a pod that has not loaded yet is at `Start` (`FreshPods`), the checkpoint is not before
  `Start`, and `Merge` never decreases the stored timestamp.

Only model-checked: `AlertsArrive`.

## 6. AgentInstall

### State and actions

One installation and its tenant. `state`, `desired` and `action` are the columns of
`tenant_installations`; `boot` and `runtime` the bootstrap and runtime tokens, numbered by the call of `:issue-agent`
that mints them; `rows`, `status` and `spec` the rows of `agent_jobs` by idempotency key (kind and chart);
`enqueuing` a registration that has committed and not queued its preflight; `tenant` the projected
`tenants.state`. A pod has a token (`held`), a claimed job (`task`, `chartOf`) and its outcome (`result`); `deployed` is
the chart in the cluster. `issue`, `retry` and `report` are the requests under way: how far each has come and the row of the
installation it has read. `causes` and `overlaps` are history.

Nobody locks the row of the installation: `issue_agent`, `retry_install` and `complete_job` read it, and commit after other
requests may have committed. Each of them takes a snapshot and commits with it in a later action. A commit on a row that is not the
one the request has read is recorded as the cause `stale_read`, two issues between revocation and token as the overlap
`issues_overlapped`.

| action | code |
|---|---|
| `IssueReads`, then `IssueCreates`; or `IssueDispatches` (when an upgrade is queued), `IssueRevokes`, `IssueMints` | `issue_agent` of `core/api/tenants.py`: the read with its 409, the commit inside `_enqueue_agent_job`, the UPDATE that revokes, the commit of the token with a reissue, a chart that moves early, or an upgrade whose key is used |
| `RetryReads`, `RetryCommits` | `retry_install`, with `ResumeState` and the job reset; `broken` are the jobs whose spec could not be rebuilt |
| `Register`, then `QueuePreflight` or `RegisterDies` | `register`: it revokes the other tokens and commits, then queues the preflight in a second transaction |
| `ClaimJob` | `claim_job` with `_reclaim_stale_for_installation` before it: any set of jobs in flight may be old |
| `Duplicate`, or `CompleteReads`, then `CompleteCommits` | `complete_job`: `JobFailed`, `PreflightDone`, `ApplyDone`, `WaitDone` or `NothingToAdvance` on the row that was read; `EnqueueAgentJob` keeps the idempotency key, `Project` the tenant row |
| `BootstrapExpires`, `OperatorHolds`, `Execute`, `PodStops` | the clock, `suspend_tenant` and its kin, and the pod (external) |

`answered = FALSE` is a call that was applied and whose answer is lost. A request that dies before it commits leaves nothing
and is no action. What the database serialises is kept: `_resolve_runtime` writes the row of the runtime token, so the calls of one
token follow each other and `Register`, which revokes it, waits (`TokenFree`). In one step still: `register` (a second reading of `pending`
needs two live tokens, which is the recorded overlap); the two updates of `retry_install` and its commit (between them
another job is outstanding only after a recorded overlap); a revocation is visible at the UPDATE, because a registration that
meets the lock waits and fails. Left out: `heartbeat` and `reported_chart_version`, which nothing in the pipeline reads, the
events a job reports, the values in a job's spec besides the chart, and the keys that travel in it.

### Run

`agents`: 2 charts, 2 pods, 2 token issues, 1 retry, 1 fault; 475,437 states. Checks `OneCredential`,
`WedgesAreKnown`, `SettledIsDeployed` and `Settles`. Two pods race for one registration, two charts give an upgrade
and a downgrade (where an idempotency key comes back), two issues a reissue or an overlap, a retry and an issue a stale read, the fault a dead
pod, a lost answer or a control plane that dies between the two transactions of `register`. The states behind a recorded
cause and behind a hold of the tenant are not explored (`UpToACause`): the properties exempt a cause, `OneCredential` is
proved without the constraint, and a hold changes the row of the tenant only. Deadlock is not checked: a settled installation rests.

`OneCredential`: one runtime token, and one bootstrap token unless two issues overlapped. `WedgesAreKnown` is the exact list of events after
which an installation that is on its way has no
job and no operation that would queue one; `SettledIsDeployed` that it settles on the chart in the cluster, unless
an execution, a set of failed jobs or a pair of requests overlapped. That the exceptions happen is in section 12
(`IssueRaces`, `DegradedStuck`, `AgentWedge`).

Fairness (`FairSpec`): a request goes on after its first commit; a pod with a valid token polls,
executes and reports, and its report commits; a pod whose token was revoked gets 401 and stops. The operators and the faults
have none. `Settles` needs that nobody takes the last credential away.

### Proofs

`AgentProofs`, with `IInv` = `TypeOK`, `Installed` (before the first token there is nothing; what requests have read), `Issuing` (a token comes at the
end of its call, and alone), `Reporting` (a completion under way is that of an authorized pod for an outstanding job),
`OneCredential`, `Pipeline`, `Recoverable` and `TenantFollows`. "Some job is outstanding" is not inductive, because the job
may be one the state does not wait for; `Pipeline` says that one of `AwaitedIn(state)` is. From it follow
`AgentTypeCorrect`, `OneCredentialAlways`, `OnlyKnownWedges`, `DegradedIsRecoverable` (a degraded installation has a failed
job for a retry, unless a request committed on a row that had moved) and `TenantRowFollows` (the tenant row shows the installation until an operator
holds it).

`SettledChartIsDeployed` (`SettledIsDeployed`) needs more, because a chart travels from the installation to the spec of a
job, to a pod, to the cluster. While nothing is recorded (`Clean`) three facts hold together (`Undisturbed`): one job is
outstanding and it is awaited (`OneJob`), so no token issue moves the chart under a job; a job a
pod has not reported is in flight, and another pod that still holds it has failed it before and has no token
to say so (`OneHolder`, which rests on `Holders`: a token has one pod); and the job applies the desired chart or waits
for it in the cluster, as does the failed job a retry brings back (`OnDesired`). A request that commits on the row it has read acts on
these facts as if it were one step, and one that does not is recorded. Each of the recorded events breaks one of
the three, so the exceptions of the property are those the code has. Only model-checked: `Settles` (liveness).

## 7. TenantLifecycle

### State and actions

`tenant`, `marker` and `rows` are `tenants.state`, the mark `namespace_missing_since` and the provisioning jobs by
kind in order of creation. A worker has a phase, the job it holds and what its session has loaded
(`seen`, `config`, `marker`). `ns` and `rendered` are the namespace and the configuration the release was rendered
with, `config` the version in the database; `remote` says that an agent manages the cluster (L2). `edit` and `report` are
a request that edits the configuration and a completion that reports a state, each with how far it has come and what
it has read: one of each at a time. A
session that has written the row holds its lock until it ends (`HoldsRow`), so a later write waits (`RowFree`,
`RowFreeFor`).

| action | code |
|---|---|
| `Suspend`, `Resume`, `DecommissionTenant`, `RetryProvisioning`, `ReconcileTenant` | the routes of `core/api/tenants.py` |
| `SaveSiem`, `EditReads`, `EditLooks`, `EditCommits`, `EditRefused`, `EditDies` | `llm_config.py`, the external SIEM and the triage policies of `ir.py` |
| `Claim`, `Abandon`, `Load`, `Enter` | `_claim`, `_dispatch` and `_run_job` of the worker, and what `provision`, `reconcile` and `decommission` read first |
| `EnsureNamespace`, `HelmApplyTenant`, `Finish`, `FailStep`, `Teardown`, `Archive`, `RollBack` | the steps of the controller, its failure path and the job timeout |
| `RecordSuccess`, `RecordFailure`, `ReclaimStale` | the worker's bookkeeping of a job, in sessions of its own |
| `Probe`, `SweepWrite` | `sync_state` and its two branches for a missing and a present namespace |
| `RollOutdatedTenants` | `_roll_outdated_tenants` |
| `L2Reads`, `L2Writes` | `_project_installation_state_to_tenant` |
| `NamespaceVanishes`, `GracePasses`, `Crash` | external |

A stale write is modelled as the code does it. `reconcile` loads the tenant, works for minutes and
writes `degraded` on failure without looking again. `_reconcile_missing_namespace` selects FOR UPDATE in a
session that already holds the object, and without `populate_existing` SQLAlchemy keeps the attributes it has:
`SweepWrite` uses the state of the probe. The three edits read the tenant's state without a lock, look for an active job of
the kind, and commit later: the configuration of LLM and policy together with the job, the configuration of the SIEM before anything is
read. The unique index refuses a job another request has queued since (`EditRefused`), which rolls the
edit back. The completion of an agent's job reads the tenant without a lock and writes it at its commit. A claim that is taken back goes to the queue whatever its
attempts, an edit that finds the active job of its kind queues none. In one step still: the five routes of
`tenants.py`, whose read and commit have nothing slow between them. Two completions of one tenant follow each other, as `_resolve_runtime`
writes the row of their token. Left out: secrets, tokens and the rows of
integrations (they follow the namespace), the Wazuh release beside the tenant's, events and users.

### Runs

| run | instance | states | checks |
|---|---|---|---|
| `tenants` | 2 workers, 1 attempt, 1 job per kind, 1 edit, 1 fault; or 1 retry instead of both | 1,877,936 | `OneRunner`, `RenderedUnlessMissed`, `ArchivedClean`, `OperatorWins` |

Two workers run a job twice after a stall and sweep while the other works. `OneThingAtATime`, a state constraint, keeps the product
small: a retry is not combined with an edit or a fault, an edit not with an agent (whose tenant has no release on this
cluster), and what follows a missed edit, or a stale write beside one, is not explored. The properties exempt what is behind it, and
are proved without it. `TenantJobs.cfg`, which is not among the runs, has 1 worker, 2 attempts, 1
retry and 1 fault (1,462,206 states) and checks `RetryBudget` (also proved) and `DecommissionEnds`: a tenant that is
being decommissioned is archived or has a failed job. Deadlock is not
checked: an archived tenant rests.

The history variables name the windows: `stalled` (a claim was taken back from a living worker), `overwritten` (a job
a sweep or an agent's report wrote over a state it had not seen), `missed` (an edit may not have reached the release: what it had read
was no longer so when it was committed, because a job had loaded the old configuration, the tenant had become active or the job it counted on had
ended; or the SIEM's edit died between its commits, the tenant became active without a render, a reconcile was
given up). Each
property holds outside its window; that the windows are open is what the hazards at
`controller.py:578`, `llm_config.py:740`, `agents/api.py:1012` and `worker.py:170` are about. `L2Clobbers` (section 12) shows the report of
an agent over a decommission.

Fairness (`FairSpec`): workers poll and go on with their job, which has a timeout; a claim nobody works on gets
old and is taken back. Operators, agents, sweeps, rolls and the cluster have none.

### Proofs

`TenantProofs`, with `IInv` = `TypeOK` and `Tracked`, `Charged`, `Single`, `Phased`, `Emptied`, `Current`, `Asking`, each explained in the
module's header. `Charged` ties attempts to faults, `Phased` says what a worker can have read where it stands
and that the tenant does not change under its lock, `Current` which version a job in flight will leave, `Asking` that a SIEM's edit goes on
only for an active tenant. From
it: `TenantTypeCorrect`, `JobsRunOnce`, `RetriesBounded`, `ReleaseIsCurrent`, `ArchiveIsClean`, `OperatorDecides`.
Only model-checked: `DecommissionEnds`.

## 8. SpendLedger

### State and actions

`run` are the rows of `investigation_runs` with their running totals, budget and lease, `ledger` what `llm_spend_ledger`
holds of each, `today` the spend of the day that the ceiling looks at (runs and chat). A lease is
the number of the claim; `worker[l]` is the graph state of the worker that holds or held it: StateGraph(dict)
shares one dict, so a heartbeat reads totals as they stand. `posts` are reports on their way (one that is
lost is never handled), `handling` those whose handler has read and not written, `admission` the admissions between
their two reads, `chatting` admitted chat turns.

| action | code |
|---|---|
| `BudgetCheck`, `Track` | `over_budget` in `supervisor_node`, `track` after each call |
| `Heartbeat`, `Finish`, `Crash` | `_heartbeat_loop` and the end of `_run_one` |
| `Handle`, then `Commit` or `Conflict` | `_record_spend_delta` up to its inserts; then the update of `heartbeat_run`, `release_run` or `complete_run` and the commit, or the 409 that rolls the ledger rows back |
| `ReadSpend`, then `ClaimRun`, `NoClaim` or `ChatPost` | `get_tenant_daily_status`, then `_RESERVED_SQL`, `assert_tenant_daily_cap_ok` and the claim or the turn |
| `ChatTurn` | the message `run_turn` stores with its cost |
| `UnlockRun` | `unlock_run` of `core/api/run_budget.py` |
| `LeaseExpires`, `NewDay` | the clock |

A run is seeded from the totals of its row and from the part the ledger books as unpriced. Prices
are the member of `Calls` that a call costs, `unpriced` a price by guesswork, which is recorded and never
enforced.

### Runs

| run | instance | states | checks |
|---|---|---|---|
| `spend` | 1 run, 2 leases, 2 attempts, 2 heartbeats, 1 crash, 1 expiry, 1 unlock, 1 midnight, no chat | 3,930,497 | `BooksComplete`, `NoDoubleBooking`, `RunCapHonest`, `UnlockedRunWorks` |
| `spend_day` | 2 runs, 2 leases, 1 heartbeat, 1 chat turn, 1 crash, 1 expiry | 1,743,537 | `DayKept` |

Two leases and two heartbeats give a report that is overtaken within a lease and across
leases, and two handlers of one run at the same time; two runs and a chat turn compete for a
ceiling of three with budgets of two. Two calls per round (5,947,465 states) passed as well. Deadlock is
not checked: the bounded events run out. The module has no liveness property: that a run ends is
`RunLifecycle`'s.

What the runs show: spend is never understated; it is booked twice only when two reports of one run
are handled at the same time or overtaken (`causes`), an error on the side of the ceiling; the budget of
a run is passed by less than one round, and the ceiling of the day by less than one budget, one round
of every run and the admitted chat turns (`DayKept`), outside the
three recorded windows (an expired lease under a living worker, a commit between the two reads of an
admission, reports out of order).

### Proofs

`SpendProofs`, with `IInv` = `TypeOK`, `Books` and `Affordable`. `BooksComplete` is about stored totals only; `Reads` and `RowBooked` carry it
through a handler that has read and not written. `ReadsCurrent` says that, without overlap, what a handler has read
still stands, which gives `NoDoubleBooking`. `Affordable` follows an unlocked run, its worker and its reports below the new
ceiling. From it: `SpendTypeCorrect`, `BooksAreComplete`, `BookedOnce`, `UnlockResumes`.

`RunCapIsHonest` (`RunCapHonest`) from `Cap`: as long as reports are handled in order, what a run, its worker and its reports
on the way have spent is below the budget plus the calls of the round so far (`CappedRun`), and the split into priced
and unpriced dollars a worker was seeded with is the one on the row (`SplitsCurrent`).

`DailyCeilingIsKept` (`DayKept`) from `Day`. What a leased run may still book is bounded by what the ceiling reserves for it and
one round (`MayBook`, `Bookable`); the invariant says that the spend of the day plus all of that stays below the bound. An admission
adds at most one budget to a sum that was below the ceiling when it was read, and `Snapshots` says that what it read
still stands; `OneAdmission`, that two do not overlap. The sums over all runs are library folds (`SumFunctionOnSet`); the
first section of `SpendProofs` proves how they change when a run does, by smallest counterexample, because the induction
theorems of the library are out of the prover's reach.

What the proofs assume of the constants, beyond types: finitely many runs, a dearest call (`max_tokens` bounds it) and
a largest budget, positive budgets.

## 9. TriageGraph

### State and actions

The LangGraph state of one run, with the fields another node, an edge or the report branches on:
`iteration_count`, the last `next_action`, `verdict`, `verdict_retry_count`, `verdict_interrupted`, the required step, the two
error fields, `budget_terminated`, `human_decision`, the enrichments by observable and `misp_context`. `case` is what
the claim carries (policy, observables, authorization class, sensitivity, veto, MISP binding) and does not change.
One action is one super-step: a node and the edge that leaves it.

| action | code |
|---|---|
| `ResolveTriagePolicy`, `OperationalClose` | the resolver, the operational vetoes and the deterministic close |
| `Supervisor` | `supervisor_node`: budget halt, forced verdict at `MAX_ITERATIONS`, a proposal or an error; then `route_from_supervisor` with the policy's remapping |
| `Workers` | Wazuh, Cortex and MISP: what they look up and record, in batches |
| `GatherAuthorizationContext` | the required step and the pre-decision gate |
| `VerdictRendered`, `VerdictFails` | `verdict_node` and its retry |
| `VerdictGuard`, `VerdictGuardPasses` | `verdict_guard_node` with `evaluate_guard`: overrides, interrupts, sign-off, threat intelligence |
| `HumanReview`, `HumanReviewInterrupts` | the HIL node with its answers, or the interrupt that ends the run as an escalation |
| `TheHiveWorker`, `CloseInvestigation` | the tail |
| `GraphRaises`, `Report` | a node or the recursion limit raises; `_run_one` turns the state into a report, the floor included |

What the models answer is any value their schema admits. Left out: prompts, findings, the content of an
enrichment, which policy matches an alert (any policy of the set), the condition language of
guardrails (any subset may match), the shadow audits, demo seeding, and the active-incident veto, for
which the claims of today carry no data.

### Run

`triage_graph`: 2 observables, batches of 1, `MAX_ITERATIONS` 4, recursion limit 22, 6 policies; 5,850,266
states. Checks `FloorIsSecondLine`, `PolicyKept`, `SignoffHolds`, `FailuresJudgeNothing`, `BoundedRun`. Two of the policies are the
built-in ones, one is empty, three are such as a tenant may write (one that allows a single action in each
phase and has guardrails of both effects; one that lets the router close before its step has run and not after; one that only puts closes before a human and leaves the
router free). Four iterations allow a lookup of both
observables in two batches and a forced verdict; or a verdict, a review that asks for more, a lookup in the second
pass and the router's close. The code's constants are 10,
10 and 50: without reviews `BoundedRun` gives 27 super-steps. Deadlock is not checked: a reported run rests.
`FloorIsSecondLine` says that the graph itself keeps a verdict's close away from a malicious indicator and a
contradicted authorization, so that the floor of `_run_one` is needed for the router's own closes only: it fails when
a draft that waits for a human loses its interrupt in a later pass, whatever node loses it.
There is no liveness property; `BoundedRun` is what bounds a run.

### Proofs

`GraphProofs`, with `IInv` = `TypeOK`, `Control` and `Budgeted`. `Control` says which nodes have run when a node is next (`Order`), what
holds where the graph can end (`Exits`), that a sign-off close has met a human or an interrupt
(`SignoffKept`) and what a report says (`Reported`); `Budgeted` bounds the super-steps at each node. `GraphPromises` states
`PolicyKept`, `SignoffHolds` and `FailuresJudgeNothing` together, `GraphBounded` states `BoundedRun`; `FloorOnlyForTheRouter` states `FloorIsSecondLine`, by
`DraftKept`: a draft that would close is before the guard, interrupted or failed, or it has passed the guard with no edge
crossed and the graph is on its way out. They hold for every set of policies and
observables and every limit. The router's CLOSE goes around sign-off and guardrails by design of the
edges, which is why `SignoffHolds` speaks of a verdict. The comment "After 1 retry, force
escalation" in `builder.py` describes a retry that never happens: the verdict has counted itself when the edge
looks, so the first NEEDS_MORE_INFO goes to a human.

## 10. ChatTurns

### State and actions

One conversation. `conversation` is its row (status, total and unpriced dollars), `turn[t]` the turn of a post: what it
has read (`prior`), iterations, tool calls still to answer, what it has spent, which rows its transaction holds
(`holds`), whether its client is gone. `action` is the stored proposal of a turn and `click` a request that confirms it.

| action | code |
|---|---|
| `PostMessage` | `post_message` up to the stream: FOR UPDATE NOWAIT, status check, the totals the turn will work with; the transaction ends before the stream begins |
| `StartTurn`, `CallModel`, `StopCalling`, `UseTool`, `NextIteration` | the loop of `run_turn` with its two budget checks |
| `WriteTurn`, `CommitTurn` | the rows and `_update_conversation_totals`, then the commit after the last frame |
| `FailTurn`, `Cancel`, `Disconnect` | an exception (an error frame, the rows so far are committed), a cancelled request (all is rolled back), the disconnect poller |
| `DeleteConversation` | `delete_conversation` |
| `ReadAction`, `CarryOut` | `dispatch_confirm`: the read of the stored action, then the decision and the mark |

An inserted message holds its conversation against FOR UPDATE (its foreign key), an UPDATE of the row against other
updates too. Left out: history and its eviction, the read-only tools, titles, prices, the daily
ceilings (`SpendLedger`) and what the confirmed decision does to the case (`RunLifecycle`).

### Run

`chat`: 2 turns, 2 clicks, calls of one dollar with or without a price, a budget of 2, 2 iterations; 982,978
states. Two tabs overlap in every way, and two iterations reach the check between calls with and
without an exhausted budget. `BillComplete`: the totals are the sum of the finished turns, whatever
overlaps, because the update adds in the database. `BudgetHonest`: only spend with a price exhausts a conversation, and it
is passed by less than one call unless turns overlap. `ActionsRunOnce`: an action is carried out once
unless two clicks race, and only for a turn that was stored with a client to click. A turn that
fails or is cancelled is paid for nowhere: `Finished` leaves it out, as the code does. Deadlock is not checked: a
conversation may rest. The module has no liveness property: the stream is bounded by
`MAX_TOOL_ITERATIONS`.

### Proofs

In `SpendProofs`, because the bill is a sum like those of the ledger; the names of the module that `SpendLedger` has
too carry the prefix `Chat`. `ChatInv` = `ChatTypeOK`, `Budgeted`, `Stored`, `Single` and `BillComplete`, checked by TLC with and without dollar
accounting before it was proved. `Budgeted` says what a turn knows: the totals it read are at most those of the row, and a turn that runs alone knows
the row exactly, so its check stops it within one call of the budget; a conversation is only called
exhausted on spend with a price. `Stored` ties a stored action to its finished turn, `Single` counts the clicks that
have read an action and not carried it out. From it `ChatTypeCorrect`, `FinishedTurnsAreBilled` (`BillComplete`), `ConversationBudgetIsHonest`
(`BudgetHonest`) and `ConfirmedActionsRunOnce` (`ActionsRunOnce`), for any number of turns, clicks, iterations and prices.

## 11. AuthorizationEngine and AuthorizationFacts

### State and actions

`AuthorizationEngine` has no state: `Components`, `Expected` and `Class` are `evaluate_authorization`, `expected` and
`derive_authz_class` over a set of facts and an activity, the account track and the file integrity
track each with its own rules for freezes, prohibitions and sanction. Where a fact has an optional
constraint the record has the set of what it admits.

`AuthorizationFacts` is the store of one tenant and the question. `store` are the rows by `fact_id`; `run` and
`review` a case's live run with the question the facts of its claim give, and its latest review;
`answer` the calls of `mssp_answer_authorization`, which span three sessions. `onFile`, the answers that were
among the facts of a claim, is kept for `AskedOnce`.

| action | code |
|---|---|
| `SubmitFact`, `CreateFact`, `AssertFact` | `submit_facts`, `mssp_create_fact`, `tenant_assert_fact`: trust from the caller, then `store_fact` |
| `ReviewFact`, `RevokeFact` | `set_review_status`, `revoke_fact` behind their routes |
| `ClaimRun` | the part of `claim_run` that loads the facts, and `authorization_context_for_alert` |
| `CompleteRun` | `_run_one` attaches the question, `complete_run` the review with it |
| `OtherDecision` | any other decision on the review |
| `StartAnswer` | `mssp_answer_authorization` up to `store_fact`: the review read in a session of its own, the grant written |
| `ResolveReview` | `record_human_decision_received` and its commit |
| `CommitAnswer`, `FailAnswer` | `DBSessionMiddleware` commits the grant with the response, or rolls it back |
| `Tick` | time |

The engine is evaluated at the claim: a run keeps the facts it was given, so its question is fixed then. A
batch of `submit_facts` is one fact at a time here. Left out: the tenant gate of `_select` (one tenant), the prompt texts of
`render.py`, the loading of fixtures in `adapter.py`, the shadow scoring of routine alerts (an audit that
changes nothing), and the signals that suppress a question (`unresolved` is free). A live claim is always
of the account track; activities of the other track reach the engine from fixtures and claims that
carry their own context, and take part in `RestrictionsNeverHelp` as activities of the environment.

### Run

`authorization`: 1 alert and 1 watched file, 6 facts of integrations (a ticket, a prohibition with a waiver for
emergencies and a freeze against the alert; a request, a freeze that excepts it and one that does not),
1 account record of an analyst, 1 baseline of the tenant, 2 answers that expire at 1 or 3, 3 edits, 2 reviews, time up to 2;
834,666 states. Three edits put a grant and two restrictions on file, or revoke one; two answers overlap on one review
and follow each other over two; an expiry of 1 passes before the second claim. The facts may come in
any order, so the run meets every set of up to three of them.

`RestrictionsNeverHelp`: an activity becomes expected only by a new grant or entity record, or because a restriction or such a
record went. `AskedOnce`: the analyst is not asked by a run that was given an earlier answer, expired or not;
runs claimed before the answer was saved may still ask, and do. Deadlock is not checked: the bounded calls run out. There
is no liveness property; nothing in the code makes an analyst answer.

### Proofs

`AuthorizationProofs`. `EngineMonotonic` is about all facts and all activities: if `G` is `Tighter` than `F` (no grant or entity more, no
restriction or entity less), what is expected under `G` is expected under `F`. It goes through `TicketTighter`,
because tickets are what freezes and waivers look at, and `EntitiesTighter`. `RestrictingNeverHelps` is `EngineMonotonic` at every step that
changes the store. `CoverageSanctions` says that coverage implies sanction, so `sanctioned` adds nothing to `inScope` in
`Expected`. `OneAccountRecord` is the single-record rule, which holds on the account track only (section 12).
`AuthorizationTypeCorrect` needs `Written`, that an answer on its way has its grant. `AsksOnce` from `NoneSeen`: no question that
is open, reviewed or answered has seen an answer; `AbsentMeansNoGrant` is the reason.

## 12. Statements that do not hold

What a comment, a docstring or a document of the repository says and the code does otherwise. Each
config makes TLC show it within a minute (`tlc -config <config> MC<module>`); where a config names several
properties, TLC stops at the first, so leave in the one of the row. They are not among the runs, which are
those that pass.

| config, property | said | what happens |
|---|---|---|
| `CaseGaps`, `RecurrencePickedUp` | "mid-run recurrence is picked up by the follow-up-run mechanism" (`triage.py:901`) | the run closes the case; the follow-up needs an active case, so nobody reads the evidence |
| `CaseGaps`, `AccumulatedEvidenceRead` | "the existing run simply continues with the reopened investigation's accumulated evidence" (`triage.py:1372`) | the run was claimed before the case was rejected and reopened; it completes on its old snapshot and no flag was set |
| `CaseGaps`, `ReviewsOnlyOpenCases` | "would create a pending review on a closed investigation" (`worker_runs.py:131`), the outcome to avoid | the plain escalation does it |
| `CaseGaps`, `CancelIsTerminal` | "a terminal transition" (`labels.py:42`) | rejecting the case's review makes it `auto_closed_fp` |
| `RejectRace`, `RejectedHasNoRow` | "On `rejected`: ... No outbox row." (`core-invariants.md:183`) | the rejection read the proposal before an approval committed; the rejected proposal has a queued row, which the executor skips while it stays rejected |
| `FailedNotRetried`, `RaisedIsRetried` | "Raise to fail the action (the outbox retries per its max_attempts budget)" (`capabilities.py:96`) | the first failure marks the proposal failed; the retry finds nothing to claim and settles the row as succeeded |
| `StaleWriter`, `CursorNeverBack` | "a delayed/stale writer must never move the durable cursor backward" (`core/api/adapter.py:234`) | the statement compares with `>=`: a stale write of the same timestamp puts an older event id back; the alerts are read again and absorbed, none is skipped (`NothingSkipped`) |
| `AgentWedge`, `NoWedge` | "no wedge where the installation is stuck in 'provisioning' without an enqueued job" (`core/agents/api.py:866`) | the retry of a failed preflight resumes in `provisioning`; the preflight then succeeds, nothing waits for it there and no job follows |
| `L2Archived`, `L2Authoritative` | "The L2 agent's install state is the authoritative signal for whether the tenant's SOC stack is actually up" (`core/agents/api.py:997`) | the sweep looks for the tenant's namespace on the MSSP cluster, where an agent-managed tenant has none, degrades the tenant and archives it after the grace |
| `IssueRaces`, `LostTokenIsDead` | "(a lost token never remains valid)" (`core/api/tenants.py:1892`) | two issues each revoke before the other's token is there; both tokens are valid |
| `IssueRaces`, `NothingToDesync` | "the install spec will be built later from the latest desired_*, so there is nothing to desync" (`core/api/tenants.py:1967`) | an issue that has read `agent_connected` commits its chart after the preflight has queued the install of the old one; the installation settles with the new chart as reported |
| `DegradedStuck`, `AlwaysRecoverable` | "the installation would hang in degraded forever" (`core/api/tenants.py:1833`), the outcome to avoid | a retry that has read the row before it became degraded resets the failed job and leaves the state; the job's success then advances nothing, and no failed job is left for the next retry (another chart still gets it out) |
| `L2Clobbers`, `ReportsYield` | "Terminal / operator-set states ... are never overridden" (`core/agents/api.py:1004`) | the report has read the tenant before the decommission was committed and writes over it |
| `GraphGaps`, `IntelCloseInterrupted` | "it must not commit automatically either" (`triage_policy/guard.py:190`) | `evaluate_guard` interrupts without an override, `verdict_guard_node` returns early without overrides, the close commits |
| `GraphGaps`, `IndicatorsLookedAt` | "an uncovered one is an indicator that was never checked against TI" (`floor.py:92`) | a lookup that failed leaves an entry (`cortex.py:119`), which counts as a cover, and the router closes |
| `ChatOverlap`, `OneTurnAtATime` | "Conversation FOR UPDATE lock around streaming so parallel-tab turns conflict deterministically with a 409" (`core/api/chat.py:13`) | the lock ends with the request's transaction, the turn streams in another; the second tab passes the same check |
| `ConfirmTwice`, `ConfirmedOnce` | "Idempotency — already confirmed; return what's stored." (`chat/actions.py:153`) | two confirmations read the row before either marks it, and both decide the review |
| `OneRecord`, `OneRecordCovers` (`MCAuthorizationFacts`) | "a single record fully covers the activity" (`engine.py:573`), "Never combine partial records" (`render.py:48`) | two active freezes of the file track, each excepting another request: neither request is in scope alone, both together are |
| `NonCovering`, `NonCoveringIgnored` | "a non-covering fact is ignored" (`authz_shadow.py:395`) | any grant of the track turns the class from absent into contradicted, also for another account, action and host; no question is asked then |
| `AnswerLost`, `AnswerRemembered` | "an affirmative answer becomes a durable ``analyst_asserted`` grant" (`question.py:6`) | the review is decided and committed first, the grant with the response; a failure in between closes the case without it |
| `StaleQuestion`, `AnswersFillAbsence` | "an affirmative answer would mint a fresh grant that papers over exactly the contradiction" (`question.py:85`) | the class is that of the claim; a prohibition or a grant put on file since makes it contradicted, and the answer is saved |

## 13. Type invariants

Each module with a state has one, `TypeOK` (`ChatTypeOK` in `ChatTurns`). TLC has checked each, and all are proved (`TypeCorrect`,
`OutboxTypeCorrect`, `AdapterTypeCorrect`, `AgentTypeCorrect`, `TenantTypeCorrect`, `SpendTypeCorrect`, `GraphTypeCorrect`,
`ChatTypeCorrect`, `AuthorizationTypeCorrect`), so the runs leave them to the proofs. To see one in a
run, add it to the INVARIANTS of the config.

Every invariant and every action property a run checks is proved; only the leads-to properties
(`RunSettles`, `FlaggedIsExamined`, `RowsSettle`, `AlertsArrive`, `Settles` and `DecommissionEnds`) rest on TLC alone.

## 14. Not modelled, and why

- Facts: the projection of `core/ir/reducer.py` is read by the pages of the API alone; no run, review or execution depends on it. That
  two consumers can overwrite each other (`runtime.py:202`) is a known window of a view.
- The decision cascade of `triage_event` (memoization, scores, correlation): a free choice in `RunLifecycle`.
- Statements under READ COMMITTED in the run module: one request is one transaction. The order of
  locks in `cancel_investigation` and `complete_run` (`labels.py:82`) and the flag that is set while a completion decides
  (`worker_runs.py:1212`) are below that grain. A reaper that never charges an attempt (`worker_runs.py:420`) is
  outside what the code promises; `MaxFaults` bounds it in the model.
- A batch of alerts the API always refuses is retried whole and for ever (`soctalk_adapter/main.py:880`): the
  adapter module assumes failures are bounded. A database that refuses one statement of a
  transaction (`worker_runs.py:679`) is not a fault of `SpendLedger`.
- Users, sessions, lockout and roles: access control, about which this project states nothing. Row-level
  security and tenancy: every model is one tenant.
- Of the authorization facts: prompt texts, fixtures and the shadow scoring (section 11).
- Campaigns and the entity graph, dashboards and analytics: views. LLM configuration and pricing: rows and lookups; what an
  edit must cause is in `TenantLifecycle`.
- The frontend, charts, installers, the attack simulator and benchmarks: not part of the protocol. They, together with
  prompts, schemas and API pages, are most of the repository's lines, which is why the mapped lines are a small share
  of it.
