---------------------------- MODULE TriageGraph ----------------------------
(***************************************************************************)
(* One run of the triage graph (graph/builder.py), from the resolver to    *)
(* the disposition the runs-worker reports: the supervisor that proposes   *)
(* the next action, the workers it calls, the pre-decision gate, the       *)
(* verdict and its guard, human review, and the safety floor.              *)
(*                                                                         *)
(* The language models are the environment: the supervisor may propose     *)
(* any action its schema allows, the verdict may be any decision, either   *)
(* may fail.  The answers of Cortex and MISP are free as well.  What the   *)
(* module fixes is what the code fixes: which answer may lead where.       *)
(*                                                                         *)
(* One action is one super-step of the graph: a node and the routing edge  *)
(* that leaves it.                                                         *)
(***************************************************************************)
EXTENDS Naturals, Sequences, FiniteSets

CONSTANTS
    Observables,    \* the indicators an alert may carry
    Policies,       \* the triage policies of the registry, see PolicyType
    Batch,          \* indicators Cortex or MISP look up in one call, ten
    MAX_ITERATIONS, \* supervisor passes before a verdict is forced
    RecursionLimit  \* super-steps after which LangGraph raises

Actions == {"ENRICH", "CONTEXTUALIZE", "INVESTIGATE", "VERDICT", "CLOSE"}

Decisions == {"close", "needs_more_info", "escalate"}

\* An error is releasable when the worker may hand the run back for a retry.
Errors == {"releasable", "other"}

Nodes == {"resolve_triage_policy", "operational_close", "supervisor",
          "wazuh_worker", "cortex_worker", "misp_worker",
          "gather_authorization_context", "verdict", "verdict_guard",
          "human_review", "thehive_worker", "close_investigation", "END"}

\* What a triage policy may say.  An empty legal set is an unlisted phase.
PolicyType ==
    [required : BOOLEAN,
     legal : [{"triage", "decide"} -> SUBSET Actions],
     disposition : {"none", "close_operational"},
     signoff : BOOLEAN,
     guardrails : Seq([effect : {"override"}, to : {"needs_more_info", "escalate"}]
                      \cup [effect : {"interrupt"}, to : {"human_review"}])]

ASSUME PoliciesAssumption == Policies \subseteq PolicyType
ASSUME LimitsAssumption ==
    /\ Batch \in Nat \ {0}
    /\ MAX_ITERATIONS \in Nat \ {0}
    /\ RecursionLimit \in Nat

VARIABLES
    node,        \* the next node to run
    case,        \* what the claim carries: fixed for the run
    enrichments, \* observable -> the verdict of its enrichment, or "none"
    misp,        \* misp_context: status, the observables checked, any match
    iteration,   \* iteration_count
    action,      \* supervisor_decision.next_action, "none" before the first
    verdict,     \* verdict.decision, "none" before the first verdict
    retries,     \* verdict_retry_count
    interrupted, \* verdict_interrupted
    gathered,    \* gather_authorization_context is in triage_policy_steps_run
    supErr,      \* supervisor_error.category, or "none"
    verErr,      \* verdict_error.category, or "none"
    halted,      \* budget_terminated
    human,       \* human_decision
    steps,       \* super-steps taken
    result       \* what the worker reports: its status and disposition

vars == <<node, case, enrichments, misp, iteration, action, verdict, retries,
          interrupted, gathered, supErr, verErr, halted, human, steps, result>>

\* rounds is an observer: how many reviews answered MORE_INFO.
HumanType == [decision : {"none", "approve", "reject", "more_info"},
              rounds : Nat]

CaseType == [policy : Policies, observables : SUBSET Observables,
             authz : {"absent", "covered", "contradicted"},
             sensitive : BOOLEAN, classVeto : BOOLEAN,
             misp : {"not_configured", "unbound", "bound"}]

EnrichmentVerdicts == {"none", "benign", "malicious", "failed"}

MispType == [status : {"none", "not_configured", "unavailable", "degraded", "ok"},
             checked : SUBSET Observables, matches : BOOLEAN]

ResultType == [status : {"running", "completed", "failed", "halted_budget", "released"},
               disposition : {"none", "close_fp", "escalate", "leave_open"}]

TypeOK ==
    /\ node \in Nodes
    /\ case \in CaseType
    /\ enrichments \in [Observables -> EnrichmentVerdicts]
    /\ misp \in MispType
    /\ iteration \in Nat
    /\ action \in Actions \cup {"none"}
    /\ verdict \in Decisions \cup {"none"}
    /\ retries \in Nat
    /\ interrupted \in BOOLEAN
    /\ gathered \in BOOLEAN
    /\ supErr \in Errors \cup {"none"}
    /\ verErr \in Errors \cup {"none"}
    /\ halted \in BOOLEAN
    /\ human \in HumanType
    /\ steps \in Nat
    /\ result \in ResultType

-----------------------------------------------------------------------------
(***************************************************************************)
(* Signals and gates                                                       *)
(***************************************************************************)

policy == case.policy

\* has_malicious_signal: a malicious enrichment or a MISP match.
HasMaliciousSignal ==
    \/ \E o \in Observables : enrichments[o] = "malicious"
    \/ misp.matches

\* _has_unenriched_observables: any enrichment entry covers its observable,
\* the entry of a failed analyzer too.
HasUnenrichedObservables ==
    \E o \in case.observables : enrichments[o] = "none"

\* operational_close_vetoes; classVeto stands for the three vetoes that read
\* the alerts alone: MITRE mapping, severity, an unattested alert class.
OperationalCloseVetoed ==
    \/ case.classVeto
    \/ case.observables # {}
    \/ HasMaliciousSignal

\* missing_required_steps, for the one step the graph has a node for.
MissingRequiredSteps(done) == policy.required /\ ~done

Phase(done) == IF MissingRequiredSteps(done) THEN "triage" ELSE "decide"

\* legal_actions_for; the empty set is "unconstrained".
LegalActionsFor(done) == policy.legal[Phase(done)]

\* The legal action a proposal outside the legal set is remapped to:
\* sorted(legal)[0] when VERDICT is not legal.
Fallback(legal) ==
    CASE "VERDICT" \in legal -> "VERDICT"
      [] "VERDICT" \notin legal /\ "CLOSE" \in legal -> "CLOSE"
      [] legal \cap {"VERDICT", "CLOSE"} = {} /\ "CONTEXTUALIZE" \in legal -> "CONTEXTUALIZE"
      [] legal \cap {"VERDICT", "CLOSE", "CONTEXTUALIZE"} = {} /\ "ENRICH" \in legal -> "ENRICH"
      [] OTHER -> "INVESTIGATE"

\* Mutated form of Remapped, a plausible slip of this code: the exemption of
\* the verdict forced at max iterations is dropped.
Remapped_NotExempt(act, iter, stop, done) ==
    LET legal == LegalActionsFor(done)
    IN  IF ~stop /\ legal # {} /\ act \notin legal THEN Fallback(legal) ELSE act

\* The post-call gate of route_from_supervisor.
Remapped(act, iter, stop, done) ==
    LET legal == LegalActionsFor(done)
        forced == act = "VERDICT" /\ iter >= MAX_ITERATIONS
    IN  IF ~stop /\ ~forced /\ legal # {} /\ act \notin legal
        THEN Fallback(legal) ELSE act

WorkerOf(act) ==
    CASE act = "INVESTIGATE" -> "wazuh_worker"
      [] act = "ENRICH" -> "cortex_worker"
      [] act = "CONTEXTUALIZE" -> "misp_worker"

\* Mutated form of RouteFromSupervisor: the required-step gate holds back
\* the VERDICT proposal alone.
RouteFromSupervisor_VerdictOnly(act, iter, err, stop, done) ==
    LET legalAct == Remapped(act, iter, stop, done)
    IN  CASE err # "none" -> "close_investigation"
          [] err = "none" /\ legalAct \notin {"VERDICT", "CLOSE"} -> WorkerOf(legalAct)
          [] err = "none" /\ legalAct = "CLOSE" -> "close_investigation"
          [] OTHER -> IF ~stop /\ MissingRequiredSteps(done)
                      THEN "gather_authorization_context" ELSE "verdict"

RouteFromSupervisor(act, iter, err, stop, done) ==
    LET legalAct == Remapped(act, iter, stop, done)
        missing == ~stop /\ MissingRequiredSteps(done)
    IN  CASE err # "none" -> "close_investigation"
          [] err = "none" /\ legalAct \notin {"VERDICT", "CLOSE"} -> WorkerOf(legalAct)
          [] err = "none" /\ legalAct \in {"VERDICT", "CLOSE"} /\ missing ->
                "gather_authorization_context"
          [] OTHER -> IF legalAct = "VERDICT" THEN "verdict" ELSE "close_investigation"

RouteFromResolveTriagePolicy ==
    IF policy.disposition = "close_operational" /\ ~OperationalCloseVetoed
    THEN "operational_close" ELSE "supervisor"

RouteFromVerdict(dec, err, stopped, tries) ==
    CASE err # "none" -> "close_investigation"
      [] err = "none" /\ stopped -> "human_review"
      [] err = "none" /\ ~stopped /\ dec = "close" -> "close_investigation"
      [] err = "none" /\ ~stopped /\ dec \in {"needs_more_info", "none"} ->
            IF tries >= 1 THEN "human_review" ELSE "supervisor"
      [] OTHER -> "human_review"

RouteFromHumanReview(dec) ==
    CASE dec = "approve" -> "thehive_worker"
      [] dec = "more_info" -> "supervisor"
      [] OTHER -> "close_investigation"

-----------------------------------------------------------------------------
(***************************************************************************)
(* The nodes                                                               *)
(***************************************************************************)

\* A node runs while the graph has super-steps left.
Runs(n) == node = n /\ steps < RecursionLimit /\ steps' = steps + 1

Init ==
    /\ case \in {c \in CaseType : c.policy.disposition = "none" => ~c.classVeto}
    /\ node = "resolve_triage_policy"
    /\ enrichments = [o \in Observables |-> "none"]
    /\ misp = [status |-> "none", checked |-> {}, matches |-> FALSE]
    /\ iteration = 0
    /\ action = "none"
    /\ verdict = "none"
    /\ retries = 0
    /\ interrupted = FALSE
    /\ gathered = FALSE
    /\ supErr = "none"
    /\ verErr = "none"
    /\ halted = FALSE
    /\ human = [decision |-> "none", rounds |-> 0]
    /\ steps = 0
    /\ result = [status |-> "running", disposition |-> "none"]

evidence == <<case, enrichments, misp>>
control == <<iteration, action, gathered, supErr, halted>>
judgment == <<verdict, retries, interrupted, verErr>>

ResolveTriagePolicy ==
    /\ Runs("resolve_triage_policy")
    /\ node' = RouteFromResolveTriagePolicy
    /\ UNCHANGED <<evidence, control, judgment, human, result>>

OperationalClose ==
    /\ Runs("operational_close")
    /\ action' = "CLOSE"
    /\ node' = "close_investigation"
    /\ UNCHANGED <<evidence, iteration, gathered, supErr, halted, judgment, human, result>>

\* supervisor_node over budget: CLOSE is written and the run is marked.
SupervisorHalts ==
    /\ Runs("supervisor")
    /\ action' = "CLOSE"
    /\ halted' = TRUE
    /\ node' = RouteFromSupervisor("CLOSE", iteration, supErr, TRUE, gathered)
    /\ UNCHANGED <<evidence, iteration, gathered, supErr, judgment, human, result>>

\* supervisor_node at the iteration limit: VERDICT, without asking the model.
SupervisorForcesVerdict ==
    /\ Runs("supervisor")
    /\ iteration + 1 >= MAX_ITERATIONS
    /\ iteration' = iteration + 1
    /\ action' = "VERDICT"
    /\ node' = RouteFromSupervisor("VERDICT", iteration', supErr, halted, gathered)
    /\ UNCHANGED <<evidence, gathered, supErr, halted, judgment, human, result>>

\* supervisor_node asks the router model; the schema admits legal actions.
SupervisorDecides ==
    /\ Runs("supervisor")
    /\ iteration + 1 < MAX_ITERATIONS
    /\ iteration' = iteration + 1
    /\ \E a \in Actions :
          /\ LegalActionsFor(gathered) # {} => a \in LegalActionsFor(gathered)
          /\ action' = a
          /\ node' = RouteFromSupervisor(a, iteration', supErr, halted, gathered)
    /\ UNCHANGED <<evidence, gathered, supErr, halted, judgment, human, result>>

\* The router model fails: the decision of the previous pass stays in place.
SupervisorFails ==
    /\ Runs("supervisor")
    /\ iteration + 1 < MAX_ITERATIONS
    /\ iteration' = iteration + 1
    /\ supErr' \in Errors
    /\ node' = RouteFromSupervisor(action, iteration', supErr', halted, gathered)
    /\ UNCHANGED <<evidence, action, gathered, halted, judgment, human, result>>

\* wazuh_worker_node adds findings, which nothing downstream branches on.
WazuhWorker ==
    /\ Runs("wazuh_worker")
    /\ node' = "supervisor"
    /\ UNCHANGED <<evidence, control, judgment, human, result>>

\* What one call takes of the indicators that wait: all, or as many as fit.
Batches(waiting) ==
    {b \in SUBSET waiting : /\ Cardinality(b) <= Batch
                            /\ b = waiting \/ Cardinality(b) = Batch}

\* cortex_worker_node: every indicator of the batch gets an entry; an analyzer
\* that fails leaves an entry that says so.
CortexWorker ==
    /\ Runs("cortex_worker")
    /\ \E batch \in Batches({o \in case.observables : enrichments[o] = "none"}) :
       \E answer \in [batch -> EnrichmentVerdicts \ {"none"}] :
          enrichments' = [o \in Observables |->
              IF o \in batch THEN answer[o] ELSE enrichments[o]]
    /\ node' = "supervisor"
    /\ UNCHANGED <<case, misp, control, judgment, human, result>>

\* misp_worker_node without a client: the context is rewritten as empty.
MispUnreachable ==
    /\ Runs("misp_worker")
    /\ case.misp # "bound"
    /\ misp' = [status |-> IF case.misp = "unbound" THEN "unavailable" ELSE "not_configured",
                checked |-> {}, matches |-> FALSE]
    /\ node' = "supervisor"
    /\ UNCHANGED <<case, enrichments, control, judgment, human, result>>

\* misp_worker_node with a client looks up a batch of what has not been checked
\* yet; the status speaks of that batch alone.
\* A lookup may fail before the search answers (not checked) or after it
\* (checked, but counted as failed).
MispWorker ==
    /\ Runs("misp_worker")
    /\ case.misp = "bound"
    /\ LET toCheck == case.observables \ misp.checked
       IN  IF toCheck = {} THEN misp' = misp
           ELSE \E batch \in Batches(toCheck), hit \in BOOLEAN :
                \E searched \in SUBSET batch :
                \E failed \in {f \in SUBSET batch : batch \ searched \subseteq f} :
                   /\ hit => searched # {}
                   /\ misp' = [status |-> IF failed = batch THEN "unavailable"
                                          ELSE IF failed # {} THEN "degraded" ELSE "ok",
                               checked |-> misp.checked \cup searched,
                               matches |-> misp.matches \/ hit]
    /\ node' = "supervisor"
    /\ UNCHANGED <<case, enrichments, control, judgment, human, result>>

\* The required step marks itself as run before it does any work.
GatherAuthorizationContext ==
    /\ Runs("gather_authorization_context")
    /\ gathered' = TRUE
    /\ node' = "supervisor"
    /\ UNCHANGED <<evidence, iteration, action, supErr, halted, judgment, human, result>>

VerdictRendered ==
    /\ Runs("verdict")
    /\ verdict' \in Decisions
    /\ retries' = IF verdict' = "needs_more_info" THEN retries + 1 ELSE retries
    /\ node' = "verdict_guard"
    /\ UNCHANGED <<evidence, control, interrupted, verErr, human, result>>

\* The reasoning model fails: the verdict of an earlier pass stays.
VerdictFails ==
    /\ Runs("verdict")
    /\ verErr' \in Errors
    /\ retries' = retries + 1
    /\ node' = "verdict_guard"
    /\ UNCHANGED <<evidence, control, verdict, interrupted, human, result>>

-----------------------------------------------------------------------------
(***************************************************************************)
(* The post-verdict guard                                                  *)
(***************************************************************************)

\* DECISION_RANK
Rank(dec) == CASE dec = "close" -> 0 [] dec = "needs_more_info" -> 1 [] dec = "escalate" -> 2

IntelUnavailable == misp.status \in {"unavailable", "degraded"}

\* The two edges no policy can weaken.
CodeEdge(draft) ==
    draft = "close" /\ (HasMaliciousSignal \/ case.authz = "contradicted")

\* A guardrail takes effect when its condition holds and it interrupts, or
\* moves the draft up the ladder.
Effective(i, draft, matching) ==
    /\ i \in matching
    /\ LET g == policy.guardrails[i]
       IN  g.effect = "override" => Rank(g.to) > Rank(draft)

\* i is the first effective guardrail, 0 when there is none.
FirstGuardrail(i, draft, matching) ==
    LET earlier == IF i = 0 THEN DOMAIN policy.guardrails ELSE 1..(i - 1)
    IN  /\ i # 0 => Effective(i, draft, matching)
        /\ \A j \in earlier : ~Effective(j, draft, matching)

\* evaluate_guard: the final decision, whether a human must sign off, and
\* whether an override or interrupt was recorded, when i is the guardrail
\* that fires.
EvaluateGuard(draft, i) ==
    LET g == policy.guardrails[i]
        intel == draft = "close" /\ IntelUnavailable
        signoff == draft = "close" /\ policy.signoff /\ case.sensitive
    IN  CASE CodeEdge(draft) ->
               [final |-> "escalate", interrupted |-> FALSE, recorded |-> TRUE]
          [] ~CodeEdge(draft) /\ i # 0 ->
               IF g.effect = "override"
               THEN [final |-> g.to, interrupted |-> intel, recorded |-> TRUE]
               ELSE [final |-> draft, interrupted |-> TRUE, recorded |-> TRUE]
          [] OTHER ->
               [final |-> draft, interrupted |-> intel \/ signoff, recorded |-> signoff]

\* verdict_guard_node.  A ruling without a recorded override returns before
\* the interrupt flag is read.
VerdictGuard ==
    /\ Runs("verdict_guard")
    /\ verErr = "none"
    /\ \E matching \in SUBSET (DOMAIN policy.guardrails), i \in 0..Len(policy.guardrails) :
         LET r == EvaluateGuard(verdict, i)
         IN  /\ FirstGuardrail(i, verdict, matching)
             /\ interrupted' = (r.recorded /\ r.interrupted)
             /\ verdict' = r.final
             /\ retries' = IF r.final # verdict /\ r.final = "needs_more_info"
                           THEN retries + 1 ELSE retries
    /\ node' = RouteFromVerdict(verdict', verErr, interrupted', retries')
    /\ UNCHANGED <<evidence, control, verErr, human, result>>

\* A provider error passes the guard untouched.
VerdictGuardPasses ==
    /\ Runs("verdict_guard")
    /\ verErr # "none"
    /\ node' = RouteFromVerdict(verdict, verErr, interrupted, retries)
    /\ UNCHANGED <<evidence, control, judgment, human, result>>

-----------------------------------------------------------------------------
(***************************************************************************)
(* Review, close and the worker's report                                   *)
(***************************************************************************)

\* Mutated form of HumanReview: the answer takes the interrupt flag back.
HumanReview_Resumes ==
    /\ Runs("human_review")
    /\ \E dec \in {"approve", "reject", "more_info"} :
          /\ human' = [decision |-> dec,
                       rounds |-> human.rounds + IF dec = "more_info" THEN 1 ELSE 0]
          /\ node' = RouteFromHumanReview(dec)
    /\ interrupted' = FALSE
    /\ UNCHANGED <<evidence, control, verdict, retries, verErr, result>>

\* human_review_node with an answer: the terminal prompt, a resumed review, or
\* MORE_INFO after a review that could not be put.
HumanReview ==
    /\ Runs("human_review")
    /\ \E dec \in {"approve", "reject", "more_info"} :
          /\ human' = [decision |-> dec,
                       rounds |-> human.rounds + IF dec = "more_info" THEN 1 ELSE 0]
          /\ node' = RouteFromHumanReview(dec)
    /\ UNCHANGED <<evidence, control, judgment, result>>

\* Without a checkpointer the interrupt of human_review ends the run.
HumanReviewInterrupts ==
    /\ Runs("human_review")
    /\ node' = "END"
    /\ UNCHANGED <<evidence, control, judgment, human, result>>

TheHiveWorker ==
    /\ Runs("thehive_worker")
    /\ node' = "close_investigation"
    /\ UNCHANGED <<evidence, control, judgment, human, result>>

CloseInvestigation ==
    /\ Runs("close_investigation")
    /\ node' = "END"
    /\ UNCHANGED <<evidence, control, judgment, human, result>>

\* ainvoke raises: no super-step is left, or a node that rebuilds a typed
\* object from the state dict refuses it.  The final state is lost.
GraphRaises ==
    /\ \/ node # "END" /\ steps >= RecursionLimit
       \/ node \in {"cortex_worker", "misp_worker", "human_review", "thehive_worker"}
    /\ node' = "END"
    /\ result' = [status |-> "failed", disposition |-> "none"]
    /\ UNCHANGED <<evidence, control, judgment, human, steps>>

\* Mutated form of RunStatus: a failed verdict counts as a completed run.
RunStatus_VerdictErrorCompletes ==
    CASE halted -> "halted_budget"
      [] ~halted /\ "releasable" \in {supErr, verErr} -> "released"
      [] ~halted /\ supErr = "other" -> "failed"
      [] OTHER -> "completed"

\* The status _run_one derives from the final state.
RunStatus ==
    CASE halted -> "halted_budget"
      [] ~halted /\ "releasable" \in {supErr, verErr} -> "released"
      [] ~halted /\ "releasable" \notin {supErr, verErr} /\ "other" \in {supErr, verErr} -> "failed"
      [] OTHER -> "completed"

\* Mutated form of DispositionFromFinal: the interrupt flag is not read.
DispositionFromFinal_NoInterrupt(status) ==
    CASE status # "completed" -> "leave_open"
      [] status = "completed" /\ verdict = "none" ->
            IF action = "CLOSE" THEN "close_fp" ELSE "leave_open"
      [] OTHER -> IF verdict = "close" THEN "close_fp" ELSE "escalate"

\* _disposition_from_final
DispositionFromFinal(status) ==
    CASE status # "completed" -> "leave_open"
      [] status = "completed" /\ interrupted -> "escalate"
      [] status = "completed" /\ ~interrupted /\ verdict = "none" ->
            IF action = "CLOSE" THEN "close_fp" ELSE "leave_open"
      [] OTHER -> IF verdict = "close" THEN "close_fp" ELSE "escalate"

\* worker_close_vetoes
WorkerCloseVetoed ==
    \/ HasMaliciousSignal
    \/ verdict = "none" /\ HasUnenrichedObservables
    \/ case.authz = "contradicted"

\* apply_worker_floor
ApplyWorkerFloor(disposition) ==
    IF disposition = "close_fp" /\ WorkerCloseVetoed THEN "escalate" ELSE disposition

\* The end of _run_one.  A failed or released run carries no disposition.
Report ==
    /\ node = "END"
    /\ result.status = "running"
    /\ result' =
         [status |-> RunStatus,
          disposition |-> IF RunStatus \in {"failed", "released"} THEN "none"
                          ELSE ApplyWorkerFloor(DispositionFromFinal(RunStatus))]
    /\ UNCHANGED <<node, evidence, control, judgment, human, steps>>

Supervisor ==
    SupervisorHalts \/ SupervisorForcesVerdict \/ SupervisorDecides \/ SupervisorFails

Workers == WazuhWorker \/ CortexWorker \/ MispUnreachable \/ MispWorker

Next ==
    \/ ResolveTriagePolicy
    \/ OperationalClose
    \/ Supervisor
    \/ Workers
    \/ GatherAuthorizationContext
    \/ VerdictRendered
    \/ VerdictFails
    \/ VerdictGuard
    \/ VerdictGuardPasses
    \/ HumanReview
    \/ HumanReviewInterrupts
    \/ TheHiveWorker
    \/ CloseInvestigation
    \/ GraphRaises
    \/ Report

Spec == Init /\ [][Next]_vars

-----------------------------------------------------------------------------
(***************************************************************************)
(* Properties                                                              *)
(***************************************************************************)

Closed == result.disposition = "close_fp"

\* The floor the worker applies to the report is the second line (floor.py).
\* The graph alone keeps a close that rests on a verdict away from a malicious
\* indicator and from a contradicted authorization: the guard turns such a
\* draft, and a draft that waits for a human stays interrupted through every
\* later pass, whatever evidence that pass brings and wherever the router
\* sends it (guard.py, hil.py).  Only what the router closes alone can need
\* the floor.
FloorIsSecondLine ==
    node = "END" /\ result.status # "failed"
        /\ DispositionFromFinal(RunStatus) = "close_fp" /\ WorkerCloseVetoed
    => verdict = "none"

\* A policy's required step has run before any verdict is drafted and before
\* the router's own close takes effect (route_from_supervisor).
RequiredStepFirst ==
    /\ verdict # "none" /\ policy.required => gathered
    /\ Closed /\ policy.required /\ policy.disposition = "none" => gathered

\* The router closes without a verdict only where the policy's decide phase
\* lets it propose CLOSE (legal_actions, "CLOSE is never legal for the
\* dual-use class").
RouterCloseLegal ==
    Closed /\ verdict = "none" /\ policy.disposition = "none" =>
        LET legal == policy.legal["decide"] IN legal = {} \/ "CLOSE" \in legal

\* The policy resolved at the start binds the run to its end: its step comes
\* before any judgment, and its phases bound what the router settles alone
\* (route_from_supervisor, legal_actions).
PolicyKept == RequiredStepFirst /\ RouterCloseLegal

\* A close the verdict drafted on an asset of a sign-off class is never
\* automatic, however many review rounds lie between (guard.py, #45).
SignoffHolds ==
    policy.signoff /\ case.sensitive /\ verdict = "close" => ~Closed

\* A run the budget stopped or a provider failed never reports a judgment,
\* though an earlier pass may have left a verdict in the state (_run_one).
FailuresJudgeNothing ==
    halted \/ supErr # "none" \/ verErr # "none" =>
        result.disposition \in {"none", "leave_open"}

\* The graph does not wander: a run takes at most two super-steps per
\* supervisor pass, seven more to start and finish, and four per review that asks for
\* more information.  The recursion limit is out of reach unless reviews
\* keep sending the run back.
BoundedRun == steps <= 2 * MAX_ITERATIONS + 7 + 4 * human.rounds

\* A close drafted while threat intelligence the tenant expects did not answer
\* does not commit automatically (guard.py, #122).
IntelCloseInterrupted ==
    verdict = "close" /\ IntelUnavailable => ~Closed

\* The router alone does not close over indicators nothing ever looked at.
IndicatorsLookedAt ==
    Closed /\ verdict = "none" =>
        \A o \in case.observables : enrichments[o] \in {"benign", "malicious"}
=============================================================================
