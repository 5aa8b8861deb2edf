---------------------------- MODULE GraphProofs ----------------------------
(***************************************************************************)
(* Proofs about the triage graph, for every set of observables, every set  *)
(* of policies the schema admits and every pair of limits.                 *)
(***************************************************************************)
EXTENDS TriageGraph, TLAPS

-----------------------------------------------------------------------------
(***************************************************************************)
(* Routing                                                                 *)
(***************************************************************************)

\* What policy.legal and the fallback may be.
LEMMA LegalType ==
    ASSUME TypeOK, NEW done \in BOOLEAN
    PROVE  /\ LegalActionsFor(done) \in SUBSET Actions
           /\ \A legal \in SUBSET Actions : Fallback(legal) \in Actions
           /\ \A legal \in SUBSET Actions : legal # {} => Fallback(legal) \in legal
<1>1. policy \in PolicyType
  BY PoliciesAssumption DEF TypeOK, CaseType, policy
<1>2. Phase(done) \in {"triage", "decide"}
  BY DEF Phase
<1>3. LegalActionsFor(done) \in SUBSET Actions
  BY <1>1, <1>2 DEF LegalActionsFor, PolicyType
<1>4. ASSUME NEW legal \in SUBSET Actions
      PROVE  Fallback(legal) \in Actions /\ (legal # {} => Fallback(legal) \in legal)
  BY <1>4 DEF Fallback, Actions
<1> QED BY <1>3, <1>4

\* The gate lets an action stand or replaces it by a legal one.
LEMMA RemappedType ==
    ASSUME TypeOK, NEW act \in Actions, NEW iter \in Nat,
           NEW stop \in BOOLEAN, NEW done \in BOOLEAN
    PROVE  /\ Remapped(act, iter, stop, done) \in Actions
           /\ stop => Remapped(act, iter, stop, done) = act
           /\ act = "VERDICT" /\ iter >= MAX_ITERATIONS
                 => Remapped(act, iter, stop, done) = "VERDICT"
           /\ ~stop /\ Remapped(act, iter, stop, done) = "CLOSE"
                 => LegalActionsFor(done) = {} \/ "CLOSE" \in LegalActionsFor(done)
<1> DEFINE legal == LegalActionsFor(done)
<1>1. legal \in SUBSET Actions /\ Fallback(legal) \in Actions
      /\ (legal # {} => Fallback(legal) \in legal)
  BY LegalType
<1> HIDE DEF legal
<1>2. Remapped(act, iter, stop, done) =
        IF ~stop /\ ~(act = "VERDICT" /\ iter >= MAX_ITERATIONS) /\ legal # {} /\ act \notin legal
        THEN Fallback(legal) ELSE act
  BY DEF Remapped, legal
<1>3. (legal = {} \/ "CLOSE" \in legal) =
        (LegalActionsFor(done) = {} \/ "CLOSE" \in LegalActionsFor(done))
  BY DEF legal
<1>4. CASE ~stop /\ ~(act = "VERDICT" /\ iter >= MAX_ITERATIONS) /\ legal # {} /\ act \notin legal
  BY <1>1, <1>2, <1>3, <1>4
<1>5. CASE ~(~stop /\ ~(act = "VERDICT" /\ iter >= MAX_ITERATIONS) /\ legal # {} /\ act \notin legal)
  <2>1. Remapped(act, iter, stop, done) = act
    BY <1>2, <1>5
  <2> QED BY <2>1, <1>3, <1>5, <1>1
<1> QED BY <1>4, <1>5

\* Where a supervisor pass may lead.
LEMMA RouteFromSupervisorFacts ==
    ASSUME TypeOK, NEW act \in Actions, NEW iter \in Nat,
           NEW stop \in BOOLEAN, NEW done \in BOOLEAN
    PROVE  LET to == RouteFromSupervisor(act, iter, "none", stop, done)
           IN  /\ to \in {"wazuh_worker", "cortex_worker", "misp_worker",
                          "gather_authorization_context", "verdict", "close_investigation"}
               /\ to = "gather_authorization_context" => policy.required /\ ~done
               /\ to = "verdict" /\ ~stop => (policy.required => done)
               /\ to = "close_investigation" /\ ~stop =>
                     /\ policy.required => done
                     /\ policy.legal["decide"] = {} \/ "CLOSE" \in policy.legal["decide"]
               /\ act = "VERDICT" /\ iter >= MAX_ITERATIONS =>
                     to \in {"gather_authorization_context", "verdict"}
               /\ stop /\ act = "CLOSE" => to = "close_investigation"
<1> DEFINE legalAct == Remapped(act, iter, stop, done)
           to == RouteFromSupervisor(act, iter, "none", stop, done)
           missing == ~stop /\ MissingRequiredSteps(done)
<1>1. /\ legalAct \in Actions
      /\ stop => legalAct = act
      /\ act = "VERDICT" /\ iter >= MAX_ITERATIONS => legalAct = "VERDICT"
      /\ ~stop /\ legalAct = "CLOSE"
            => LegalActionsFor(done) = {} \/ "CLOSE" \in LegalActionsFor(done)
  BY RemappedType
<1>2. /\ ~MissingRequiredSteps(done) => LegalActionsFor(done) = policy.legal["decide"]
      /\ MissingRequiredSteps(done) <=> policy.required /\ ~done
  BY DEF LegalActionsFor, Phase, MissingRequiredSteps
<1>3. legalAct \notin {"VERDICT", "CLOSE"} => to = WorkerOf(legalAct)
  BY DEF RouteFromSupervisor
<1>4. legalAct \in {"VERDICT", "CLOSE"} /\ missing => to = "gather_authorization_context"
  BY DEF RouteFromSupervisor
<1>5. legalAct \in {"VERDICT", "CLOSE"} /\ ~missing =>
         to = IF legalAct = "VERDICT" THEN "verdict" ELSE "close_investigation"
  BY DEF RouteFromSupervisor
<1>6. legalAct \in Actions /\ legalAct \notin {"VERDICT", "CLOSE"} =>
         WorkerOf(legalAct) \in {"wazuh_worker", "cortex_worker", "misp_worker"}
  BY DEF WorkerOf, Actions
<1> HIDE DEF legalAct, to
<1>7. CASE legalAct \notin {"VERDICT", "CLOSE"}
  BY <1>1, <1>3, <1>6, <1>7 DEF to
<1>8. CASE legalAct \in {"VERDICT", "CLOSE"} /\ missing
  BY <1>1, <1>2, <1>4, <1>8 DEF to
<1>9. CASE legalAct \in {"VERDICT", "CLOSE"} /\ ~missing
  BY <1>1, <1>2, <1>5, <1>9 DEF to
<1> QED BY <1>7, <1>8, <1>9

\* An error of the supervisor always closes the graph.
LEMMA RouteAfterError ==
    ASSUME NEW act, NEW iter, NEW err, NEW stop, NEW done, err # "none"
    PROVE  RouteFromSupervisor(act, iter, err, stop, done) = "close_investigation"
BY DEF RouteFromSupervisor

\* The routes of the other nodes stay within the graph.
LEMMA RouteTypes ==
    /\ RouteFromResolveTriagePolicy \in {"operational_close", "supervisor"}
    /\ \A dec, err, stopped, tries :
          RouteFromVerdict(dec, err, stopped, tries)
             \in {"human_review", "close_investigation", "supervisor"}
    /\ \A dec : RouteFromHumanReview(dec)
             \in {"thehive_worker", "close_investigation", "supervisor"}
<1>1. RouteFromResolveTriagePolicy \in {"operational_close", "supervisor"}
  BY DEF RouteFromResolveTriagePolicy
<1>2. ASSUME NEW dec, NEW err, NEW stopped, NEW tries
      PROVE  RouteFromVerdict(dec, err, stopped, tries)
                \in {"human_review", "close_investigation", "supervisor"}
  BY DEF RouteFromVerdict
<1>3. ASSUME NEW dec
      PROVE  RouteFromHumanReview(dec)
                \in {"thehive_worker", "close_investigation", "supervisor"}
  BY DEF RouteFromHumanReview
<1> QED BY <1>1, <1>2, <1>3

\* The guard's ruling on a draft: raised, interrupted or left as it was.  A
\* close it lets stand on a sign-off asset is interrupted and recorded.
LEMMA GuardFacts ==
    ASSUME TypeOK, NEW draft \in Decisions, NEW i \in 0..Len(policy.guardrails)
    PROVE  LET r == EvaluateGuard(draft, i)
           IN  /\ r.final \in Decisions
               /\ r.final = "close" /\ policy.signoff /\ case.sensitive
                     => r.recorded /\ r.interrupted
               /\ r.final = "close" => draft = "close"
<1> DEFINE r == EvaluateGuard(draft, i)
           g == policy.guardrails[i]
           intel == draft = "close" /\ IntelUnavailable
           signoff == draft = "close" /\ policy.signoff /\ case.sensitive
<1>1. policy \in PolicyType
  BY PoliciesAssumption DEF TypeOK, CaseType, policy
<1>2. Len(policy.guardrails) \in Nat
  BY <1>1 DEF PolicyType
<1>3. i # 0 => g \in [effect : {"override"}, to : {"needs_more_info", "escalate"}]
                      \cup [effect : {"interrupt"}, to : {"human_review"}]
  BY <1>1, <1>2 DEF PolicyType
<1>4. i # 0 /\ g.effect = "override" => g.to \in {"needs_more_info", "escalate"}
  BY <1>3
<1>5. CASE CodeEdge(draft)
  <2>1. r = [final |-> "escalate", interrupted |-> FALSE, recorded |-> TRUE]
    BY <1>5 DEF EvaluateGuard
  <2>2. r.final = "escalate"
    BY <2>1
  <2> QED BY <2>2 DEF Decisions
<1>6. CASE ~CodeEdge(draft) /\ i # 0 /\ g.effect = "override"
  <2>1. r = [final |-> g.to, interrupted |-> intel, recorded |-> TRUE]
    BY <1>6, Zenon DEF EvaluateGuard
  <2>2. r.final = g.to
    BY <2>1
  <2> QED BY <2>2, <1>4, <1>6 DEF Decisions
<1>7. CASE ~CodeEdge(draft) /\ i # 0 /\ g.effect # "override"
  <2>1. r = [final |-> draft, interrupted |-> TRUE, recorded |-> TRUE]
    BY <1>7, Zenon DEF EvaluateGuard
  <2>2. r.final = draft /\ r.recorded /\ r.interrupted
    BY <2>1
  <2> QED BY <2>2
<1>8. CASE ~CodeEdge(draft) /\ i = 0
  <2> DEFINE stop == intel \/ signoff
             ruling == [final |-> draft, interrupted |-> stop, recorded |-> signoff]
  <2>1. r = ruling
    BY <1>8, Zenon DEF EvaluateGuard
  <2>2. signoff => stop
    OBVIOUS
  <2> HIDE DEF stop, signoff
  <2>3. ruling.final = draft /\ ruling.recorded = signoff /\ ruling.interrupted = stop
    OBVIOUS
  <2>4. r.final = draft /\ (signoff => r.recorded /\ r.interrupted)
    BY <2>1, <2>2, <2>3, Zenon
  <2> QED BY <2>4, Zenon DEF signoff
<1> QED BY <1>5, <1>6, <1>7, <1>8

-----------------------------------------------------------------------------
(***************************************************************************)
(* Type correctness                                                        *)
(***************************************************************************)

LEMMA TypeInit == Init => TypeOK
<1> SUFFICES ASSUME Init PROVE TypeOK
  OBVIOUS
<1>1. case \in CaseType /\ enrichments \in [Observables -> EnrichmentVerdicts]
  BY DEF Init, EnrichmentVerdicts
<1>2. misp \in MispType /\ human \in HumanType /\ result \in ResultType
  BY DEF Init, MispType, HumanType, ResultType
<1> QED BY <1>1, <1>2 DEF Init, TypeOK, Nodes

\* The nodes that leave the evidence alone.
LEMMA TypeControl ==
    ASSUME TypeOK,
           ResolveTriagePolicy \/ OperationalClose \/ WazuhWorker \/ GatherAuthorizationContext
           \/ VerdictGuardPasses \/ HumanReviewInterrupts \/ TheHiveWorker \/ CloseInvestigation
    PROVE  TypeOK'
<1>1. node' \in Nodes /\ steps' \in Nat /\ evidence' = evidence
  BY RouteTypes DEF ResolveTriagePolicy, OperationalClose, WazuhWorker,
     GatherAuthorizationContext, VerdictGuardPasses, HumanReviewInterrupts, TheHiveWorker,
     CloseInvestigation, Runs, TypeOK, Nodes, evidence
<1>2. UNCHANGED <<iteration, supErr, halted, judgment, human, result>>
  BY DEF ResolveTriagePolicy, OperationalClose, WazuhWorker,
     GatherAuthorizationContext, VerdictGuardPasses, HumanReviewInterrupts, TheHiveWorker,
     CloseInvestigation, control, judgment
<1>3. action' \in Actions \cup {"none"} /\ gathered' \in BOOLEAN
  BY DEF ResolveTriagePolicy, OperationalClose, WazuhWorker,
     GatherAuthorizationContext, VerdictGuardPasses, HumanReviewInterrupts, TheHiveWorker,
     CloseInvestigation, control, TypeOK, Actions
<1> QED BY <1>1, <1>2, <1>3 DEF TypeOK, evidence, judgment

\* A supervisor pass leads to one of its six successors.
LEMMA TypeSupervisor ==
    ASSUME TypeOK, supErr = "none", Supervisor
    PROVE  TypeOK'
<1>1. CASE SupervisorHalts
  <2>1. node' \in Nodes
    BY <1>1, RouteFromSupervisorFacts DEF SupervisorHalts, TypeOK, Actions, Nodes
  <2>2. halted' = TRUE /\ action' = "CLOSE" /\ steps' = steps + 1
        /\ UNCHANGED <<evidence, iteration, gathered, supErr, judgment, human, result>>
    BY <1>1, Zenon DEF SupervisorHalts, Runs
  <2> QED BY <2>1, <2>2 DEF TypeOK, evidence, judgment, Actions
<1>2. CASE SupervisorForcesVerdict
  <2>1. node' \in Nodes
    <3>1. iteration + 1 \in Nat /\ "VERDICT" \in Actions /\ halted \in BOOLEAN /\ gathered \in BOOLEAN
      BY DEF TypeOK, Actions
    <3>2. node' = RouteFromSupervisor("VERDICT", iteration + 1, "none", halted, gathered)
      BY <1>2 DEF SupervisorForcesVerdict
    <3> QED BY <3>1, <3>2, RouteFromSupervisorFacts DEF Nodes
  <2> QED BY <1>2, <2>1 DEF SupervisorForcesVerdict, Runs, TypeOK, evidence, judgment, Actions
<1>3. CASE SupervisorDecides
  <2>1. PICK a \in Actions : action' = a
           /\ node' = RouteFromSupervisor(a, iteration', supErr, halted, gathered)
    BY <1>3 DEF SupervisorDecides
  <2>2. node' \in Nodes
    <3>1. iteration' \in Nat /\ halted \in BOOLEAN /\ gathered \in BOOLEAN
      BY <1>3 DEF SupervisorDecides, TypeOK
    <3> QED BY <2>1, <3>1, RouteFromSupervisorFacts DEF Nodes
  <2> QED BY <1>3, <2>1, <2>2 DEF SupervisorDecides, Runs, TypeOK, evidence, judgment
<1>4. CASE SupervisorFails
  <2>1. supErr' \in Errors /\ supErr' # "none"
    BY <1>4 DEF SupervisorFails, Errors
  <2>2. node' = "close_investigation"
    BY <1>4, <2>1, RouteAfterError DEF SupervisorFails
  <2> QED BY <1>4, <2>1, <2>2 DEF SupervisorFails, Runs, TypeOK, evidence, judgment, Nodes
<1> QED BY <1>1, <1>2, <1>3, <1>4 DEF Supervisor

LEMMA TypeWorkers ==
    ASSUME TypeOK, CortexWorker \/ MispUnreachable \/ MispWorker
    PROVE  TypeOK'
<1>1. CASE CortexWorker
  <2>1. enrichments' \in [Observables -> EnrichmentVerdicts]
    <3>1. PICK batch \in SUBSET Observables :
             \E answer \in [batch -> EnrichmentVerdicts \ {"none"}] :
             enrichments' = [o \in Observables |->
                 IF o \in batch THEN answer[o] ELSE enrichments[o]]
      BY <1>1, Zenon DEF CortexWorker, Batches, TypeOK, CaseType
    <3>2. PICK answer \in [batch -> EnrichmentVerdicts \ {"none"}] :
             enrichments' = [o \in Observables |->
                 IF o \in batch THEN answer[o] ELSE enrichments[o]]
      BY <3>1
    <3> QED BY <3>2 DEF TypeOK
  <2> QED BY <1>1, <2>1 DEF CortexWorker, Runs, TypeOK, control, judgment, Nodes
<1>2. CASE MispUnreachable
  <2>1. misp' \in MispType
    BY <1>2 DEF MispUnreachable, MispType
  <2> QED BY <1>2, <2>1 DEF MispUnreachable, Runs, TypeOK, control, judgment, Nodes
<1>3. CASE MispWorker
  <2> DEFINE toCheck == case.observables \ misp.checked
  <2>1. misp.checked \in SUBSET Observables /\ misp.matches \in BOOLEAN
        /\ toCheck \in SUBSET Observables
    BY DEF TypeOK, MispType, CaseType
  <2>2. CASE toCheck = {}
    BY <1>3, <2>2 DEF MispWorker, Runs, TypeOK, control, judgment, Nodes
  <2>3. CASE toCheck # {}
    <3>1. PICK batch \in SUBSET toCheck, hit \in BOOLEAN :
             \E searched \in SUBSET batch, failed \in SUBSET batch :
             misp' = [status |-> IF failed = batch THEN "unavailable"
                                 ELSE IF failed # {} THEN "degraded" ELSE "ok",
                      checked |-> misp.checked \cup searched,
                      matches |-> misp.matches \/ hit]
      BY <1>3, <2>3, Zenon DEF MispWorker, Batches
    <3>4. PICK searched \in SUBSET batch, failed \in SUBSET batch :
             misp' = [status |-> IF failed = batch THEN "unavailable"
                                 ELSE IF failed # {} THEN "degraded" ELSE "ok",
                      checked |-> misp.checked \cup searched,
                      matches |-> misp.matches \/ hit]
      BY <3>1
    <3> DEFINE m == misp.matches \/ hit
    <3>2. m \in BOOLEAN /\ misp.checked \cup searched \in SUBSET Observables
      BY <2>1
    <3> HIDE DEF m
    <3>3. misp' \in MispType
      BY <3>4, <3>2, <2>1 DEF MispType, m
    <3> QED BY <1>3, <3>3 DEF MispWorker, Runs, TypeOK, control, judgment, Nodes
  <2> QED BY <2>2, <2>3
<1> QED BY <1>1, <1>2, <1>3

LEMMA TypeJudgment ==
    ASSUME TypeOK, VerdictRendered \/ VerdictFails \/ VerdictGuard,
           node = "verdict_guard" /\ verErr = "none" => verdict # "none"
    PROVE  TypeOK'
<1>1. CASE VerdictRendered
  BY <1>1 DEF VerdictRendered, Runs, TypeOK, evidence, control, Nodes
<1>2. CASE VerdictFails
  BY <1>2 DEF VerdictFails, Runs, TypeOK, evidence, control, Nodes
<1>3. CASE VerdictGuard
  <2>1. verdict \in Decisions
    BY <1>3 DEF VerdictGuard, Runs, TypeOK
  <2>2. PICK i \in 0..Len(policy.guardrails) :
           LET r == EvaluateGuard(verdict, i)
           IN  /\ interrupted' = (r.recorded /\ r.interrupted)
               /\ verdict' = r.final
               /\ retries' = IF r.final # verdict /\ r.final = "needs_more_info"
                             THEN retries + 1 ELSE retries
    BY <1>3, Zenon DEF VerdictGuard
  <2>3. verdict' \in Decisions
    BY <2>1, <2>2, GuardFacts
  <2>4. interrupted' \in BOOLEAN
    BY <2>2, Zenon
  <2>5. retries' \in Nat
    BY <2>2 DEF TypeOK
  <2>6. node' \in Nodes
    BY <1>3, RouteTypes DEF VerdictGuard, Nodes
  <2> QED BY <1>3, <2>3, <2>4, <2>5, <2>6 DEF VerdictGuard, Runs, TypeOK, evidence, control
<1> QED BY <1>1, <1>2, <1>3

LEMMA TypeEnd ==
    ASSUME TypeOK, HumanReview \/ GraphRaises \/ Report
    PROVE  TypeOK'
<1>1. CASE HumanReview
  <2>1. human' \in HumanType
    BY <1>1 DEF HumanReview, TypeOK, HumanType
  <2>2. node' \in Nodes
    BY <1>1, RouteTypes DEF HumanReview, Nodes
  <2> QED BY <1>1, <2>1, <2>2 DEF HumanReview, Runs, TypeOK, evidence, control, judgment
<1>2. CASE GraphRaises
  BY <1>2 DEF GraphRaises, TypeOK, evidence, control, judgment, ResultType, Nodes
<1>3. CASE Report
  <2>1. RunStatus \in {"completed", "failed", "halted_budget", "released"}
    BY DEF RunStatus
  <2>2. DispositionFromFinal(RunStatus) \in {"close_fp", "escalate", "leave_open"}
    BY DEF DispositionFromFinal
  <2>3. ApplyWorkerFloor(DispositionFromFinal(RunStatus)) \in {"close_fp", "escalate", "leave_open"}
    BY <2>2 DEF ApplyWorkerFloor
  <2>4. result' \in ResultType
    BY <1>3, <2>1, <2>3 DEF Report, ResultType
  <2> QED BY <1>3, <2>4 DEF Report, TypeOK, evidence, control, judgment
<1> QED BY <1>1, <1>2, <1>3

-----------------------------------------------------------------------------
(***************************************************************************)
(* The inductive invariant                                                 *)
(***************************************************************************)

StepDone == policy.required => gathered

RouterMayClose == policy.legal["decide"] = {} \/ "CLOSE" \in policy.legal["decide"]

\* What is known at each node.
Order ==
    /\ node = "operational_close" => policy.disposition = "close_operational"
    /\ node \in {"verdict", "verdict_guard", "human_review", "thehive_worker"} => StepDone
    /\ verdict # "none" => StepDone
    /\ node \in {"human_review", "thehive_worker"} => verdict # "none"
    /\ node = "verdict_guard" /\ verErr = "none" => verdict # "none"
    /\ node = "verdict_guard" /\ verdict = "needs_more_info" /\ verErr = "none" => retries >= 1
    /\ halted \/ supErr # "none" => node \in {"close_investigation", "END"}
    /\ verErr # "none" => node \in {"verdict_guard", "close_investigation", "END"}

\* A healthy run that is about to end did what its policy requires, and the
\* router was allowed to end it if no verdict did.
Exits ==
    /\ node \in {"close_investigation", "END"} /\ result.status = "running"
    /\ ~halted /\ supErr = "none" /\ verErr = "none" /\ policy.disposition = "none"
    => StepDone /\ (verdict = "none" => RouterMayClose)

\* A drafted close that needs sign-off is before the guard, or interrupted.
SignoffKept ==
    policy.signoff /\ case.sensitive /\ verdict = "close" /\ result.status = "running" =>
        interrupted \/ node = "verdict_guard" \/ verErr # "none"

\* The result is written once, at the end.
Reported ==
    /\ result.status = "running" => result.disposition = "none"
    /\ result.status # "running" => node = "END"

\* What a supervisor pass does to the control state.
LEMMA SupervisorStep ==
    ASSUME TypeOK, Order, Supervisor
    PROVE  /\ node = "supervisor" /\ steps' = steps + 1
           /\ UNCHANGED <<case, enrichments, misp, gathered, verdict, retries, interrupted,
                          verErr, human, result>>
           /\ ~halted /\ supErr = "none" /\ verErr = "none"
           /\ halted' \/ supErr' # "none" => node' = "close_investigation"
           /\ node' \in {"wazuh_worker", "cortex_worker", "misp_worker",
                          "gather_authorization_context", "verdict", "close_investigation"}
           /\ node' = "gather_authorization_context" => ~gathered
           /\ node' = "verdict" => StepDone
           /\ node' = "close_investigation" /\ ~halted' /\ supErr' = "none"
                 => StepDone /\ RouterMayClose
           /\ ~halted' => iteration' = iteration + 1
           /\ halted' => iteration' = iteration
           /\ node' \in {"wazuh_worker", "cortex_worker", "misp_worker"}
                 => iteration' < MAX_ITERATIONS
<1>1. node = "supervisor" /\ steps' = steps + 1
      /\ UNCHANGED <<case, enrichments, misp, gathered, verdict, retries, interrupted,
                     verErr, human, result>>
  BY Zenon DEF Supervisor, SupervisorHalts, SupervisorForcesVerdict, SupervisorDecides,
     SupervisorFails, Runs, evidence, judgment
<1>2. ~halted /\ supErr = "none" /\ verErr = "none"
  BY <1>1 DEF Order
<1>3. halted \in BOOLEAN /\ gathered \in BOOLEAN /\ iteration \in Nat /\ iteration + 1 \in Nat
  BY DEF TypeOK
<1>4. CASE SupervisorHalts
  <2>1. halted' /\ iteration' = iteration
        /\ node' = RouteFromSupervisor("CLOSE", iteration, "none", TRUE, gathered)
    BY <1>2, <1>4, Zenon DEF SupervisorHalts
  <2>2. node' = "close_investigation"
    BY <1>3, <2>1, RouteFromSupervisorFacts DEF Actions
  <2> QED BY <1>1, <1>2, <2>1, <2>2
<1>5. CASE SupervisorForcesVerdict
  <2>1. node' = RouteFromSupervisor("VERDICT", iteration + 1, "none", halted, gathered)
        /\ halted' = halted /\ supErr' = supErr /\ iteration' = iteration + 1
        /\ iteration + 1 >= MAX_ITERATIONS
    BY <1>2, <1>5 DEF SupervisorForcesVerdict
  <2>2. node' \in {"gather_authorization_context", "verdict"}
        /\ (node' = "gather_authorization_context" => policy.required /\ ~gathered)
        /\ (node' = "verdict" => (policy.required => gathered))
    BY <1>2, <1>3, <2>1, RouteFromSupervisorFacts DEF Actions
  <2> QED BY <1>1, <1>2, <2>1, <2>2 DEF StepDone
<1>6. CASE SupervisorDecides
  <2>1. PICK a \in Actions :
           node' = RouteFromSupervisor(a, iteration + 1, "none", halted, gathered)
    BY <1>2, <1>6 DEF SupervisorDecides
  <2>2. halted' = halted /\ supErr' = supErr /\ iteration' = iteration + 1
        /\ iteration + 1 < MAX_ITERATIONS
    BY <1>6 DEF SupervisorDecides
  <2>3. /\ node' \in {"wazuh_worker", "cortex_worker", "misp_worker",
                       "gather_authorization_context", "verdict", "close_investigation"}
        /\ node' = "gather_authorization_context" => policy.required /\ ~gathered
        /\ node' = "verdict" => (policy.required => gathered)
        /\ node' = "close_investigation" => (policy.required => gathered) /\ RouterMayClose
    BY <1>2, <1>3, <2>1, RouteFromSupervisorFacts DEF RouterMayClose
  <2> QED BY <1>1, <1>2, <2>2, <2>3 DEF StepDone
<1>7. CASE SupervisorFails
  <2>1. supErr' # "none" /\ halted' = halted /\ iteration' = iteration + 1
    BY <1>7 DEF SupervisorFails, Errors
  <2>2. node' = "close_investigation"
    BY <1>7, <2>1, RouteAfterError DEF SupervisorFails
  <2> QED BY <1>1, <1>2, <2>1, <2>2
<1> QED BY <1>4, <1>5, <1>6, <1>7 DEF Supervisor

\* What the guard does to the judgment.
LEMMA GuardStep ==
    ASSUME TypeOK, Order, VerdictGuard
    PROVE  /\ node = "verdict_guard" /\ steps' = steps + 1
           /\ UNCHANGED <<case, enrichments, misp, iteration, action, gathered, supErr, halted,
                          verErr, human, result>>
           /\ verErr = "none"
           /\ verdict' \in Decisions
           /\ node' \in {"human_review", "close_investigation"}
           /\ verdict' = "close" /\ policy.signoff /\ case.sensitive => interrupted'
<1>1. /\ node = "verdict_guard" /\ steps' = steps + 1
      /\ UNCHANGED <<case, enrichments, misp, iteration, action, gathered, supErr, halted,
                     verErr, human, result>>
      /\ verErr = "none"
  BY DEF VerdictGuard, Runs, evidence, control
<1>2. verdict \in Decisions /\ (verdict = "needs_more_info" => retries >= 1)
  BY <1>1 DEF Order, TypeOK
<1>3. PICK i \in 0..Len(policy.guardrails) :
         LET r == EvaluateGuard(verdict, i)
         IN  /\ interrupted' = (r.recorded /\ r.interrupted)
             /\ verdict' = r.final
             /\ retries' = IF r.final # verdict /\ r.final = "needs_more_info"
                           THEN retries + 1 ELSE retries
  BY Zenon DEF VerdictGuard
<1>4. verdict' \in Decisions
  BY <1>2, <1>3, GuardFacts
<1>5. verdict' = "close" /\ policy.signoff /\ case.sensitive => interrupted'
  <2> DEFINE r == EvaluateGuard(verdict, i)
  <2>1. r.final = "close" /\ policy.signoff /\ case.sensitive => r.recorded /\ r.interrupted
    BY <1>2, GuardFacts
  <2> QED BY <1>3, <2>1, Zenon
<1>6. verdict' = "needs_more_info" => retries' >= 1
  BY <1>2, <1>3 DEF TypeOK
<1>7. node' = RouteFromVerdict(verdict', "none", interrupted', retries')
  BY <1>1 DEF VerdictGuard
<1>8. node' \in {"human_review", "close_investigation"}
  BY <1>4, <1>6, <1>7 DEF RouteFromVerdict, Decisions
<1> QED BY <1>1, <1>4, <1>5, <1>8

-----------------------------------------------------------------------------
\* Super-steps: those of the supervisor passes so far, before the next one.
Spent ==
    1 + 2 * (IF iteration < MAX_ITERATIONS THEN iteration ELSE MAX_ITERATIONS - 1)
      + 4 * human.rounds
      + (IF iteration >= MAX_ITERATIONS /\ gathered THEN 2 ELSE 0)

\* How far each node may be from there.
Budgeted ==
    /\ node = "resolve_triage_policy" => steps = 0
    /\ node = "operational_close" => steps <= 1
    /\ node = "supervisor" => steps <= Spent
    /\ node \in {"wazuh_worker", "cortex_worker", "misp_worker"} =>
          iteration < MAX_ITERATIONS /\ steps <= Spent - 1
    /\ node = "gather_authorization_context" =>
          /\ ~gathered
          /\ steps <= IF iteration < MAX_ITERATIONS THEN Spent - 1 ELSE Spent + 1
    /\ node = "verdict" => steps <= Spent + 1
    /\ node = "verdict_guard" => steps <= Spent + 2
    /\ node = "human_review" => steps <= Spent + 3
    /\ node = "thehive_worker" => steps <= Spent + 4
    /\ node = "close_investigation" => steps <= Spent + 5
    /\ node = "END" => steps <= Spent + 6

Control == Order /\ Exits /\ SignoffKept /\ Reported

IInv == TypeOK /\ Control /\ Budgeted

LEMMA SpentType ==
    ASSUME TypeOK
    PROVE  /\ Spent \in Nat /\ Spent >= 1
           /\ Spent + 6 <= 2 * MAX_ITERATIONS + 7 + 4 * human.rounds
<1>1. human.rounds \in Nat /\ iteration \in Nat /\ MAX_ITERATIONS \in Nat \ {0}
  BY LimitsAssumption DEF TypeOK, HumanType
<1> QED BY <1>1 DEF Spent

LEMMA InitIInv == Init => IInv
<1> SUFFICES ASSUME Init PROVE IInv
  OBVIOUS
<1>1. TypeOK
  BY TypeInit
<1>2. Control
  BY DEF Init, Control, Order, Exits, SignoffKept, Reported
<1>3. Budgeted
  BY DEF Init, Budgeted
<1> QED BY <1>1, <1>2, <1>3 DEF IInv

\* A supervisor pass keeps the budget of super-steps: two per pass before the
\* limit, and the one required step after it.
LEMMA BudgetSupervisor ==
    ASSUME IInv, Supervisor, TypeOK'
    PROVE  Budgeted'
<1>1. TypeOK /\ Order /\ Budgeted
  BY DEF IInv, Control
<1>2. /\ node = "supervisor" /\ steps' = steps + 1
      /\ gathered' = gathered /\ human' = human
      /\ node' \in {"wazuh_worker", "cortex_worker", "misp_worker",
                     "gather_authorization_context", "verdict", "close_investigation"}
      /\ node' = "gather_authorization_context" => ~gathered
      /\ node' \in {"wazuh_worker", "cortex_worker", "misp_worker"} => iteration' < MAX_ITERATIONS
  BY <1>1, SupervisorStep
<1>3. /\ iteration' = iteration + 1 \/ (iteration' = iteration /\ node' = "close_investigation")
      /\ iteration \in Nat /\ human.rounds \in Nat /\ steps \in Nat
      /\ MAX_ITERATIONS \in Nat \ {0}
  <2>1. halted' \in BOOLEAN
    BY DEF TypeOK
  <2> QED BY <2>1, <1>1, SupervisorStep, LimitsAssumption DEF TypeOK, HumanType
<1>4. steps <= Spent
  BY <1>1, <1>2 DEF Budgeted
<1>5. CASE node' \in {"wazuh_worker", "cortex_worker", "misp_worker"}
  BY <1>2, <1>3, <1>4, <1>5 DEF Budgeted, Spent
<1>6. CASE node' = "gather_authorization_context"
  BY <1>2, <1>3, <1>4, <1>6 DEF Budgeted, Spent
<1>7. CASE node' = "verdict" \/ node' = "close_investigation"
  <2>1. steps' = steps + 1 /\ steps \in Nat
    BY <1>2, <1>3
  <2>2. steps' <= Spent' + 1 /\ steps' <= Spent' + 5
    BY <1>2, <1>3, <1>4, <2>1 DEF Spent
  <2> QED BY <1>7, <2>2 DEF Budgeted
<1> QED BY <1>2, <1>5, <1>6, <1>7

LEMMA BudgetOthers ==
    ASSUME IInv, Next, ~Supervisor, TypeOK'
    PROVE  Budgeted'
<1>1. /\ TypeOK /\ Order /\ Budgeted
      /\ iteration \in Nat /\ human.rounds \in Nat /\ steps \in Nat
      /\ MAX_ITERATIONS \in Nat \ {0}
  BY LimitsAssumption DEF IInv, Control, TypeOK, HumanType
<1>2. Spent \in Nat /\ Spent >= 1
  BY <1>1, SpentType
<1>3. CASE ResolveTriagePolicy
  <2>1. node' \in {"operational_close", "supervisor"} /\ steps' = 1 /\ Spent' = Spent
    BY <1>1, <1>3, RouteTypes DEF ResolveTriagePolicy, Runs, Budgeted, Spent, control
  <2> QED BY <1>2, <2>1 DEF Budgeted
<1>4. CASE OperationalClose
  <2>1. node' = "close_investigation" /\ steps' <= 2 /\ steps' \in Nat /\ Spent' = Spent
    BY <1>1, <1>4 DEF OperationalClose, Runs, Budgeted, Spent
  <2> QED BY <1>1, <1>2, <2>1 DEF Budgeted
<1>5. CASE Workers
  <2>1. node' = "supervisor" /\ node \in {"wazuh_worker", "cortex_worker", "misp_worker"}
        /\ steps' = steps + 1
        /\ iteration' = iteration /\ gathered' = gathered /\ human' = human
    BY <1>5 DEF Workers, WazuhWorker, CortexWorker, MispUnreachable, MispWorker, Runs, control
  <2>2. steps <= Spent - 1 /\ Spent' = Spent
    BY <1>1, <2>1 DEF Budgeted, Spent
  <2> QED BY <1>1, <1>2, <2>1, <2>2 DEF Budgeted
<1>6. CASE GatherAuthorizationContext
  <2>1. node' = "supervisor" /\ node = "gather_authorization_context" /\ steps' = steps + 1
        /\ iteration' = iteration /\ gathered' = TRUE /\ human' = human
    BY <1>6, Zenon DEF GatherAuthorizationContext, Runs
  <2>2. ~gathered /\ steps <= IF iteration < MAX_ITERATIONS THEN Spent - 1 ELSE Spent + 1
    BY <1>1, <2>1 DEF Budgeted
  <2>3. Spent' = IF iteration < MAX_ITERATIONS THEN Spent ELSE Spent + 2
    BY <1>1, <2>1, <2>2 DEF Spent
  <2> QED BY <1>1, <1>2, <2>1, <2>2, <2>3 DEF Budgeted
<1>7. CASE VerdictRendered \/ VerdictFails
  <2>1. node' = "verdict_guard" /\ node = "verdict" /\ steps' = steps + 1 /\ Spent' = Spent
    BY <1>7 DEF VerdictRendered, VerdictFails, Runs, Spent, control
  <2> QED BY <1>1, <1>2, <2>1 DEF Budgeted
<1>8. CASE VerdictGuard
  <2>1. node' \in {"human_review", "close_investigation"} /\ node = "verdict_guard"
        /\ steps' = steps + 1
        /\ iteration' = iteration /\ gathered' = gathered /\ human' = human
    BY <1>1, <1>8, GuardStep
  <2>2. Spent' = Spent
    BY <2>1 DEF Spent
  <2> QED BY <1>1, <1>2, <2>1, <2>2 DEF Budgeted
<1>9. CASE VerdictGuardPasses
  <2>1. node' = "close_investigation" /\ node = "verdict_guard" /\ steps' = steps + 1 /\ Spent' = Spent
    BY <1>9 DEF VerdictGuardPasses, Runs, RouteFromVerdict, Spent, control
  <2> QED BY <1>1, <1>2, <2>1 DEF Budgeted
<1>10. CASE HumanReview
  <2>1. PICK dec \in {"approve", "reject", "more_info"} :
           human'.rounds = human.rounds + (IF dec = "more_info" THEN 1 ELSE 0)
           /\ node' = RouteFromHumanReview(dec)
    BY <1>10 DEF HumanReview
  <2>2. node = "human_review" /\ steps' = steps + 1
        /\ iteration' = iteration /\ gathered' = gathered
    BY <1>10 DEF HumanReview, Runs, control
  <2>3. steps <= Spent + 3
    BY <1>1, <2>2 DEF Budgeted
  <2>4. CASE dec = "more_info"
    <3>1. node' = "supervisor" /\ Spent' = Spent + 4
      BY <1>1, <2>1, <2>2, <2>4 DEF RouteFromHumanReview, Spent
    <3> QED BY <1>1, <1>2, <2>2, <2>3, <3>1 DEF Budgeted
  <2>5. CASE dec # "more_info"
    <3>1. node' \in {"thehive_worker", "close_investigation"} /\ Spent' = Spent
      BY <1>1, <2>1, <2>2, <2>5 DEF RouteFromHumanReview, Spent
    <3> QED BY <1>1, <1>2, <2>2, <2>3, <3>1 DEF Budgeted
  <2> QED BY <2>4, <2>5
<1>11. CASE HumanReviewInterrupts \/ TheHiveWorker \/ CloseInvestigation
  <2>1. /\ steps' = steps + 1 /\ Spent' = Spent
        /\ \/ node = "human_review" /\ node' = "END"
           \/ node = "thehive_worker" /\ node' = "close_investigation"
           \/ node = "close_investigation" /\ node' = "END"
    BY <1>11 DEF HumanReviewInterrupts, TheHiveWorker, CloseInvestigation, Runs, Spent, control
  <2> QED BY <1>1, <1>2, <2>1 DEF Budgeted
<1>12. CASE GraphRaises
  <2>1. node' = "END" /\ node # "END" /\ steps' = steps /\ Spent' = Spent
    BY <1>12 DEF GraphRaises, Spent, control
  <2>2. steps <= Spent + 6
    BY <1>1, <1>2, <2>1 DEF Budgeted, TypeOK, Nodes
  <2> QED BY <1>1, <1>2, <2>1, <2>2 DEF Budgeted
<1>13. CASE Report
  <2>1. node' = node /\ node = "END" /\ steps' = steps /\ Spent' = Spent
    BY <1>13 DEF Report, Spent, control
  <2> QED BY <1>1, <2>1 DEF Budgeted
<1> QED BY <1>3, <1>4, <1>5, <1>6, <1>7, <1>8, <1>9, <1>10, <1>11, <1>12, <1>13 DEF Next

-----------------------------------------------------------------------------
\* The control invariant, one node after the other.
LEMMA ControlSupervisor ==
    ASSUME IInv, Supervisor
    PROVE  Control'
<1>1. TypeOK /\ Order /\ Exits /\ SignoffKept /\ Reported
  BY DEF IInv, Control
<1>2. /\ node = "supervisor"
      /\ UNCHANGED <<case, enrichments, misp, gathered, verdict, retries, interrupted,
                     verErr, human, result>>
      /\ ~halted /\ supErr = "none" /\ verErr = "none"
      /\ halted' \/ supErr' # "none" => node' = "close_investigation"
      /\ node' \in {"wazuh_worker", "cortex_worker", "misp_worker",
                     "gather_authorization_context", "verdict", "close_investigation"}
      /\ node' = "verdict" => StepDone
      /\ node' = "close_investigation" /\ ~halted' /\ supErr' = "none"
            => StepDone /\ RouterMayClose
  BY <1>1, SupervisorStep
<1>3. StepDone' = StepDone /\ RouterMayClose' = RouterMayClose
      /\ policy' = policy
  BY <1>2 DEF StepDone, RouterMayClose, policy
<1>4. Order'
  BY <1>1, <1>2, <1>3 DEF Order
<1>5. Exits'
  BY <1>1, <1>2, <1>3 DEF Exits
<1>6. SignoffKept' /\ Reported'
  BY <1>1, <1>2, <1>3 DEF SignoffKept, Reported
<1> QED BY <1>4, <1>5, <1>6 DEF Control

LEMMA ControlGuard ==
    ASSUME IInv, VerdictGuard
    PROVE  Control'
<1>1. TypeOK /\ Order /\ Exits /\ SignoffKept /\ Reported
  BY DEF IInv, Control
<1>2. /\ node = "verdict_guard"
      /\ UNCHANGED <<case, gathered, supErr, halted, verErr, result>>
      /\ verErr = "none" /\ verdict' \in Decisions
      /\ node' \in {"human_review", "close_investigation"}
      /\ verdict' = "close" /\ policy.signoff /\ case.sensitive => interrupted'
  BY <1>1, GuardStep
<1>3. StepDone' = StepDone /\ policy' = policy /\ verdict' # "none"
  BY <1>2 DEF StepDone, policy, Decisions
<1>4. StepDone /\ ~halted /\ supErr = "none"
  BY <1>1, <1>2 DEF Order
<1>5. Order' /\ Exits'
  BY <1>2, <1>3, <1>4 DEF Order, Exits
<1>6. SignoffKept' /\ Reported'
  BY <1>1, <1>2, <1>3 DEF SignoffKept, Reported
<1> QED BY <1>5, <1>6 DEF Control

LEMMA ControlOthers ==
    ASSUME IInv, Next, ~Supervisor, ~VerdictGuard
    PROVE  Control'
<1>1. TypeOK /\ Order /\ Exits /\ SignoffKept /\ Reported
  BY DEF IInv, Control
<1>2. case' = case
  BY DEF Next, ResolveTriagePolicy, OperationalClose, Supervisor, Workers, WazuhWorker,
     CortexWorker, MispUnreachable, MispWorker, GatherAuthorizationContext, VerdictRendered,
     VerdictFails, VerdictGuardPasses, HumanReview, HumanReviewInterrupts, TheHiveWorker,
     CloseInvestigation, GraphRaises, Report, evidence
<1>3. policy' = policy /\ RouterMayClose' = RouterMayClose
  BY <1>2 DEF policy, RouterMayClose
<1>4. CASE ResolveTriagePolicy
  <2>1. UNCHANGED <<case, control, judgment, result>> /\ node = "resolve_triage_policy"
        /\ (node' = "supervisor"
            \/ (node' = "operational_close" /\ policy.disposition = "close_operational"))
    BY <1>4 DEF ResolveTriagePolicy, Runs, RouteFromResolveTriagePolicy, evidence
  <2> QED BY <1>1, <1>3, <2>1 DEF Control, Order, Exits, SignoffKept, Reported, StepDone,
          control, judgment
<1>5. CASE OperationalClose
  <2>1. UNCHANGED <<case, gathered, supErr, halted, judgment, result>>
        /\ node = "operational_close" /\ node' = "close_investigation"
    BY <1>5 DEF OperationalClose, Runs, evidence
  <2>2. policy.disposition # "none"
    BY <1>1, <2>1 DEF Order
  <2> QED BY <1>1, <1>3, <2>1, <2>2 DEF Control, Order, Exits, SignoffKept, Reported, StepDone,
          judgment
<1>6. CASE Workers
  <2>1. UNCHANGED <<case, control, judgment, result>> /\ node' = "supervisor"
        /\ node \in {"wazuh_worker", "cortex_worker", "misp_worker"}
    BY <1>6 DEF Workers, WazuhWorker, CortexWorker, MispUnreachable, MispWorker, Runs, evidence
  <2> QED BY <1>1, <1>3, <2>1 DEF Control, Order, Exits, SignoffKept, Reported, StepDone,
          control, judgment
<1>7. CASE GatherAuthorizationContext
  <2>1. UNCHANGED <<case, supErr, halted, judgment, result>> /\ gathered' = TRUE
        /\ node' = "supervisor" /\ node = "gather_authorization_context"
    BY <1>7, Zenon DEF GatherAuthorizationContext, Runs, evidence
  <2>2. StepDone'
    BY <2>1, Zenon DEF StepDone
  <2> QED BY <1>1, <1>3, <2>1, <2>2 DEF Control, Order, Exits, SignoffKept, Reported, judgment
<1>8. CASE VerdictRendered
  <2>1. UNCHANGED <<case, control, interrupted, verErr, result>>
        /\ node' = "verdict_guard" /\ node = "verdict" /\ verdict' \in Decisions
        /\ (verdict' = "needs_more_info" => retries' >= 1)
    BY <1>1, <1>8 DEF VerdictRendered, Runs, evidence, TypeOK
  <2>2. StepDone /\ StepDone' = StepDone
    BY <1>1, <1>3, <2>1 DEF Order, StepDone, control
  <2>3. Order'
    BY <1>1, <1>3, <2>1, <2>2 DEF Order, control, Decisions
  <2> QED BY <1>1, <1>3, <2>1, <2>3 DEF Control, Exits, SignoffKept, Reported
<1>9. CASE VerdictFails
  <2>1. UNCHANGED <<case, control, verdict, interrupted, result>>
        /\ node' = "verdict_guard" /\ node = "verdict" /\ verErr' # "none"
    BY <1>9 DEF VerdictFails, Runs, evidence, Errors
  <2>2. StepDone /\ StepDone' = StepDone
    BY <1>1, <1>3, <2>1 DEF Order, StepDone, control
  <2> QED BY <1>1, <1>3, <2>1, <2>2 DEF Control, Order, Exits, SignoffKept, Reported, control
<1>10. CASE VerdictGuardPasses
  <2>1. UNCHANGED <<case, control, judgment, result>> /\ verErr # "none"
        /\ node = "verdict_guard" /\ node' = "close_investigation"
    BY <1>10 DEF VerdictGuardPasses, Runs, RouteFromVerdict, evidence
  <2> QED BY <1>1, <1>3, <2>1 DEF Control, Order, Exits, SignoffKept, Reported, StepDone,
          control, judgment
<1>11. CASE HumanReview
  <2>1. UNCHANGED <<case, control, judgment, result>> /\ node = "human_review"
        /\ node' \in {"thehive_worker", "close_investigation", "supervisor"}
    BY <1>11, RouteTypes DEF HumanReview, Runs, evidence
  <2> QED BY <1>1, <1>3, <2>1 DEF Control, Order, Exits, SignoffKept, Reported, StepDone,
          control, judgment
<1>12. CASE HumanReviewInterrupts \/ TheHiveWorker \/ CloseInvestigation
  <2>1. /\ UNCHANGED <<case, control, judgment, result>>
        /\ \/ node = "human_review" /\ node' = "END"
           \/ node = "thehive_worker" /\ node' = "close_investigation"
           \/ node = "close_investigation" /\ node' = "END"
    BY <1>12 DEF HumanReviewInterrupts, TheHiveWorker, CloseInvestigation, Runs, evidence
  <2> QED BY <1>1, <1>3, <2>1 DEF Control, Order, Exits, SignoffKept, Reported, StepDone,
          control, judgment
<1>13. CASE GraphRaises
  <2>1. UNCHANGED <<case, control, judgment>> /\ node' = "END" /\ node # "END"
        /\ result'.status = "failed"
    BY <1>13 DEF GraphRaises, evidence
  <2> QED BY <1>1, <1>3, <2>1 DEF Control, Order, Exits, SignoffKept, Reported, StepDone,
          control, judgment
<1>14. CASE Report
  <2>1. UNCHANGED <<case, control, judgment, node>> /\ node = "END" /\ result'.status # "running"
    BY <1>14 DEF Report, RunStatus, evidence
  <2> QED BY <1>1, <1>3, <2>1 DEF Control, Order, Exits, SignoffKept, Reported, StepDone,
          control, judgment
<1> QED BY <1>4, <1>5, <1>6, <1>7, <1>8, <1>9, <1>10, <1>11, <1>12, <1>13, <1>14 DEF Next

LEMMA NextIInv == IInv /\ [Next]_vars => IInv'
<1> SUFFICES ASSUME IInv, [Next]_vars PROVE IInv'
  OBVIOUS
<1>1. TypeOK /\ Order
  BY DEF IInv, Control
<1>2. CASE UNCHANGED vars
  <2>1. StepDone' = StepDone /\ RouterMayClose' = RouterMayClose /\ policy' = policy
        /\ Spent' = Spent
    BY <1>2 DEF vars, StepDone, RouterMayClose, policy, Spent
  <2>2. TypeOK'
    BY <1>1, <1>2 DEF TypeOK, vars
  <2>3. Control'
    BY <1>2, <2>1 DEF IInv, Control, Order, Exits, SignoffKept, Reported, vars
  <2>4. Budgeted'
    BY <1>2, <2>1 DEF IInv, Budgeted, vars
  <2> QED BY <2>2, <2>3, <2>4 DEF IInv
<1>3. CASE Supervisor
  <2>1. supErr = "none"
    BY <1>1, <1>3, SupervisorStep
  <2>2. TypeOK'
    BY <1>1, <1>3, <2>1, TypeSupervisor
  <2> QED BY <1>3, <2>2, ControlSupervisor, BudgetSupervisor DEF IInv
<1>4. CASE Next /\ ~Supervisor
  <2>1. TypeOK'
    BY <1>1, <1>4, TypeControl, TypeWorkers, TypeJudgment, TypeEnd DEF Next, Workers, Order
  <2>2. Control'
    BY <1>4, ControlGuard, ControlOthers
  <2> QED BY <1>4, <2>1, <2>2, BudgetOthers DEF IInv
<1> QED BY <1>2, <1>3, <1>4

\* The report follows the final state, and the floor has the last word.
LEMMA ReportFacts ==
    ASSUME IInv, Report
    PROVE  /\ result'.disposition = "close_fp" =>
                 /\ ~halted /\ supErr = "none" /\ verErr = "none" /\ ~interrupted
                 /\ ~WorkerCloseVetoed
                 /\ verdict \in {"close", "none"}
           /\ halted \/ supErr # "none" \/ verErr # "none"
                 => result'.disposition \in {"none", "leave_open"}
<1>1. halted \in BOOLEAN /\ supErr \in Errors \cup {"none"} /\ verErr \in Errors \cup {"none"}
      /\ interrupted \in BOOLEAN
  BY DEF IInv, TypeOK
<1>2. /\ RunStatus \in {"completed", "failed", "halted_budget", "released"}
      /\ RunStatus = "completed" => ~halted /\ supErr = "none" /\ verErr = "none"
      /\ ~halted /\ supErr = "none" /\ verErr = "none" => RunStatus = "completed"
  BY <1>1 DEF RunStatus, Errors
<1>3. result'.disposition =
         IF RunStatus \in {"failed", "released"} THEN "none"
         ELSE ApplyWorkerFloor(DispositionFromFinal(RunStatus))
  BY DEF Report
<1>4. RunStatus # "completed" => DispositionFromFinal(RunStatus) = "leave_open"
  BY DEF DispositionFromFinal
<1>5. RunStatus # "completed" => result'.disposition \in {"none", "leave_open"}
  BY <1>3, <1>4 DEF ApplyWorkerFloor
<1>6. DispositionFromFinal(RunStatus) = "close_fp" =>
         RunStatus = "completed" /\ ~interrupted /\ verdict \in {"close", "none"}
  BY DEF DispositionFromFinal
<1>7. result'.disposition = "close_fp" =>
         DispositionFromFinal(RunStatus) = "close_fp" /\ ~WorkerCloseVetoed
  BY <1>3 DEF ApplyWorkerFloor
<1> QED BY <1>2, <1>5, <1>6, <1>7

\* Once a run has reported, nothing it reported on changes.
LEMMA AfterReport ==
    ASSUME IInv, [Next]_vars, result.status # "running"
    PROVE  UNCHANGED vars
<1>1. node = "END"
  BY DEF IInv, Control, Reported
<1> QED BY <1>1 DEF Next, ResolveTriagePolicy, OperationalClose, Supervisor, SupervisorHalts,
     SupervisorForcesVerdict, SupervisorDecides, SupervisorFails, Workers, WazuhWorker,
     CortexWorker, MispUnreachable, MispWorker, GatherAuthorizationContext, VerdictRendered,
     VerdictFails, VerdictGuard, VerdictGuardPasses, HumanReview, HumanReviewInterrupts,
     TheHiveWorker, CloseInvestigation, GraphRaises, Report, Runs

\* Before it reports it has said nothing.
LEMMA NothingSaid ==
    ASSUME IInv, [Next]_vars, result.status = "running", ~Report
    PROVE  result'.disposition = "none"
<1>1. result.disposition = "none"
  BY DEF IInv, Control, Reported
<1>2. CASE GraphRaises
  BY <1>2 DEF GraphRaises
<1>3. CASE ~GraphRaises
  <2>1. UNCHANGED result
    <3>1. CASE UNCHANGED vars
      BY <3>1 DEF vars
    <3>2. CASE Supervisor \/ Workers
      BY <3>2, Zenon DEF Supervisor, SupervisorHalts, SupervisorForcesVerdict, SupervisorDecides,
         SupervisorFails, Workers, WazuhWorker, CortexWorker, MispUnreachable, MispWorker
    <3>3. CASE Next /\ ~Supervisor /\ ~Workers
      BY <1>3, <3>3, Zenon DEF Next, ResolveTriagePolicy, OperationalClose,
         GatherAuthorizationContext, VerdictRendered, VerdictFails, VerdictGuard,
         VerdictGuardPasses, HumanReview, HumanReviewInterrupts, TheHiveWorker,
         CloseInvestigation
    <3> QED BY <3>1, <3>2, <3>3
  <2> QED BY <1>1, <2>1
<1> QED BY <1>2, <1>3

\* The four promises about what a run reports.
Promises ==
    RequiredStepFirst /\ SignoffHolds /\ FailuresJudgeNothing /\ RouterCloseLegal

LEMMA InitPromises == Init => Promises
BY DEF Init, Promises, RequiredStepFirst, SignoffHolds, FailuresJudgeNothing,
   RouterCloseLegal, Closed

LEMMA NextPromises == IInv /\ IInv' /\ Promises /\ [Next]_vars => Promises'
<1> SUFFICES ASSUME IInv, IInv', Promises, [Next]_vars PROVE Promises'
  OBVIOUS
<1>1. (verdict # "none" /\ policy.required => gathered)'
  BY DEF IInv, Control, Order, StepDone
<1>2. CASE result.status # "running"
  <2>1. UNCHANGED vars
    BY <1>2, AfterReport
  <2> QED BY <2>1 DEF Promises, RequiredStepFirst, SignoffHolds,
          FailuresJudgeNothing, RouterCloseLegal, Closed, vars, policy
<1>3. CASE result.status = "running" /\ ~Report
  <2>1. result'.disposition = "none"
    BY <1>3, NothingSaid
  <2> QED BY <1>1, <2>1 DEF Promises, RequiredStepFirst, SignoffHolds,
          FailuresJudgeNothing, RouterCloseLegal, Closed
<1>4. CASE result.status = "running" /\ Report
  <2>1. UNCHANGED <<node, case, enrichments, misp, action, gathered, supErr, halted, verdict,
                    interrupted, verErr>> /\ node = "END"
    BY <1>4 DEF Report, evidence, control, judgment
  <2>2. policy' = policy
    BY <2>1 DEF policy
  <2>3. /\ Closed' => ~halted /\ supErr = "none" /\ verErr = "none" /\ ~interrupted
        /\ halted \/ supErr # "none" \/ verErr # "none"
              => result'.disposition \in {"none", "leave_open"}
    BY <1>4, ReportFacts DEF Closed
  <2>4. FailuresJudgeNothing'
    BY <2>1, <2>3 DEF FailuresJudgeNothing
  <2>5. Exits /\ SignoffKept
    BY DEF IInv, Control
  <2>6. Closed' /\ policy.disposition = "none" =>
           StepDone /\ (verdict = "none" => RouterMayClose)
    BY <1>4, <2>1, <2>3, <2>5 DEF Exits
  <2>7. RequiredStepFirst' /\ RouterCloseLegal'
    BY <1>1, <2>1, <2>2, <2>6 DEF RequiredStepFirst, RouterCloseLegal, StepDone, RouterMayClose
  <2>8. SignoffHolds'
    BY <1>4, <2>1, <2>2, <2>3, <2>5 DEF SignoffHolds, SignoffKept
  <2> QED BY <2>4, <2>7, <2>8 DEF Promises
<1> QED BY <1>2, <1>3, <1>4

\* Every state of a run is well typed and within the budget of its node.
THEOREM GraphTypeCorrect == Spec => []TypeOK
<1>1. IInv => TypeOK
  BY DEF IInv
<1> QED BY <1>1, InitIInv, NextIInv, PTL DEF Spec

\* A run takes at most 2 * MAX_ITERATIONS + 7 super-steps, and four more per
\* review that answers MORE_INFO (supervisor/node.py, graph/builder.py).
THEOREM GraphBounded == Spec => []BoundedRun
<1>1. IInv => BoundedRun
  <2> SUFFICES ASSUME IInv PROVE BoundedRun
    OBVIOUS
  <2>1. TypeOK /\ Budgeted /\ steps \in Nat /\ human.rounds \in Nat
        /\ MAX_ITERATIONS \in Nat \ {0}
    BY LimitsAssumption DEF IInv, TypeOK, HumanType
  <2>2. Spent \in Nat /\ Spent >= 1
        /\ Spent + 6 <= 2 * MAX_ITERATIONS + 7 + 4 * human.rounds
    BY <2>1, SpentType
  <2>3. steps <= Spent + 6
    BY <2>1, <2>2 DEF Budgeted, TypeOK, Nodes
  <2> QED BY <2>1, <2>2, <2>3 DEF BoundedRun
<1> QED BY <1>1, InitIInv, NextIInv, PTL DEF Spec

\* The required step, the sign-off, the failure contract and the legal set of
\* the router hold on every path of the graph.
THEOREM GraphPromises ==
    Spec => [](PolicyKept /\ SignoffHolds /\ FailuresJudgeNothing)
<1>1. Spec => [](IInv /\ Promises)
  BY InitIInv, NextIInv, InitPromises, NextPromises, PTL DEF Spec
<1>2. IInv /\ Promises => PolicyKept /\ SignoffHolds /\ FailuresJudgeNothing
  BY DEF Promises, PolicyKept
<1> QED BY <1>1, <1>2, PTL

-----------------------------------------------------------------------------
(***************************************************************************)
(* The floor is the second line                                            *)
(***************************************************************************)

\* What the floor would hold against a close that rests on a verdict.
EdgeCrossed == HasMaliciousSignal \/ case.authz = "contradicted"

\* A draft that would close the case is before the guard, waits for a human or
\* failed; or it has passed the guard, the graph is on its way out, and nothing
\* can bring evidence any more.
DraftKept ==
    verdict = "close" /\ ~interrupted /\ verErr = "none" /\ result.status # "failed" =>
        \/ node = "verdict_guard"
        \/ node \in {"close_investigation", "END"} /\ ~EdgeCrossed

\* The guard lets a close stand only when no edge is crossed.
LEMMA GuardEdges ==
    ASSUME TypeOK, Order, VerdictGuard, verdict' = "close"
    PROVE  ~EdgeCrossed
<1>1. verdict \in Decisions
  BY DEF Order, TypeOK, VerdictGuard, Runs
<1>2. PICK i \in 0..Len(policy.guardrails) : verdict' = EvaluateGuard(verdict, i).final
  BY Zenon DEF VerdictGuard
<1>3. verdict = "close"
  BY <1>1, <1>2, GuardFacts
<1>4. CodeEdge(verdict) => EvaluateGuard(verdict, i).final = "escalate"
  BY DEF EvaluateGuard
<1> QED BY <1>2, <1>3, <1>4 DEF CodeEdge, EdgeCrossed

LEMMA InitDraftKept == Init => DraftKept
BY DEF Init, DraftKept

LEMMA NextDraftKept == IInv /\ DraftKept /\ [Next]_vars => DraftKept'
<1> SUFFICES ASSUME IInv, DraftKept, [Next]_vars PROVE DraftKept'
  OBVIOUS
<1>1. TypeOK /\ Order /\ Reported
  BY DEF IInv, Control
<1>2. CASE UNCHANGED vars
  BY <1>2 DEF vars, DraftKept, EdgeCrossed, HasMaliciousSignal
<1>3. CASE Supervisor
  <2>1. node = "supervisor" /\ UNCHANGED <<verdict, interrupted, verErr, result>>
    BY <1>1, <1>3, SupervisorStep
  <2> QED BY <2>1 DEF DraftKept
<1>4. CASE Workers
  <2>1. node \in {"wazuh_worker", "cortex_worker", "misp_worker"}
        /\ UNCHANGED <<judgment, result>>
    BY <1>4 DEF Workers, WazuhWorker, CortexWorker, MispUnreachable, MispWorker, Runs
  <2> QED BY <2>1 DEF DraftKept, judgment
<1>5. CASE ResolveTriagePolicy \/ OperationalClose \/ GatherAuthorizationContext \/ HumanReview
           \/ HumanReviewInterrupts \/ TheHiveWorker
  <2>1. node \in {"resolve_triage_policy", "operational_close", "gather_authorization_context",
                  "human_review", "thehive_worker"}
        /\ UNCHANGED <<judgment, result>>
    BY <1>5, Zenon DEF ResolveTriagePolicy, OperationalClose, GatherAuthorizationContext, HumanReview,
       HumanReviewInterrupts, TheHiveWorker, Runs
  <2> QED BY <2>1 DEF DraftKept, judgment
<1>6. CASE VerdictRendered
  BY <1>6 DEF VerdictRendered, DraftKept
<1>7. CASE VerdictFails \/ VerdictGuardPasses
  <2>1. verErr' # "none"
    BY <1>7 DEF VerdictFails, VerdictGuardPasses, Errors, judgment
  <2> QED BY <2>1 DEF DraftKept
<1>8. CASE VerdictGuard
  <2> SUFFICES ASSUME verdict' = "close", ~interrupted' PROVE DraftKept'
    BY DEF DraftKept
  <2>1. ~EdgeCrossed
    BY <1>1, <1>8, GuardEdges
  <2>2. UNCHANGED <<case, enrichments, misp>>
    BY <1>8 DEF VerdictGuard, evidence
  <2>3. node' = "close_investigation"
    BY <1>8 DEF VerdictGuard, RouteFromVerdict
  <2> QED BY <2>1, <2>2, <2>3 DEF DraftKept, EdgeCrossed, HasMaliciousSignal
<1>9. CASE CloseInvestigation
  BY <1>9 DEF CloseInvestigation, Runs, DraftKept, EdgeCrossed, HasMaliciousSignal, evidence, judgment
<1>10. CASE GraphRaises
  BY <1>10 DEF GraphRaises, DraftKept
<1>11. CASE Report
  <2>1. node = "END" /\ result.status # "failed" /\ UNCHANGED <<node, evidence, judgment>>
    BY <1>11 DEF Report
  <2> QED BY <2>1 DEF DraftKept, EdgeCrossed, HasMaliciousSignal, evidence, judgment
<1> QED BY <1>2, <1>3, <1>4, <1>5, <1>6, <1>7, <1>8, <1>9, <1>10, <1>11 DEF Next

\* A close that rests on a verdict never needs the floor: the guard, the
\* interrupt flag and the routes keep it from every crossed edge themselves.
THEOREM FloorOnlyForTheRouter == Spec => []FloorIsSecondLine
<1>1. IInv /\ DraftKept => FloorIsSecondLine
  <2> SUFFICES ASSUME IInv, DraftKept, node = "END", result.status # "failed",
                      DispositionFromFinal(RunStatus) = "close_fp", WorkerCloseVetoed,
                      verdict # "none"
               PROVE  FALSE
    BY DEF FloorIsSecondLine
  <2>1. supErr \in Errors \cup {"none"} /\ verErr \in Errors \cup {"none"}
    BY DEF IInv, TypeOK
  <2>2. RunStatus = "completed" /\ ~interrupted /\ verdict = "close"
    BY DEF DispositionFromFinal
  <2>3. verErr = "none"
    BY <2>1, <2>2 DEF RunStatus, Errors
  <2>4. ~EdgeCrossed
    BY <2>2, <2>3 DEF DraftKept
  <2> QED BY <2>2, <2>4 DEF WorkerCloseVetoed, EdgeCrossed
<1> QED BY <1>1, InitIInv, NextIInv, InitDraftKept, NextDraftKept, PTL DEF Spec
=============================================================================
