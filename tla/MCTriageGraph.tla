--------------------------- MODULE MCTriageGraph ---------------------------
EXTENDS TriageGraph, TLC

Unlisted == [p \in {"triage", "decide"} |-> {}]

NoPolicy == [required |-> FALSE, legal |-> Unlisted, disposition |-> "none",
             signoff |-> FALSE, guardrails |-> <<>>]

\* registry.py: the two built-in policies.
PrivilegedExec ==
    [NoPolicy EXCEPT !.required = TRUE, !.signoff = TRUE,
                     !.legal = [p \in {"triage", "decide"} |-> Actions \ {"CLOSE"}]]
AgentHealth == [NoPolicy EXCEPT !.disposition = "close_operational"]

\* A tenant-authored policy: VERDICT alone in decide, ENRICH alone in triage.
Authored ==
    [NoPolicy EXCEPT
        !.required = TRUE, !.signoff = TRUE,
        !.legal = [triage |-> {"ENRICH"}, decide |-> {"VERDICT"}],
        !.guardrails = <<[effect |-> "override", to |-> "needs_more_info"],
                         [effect |-> "interrupt", to |-> "human_review"]>>]

\* A policy file that lets the router close, but not after the step has run.
RouterFile ==
    [NoPolicy EXCEPT
        !.required = TRUE,
        !.legal = [triage |-> {"CLOSE", "INVESTIGATE"}, decide |-> {"INVESTIGATE"}],
        !.guardrails = <<[effect |-> "override", to |-> "escalate"]>>]

\* A policy file that only puts closes before a human: the router is free.
Reviewed ==
    [NoPolicy EXCEPT !.guardrails = <<[effect |-> "interrupt", to |-> "human_review"]>>]

Symmetry == Permutations(Observables)

MCPolicies == {NoPolicy, PrivilegedExec, AgentHealth, Authored, RouterFile, Reviewed}
=============================================================================
