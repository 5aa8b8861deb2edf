--------------------------- MODULE TriageContract ---------------------------
(***************************************************************************)
(* What the run machinery promises to the rest of the system, without      *)
(* leases, workers, retries or reviews: a run belongs to one               *)
(* investigation for good, an investigation has at most one live run, and  *)
(* a run either gives exactly one verdict or is dropped without one.       *)
(* Nothing that happened to a settled or a dropped run ever changes.       *)
(***************************************************************************)
EXTENDS Naturals

CONSTANTS Investigations, Runs, NoCase

VARIABLES
    caseOf,   \* the investigation a run triages
    phase,    \* "unused", "live", "settled" or "dropped"
    verdicts  \* how often the run's verdict took effect

contractVars == <<caseOf, phase, verdicts>>

LiveOn(i) == {r \in Runs : caseOf[r] = i /\ phase[r] = "live"}

ContractInit ==
    /\ caseOf = [r \in Runs |-> NoCase]
    /\ phase = [r \in Runs |-> "unused"]
    /\ verdicts = [r \in Runs |-> 0]

\* A new or reopened investigation gets a run, if it has none.
Open(i, r) ==
    /\ phase[r] = "unused"
    /\ LiveOn(i) = {}
    /\ caseOf' = [caseOf EXCEPT ![r] = i]
    /\ phase' = [phase EXCEPT ![r] = "live"]
    /\ UNCHANGED verdicts

\* The verdict of r takes effect.
Settle(r) ==
    /\ phase[r] = "live"
    /\ phase' = [phase EXCEPT ![r] = "settled"]
    /\ verdicts' = [verdicts EXCEPT ![r] = 1]
    /\ UNCHANGED caseOf

\* The verdict of r takes effect and its case gets the next run at once.
SettleAndContinue(r, r2) ==
    /\ phase[r] = "live" /\ phase[r2] = "unused"
    /\ phase' = [phase EXCEPT ![r] = "settled", ![r2] = "live"]
    /\ caseOf' = [caseOf EXCEPT ![r2] = caseOf[r]]
    /\ verdicts' = [verdicts EXCEPT ![r] = 1]

\* r fails or its case is cancelled: there will be no verdict.
Drop(r) ==
    /\ phase[r] = "live"
    /\ phase' = [phase EXCEPT ![r] = "dropped"]
    /\ UNCHANGED <<caseOf, verdicts>>

ContractNext ==
    \E r \in Runs :
        \/ \E i \in Investigations : Open(i, r)
        \/ Settle(r)
        \/ \E r2 \in Runs : SettleAndContinue(r, r2)
        \/ Drop(r)

Contract == ContractInit /\ [][ContractNext]_contractVars
=============================================================================
