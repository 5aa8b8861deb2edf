---------------------------- MODULE MCAgentInstall ----------------------------
(* Instances of AgentInstall for TLC. *)
EXTENDS AgentInstall

\* Explored up to a recorded cause, which the properties but OneCredential exempt, and
\* up to a hold, which changes the row of the tenant only.
UpToACause == causes = {} /\ tenant # "held"

=============================================================================
