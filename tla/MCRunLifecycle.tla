--------------------------- MODULE MCRunLifecycle ---------------------------
(* Instances of RunLifecycle for TLC. *)
EXTENDS RunLifecycle, TLC

Symmetric ==
    Permutations(Investigations) \cup Permutations(Runs)
        \cup Permutations(Workers) \cup Permutations(Events)
=============================================================================
