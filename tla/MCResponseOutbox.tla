-------------------------- MODULE MCResponseOutbox --------------------------
(* Instances of ResponseOutbox for TLC. *)
EXTENDS ResponseOutbox, TLC

Symmetric ==
    Permutations(Annotations) \cup Permutations(Webhooks) \cup Permutations(Gated)
        \cup Permutations(Executors) \cup Permutations(Operators)
=============================================================================
