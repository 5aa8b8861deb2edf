------------------------- MODULE MCTenantLifecycle -------------------------
(* A tenant and the workers of two overlapping releases of the control     *)
(* plane, with bounded edits, retries and faults.  The workers are         *)
(* interchangeable.                                                        *)
EXTENDS TenantLifecycle, TLC

Symmetry == Permutations(Workers)

Edited == config > 0 \/ edit # NoEdit

\* A retry is not combined with an edit or a fault, which give states enough,
\* nor an edit with an agent, whose tenant has no release on this cluster; and
\* what comes after a missed edit, or after a stale write beside one, is left.
OneThingAtATime ==
    /\ retries > 0 => ~Edited /\ faults = 0
    /\ Edited => ~remote /\ ~missed /\ ~overwritten
    /\ ~(missed /\ overwritten)
=============================================================================
