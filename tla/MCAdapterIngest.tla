--------------------------- MODULE MCAdapterIngest ---------------------------
(* Instances of AdapterIngest for TLC. *)
EXTENDS AdapterIngest

\* An alert and two of a later timestamp: the first page ends between the two.
Burst == {[ts |-> 1, id |-> 1], [ts |-> 2, id |-> 1], [ts |-> 2, id |-> 2]}

\* SOCTALK_INGEST_INITIAL_TS names the timestamp of the first alert.
FirstTimestamp == [ts |-> 1, id |-> 0]
=============================================================================
