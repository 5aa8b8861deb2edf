---------------------------- MODULE AdapterIngest ----------------------------
(***************************************************************************)
(* The tenant adapter and the control plane it feeds:                      *)
(*                                                                         *)
(*   - an adapter pod polls the indexer from a keyset cursor (ts, id),     *)
(*     posts what its rate limiter admits, moves the cursor and saves it   *)
(*     (soctalk_adapter/main.py);                                          *)
(*   - the control plane ingests a batch idempotently and keeps one        *)
(*     durable checkpoint (core/api/adapter.py).                           *)
(*                                                                         *)
(* A pod is replaced at any moment and for a while two of them run (the    *)
(* rolling update of a Deployment).  A request its sender has given up may *)
(* still be on its way: it is a stray until it is applied or lost.         *)
(***************************************************************************)
EXTENDS Naturals, FiniteSets

CONSTANTS
    Alerts,      \* sort keys of the alerts the query selects
    Adapters,    \* adapter pods
    BatchSize,   \* SOCTALK_INGEST_BATCH_SIZE
    Start,       \* the cursor of a pod that knows no better: the epoch, or the
                 \* time SOCTALK_INGEST_INITIAL_TS names, and no event id
    MaxFaults    \* bound: lost or late answers, failed loads, pods that die

Keys == [ts : Nat, id : Nat]

\* The query never selects what lies before the configured start.
ASSUME StartAssumption == Start \in Keys /\ Start.id = 0
ASSUME AlertsAssumption ==
    /\ IsFiniteSet(Alerts)
    /\ Alerts \subseteq [ts : Nat, id : Nat \ {0}]
    /\ \A a \in Alerts : a.ts >= Start.ts
ASSUME BatchAssumption == BatchSize \in Nat \ {0}
ASSUME FaultsAssumption == MaxFaults \in Nat

VARIABLES
    mode,         \* SOCTALK_ADAPTER_RATE_LIMIT_MODE
    indexed,      \* alerts in the indexer
    ingested,     \* rows of alert_source_events
    dropped,      \* alerts counted in alerts_dropped_rate_limit
    checkpoint,   \* adapter_checkpoints: cursor_ts, cursor_event_id
    stray,        \* requests whose sender has given up
    phase,        \* what the ingest loop of a pod is doing
    cursor,       \* last_alert_ts, last_alert_id
    batch, next,  \* the events being posted and the cursor after them
    loaded,       \* pods with checkpoint_loaded
    saved,        \* pods with checkpoint_saved
    failing,      \* pods with checkpoint_save_failing
    faults

flags == <<loaded, saved, failing>>
server == <<ingested, checkpoint>>
vars == <<mode, indexed, dropped, server, stray, phase, cursor, batch, next, flags, faults>>

\* "saving": the save of _ingest_once; "resaving": that of _poll_cycle.
Phases == {"down", "loading", "idle", "posting", "saving", "resaving"}
Requests ==
    [n : 1..MaxFaults, kind : {"post"}, alerts : SUBSET Alerts]
        \cup [n : 1..MaxFaults, kind : {"put"}, key : Keys]

TypeOK ==
    /\ mode \in {"defer", "shed"}
    /\ indexed \subseteq Alerts /\ ingested \subseteq Alerts /\ dropped \subseteq Alerts
    /\ checkpoint \in Keys
    /\ stray \subseteq Requests
    /\ phase \in [Adapters -> Phases]
    /\ cursor \in [Adapters -> Keys]
    /\ batch \in [Adapters -> SUBSET Alerts]
    /\ next \in [Adapters -> Keys]
    /\ loaded \subseteq Adapters /\ saved \subseteq Adapters /\ failing \subseteq Adapters
    /\ faults \in 0..MaxFaults

Init ==
    /\ mode \in {"defer", "shed"}
    /\ indexed = {} /\ ingested = {} /\ dropped = {}
    /\ checkpoint = Start
    /\ stray = {}
    /\ phase = [p \in Adapters |-> "down"]
    /\ cursor = [p \in Adapters |-> Start]
    /\ batch = [p \in Adapters |-> {}]
    /\ next = [p \in Adapters |-> Start]
    /\ loaded = {} /\ saved = {} /\ failing = {}
    /\ faults = 0

-----------------------------------------------------------------------------
(* The indexer.                                                            *)

\* a is at or behind k in the order of the query: @timestamp, then id.
Upto(a, k) == a.ts < k.ts \/ (a.ts = k.ts /\ a.id <= k.id)

First(S, n) == {a \in S : Cardinality({b \in S : Upto(b, a)}) <= n}

\* Mutant of Page: the next page starts at the next timestamp.
Page_NextTimestamp(p) == First({a \in indexed : a.ts > cursor[p].ts}, BatchSize)

\* _query_alerts: search_after the cursor.
Page(p) == First({a \in indexed : ~Upto(a, cursor[p])}, BatchSize)

LastOf(S, a) == a \in S /\ \A b \in S : Upto(b, a)

\* Alerts become searchable in the order of the query.
Index(a) ==
    /\ a \notin indexed
    /\ \A b \in indexed : Upto(b, a)
    /\ indexed' = indexed \cup {a}
    /\ UNCHANGED <<mode, dropped, server, stray, phase, cursor, batch, next, flags, faults>>

-----------------------------------------------------------------------------
(* Start of a pod.                                                         *)

Boot(p) ==
    /\ phase[p] = "down"
    /\ phase' = [phase EXCEPT ![p] = "loading"]
    /\ UNCHANGED <<mode, indexed, dropped, server, stray, cursor, batch, next, flags, faults>>

\* _load_checkpoint, one of its attempts succeeds.
LoadCheckpoint(p) ==
    /\ phase[p] = "loading"
    /\ phase' = [phase EXCEPT ![p] = "idle"]
    /\ cursor' = [cursor EXCEPT ![p] = checkpoint]
    /\ loaded' = loaded \cup {p}
    /\ UNCHANGED <<mode, indexed, dropped, server, stray, batch, next, saved, failing, faults>>

\* All attempts fail: the loop starts from the local cursor.
GiveUpLoading(p) ==
    /\ phase[p] = "loading"
    /\ faults < MaxFaults
    /\ faults' = faults + 1
    /\ phase' = [phase EXCEPT ![p] = "idle"]
    /\ UNCHANGED <<mode, indexed, dropped, server, stray, cursor, batch, next, flags>>

-----------------------------------------------------------------------------
(* A poll.                                                                 *)

\* Mutant of Forward: the cursor goes to the end of the page whatever the
\* limiter admitted.
Forward_WholePage(p, last, tail) ==
    LET head == {a \in Page(p) : Upto(a, last)}
    IN  /\ phase[p] = "idle"
        /\ last \in Page(p)
        /\ LastOf(Page(p), tail)
        /\ phase' = [phase EXCEPT ![p] = "posting"]
        /\ batch' = [batch EXCEPT ![p] = head]
        /\ next' = [next EXCEPT ![p] = tail]
        /\ dropped' = IF mode = "shed" THEN dropped \cup (Page(p) \ head) ELSE dropped
        /\ UNCHANGED <<mode, indexed, server, stray, cursor, flags, faults>>

\* _ingest_once up to the POST: the limiter admits the page up to last.  In
\* shed mode a rest is discarded and the cursor will pass it.
Forward(p, last, tail) ==
    LET head == {a \in Page(p) : Upto(a, last)}
    IN  /\ phase[p] = "idle"
        /\ last \in Page(p)
        /\ LastOf(Page(p), tail)
        /\ phase' = [phase EXCEPT ![p] = "posting"]
        /\ batch' = [batch EXCEPT ![p] = head]
        /\ next' = [next EXCEPT ![p] = IF mode = "shed" THEN tail ELSE last]
        /\ dropped' = IF mode = "shed" THEN dropped \cup (Page(p) \ head) ELSE dropped
        /\ UNCHANGED <<mode, indexed, server, stray, cursor, flags, faults>>

\* _ingest_once in shed mode with an empty bucket: nothing is posted.
ShedPage(p, tail) ==
    /\ phase[p] = "idle"
    /\ mode = "shed"
    /\ LastOf(Page(p), tail)
    /\ phase' = [phase EXCEPT ![p] = "saving"]
    /\ cursor' = [cursor EXCEPT ![p] = tail]
    /\ dropped' = dropped \cup Page(p)
    /\ UNCHANGED <<mode, indexed, server, stray, batch, next, flags, faults>>

\* _poll_cycle after a poll that moved nothing (no alerts, or an empty bucket
\* in defer mode): a checkpoint that is not known to be saved is saved.
RecoverCheckpoint(p) ==
    /\ phase[p] = "idle"
    /\ mode = "shed" => Page(p) = {}
    /\ p \in failing \/ p \notin loaded \cup saved
    /\ phase' = [phase EXCEPT ![p] = "resaving"]
    /\ UNCHANGED <<mode, indexed, dropped, server, stray, cursor, batch, next, flags, faults>>

\* ingest_events, answered: alert_source_events absorbs what it has seen.
IngestEvents(p) ==
    /\ phase[p] = "posting"
    /\ ingested' = ingested \cup batch[p]
    /\ cursor' = [cursor EXCEPT ![p] = next[p]]
    /\ phase' = [phase EXCEPT ![p] = "saving"]
    /\ batch' = [batch EXCEPT ![p] = {}]
    /\ next' = [next EXCEPT ![p] = Start]
    /\ UNCHANGED <<mode, indexed, dropped, checkpoint, stray, flags, faults>>

\* Mutant of Merge: the last writer wins.
Merge_LastWriter(old, new) == new

\* The upsert of put_checkpoint.
Merge(old, new) ==
    [ts |-> IF new.ts >= old.ts THEN new.ts ELSE old.ts,
     id |-> IF new.ts >= old.ts THEN new.id ELSE old.id]

\* put_checkpoint, answered.
PutCheckpoint(p) ==
    /\ phase[p] \in {"saving", "resaving"}
    /\ checkpoint' = Merge(checkpoint, cursor[p])
    /\ phase' = [phase EXCEPT ![p] = "idle"]
    /\ saved' = saved \cup {p}
    /\ failing' = failing \ {p}
    /\ UNCHANGED <<mode, indexed, dropped, ingested, stray, cursor, batch, next, loaded, faults>>

-----------------------------------------------------------------------------
(* Faults.                                                                 *)

\* The request p waits for, as the n-th stray.
Request(p, n) ==
    IF phase[p] = "posting" THEN [n |-> n, kind |-> "post", alerts |-> batch[p]]
                            ELSE [n |-> n, kind |-> "put", key |-> cursor[p]]

\* p waits for an answer no longer; its request is lost or a stray.
GiveUp(p) ==
    /\ faults < MaxFaults
    /\ faults' = faults + 1
    /\ \/ stray' = stray
       \/ /\ phase[p] \in {"posting", "saving", "resaving"}
          /\ stray' = stray \cup {Request(p, faults + 1)}

\* A timeout or an error answer.  A failed POST is a failed poll; a failed
\* save is tried once more at the end of the poll.
TimeOut(p) ==
    /\ phase[p] \in {"posting", "saving", "resaving"}
    /\ GiveUp(p)
    /\ phase' = [phase EXCEPT ![p] = IF @ = "saving" THEN "resaving" ELSE "idle"]
    /\ failing' = IF phase[p] = "posting" THEN failing ELSE failing \cup {p}
    /\ batch' = [batch EXCEPT ![p] = {}]
    /\ next' = [next EXCEPT ![p] = Start]
    /\ UNCHANGED <<mode, indexed, dropped, server, cursor, loaded, saved>>

\* The pod dies or is replaced; its _State is gone.
Crash(p) ==
    /\ phase[p] # "down"
    /\ GiveUp(p)
    /\ phase' = [phase EXCEPT ![p] = "down"]
    /\ cursor' = [cursor EXCEPT ![p] = Start]
    /\ batch' = [batch EXCEPT ![p] = {}]
    /\ next' = [next EXCEPT ![p] = Start]
    /\ loaded' = loaded \ {p} /\ saved' = saved \ {p} /\ failing' = failing \ {p}
    /\ UNCHANGED <<mode, indexed, dropped, server>>

\* A stray is applied after all.
Deliver(m) ==
    /\ m \in stray
    /\ stray' = stray \ {m}
    /\ \/ /\ m.kind = "post"
          /\ ingested' = ingested \cup m.alerts
          /\ UNCHANGED checkpoint
       \/ /\ m.kind = "put"
          /\ checkpoint' = Merge(checkpoint, m.key)
          /\ UNCHANGED ingested
    /\ UNCHANGED <<mode, indexed, dropped, phase, cursor, batch, next, flags, faults>>

-----------------------------------------------------------------------------
Poll(p) ==
    \/ \E last, tail \in Alerts : Forward(p, last, tail)
    \/ \E tail \in Alerts : ShedPage(p, tail)
    \/ RecoverCheckpoint(p)

Loop(p) ==
    \/ Boot(p)
    \/ LoadCheckpoint(p)
    \/ Poll(p)
    \/ IngestEvents(p)
    \/ PutCheckpoint(p)

Fail(p) == GiveUpLoading(p) \/ TimeOut(p) \/ Crash(p)

Next ==
    \/ \E a \in Alerts : Index(a)
    \/ \E p \in Adapters : Loop(p) \/ Fail(p)
    \/ \E m \in stray : Deliver(m)

Spec == Init /\ [][Next]_vars

-----------------------------------------------------------------------------
(* Properties.                                                             *)

\* "nothing is lost": what lies behind the durable cursor, from which the next
\* pod starts, has been ingested, or was counted as dropped in shed mode.
NothingSkipped ==
    \A a \in indexed : Upto(a, checkpoint) =>
        a \in ingested \/ (mode = "shed" /\ a \in dropped)

\* "the durable cursor is in sync": a pod between two saves that reports
\* neither checkpoint_not_loaded nor checkpoint_save_failing is not ahead of
\* the stored timestamp, whatever strays and other pods have written.
DurableInSync ==
    \A p \in Adapters :
        phase[p] \in {"idle", "posting"} /\ p \in (loaded \cup saved) \ failing
            => cursor[p].ts <= checkpoint.ts

-----------------------------------------------------------------------------
(* Liveness.  The loops poll for ever and pods are started again; the      *)
(* bucket refills, so a poll that finds alerts forwards some of them       *)
(* again and again; requests are answered but for the bounded faults.      *)

Progress(p) == \E last, tail \in Alerts : Forward(p, last, tail)

Fairness ==
    \A p \in Adapters :
        /\ WF_vars(Boot(p)) /\ WF_vars(LoadCheckpoint(p))
        /\ WF_vars(IngestEvents(p)) /\ WF_vars(PutCheckpoint(p))
        /\ SF_vars(Progress(p))

FairSpec == Spec /\ Fairness

\* "what breaks the same-timestamp livelock": every alert the query selects is
\* ingested or counted as dropped, also when a page or the limiter cuts a run
\* of equal timestamps.
AlertsArrive == \A a \in Alerts : a \in indexed ~> a \in ingested \cup dropped

-----------------------------------------------------------------------------
(* What the documents say and the code does not keep.                      *)

\* "a delayed/stale writer must never move the durable cursor backward"
\* (put_checkpoint compares timestamps only).
CursorNeverBack == [][checkpoint' # checkpoint => ~Upto(checkpoint', checkpoint)]_vars
=============================================================================
