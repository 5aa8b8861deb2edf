---------------------------- MODULE AdapterProofs ----------------------------
(***************************************************************************)
(* Proofs about AdapterIngest.  Every cursor anywhere in the system (the   *)
(* checkpoint, a pod's, one on its way in a stray request) is the key of   *)
(* an indexed alert and has nothing unaccounted for behind it.             *)
(***************************************************************************)
EXTENDS AdapterIngest, FiniteSetTheorems, TLAPS

Known(k) == k = Start \/ k \in indexed
Accounted(a) == a \in ingested \/ (mode = "shed" /\ a \in dropped)
Covered(k) == Known(k) /\ \A a \in indexed : Upto(a, k) => Accounted(a)

CoveredPods == \A p \in Adapters : Covered(cursor[p])
CoveredStrays == \A m \in stray : m.kind = "put" => Covered(m.key)

\* The cursor after a POST covers what is accounted for or in the batch.
CoveredNext ==
    \A p \in Adapters : phase[p] = "posting" =>
        /\ Known(next[p])
        /\ \A a \in indexed : Upto(a, next[p]) => Accounted(a) \/ a \in batch[p]

SkipInv == Covered(checkpoint) /\ CoveredPods /\ CoveredStrays /\ CoveredNext

FreshPods == \A p \in Adapters : phase[p] \in {"down", "loading"} => cursor[p] = Start
SyncInv == FreshPods /\ Start.ts <= checkpoint.ts /\ DurableInSync

-----------------------------------------------------------------------------
LEMMA AlertKeys == Alerts \subseteq Keys /\ Start \in Keys
BY AlertsAssumption, StartAssumption DEF Keys

LEMMA UptoOrder ==
    /\ \A a, b, c \in Keys : Upto(a, b) /\ Upto(b, c) => Upto(a, c)
    /\ \A a, b \in Keys : Upto(a, b) /\ Upto(b, a) => a = b
    /\ \A a \in Keys : Upto(a, a)
    /\ \A a \in Alerts : ~Upto(a, Start)
<1>1. \A a, b, c \in Keys : Upto(a, b) /\ Upto(b, c) => Upto(a, c)
  BY DEF Keys, Upto
<1>2. \A a, b \in Keys : Upto(a, b) /\ Upto(b, a) => a = b
  BY DEF Keys, Upto
<1>3. \A a \in Keys : Upto(a, a)
  BY DEF Keys, Upto
<1>4. \A a \in Alerts : ~Upto(a, Start)
  BY AlertsAssumption, StartAssumption DEF Upto, Keys
<1> QED BY <1>1, <1>2, <1>3, <1>4

\* A page leaves out nothing that precedes one of its alerts.
LEMMA FirstIsPrefix ==
    ASSUME NEW S \in SUBSET Alerts, NEW n \in Nat, NEW a \in S, NEW b \in First(S, n),
           Upto(a, b)
    PROVE  a \in First(S, n)
<1> DEFINE A == {c \in S : Upto(c, a)}
           B == {c \in S : Upto(c, b)}
<1>1. A \subseteq B /\ b \in S
  BY UptoOrder, AlertKeys DEF First
<1>2. IsFiniteSet(B)
  <2>1. B \subseteq Alerts
    OBVIOUS
  <2> QED BY <2>1, AlertsAssumption, FS_Subset
<1>3. Cardinality(A) <= Cardinality(B) /\ IsFiniteSet(A)
  BY <1>1, <1>2, FS_Subset
<1>4. Cardinality(A) \in Nat /\ Cardinality(B) \in Nat
  BY <1>2, <1>3, FS_CardinalityType
<1>5. Cardinality(B) <= n
  BY DEF First
<1> HIDE DEF A, B
<1>6. Cardinality(A) <= n
  BY <1>3, <1>4, <1>5
<1> QED BY <1>6 DEF First, A

LEMMA PagePrefix ==
    ASSUME TypeOK, NEW p \in Adapters
    PROVE  /\ Page(p) \subseteq indexed
           /\ \A a \in indexed, b \in Page(p) :
                  Upto(a, b) => Upto(a, cursor[p]) \/ a \in Page(p)
<1> DEFINE S == {a \in indexed : ~Upto(a, cursor[p])}
<1>1. S \in SUBSET Alerts /\ BatchSize \in Nat
  BY BatchAssumption DEF TypeOK
<1>2. Page(p) = First(S, BatchSize)
  BY DEF Page
<1>3. \A a \in S, b \in Page(p) : Upto(a, b) => a \in Page(p)
  BY <1>1, <1>2, FirstIsPrefix
<1>4. Page(p) \subseteq S
  BY <1>2 DEF First
<1> QED BY <1>3, <1>4

LEMMA MergeType ==
    ASSUME NEW old \in Keys, NEW new \in Keys
    PROVE  /\ Merge(old, new) \in Keys
           /\ Merge(old, new) \in {old, new}
           /\ Merge(old, new).ts >= old.ts /\ Merge(old, new).ts >= new.ts
BY DEF Merge, Keys

-----------------------------------------------------------------------------
LEMMA GiveUpType ==
    ASSUME TypeOK, NEW p \in Adapters, GiveUp(p)
    PROVE  stray' \subseteq Requests /\ faults' \in 0..MaxFaults
<1>1. faults' = faults + 1 /\ faults + 1 \in 1..MaxFaults
  BY FaultsAssumption DEF GiveUp, TypeOK
<1>2. Request(p, faults + 1) \in Requests
  BY <1>1 DEF Request, Requests, TypeOK
<1> QED BY <1>1, <1>2 DEF GiveUp, TypeOK

LEMMA AdapterTypeStep == TypeOK /\ [Next]_vars => TypeOK'
<1> SUFFICES ASSUME TypeOK, [Next]_vars PROVE TypeOK'
  OBVIOUS
<1> USE AlertKeys
<1>1. ASSUME NEW a \in Alerts, Index(a) PROVE TypeOK'
  BY <1>1 DEF Index, TypeOK, server, flags
<1>2. ASSUME NEW p \in Adapters, Boot(p) PROVE TypeOK'
  BY <1>2 DEF Boot, TypeOK, server, flags, Phases
<1>3. ASSUME NEW p \in Adapters, LoadCheckpoint(p) PROVE TypeOK'
  BY <1>3 DEF LoadCheckpoint, TypeOK, server, Phases
<1>4. ASSUME NEW p \in Adapters, NEW last \in Alerts, NEW tail \in Alerts, Forward(p, last, tail)
      PROVE  TypeOK'
  <2>1. Page(p) \subseteq Alerts
    BY PagePrefix DEF TypeOK
  <2>2. batch' \in [Adapters -> SUBSET Alerts] /\ next' \in [Adapters -> Keys]
    BY <1>4, <2>1 DEF Forward, TypeOK
  <2>3. dropped' \subseteq Alerts /\ phase' \in [Adapters -> Phases]
    BY <1>4, <2>1 DEF Forward, TypeOK, Phases
  <2> QED BY <1>4, <2>2, <2>3 DEF Forward, TypeOK, server, flags
<1>5. ASSUME NEW p \in Adapters, NEW tail \in Alerts, ShedPage(p, tail) PROVE TypeOK'
  <2>1. Page(p) \subseteq Alerts
    BY PagePrefix DEF TypeOK
  <2> QED BY <1>5, <2>1 DEF ShedPage, TypeOK, server, flags, Phases
<1>6. ASSUME NEW p \in Adapters, RecoverCheckpoint(p) PROVE TypeOK'
  BY <1>6 DEF RecoverCheckpoint, TypeOK, server, flags, Phases
<1>7. ASSUME NEW p \in Adapters, IngestEvents(p) PROVE TypeOK'
  BY <1>7 DEF IngestEvents, TypeOK, flags, Phases
<1>8. ASSUME NEW p \in Adapters, PutCheckpoint(p) PROVE TypeOK'
  <2>1. checkpoint' \in Keys
    BY <1>8, MergeType DEF PutCheckpoint, TypeOK
  <2> QED BY <1>8, <2>1 DEF PutCheckpoint, TypeOK, Phases
<1>9. ASSUME NEW p \in Adapters, GiveUpLoading(p) PROVE TypeOK'
  BY <1>9, FaultsAssumption DEF GiveUpLoading, TypeOK, server, flags, Phases
<1>10. ASSUME NEW p \in Adapters, TimeOut(p) PROVE TypeOK'
  <2>1. stray' \subseteq Requests /\ faults' \in 0..MaxFaults
    BY <1>10, GiveUpType DEF TimeOut
  <2> QED BY <1>10, <2>1 DEF TimeOut, TypeOK, server, Phases
<1>11. ASSUME NEW p \in Adapters, Crash(p) PROVE TypeOK'
  <2>1. stray' \subseteq Requests /\ faults' \in 0..MaxFaults
    BY <1>11, GiveUpType DEF Crash
  <2> QED BY <1>11, <2>1 DEF Crash, TypeOK, server, Phases
<1>12. ASSUME NEW m \in stray, Deliver(m) PROVE TypeOK'
  <2>1. CASE m.kind = "post"
    <3>1. m.alerts \subseteq Alerts
      BY <2>1 DEF TypeOK, Requests
    <3> QED BY <1>12, <2>1, <3>1 DEF Deliver, TypeOK, flags
  <2>2. CASE m.kind = "put"
    <3>1. m.key \in Keys
      BY <2>2 DEF TypeOK, Requests
    <3>2. checkpoint' \in Keys
      BY <1>12, <2>2, <3>1, MergeType DEF Deliver, TypeOK
    <3> QED BY <1>12, <2>2, <3>2 DEF Deliver, TypeOK, flags
  <2> QED BY <1>12, <2>1, <2>2 DEF Deliver
<1>13. CASE UNCHANGED vars
  BY <1>13 DEF vars, server, flags, TypeOK
<1> QED BY <1>1, <1>2, <1>3, <1>4, <1>5, <1>6, <1>7, <1>8, <1>9, <1>10, <1>11, <1>12, <1>13
    DEF Next, Loop, Poll, Fail

\* For every set of alerts and pods the state is well typed; in particular
\* put_checkpoint stores a cursor somebody sent.
THEOREM AdapterTypeCorrect == Spec => []TypeOK
<1>1. Init => TypeOK
  BY AlertKeys, FaultsAssumption DEF Init, TypeOK, Phases
<1> QED BY <1>1, AdapterTypeStep, PTL DEF Spec

-----------------------------------------------------------------------------
\* What a step may do to what is accounted for: only add to it, while the
\* indexer only grows at its end.
LEMMA CoveredStays ==
    ASSUME TypeOK, ingested \subseteq ingested', dropped \subseteq dropped', mode' = mode,
           indexed' = indexed
    PROVE  /\ \A a \in Alerts : Accounted(a) => Accounted(a)'
           /\ \A k : Covered(k) => Covered(k)'
           /\ \A k : Known(k) => Known(k)'
BY DEF Covered, Known, Accounted, TypeOK

LEMMA IndexCovers ==
    ASSUME TypeOK, NEW a \in Alerts, Index(a)
    PROVE  /\ \A k : Known(k) => Known(k)' /\ ~Upto(a, k)
           /\ \A k : Covered(k) => Covered(k)'
<1>1. \A k : Known(k) => ~Upto(a, k)
  <2> SUFFICES ASSUME NEW k, Known(k), Upto(a, k) PROVE FALSE
    OBVIOUS
  <2>1. k \in indexed
    BY UptoOrder DEF Known
  <2>2. Upto(k, a) /\ k \in Keys /\ a \in Keys
    BY <2>1, AlertKeys DEF Index, TypeOK
  <2>3. k = a
    BY <2>2, UptoOrder
  <2> QED BY <2>1, <2>3 DEF Index
<1>2. indexed' = indexed \cup {a} /\ UNCHANGED <<mode, ingested, dropped>>
  BY DEF Index, server
<1>3. \A k : Known(k) => Known(k)'
  BY <1>2 DEF Known
<1>4. \A k : Covered(k) => Covered(k)'
  BY <1>1, <1>2, <1>3 DEF Covered, Accounted
<1> QED BY <1>1, <1>3, <1>4

\* The strays after a request has been given up.
LEMMA GiveUpStrays ==
    ASSUME SkipInv, NEW p \in Adapters, GiveUp(p), \A k : Covered(k) => Covered(k)'
    PROVE  CoveredStrays'
<1>1. \A m \in stray' : m \in stray \/ m = Request(p, faults + 1)
  BY DEF GiveUp
<1>2. Request(p, faults + 1).kind = "put" => Covered(Request(p, faults + 1).key)
  BY DEF Request, SkipInv, CoveredPods
<1> QED BY <1>1, <1>2 DEF SkipInv, CoveredStrays

LEMMA SkipStep == TypeOK /\ SkipInv /\ [Next]_vars => SkipInv'
<1> SUFFICES ASSUME TypeOK, SkipInv, [Next]_vars PROVE SkipInv'
  OBVIOUS
<1>1. ASSUME NEW a \in Alerts, Index(a) PROVE SkipInv'
  <2>1. UNCHANGED <<checkpoint, cursor, stray, phase, next, batch, mode, ingested, dropped>>
        /\ indexed' = indexed \cup {a}
    BY <1>1 DEF Index, server
  <2>2. Covered(checkpoint)' /\ CoveredPods' /\ CoveredStrays'
    BY <1>1, <2>1, IndexCovers DEF SkipInv, CoveredPods, CoveredStrays
  <2>3. CoveredNext'
    BY <1>1, <2>1, IndexCovers DEF SkipInv, CoveredNext, Accounted
  <2> QED BY <2>2, <2>3 DEF SkipInv
<1>2. ASSUME NEW p \in Adapters, NEW last \in Alerts, NEW tail \in Alerts, Forward(p, last, tail)
      PROVE  SkipInv'
  <2>1. UNCHANGED <<checkpoint, cursor, stray, mode, ingested, indexed>>
        /\ dropped \subseteq dropped'
    BY <1>2 DEF Forward, server
  <2>2. Covered(checkpoint)' /\ CoveredPods' /\ CoveredStrays'
    BY <2>1, CoveredStays DEF SkipInv, CoveredPods, CoveredStrays
  <2>3. ASSUME NEW q \in Adapters, phase'[q] = "posting", q # p
        PROVE  /\ Known(next[q])'
               /\ \A a \in indexed' : Upto(a, next'[q]) => Accounted(a)' \/ a \in batch'[q]
    <3>1. phase[q] = "posting" /\ next'[q] = next[q] /\ batch'[q] = batch[q]
      BY <1>2, <2>3 DEF Forward, TypeOK
    <3> QED BY <2>1, <3>1 DEF SkipInv, CoveredNext, TypeOK, Known, Accounted
  <2>4. /\ Known(next[p])'
        /\ \A a \in indexed' : Upto(a, next'[p]) => Accounted(a)' \/ a \in batch'[p]
    <3>1. next'[p] = (IF mode = "shed" THEN tail ELSE last)
          /\ batch'[p] = {a \in Page(p) : Upto(a, last)}
          /\ (mode = "shed" => dropped' = dropped \cup (Page(p) \ batch'[p]))
      BY <1>2 DEF Forward, TypeOK
    <3>2. last \in Page(p) /\ tail \in Page(p) /\ Page(p) \subseteq indexed
      BY <1>2, PagePrefix DEF Forward, LastOf
    <3>3. Known(next[p])'
      BY <2>1, <3>1, <3>2 DEF Known
    <3>4. ASSUME NEW a \in indexed, Upto(a, next'[p]) PROVE Accounted(a)' \/ a \in batch'[p]
      <4>1. CASE Upto(a, cursor[p])
        BY <2>1, <4>1, CoveredStays DEF SkipInv, CoveredPods, Covered, TypeOK
      <4>2. CASE ~Upto(a, cursor[p])
        <5>1. a \in Page(p)
          BY <3>1, <3>2, <3>4, <4>2, PagePrefix
        <5>2. CASE mode = "shed"
          BY <2>1, <3>1, <5>1, <5>2 DEF Accounted
        <5>3. CASE mode # "shed"
          BY <3>1, <3>4, <5>1, <5>3
        <5> QED BY <5>2, <5>3
      <4> QED BY <4>1, <4>2
    <3> QED BY <2>1, <3>3, <3>4
  <2>5. CoveredNext'
    BY <2>3, <2>4 DEF CoveredNext, Known, Accounted
  <2> QED BY <2>2, <2>5 DEF SkipInv
<1>3. ASSUME NEW p \in Adapters, NEW tail \in Alerts, ShedPage(p, tail) PROVE SkipInv'
  <2>1. UNCHANGED <<checkpoint, stray, mode, ingested, indexed, next, batch>>
        /\ dropped' = dropped \cup Page(p) /\ mode = "shed"
    BY <1>3 DEF ShedPage, server
  <2>2. Covered(checkpoint)' /\ CoveredStrays'
    BY <2>1, CoveredStays DEF SkipInv, CoveredStrays
  <2>3. Covered(tail)'
    <3>1. tail \in Page(p) /\ Page(p) \subseteq indexed
      BY <1>3, PagePrefix DEF ShedPage, LastOf
    <3>2. ASSUME NEW a \in indexed, Upto(a, tail) PROVE Accounted(a)'
      <4>1. CASE Upto(a, cursor[p])
        BY <2>1, <4>1, CoveredStays DEF SkipInv, CoveredPods, Covered, TypeOK
      <4>2. CASE ~Upto(a, cursor[p])
        BY <2>1, <3>1, <3>2, <4>2, PagePrefix DEF Accounted
      <4> QED BY <4>1, <4>2
    <3> QED BY <2>1, <3>1, <3>2 DEF Covered, Known
  <2>4. CoveredPods'
    <3>1. \A q \in Adapters : cursor'[q] = tail \/ cursor'[q] = cursor[q]
      BY <1>3 DEF ShedPage, TypeOK
    <3> QED BY <2>1, <2>3, <3>1, CoveredStays DEF SkipInv, CoveredPods
  <2>5. CoveredNext'
    <3>1. \A q \in Adapters : phase'[q] = "posting" => phase[q] = "posting"
      BY <1>3 DEF ShedPage, TypeOK
    <3> QED BY <2>1, <3>1, CoveredStays DEF SkipInv, CoveredNext, TypeOK
  <2> QED BY <2>2, <2>4, <2>5 DEF SkipInv
<1>4. ASSUME NEW p \in Adapters, IngestEvents(p) PROVE SkipInv'
  <2>1. UNCHANGED <<checkpoint, stray, mode, dropped, indexed>>
        /\ ingested' = ingested \cup batch[p]
    BY <1>4 DEF IngestEvents
  <2>2. Covered(checkpoint)' /\ CoveredStrays'
    BY <2>1, CoveredStays DEF SkipInv, CoveredStrays
  <2>3. \A k : k = next[p] => Covered(k)'
    BY <1>4, <2>1 DEF IngestEvents, SkipInv, CoveredNext, Covered, Known, Accounted
  <2>4. CoveredPods'
    <3>1. \A q \in Adapters : cursor'[q] = next[p] \/ cursor'[q] = cursor[q]
      BY <1>4 DEF IngestEvents, TypeOK
    <3>2. \A k : k \in {cursor[q] : q \in Adapters} => Covered(k)'
      BY <2>1, CoveredStays DEF SkipInv, CoveredPods
    <3> QED BY <2>3, <3>1, <3>2 DEF CoveredPods, Covered
  <2>5. CoveredNext'
    <3>1. \A q \in Adapters : phase'[q] = "posting" =>
              phase[q] = "posting" /\ next'[q] = next[q] /\ batch'[q] = batch[q]
      BY <1>4 DEF IngestEvents, TypeOK
    <3> QED BY <2>1, <3>1, CoveredStays DEF SkipInv, CoveredNext, TypeOK
  <2> QED BY <2>2, <2>4, <2>5 DEF SkipInv
<1>5. ASSUME UNCHANGED <<mode, indexed, dropped>>, ingested \subseteq ingested',
             Covered(checkpoint'), CoveredStrays',
             \A q \in Adapters : Covered(cursor'[q]),
             \A q \in Adapters : phase'[q] = "posting" =>
                 phase[q] = "posting" /\ next'[q] = next[q] /\ batch'[q] = batch[q]
      PROVE  SkipInv'
  <2>1. Covered(checkpoint)' /\ CoveredPods'
    BY <1>5, CoveredStays DEF CoveredPods
  <2>2. CoveredNext'
    BY <1>5, CoveredStays DEF SkipInv, CoveredNext, TypeOK
  <2> QED BY <1>5, <2>1, <2>2 DEF SkipInv
<1>6. ASSUME NEW p \in Adapters, Boot(p) \/ RecoverCheckpoint(p) \/ GiveUpLoading(p) PROVE SkipInv'
  <2>1. UNCHANGED <<mode, indexed, dropped, ingested, checkpoint, stray, cursor, next, batch>>
    BY <1>6 DEF Boot, RecoverCheckpoint, GiveUpLoading, server
  <2>2. \A q \in Adapters : phase'[q] = "posting" => phase[q] = "posting"
    BY <1>6 DEF Boot, RecoverCheckpoint, GiveUpLoading, TypeOK
  <2>3. CoveredStrays'
    BY <2>1, CoveredStays DEF SkipInv, CoveredStrays
  <2> QED BY <1>5, <2>1, <2>2, <2>3 DEF SkipInv, CoveredPods
<1>7. ASSUME NEW p \in Adapters, LoadCheckpoint(p) PROVE SkipInv'
  <2>1. UNCHANGED <<mode, indexed, dropped, ingested, checkpoint, stray, next, batch>>
    BY <1>7 DEF LoadCheckpoint, server
  <2>2. \A q \in Adapters : /\ phase'[q] = "posting" => phase[q] = "posting"
                            /\ cursor'[q] = cursor[q] \/ cursor'[q] = checkpoint
    BY <1>7 DEF LoadCheckpoint, TypeOK
  <2>3. CoveredStrays'
    BY <2>1, CoveredStays DEF SkipInv, CoveredStrays
  <2> QED BY <1>5, <2>1, <2>2, <2>3 DEF SkipInv, CoveredPods
<1>8. ASSUME NEW p \in Adapters, PutCheckpoint(p) PROVE SkipInv'
  <2>1. UNCHANGED <<mode, indexed, dropped, ingested, stray, cursor, next, batch>>
        /\ checkpoint' \in {checkpoint, cursor[p]}
    BY <1>8, MergeType DEF PutCheckpoint, TypeOK
  <2>2. \A q \in Adapters : phase'[q] = "posting" => phase[q] = "posting"
    BY <1>8 DEF PutCheckpoint, TypeOK
  <2>3. CoveredStrays'
    BY <2>1, CoveredStays DEF SkipInv, CoveredStrays
  <2> QED BY <1>5, <2>1, <2>2, <2>3 DEF SkipInv, CoveredPods
<1>9. ASSUME NEW p \in Adapters, TimeOut(p) \/ Crash(p) PROVE SkipInv'
  <2>1. UNCHANGED <<mode, indexed, dropped, ingested, checkpoint>> /\ GiveUp(p)
    BY <1>9 DEF TimeOut, Crash, server
  <2>2. \A q \in Adapters :
          /\ phase'[q] = "posting" => phase[q] = "posting" /\ next'[q] = next[q] /\ batch'[q] = batch[q]
          /\ cursor'[q] = cursor[q] \/ cursor'[q] = Start
    BY <1>9 DEF TimeOut, Crash, TypeOK
  <2>3. CoveredStrays'
    BY <2>1, GiveUpStrays, CoveredStays
  <2>4. Covered(Start)
    BY UptoOrder DEF Covered, Known, TypeOK
  <2> QED BY <1>5, <2>1, <2>2, <2>3, <2>4 DEF SkipInv, CoveredPods
<1>10. ASSUME NEW m \in stray, Deliver(m) PROVE SkipInv'
  <2>1. UNCHANGED <<mode, indexed, dropped, cursor, next, batch, phase>>
        /\ ingested \subseteq ingested' /\ stray' \subseteq stray
    BY <1>10 DEF Deliver
  <2>2. Covered(checkpoint')
    <3>1. CASE m.kind = "post"
      BY <1>10, <3>1 DEF Deliver, SkipInv
    <3>2. CASE m.kind = "put"
      <4>1. m.key \in Keys
        BY <3>2 DEF TypeOK, Requests
      <4>2. checkpoint' \in {checkpoint, m.key}
        BY <1>10, <3>2, <4>1, MergeType DEF Deliver, TypeOK
      <4> QED BY <3>2, <4>2 DEF SkipInv, CoveredStrays
    <3> QED BY <1>10, <3>1, <3>2 DEF Deliver
  <2>3. CoveredStrays'
    BY <2>1, CoveredStays DEF SkipInv, CoveredStrays
  <2> QED BY <1>5, <2>1, <2>2, <2>3 DEF SkipInv, CoveredPods
<1>11. CASE UNCHANGED vars
  <2>1. CoveredStrays'
    BY <1>11, CoveredStays DEF vars, server, SkipInv, CoveredStrays
  <2> QED BY <1>5, <1>11, <2>1 DEF vars, server, SkipInv, CoveredPods
<1> QED BY <1>1, <1>2, <1>3, <1>4, <1>6, <1>7, <1>8, <1>9, <1>10, <1>11 DEF Next, Loop, Poll, Fail

\* For every set of alerts, pods and page size and any number of faults, the
\* durable cursor has nothing behind it that was neither ingested nor counted
\* as dropped (_ingest_once, put_checkpoint).
THEOREM AdapterNothingSkipped == Spec => []NothingSkipped
<1>1. Init => TypeOK /\ SkipInv
  BY AlertKeys, FaultsAssumption
     DEF Init, TypeOK, Phases, SkipInv, Covered, Known, CoveredPods, CoveredStrays, CoveredNext
<1>2. SkipInv => NothingSkipped
  BY DEF SkipInv, Covered, Accounted, NothingSkipped
<1> QED BY <1>1, <1>2, AdapterTypeStep, SkipStep, PTL DEF Spec

-----------------------------------------------------------------------------
LEMMA SyncStep == TypeOK /\ SyncInv /\ [Next]_vars => SyncInv'
<1> SUFFICES ASSUME TypeOK, SyncInv, [Next]_vars PROVE SyncInv'
  OBVIOUS
<1>1. \A k \in Keys : k.ts \in Nat
  BY DEF Keys
<1>0. Start.ts \in Nat
  BY <1>1, AlertKeys
<1>2. checkpoint \in Keys /\ checkpoint' \in Keys /\ checkpoint.ts <= checkpoint'.ts
  <2>1. checkpoint' \in Keys /\ checkpoint \in Keys
    BY AdapterTypeStep DEF TypeOK
  <2>2. \/ checkpoint' = checkpoint
        \/ \E k \in Keys : checkpoint' = Merge(checkpoint, k)
    BY DEF Next, vars, Index, Loop, Boot, LoadCheckpoint, Poll, Forward, ShedPage, RecoverCheckpoint,
       IngestEvents, PutCheckpoint, Fail, GiveUpLoading, TimeOut, Crash, Deliver, server, TypeOK, Requests
  <2> QED BY <2>1, <2>2, <1>1, MergeType
<1>3. ASSUME NEW q \in Adapters,
             /\ phase'[q] \in {"down", "loading"} => phase[q] \in {"down", "loading"}
             /\ phase'[q] \in {"idle", "posting"} => phase[q] \in {"idle", "posting"}
             /\ cursor'[q] = cursor[q] \/ phase'[q] \notin {"down", "loading", "idle", "posting"}
             /\ q \in (loaded' \cup saved') \ failing' => q \in (loaded \cup saved) \ failing
      PROVE  /\ phase'[q] \in {"down", "loading"} => cursor'[q] = Start
             /\ phase'[q] \in {"idle", "posting"} /\ q \in (loaded' \cup saved') \ failing'
                    => cursor'[q].ts <= checkpoint'.ts
  <2>1. cursor[q].ts \in Nat /\ checkpoint.ts \in Nat /\ checkpoint'.ts \in Nat
    BY <1>1, <1>2 DEF TypeOK
  <2> QED BY <1>2, <1>3, <2>1 DEF SyncInv, FreshPods, DurableInSync
<1> DEFINE Good(q) ==
        /\ phase'[q] \in {"down", "loading"} => cursor'[q] = Start
        /\ phase'[q] \in {"idle", "posting"} /\ q \in (loaded' \cup saved') \ failing'
               => cursor'[q].ts <= checkpoint'.ts
<1>8. Start.ts <= checkpoint'.ts
  BY <1>0, <1>1, <1>2 DEF SyncInv
<1> SUFFICES \A q \in Adapters : Good(q)
  BY <1>8 DEF SyncInv, FreshPods, DurableInSync
<1>4. CASE UNCHANGED <<phase, cursor, loaded, saved, failing>>
  BY <1>3, <1>4
<1>5. ASSUME NEW p \in Adapters, Loop(p) \/ Fail(p) PROVE \A q \in Adapters : Good(q)
  <2>1. ASSUME NEW q \in Adapters, q # p PROVE Good(q)
    <3>1. /\ phase'[q] = phase[q] /\ cursor'[q] = cursor[q]
          /\ q \in loaded' <=> q \in loaded
          /\ q \in saved' <=> q \in saved
          /\ q \in failing' <=> q \in failing
      BY <1>5, <2>1 DEF Loop, Boot, LoadCheckpoint, Poll, Forward, ShedPage, RecoverCheckpoint,
         IngestEvents, PutCheckpoint, Fail, GiveUpLoading, TimeOut, Crash, flags, TypeOK
    <3> QED BY <1>3, <3>1
  <2>2. Good(p)
    <3>1. CASE Boot(p) \/ Poll(p) \/ IngestEvents(p)
      <4>1. /\ phase'[p] \in {"down", "loading"} => phase[p] \in {"down", "loading"}
            /\ phase'[p] \in {"idle", "posting"} => phase[p] \in {"idle", "posting"}
            /\ cursor'[p] = cursor[p] \/ phase'[p] \notin {"down", "loading", "idle", "posting"}
            /\ UNCHANGED <<loaded, saved, failing>>
        BY <3>1 DEF Boot, Poll, Forward, ShedPage, RecoverCheckpoint, IngestEvents, flags, TypeOK
      <4> QED BY <1>3, <4>1
    <3>2. CASE LoadCheckpoint(p)
      BY <3>2, <1>1, <1>2 DEF LoadCheckpoint, server, TypeOK
    <3>3. CASE PutCheckpoint(p)
      <4>1. phase'[p] = "idle" /\ cursor'[p] = cursor[p] /\ checkpoint' = Merge(checkpoint, cursor[p])
        BY <3>3 DEF PutCheckpoint, TypeOK
      <4>2. cursor[p] \in Keys
        BY DEF TypeOK
      <4> QED BY <4>1, <4>2, <1>1, <1>2, MergeType
    <3>4. CASE GiveUpLoading(p)
      <4>1. phase'[p] = "idle" /\ cursor'[p] = Start
        BY <3>4 DEF GiveUpLoading, TypeOK, SyncInv, FreshPods
      <4> QED BY <4>1, <1>8
    <3>5. CASE TimeOut(p)
      <4>1. CASE phase[p] = "posting"
        <5>1. phase'[p] = "idle" /\ UNCHANGED <<cursor, loaded, saved, failing>>
          BY <3>5, <4>1 DEF TimeOut, TypeOK
        <5> QED BY <1>3, <4>1, <5>1
      <4>2. CASE phase[p] # "posting"
        BY <3>5, <4>2 DEF TimeOut, TypeOK
      <4> QED BY <4>1, <4>2
    <3>6. CASE Crash(p)
      BY <3>6 DEF Crash, TypeOK
    <3> QED BY <1>5, <3>1, <3>2, <3>3, <3>4, <3>5, <3>6 DEF Loop, Fail
  <2> QED BY <2>1, <2>2
<1>6. CASE (\E a \in Alerts : Index(a)) \/ (\E m \in stray : Deliver(m)) \/ UNCHANGED vars
  BY <1>4, <1>6 DEF Index, Deliver, vars, flags
<1> QED BY <1>5, <1>6 DEF Next

\* For every set of alerts and pods, a pod that reports a healthy checkpoint is
\* not ahead of the stored timestamp (_poll_cycle, _compute_health).
THEOREM AdapterDurableInSync == Spec => []DurableInSync
<1>1. Init => TypeOK /\ SyncInv
  BY AlertKeys, FaultsAssumption DEF Init, TypeOK, Phases, SyncInv, FreshPods, DurableInSync, Keys
<1>2. SyncInv => DurableInSync
  BY DEF SyncInv
<1> QED BY <1>1, <1>2, AdapterTypeStep, SyncStep, PTL DEF Spec
=============================================================================
