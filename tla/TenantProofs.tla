---------------------------- MODULE TenantProofs ----------------------------
(***************************************************************************)
(* What holds of the life of a tenant for every number of workers, rows,   *)
(* attempts and faults.  The inductive invariant is the conjunction of     *)
(*                                                                         *)
(*   Tracked   a worker at a job points to a row of the queue;             *)
(*   Charged   what the attempts of a row may have reached;                *)
(*   Single    without a stalled worker, a job in flight has one runner;   *)
(*   Phased    what a worker has read where it is, and who holds the row   *)
(*             of the tenant;                                              *)
(*   Emptied   what is left of the namespace after a teardown;             *)
(*   Current   which version of the configuration a job works with;        *)
(*   Asking    what an edit of the external SIEM has read.                 *)
(***************************************************************************)
EXTENDS TenantLifecycle, TLAPS

Tracked ==
    \A x \in Workers, k \in Kinds, i \in RowIds : Holds(x, k, i) => i \in 1..Len(rows[k])

Spare(job) == job.attempts < MaxAttempts + faults
Unheld(k, i) == \A x \in Workers : ~Holds(x, k, i)

Charged ==
    \A k \in Kinds : \A i \in 1..Len(rows[k]) :
        /\ rows[k][i].attempts <= MaxAttempts + faults
        /\ rows[k][i].status = "pending" => Spare(rows[k][i])
        /\ rows[k][i].status = "in_flight" /\ Unheld(k, i) => Spare(rows[k][i])

Single ==
    ~stalled =>
        \A x \in Workers, k \in Kinds, i \in RowIds :
            Holds(x, k, i) => /\ rows[k][i].status = "in_flight"
                              /\ \A y \in Workers : Holds(y, k, i) => x = y

\* A worker in the middle of a job, as it was loaded.
Phase(x) ==
    LET w == worker[x] IN
    /\ w.at \in {"idle", "missing", "ready", "unready"} \/ w.row \in RowIds
    /\ w.at \in {"missing", "ready", "unready"} =>
           w.seen \in {"active", "degraded", "decommissioning"}
    /\ w.kind = "provision" => /\ w.at # "removed"
                               /\ w.at \in {"blocked", "starting", "namespaced", "applied"} =>
                                      w.seen \in {"pending", "degraded"}
    /\ w.kind = "reconcile" => /\ w.at \notin {"blocked", "starting", "removed"}
                               /\ w.at \in {"namespaced", "applied"} => w.seen = "active"
    /\ w.kind = "decommission" => /\ w.at \notin {"namespaced", "applied"}
                                  /\ w.at \in {"blocked", "starting", "removed"} /\ ~overwritten =>
                                         w.seen = "decommissioning"

Phased ==
    /\ tenant = "provisioning" => remote
    /\ ~overwritten /\ rows["decommission"] # <<>> => tenant \in {"decommissioning", "archived"}
    /\ \A x \in Workers : /\ Phase(x)
                          /\ HoldsRow(x) => /\ ~overwritten => tenant = worker[x].seen
                                            /\ \A y \in Workers : HoldsRow(y) => x = y

Emptied ==
    ~overwritten => /\ tenant = "archived" => ~ns
                    /\ \A x \in Workers : worker[x].at = "removed" => ~ns

Current ==
    ~missed => /\ tenant = "active" /\ ~remote /\ ~Saved =>
                      rendered = config \/ HasActive("reconcile")
               /\ \A x \in Workers :
                    LET w == worker[x] IN
                    w.kind # "decommission" =>
                        /\ w.at \in {"starting", "namespaced", "applied"} => w.config = config
                        /\ w.at = "applied" => rendered = config
                        /\ w.at = "succeeded" /\ w.kind = "reconcile" /\ ~remote =>
                               rendered = config

\* A SIEM edit that has read the tenant found it active and without the job.
Asking == edit.by = "siem" /\ edit.at \in {"read", "looked"} => edit.seen = "active" /\ ~edit.found

IInv == TypeOK /\ Tracked /\ Charged /\ Single /\ Phased /\ Emptied /\ Current /\ Asking
-----------------------------------------------------------------------------
(* Updates of the queue and of a worker. *)

\* The queue after a job was written to a row, a new one or one that is there.
Put(k, i, job) ==
    /\ Len(rows'[k]) = IF i <= Len(rows[k]) THEN Len(rows[k]) ELSE i
    /\ rows'[k][i] = job
    /\ \A j \in 1..Len(rows[k]) : j # i => rows'[k][j] = rows[k][j]
    /\ \A m \in Kinds : m # k => rows'[m] = rows[m]

\* One worker moves.
Only(x) == \A y \in Workers : y # x => worker'[y] = worker[y]

QueueType == rows \in [Kinds -> Seq(Job)] /\ \A k \in Kinds : Len(rows[k]) <= MaxRows

\* Appending a job and writing to a row keep the type of the queue.
LEMMA AppendRow ==
    ASSUME QueueType, NEW k \in Kinds, NEW job \in Job, Len(rows[k]) < MaxRows,
           rows' = [rows EXCEPT ![k] = Append(@, job)]
    PROVE  /\ QueueType' /\ Put(k, Len(rows[k]) + 1, job)
           /\ Len(rows[k]) + 1 \in RowIds
<1>1. rows[k] \in Seq(Job) /\ Len(rows[k]) \in Nat
  BY DEF QueueType
<1>2. Append(rows[k], job) \in Seq(Job) /\ Len(Append(rows[k], job)) = Len(rows[k]) + 1
  BY <1>1
<1>3. rows'[k] = Append(rows[k], job) /\ \A m \in Kinds : m # k => rows'[m] = rows[m]
  BY DEF QueueType
<1>4. QueueType'
  <2>1. rows' \in [Kinds -> Seq(Job)]
    BY <1>2 DEF QueueType
  <2>2. \A m \in Kinds : Len(rows'[m]) <= MaxRows
    BY <1>1, <1>2, <1>3, BoundsAssumption DEF QueueType
  <2> QED BY <2>1, <2>2 DEF QueueType
<1>5. Put(k, Len(rows[k]) + 1, job)
  BY <1>1, <1>2, <1>3 DEF Put
<1> QED BY <1>1, <1>4, <1>5, BoundsAssumption DEF RowIds

LEMMA WriteRow ==
    ASSUME QueueType, NEW k \in Kinds, NEW i \in 1..Len(rows[k]), NEW job \in Job,
           rows' = [rows EXCEPT ![k] = [@ EXCEPT ![i] = job]]
    PROVE  QueueType' /\ Put(k, i, job)
<1> DEFINE s == [rows[k] EXCEPT ![i] = job]
<1>1. rows[k] \in Seq(Job) /\ Len(rows[k]) \in Nat
  BY DEF QueueType
<1>2. s \in Seq(Job) /\ Len(s) = Len(rows[k]) /\ s[i] = job
      /\ \A j \in 1..Len(rows[k]) : j # i => s[j] = rows[k][j]
  BY <1>1
<1>3. rows'[k] = s /\ \A m \in Kinds : m # k => rows'[m] = rows[m]
  BY DEF QueueType
<1>4. QueueType'
  <2>1. rows' \in [Kinds -> Seq(Job)]
    BY <1>2, rows' = [rows EXCEPT ![k] = s] DEF QueueType
  <2>2. \A m \in Kinds : Len(rows'[m]) <= MaxRows
    BY <1>1, <1>2, <1>3 DEF QueueType
  <2> QED BY <2>1, <2>2 DEF QueueType
<1>5. Put(k, i, job)
  BY <1>1, <1>2, <1>3 DEF Put
<1> QED BY <1>4, <1>5
-----------------------------------------------------------------------------
(* The queue: rows, attempts and runners. *)

QueueInv == Tracked /\ Charged /\ Single

\* Nobody takes, leaves or writes a row.
LEMMA QuietQueue ==
    ASSUME QueueInv, UNCHANGED <<rows, faults, stalled>>,
           \A y \in Workers, k \in Kinds, i \in RowIds : Holds(y, k, i)' <=> Holds(y, k, i),
           \A k \in Kinds : Len(rows[k]) <= MaxRows
    PROVE  QueueInv'
<1>1. Tracked'
  BY DEF QueueInv, Tracked
<1>2. Single'
  BY DEF QueueInv, Single
<1>3. ASSUME NEW k \in Kinds, NEW i \in 1..Len(rows[k])
      PROVE  Unheld(k, i)' => Unheld(k, i)
  BY <1>3, BoundsAssumption DEF Unheld, RowIds
<1>4. Charged'
  BY <1>3 DEF QueueInv, Charged, Spare
<1> QED BY <1>1, <1>2, <1>4 DEF QueueInv

\* A worker crashes.
LEMMA CrashQueue ==
    ASSUME QueueInv, QueueType, UNCHANGED <<rows, stalled>>, faults \in Nat,
           faults' = faults + 1,
           \A y \in Workers, k \in Kinds, i \in RowIds : Holds(y, k, i)' => Holds(y, k, i)
    PROVE  QueueInv'
<1>1. Tracked'
  BY DEF QueueInv, Tracked
<1>2. Single'
  BY DEF QueueInv, Single
<1>3. \A k \in Kinds : \A i \in 1..Len(rows[k]) : rows[k][i] \in Job
  BY DEF QueueType
<1>4. Charged'
  BY <1>3, BoundsAssumption DEF QueueInv, Charged, Spare, Job
<1> QED BY <1>1, <1>2, <1>4 DEF QueueInv

\* A new job, or a failed one with a new budget.
LEMMA PutQueue ==
    ASSUME QueueInv, QueueType, UNCHANGED <<faults, stalled>>, faults \in Nat,
           \A y \in Workers, m \in Kinds, j \in RowIds : (Holds(y, m, j)' <=> Holds(y, m, j)),
           NEW k \in Kinds, NEW i \in RowIds, Put(k, i, NewJob),
           i = Len(rows[k]) + 1 \/ (i <= Len(rows[k]) /\ rows[k][i].status = "failed")
    PROVE  QueueInv'
<1>0. \A m \in Kinds : Len(rows[m]) \in Nat
  BY DEF QueueType
<1>1. Tracked'
  BY <1>0 DEF QueueInv, Tracked, Put
<1>2. Single'
  BY <1>0 DEF QueueInv, Single, Tracked, Put, RowIds
<1>3. Charged'
  <2> SUFFICES ASSUME NEW m \in Kinds, NEW j \in 1..Len(rows'[m])
               PROVE  /\ rows'[m][j].attempts <= MaxAttempts + faults
                      /\ rows'[m][j].status = "pending" => Spare(rows'[m][j])
                      /\ rows'[m][j].status = "in_flight" /\ Unheld(m, j)' => Spare(rows'[m][j])
    BY DEF Charged, Spare
  <2>1. CASE m = k /\ j = i
    BY <2>1, BoundsAssumption DEF Put, Spare, NewJob
  <2>2. CASE ~(m = k /\ j = i)
    <3>1. j \in 1..Len(rows[m]) /\ rows'[m][j] = rows[m][j]
      BY <1>0, <2>2 DEF Put, RowIds
    <3>2. j \in RowIds
      BY <1>0, <3>1, BoundsAssumption DEF QueueType, RowIds
    <3>3. Unheld(m, j)' => Unheld(m, j)
      BY <3>2 DEF Unheld
    <3> QED BY <3>1, <3>3 DEF QueueInv, Charged
  <2> QED BY <2>1, <2>2
<1> QED BY <1>1, <1>2, <1>3 DEF QueueInv

\* A worker takes a pending row.
LEMMA ClaimQueue ==
    ASSUME QueueInv, QueueType, UNCHANGED <<faults, stalled>>, faults \in Nat,
           NEW x \in Workers, NEW k \in Kinds, NEW i \in 1..Len(rows[k]),
           rows[k][i].status = "pending",
           NEW job \in Job, job.status = "in_flight", job.attempts = rows[k][i].attempts + 1,
           Put(k, i, job), Only(x),
           \A m \in Kinds, j \in RowIds : /\ ~Holds(x, m, j)
                                          /\ Holds(x, m, j)' <=> m = k /\ j = i
    PROVE  QueueInv'
<1>0. /\ \A m \in Kinds : Len(rows[m]) \in Nat /\ Len(rows'[m]) = Len(rows[m])
      /\ i \in RowIds /\ rows[k][i] \in Job
  <2>1. \A m \in Kinds : rows[m] \in Seq(Job) /\ Len(rows[m]) \in Nat /\ Len(rows[m]) <= MaxRows
    BY DEF QueueType
  <2>2. \A m \in Kinds : Len(rows'[m]) = Len(rows[m])
    BY <2>1 DEF Put
  <2>3. rows[k][i] \in Job
    BY <2>1
  <2> QED BY <2>1, <2>2, <2>3, BoundsAssumption DEF RowIds
<1>1. \A y \in Workers, m \in Kinds, j \in RowIds : y # x => (Holds(y, m, j)' <=> Holds(y, m, j))
  BY DEF Only, Holds
<1>2. Tracked'
  BY <1>0, <1>1 DEF QueueInv, Tracked
<1>3. Single'
  <2> SUFFICES ASSUME ~stalled, NEW y \in Workers, NEW m \in Kinds, NEW j \in RowIds,
                      Holds(y, m, j)'
               PROVE  /\ rows'[m][j].status = "in_flight"
                      /\ \A z \in Workers : Holds(z, m, j)' => y = z
    BY DEF Single
  <2>1. CASE m = k /\ j = i
    <3>1. \A z \in Workers : ~Holds(z, k, i)
      BY <1>0 DEF QueueInv, Single
    <3>2. \A z \in Workers : Holds(z, k, i)' => z = x
      BY <1>0, <1>1, <3>1
    <3> QED BY <2>1, <3>2 DEF Put
  <2>2. CASE ~(m = k /\ j = i)
    <3>1. y # x /\ Holds(y, m, j) /\ j \in 1..Len(rows[m])
      BY <1>1, <2>2 DEF QueueInv, Tracked
    <3>2. rows'[m][j] = rows[m][j]
      BY <2>2, <3>1 DEF Put
    <3>3. \A z \in Workers : Holds(z, m, j)' => Holds(z, m, j)
      BY <1>1, <2>2
    <3> QED BY <3>1, <3>2, <3>3 DEF QueueInv, Single
  <2> QED BY <2>1, <2>2
<1>4. Charged'
  <2> SUFFICES ASSUME NEW m \in Kinds, NEW j \in 1..Len(rows[m])
               PROVE  /\ rows'[m][j].attempts <= MaxAttempts + faults
                      /\ rows'[m][j].status = "pending" => Spare(rows'[m][j])
                      /\ rows'[m][j].status = "in_flight" /\ Unheld(m, j)' => Spare(rows'[m][j])
    BY <1>0 DEF Charged, Spare
  <2>0. j \in RowIds
    BY <1>0, BoundsAssumption DEF QueueType, RowIds
  <2>1. CASE m = k /\ j = i
    <3>1. ~Unheld(m, j)'
      BY <2>0, <2>1 DEF Unheld
    <3>2. rows[k][i].attempts \in Nat /\ rows[k][i].attempts < MaxAttempts + faults
      BY <1>0 DEF QueueInv, Charged, Spare, Job
    <3> QED BY <2>1, <3>1, <3>2, BoundsAssumption DEF Put
  <2>2. CASE ~(m = k /\ j = i)
    <3>1. rows'[m][j] = rows[m][j]
      BY <1>0, <2>2 DEF Put
    <3>2. Unheld(m, j)' => Unheld(m, j)
      BY <1>1, <2>0, <2>2 DEF Unheld
    <3> QED BY <3>1, <3>2 DEF QueueInv, Charged
  <2> QED BY <2>1, <2>2
<1> QED BY <1>2, <1>3, <1>4 DEF QueueInv

LEMMA RowFacts ==
    ASSUME QueueType, NEW k \in Kinds, NEW i \in 1..Len(rows[k])
    PROVE  Len(rows[k]) \in Nat /\ i \in RowIds /\ rows[k][i] \in Job
<1>1. rows[k] \in Seq(Job) /\ Len(rows[k]) \in Nat /\ Len(rows[k]) <= MaxRows
  BY DEF QueueType
<1> QED BY <1>1, BoundsAssumption DEF RowIds

\* A worker writes the outcome of the row it holds, or leaves it.
LEMMA SettleQueue ==
    ASSUME QueueInv, QueueType, UNCHANGED <<faults, stalled>>, faults \in Nat,
           NEW x \in Workers, NEW k \in Kinds, NEW i \in 1..Len(rows[k]), Holds(x, k, i),
           NEW job \in Job, job.attempts = rows[k][i].attempts,
           \/ job.status \in {"succeeded", "failed"}
           \/ job.attempts < MaxAttempts,
           Put(k, i, job), Only(x),
           \A m \in Kinds, j \in RowIds : ~Holds(x, m, j)',
           \A m \in Kinds, j \in RowIds : Holds(x, m, j) => m = k /\ j = i
    PROVE  QueueInv'
<1>0. /\ \A m \in Kinds : Len(rows[m]) \in Nat
      /\ \A m \in Kinds : Len(rows'[m]) = Len(rows[m])
      /\ i \in RowIds /\ rows[k][i] \in Job
  <2>1. \A m \in Kinds : Len(rows[m]) \in Nat
    BY DEF QueueType
  <2> QED BY <2>1, RowFacts DEF Put
<1>1. \A y \in Workers, m \in Kinds, j \in RowIds : y # x => (Holds(y, m, j)' <=> Holds(y, m, j))
  BY DEF Only, Holds
<1>2. Tracked'
  BY <1>0, <1>1 DEF QueueInv, Tracked
<1>3. Single'
  <2> SUFFICES ASSUME ~stalled, NEW y \in Workers, NEW m \in Kinds, NEW j \in RowIds,
                      Holds(y, m, j)'
               PROVE  /\ rows'[m][j].status = "in_flight"
                      /\ \A z \in Workers : Holds(z, m, j)' => y = z
    BY DEF Single
  <2>1. y # x /\ Holds(y, m, j) /\ j \in 1..Len(rows[m])
    BY <1>1 DEF QueueInv, Tracked
  <2>2. ~(m = k /\ j = i)
    BY <2>1 DEF QueueInv, Single
  <2>3. rows'[m][j] = rows[m][j]
    BY <2>1, <2>2 DEF Put
  <2>4. \A z \in Workers : Holds(z, m, j)' => Holds(z, m, j)
    BY <1>1
  <2> QED BY <2>1, <2>3, <2>4 DEF QueueInv, Single
<1>4. Charged'
  <2> SUFFICES ASSUME NEW m \in Kinds, NEW j \in 1..Len(rows[m])
               PROVE  /\ rows'[m][j].attempts <= MaxAttempts + faults
                      /\ rows'[m][j].status = "pending" => Spare(rows'[m][j])
                      /\ rows'[m][j].status = "in_flight" /\ Unheld(m, j)' => Spare(rows'[m][j])
    BY <1>0 DEF Charged, Spare
  <2>0. j \in RowIds
    BY RowFacts
  <2>1. CASE m = k /\ j = i
    <3>1. job.attempts \in Nat /\ job.attempts <= MaxAttempts + faults
      BY <1>0 DEF QueueInv, Charged, Job
    <3> QED BY <2>1, <3>1, BoundsAssumption DEF Put, Spare
  <2>2. CASE ~(m = k /\ j = i)
    <3>1. rows'[m][j] = rows[m][j]
      BY <1>0, <2>2 DEF Put
    <3>2. Unheld(m, j)' => Unheld(m, j)
      BY <1>1, <2>0, <2>2 DEF Unheld
    <3> QED BY <3>1, <3>2 DEF QueueInv, Charged
  <2> QED BY <2>1, <2>2
<1> QED BY <1>2, <1>3, <1>4 DEF QueueInv

\* A claim goes back to the queue; only a fault takes it from a worker.
LEMMA ReclaimQueue ==
    ASSUME QueueInv, QueueType, faults \in Nat, UNCHANGED worker,
           NEW k \in Kinds, NEW i \in 1..Len(rows[k]),
           NEW job \in Job, job.attempts = rows[k][i].attempts, rows[k][i].status = "in_flight",
           Put(k, i, job),
           Unheld(k, i) => faults' = faults /\ stalled' = stalled,
           ~Unheld(k, i) => faults' = faults + 1 /\ stalled' = TRUE
    PROVE  QueueInv'
<1>0. /\ \A m \in Kinds : Len(rows[m]) \in Nat
      /\ \A m \in Kinds : Len(rows'[m]) = Len(rows[m])
      /\ i \in RowIds /\ rows[k][i] \in Job
  <2>1. \A m \in Kinds : Len(rows[m]) \in Nat
    BY DEF QueueType
  <2> QED BY <2>1, RowFacts DEF Put
<1>1. \A y \in Workers, m \in Kinds, j \in RowIds : Holds(y, m, j)' <=> Holds(y, m, j)
  BY DEF Holds
<1>2. Tracked'
  BY <1>0, <1>1 DEF QueueInv, Tracked
<1>3. Single'
  <2> SUFFICES ASSUME ~stalled', NEW y \in Workers, NEW m \in Kinds, NEW j \in RowIds,
                      Holds(y, m, j)'
               PROVE  /\ rows'[m][j].status = "in_flight"
                      /\ \A z \in Workers : Holds(z, m, j)' => y = z
    BY DEF Single
  <2>1. Holds(y, m, j) /\ j \in 1..Len(rows[m])
    BY <1>1 DEF QueueInv, Tracked
  <2>2. Unheld(k, i)
    BY Zenon
  <2>3. ~stalled
    BY <2>2, Zenon
  <2>4. ~(m = k /\ j = i)
    BY <2>1, <2>2 DEF Unheld
  <2>5. rows'[m][j] = rows[m][j]
    BY <2>1, <2>4 DEF Put
  <2> QED BY <1>1, <2>1, <2>3, <2>5 DEF QueueInv, Single
<1>4. Charged'
  <2> SUFFICES ASSUME NEW m \in Kinds, NEW j \in 1..Len(rows[m])
               PROVE  /\ rows'[m][j].attempts <= MaxAttempts + faults'
                      /\ rows'[m][j].status = "pending" =>
                             rows'[m][j].attempts < MaxAttempts + faults'
                      /\ rows'[m][j].status = "in_flight" /\ Unheld(m, j)' =>
                             rows'[m][j].attempts < MaxAttempts + faults'
    BY <1>0 DEF Charged, Spare
  <2>0. j \in RowIds /\ rows[m][j] \in Job
    BY RowFacts
  <2>1. CASE m = k /\ j = i
    <3>1. /\ rows[k][i].attempts \in Nat /\ rows[k][i].attempts <= MaxAttempts + faults
          /\ Unheld(k, i) => rows[k][i].attempts < MaxAttempts + faults
      BY <1>0 DEF QueueInv, Charged, Job, Spare
    <3>2. job.attempts < MaxAttempts + faults'
      BY <3>1, BoundsAssumption
    <3> QED BY <2>1, <3>1, <3>2, BoundsAssumption DEF Put, Spare
  <2>2. CASE ~(m = k /\ j = i)
    <3>1. rows'[m][j] = rows[m][j]
      BY <1>0, <2>2 DEF Put
    <3>2. Unheld(m, j)' => Unheld(m, j)
      BY <1>1, <2>0 DEF Unheld
    <3>3. /\ rows[m][j].attempts \in Nat /\ rows[m][j].attempts <= MaxAttempts + faults
          /\ rows[m][j].status = "pending" => rows[m][j].attempts < MaxAttempts + faults
          /\ rows[m][j].status = "in_flight" /\ Unheld(m, j) =>
                 rows[m][j].attempts < MaxAttempts + faults
      BY <2>0 DEF QueueInv, Charged, Spare, Job
    <3>4. faults' = faults \/ faults' = faults + 1
      OBVIOUS
    <3> QED BY <3>1, <3>2, <3>3, <3>4, BoundsAssumption DEF Spare
  <2> QED BY <2>1, <2>2
<1> QED BY <1>2, <1>3, <1>4 DEF QueueInv
-----------------------------------------------------------------------------
(* Steps of a worker. *)

\* Not at a job.
Free(w) == w.at \in {"idle", "missing", "ready", "unready"}

LEMMA TypeParts ==
    ASSUME TypeOK
    PROVE  /\ QueueType /\ worker \in [Workers -> Worker] /\ faults \in Nat /\ faults <= MaxFaults
           /\ tenant \in TenantStates /\ config \in 0..MaxEdits
           /\ marker \in {"none", "fresh", "old"}
           /\ \A x \in Workers : /\ worker[x] \in Worker /\ worker[x].at \in Phases
                                 /\ worker[x].kind \in Kinds /\ worker[x].row \in 0..MaxRows
                                 /\ worker[x].seen \in TenantStates
BY BoundsAssumption DEF TypeOK, QueueType, Worker

LEMMA WorkerSet ==
    ASSUME TypeOK, NEW x \in Workers, NEW w \in Worker, worker' = [worker EXCEPT ![x] = w]
    PROVE  worker' \in [Workers -> Worker] /\ worker'[x] = w /\ Only(x)
BY TypeParts DEF Only

\* The records a worker can be set to.
Moved(x, phase) == [worker[x] EXCEPT !.at = phase]
Ended(x, phase) == [Idle EXCEPT !.at = phase, !.kind = worker[x].kind, !.row = worker[x].row]

LEMMA WorkerForms ==
    ASSUME TypeOK, NEW x \in Workers
    PROVE  /\ Idle \in Worker /\ Idle.at = "idle" /\ Idle.kind = "provision"
           /\ \A p \in Phases :
                /\ Moved(x, p) \in Worker /\ Moved(x, p).at = p
                /\ Moved(x, p).kind = worker[x].kind /\ Moved(x, p).row = worker[x].row
                /\ Moved(x, p).seen = worker[x].seen /\ Moved(x, p).config = worker[x].config
                /\ Ended(x, p) \in Worker /\ Ended(x, p).at = p
                /\ Ended(x, p).kind = worker[x].kind /\ Ended(x, p).row = worker[x].row
<1>1. worker[x] \in Worker
  BY TypeParts
<1>2. Idle \in Worker /\ Idle.at = "idle" /\ Idle.kind = "provision"
  BY BoundsAssumption DEF Idle, Worker, Phases, Kinds, TenantStates
<1>3. ASSUME NEW p \in Phases
      PROVE  /\ Moved(x, p) \in Worker /\ Moved(x, p).at = p
             /\ Moved(x, p).kind = worker[x].kind /\ Moved(x, p).row = worker[x].row
             /\ Moved(x, p).seen = worker[x].seen /\ Moved(x, p).config = worker[x].config
  BY <1>1, <1>3 DEF Moved, Worker
<1>4. ASSUME NEW p \in Phases
      PROVE  /\ Ended(x, p) \in Worker /\ Ended(x, p).at = p
             /\ Ended(x, p).kind = worker[x].kind /\ Ended(x, p).row = worker[x].row
  BY <1>1, <1>2, <1>4 DEF Ended, Worker, Idle
<1> QED BY <1>2, <1>3, <1>4

\* The worker goes on with its job, or it has none before and after.
LEMMA HoldsKept ==
    ASSUME NEW x \in Workers, Only(x),
           \/ Free(worker[x]) /\ Free(worker'[x])
           \/ /\ ~Free(worker[x]) /\ ~Free(worker'[x])
              /\ worker'[x].kind = worker[x].kind /\ worker'[x].row = worker[x].row
    PROVE  \A y \in Workers, k \in Kinds, i \in RowIds : Holds(y, k, i)' <=> Holds(y, k, i)
<1> SUFFICES ASSUME NEW y \in Workers, NEW k \in Kinds, NEW i \in RowIds
             PROVE  Holds(y, k, i)' <=> Holds(y, k, i)
  OBVIOUS
<1>1. CASE y = x
  BY <1>1 DEF Holds, Free
<1>2. CASE y # x
  BY <1>2 DEF Only, Holds
<1> QED BY <1>1, <1>2

\* The worker has no job any more.
LEMMA HoldsDropped ==
    ASSUME NEW x \in Workers, Only(x), worker'[x].at = "idle"
    PROVE  /\ \A y \in Workers, k \in Kinds, i \in RowIds : Holds(y, k, i)' => Holds(y, k, i)
           /\ \A k \in Kinds, i \in RowIds : ~Holds(x, k, i)'
<1>1. \A k \in Kinds, i \in RowIds : ~Holds(x, k, i)'
  BY DEF Holds
<1>2. \A y \in Workers, k \in Kinds, i \in RowIds :
        y # x => (Holds(y, k, i)' => Holds(y, k, i))
  BY DEF Only, Holds
<1> QED BY <1>1, <1>2

\* A worker at a job holds one row of the queue.
LEMMA AtJob ==
    ASSUME TypeOK, Tracked, NEW x \in Workers, Phase(x), ~Free(worker[x])
    PROVE  /\ worker[x].kind \in Kinds
           /\ worker[x].row \in RowIds /\ worker[x].row \in 1..Len(rows[worker[x].kind])
           /\ \A k \in Kinds, i \in RowIds :
                Holds(x, k, i) <=> k = worker[x].kind /\ i = worker[x].row
<1>1. worker[x].kind \in Kinds /\ worker[x].row \in RowIds
  BY TypeParts DEF Phase, Free
<1>2. \A k \in Kinds, i \in RowIds : Holds(x, k, i) <=> k = worker[x].kind /\ i = worker[x].row
  BY DEF Holds, Free
<1> QED BY <1>1, <1>2 DEF Tracked

\* A worker moves and the queue stays as it is.
LEMMA MoveQueue ==
    ASSUME TypeOK, QueueInv, NEW x \in Workers, NEW w \in Worker,
           worker' = [worker EXCEPT ![x] = w], UNCHANGED <<rows, faults, stalled>>,
           \/ Free(worker[x]) /\ Free(w)
           \/ /\ ~Free(worker[x]) /\ ~Free(w)
              /\ w.kind = worker[x].kind /\ w.row = worker[x].row
    PROVE  QueueInv' /\ worker' \in [Workers -> Worker] /\ worker'[x] = w /\ Only(x)
<1>1. worker' \in [Workers -> Worker] /\ worker'[x] = w /\ Only(x)
  BY WorkerSet
<1>2. \A y \in Workers, k \in Kinds, i \in RowIds : Holds(y, k, i)' <=> Holds(y, k, i)
  BY <1>1, HoldsKept
<1>3. QueueInv'
  BY <1>2, QuietQueue, TypeParts DEF QueueType
<1> QED BY <1>1, <1>3

\* Where a job goes from its load.
Loading(x) ==
    CASE worker[x].kind = "provision" -> ProvisionFrom(tenant)
      [] worker[x].kind = "reconcile" -> ReconcileFrom(tenant)
      [] worker[x].kind = "decommission" -> DecommissionFrom(tenant)
LoadedAs(x) ==
    IF Loading(x) \in {"succeeded", "failed"} THEN Ended(x, Loading(x))
    ELSE [worker[x] EXCEPT !.at = Loading(x), !.seen = tenant, !.config = config]

LEMMA LoadForm ==
    ASSUME TypeOK, NEW x \in Workers
    PROVE  /\ Loading(x) \in {"succeeded", "failed", "blocked", "starting", "namespaced"}
           /\ LoadedAs(x) \in Worker /\ LoadedAs(x).at = Loading(x)
           /\ LoadedAs(x).kind = worker[x].kind /\ LoadedAs(x).row = worker[x].row
           /\ Loading(x) \notin {"succeeded", "failed"} =>
                  LoadedAs(x).seen = tenant /\ LoadedAs(x).config = config
<1>1. worker[x] \in Worker /\ worker[x].kind \in Kinds /\ tenant \in TenantStates
      /\ config \in 0..MaxEdits
  BY TypeParts
<1>2. Loading(x) \in {"succeeded", "failed", "blocked", "starting", "namespaced"}
  <2>1. ReconcileFrom(tenant) \in {"succeeded", "failed", "namespaced"}
    BY <1>1 DEF ReconcileFrom
  <2>2. DecommissionFrom(tenant) \in {"starting", "blocked"}
    BY DEF DecommissionFrom
  <2>3. ProvisionFrom(tenant) \in {"succeeded", "failed", "blocked", "starting"}
    BY DEF ProvisionFrom
  <2> QED BY <1>1, <2>1, <2>2, <2>3 DEF Loading, Kinds
<1>3. CASE Loading(x) \in {"succeeded", "failed"}
  <2>1. Loading(x) \in Phases
    BY <1>3 DEF Phases
  <2> QED BY <1>2, <1>3, <2>1, WorkerForms DEF LoadedAs
<1>4. CASE Loading(x) \notin {"succeeded", "failed"}
  <2> DEFINE w == [worker[x] EXCEPT !.at = Loading(x), !.seen = tenant, !.config = config]
  <2>1. Loading(x) \in Phases
    BY <1>2 DEF Phases
  <2>2. w \in Worker /\ w.at = Loading(x) /\ w.kind = worker[x].kind /\ w.row = worker[x].row
        /\ w.seen = tenant /\ w.config = config
    BY <1>1, <2>1 DEF Worker
  <2> QED BY <1>2, <1>4, <2>2 DEF LoadedAs
<1> QED BY <1>3, <1>4

\* What the steps of a job do to its worker.
LEMMA LoadStep ==
    ASSUME TypeOK, QueueInv, NEW x \in Workers, Load(x)
    PROVE  TypeOK' /\ QueueInv' /\ Only(x) /\ worker'[x] = LoadedAs(x)
<1>1. worker[x].at = "claimed" /\ worker' = [worker EXCEPT ![x] = LoadedAs(x)]
  BY TypeParts DEF Load, Ends, LoadedAs, Loading, Ended
<1>2. QueueInv' /\ worker' \in [Workers -> Worker] /\ worker'[x] = LoadedAs(x) /\ Only(x)
  BY <1>1, LoadForm, MoveQueue DEF Load, Free, queue, history
<1> QED BY <1>2 DEF Load, TypeOK, requests, queue, cluster, history

LEMMA EnterStep ==
    ASSUME TypeOK, QueueInv, NEW x \in Workers, Enter(x)
    PROVE  /\ TypeOK' /\ QueueInv' /\ Only(x)
           /\ worker'[x].kind = worker[x].kind /\ worker'[x].row = worker[x].row
           /\ IF worker[x].kind = "provision" /\ remote
              THEN worker'[x].at = "succeeded"
              ELSE /\ worker'[x].at = "starting" /\ worker'[x].seen = worker[x].seen
                   /\ worker'[x].config = config
<1> DEFINE w == [worker[x] EXCEPT !.at = "starting", !.config = config]
<1>1. w \in Worker /\ w.at = "starting" /\ w.kind = worker[x].kind /\ w.row = worker[x].row
      /\ w.seen = worker[x].seen /\ w.config = config
  <2>1. worker[x] \in Worker /\ config \in 0..MaxEdits /\ "starting" \in Phases
    BY TypeParts DEF Phases
  <2> QED BY <2>1 DEF Worker
<1>2. worker[x].at = "blocked"
  BY DEF Enter
<1>3. CASE worker[x].kind = "provision" /\ remote
  <2>1. worker' = [worker EXCEPT ![x] = Ended(x, "succeeded")] /\ tenant' = "provisioning"
    BY <1>3 DEF Enter, Ends, Ended
  <2>2. /\ Ended(x, "succeeded") \in Worker /\ Ended(x, "succeeded").at = "succeeded"
        /\ Ended(x, "succeeded").kind = worker[x].kind
        /\ Ended(x, "succeeded").row = worker[x].row
    BY WorkerForms DEF Phases
  <2>3. ~Free(worker[x]) /\ ~Free(Ended(x, "succeeded")) /\ UNCHANGED <<rows, faults, stalled>>
    BY <1>2, <2>2 DEF Enter, Free, queue
  <2>4. QueueInv' /\ worker' \in [Workers -> Worker] /\ worker'[x] = Ended(x, "succeeded")
        /\ Only(x)
    BY <2>1, <2>2, <2>3, MoveQueue
  <2>5. TypeOK'
    BY <2>1, <2>4 DEF Enter, TypeOK, requests, queue, cluster, Overwrites, TenantStates
  <2> QED BY <1>3, <2>2, <2>4, <2>5
<1>4. CASE ~(worker[x].kind = "provision" /\ remote)
  <2>1. worker' = [worker EXCEPT ![x] = w] /\ tenant' = tenant
    BY <1>4, TypeParts DEF Enter
  <2>2. QueueInv' /\ worker' \in [Workers -> Worker] /\ worker'[x] = w /\ Only(x)
    BY <1>1, <1>2, <2>1, MoveQueue DEF Enter, Free, queue
  <2>3. TypeOK'
    BY <2>1, <2>2 DEF Enter, TypeOK, requests, queue, cluster, Overwrites
  <2> QED BY <1>1, <1>4, <2>2, <2>3
<1> QED BY <1>3, <1>4

\* The steps that only move the worker on.
LEMMA GoesStep ==
    ASSUME TypeOK, QueueInv, NEW x \in Workers, NEW p \in Phases, ~Free(worker[x]),
           p \in {"namespaced", "applied", "removed"}, GoesTo(x, p),
           UNCHANGED <<rows, faults, stalled>>
    PROVE  /\ QueueInv' /\ worker' \in [Workers -> Worker] /\ Only(x)
           /\ worker'[x].at = p /\ worker'[x].kind = worker[x].kind
           /\ worker'[x].row = worker[x].row /\ worker'[x].seen = worker[x].seen
           /\ worker'[x].config = worker[x].config
<1>1. worker' = [worker EXCEPT ![x] = Moved(x, p)]
  BY TypeParts DEF GoesTo, Moved
<1>2. /\ ~Free(Moved(x, p)) /\ Moved(x, p) \in Worker /\ Moved(x, p).at = p
      /\ Moved(x, p).kind = worker[x].kind /\ Moved(x, p).row = worker[x].row
      /\ Moved(x, p).seen = worker[x].seen /\ Moved(x, p).config = worker[x].config
  BY WorkerForms DEF Free
<1>3. QueueInv' /\ worker' \in [Workers -> Worker] /\ worker'[x] = Moved(x, p) /\ Only(x)
  BY <1>1, <1>2, MoveQueue
<1> QED BY <1>2, <1>3

LEMMA EndsStep ==
    ASSUME TypeOK, QueueInv, NEW x \in Workers, NEW p \in {"succeeded", "failed"},
           ~Free(worker[x]), Ends(x, p), UNCHANGED <<rows, faults, stalled>>
    PROVE  /\ QueueInv' /\ worker' \in [Workers -> Worker] /\ Only(x)
           /\ worker'[x].at = p /\ worker'[x].kind = worker[x].kind
           /\ worker'[x].row = worker[x].row
<1>1. p \in Phases
  BY DEF Phases
<1>2. worker' = [worker EXCEPT ![x] = Ended(x, p)]
  BY DEF Ends, Ended
<1>3. ~Free(Ended(x, p))
  BY <1>1, WorkerForms DEF Free
<1> QED BY <1>1, <1>2, <1>3, WorkerForms, MoveQueue

Provisions(x) == EnsureNamespace(x) \/ HelmApplyTenant(x) \/ Teardown(x)
Concludes(x) == Finish(x) \/ FailStep(x) \/ Archive(x) \/ RollBack(x)

LEMMA ProvisionsStep ==
    ASSUME TypeOK, QueueInv, NEW x \in Workers, Provisions(x)
    PROVE  /\ TypeOK' /\ QueueInv' /\ Only(x)
           /\ worker'[x].kind = worker[x].kind /\ worker'[x].row = worker[x].row
           /\ worker'[x].seen = worker[x].seen /\ worker'[x].config = worker[x].config
           /\ EnsureNamespace(x) => worker'[x].at = "namespaced"
           /\ HelmApplyTenant(x) => worker'[x].at = "applied"
           /\ Teardown(x) => worker'[x].at = "removed"
<1>1. {"namespaced", "applied", "removed"} \subseteq Phases
  BY DEF Phases
<1>2. CASE EnsureNamespace(x)
  <2>1. GoesTo(x, "namespaced") /\ ~Free(worker[x]) /\ worker[x].at = "starting"
        /\ worker[x].kind = "provision" /\ UNCHANGED <<rows, faults, stalled>>
    BY <1>2 DEF EnsureNamespace, Free, queue, history
  <2>2. /\ QueueInv' /\ worker' \in [Workers -> Worker] /\ Only(x)
        /\ worker'[x].at = "namespaced" /\ worker'[x].kind = worker[x].kind
        /\ worker'[x].row = worker[x].row /\ worker'[x].seen = worker[x].seen
        /\ worker'[x].config = worker[x].config
    BY <1>1, <2>1, GoesStep
  <2>3. TypeOK'
    BY <1>2, <2>2 DEF EnsureNamespace, TypeOK, requests, queue, history
  <2> QED BY <2>1, <2>2, <2>3 DEF HelmApplyTenant, Teardown
<1>3. CASE HelmApplyTenant(x)
  <2>1. GoesTo(x, "applied") /\ ~Free(worker[x]) /\ worker[x].at = "namespaced"
        /\ UNCHANGED <<rows, faults, stalled>>
    BY <1>3 DEF HelmApplyTenant, Free, queue, history
  <2>2. /\ QueueInv' /\ worker' \in [Workers -> Worker] /\ Only(x)
        /\ worker'[x].at = "applied" /\ worker'[x].kind = worker[x].kind
        /\ worker'[x].row = worker[x].row /\ worker'[x].seen = worker[x].seen
        /\ worker'[x].config = worker[x].config
    BY <1>1, <2>1, GoesStep
  <2>3. rendered' \in -1..MaxEdits
    BY <1>3, TypeParts, BoundsAssumption DEF HelmApplyTenant, Worker
  <2>4. TypeOK'
    BY <1>3, <2>2, <2>3 DEF HelmApplyTenant, TypeOK, requests, queue, history
  <2> QED BY <2>1, <2>2, <2>4 DEF EnsureNamespace, Teardown
<1>4. CASE Teardown(x)
  <2>1. GoesTo(x, "removed") /\ ~Free(worker[x]) /\ worker[x].at = "starting"
        /\ worker[x].kind = "decommission" /\ UNCHANGED <<rows, faults, stalled>>
    BY <1>4 DEF Teardown, Free, queue, history
  <2>2. /\ QueueInv' /\ worker' \in [Workers -> Worker] /\ Only(x)
        /\ worker'[x].at = "removed" /\ worker'[x].kind = worker[x].kind
        /\ worker'[x].row = worker[x].row /\ worker'[x].seen = worker[x].seen
        /\ worker'[x].config = worker[x].config
    BY <1>1, <2>1, GoesStep
  <2>3. TypeOK'
    BY <1>4, <2>2 DEF Teardown, TypeOK, requests, queue, history
  <2> QED BY <2>1, <2>2, <2>3 DEF EnsureNamespace, HelmApplyTenant
<1> QED BY <1>2, <1>3, <1>4 DEF Provisions

LEMMA ConcludesStep ==
    ASSUME TypeOK, QueueInv, NEW x \in Workers, Concludes(x)
    PROVE  /\ TypeOK' /\ QueueInv' /\ Only(x)
           /\ worker'[x].kind = worker[x].kind /\ worker'[x].row = worker[x].row
           /\ worker'[x].at \in {"succeeded", "failed"}
           /\ worker'[x].at = "succeeded" => Finish(x) \/ Archive(x)
<1>1. ~Free(worker[x]) /\ UNCHANGED <<rows, faults, stalled>>
  BY DEF Concludes, Finish, FailStep, Archive, RollBack, Free, queue, history
<1>2. \/ Ends(x, "succeeded") /\ (Finish(x) \/ Archive(x))
      \/ Ends(x, "failed")
  BY DEF Concludes, Finish, FailStep, Archive, RollBack
<1>3. /\ QueueInv' /\ worker' \in [Workers -> Worker] /\ Only(x)
      /\ worker'[x].kind = worker[x].kind /\ worker'[x].row = worker[x].row
      /\ worker'[x].at \in {"succeeded", "failed"}
      /\ worker'[x].at = "succeeded" => Finish(x) \/ Archive(x)
  <2>1. CASE Ends(x, "succeeded") /\ (Finish(x) \/ Archive(x))
    BY <1>1, <2>1, EndsStep
  <2>2. CASE Ends(x, "failed")
    BY <1>1, <2>2, EndsStep
  <2> QED BY <1>2, <2>1, <2>2
<1>4. tenant' \in TenantStates /\ overwritten' \in BOOLEAN
      /\ UNCHANGED <<remote, marker, queue, cluster, config, requests, missed, stalled, faults>>
  BY DEF Concludes, Finish, FailStep, Archive, RollBack, TypeOK, requests, TenantStates, Overwrites,
     history
<1>5. TypeOK'
  BY <1>3, <1>4 DEF TypeOK, requests, queue, cluster
<1> QED BY <1>3, <1>5

\* An idle worker looks at the cluster, and writes what follows.
LEMMA SweepStep ==
    ASSUME TypeOK, QueueInv, NEW x \in Workers, Probe(x) \/ SweepWrite(x)
    PROVE  /\ TypeOK' /\ QueueInv' /\ Only(x)
           /\ IF Probe(x)
              THEN /\ worker'[x].at \in {"missing", "ready", "unready"}
                   /\ worker'[x].kind = "provision" /\ worker'[x].seen = tenant
              ELSE worker'[x] = Idle
<1>1. CASE Probe(x)
  <2>1. PICK found \in {"ready", "unready", "missing"} :
          worker' = [worker EXCEPT ![x] = [Idle EXCEPT !.at = found, !.seen = tenant,
                                                       !.marker = marker]]
    BY <1>1 DEF Probe
  <2> DEFINE w == [Idle EXCEPT !.at = found, !.seen = tenant, !.marker = marker]
  <2>2. Idle \in Worker /\ tenant \in TenantStates /\ marker \in {"none", "fresh", "old"}
        /\ found \in Phases
    BY TypeParts, WorkerForms DEF Phases
  <2>3. w \in Worker /\ w.at = found /\ w.kind = Idle.kind /\ w.seen = tenant
    BY <2>2 DEF Worker
  <2>4. Free(worker[x]) /\ Free(w) /\ UNCHANGED <<rows, faults, stalled>>
    BY <1>1, <2>3 DEF Probe, Free, queue, history
  <2>5. QueueInv' /\ worker' \in [Workers -> Worker] /\ worker'[x] = w /\ Only(x)
    BY <2>1, <2>3, <2>4, MoveQueue
  <2>6. TypeOK'
    BY <1>1, <2>5 DEF Probe, TypeOK, requests, queue, cluster, history
  <2> QED BY <1>1, <2>3, <2>5, <2>6, WorkerForms
<1>2. CASE SweepWrite(x)
  <2>1. worker' = [worker EXCEPT ![x] = Idle] /\ Free(worker[x]) /\ ~Probe(x)
        /\ UNCHANGED <<rows, faults, stalled>>
    BY <1>2 DEF SweepWrite, Probe, Free, queue
  <2>2. Idle \in Worker /\ Free(Idle)
    BY WorkerForms DEF Free
  <2>3. QueueInv' /\ worker' \in [Workers -> Worker] /\ worker'[x] = Idle /\ Only(x)
    BY <2>1, <2>2, MoveQueue
  <2>4. tenant' \in TenantStates /\ marker' \in {"none", "fresh", "old"} /\ missed' \in BOOLEAN
        /\ overwritten' \in BOOLEAN
    BY <1>2 DEF SweepWrite, Missing, Present, Activate, TypeOK, TenantStates
  <2>5. TypeOK'
    BY <1>2, <2>3, <2>4 DEF SweepWrite, TypeOK, requests, queue, cluster
  <2> QED BY <2>1, <2>3, <2>5
<1> QED BY <1>1, <1>2

LEMMA ClaimStep ==
    ASSUME TypeOK, QueueInv, NEW x \in Workers, NEW k \in Kinds, NEW i \in RowIds, Claim(x, k, i)
    PROVE  /\ TypeOK' /\ QueueInv' /\ Only(x)
           /\ worker'[x].at = "claimed" /\ worker'[x].kind = k /\ worker'[x].row \in RowIds
           /\ i <= Len(rows[k])
           /\ \E job \in Job : job.status = "in_flight" /\ Put(k, i, job)
<1> DEFINE job == [status |-> "in_flight", attempts |-> rows[k][i].attempts + 1]
           w == [Idle EXCEPT !.at = "claimed", !.kind = k, !.row = i]
<1>1. i \in 1..Len(rows[k]) /\ rows[k][i] \in Job /\ Len(rows[k]) \in Nat
  <2>1. rows[k] \in Seq(Job) /\ Len(rows[k]) \in Nat
    BY TypeParts DEF QueueType
  <2>2. i \in 1..Len(rows[k])
    BY <2>1, BoundsAssumption DEF Claim, RowIds
  <2> QED BY <2>1, <2>2
<1>2. job \in Job /\ job.status = "in_flight" /\ job.attempts = rows[k][i].attempts + 1
  BY <1>1 DEF Job
<1>3. QueueType' /\ Put(k, i, job)
  <2>1. rows' = [rows EXCEPT ![k] = [@ EXCEPT ![i] = job]]
    BY <1>1, TypeParts DEF Claim, QueueType
  <2> HIDE DEF job
  <2> QED BY <1>1, <1>2, <2>1, WriteRow, TypeParts
<1>4. w \in Worker /\ w.at = "claimed" /\ w.kind = k /\ w.row = i
  <2>1. Idle \in Worker /\ "claimed" \in Phases /\ i \in 0..MaxRows
    BY WorkerForms, BoundsAssumption DEF Phases, RowIds
  <2> QED BY <2>1 DEF Worker
<1>5. worker' \in [Workers -> Worker] /\ worker'[x] = w /\ Only(x)
  BY <1>4, WorkerSet DEF Claim
<1>6. \A m \in Kinds, j \in RowIds : /\ ~Holds(x, m, j)
                                     /\ Holds(x, m, j)' <=> m = k /\ j = i
  BY <1>4, <1>5 DEF Claim, Holds
<1>7. QueueInv'
  <2>1. rows[k][i].status = "pending" /\ UNCHANGED <<faults, stalled>>
    BY DEF Claim, history
  <2> HIDE DEF job, w
  <2> QED BY <1>1, <1>2, <1>3, <1>5, <1>6, <2>1, ClaimQueue, TypeParts
<1>8. TypeOK'
  BY <1>3, <1>5 DEF Claim, TypeOK, requests, QueueType, cluster, history
<1> QED BY <1>1, <1>2, <1>3, <1>4, <1>5, <1>7, <1>8

\* A row whose status is rewritten.
LEMMA Restated ==
    ASSUME TypeOK, NEW k \in Kinds, NEW i \in 1..Len(rows[k]),
           NEW s \in {"pending", "in_flight", "succeeded", "failed"},
           rows' = [rows EXCEPT ![k][i].status = s]
    PROVE  /\ QueueType' /\ rows[k][i] \in Job
           /\ \E job \in Job : /\ job.status = s /\ job.attempts = rows[k][i].attempts
                               /\ Put(k, i, job)
<1> DEFINE job == [rows[k][i] EXCEPT !.status = s]
<1>1. rows[k] \in Seq(Job) /\ rows[k][i] \in Job
  BY TypeParts DEF QueueType
<1>2. job \in Job /\ job.status = s /\ job.attempts = rows[k][i].attempts
  BY <1>1 DEF Job
<1>3. rows' = [rows EXCEPT ![k] = [@ EXCEPT ![i] = job]]
  BY <1>1, TypeParts DEF QueueType
<1>4. QueueType' /\ Put(k, i, job)
  <2> HIDE DEF job
  <2> QED BY <1>2, <1>3, WriteRow, TypeParts
<1> QED BY <1>1, <1>2, <1>4

Settles(x) == Abandon(x) \/ RecordSuccess(x) \/ RecordFailure(x)

\* What is written of a row when its worker is done with it.
Outcome(x) ==
    \/ UNCHANGED rows
    \/ \E job \in Job : /\ Put(worker[x].kind, worker[x].row, job)
                        /\ \/ job.status \in {"succeeded", "failed"}
                           \/ job.status = "pending" /\ job.attempts < MaxAttempts

LEMMA SettlesStep ==
    ASSUME TypeOK, QueueInv, NEW x \in Workers, Phase(x), Settles(x)
    PROVE  TypeOK' /\ QueueInv' /\ Only(x) /\ worker'[x] = Idle /\ Outcome(x)
<1> DEFINE k == worker[x].kind
           i == worker[x].row
<1>1. ~Free(worker[x]) /\ worker' = [worker EXCEPT ![x] = Idle]
      /\ UNCHANGED <<faults, stalled>>
  BY DEF Settles, Abandon, RecordSuccess, RecordFailure, Free, history
<1>2. /\ k \in Kinds /\ i \in RowIds /\ i \in 1..Len(rows[k]) /\ Holds(x, k, i)
      /\ \A m \in Kinds, j \in RowIds : Holds(x, m, j) => m = k /\ j = i
  BY <1>1, AtJob DEF QueueInv
<1>3. worker' \in [Workers -> Worker] /\ worker'[x] = Idle /\ Only(x)
  BY <1>1, WorkerForms, WorkerSet
<1>4. /\ \A y \in Workers, m \in Kinds, j \in RowIds : Holds(y, m, j)' => Holds(y, m, j)
      /\ \A m \in Kinds, j \in RowIds : ~Holds(x, m, j)'
  BY <1>3, WorkerForms, HoldsDropped
<1>5. \/ UNCHANGED rows /\ rows[k][i].attempts < MaxAttempts
      \/ \E s \in {"pending", "succeeded", "failed"} :
            /\ rows' = [rows EXCEPT ![k][i].status = s]
            /\ s = "pending" => rows[k][i].attempts < MaxAttempts
  <2>1. CASE Abandon(x) \/ RecordSuccess(x)
    BY <2>1 DEF Abandon, RecordSuccess, SetJob
  <2>2. CASE RecordFailure(x)
    <3>1. rows[k][i] \in Job
      BY <1>2, RowFacts, TypeParts
    <3>2. /\ FailedStatus(rows[k][i]) \in {"pending", "failed"}
          /\ FailedStatus(rows[k][i]) = "pending" => rows[k][i].attempts < MaxAttempts
      BY <3>1, BoundsAssumption DEF FailedStatus, Job
    <3>3. CASE UNCHANGED rows
      <4>1. \/ FailedStatus(rows[k][i]) = "pending"
            \/ rows' = [rows EXCEPT ![k][i].status = FailedStatus(rows[k][i])]
        BY <2>2 DEF RecordFailure, SetJob
      <4> QED BY <3>2, <3>3, <4>1
    <3>4. CASE ~UNCHANGED rows
      <4>1. rows' = [rows EXCEPT ![k][i].status = FailedStatus(rows[k][i])]
        BY <2>2, <3>4 DEF RecordFailure, SetJob
      <4> QED BY <3>2, <4>1
    <3> QED BY <3>3, <3>4
  <2> QED BY <2>1, <2>2 DEF Settles
<1>6. QueueInv' /\ QueueType' /\ Outcome(x)
  <2>1. CASE UNCHANGED rows /\ rows[k][i].attempts < MaxAttempts
    <3> DEFINE job == rows[k][i]
    <3>1. job \in Job /\ QueueType' /\ Put(k, i, job)
      BY <1>2, <2>1, RowFacts, TypeParts DEF Put, QueueType
    <3>2. QueueInv'
      <4> HIDE DEF job
      <4>1. job.attempts = rows[k][i].attempts /\ job.attempts < MaxAttempts
        BY <2>1 DEF job
      <4> HIDE DEF k, i
      <4> QED BY <1>1, <1>2, <1>3, <1>4, <3>1, <4>1, SettleQueue, TypeParts
    <3> QED BY <2>1, <3>1, <3>2 DEF Outcome
  <2>2. ASSUME NEW s \in {"pending", "succeeded", "failed"},
               rows' = [rows EXCEPT ![k][i].status = s],
               s = "pending" => rows[k][i].attempts < MaxAttempts
        PROVE  QueueInv' /\ QueueType' /\ Outcome(x)
    <3>0. /\ QueueType'
          /\ \E job \in Job : /\ job.status = s /\ job.attempts = rows[k][i].attempts
                              /\ Put(k, i, job)
      <4> HIDE DEF k, i
      <4>1. s \in {"pending", "in_flight", "succeeded", "failed"}
        OBVIOUS
      <4>2. k \in Kinds /\ i \in 1..Len(rows[k]) /\ rows' = [rows EXCEPT ![k][i].status = s]
        BY <1>2, <2>2
      <4> QED BY <4>1, <4>2, Restated
    <3>1. PICK job \in Job : /\ job.status = s /\ job.attempts = rows[k][i].attempts
                             /\ Put(k, i, job)
      BY <3>0
    <3>2. QueueType'
      BY <3>0
    <3>3. Outcome(x)
      BY <2>2, <3>1 DEF Outcome
    <3>4. QueueInv'
      <4> HIDE DEF k, i
      <4> QED BY <1>1, <1>2, <1>3, <1>4, <2>2, <3>1, SettleQueue, TypeParts
    <3> QED BY <3>2, <3>3, <3>4
  <2> QED BY <1>5, <2>1, <2>2
<1>7. TypeOK'
  <2>1. missed' \in BOOLEAN
        /\ UNCHANGED <<tenant, remote, marker, retries, cluster, config, requests, overwritten,
                       stalled, faults>>
    BY DEF Settles, Abandon, RecordSuccess, RecordFailure, TypeOK, requests, history
  <2> QED BY <1>3, <1>6, <2>1 DEF TypeOK, requests, QueueType, cluster
<1> QED BY <1>3, <1>6, <1>7

LEMMA CrashStep ==
    ASSUME TypeOK, QueueInv, NEW x \in Workers, Crash(x)
    PROVE  TypeOK' /\ QueueInv' /\ Only(x) /\ worker'[x] = Idle
<1>1. worker' \in [Workers -> Worker] /\ worker'[x] = Idle /\ Only(x)
  BY WorkerForms, WorkerSet DEF Crash
<1>2. \A y \in Workers, m \in Kinds, j \in RowIds : Holds(y, m, j)' => Holds(y, m, j)
  BY <1>1, WorkerForms, HoldsDropped
<1>3. QueueInv'
  <2>1. UNCHANGED <<rows, stalled>> /\ faults' = faults + 1
    BY DEF Crash, queue, history
  <2> QED BY <1>2, <2>1, CrashQueue, TypeParts
<1>4. TypeOK'
  BY <1>1, TypeParts, BoundsAssumption DEF Crash, TypeOK, requests, queue, cluster, history
<1> QED BY <1>1, <1>3, <1>4

LEMMA ReclaimStep ==
    ASSUME TypeOK, QueueInv, NEW k \in Kinds, NEW i \in RowIds, ReclaimStale(k, i)
    PROVE  /\ TypeOK' /\ QueueInv' /\ i \in 1..Len(rows[k])
           /\ \E job \in Job : job.status = "pending" /\ Put(k, i, job)
<1>1. i \in 1..Len(rows[k])
  BY TypeParts, BoundsAssumption DEF ReclaimStale, RowIds, QueueType
<1>2. QueueType' /\ \E job \in Job : /\ job.status = "pending"
                                     /\ job.attempts = rows[k][i].attempts /\ Put(k, i, job)
  BY <1>1, Restated DEF ReclaimStale
<1>3. PICK job \in Job : /\ job.status = "pending" /\ job.attempts = rows[k][i].attempts
                         /\ Put(k, i, job)
  BY <1>2
<1>4. /\ Unheld(k, i) => faults' = faults /\ stalled' = stalled
      /\ ~Unheld(k, i) => faults' = faults + 1 /\ stalled' = TRUE
  BY DEF ReclaimStale, Unheld
<1>5. QueueInv'
  <2>1. UNCHANGED worker /\ rows[k][i].status = "in_flight"
    BY DEF ReclaimStale
  <2> QED BY <1>1, <1>3, <1>4, <2>1, ReclaimQueue, TypeParts
<1>6. TypeOK'
  <2>1. stalled' \in BOOLEAN
    BY <1>4 DEF TypeOK
  <2>2. faults' \in 0..MaxFaults
    <3>1. CASE Unheld(k, i)
      BY <1>4, <3>1 DEF TypeOK
    <3>2. CASE ~Unheld(k, i)
      <4>1. faults < MaxFaults
        BY <3>2 DEF ReclaimStale, Unheld
      <4> QED BY <1>4, <3>2, <4>1, TypeParts, BoundsAssumption
    <3> QED BY <3>1, <3>2
  <2> QED BY <1>2, <2>1, <2>2 DEF ReclaimStale, TypeOK, requests, QueueType, cluster
<1> QED BY <1>1, <1>3, <1>5, <1>6
-----------------------------------------------------------------------------
(* Steps of the operators, of the agent and of the cluster. *)

\* A row is put under a kind: what stays of the other rows.
LEMMA PutKeeps ==
    ASSUME QueueType, NEW k \in Kinds, NEW i \in RowIds, i <= Len(rows[k]) + 1, NEW job,
           Put(k, i, job), QueueType'
    PROVE  /\ k # "reconcile" => (HasActive("reconcile")' <=> HasActive("reconcile"))
           /\ Active(job) => HasActive(k)'
           /\ (k # "decommission" \/ i <= Len(rows[k])) /\ rows'["decommission"] # <<>> =>
                  rows["decommission"] # <<>>
<1>1. rows[k] \in Seq(Job) /\ Len(rows[k]) \in Nat /\ i \in Nat /\ i >= 1
      /\ rows["decommission"] \in Seq(Job)
  BY BoundsAssumption DEF QueueType, RowIds, Kinds
<1>2. k # "reconcile" => (HasActive("reconcile")' <=> HasActive("reconcile"))
  BY DEF Put, HasActive, Kinds
<1>3. Active(job) => HasActive(k)'
  <2>1. i \in 1..Len(rows'[k])
    BY <1>1 DEF Put
  <2> QED BY <2>1 DEF Put, HasActive
<1>4. ASSUME k # "decommission" \/ i <= Len(rows[k]), rows["decommission"] = <<>>
      PROVE  rows'["decommission"] = <<>>
  <2>1. k # "decommission"
    BY <1>1, <1>4
  <2> QED BY <1>4, <2>1 DEF Put, Kinds
<1> QED BY <1>2, <1>3, <1>4

Requested(k) ==
    /\ HasActive(k)'
    /\ UNCHANGED rows \/ \E i \in RowIds : i = Len(rows[k]) + 1 /\ Put(k, i, NewJob)

LEMMA EnqueueStep ==
    ASSUME TypeOK, QueueInv, UNCHANGED <<worker, faults, stalled>>, NEW k \in Kinds, Enqueue(k)
    PROVE  QueueType' /\ QueueInv' /\ Requested(k)
<1>0. \A y \in Workers, m \in Kinds, j \in RowIds : Holds(y, m, j)' <=> Holds(y, m, j)
  BY DEF Holds
<1>1. CASE HasActive(k)
  <2>1. UNCHANGED rows
    BY <1>1 DEF Enqueue
  <2> QED BY <1>0, <1>1, <2>1, QuietQueue, TypeParts DEF QueueType, Requested, HasActive
<1>2. CASE ~HasActive(k)
  <2>1. Len(rows[k]) < MaxRows /\ rows' = [rows EXCEPT ![k] = Append(@, NewJob)]
        /\ NewJob \in Job
    BY <1>2 DEF Enqueue, NewJob, Job
  <2>2. QueueType' /\ Put(k, Len(rows[k]) + 1, NewJob) /\ Len(rows[k]) + 1 \in RowIds
    BY <2>1, AppendRow, TypeParts
  <2>3. QueueInv'
    BY <1>0, <2>2, PutQueue, TypeParts
  <2>4. HasActive(k)'
    <3>1. Active(NewJob)
      BY DEF Active, NewJob
    <3>2. Len(rows[k]) \in Nat
      BY TypeParts DEF QueueType
    <3> QED BY <2>2, <3>1, <3>2, PutKeeps, TypeParts
  <2> QED BY <2>2, <2>3, <2>4 DEF Requested
<1> QED BY <1>1, <1>2

LEMMA ReopenStep ==
    ASSUME TypeOK, QueueInv, UNCHANGED <<worker, faults, stalled>>, Reopen
    PROVE  /\ QueueType' /\ QueueInv'
           /\ \E i \in RowIds : i <= Len(rows["provision"]) /\ Put("provision", i, NewJob)
<1>0. \A y \in Workers, m \in Kinds, j \in RowIds : Holds(y, m, j)' <=> Holds(y, m, j)
  BY DEF Holds
<1>1. PICK i \in 1..Len(rows["provision"]) :
        /\ rows["provision"][i].status = "failed"
        /\ rows' = [rows EXCEPT !["provision"][i] = NewJob]
  BY DEF Reopen
<1>2. NewJob \in Job /\ "provision" \in Kinds /\ i \in RowIds /\ Len(rows["provision"]) \in Nat
  BY RowFacts, TypeParts DEF NewJob, Job, Kinds
<1>3. rows' = [rows EXCEPT !["provision"] = [@ EXCEPT ![i] = NewJob]]
  BY <1>1, <1>2, TypeParts DEF QueueType
<1>4. QueueType' /\ Put("provision", i, NewJob)
  BY <1>2, <1>3, WriteRow, TypeParts
<1>5. QueueInv'
  BY <1>0, <1>1, <1>2, <1>4, PutQueue, TypeParts
<1> QED BY <1>2, <1>4, <1>5

\* The steps of an edit touch the configuration, the queue and the request.
LEMMA EditStep ==
    ASSUME TypeOK, EditRequest
    PROVE  /\ config' \in 0..MaxEdits /\ missed' \in BOOLEAN /\ edit' \in Edit
           /\ UNCHANGED <<tenant, remote, marker, retries, worker, cluster, report, reported,
                          overwritten, stalled, faults>>
           /\ UNCHANGED rows \/ \E k \in {"provision", "reconcile"} : Enqueue(k)
           /\ missed => missed'
<1>1. config \in 0..MaxEdits /\ missed \in BOOLEAN /\ edit \in Edit /\ tenant \in TenantStates
      /\ NoEdit \in Edit
  BY DEF TypeOK, NoEdit, Edit, Edits, TenantStates
<1>2. /\ UNCHANGED <<tenant, remote, marker, retries, worker, cluster, report, reported,
                     overwritten, stalled, faults>>
  BY DEF EditRequest, SaveSiem, EditReads, EditLooks, EditCommits, EditRefused, EditDies,
     queue, history
<1>3. config' \in 0..MaxEdits
  <2>1. config' = config \/ (config < MaxEdits /\ config' = config + 1)
    BY DEF EditRequest, SaveSiem, EditReads, EditLooks, EditCommits, EditRefused, EditDies
  <2> QED BY <1>1, <2>1, BoundsAssumption
<1>4. missed' \in BOOLEAN
  BY <1>1 DEF EditRequest, SaveSiem, EditReads, EditLooks, EditCommits, EditRefused, EditDies,
     history
<1>5. edit' \in Edit
  <2>1. CASE SaveSiem
    BY <1>1, <2>1 DEF SaveSiem, Edit, Edits
  <2>2. CASE \E by \in Edits : EditReads(by)
    BY <1>1, <2>2 DEF EditReads, Edit
  <2>3. CASE EditLooks
    BY <1>1, <2>3 DEF EditLooks, Edit
  <2>4. CASE EditCommits \/ EditRefused \/ EditDies
    BY <1>1, <2>4 DEF EditCommits, EditRefused, EditDies
  <2> QED BY <2>1, <2>2, <2>3, <2>4 DEF EditRequest
<1>6. UNCHANGED rows \/ \E k \in {"provision", "reconcile"} : Enqueue(k)
  BY DEF EditRequest, SaveSiem, EditReads, EditLooks, EditCommits, EditRefused, EditDies,
     queue, Queued
<1>7. missed => missed'
  <2>1. CASE SaveSiem
    BY <2>1, Zenon DEF SaveSiem
  <2>2. CASE EditCommits
    <3>1. missed' = missed \/ missed' = (missed \/ EditIsLate)
      BY <2>2, Zenon DEF EditCommits
    <3> QED BY <3>1, Zenon
  <2>3. CASE EditDies
    BY <2>3, Zenon DEF EditDies
  <2>4. CASE EditLooks \/ EditRefused \/ \E by \in Edits : EditReads(by)
    BY <2>4 DEF EditLooks, EditRefused, EditReads, history
  <2> QED BY <2>1, <2>2, <2>3, <2>4 DEF EditRequest
<1> QED BY <1>1, <1>2, <1>3, <1>4, <1>5, <1>6, <1>7

\* What an operator can queue.
Queues ==
    \/ UNCHANGED rows
    \/ DecommissionTenant /\ Requested("decommission")
    \/ \E k \in {"provision", "reconcile"} : Requested(k)
    \/ \E i \in RowIds : i <= Len(rows["provision"]) /\ Put("provision", i, NewJob)

LEMMA OperatorStep ==
    ASSUME TypeOK, QueueInv, Operator
    PROVE  TypeOK' /\ QueueInv' /\ QueueType' /\ UNCHANGED worker /\ Queues
<1>0. UNCHANGED <<worker, faults, stalled>>
  BY EditStep DEF Operator, Suspend, Resume, DecommissionTenant, RetryProvisioning,
     ReconcileTenant, history, cluster, queue
<1>1. QueueInv' /\ QueueType' /\ Queues
  <2> DEFINE Asked == \E k \in {"provision", "reconcile"} : Enqueue(k)
  <2>1. \/ UNCHANGED rows
        \/ DecommissionTenant /\ Enqueue("decommission")
        \/ Asked \/ Reopen
    <3>1. CASE Suspend \/ Resume
      BY <3>1 DEF Suspend, Resume, queue
    <3>2. CASE DecommissionTenant
      BY <3>2 DEF DecommissionTenant
    <3>3. CASE RetryProvisioning
      BY <3>3 DEF RetryProvisioning
    <3>4. CASE ReconcileTenant
      BY <3>4 DEF ReconcileTenant
    <3>5. CASE EditRequest
      BY <3>5, EditStep
    <3> QED BY <3>1, <3>2, <3>3, <3>4, <3>5 DEF Operator
  <2>2. CASE UNCHANGED rows
    <3>1. \A y \in Workers, m \in Kinds, j \in RowIds : Holds(y, m, j)' <=> Holds(y, m, j)
      BY <1>0 DEF Holds
    <3> QED BY <1>0, <2>2, <3>1, QuietQueue, TypeParts DEF QueueType, Queues
  <2>3. CASE DecommissionTenant /\ Enqueue("decommission")
    BY <1>0, <2>3, EnqueueStep DEF Kinds, Queues
  <2>4. CASE Asked
    <3>1. PICK k \in {"provision", "reconcile"} : Enqueue(k)
      BY <2>4
    <3>2. k \in Kinds
      BY DEF Kinds
    <3> QED BY <1>0, <3>1, <3>2, EnqueueStep DEF Queues
  <2>5. CASE Reopen
    BY <1>0, <2>5, ReopenStep DEF Queues
  <2> QED BY <2>1, <2>2, <2>3, <2>4, <2>5
<1>2. /\ tenant' \in TenantStates /\ missed' \in BOOLEAN
      /\ config' \in 0..MaxEdits /\ rendered' = rendered /\ retries' \in 0..MaxRetries
      /\ edit' \in Edit /\ UNCHANGED <<remote, marker, ns, report, reported, overwritten>>
  <2>1. CASE Suspend \/ Resume \/ DecommissionTenant \/ ReconcileTenant
    <3>1. tenant' \in TenantStates
      BY <2>1 DEF Suspend, Resume, DecommissionTenant, ReconcileTenant, TypeOK, TenantStates,
         Activate
    <3>2. missed' \in BOOLEAN
      BY <2>1 DEF Suspend, Resume, DecommissionTenant, ReconcileTenant, TypeOK, requests, Activate, history
    <3>3. UNCHANGED <<config, rendered, retries, remote, marker, ns, edit, report, reported,
                    overwritten>>
      BY <2>1 DEF Suspend, Resume, DecommissionTenant, ReconcileTenant, history, cluster, queue, requests
    <3> QED BY <3>1, <3>2, <3>3 DEF TypeOK
  <2>2. CASE RetryProvisioning
    <3>1. retries \in 0..MaxRetries
      BY DEF TypeOK
    <3>2. retries' \in 0..MaxRetries
      BY <2>2, <3>1, BoundsAssumption DEF RetryProvisioning
    <3>3. UNCHANGED <<tenant, missed, config, rendered, remote, marker, ns, edit, report, reported,
                    overwritten>>
      BY <2>2 DEF RetryProvisioning, history, cluster, requests
    <3> QED BY <3>2, <3>3 DEF TypeOK
  <2>3. CASE EditRequest
    BY <2>3, EditStep DEF TypeOK, cluster
  <2> QED BY <2>1, <2>2, <2>3 DEF Operator
<1> QED BY <1>0, <1>1, <1>2 DEF TypeOK, QueueType

Outside ==
    \/ (\E s \in {"active", "degraded"} : L2Reads(s)) \/ L2Writes
    \/ NamespaceVanishes \/ GracePasses

LEMMA OutsideStep ==
    ASSUME TypeOK, QueueInv, Outside
    PROVE  TypeOK' /\ QueueInv' /\ UNCHANGED <<rows, worker>>
<1>1. UNCHANGED <<rows, worker, stalled>> /\ (faults' = faults \/ faults' = faults + 1)
  BY DEF Outside, L2Reads, L2Writes, Reports, NamespaceVanishes, GracePasses, queue, history
<1>2. \A y \in Workers, m \in Kinds, j \in RowIds : Holds(y, m, j)' <=> Holds(y, m, j)
  BY <1>1 DEF Holds
<1>3. QueueInv'
  <2>1. CASE faults' = faults
    BY <1>1, <1>2, <2>1, QuietQueue, TypeParts DEF QueueType
  <2>2. CASE faults' = faults + 1
    BY <1>1, <1>2, <2>2, CrashQueue, TypeParts
  <2> QED BY <1>1, <2>1, <2>2
<1>4. TypeOK'
  <2>0. NoReport \in Report /\ report \in Report /\ tenant \in TenantStates
    BY DEF TypeOK, NoReport, Report, TenantStates
  <2>1. CASE \E s \in {"active", "degraded"} : L2Reads(s)
    <3>1. report' \in Report
      BY <2>0, <2>1 DEF L2Reads, Report
    <3> QED BY <2>1, <3>1 DEF L2Reads, TypeOK, queue, cluster, history
  <2>4. CASE L2Writes
    <3>1. report' \in Report /\ report.state \in {"active", "degraded"}
      BY <2>0, <2>4 DEF L2Writes, Reports, Report
    <3>2. tenant' \in TenantStates /\ overwritten' \in BOOLEAN
      BY <2>0, <2>4, <3>1 DEF L2Writes, Overwrites, TenantStates, TypeOK
    <3> QED BY <2>4, <3>1, <3>2 DEF L2Writes, Reports, TypeOK, queue, cluster
  <2>2. CASE NamespaceVanishes
    <3>0. faults \in 0..MaxFaults
      BY DEF TypeOK
    <3>1. faults < MaxFaults /\ faults' = faults + 1 /\ ns' = FALSE
      BY <2>2 DEF NamespaceVanishes
    <3>2. faults' \in 0..MaxFaults
      BY <3>0, <3>1, BoundsAssumption
    <3>3. UNCHANGED <<tenant, remote, marker, rows, retries, worker, rendered, config, requests,
                      missed, overwritten, stalled>>
      BY <2>2 DEF NamespaceVanishes, queue, history
    <3> QED BY <3>1, <3>2, <3>3 DEF TypeOK, requests
  <2>3. CASE GracePasses
    BY <2>3 DEF GracePasses, TypeOK, requests, queue, cluster, history
  <2> QED BY <2>1, <2>2, <2>3, <2>4 DEF Outside
<1> QED BY <1>1, <1>3, <1>4

LEMMA RollStep ==
    ASSUME TypeOK, QueueInv, NEW x \in Workers, RollOutdatedTenants(x)
    PROVE  TypeOK' /\ QueueInv' /\ QueueType' /\ UNCHANGED worker /\ Requested("reconcile")
<1>1. UNCHANGED <<worker, faults, stalled>> /\ Enqueue("reconcile") /\ "reconcile" \in Kinds
  BY DEF RollOutdatedTenants, history, Kinds
<1>2. QueueType' /\ QueueInv' /\ Requested("reconcile")
  BY <1>1, EnqueueStep
<1> QED BY <1>1, <1>2 DEF RollOutdatedTenants, TypeOK, requests, QueueType, cluster, history
-----------------------------------------------------------------------------
(* The row of the tenant: who has read what, and who holds it. *)

DecommissionSeen ==
    ~overwritten /\ rows["decommission"] # <<>> => tenant \in {"decommissioning", "archived"}

\* No worker moves.
LEMMA PhasedStill ==
    ASSUME Phased, UNCHANGED <<worker, overwritten, remote>>,
           tenant' = tenant \/ RowFree, tenant' = "provisioning" => tenant' = tenant,
           DecommissionSeen'
    PROVE  Phased'
<1>1. ASSUME NEW x \in Workers PROVE Phase(x)' /\ (HoldsRow(x)' <=> HoldsRow(x))
  BY <1>1 DEF Phased, Phase, HoldsRow
<1>2. (tenant = "provisioning" => remote)'
  BY DEF Phased
<1>3. ASSUME NEW x \in Workers, HoldsRow(x)'
      PROVE  /\ ~overwritten' => tenant' = worker'[x].seen
             /\ \A y \in Workers : HoldsRow(y)' => x = y
  <2>1. HoldsRow(x) /\ tenant' = tenant
    BY <1>1, <1>3 DEF RowFree
  <2> QED BY <1>1, <2>1 DEF Phased
<1> QED BY <1>1, <1>2, <1>3 DEF Phased, DecommissionSeen

\* One worker moves.
LEMMA PhasedMove ==
    ASSUME Phased, NEW x \in Workers, Only(x), UNCHANGED remote, overwritten => overwritten',
           Phase(x)', tenant' = tenant \/ RowFreeFor(x),
           tenant' = "provisioning" => tenant' = tenant \/ remote,
           HoldsRow(x)' => HoldsRow(x) \/ RowFreeFor(x),
           HoldsRow(x)' /\ ~overwritten' => tenant' = worker'[x].seen,
           DecommissionSeen'
    PROVE  Phased'
<1>1. ASSUME NEW y \in Workers, y # x PROVE Phase(y)' /\ (HoldsRow(y)' <=> HoldsRow(y))
                                            /\ worker'[y] = worker[y]
  BY <1>1 DEF Phased, Phase, HoldsRow, Only
<1>2. (tenant = "provisioning" => remote)'
  BY DEF Phased
<1>3. ASSUME NEW y \in Workers, HoldsRow(y)', NEW z \in Workers, HoldsRow(z)'
      PROVE  y = z
  <2>1. CASE y = x /\ z # x
    BY <1>1, <1>3, <2>1 DEF RowFreeFor, Phased
  <2>2. CASE y # x /\ z = x
    BY <1>1, <1>3, <2>2 DEF RowFreeFor, Phased
  <2>3. CASE y # x /\ z # x
    BY <1>1, <1>3, <2>3 DEF Phased
  <2> QED BY <2>1, <2>2, <2>3
<1>4. ASSUME NEW y \in Workers, HoldsRow(y)', ~overwritten'
      PROVE  tenant' = worker'[y].seen
  <2>1. CASE y = x
    BY <1>4, <2>1
  <2>2. CASE y # x
    BY <1>1, <1>4, <2>2 DEF RowFreeFor, Phased
  <2> QED BY <2>1, <2>2
<1> QED BY <1>1, <1>2, <1>3, <1>4 DEF Phased, DecommissionSeen

\* A worker with a decommission job: there is one.
LEMMA DecommissionRow ==
    ASSUME TypeOK, QueueInv, Phased, NEW x \in Workers, ~Free(worker[x]),
           worker[x].kind = "decommission"
    PROVE  rows["decommission"] # <<>>
<1>1. worker[x].row \in 1..Len(rows["decommission"])
  BY AtJob DEF QueueInv, Phased
<1> QED BY <1>1

LEMMA PhasedLoad ==
    ASSUME TypeOK, QueueInv, Phased, NEW x \in Workers, Load(x)
    PROVE  Phased'
<1>1. /\ Only(x) /\ worker'[x] = LoadedAs(x) /\ worker[x].at = "claimed" /\ tenant # "archived"
      /\ UNCHANGED <<tenant, remote, overwritten, rows>> /\ Phase(x)
      /\ worker[x].kind \in Kinds /\ ~Free(worker[x])
  BY LoadStep, TypeParts DEF Load, history, queue, Free, Phased
<1>2. /\ worker'[x].at = Loading(x) /\ worker'[x].kind = worker[x].kind
      /\ worker'[x].row = worker[x].row
      /\ Loading(x) \in {"succeeded", "failed", "blocked", "starting", "namespaced"}
      /\ Loading(x) \notin {"succeeded", "failed"} => worker'[x].seen = tenant
  BY <1>1, LoadForm
<1>3. worker[x].row \in RowIds
  BY <1>1 DEF Phase, Free
<1>4. Phase(x)' /\ ~HoldsRow(x)'
  <2>1. CASE worker[x].kind = "provision"
    <3>1. Loading(x) = ProvisionFrom(tenant)
      BY <2>1 DEF Loading
    <3>2. /\ Loading(x) \in {"succeeded", "failed", "blocked"}
          /\ Loading(x) = "blocked" => tenant \in {"pending", "degraded"}
      BY <1>1, <3>1 DEF ProvisionFrom, Phased
    <3> QED BY <1>2, <1>3, <2>1, <3>2 DEF Phase, HoldsRow
  <2>2. CASE worker[x].kind = "reconcile"
    <3>1. Loading(x) = ReconcileFrom(tenant)
      BY <2>2 DEF Loading
    <3>2. /\ Loading(x) \in {"succeeded", "failed", "namespaced"}
          /\ Loading(x) = "namespaced" => tenant = "active"
      BY <3>1 DEF ReconcileFrom
    <3> QED BY <1>2, <1>3, <2>2, <3>2 DEF Phase, HoldsRow
  <2>3. CASE worker[x].kind = "decommission"
    <3>1. Loading(x) = DecommissionFrom(tenant)
      BY <2>3 DEF Loading
    <3>2. /\ Loading(x) \in {"blocked", "starting"}
          /\ Loading(x) = "starting" => tenant = "decommissioning"
      BY <3>1 DEF DecommissionFrom
    <3>3. ~overwritten => tenant = "decommissioning"
      BY <1>1, <2>3, DecommissionRow DEF Phased
    <3> QED BY <1>1, <1>2, <1>3, <2>3, <3>2, <3>3 DEF Phase, HoldsRow
  <2> QED BY <1>1, <2>1, <2>2, <2>3 DEF Kinds
<1>5. DecommissionSeen'
  BY <1>1 DEF Phased, DecommissionSeen
<1> QED BY <1>1, <1>4, <1>5, PhasedMove

LEMMA PhasedEnter ==
    ASSUME TypeOK, QueueInv, Phased, NEW x \in Workers, Enter(x)
    PROVE  Phased'
<1>1. /\ Only(x) /\ worker'[x].kind = worker[x].kind /\ worker'[x].row = worker[x].row
      /\ IF worker[x].kind = "provision" /\ remote
         THEN worker'[x].at = "succeeded"
         ELSE worker'[x].at = "starting" /\ worker'[x].seen = worker[x].seen
  BY EnterStep
<1>2. /\ worker[x].at = "blocked" /\ RowFreeFor(x) /\ UNCHANGED <<remote, rows>> /\ Phase(x)
      /\ overwritten' = (overwritten \/ tenant # worker[x].seen)
      /\ worker[x].kind \in Kinds /\ ~Free(worker[x])
  BY TypeParts DEF Enter, queue, Overwrites, Phased, Free
<1>3. IF worker[x].kind = "provision" /\ remote
      THEN tenant' = "provisioning" ELSE tenant' = tenant
  BY DEF Enter
<1>4. Phase(x)'
  BY <1>1, <1>2 DEF Phase, Kinds
<1>5. DecommissionSeen'
  <2>1. CASE worker[x].kind = "provision" /\ remote
    BY <1>2, <1>3, <2>1 DEF Phased, Phase, DecommissionSeen
  <2>2. CASE ~(worker[x].kind = "provision" /\ remote)
    BY <1>2, <1>3, <2>2 DEF Phased, DecommissionSeen
  <2> QED BY <2>1, <2>2
<1>6. HoldsRow(x)' /\ ~overwritten' => tenant' = worker'[x].seen
  BY <1>1, <1>2, <1>3 DEF HoldsRow
<1> QED BY <1>1, <1>2, <1>3, <1>4, <1>5, <1>6, PhasedMove

LEMMA PhasedProvisions ==
    ASSUME TypeOK, QueueInv, Phased, NEW x \in Workers, Provisions(x)
    PROVE  Phased'
<1>1. /\ Only(x) /\ worker'[x].kind = worker[x].kind /\ worker'[x].row = worker[x].row
      /\ worker'[x].seen = worker[x].seen
      /\ EnsureNamespace(x) => worker'[x].at = "namespaced"
      /\ HelmApplyTenant(x) => worker'[x].at = "applied"
      /\ Teardown(x) => worker'[x].at = "removed"
  BY ProvisionsStep
<1>2. /\ EnsureNamespace(x) => worker[x].at = "starting" /\ worker[x].kind = "provision"
      /\ HelmApplyTenant(x) => worker[x].at = "namespaced"
      /\ Teardown(x) => worker[x].at = "starting" /\ worker[x].kind = "decommission"
      /\ UNCHANGED <<tenant, remote, rows, overwritten>>
  BY DEF Provisions, EnsureNamespace, HelmApplyTenant, Teardown, queue, history
<1>3. Phase(x) /\ worker[x].kind \in Kinds
  BY TypeParts DEF Phased
<1>4. Phase(x)' /\ (HoldsRow(x)' => HoldsRow(x))
  <2>1. CASE EnsureNamespace(x)
    BY <1>1, <1>2, <1>3, <2>1 DEF Phase, HoldsRow
  <2>2. CASE HelmApplyTenant(x)
    BY <1>1, <1>2, <1>3, <2>2 DEF Phase, HoldsRow, Kinds
  <2>3. CASE Teardown(x)
    BY <1>1, <1>2, <1>3, <2>3 DEF Phase, HoldsRow
  <2> QED BY <2>1, <2>2, <2>3 DEF Provisions
<1>5. HoldsRow(x)' /\ ~overwritten' => tenant' = worker'[x].seen
  BY <1>1, <1>2, <1>4 DEF Phased
<1>6. DecommissionSeen'
  BY <1>2 DEF Phased, DecommissionSeen
<1> QED BY <1>1, <1>2, <1>4, <1>5, <1>6, PhasedMove

\* What the end of a job writes over.
LEMMA ConcludesOver ==
    ASSUME TypeOK, QueueInv, Phased, NEW x \in Workers, Concludes(x)
    PROVE  /\ tenant' = tenant \/ RowFreeFor(x)
           /\ overwritten => overwritten'
           /\ tenant' \in {"active", "degraded", "archived", tenant}
           /\ ~overwritten' /\ tenant' # tenant =>
                  \/ tenant \in {"pending", "degraded", "active"}
                  \/ tenant = "decommissioning" /\ tenant' = "archived" /\ Archive(x)
<1>1. Phase(x) /\ worker[x].kind \in Kinds
  BY TypeParts DEF Phased
<1>2. HoldsRow(x) /\ ~overwritten => tenant = worker[x].seen
  BY DEF Phased
<1>3. CASE Finish(x)
  <2>1. CASE worker[x].kind = "provision"
    <3>1. HoldsRow(x) /\ worker[x].seen \in {"pending", "degraded"}
      BY <1>1, <1>3, <2>1 DEF Finish, Phase, HoldsRow
    <3> QED BY <1>2, <1>3, <2>1, <3>1 DEF Finish, history
  <2>2. CASE worker[x].kind # "provision"
    BY <1>3, <2>2 DEF Finish, history
  <2> QED BY <2>1, <2>2
<1>4. CASE FailStep(x)
  <2>1. worker[x].seen \in {"pending", "degraded", "active"}
    BY <1>1, <1>4 DEF FailStep, Phase, Kinds
  <2>2. RowFreeFor(x) /\ tenant' = "degraded"
    BY <1>4 DEF FailStep
  <2>3. CASE HoldsRow(x)
    BY <1>2, <1>4, <2>1, <2>2, <2>3 DEF FailStep
  <2>4. CASE ~HoldsRow(x)
    BY <1>4, <2>1, <2>2, <2>4 DEF FailStep, Overwrites
  <2> QED BY <2>3, <2>4
<1>5. CASE Archive(x)
  <2>1. worker[x].kind = "decommission" /\ (~overwritten => worker[x].seen = "decommissioning")
    BY <1>1, <1>5 DEF Archive, Phase, Kinds
  <2>2. RowFreeFor(x) /\ tenant' = "archived"
    BY <1>5 DEF Archive
  <2>3. CASE HoldsRow(x)
    BY <1>2, <1>5, <2>1, <2>2, <2>3 DEF Archive
  <2>4. CASE ~HoldsRow(x)
    BY <1>5, <2>1, <2>2, <2>4 DEF Archive, Overwrites
  <2> QED BY <2>3, <2>4
<1>6. CASE RollBack(x)
  BY <1>6 DEF RollBack, history
<1> QED BY <1>3, <1>4, <1>5, <1>6 DEF Concludes

LEMMA PhasedConcludes ==
    ASSUME TypeOK, QueueInv, Phased, NEW x \in Workers, Concludes(x)
    PROVE  Phased'
<1>1. /\ Only(x) /\ worker'[x].kind = worker[x].kind /\ worker'[x].row = worker[x].row
      /\ worker'[x].at \in {"succeeded", "failed"}
  BY ConcludesStep
<1>2. ~Free(worker[x]) /\ Phase(x) /\ UNCHANGED <<remote, rows>>
  BY DEF Concludes, Finish, FailStep, Archive, RollBack, Free, Phased, queue
<1>3. Phase(x)' /\ ~HoldsRow(x)'
  BY <1>1, <1>2 DEF Phase, HoldsRow, Free
<1>4. DecommissionSeen'
  BY <1>2, ConcludesOver DEF Phased, DecommissionSeen
<1>5. tenant' = "provisioning" => tenant' = tenant
  BY ConcludesOver
<1> QED BY <1>1, <1>2, <1>3, <1>4, <1>5, ConcludesOver, PhasedMove

\* What the sweep writes over.
LEMMA SweepOver ==
    ASSUME TypeOK, Phased, NEW x \in Workers, SweepWrite(x)
    PROVE  /\ RowFree /\ (overwritten => overwritten')
           /\ tenant' \in {"active", "degraded", "archived", tenant}
           /\ ~overwritten' /\ tenant' # tenant =>
                  \/ tenant \in {"active", "degraded"} /\ (tenant' = "archived" => ~ns)
                  \/ tenant = "decommissioning" /\ tenant' = "archived" /\ ~ns
<1>1. worker[x].seen \in {"active", "degraded", "decommissioning"}
      /\ worker[x].at \in {"missing", "ready", "unready"} /\ RowFree
  BY DEF Phased, Phase, SweepWrite
<1>2. CASE UNCHANGED <<tenant, overwritten>>
  BY <1>1, <1>2
<1>3. CASE ~UNCHANGED <<tenant, overwritten>>
  <2>1. /\ \/ worker[x].at = "missing" /\ Missing(worker[x].seen, worker[x].marker)
           \/ worker[x].at # "missing" /\ Present(worker[x].seen, worker[x].marker,
                                                  worker[x].at = "ready")
        /\ overwritten' = (\/ overwritten
                           \/ tenant' # tenant /\ (\/ tenant # worker[x].seen
                                                   \/ (worker[x].at = "missing") = ns))
    BY <1>3 DEF SweepWrite
  <2>2. tenant' \in {"active", "degraded", "archived", tenant}
    BY <2>1 DEF Missing, Present, Activate
  <2>3. ASSUME ~overwritten', tenant' # tenant
        PROVE  /\ tenant = worker[x].seen
               /\ worker[x].at = "missing" => ~ns
               /\ worker[x].seen = "decommissioning" => worker[x].at = "missing"
               /\ worker[x].seen = "decommissioning" => tenant' = "archived"
               /\ tenant' = "archived" => worker[x].at = "missing"
    <3>1. tenant = worker[x].seen /\ ~((worker[x].at = "missing") = ns)
      BY <2>1, <2>3
    <3>2. worker[x].at = "missing" => ~ns
      BY <3>1 DEF TypeOK
    <3> QED BY <1>1, <2>1, <2>3, <3>1, <3>2 DEF Missing, Present, Activate
  <2>4. overwritten => overwritten'
    BY <2>1
  <2> QED BY <1>1, <2>2, <2>3, <2>4
<1> QED BY <1>2, <1>3

LEMMA PhasedSweep ==
    ASSUME TypeOK, QueueInv, Phased, NEW x \in Workers, Probe(x) \/ SweepWrite(x)
    PROVE  Phased'
<1>1. CASE Probe(x)
  <2>1. /\ Only(x) /\ worker'[x].at \in {"missing", "ready", "unready"}
        /\ worker'[x].kind = "provision" /\ worker'[x].seen = tenant
    BY <1>1, SweepStep
  <2>2. tenant \in {"active", "degraded", "decommissioning"}
        /\ UNCHANGED <<tenant, remote, rows, overwritten>>
    BY <1>1 DEF Probe, queue, history
  <2>3. Phase(x)' /\ ~HoldsRow(x)'
    BY <2>1, <2>2 DEF Phase, HoldsRow
  <2>4. DecommissionSeen'
    BY <2>2 DEF Phased, DecommissionSeen
  <2> QED BY <2>1, <2>2, <2>3, <2>4, PhasedMove
<1>2. CASE SweepWrite(x)
  <2>1. Only(x) /\ worker'[x] = Idle /\ UNCHANGED <<remote, rows>>
    <3>1. worker[x].at # "idle"
      BY <1>2 DEF SweepWrite
    <3>2. ~Probe(x)
      BY <3>1 DEF Probe
    <3> QED BY <1>2, <3>2, SweepStep DEF SweepWrite, queue
  <2>2. Phase(x)' /\ ~HoldsRow(x)'
    BY <2>1 DEF Phase, HoldsRow, Idle
  <2>3. DecommissionSeen'
    BY <1>2, <2>1, SweepOver DEF Phased, DecommissionSeen
  <2>4. tenant' = "provisioning" => tenant' = tenant
    BY <1>2, SweepOver
  <2>5. RowFreeFor(x)
    BY <1>2, SweepOver DEF RowFree, RowFreeFor
  <2> QED BY <1>2, <2>1, <2>2, <2>3, <2>4, <2>5, SweepOver, PhasedMove
<1> QED BY <1>1, <1>2

LEMMA PhasedClaim ==
    ASSUME TypeOK, QueueInv, Phased, NEW x \in Workers, NEW k \in Kinds, NEW i \in RowIds,
           Claim(x, k, i)
    PROVE  Phased'
<1>1. /\ TypeOK' /\ Only(x) /\ worker'[x].at = "claimed" /\ worker'[x].kind = k
      /\ worker'[x].row \in RowIds /\ i <= Len(rows[k])
  BY ClaimStep
<1>2. PICK job \in Job : job.status = "in_flight" /\ Put(k, i, job)
  BY ClaimStep
<1>3. Phase(x)' /\ ~HoldsRow(x)'
  BY <1>1 DEF Phase, HoldsRow
<1>4. UNCHANGED <<tenant, remote, overwritten>>
  BY DEF Claim, history
<1>5. DecommissionSeen'
  <2>1. i <= Len(rows[k]) + 1
    BY <1>1, TypeParts, BoundsAssumption DEF RowIds, QueueType
  <2>2. rows'["decommission"] # <<>> => rows["decommission"] # <<>>
    BY <1>1, <1>2, <2>1, PutKeeps, TypeParts DEF TypeOK, QueueType
  <2> QED BY <1>4, <2>2 DEF Phased, DecommissionSeen
<1> QED BY <1>1, <1>3, <1>4, <1>5, PhasedMove

LEMMA PhasedSettles ==
    ASSUME TypeOK, QueueInv, Phased, NEW x \in Workers, Settles(x)
    PROVE  Phased'
<1>1. TypeOK' /\ Only(x) /\ worker'[x] = Idle /\ Outcome(x) /\ Phase(x)
  BY SettlesStep DEF Phased
<1>2. Phase(x)' /\ ~HoldsRow(x)'
  BY <1>1 DEF Phase, HoldsRow, Idle
<1>3. UNCHANGED <<tenant, remote, overwritten>> /\ ~Free(worker[x])
  BY DEF Settles, Abandon, RecordSuccess, RecordFailure, history, Free
<1>4. DecommissionSeen'
  <2>1. CASE UNCHANGED rows
    BY <1>3, <2>1 DEF Phased, DecommissionSeen
  <2>2. CASE \E job \in Job : Put(worker[x].kind, worker[x].row, job)
    <3>1. PICK job \in Job : Put(worker[x].kind, worker[x].row, job)
      BY <2>2
    <3>2. /\ worker[x].kind \in Kinds /\ worker[x].row \in RowIds
          /\ worker[x].row \in 1..Len(rows[worker[x].kind])
      BY <1>1, <1>3, AtJob DEF QueueInv
    <3>3. Len(rows[worker[x].kind]) \in Nat
      BY <3>2, TypeParts DEF QueueType
    <3>4. worker[x].row <= Len(rows[worker[x].kind]) + 1
          /\ worker[x].row <= Len(rows[worker[x].kind])
      BY <3>2, <3>3
    <3>5. QueueType /\ QueueType'
      BY <1>1 DEF TypeOK, QueueType
    <3>6. rows'["decommission"] # <<>> => rows["decommission"] # <<>>
      BY <3>1, <3>2, <3>4, <3>5, PutKeeps
    <3> QED BY <1>3, <3>6 DEF Phased, DecommissionSeen
  <2> QED BY <1>1, <2>1, <2>2 DEF Outcome
<1> QED BY <1>1, <1>2, <1>3, <1>4, PhasedMove

LEMMA PhasedCrash ==
    ASSUME TypeOK, QueueInv, Phased, NEW x \in Workers, Crash(x)
    PROVE  Phased'
<1>1. Only(x) /\ worker'[x] = Idle
  BY CrashStep
<1>2. Phase(x)' /\ ~HoldsRow(x)'
  BY <1>1 DEF Phase, HoldsRow, Idle
<1>3. UNCHANGED <<tenant, remote, overwritten, rows>>
  BY DEF Crash, history, queue
<1>4. DecommissionSeen'
  BY <1>3 DEF Phased, DecommissionSeen
<1> QED BY <1>1, <1>2, <1>3, <1>4, PhasedMove

LEMMA PhasedReclaim ==
    ASSUME TypeOK, QueueInv, Phased, NEW k \in Kinds, NEW i \in RowIds, ReclaimStale(k, i)
    PROVE  Phased'
<1>1. TypeOK' /\ i \in 1..Len(rows[k]) /\ \E job \in Job : Put(k, i, job)
  BY ReclaimStep
<1>2. PICK job \in Job : Put(k, i, job)
  BY <1>1
<1>3. UNCHANGED <<tenant, remote, overwritten, worker>>
  BY DEF ReclaimStale
<1>4. rows'["decommission"] # <<>> => rows["decommission"] # <<>>
  <2>1. Len(rows[k]) \in Nat
    BY TypeParts DEF QueueType
  <2>2. i <= Len(rows[k]) + 1 /\ i <= Len(rows[k])
    BY <1>1, <2>1
  <2>3. QueueType /\ QueueType'
    BY <1>1 DEF TypeOK, QueueType
  <2> QED BY <1>2, <2>2, <2>3, PutKeeps
<1>5. DecommissionSeen'
  BY <1>3, <1>4 DEF Phased, DecommissionSeen
<1> QED BY <1>3, <1>5, PhasedStill

\* What is queued for another kind leaves the decommission jobs alone.
LEMMA RequestedKeeps ==
    ASSUME TypeOK, QueueType', NEW k \in {"provision", "reconcile"}, Requested(k)
    PROVE  rows'["decommission"] # <<>> => rows["decommission"] # <<>>
<1>1. k \in Kinds /\ k # "decommission"
  BY DEF Kinds
<1>2. CASE UNCHANGED rows
  BY <1>2
<1>3. CASE \E i \in RowIds : i = Len(rows[k]) + 1 /\ Put(k, i, NewJob)
  <2>1. PICK i \in RowIds : i = Len(rows[k]) + 1 /\ Put(k, i, NewJob)
    BY <1>3
  <2>2. i <= Len(rows[k]) + 1
    BY <1>1, <2>1, TypeParts DEF QueueType
  <2> QED BY <1>1, <2>1, <2>2, PutKeeps, TypeParts
<1> QED BY <1>2, <1>3 DEF Requested

LEMMA PhasedOperator ==
    ASSUME TypeOK, QueueInv, Phased, Operator
    PROVE  Phased'
<1>1. QueueType' /\ UNCHANGED worker /\ Queues
  BY OperatorStep
<1>2. UNCHANGED <<remote, overwritten>>
  BY EditStep DEF Operator, Suspend, Resume, DecommissionTenant, RetryProvisioning,
     ReconcileTenant, history
<1>3. /\ tenant' = tenant \/ RowFree
      /\ tenant' # tenant =>
            \/ tenant' = "decommissioning"
            \/ /\ tenant \in {"active", "suspended", "degraded", "provisioning"}
               /\ tenant' \in {"active", "suspended"}
      /\ DecommissionTenant => tenant' \in {"decommissioning", "archived"}
  BY EditStep DEF Operator, Suspend, Resume, DecommissionTenant, RetryProvisioning,
     ReconcileTenant, Activate
<1>4. DecommissionSeen'
  <2>1. CASE DecommissionTenant
    BY <1>3, <2>1 DEF DecommissionSeen
  <2>2. CASE ~DecommissionTenant
    <3>1. rows'["decommission"] # <<>> => rows["decommission"] # <<>>
      <4>1. CASE UNCHANGED rows
        BY <4>1
      <4>2. CASE \E k \in {"provision", "reconcile"} : Requested(k)
        BY <1>1, <4>2, RequestedKeeps
      <4>3. CASE \E i \in RowIds : i <= Len(rows["provision"]) /\ Put("provision", i, NewJob)
        BY <4>3 DEF Put, Kinds
      <4> QED BY <1>1, <2>2, <4>1, <4>2, <4>3 DEF Queues
    <3> QED BY <1>2, <1>3, <3>1 DEF Phased, DecommissionSeen
  <2> QED BY <2>1, <2>2
<1>5. tenant' = "provisioning" => tenant' = tenant
  BY <1>3
<1> QED BY <1>1, <1>2, <1>3, <1>4, <1>5, PhasedStill

\* A report that was read before an operator decided is a stale write.
LEMMA OutsideOver ==
    ASSUME TypeOK, Outside
    PROVE  /\ overwritten => overwritten'
           /\ tenant' # tenant =>
                 /\ tenant' \in {"active", "degraded"} /\ RowFree
                 /\ tenant \in {"suspended", "decommissioning", "archived"} => overwritten'
<1>1. report.state \in {"active", "degraded"}
  BY DEF TypeOK, Report
<1>2. CASE L2Writes
  <2>1. CASE report.seen \in {"suspended", "decommissioning", "archived", report.state}
    BY <1>2, <2>1 DEF L2Writes
  <2>2. CASE report.seen \notin {"suspended", "decommissioning", "archived", report.state}
    <3>1. RowFree /\ tenant' = report.state
          /\ overwritten' = (overwritten \/ tenant # report.seen)
      BY <1>2, <2>2 DEF L2Writes, Overwrites
    <3>2. overwritten => overwritten'
      BY <3>1, Zenon
    <3>3. tenant # report.seen => overwritten'
      BY <3>1, Zenon
    <3> QED BY <1>1, <2>2, <3>1, <3>2, <3>3
  <2> QED BY <2>1, <2>2
<1>3. CASE ~L2Writes
  BY <1>3 DEF Outside, L2Reads, NamespaceVanishes, GracePasses, history
<1> QED BY <1>2, <1>3

\* No worker moves, a write is stale.
LEMMA PhasedOverwritten ==
    ASSUME Phased, UNCHANGED <<worker, remote>>, overwritten', RowFree,
           tenant' # "provisioning"
    PROVE  Phased'
<1>1. ASSUME NEW x \in Workers PROVE Phase(x)' /\ ~HoldsRow(x)'
  BY <1>1 DEF Phased, Phase, HoldsRow, RowFree
<1> QED BY <1>1 DEF Phased

LEMMA PhasedOutside ==
    ASSUME TypeOK, QueueInv, Phased, Outside
    PROVE  Phased'
<1>1. UNCHANGED <<rows, worker>>
  BY OutsideStep
<1>2. UNCHANGED remote
  BY DEF Outside, L2Reads, L2Writes, Reports, NamespaceVanishes, GracePasses
<1>3. CASE UNCHANGED overwritten
  <2>1. DecommissionSeen'
    BY <1>1, <1>3, OutsideOver DEF Phased, DecommissionSeen
  <2> QED BY <1>1, <1>2, <1>3, <2>1, OutsideOver, PhasedStill
<1>4. CASE ~UNCHANGED overwritten
  <2>1. overwritten' /\ RowFree /\ tenant' \in {"active", "degraded"}
    BY <1>4, OutsideOver
       DEF Outside, L2Reads, L2Writes, Overwrites, NamespaceVanishes, GracePasses, history, TypeOK,
           Report
  <2> QED BY <1>1, <1>2, <2>1, PhasedOverwritten
<1> QED BY <1>3, <1>4

LEMMA PhasedRoll ==
    ASSUME TypeOK, QueueInv, Phased, NEW x \in Workers, RollOutdatedTenants(x)
    PROVE  Phased'
<1>1. QueueType' /\ UNCHANGED worker /\ Requested("reconcile")
  BY RollStep
<1>2. UNCHANGED <<tenant, remote, overwritten>>
  BY DEF RollOutdatedTenants, history
<1>3. DecommissionSeen'
  BY <1>1, <1>2, RequestedKeeps DEF Phased, DecommissionSeen
<1> QED BY <1>1, <1>2, <1>3, PhasedStill
-----------------------------------------------------------------------------
(* The namespace after a teardown. *)

LEMMA EmptiedKeep ==
    ASSUME Emptied, overwritten => overwritten', ns' => ns,
           tenant' = "archived" /\ ~overwritten' => tenant = "archived" \/ ~ns',
           \A y \in Workers : worker'[y].at = "removed" => worker[y].at = "removed" \/ ~ns'
    PROVE  Emptied'
BY DEF Emptied

LEMMA EmptiedSteps ==
    ASSUME TypeOK, QueueInv, Phased, Emptied, NEW x \in Workers, RunJob(x)
    PROVE  Emptied'
<1>1. CASE Load(x)
  <2>1. Only(x) /\ worker'[x].at # "removed"
    <3>1. Only(x) /\ worker'[x] = LoadedAs(x)
      BY <1>1, LoadStep
    <3> QED BY <3>1, LoadForm
  <2>2. UNCHANGED <<tenant, ns, overwritten>>
    BY <1>1 DEF Load, cluster, history
  <2> QED BY <2>1, <2>2, EmptiedKeep DEF Only
<1>2. CASE Enter(x)
  <2>1. Only(x) /\ worker'[x].at # "removed"
    BY <1>2, EnterStep
  <2>2. /\ UNCHANGED ns /\ tenant' \in {tenant, "provisioning"}
        /\ overwritten => overwritten'
    BY <1>2 DEF Enter, cluster, Overwrites
  <2> QED BY <2>1, <2>2, EmptiedKeep DEF Only
<1>3. CASE EnsureNamespace(x)
  <2>1. Only(x) /\ worker'[x].at = "namespaced"
    BY <1>3, ProvisionsStep DEF Provisions
  <2>2. UNCHANGED <<tenant, overwritten>>
    BY <1>3 DEF EnsureNamespace, history
  <2>3. ~overwritten => tenant \in {"pending", "degraded"}
    BY <1>3 DEF EnsureNamespace, Phased, Phase, HoldsRow
  <2>4. ASSUME ~overwritten, NEW y \in Workers, worker[y].at = "removed"
        PROVE  FALSE
    <3>1. worker[y].kind = "decommission" /\ ~Free(worker[y])
      BY <2>4, TypeParts DEF Phased, Phase, Free, Kinds
    <3>2. rows["decommission"] # <<>>
      BY <3>1, DecommissionRow
    <3> QED BY <2>3, <2>4, <3>2 DEF Phased
  <2> QED BY <2>1, <2>2, <2>3, <2>4 DEF Emptied, Only
<1>4. CASE HelmApplyTenant(x)
  <2>1. Only(x) /\ worker'[x].at = "applied"
    BY <1>4, ProvisionsStep DEF Provisions
  <2>2. UNCHANGED <<tenant, ns, overwritten>>
    BY <1>4 DEF HelmApplyTenant, history
  <2> QED BY <2>1, <2>2, EmptiedKeep DEF Only
<1>5. CASE Teardown(x)
  <2>1. UNCHANGED <<tenant, overwritten>> /\ ns' = FALSE
    BY <1>5 DEF Teardown, history
  <2> QED BY <2>1 DEF Emptied
<1>6. CASE Concludes(x)
  <2>1. Only(x) /\ worker'[x].at # "removed" /\ UNCHANGED ns
    BY <1>6, ConcludesStep DEF Concludes, Finish, FailStep, Archive, RollBack, cluster
  <2>2. tenant' = "archived" /\ ~overwritten' => tenant = "archived" \/ ~ns'
    <3>1. ASSUME tenant' = "archived", tenant # "archived", ~overwritten'
          PROVE  Archive(x)
      BY <1>6, <3>1 DEF Concludes, Finish, FailStep, Archive, RollBack
    <3>2. Archive(x) /\ ~overwritten => ~ns
      BY DEF Archive, Emptied
    <3>3. overwritten => overwritten'
      BY <1>6, ConcludesOver
    <3> QED BY <2>1, <3>1, <3>2, <3>3
  <2> QED BY <1>6, <2>1, <2>2, ConcludesOver, EmptiedKeep DEF Only
<1>7. CASE Settles(x)
  <2>1. Only(x) /\ worker'[x].at # "removed"
    BY <1>7, SettlesStep DEF Phased, Idle
  <2>2. UNCHANGED <<tenant, ns, overwritten>>
    BY <1>7 DEF Settles, Abandon, RecordSuccess, RecordFailure, cluster, history
  <2> QED BY <2>1, <2>2, EmptiedKeep DEF Only
<1>8. CASE SweepWrite(x)
  <2>1. Only(x) /\ worker'[x].at # "removed" /\ UNCHANGED ns
    <3>1. ~Probe(x)
      BY <1>8 DEF SweepWrite, Probe
    <3>2. Only(x) /\ worker'[x] = Idle
      BY <1>8, <3>1, SweepStep
    <3>3. UNCHANGED ns
      BY <1>8 DEF SweepWrite, cluster
    <3> QED BY <3>2, <3>3, WorkerForms
  <2> QED BY <1>8, <2>1, SweepOver, EmptiedKeep DEF Only
<1> QED BY <1>1, <1>2, <1>3, <1>4, <1>5, <1>6, <1>7, <1>8 DEF RunJob, Concludes, Settles

\* The other steps.
Others ==
    \/ Operator \/ Outside
    \/ \E x \in Workers : ClaimSome(x) \/ Crash(x) \/ Probe(x) \/ RollOutdatedTenants(x)
    \/ \E k \in Kinds, i \in RowIds : ReclaimStale(k, i)

LEMMA EmptiedOthers ==
    ASSUME TypeOK, QueueInv, Phased, Emptied, Others
    PROVE  Emptied'
<1>1. CASE Operator
  <2>1. UNCHANGED worker /\ UNCHANGED <<ns, overwritten>>
    BY <1>1, OperatorStep, EditStep DEF Operator, Suspend, Resume, DecommissionTenant,
       RetryProvisioning, ReconcileTenant, history, cluster
  <2>2. tenant' = "archived" => tenant = "archived"
    BY <1>1, EditStep DEF Operator, Suspend, Resume, DecommissionTenant, RetryProvisioning,
       ReconcileTenant, Activate
  <2> QED BY <2>1, <2>2, EmptiedKeep
<1>2. CASE Outside
  <2>1. UNCHANGED worker /\ (overwritten => overwritten')
        /\ (tenant' = "archived" => tenant = "archived")
    BY <1>2, OutsideStep, OutsideOver
  <2>2. ns' => ns
    BY <1>2 DEF Outside, L2Reads, L2Writes, Reports, NamespaceVanishes, GracePasses, cluster
  <2> QED BY <2>1, <2>2, EmptiedKeep
<1>3. ASSUME NEW x \in Workers, ClaimSome(x) \/ Crash(x) \/ Probe(x) \/ RollOutdatedTenants(x)
      PROVE  Emptied'
  <2>1. UNCHANGED <<tenant, ns, overwritten>>
    BY <1>3 DEF ClaimSome, Claim, Crash, Probe, RollOutdatedTenants, cluster, history
  <2>2. UNCHANGED worker \/ (Only(x) /\ worker'[x].at # "removed")
    <3>1. CASE ClaimSome(x)
      BY <3>1, ClaimStep DEF ClaimSome
    <3>2. CASE Crash(x)
      BY <3>2, CrashStep DEF Idle
    <3>3. CASE Probe(x)
      BY <3>3, SweepStep
    <3>4. CASE RollOutdatedTenants(x)
      BY <3>4, RollStep
    <3> QED BY <1>3, <3>1, <3>2, <3>3, <3>4
  <2> QED BY <2>1, <2>2, EmptiedKeep DEF Only
<1>4. ASSUME NEW k \in Kinds, NEW i \in RowIds, ReclaimStale(k, i)
      PROVE  Emptied'
  <2>1. UNCHANGED <<tenant, ns, overwritten, worker>>
    BY <1>4 DEF ReclaimStale, cluster
  <2> QED BY <2>1, EmptiedKeep
<1> QED BY <1>1, <1>2, <1>3, <1>4 DEF Others
-----------------------------------------------------------------------------
(* The configuration: who works with which version. *)

\* What Current says of one worker.
Aware(x) ==
    LET w == worker[x] IN
    w.kind # "decommission" =>
        /\ w.at \in {"starting", "namespaced", "applied"} => w.config = config
        /\ w.at = "applied" => rendered = config
        /\ w.at = "succeeded" /\ w.kind = "reconcile" /\ ~remote => rendered = config

Applied == tenant = "active" /\ ~remote /\ ~Saved => rendered = config \/ HasActive("reconcile")

LEMMA CurrentParts ==
    Current <=> (~missed => Applied /\ \A x \in Workers : Aware(x))
BY DEF Current, Applied, Aware

\* One worker moves, the configuration stays.
LEMMA CurrentMove ==
    ASSUME Current, NEW x \in Workers, Only(x), missed => missed', UNCHANGED <<config, remote>>,
           ~missed' => Applied',
           ~missed' => rendered' = rendered \/ rendered' = config,
           ~missed' => Aware(x)'
    PROVE  Current'
<1>1. ASSUME NEW y \in Workers, y # x, ~missed' PROVE Aware(y)'
  BY <1>1, CurrentParts DEF Aware, Only
<1> QED BY <1>1 DEF Current, Applied, Aware

LEMMA AppliedKept ==
    ASSUME Current, ~missed, UNCHANGED <<rows, config, remote, edit>>,
           rendered' = rendered \/ rendered' = config,
           tenant' = "active" => tenant = "active" \/ rendered' = config
    PROVE  Applied'
BY DEF Current, Applied, HasActive, Saved

LEMMA CurrentLoad ==
    ASSUME TypeOK, QueueInv, Phased, Current, NEW x \in Workers, Load(x)
    PROVE  Current'
<1>1. /\ Only(x) /\ worker'[x] = LoadedAs(x)
      /\ UNCHANGED <<tenant, remote, edit, missed, rows, config, rendered>>
  BY LoadStep DEF Load, history, queue, cluster, requests
<1>2. /\ worker'[x].at = Loading(x) /\ worker'[x].kind = worker[x].kind
      /\ Loading(x) \in {"succeeded", "failed", "blocked", "starting", "namespaced"}
      /\ Loading(x) \notin {"succeeded", "failed"} => worker'[x].config = config
  BY <1>1, LoadForm
<1>3. worker[x].kind = "reconcile" /\ Loading(x) = "succeeded" => remote
  BY DEF Loading, ReconcileFrom
<1>4. Aware(x)'
  BY <1>1, <1>2, <1>3 DEF Aware
<1>5. ~missed' => Applied'
  BY <1>1, AppliedKept
<1> QED BY <1>1, <1>4, <1>5, CurrentMove

LEMMA CurrentEnter ==
    ASSUME TypeOK, QueueInv, Phased, Current, NEW x \in Workers, Enter(x)
    PROVE  Current'
<1>1. /\ Only(x) /\ worker'[x].kind = worker[x].kind
      /\ IF worker[x].kind = "provision" /\ remote
         THEN worker'[x].at = "succeeded"
         ELSE worker'[x].at = "starting" /\ worker'[x].config = config
  BY EnterStep
<1>2. UNCHANGED <<remote, edit, missed, rows, config, rendered>>
      /\ tenant' \in {tenant, "provisioning"}
  BY DEF Enter, queue, cluster, requests
<1>3. Aware(x)'
  BY <1>1, <1>2 DEF Aware
<1>4. ~missed' => Applied'
  BY <1>2, AppliedKept
<1> QED BY <1>1, <1>2, <1>3, <1>4, CurrentMove

LEMMA CurrentProvisions ==
    ASSUME TypeOK, QueueInv, Phased, Current, NEW x \in Workers, Provisions(x)
    PROVE  Current'
<1>1. /\ Only(x) /\ worker'[x].kind = worker[x].kind /\ worker'[x].config = worker[x].config
      /\ EnsureNamespace(x) => worker'[x].at = "namespaced"
      /\ HelmApplyTenant(x) => worker'[x].at = "applied"
      /\ Teardown(x) => worker'[x].at = "removed"
  BY ProvisionsStep
<1>2. UNCHANGED <<tenant, remote, edit, missed, rows, config>>
  BY DEF Provisions, EnsureNamespace, HelmApplyTenant, Teardown, queue, history, requests
<1>3. Phase(x) /\ worker[x].kind \in Kinds
  BY TypeParts DEF Phased
<1>4. CASE EnsureNamespace(x)
  <2>1. worker[x].at = "starting" /\ worker[x].kind = "provision" /\ rendered' = rendered
    BY <1>4 DEF EnsureNamespace
  <2>2. ~missed' => Aware(x)'
    BY <1>1, <1>2, <1>4, <2>1 DEF Current, Aware
  <2> QED BY <1>1, <1>2, <2>1, <2>2, AppliedKept, CurrentMove
<1>5. CASE HelmApplyTenant(x)
  <2>1. worker[x].at = "namespaced" /\ rendered' = worker[x].config
    BY <1>5 DEF HelmApplyTenant
  <2>2. ~missed => worker[x].config = config
    BY <1>3, <2>1 DEF Current, Phase
  <2>3. ~missed' => Aware(x)'
    BY <1>1, <1>2, <1>5, <2>1, <2>2 DEF Aware
  <2> QED BY <1>1, <1>2, <2>1, <2>2, <2>3, AppliedKept, CurrentMove
<1>6. CASE Teardown(x)
  <2>1. worker[x].kind = "decommission" /\ rendered' = rendered
    BY <1>6 DEF Teardown
  <2>2. Aware(x)'
    BY <1>1, <2>1 DEF Aware
  <2> QED BY <1>1, <1>2, <2>1, <2>2, AppliedKept, CurrentMove
<1> QED BY <1>4, <1>5, <1>6 DEF Provisions

LEMMA CurrentConcludes ==
    ASSUME TypeOK, QueueInv, Phased, Current, NEW x \in Workers, Concludes(x)
    PROVE  Current'
<1>1. /\ Only(x) /\ worker'[x].kind = worker[x].kind
      /\ worker'[x].at \in {"succeeded", "failed"}
      /\ worker'[x].at = "succeeded" => Finish(x) \/ Archive(x)
  BY ConcludesStep
<1>2. UNCHANGED <<remote, edit, missed, rows, config, rendered>>
  BY DEF Concludes, Finish, FailStep, Archive, RollBack, queue, cluster, history, requests
<1>3. Phase(x) /\ worker[x].kind \in Kinds
  BY TypeParts DEF Phased
<1>4. Finish(x) /\ ~missed => rendered = config
  BY <1>3 DEF Finish, Phase, Current
<1>5. Archive(x) => worker[x].kind = "decommission"
  BY <1>3 DEF Archive, Phase, Kinds
<1>6. ~missed' => Aware(x)'
  BY <1>1, <1>2, <1>4, <1>5 DEF Aware
<1>7. tenant' = "active" => tenant = "active" \/ Finish(x)
  BY DEF Concludes, FailStep, Archive, RollBack
<1>8. ~missed' => Applied'
  BY <1>2, <1>4, <1>7, AppliedKept
<1> QED BY <1>1, <1>2, <1>6, <1>8, CurrentMove

LEMMA CurrentSweep ==
    ASSUME TypeOK, QueueInv, Phased, Current, NEW x \in Workers, Probe(x) \/ SweepWrite(x)
    PROVE  Current'
<1>1. Only(x) /\ worker'[x].at \in {"idle", "missing", "ready", "unready"}
  BY SweepStep, WorkerForms
<1>2. UNCHANGED <<remote, edit, rows, config, rendered>>
  BY DEF Probe, SweepWrite, queue, cluster, requests
<1>3. /\ missed => missed'
      /\ tenant' = "active" /\ ~missed' => tenant = "active" \/ rendered = config
  <2>1. CASE Probe(x)
    BY <2>1 DEF Probe, history, requests
  <2>2. CASE SweepWrite(x) /\ UNCHANGED <<tenant, missed>>
    BY <2>2
  <2>3. CASE SweepWrite(x) /\ ~UNCHANGED <<tenant, missed>>
    <3>1. \/ Missing(worker[x].seen, worker[x].marker)
          \/ Present(worker[x].seen, worker[x].marker, worker[x].at = "ready")
      BY <2>3 DEF SweepWrite
    <3>2. CASE Missing(worker[x].seen, worker[x].marker)
      BY <3>2 DEF Missing
    <3>3. CASE Present(worker[x].seen, worker[x].marker, worker[x].at = "ready")
      <4>1. \/ tenant' = "active" /\ missed' = (missed \/ rendered # config)
            \/ tenant' = "degraded" /\ missed' = missed
            \/ tenant' = tenant /\ missed' = missed
        BY <3>3, Zenon DEF Present, Activate
      <4>2. missed' = (missed \/ rendered # config) =>
              (missed => missed') /\ (~missed' => rendered = config)
        BY Zenon
      <4> QED BY <4>1, <4>2, Zenon
    <3> QED BY <3>1, <3>2, <3>3
  <2> QED BY <2>1, <2>2, <2>3
<1>4. Aware(x)'
  BY <1>1 DEF Aware
<1>5. ~missed' => Applied'
  BY <1>2, <1>3, AppliedKept
<1> QED BY <1>1, <1>2, <1>3, <1>4, <1>5, CurrentMove

\* The queue changes, the tenant and its release do not.
LEMMA AppliedQueued ==
    ASSUME Current, ~missed, UNCHANGED <<tenant, config, remote, edit, rendered>>,
           HasActive("reconcile") => HasActive("reconcile")'
    PROVE  Applied'
BY DEF Current, Applied, Saved

LEMMA CurrentClaim ==
    ASSUME TypeOK, QueueInv, Phased, Current, NEW x \in Workers, NEW k \in Kinds, NEW i \in RowIds,
           Claim(x, k, i)
    PROVE  Current'
<1>1. TypeOK' /\ Only(x) /\ worker'[x].at = "claimed" /\ i <= Len(rows[k])
  BY ClaimStep
<1>2. PICK job \in Job : job.status = "in_flight" /\ Put(k, i, job)
  BY ClaimStep
<1>3. UNCHANGED <<tenant, remote, edit, missed, config, rendered>>
  BY DEF Claim, history, cluster, requests
<1>4. HasActive("reconcile") => HasActive("reconcile")'
  <2>1. i <= Len(rows[k]) + 1
    BY <1>1, TypeParts, BoundsAssumption DEF RowIds, QueueType
  <2>2. QueueType /\ QueueType'
    BY <1>1 DEF TypeOK, QueueType
  <2>3. Active(job)
    BY <1>2 DEF Active
  <2> QED BY <1>2, <2>1, <2>2, <2>3, PutKeeps
<1>5. Aware(x)'
  BY <1>1 DEF Aware
<1>6. ~missed' => Applied'
  BY <1>3, <1>4, AppliedQueued
<1> QED BY <1>1, <1>3, <1>5, <1>6, CurrentMove

LEMMA CurrentSettles ==
    ASSUME TypeOK, QueueInv, Phased, Current, NEW x \in Workers, Settles(x)
    PROVE  Current'
<1>1. TypeOK' /\ Only(x) /\ worker'[x] = Idle /\ Outcome(x) /\ Phase(x)
  BY SettlesStep DEF Phased
<1>2. UNCHANGED <<tenant, remote, edit, config, rendered>> /\ (missed => missed') /\ ~Free(worker[x])
  <2>1. CASE Abandon(x) \/ RecordSuccess(x)
    BY <2>1 DEF Abandon, RecordSuccess, cluster, history, Free, requests
  <2>2. CASE RecordFailure(x)
    <3>1. UNCHANGED <<tenant, remote, edit, config, rendered>> /\ ~Free(worker[x])
      BY <2>2 DEF RecordFailure, cluster, Free, requests
    <3>2. missed => missed'
      BY <2>2, Zenon DEF RecordFailure
    <3> QED BY <3>1, <3>2
  <2> QED BY <2>1, <2>2 DEF Settles
<1>3. Aware(x)'
  BY <1>1, WorkerForms DEF Aware
<1>4. ASSUME ~missed' PROVE Applied'
  <2>1. CASE tenant # "active" \/ remote \/ rendered = config
    BY <1>2, <2>1 DEF Applied
  <2>2. CASE tenant = "active" /\ ~remote /\ rendered # config
    <3>1. CASE UNCHANGED rows
      BY <1>2, <1>4, <3>1, AppliedKept
    <3>2. ASSUME NEW job \in Job, Put(worker[x].kind, worker[x].row, job), ~UNCHANGED rows,
                 job.status \in {"succeeded", "failed"} \/ job.status = "pending"
          PROVE  Applied'
      <4>1. /\ worker[x].kind \in Kinds /\ worker[x].row \in RowIds
            /\ worker[x].row \in 1..Len(rows[worker[x].kind])
        BY <1>1, <1>2, AtJob DEF QueueInv
      <4>2. Len(rows[worker[x].kind]) \in Nat
        BY <4>1, TypeParts DEF QueueType
      <4>3. worker[x].row <= Len(rows[worker[x].kind]) + 1
        BY <4>1, <4>2
      <4>4. QueueType /\ QueueType'
        BY <1>1 DEF TypeOK, QueueType
      <4>5. worker[x].kind = "reconcile" => job.status = "pending"
        <5> SUFFICES ASSUME worker[x].kind = "reconcile" PROVE job.status = "pending"
          OBVIOUS
        <5>1. ~Abandon(x)
          BY <2>2 DEF Abandon
        <5>2. ~RecordSuccess(x)
          BY <1>2, <1>4, <2>2 DEF RecordSuccess, Current
        <5>3. RecordFailure(x)
          BY <5>1, <5>2 DEF Settles
        <5> DEFINE s == FailedStatus(rows[worker[x].kind][worker[x].row])
        <5>4. SetJob(x, s) /\ (s = "failed" => missed')
          BY <3>2, <5>3 DEF RecordFailure
        <5>5. rows[worker[x].kind] \in Seq(Job) /\ rows[worker[x].kind][worker[x].row] \in Job
          BY <4>1, TypeParts DEF QueueType
        <5>6. rows'[worker[x].kind][worker[x].row].status = s
          <6> HIDE DEF s
          <6>1. rows' = [rows EXCEPT ![worker[x].kind][worker[x].row].status = s]
            BY <5>4 DEF SetJob
          <6> QED BY <4>1, <5>5, <6>1, TypeParts DEF QueueType, Job
        <5>7. s \in {"failed", "pending"}
          BY DEF FailedStatus
        <5> QED BY <1>4, <3>2, <5>4, <5>6, <5>7 DEF Put
      <4>6. HasActive("reconcile") => HasActive("reconcile")'
        <5>1. worker[x].kind = "reconcile" => Active(job)
          BY <4>5 DEF Active
        <5> QED BY <3>2, <4>1, <4>3, <4>4, <5>1, PutKeeps
      <4> QED BY <1>2, <1>4, <4>6, AppliedQueued
    <3> QED BY <1>1, <3>1, <3>2 DEF Outcome
  <2> QED BY <2>1, <2>2
<1> QED BY <1>1, <1>2, <1>3, <1>4, CurrentMove

LEMMA CurrentCrash ==
    ASSUME TypeOK, QueueInv, Phased, Current, NEW x \in Workers, Crash(x)
    PROVE  Current'
<1>1. Only(x) /\ worker'[x] = Idle
  BY CrashStep
<1>2. UNCHANGED <<tenant, remote, edit, missed, rows, config, rendered>>
  BY DEF Crash, history, queue, cluster, requests
<1>3. Aware(x)'
  BY <1>1, WorkerForms DEF Aware
<1>4. ~missed' => Applied'
  BY <1>2, AppliedKept
<1> QED BY <1>1, <1>2, <1>3, <1>4, CurrentMove

\* No worker moves.
LEMMA CurrentStill ==
    ASSUME Current, UNCHANGED <<worker, config, remote, rendered>>, missed => missed',
           ~missed' => Applied'
    PROVE  Current'
BY DEF Current, Applied

LEMMA CurrentReclaim ==
    ASSUME TypeOK, QueueInv, Phased, Current, NEW k \in Kinds, NEW i \in RowIds, ReclaimStale(k, i)
    PROVE  Current'
<1>1. /\ TypeOK' /\ i \in 1..Len(rows[k])
      /\ \E job \in Job : job.status = "pending" /\ Put(k, i, job)
  BY ReclaimStep
<1>2. PICK job \in Job : job.status = "pending" /\ Put(k, i, job)
  BY <1>1
<1>3. UNCHANGED <<tenant, remote, edit, missed, config, rendered, worker>>
  BY DEF ReclaimStale, cluster, requests
<1>4. HasActive("reconcile") => HasActive("reconcile")'
  <2>1. i <= Len(rows[k]) + 1
    BY <1>1, TypeParts DEF QueueType
  <2>2. QueueType /\ QueueType'
    BY <1>1 DEF TypeOK, QueueType
  <2>3. Active(job)
    BY <1>2 DEF Active
  <2> QED BY <1>2, <2>1, <2>2, <2>3, PutKeeps
<1> QED BY <1>3, <1>4, AppliedQueued, CurrentStill

LEMMA RequestedActive ==
    ASSUME TypeOK, QueueType', NEW k \in Kinds, Requested(k)
    PROVE  HasActive("reconcile") => HasActive("reconcile")'
<1>1. CASE UNCHANGED rows
  BY <1>1 DEF HasActive
<1>2. CASE \E i \in RowIds : i = Len(rows[k]) + 1 /\ Put(k, i, NewJob)
  <2>1. PICK i \in RowIds : i = Len(rows[k]) + 1 /\ Put(k, i, NewJob)
    BY <1>2
  <2>2. i <= Len(rows[k]) + 1 /\ Active(NewJob)
    BY <2>1, TypeParts DEF QueueType, Active, NewJob
  <2> QED BY <2>1, <2>2, PutKeeps, TypeParts
<1> QED BY <1>1, <1>2 DEF Requested

\* A configuration is committed: no job has loaded an older one.
LEMMA CommitAware ==
    ASSUME TypeOK, UNCHANGED <<remote, worker>>, NEW x \in Workers, ~Loaded(x)
    PROVE  Aware(x)'
<1>1. worker[x].kind \in Kinds
  BY TypeParts
<1> QED BY <1>1 DEF Loaded, Aware, Kinds

\* An edit that has saved its configuration ends, or goes on.
LEMMA AppliedAsked ==
    ASSUME Current, ~missed, UNCHANGED <<tenant, rows, config, remote, rendered>>,
           Saved => Saved' \/ tenant # "active" \/ HasActive("reconcile")
    PROVE  Applied'
<1>1. Applied /\ (HasActive("reconcile")' <=> HasActive("reconcile"))
  BY DEF Current, Applied, HasActive
<1> QED BY <1>1 DEF Applied

LEMMA CurrentEdit ==
    ASSUME TypeOK, QueueInv, Current, Asking, EditRequest
    PROVE  Current' /\ Asking'
<1>1. /\ UNCHANGED <<tenant, remote, rendered, worker, faults, stalled>>
      /\ missed => missed'
  BY EditStep DEF cluster
<1>2. CASE SaveSiem
  <2>1. Saved' /\ Asking'
    BY <1>2 DEF SaveSiem, Saved, Asking, NoEdit
  <2>2. ASSUME ~missed', NEW x \in Workers PROVE Aware(x)'
    <3>1. ~Loaded(x)
      BY <1>2, <2>2 DEF SaveSiem
    <3> QED BY <1>1, <3>1, CommitAware
  <2> QED BY <2>1, <2>2 DEF Current, Aware
<1>3. ASSUME NEW by \in Edits, EditReads(by) PROVE Current' /\ Asking'
  <2>1. UNCHANGED <<rows, config, missed>>
    BY <1>3 DEF EditReads, queue, history
  <2>2. Asking' /\ (Saved => Saved' \/ tenant # "active")
    BY <1>3 DEF EditReads, Asking, Saved, NoEdit
  <2>3. ~missed' => Applied'
    BY <1>1, <2>1, <2>2, AppliedAsked
  <2> QED BY <1>1, <2>1, <2>2, <2>3, CurrentStill
<1>4. CASE EditLooks
  <2>1. UNCHANGED <<rows, config, missed>>
    BY <1>4 DEF EditLooks, queue, history
  <2>2. Asking' /\ (Saved => Saved' \/ HasActive("reconcile"))
    BY <1>4 DEF EditLooks, Asking, Saved, NoEdit, Queued, TypeOK, Edit
  <2>3. ~missed' => Applied'
    BY <1>1, <2>1, <2>2, AppliedAsked
  <2> QED BY <1>1, <2>1, <2>2, <2>3, CurrentStill
<1>5. CASE EditCommits
  <2>1. Asking'
    BY <1>5 DEF EditCommits, Asking, NoEdit
  <2>2. tenant = "active" /\ ~missed' => HasActive("reconcile")'
    <3> SUFFICES ASSUME tenant = "active", ~missed' PROVE HasActive("reconcile")'
      OBVIOUS
    <3>1. edit.at = "looked" /\ edit.seen = "active" /\ (edit.by = "siem" => ~edit.found)
          /\ (edit.found => HasActive("reconcile"))
      BY <1>5 DEF EditCommits, EditIsLate, Asking, Queued
    <3>2. CASE edit.found
      BY <1>5, <3>1, <3>2 DEF EditCommits, HasActive
    <3>3. CASE ~edit.found
      <4>1. Enqueue("reconcile") /\ "reconcile" \in Kinds
        BY <1>5, <3>1, <3>3 DEF EditCommits, Queued, Kinds
      <4> QED BY <1>1, <4>1, EnqueueStep DEF Requested
    <3> QED BY <3>2, <3>3
  <2>3. ASSUME ~missed', NEW x \in Workers PROVE Aware(x)'
    <3>1. CASE edit.by = "siem"
      BY <1>1, <1>5, <2>3, <3>1 DEF EditCommits, Current, Aware
    <3>2. CASE edit.by # "siem"
      <4>1. ~Loaded(x)
        BY <1>5, <2>3, <3>2 DEF EditCommits, EditIsLate
      <4> QED BY <1>1, <4>1, CommitAware
    <3> QED BY <3>1, <3>2
  <2> QED BY <1>1, <2>1, <2>2, <2>3 DEF Current, Aware
<1>6. CASE EditRefused
  <2>1. UNCHANGED <<rows, config, missed>> /\ Asking'
    BY <1>6 DEF EditRefused, queue, history, Asking, NoEdit
  <2>2. Saved => HasActive("reconcile")
    BY <1>6 DEF EditRefused, Saved, Asking, Queued
  <2>3. ~missed' => Applied'
    BY <1>1, <2>1, <2>2, AppliedAsked
  <2> QED BY <1>1, <2>1, <2>3, CurrentStill
<1>7. CASE EditDies
  <2>1. UNCHANGED <<rows, config>> /\ Asking'
    BY <1>7 DEF EditDies, queue, Asking, NoEdit
  <2>2. Saved => missed'
    BY <1>7 DEF EditDies, Saved
  <2>3. ~missed' => Applied'
    BY <1>1, <2>1, <2>2, AppliedAsked
  <2> QED BY <1>1, <2>1, <2>3, CurrentStill
<1> QED BY <1>2, <1>3, <1>4, <1>5, <1>6, <1>7 DEF EditRequest

LEMMA CurrentOperator ==
    ASSUME TypeOK, QueueInv, Phased, Current, Asking, Operator
    PROVE  Current'
<1>1. CASE EditRequest
  BY <1>1, CurrentEdit
<1>2. CASE Suspend
  BY <1>2, CurrentStill DEF Suspend, Applied, cluster, history, requests
<1>3. CASE Resume
  <2>1. UNCHANGED <<rows, worker, config, remote, edit, rendered>> /\ Activate
    BY <1>3 DEF Resume, queue, cluster, requests
  <2>2. missed' = (missed \/ rendered # config)
    BY <2>1 DEF Activate
  <2>3. (missed => missed') /\ (~missed' => rendered = config)
    BY <2>2, Zenon
  <2> QED BY <2>1, <2>3, CurrentStill DEF Applied
<1>4. CASE DecommissionTenant
  <2>1. UNCHANGED <<worker, config, remote, edit, rendered, missed>>
        /\ tenant' \in {"decommissioning", "archived"}
    BY <1>4 DEF DecommissionTenant, cluster, requests
  <2> QED BY <2>1, CurrentStill DEF Applied
<1>5. CASE RetryProvisioning
  <2>1. UNCHANGED <<worker, config, remote, edit, rendered, missed, tenant>> /\ tenant = "degraded"
    BY <1>5 DEF RetryProvisioning, cluster, history, requests
  <2> QED BY <2>1, CurrentStill DEF Applied
<1>6. CASE ReconcileTenant
  <2>1. /\ UNCHANGED <<worker, config, remote, edit, rendered, missed, tenant, faults, stalled>>
        /\ Enqueue("reconcile") /\ "reconcile" \in Kinds
    BY <1>6 DEF ReconcileTenant, cluster, history, Kinds, requests
  <2>2. HasActive("reconcile")'
    BY <2>1, EnqueueStep DEF Requested
  <2> QED BY <2>1, <2>2, CurrentStill DEF Applied
<1> QED BY <1>1, <1>2, <1>3, <1>4, <1>5, <1>6 DEF Operator

LEMMA CurrentOthers ==
    ASSUME TypeOK, QueueInv, Phased, Current, Asking, Others
    PROVE  Current'
<1>1. CASE Outside
  <2>1. /\ UNCHANGED <<rows, worker, config, remote, edit, rendered, missed>>
        /\ tenant' = tenant \/ remote
    BY <1>1 DEF Outside, L2Reads, L2Writes, Reports, NamespaceVanishes, GracePasses, queue,
       cluster, history, requests
  <2>2. ~missed' => Applied'
    BY <2>1 DEF Current, Applied, HasActive, Saved
  <2> QED BY <2>1, <2>2, CurrentStill
<1>2. ASSUME NEW x \in Workers, RollOutdatedTenants(x) PROVE Current'
  <2>1. UNCHANGED <<worker, config, remote, edit, rendered, missed, tenant>>
    BY <1>2 DEF RollOutdatedTenants, cluster, history, requests
  <2>2. HasActive("reconcile")'
    BY <1>2, RollStep DEF Requested
  <2> QED BY <2>1, <2>2, CurrentStill DEF Applied
<1> QED BY <1>1, <1>2, CurrentOperator, CurrentClaim, CurrentCrash, CurrentSweep, CurrentReclaim
        DEF Others, ClaimSome

\* Only an edit reads what it asks for.
LEMMA AskingKept ==
    ASSUME TypeOK, QueueInv, Current, Asking, Next
    PROVE  Asking'
<1>1. CASE EditRequest
  BY <1>1, CurrentEdit
<1>2. CASE Operator /\ ~EditRequest
  BY <1>2 DEF Operator, Suspend, Resume, DecommissionTenant, RetryProvisioning, ReconcileTenant,
     Asking, requests
<1>3. CASE Outside
  BY <1>3 DEF Outside, L2Reads, L2Writes, Reports, NamespaceVanishes, GracePasses, Asking, requests
<1>4. ASSUME NEW x \in Workers,
             ClaimSome(x) \/ Crash(x) \/ Probe(x) \/ RollOutdatedTenants(x) \/ RunJob(x)
      PROVE  Asking'
  <2>1. UNCHANGED edit
    BY <1>4 DEF ClaimSome, Claim, Crash, Probe, RollOutdatedTenants, RunJob, Abandon, Load, Enter,
       EnsureNamespace, HelmApplyTenant, Finish, FailStep, Teardown, Archive, RollBack,
       RecordSuccess, RecordFailure, SweepWrite, requests
  <2> QED BY <2>1 DEF Asking
<1>5. ASSUME NEW k \in Kinds, NEW i \in RowIds, ReclaimStale(k, i) PROVE Asking'
  BY <1>5 DEF ReclaimStale, Asking, requests
<1> QED BY <1>1, <1>2, <1>3, <1>4, <1>5 DEF Next, Outside

LEMMA CurrentSteps ==
    ASSUME TypeOK, QueueInv, Phased, Current, NEW x \in Workers, RunJob(x)
    PROVE  Current'
BY CurrentLoad, CurrentEnter, CurrentProvisions, CurrentConcludes, CurrentSettles, CurrentSweep
   DEF RunJob, Provisions, Concludes, Settles
-----------------------------------------------------------------------------
(* The invariant. *)

LEMMA InitIInv == Init => IInv
<1> SUFFICES ASSUME Init PROVE IInv
  OBVIOUS
<1>1. Idle \in Worker
  BY BoundsAssumption DEF Idle, Worker, Phases, Kinds, TenantStates
<1>2. QueueType /\ \A k \in Kinds : rows[k] = <<>> \/ rows[k] = <<NewJob>>
  <2>1. NewJob \in Job /\ <<NewJob>> \in Seq(Job) /\ Len(<<NewJob>>) = 1
    BY DEF NewJob, Job
  <2>2. \A k \in Kinds : rows[k] = <<>> \/ rows[k] = <<NewJob>>
    BY DEF Init, Onboard, CreateTenant
  <2>3. rows \in [Kinds -> Seq(Job)]
    <3>1. <<>> \in Seq(Job)
      OBVIOUS
    <3>2. CASE Onboard
      BY <2>1, <3>1, <3>2 DEF Onboard
    <3>3. CASE CreateTenant
      BY <3>1, <3>3 DEF CreateTenant
    <3> QED BY <3>2, <3>3 DEF Init
  <2>4. ASSUME NEW k \in Kinds PROVE Len(rows[k]) <= MaxRows
    <3>1. CASE rows[k] = <<>>
      BY <3>1, BoundsAssumption
    <3>2. CASE rows[k] = <<NewJob>>
      BY <2>1, <3>2, BoundsAssumption
    <3> QED BY <2>2, <3>1, <3>2
  <2> QED BY <2>2, <2>3, <2>4 DEF QueueType
<1>3. TypeOK
  <2>1. worker \in [Workers -> Worker]
    BY <1>1 DEF Init
  <2>2. retries \in 0..MaxRetries /\ faults \in 0..MaxFaults /\ config \in 0..MaxEdits
        /\ rendered \in -1..MaxEdits
    BY BoundsAssumption DEF Init
  <2>3. NoEdit \in Edit /\ NoReport \in Report
    BY DEF NoEdit, Edit, Edits, NoReport, Report, TenantStates
  <2> QED BY <1>2, <2>1, <2>2, <2>3 DEF Init, TypeOK, QueueType, TenantStates
<1>4. \A x \in Workers : worker[x] = Idle
  BY DEF Init
<1>5. Tracked /\ Single /\ \A k \in Kinds, i \in RowIds : Unheld(k, i)
  BY <1>4 DEF Tracked, Single, Unheld, Holds, Idle
<1>6. Charged
  <2> SUFFICES ASSUME NEW k \in Kinds, NEW i \in 1..Len(rows[k])
               PROVE  rows[k][i].attempts = 0
    BY BoundsAssumption DEF Charged, Spare, Init
  <2>1. rows[k] = <<NewJob>> /\ i = 1
    <3>1. CASE rows[k] = <<>>
      BY <3>1
    <3>2. CASE rows[k] = <<NewJob>>
      BY <3>2
    <3> QED BY <1>2, <3>1, <3>2
  <2> QED BY <2>1 DEF NewJob
<1>7. Phased
  <2>1. rows["decommission"] = <<>>
    BY DEF Init, Onboard, CreateTenant, Kinds
  <2>2. \A x \in Workers : Phase(x) /\ ~HoldsRow(x)
    BY <1>4 DEF Phase, HoldsRow, Idle
  <2> QED BY <2>1, <2>2 DEF Init, Phased
<1>8. Emptied /\ Current /\ Asking
  BY <1>4 DEF Init, Emptied, Current, Asking, NoEdit, Idle
<1> QED BY <1>3, <1>5, <1>6, <1>7, <1>8 DEF IInv

LEMMA StepParts ==
    Next <=> Others \/ \E x \in Workers : RunJob(x)
BY DEF Next, Others, Outside

LEMMA NextIInv == IInv /\ [Next]_vars => IInv'
<1> SUFFICES ASSUME IInv, [Next]_vars PROVE IInv'
  OBVIOUS
<1> USE DEF QueueInv
<1>0. TypeOK /\ QueueInv /\ Phased /\ Emptied /\ Current /\ Asking
  BY DEF IInv
<1>1. ASSUME NEW x \in Workers, RunJob(x)
      PROVE  TypeOK' /\ QueueInv' /\ Phased'
  <2>1. Phase(x)
    BY <1>0 DEF Phased
  <2> QED BY <1>0, <1>1, <2>1, LoadStep, EnterStep, ProvisionsStep, ConcludesStep, SettlesStep,
          SweepStep, PhasedLoad, PhasedEnter, PhasedProvisions, PhasedConcludes, PhasedSettles,
          PhasedSweep
          DEF RunJob, Provisions, Concludes, Settles
<1>2. CASE Others
  <2>1. TypeOK' /\ QueueInv' /\ Phased'
    BY <1>0, <1>2, OperatorStep, OutsideStep, ClaimStep, CrashStep, SweepStep, RollStep,
       ReclaimStep, PhasedOperator, PhasedOutside, PhasedClaim, PhasedCrash, PhasedSweep,
       PhasedRoll, PhasedReclaim
       DEF Others, ClaimSome
  <2> QED BY <1>0, <1>2, <2>1, EmptiedOthers, CurrentOthers, AskingKept, StepParts DEF IInv
<1>3. CASE \E x \in Workers : RunJob(x)
  BY <1>0, <1>1, <1>3, EmptiedSteps, CurrentSteps, AskingKept, StepParts DEF IInv
<1>4. CASE UNCHANGED vars
  BY <1>4 DEF IInv, TypeOK, requests, Saved, Asking, Tracked, Charged, Single, Phased, Emptied, Current, vars, queue,
     cluster, history, Holds, HoldsRow, Phase, Spare, Unheld, HasActive
<1> QED BY <1>2, <1>3, <1>4, StepParts
-----------------------------------------------------------------------------
(* What follows from it. *)

\* Every reachable state is well typed, and no kind has more rows than MaxRows.
THEOREM TenantTypeCorrect == Spec => []TypeOK
<1>1. IInv => TypeOK
  BY DEF IInv
<1> QED BY <1>1, InitIInv, NextIInv, PTL DEF Spec

\* A job runs on one worker at a time unless a claim was taken back from a
\* worker that was still at it (worker.py, _maybe_reclaim_stale).
THEOREM JobsRunOnce == Spec => []OneRunner
<1>1. IInv => OneRunner
  BY DEF IInv, Single, OneRunner
<1> QED BY <1>1, InitIInv, NextIInv, PTL DEF Spec

\* Each claim beyond max_attempts is paid for by a crash or a stalled worker
\* (worker.py, _record_failure and _maybe_reclaim_stale).
THEOREM RetriesBounded == Spec => []RetryBudget
<1>1. IInv => RetryBudget
  BY DEF IInv, Charged, RetryBudget
<1> QED BY <1>1, InitIInv, NextIInv, PTL DEF Spec

\* An active tenant at rest runs the configuration in the database, but for the
\* cases that missed counts (tenants.py, controller.py).
THEOREM ReleaseIsCurrent == Spec => []RenderedUnlessMissed
<1>1. IInv => RenderedUnlessMissed
  BY DEF IInv, Current, RenderedUnlessMissed, Busy, Kinds
<1> QED BY <1>1, InitIInv, NextIInv, PTL DEF Spec

\* Nothing of an archived tenant is left in the cluster, and nothing comes back
\* (controller.py, decommission and _reconcile_missing_namespace).
THEOREM ArchiveIsClean == Spec => []ArchivedClean
<1>1. IInv => ArchivedClean
  BY DEF IInv, Emptied, ArchivedClean
<1> QED BY <1>1, InitIInv, NextIInv, PTL DEF Spec

\* What the operator has suspended or decommissioned is changed by nobody else
\* but the teardown, unless a write was stale (controller.py, agents/api.py).
THEOREM OperatorDecides == Spec => OperatorWins
<1> DEFINE Decided ==
        tenant' # tenant /\ tenant \in {"suspended", "decommissioning", "archived"}
           => \/ Operator
              \/ tenant = "decommissioning" /\ tenant' = "archived"
              \/ overwritten'
<1>1. ASSUME IInv, Next PROVE Decided
  <2> SUFFICES ASSUME tenant' # tenant, tenant \in {"suspended", "decommissioning", "archived"},
                      ~Operator, ~overwritten'
               PROVE  tenant = "decommissioning" /\ tenant' = "archived"
    OBVIOUS
  <2>1. TypeOK /\ QueueInv /\ Phased
    BY <1>1 DEF IInv, QueueInv
  <2>2. CASE Outside
    BY <2>1, <2>2, OutsideOver
  <2>3. ASSUME NEW x \in Workers, RunJob(x)
        PROVE  tenant = "decommissioning" /\ tenant' = "archived"
    <3>1. CASE Enter(x)
      <4>1. worker[x].at = "blocked" /\ Overwrites(worker[x].seen)
            /\ (tenant' = tenant \/ worker[x].kind = "provision")
        BY <3>1 DEF Enter
      <4>2. Phase(x)
        BY <2>1 DEF Phased
      <4>3. tenant \in {"pending", "degraded"}
        BY <4>1, <4>2 DEF Overwrites, Phase
      <4> QED BY <4>3
    <3>2. CASE Concludes(x)
      BY <2>1, <3>2, ConcludesOver
    <3>3. CASE SweepWrite(x)
      BY <2>1, <3>3, SweepOver
    <3>4. CASE Load(x) \/ Provisions(x) \/ Settles(x)
      BY <3>4 DEF Load, Provisions, Settles, EnsureNamespace, HelmApplyTenant, Teardown,
         RollBack, Abandon, RecordSuccess, RecordFailure
    <3> QED BY <2>3, <3>1, <3>2, <3>3, <3>4 DEF RunJob, Provisions, Concludes, Settles
  <2>4. CASE Others
    BY <2>2, <2>4 DEF Others, ClaimSome, Claim, Crash, Probe, RollOutdatedTenants, ReclaimStale
  <2> QED BY <1>1, <2>3, <2>4, StepParts
<1>2. IInv /\ [Next]_vars => [Decided]_vars
  BY <1>1
<1> QED BY <1>2, InitIInv, NextIInv, PTL DEF Spec, OperatorWins
=============================================================================
