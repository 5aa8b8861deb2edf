---------------------------- MODULE SpendProofs ----------------------------
(***************************************************************************)
(* Proofs about what the LLM calls cost: the spend ledger, for every set   *)
(* of runs, every number of leases, every price of a call, every budget    *)
(* and every bound on reports, crashes, expiries and unlocks, and the      *)
(* turns of a conversation, for every number of posts and clicks.          *)
(***************************************************************************)
EXTENDS SpendLedger, ChatTurns, FiniteSetTheorems, TLAPS

-----------------------------------------------------------------------------
(***************************************************************************)
(* Sums over finite sets.  The induction theorems of the library take an   *)
(* operator, so an induction is a smallest counterexample here.            *)
(***************************************************************************)

\* Of some subsets of a finite set one contains no other.
LEMMA SmallestSubset ==
    ASSUME NEW S, IsFiniteSet(S), NEW T, T \subseteq SUBSET S, T # {}
    PROVE  \E U \in T : \A V \in T : ~(V \subseteq U /\ V # U)
<1>1. IsWellFoundedOn(StrictSubsetOrdering(S), SUBSET S)
  BY FS_StrictSubsetOrderingWellFounded, FS_FiniteSubsetsOfFinite
<1>2. \E U \in T : \A V \in T : ~(<<V, U>> \in StrictSubsetOrdering(S))
  BY <1>1, WFMin
<1> QED BY <1>2 DEF StrictSubsetOrdering

AnyOf(S) == CHOOSE x \in S : TRUE
Partial(f, g, S) == IF S = {} THEN 0 ELSE f[AnyOf(S)] + g[S \ {AnyOf(S)}]

\* The sums of f over the subsets of S.
Sums(f, S) == CHOOSE g : g = [U \in SUBSET S |-> Partial(f, g, U)]

LEMMA SumIsSums ==
    ASSUME NEW f, NEW S
    PROVE  SumFunctionOnSet(f, S) = Sums(f, S)[S]
BY DEF SumFunctionOnSet, FoldFunctionOnSet, MapThenFoldSet, Sums, Partial, AnyOf

\* The recursion has a solution, and the solutions for two sets agree.
Solved(f, S) == Sums(f, S) = [U \in SUBSET S |-> Partial(f, Sums(f, S), U)]
Coherent(f, S) == \A U \in SUBSET S : Sums(f, S)[U] = SumFunctionOnSet(f, U)

LEMMA AnyOfElement == ASSUME NEW S, S # {} PROVE AnyOf(S) \in S
BY DEF AnyOf

LEMMA SumsExist ==
    ASSUME NEW f, NEW S, IsFiniteSet(S),
           \A U \in SUBSET S : U # S => Solved(f, U) /\ Coherent(f, U)
    PROVE  Solved(f, S)
<1> DEFINE h == [U \in SUBSET S |->
                    IF U = {} THEN 0
                    ELSE f[AnyOf(U)] + SumFunctionOnSet(f, U \ {AnyOf(U)})]
<1>1. ASSUME NEW U \in SUBSET S, U # {}
      PROVE  h[U \ {AnyOf(U)}] = SumFunctionOnSet(f, U \ {AnyOf(U)})
  <2> DEFINE V == U \ {AnyOf(U)}
  <2>1. V \in SUBSET S /\ V # S
    BY <1>1, AnyOfElement
  <2>2. Sums(f, V) = [W \in SUBSET V |-> Partial(f, Sums(f, V), W)]
        /\ SumFunctionOnSet(f, V) = Sums(f, V)[V]
    BY <2>1, SumIsSums DEF Solved
  <2>3. SumFunctionOnSet(f, V) = Partial(f, Sums(f, V), V)
    <3> HIDE DEF V
    <3> QED BY <2>2
  <2>4. V # {} => Sums(f, V)[V \ {AnyOf(V)}] = SumFunctionOnSet(f, V \ {AnyOf(V)})
    BY <2>1 DEF Coherent
  <2> HIDE DEF V
  <2>5. h[V] = SumFunctionOnSet(f, V)
    BY <2>1, <2>3, <2>4 DEF Partial
  <2> QED BY <2>5 DEF V
<1>2. h = [U \in SUBSET S |-> Partial(f, h, U)]
  <2>1. ASSUME NEW U \in SUBSET S PROVE h[U] = Partial(f, h, U)
    BY <1>1, <2>1 DEF Partial
  <2>2. h = [U \in SUBSET S |-> h[U]]
    OBVIOUS
  <2> HIDE DEF h
  <2> QED BY <2>1, <2>2
<1>3. \E g : g = [U \in SUBSET S |-> Partial(f, g, U)]
  BY <1>2
<1> QED BY <1>3 DEF Solved, Sums

LEMMA SumsAgree ==
    ASSUME NEW f, NEW S, IsFiniteSet(S), Solved(f, S),
           \A U \in SUBSET S : U # S => Solved(f, U) /\ Coherent(f, U)
    PROVE  Coherent(f, S)
<1> DEFINE T == {U \in SUBSET S : Sums(f, S)[U] # SumFunctionOnSet(f, U)}
<1> SUFFICES ASSUME T # {} PROVE FALSE
  BY DEF Coherent
<1>1. PICK U \in T : \A V \in T : ~(V \subseteq U /\ V # U)
  <2>1. T \subseteq SUBSET S
    OBVIOUS
  <2> HIDE DEF T
  <2> QED BY <2>1, SmallestSubset
<1>2. U \in SUBSET S /\ U # S /\ Solved(f, U) /\ Coherent(f, U)
  BY <1>1, SumIsSums
<1>3. Sums(f, S)[U] = Partial(f, Sums(f, S), U)
  BY <1>2 DEF Solved
<1>4. SumFunctionOnSet(f, U) = Partial(f, Sums(f, U), U)
  BY <1>2, SumIsSums DEF Solved
<1>5. CASE U = {}
  BY <1>1, <1>3, <1>4, <1>5 DEF Partial
<1>6. CASE U # {}
  <2> DEFINE V == U \ {AnyOf(U)}
  <2>1. V \in SUBSET U /\ V # U /\ V \notin T /\ V \in SUBSET S
    BY <1>1, <1>6, AnyOfElement
  <2>2. Sums(f, S)[V] = SumFunctionOnSet(f, V) /\ Sums(f, U)[V] = SumFunctionOnSet(f, V)
    BY <1>2, <2>1 DEF Coherent
  <2> QED BY <1>1, <1>3, <1>4, <1>6, <2>2 DEF Partial
<1> QED BY <1>5, <1>6

LEMMA SumsSolved ==
    ASSUME NEW f, NEW S, IsFiniteSet(S)
    PROVE  Solved(f, S) /\ Coherent(f, S)
<1> DEFINE T == {U \in SUBSET S : ~(Solved(f, U) /\ Coherent(f, U))}
<1> SUFFICES ASSUME T # {} PROVE FALSE
  OBVIOUS
<1>1. PICK U \in T : \A V \in T : ~(V \subseteq U /\ V # U)
  <2>1. T \subseteq SUBSET S
    OBVIOUS
  <2> HIDE DEF T
  <2> QED BY <2>1, SmallestSubset
<1>2. IsFiniteSet(U) /\ \A V \in SUBSET U : V # U => Solved(f, V) /\ Coherent(f, V)
  BY <1>1, FS_Subset
<1> QED BY <1>1, <1>2, SumsExist, SumsAgree

\* A sum is zero, or some element and the sum of the others.
LEMMA SumEmpty == ASSUME NEW f PROVE SumFunctionOnSet(f, {}) = 0
<1>1. Solved(f, {})
  BY SumsSolved, FS_EmptySet
<1> QED BY <1>1, SumIsSums DEF Solved, Partial

LEMMA SumAnyOf ==
    ASSUME NEW f, NEW S, IsFiniteSet(S), S # {}
    PROVE  SumFunctionOnSet(f, S) = f[AnyOf(S)] + SumFunctionOnSet(f, S \ {AnyOf(S)})
<1>1. Solved(f, S) /\ Coherent(f, S)
  BY SumsSolved
<1>2. SumFunctionOnSet(f, S) = Partial(f, Sums(f, S), S)
  BY <1>1, SumIsSums DEF Solved
<1>3. Sums(f, S)[S \ {AnyOf(S)}] = SumFunctionOnSet(f, S \ {AnyOf(S)})
  BY <1>1 DEF Coherent
<1> QED BY <1>2, <1>3 DEF Partial

\* A sum of natural numbers is one.
LEMMA SumType ==
    ASSUME NEW f, NEW S, IsFiniteSet(S), \A x \in S : f[x] \in Nat
    PROVE  SumFunctionOnSet(f, S) \in Nat
<1> DEFINE T == {U \in SUBSET S : SumFunctionOnSet(f, U) \notin Nat}
<1> SUFFICES ASSUME T # {} PROVE FALSE
  OBVIOUS
<1>1. PICK U \in T : \A V \in T : ~(V \subseteq U /\ V # U)
  <2>1. T \subseteq SUBSET S
    OBVIOUS
  <2> HIDE DEF T
  <2> QED BY <2>1, SmallestSubset
<1>2. U # {} /\ IsFiniteSet(U) /\ AnyOf(U) \in U /\ U \ {AnyOf(U)} \notin T
  <2>1. U \subseteq S /\ IsFiniteSet(U)
    BY <1>1, FS_Subset
  <2>2. U # {}
    <3> SUFFICES ASSUME U = {} PROVE U \notin T
      BY <1>1
    <3> QED BY SumEmpty
  <2>3. AnyOf(U) \in U
    BY <2>2, AnyOfElement
  <2> QED BY <1>1, <2>1, <2>2, <2>3
<1> QED BY <1>1, <1>2, SumAnyOf

\* The sum does not depend on the order: any element can be taken out first.
LEMMA SumSplit ==
    ASSUME NEW f, NEW S, IsFiniteSet(S), \A x \in S : f[x] \in Nat, NEW y \in S
    PROVE  SumFunctionOnSet(f, S) = f[y] + SumFunctionOnSet(f, S \ {y})
<1> DEFINE T == {U \in SUBSET S : \E x \in U :
                    SumFunctionOnSet(f, U) # f[x] + SumFunctionOnSet(f, U \ {x})}
<1> SUFFICES ASSUME T # {} PROVE FALSE
  OBVIOUS
<1>1. PICK U \in T : \A V \in T : ~(V \subseteq U /\ V # U)
  <2>1. T \subseteq SUBSET S
    OBVIOUS
  <2> HIDE DEF T
  <2> QED BY <2>1, SmallestSubset
<1>2. PICK x \in U : SumFunctionOnSet(f, U) # f[x] + SumFunctionOnSet(f, U \ {x})
  BY <1>1
<1> DEFINE p == AnyOf(U)
           R == U \ {p, x}
<1>3. /\ U \subseteq S /\ U # {} /\ p \in U /\ IsFiniteSet(U) /\ IsFiniteSet(U \ {x})
      /\ IsFiniteSet(R) /\ R \subseteq S
      /\ U \ {p} \notin T /\ U \ {x} \notin T
  BY <1>1, <1>2, AnyOfElement, FS_Subset
<1>4. SumFunctionOnSet(f, U) = f[p] + SumFunctionOnSet(f, U \ {p})
  BY <1>3, SumAnyOf
<1>5. x # p
  BY <1>2, <1>4
<1>6. (U \ {p}) \ {x} = R /\ (U \ {x}) \ {p} = R
  OBVIOUS
<1>7. SumFunctionOnSet(f, U \ {p}) = f[x] + SumFunctionOnSet(f, R)
  BY <1>1, <1>2, <1>3, <1>5, <1>6
<1>8. SumFunctionOnSet(f, U \ {x}) = f[p] + SumFunctionOnSet(f, R)
  BY <1>1, <1>2, <1>3, <1>5, <1>6
<1>9. f[p] \in Nat /\ f[x] \in Nat /\ SumFunctionOnSet(f, R) \in Nat
  BY <1>2, <1>3, SumType
<1>10. f[p] + (f[x] + SumFunctionOnSet(f, R)) = f[x] + (f[p] + SumFunctionOnSet(f, R))
  BY <1>9
<1> HIDE DEF p, R
<1> QED BY <1>2, <1>4, <1>7, <1>8, <1>10

\* One element more.
LEMMA SumMore ==
    ASSUME NEW f, NEW S, IsFiniteSet(S), NEW y, y \notin S,
           f[y] \in Nat, \A x \in S : f[x] \in Nat
    PROVE  SumFunctionOnSet(f, S \cup {y}) = f[y] + SumFunctionOnSet(f, S)
<1>1. IsFiniteSet(S \cup {y}) /\ (S \cup {y}) \ {y} = S
  BY FS_AddElement
<1> QED BY <1>1, SumSplit

\* Larger values have the larger sum, equal ones the same.
LEMMA SumMonotonic ==
    ASSUME NEW f, NEW g, NEW S, IsFiniteSet(S),
           \A x \in S : f[x] \in Nat /\ g[x] \in Nat /\ f[x] <= g[x]
    PROVE  SumFunctionOnSet(f, S) <= SumFunctionOnSet(g, S)
<1> DEFINE T == {U \in SUBSET S : ~(SumFunctionOnSet(f, U) <= SumFunctionOnSet(g, U))}
<1> SUFFICES ASSUME T # {} PROVE FALSE
  OBVIOUS
<1>1. PICK U \in T : \A V \in T : ~(V \subseteq U /\ V # U)
  <2>1. T \subseteq SUBSET S
    OBVIOUS
  <2> HIDE DEF T
  <2> QED BY <2>1, SmallestSubset
<1>2. U # {} /\ IsFiniteSet(U) /\ AnyOf(U) \in U /\ U \ {AnyOf(U)} \notin T
  <2>1. U \subseteq S /\ IsFiniteSet(U)
    BY <1>1, FS_Subset
  <2>2. U # {}
    <3> SUFFICES ASSUME U = {} PROVE U \notin T
      BY <1>1
    <3> QED BY SumEmpty
  <2>3. AnyOf(U) \in U
    BY <2>2, AnyOfElement
  <2> QED BY <1>1, <2>1, <2>2, <2>3
<1> DEFINE p == AnyOf(U)
           V == U \ {p}
<1>3. /\ SumFunctionOnSet(f, U) = f[p] + SumFunctionOnSet(f, V)
      /\ SumFunctionOnSet(g, U) = g[p] + SumFunctionOnSet(g, V)
      /\ SumFunctionOnSet(f, V) <= SumFunctionOnSet(g, V)
  BY <1>1, <1>2, SumAnyOf
<1>4. /\ f[p] \in Nat /\ g[p] \in Nat /\ f[p] <= g[p]
      /\ SumFunctionOnSet(f, V) \in Nat /\ SumFunctionOnSet(g, V) \in Nat
  <2>1. IsFiniteSet(V) /\ p \in S /\ V \subseteq S
    BY <1>1, <1>2, FS_Subset
  <2> HIDE DEF p, V
  <2> QED BY <2>1, SumType
<1> HIDE DEF p, V
<1>5. f[p] + SumFunctionOnSet(f, V) <= g[p] + SumFunctionOnSet(g, V)
  BY <1>3, <1>4
<1>6. SumFunctionOnSet(f, U) <= SumFunctionOnSet(g, U)
  BY <1>3, <1>5
<1> QED BY <1>1, <1>6

LEMMA SumSame ==
    ASSUME NEW f, NEW g, NEW S, IsFiniteSet(S), \A x \in S : f[x] \in Nat /\ g[x] = f[x]
    PROVE  SumFunctionOnSet(f, S) = SumFunctionOnSet(g, S)
<1>1. SumFunctionOnSet(f, S) \in Nat /\ SumFunctionOnSet(g, S) \in Nat
  BY SumType
<1>2. SumFunctionOnSet(f, S) <= SumFunctionOnSet(g, S)
      /\ SumFunctionOnSet(g, S) <= SumFunctionOnSet(f, S)
  BY SumMonotonic
<1> QED BY <1>1, <1>2

\* A sum moves with the one value that moves.
LEMMA SumChange ==
    ASSUME NEW f, NEW g, NEW S, IsFiniteSet(S), NEW y \in S, g[y] \in Nat,
           \A x \in S : f[x] \in Nat, \A x \in S \ {y} : g[x] = f[x]
    PROVE  SumFunctionOnSet(g, S) + f[y] = SumFunctionOnSet(f, S) + g[y]
<1> DEFINE R == S \ {y}
<1>1. IsFiniteSet(R) /\ \A x \in S : g[x] \in Nat
  BY FS_Subset
<1>2. SumFunctionOnSet(f, R) = SumFunctionOnSet(g, R) /\ SumFunctionOnSet(f, R) \in Nat
  BY <1>1, SumSame, SumType
<1>3. /\ SumFunctionOnSet(f, S) = f[y] + SumFunctionOnSet(f, R)
      /\ SumFunctionOnSet(g, S) = g[y] + SumFunctionOnSet(g, R)
  BY <1>1, SumSplit
<1> HIDE DEF R
<1> QED BY <1>2, <1>3

-----------------------------------------------------------------------------
(***************************************************************************)
(* The inductive invariant                                                 *)
(***************************************************************************)

\* The run a report is about.
RunOf(l) == worker[l].run

\* A lease that was not given out has no report and no run; one that was has a run.
Opened ==
    \A l \in Leases :
        IF worker[l].phase = "none"
        THEN /\ \A p \in posts : p.lease # l
             /\ \A h \in handling : h.report.lease # l
             /\ \A r \in Runs : run[r].lease # l
        ELSE RunOf(l) \in Runs

\* The lease on a row is a lease of that run.
Held == \A r \in Runs : run[r].lease # 0 => RunOf(run[r].lease) = r

\* What a handler is about to book covers its report, in the ledger of the run
\* and, while the lease is current, in the books of the lease.
Reads ==
    \A h \in handling :
        LET p == h.report
            r == RunOf(p.lease)
        IN  /\ h.unknown <= h.dollars
            /\ p.tokens <= ledger[r].tokens + h.tokens
            /\ p.dollars <= ledger[r].priced + ledger[r].unknown + h.dollars
            /\ run[r].lease = p.lease =>
                 /\ p.tokens <= worker[p.lease].seed.tokens + booked[p.lease].tokens + h.tokens
                 /\ p.dollars <= worker[p.lease].seed.dollars + booked[p.lease].dollars + h.dollars

\* The totals of a row and of a lease are covered by what was booked.
RowBooked ==
    \A r \in Runs : run[r].lease # 0 =>
        /\ run[r].tokens <= worker[run[r].lease].seed.tokens + booked[run[r].lease].tokens
        /\ run[r].dollars <= worker[run[r].lease].seed.dollars + booked[run[r].lease].dollars

AckBooked ==
    \A l \in Leases :
        /\ acked[l].tokens <= worker[l].seed.tokens + booked[l].tokens
        /\ acked[l].dollars <= worker[l].seed.dollars + booked[l].dollars

\* While reports are handled one by one, what a handler has read is still so.
ReadsCurrent ==
    Ordered =>
        /\ \A h \in handling :
              /\ h.tokens = Over(h.report.tokens, run[RunOf(h.report.lease)].tokens)
              /\ h.dollars = Over(h.report.dollars, run[RunOf(h.report.lease)].dollars)
        /\ \A h, k \in handling : RunOf(h.report.lease) = RunOf(k.report.lease) => h = k

\* A count of spend that stays below the budget of a run.
Affords(b, tokens, dollars, unpriced) ==
    tokens < b.tokens /\ Over(dollars, unpriced) < b.dollars

\* The reports on their way and in a handler.
Sent == posts \cup {h.report : h \in handling}

\* After an unlock and until the next call, the run, its worker and their reports
\* stand below the new ceiling; what they know of unpriced dollars is in the ledger.
AffordableRun(r) ==
    /\ Affords(run[r].budget, run[r].tokens, run[r].dollars, ledger[r].unknown)
    /\ run[r].lease # 0 =>
         LET l == run[r].lease
             w == worker[l]
         IN  /\ w.phase \in {"running", "gone"}
             /\ w.phase = "running" =>
                  /\ w.budget = run[r].budget /\ w.unpriced <= ledger[r].unknown
                  /\ Affords(run[r].budget, w.tokens, w.dollars, w.unpriced)
             /\ \A p \in Sent : p.lease = l =>
                  /\ p.unpriced <= ledger[r].unknown
                  /\ Affords(run[r].budget, p.tokens, p.dollars, p.unpriced)

Affordable == \A r \in resumed : AffordableRun(r)

Books ==
    /\ Opened /\ Held /\ Reads /\ RowBooked /\ AckBooked
    /\ LedgerCoversRow /\ ReadsCurrent /\ NoDoubleBooking

IInv == TypeOK /\ Books /\ Affordable

-----------------------------------------------------------------------------
(***************************************************************************)
(* Reports and rows                                                        *)
(***************************************************************************)

\* A report carries the totals of its worker.
LEMMA ReportType ==
    ASSUME TypeOK, NEW l \in Leases, NEW kind \in Kinds
    PROVE  ReportOf(l, kind) \in Report
BY DEF ReportOf, Report, TypeOK, WorkerState

\* What a handler books of a report, and how it splits it.
LEMMA DeltaFacts ==
    ASSUME TypeOK, NEW p \in Report, RunOf(p.lease) \in Runs
    PROVE  LET h == RecordSpendDelta(p)
               r == RunOf(p.lease)
           IN  /\ h \in Reading
               /\ h.report = p
               /\ h.tokens = Over(p.tokens, run[r].tokens)
               /\ h.dollars = Over(p.dollars, run[r].dollars)
               /\ h.unknown <= h.dollars
               /\ p.tokens <= run[r].tokens + h.tokens
               /\ p.dollars <= run[r].dollars + h.dollars
<1> DEFINE r == RunOf(p.lease)
           dollars == Over(p.dollars, run[r].dollars)
           unknown == Smaller(Over(p.unpriced, ledger[r].unknown), dollars)
<1>1. /\ p.tokens \in Nat /\ p.dollars \in Nat /\ p.unpriced \in Nat
      /\ run[r].tokens \in Nat /\ run[r].dollars \in Nat /\ ledger[r].unknown \in Nat
  BY DEF Report, TypeOK, Row
<1>2. /\ dollars \in Nat /\ unknown \in Nat /\ unknown <= dollars
      /\ Over(p.tokens, run[r].tokens) \in Nat
      /\ p.tokens <= run[r].tokens + Over(p.tokens, run[r].tokens)
      /\ p.dollars <= run[r].dollars + dollars
  BY <1>1 DEF Over, Smaller
<1>3. RecordSpendDelta(p) = [report |-> p, tokens |-> Over(p.tokens, run[r].tokens),
                             dollars |-> dollars, unknown |-> unknown]
  BY DEF RecordSpendDelta, RunOf
<1> HIDE DEF r, dollars, unknown
<1>4. RecordSpendDelta(p) \in Reading
  BY <1>2, <1>3 DEF Reading
<1> QED BY <1>2, <1>3, <1>4 DEF r, dollars

\* A row after a report: its totals are those of the report, and the lease is kept
\* by a heartbeat only.
LEMMA UpdatedFacts ==
    ASSUME NEW row \in Row, NEW p \in Report
    PROVE  LET new == Updated(row, p)
           IN  /\ new \in Row
               /\ new.tokens = p.tokens /\ new.dollars = p.dollars
               /\ new.budget = row.budget
               /\ new.lease = IF p.kind = "heartbeat" THEN row.lease ELSE 0
<1> USE BoundsAssumption DEF Row
<1>1. CASE p.kind = "heartbeat"
  BY <1>1 DEF Updated, Report
<1>2. CASE p.kind = "release"
  <2> DEFINE status == IF row.attempts + 1 >= MaxAttempts THEN "ended" ELSE "active"
             tries == row.attempts + 1
  <2>1. Updated(row, p) = [row EXCEPT !.tokens = p.tokens, !.dollars = p.dollars,
                                      !.expired = FALSE, !.lease = 0,
                                      !.attempts = tries, !.status = status]
    BY <1>2 DEF Updated
  <2>2. status \in {"active", "ended"} /\ tries \in Nat
    OBVIOUS
  <2> HIDE DEF status, tries
  <2> QED BY <1>2, <2>1, <2>2 DEF Report
<1>3. CASE p.kind \notin {"heartbeat", "release"}
  <2>1. p.kind \in {"ended", "halted_budget"}
    BY <1>3 DEF Report, Kinds
  <2>2. Updated(row, p) = [row EXCEPT !.tokens = p.tokens, !.dollars = p.dollars,
                                      !.expired = FALSE, !.lease = 0, !.status = p.kind]
    BY <1>3 DEF Updated
  <2> QED BY <1>3, <2>1, <2>2 DEF Report
<1> QED BY <1>1, <1>2, <1>3

\* The updates of a worker by the other actions.
LEMMA WorkerUpdates ==
    ASSUME TypeOK, NEW l \in Leases
    PROVE  /\ [worker[l] EXCEPT !.phase = "halting", !.left = 0] \in WorkerState
           /\ [worker[l] EXCEPT !.left = CallsPerRound] \in WorkerState
           /\ [worker[l] EXCEPT !.n = @ + 1] \in WorkerState
           /\ Gone(l) \in WorkerState
           /\ Gone(l).run = worker[l].run /\ Gone(l).seed = worker[l].seed
           /\ Gone(l).phase = "gone"
<1>1. worker[l] \in WorkerState /\ worker[l].n \in Nat
  BY DEF TypeOK, WorkerState
<1>2. 0 \in 0..CallsPerRound /\ CallsPerRound \in 0..CallsPerRound
  BY BoundsAssumption
<1>3. [worker[l] EXCEPT !.phase = "halting", !.left = 0] \in WorkerState
      /\ [worker[l] EXCEPT !.left = CallsPerRound] \in WorkerState
  BY <1>1, <1>2 DEF WorkerState
<1>4. ASSUME NEW n \in Nat PROVE [worker[l] EXCEPT !.n = n] \in WorkerState
  BY <1>1 DEF WorkerState
<1>5. worker[l].n + 1 \in Nat
  BY <1>1
<1>6. /\ Gone(l) \in WorkerState
      /\ Gone(l).run = worker[l].run /\ Gone(l).seed = worker[l].seed
      /\ Gone(l).phase = "gone"
  BY <1>1, <1>2 DEF Gone, WorkerState
<1> QED BY <1>3, <1>4, <1>5, <1>6

\* A worker starts from what the row and the ledger hold.
LEMMA SeededType ==
    ASSUME TypeOK, NEW r \in Runs
    PROVE  Seeded(r) \in WorkerState /\ Seeded(r).seed \in Money
<1>1. /\ run[r].tokens \in Nat /\ run[r].dollars \in Nat /\ run[r].budget \in Budgets
      /\ ledger[r].unknown \in Nat
  BY DEF TypeOK, Row
<1>2. 0 \in 0..CallsPerRound
  BY BoundsAssumption
<1> QED BY <1>1, <1>2 DEF Seeded, WorkerState, Money

\* What a call makes of a worker.
LEMMA TrackType ==
    ASSUME TypeOK, NEW l \in Leases, NEW c \in Calls, Track(l, c)
    PROVE  /\ worker' = [worker EXCEPT ![l] = worker'[l]]
           /\ worker'[l] \in WorkerState
           /\ worker'[l].run = worker[l].run /\ worker'[l].phase = worker[l].phase
           /\ worker'[l].seed = worker[l].seed /\ worker'[l].budget = worker[l].budget
<1> DEFINE sum == IF c.unpriced THEN worker[l].unpriced + c.dollars ELSE worker[l].unpriced
           left == worker[l].left - 1
<1>1. /\ worker[l] \in WorkerState
      /\ worker' = [worker EXCEPT ![l] = [worker[l] EXCEPT !.left = left,
                        !.tokens = worker[l].tokens + c.tokens,
                        !.dollars = worker[l].dollars + c.dollars, !.unpriced = sum]]
  BY DEF Track, TypeOK
<1>2. left \in 0..CallsPerRound /\ sum \in Nat /\ c.tokens \in Nat /\ c.dollars \in Nat
  BY <1>1, CallsAssumption, BoundsAssumption DEF Track, WorkerState
<1> DEFINE tokens == worker[l].tokens + c.tokens
           dollars == worker[l].dollars + c.dollars
           new == [worker[l] EXCEPT !.left = left, !.tokens = tokens,
                                    !.dollars = dollars, !.unpriced = sum]
<1>3. tokens \in Nat /\ dollars \in Nat
  BY <1>1, <1>2 DEF WorkerState
<1>4. worker' = [worker EXCEPT ![l] = new]
  BY <1>1
<1> HIDE DEF sum, left, tokens, dollars
<1>5. new \in WorkerState
  BY <1>1, <1>2, <1>3 DEF WorkerState
<1>6. new.run = worker[l].run /\ new.phase = worker[l].phase
      /\ new.seed = worker[l].seed /\ new.budget = worker[l].budget
  BY <1>1 DEF WorkerState
<1> HIDE DEF new
<1> QED BY <1>4, <1>5, <1>6 DEF TypeOK

-----------------------------------------------------------------------------
(***************************************************************************)
(* Types                                                                   *)
(***************************************************************************)

LEMMA InitTypeOK == Init => TypeOK
BY BudgetsAssumption, BoundsAssumption, RunAssumption
   DEF Init, TypeOK, Row, WorkerState, Money, Zero, Leases, Bounded

\* Every action keeps every type; a handler also needs the run of its report.
LEMMA NextTypeOK == TypeOK /\ Opened /\ Reads /\ [Next]_vars => TypeOK'
<1> SUFFICES ASSUME TypeOK, Opened, Reads, [Next]_vars PROVE TypeOK'
  OBVIOUS
<1>1. ASSUME NEW l \in Leases, BudgetCheck(l) PROVE TypeOK'
  <2>2. [worker[l] EXCEPT !.phase = "halting", !.left = 0] \in WorkerState
        /\ [worker[l] EXCEPT !.left = CallsPerRound] \in WorkerState
    BY WorkerUpdates
  <2>3. worker' = [worker EXCEPT ![l] = [worker[l] EXCEPT !.phase = "halting", !.left = 0]]
        \/ worker' = [worker EXCEPT ![l] = [worker[l] EXCEPT !.left = CallsPerRound]]
    BY <1>1 DEF BudgetCheck
  <2>4. worker' \in [Leases -> WorkerState]
    BY <2>2, <2>3 DEF TypeOK
  <2> QED BY <1>1, <2>4 DEF BudgetCheck, TypeOK
<1>2. ASSUME NEW l \in Leases, NEW c \in Calls, Track(l, c) PROVE TypeOK'
  <2>1. worker' \in [Leases -> WorkerState]
    BY <1>2, TrackType DEF TypeOK
  <2> QED BY <1>2, <2>1 DEF Track, TypeOK
<1>3. ASSUME NEW l \in Leases, Heartbeat(l) PROVE TypeOK'
  <2>1. ReportOf(l, "heartbeat") \in Report
    BY ReportType DEF Kinds
  <2>2. [worker[l] EXCEPT !.n = @ + 1] \in WorkerState
    BY WorkerUpdates
  <2>3. worker' \in [Leases -> WorkerState]
    BY <1>3, <2>2 DEF Heartbeat, TypeOK
  <2>4. used' \in [Bounded -> Nat]
    BY <1>3 DEF Heartbeat, TypeOK, Bounded
  <2> QED BY <1>3, <2>1, <2>3, <2>4 DEF Heartbeat, TypeOK
<1>4. ASSUME NEW l \in Leases, NEW kind \in Kinds, Finish(l, kind) PROVE TypeOK'
  <2>1. ReportOf(l, kind) \in Report
    BY ReportType
  <2>2. Gone(l) \in WorkerState
    BY WorkerUpdates
  <2> QED BY <1>4, <2>1, <2>2 DEF Finish, TypeOK
<1>5. ASSUME NEW l \in Leases, Crash(l) PROVE TypeOK'
  <2>1. Gone(l) \in WorkerState
    BY WorkerUpdates
  <2>2. used' \in [Bounded -> Nat]
    BY <1>5 DEF Crash, TypeOK, Bounded
  <2> QED BY <1>5, <2>1, <2>2 DEF Crash, TypeOK
<1>6. ASSUME NEW p \in posts, Handle(p) PROVE TypeOK'
  <2>1. p \in Report /\ RunOf(p.lease) \in Runs
    BY DEF TypeOK, Opened, Report
  <2>2. RecordSpendDelta(p) \in Reading
    BY <2>1, DeltaFacts
  <2> QED BY <1>6, <2>2 DEF Handle, TypeOK
<1>7. ASSUME NEW h \in handling, Commit(h) PROVE TypeOK'
  <2> DEFINE p == h.report
             r == RunOf(p.lease)
  <2>1. /\ h \in Reading /\ p \in Report /\ p.lease \in Leases /\ r \in Runs
        /\ h.tokens \in Nat /\ h.dollars \in Nat /\ h.unknown \in Nat /\ h.unknown <= h.dollars
        /\ p.tokens \in Nat /\ p.dollars \in Nat
    BY DEF TypeOK, Opened, Reads, Report, Reading
  <2>2. run' \in [Runs -> Row]
    <3>1. run' = [run EXCEPT ![r] = Updated(run[r], p)] /\ run[r] \in Row
      BY <1>7, <2>1 DEF Commit, RunOf, TypeOK
    <3>2. Updated(run[r], p) \in Row
      BY <2>1, <3>1, UpdatedFacts
    <3> QED BY <2>1, <3>1, <3>2 DEF TypeOK
  <2>3. ledger' \in [Runs -> [tokens : Nat, priced : Nat, unknown : Nat]]
    <3> DEFINE tokens == ledger[r].tokens + h.tokens
               priced == ledger[r].priced + (h.dollars - h.unknown)
               unknown == ledger[r].unknown + h.unknown
    <3>1. tokens \in Nat /\ priced \in Nat /\ unknown \in Nat
      BY <2>1 DEF TypeOK
    <3>2. ledger' = [ledger EXCEPT ![r] = [ledger[r] EXCEPT !.tokens = tokens,
                                            !.priced = priced, !.unknown = unknown]]
      BY <1>7, <2>1 DEF Commit, RunOf, TypeOK
    <3> HIDE DEF tokens, priced, unknown
    <3> QED BY <2>1, <3>1, <3>2 DEF TypeOK
  <2>4. today' \in Money
    <3>1. today.tokens + h.tokens \in Nat /\ today.dollars + (h.dollars - h.unknown) \in Nat
      BY <2>1 DEF TypeOK, Money
    <3>2. today' = [tokens |-> today.tokens + h.tokens,
                    dollars |-> today.dollars + (h.dollars - h.unknown)]
      BY <1>7 DEF Commit
    <3> QED BY <3>1, <3>2 DEF Money
  <2>5. booked' \in [Leases -> Money]
    <3> DEFINE tokens == booked[p.lease].tokens + h.tokens
               dollars == booked[p.lease].dollars + h.dollars
    <3>1. tokens \in Nat /\ dollars \in Nat
      BY <2>1 DEF TypeOK, Money
    <3>2. booked' = [booked EXCEPT ![p.lease] = [booked[p.lease] EXCEPT !.tokens = tokens,
                                                  !.dollars = dollars]]
      BY <1>7, <2>1 DEF Commit, TypeOK
    <3> HIDE DEF tokens, dollars
    <3> QED BY <2>1, <3>1, <3>2 DEF TypeOK, Money
  <2>6. acked' \in [Leases -> Money]
    <3> DEFINE tokens == Larger(acked[p.lease].tokens, p.tokens)
               dollars == Larger(acked[p.lease].dollars, p.dollars)
    <3>1. tokens \in Nat /\ dollars \in Nat
      BY <2>1 DEF TypeOK, Money, Larger
    <3>2. acked' = [acked EXCEPT ![p.lease] = [acked[p.lease] EXCEPT !.tokens = tokens,
                                                !.dollars = dollars]]
      BY <1>7, <2>1 DEF Commit, TypeOK
    <3> HIDE DEF tokens, dollars
    <3> QED BY <2>1, <3>1, <3>2 DEF TypeOK, Money
  <2> QED BY <1>7, <2>2, <2>3, <2>4, <2>5, <2>6 DEF Commit, TypeOK
<1>8. ASSUME NEW h \in handling, Conflict(h) PROVE TypeOK'
  BY <1>8 DEF Conflict, TypeOK
<1>9. ASSUME NEW source \in {"worker_claim", "chat_post"}, ReadSpend(source) PROVE TypeOK'
  <2>1. used' \in [Bounded -> Nat]
    BY <1>9 DEF ReadSpend, TypeOK, Bounded
  <2> QED BY <1>9, <2>1 DEF ReadSpend, TypeOK
<1>10. ASSUME NEW r \in Runs, NEW l \in Leases, ClaimRun(r, l) PROVE TypeOK'
  <2>1. Seeded(r) \in WorkerState /\ Seeded(r).seed \in Money
    BY SeededType
  <2>2. [run[r] EXCEPT !.lease = l, !.expired = FALSE] \in Row
    BY DEF TypeOK, Row
  <2>3. run' \in [Runs -> Row]
    BY <1>10, <2>2 DEF ClaimRun, TypeOK
  <2>4. admission' \subseteq admission
    BY <1>10 DEF ClaimRun
  <2> QED BY <1>10, <2>1, <2>3, <2>4 DEF ClaimRun, TypeOK
<1>11. ASSUME NoClaim \/ ChatPost PROVE TypeOK'
  <2>1. admission' \subseteq admission
    BY <1>11 DEF NoClaim, ChatPost
  <2>2. chatting' \in Nat
    BY <1>11 DEF NoClaim, ChatPost, TypeOK
  <2> QED BY <1>11, <2>1, <2>2 DEF NoClaim, ChatPost, TypeOK
<1>12. ASSUME NEW c \in Calls, NEW persisted \in BOOLEAN, ChatTurn(c, persisted) PROVE TypeOK'
  <2>1. c.tokens \in Nat /\ (IF c.unpriced THEN 0 ELSE c.dollars) \in Nat
    BY CallsAssumption
  <2>2. today' \in Money
    BY <1>12, <2>1 DEF ChatTurn, Money, TypeOK
  <2> QED BY <1>12, <2>2 DEF ChatTurn, TypeOK
<1>13. ASSUME NEW r \in Runs, LeaseExpires(r) PROVE TypeOK'
  <2>1. [run[r] EXCEPT !.expired = TRUE] \in Row
    BY DEF TypeOK, Row
  <2>2. run' \in [Runs -> Row] /\ used' \in [Bounded -> Nat]
    BY <1>13, <2>1 DEF LeaseExpires, TypeOK, Bounded
  <2> QED BY <1>13, <2>2 DEF LeaseExpires, TypeOK
<1>14. ASSUME NEW r \in Runs, NEW b \in Budgets, UnlockRun(r, b) PROVE TypeOK'
  <2>1. [run[r] EXCEPT !.status = "active", !.budget = b, !.lease = 0,
                       !.expired = FALSE] \in Row
    <3>1. run[r] \in Row
      BY DEF TypeOK
    <3> QED BY <3>1 DEF Row
  <2>2. run' \in [Runs -> Row] /\ used' \in [Bounded -> Nat]
    BY <1>14, <2>1 DEF UnlockRun, TypeOK, Bounded
  <2> QED BY <1>14, <2>2 DEF UnlockRun, TypeOK
<1>15. ASSUME NewDay PROVE TypeOK'
  BY <1>15 DEF NewDay, TypeOK, Bounded, Zero, Money
<1>16. ASSUME UNCHANGED vars PROVE TypeOK'
  BY <1>16 DEF vars, TypeOK
<1> QED BY <1>1, <1>2, <1>3, <1>4, <1>5, <1>6, <1>7, <1>8, <1>9, <1>10, <1>11, <1>12,
          <1>13, <1>14, <1>15, <1>16 DEF Next

-----------------------------------------------------------------------------
(***************************************************************************)
(* The books                                                               *)
(***************************************************************************)

LEMMA InitBooks == Init => Books
<1> SUFFICES ASSUME Init PROVE Books
  OBVIOUS
<1>1. Opened /\ Held /\ Reads /\ RowBooked /\ ReadsCurrent
  BY DEF Init, Opened, Held, Reads, RowBooked, ReadsCurrent, Leases
<1>2. AckBooked /\ LedgerCoversRow /\ NoDoubleBooking
  BY DEF Init, Zero, AckBooked, LedgerCoversRow, NoDoubleBooking
<1> QED BY <1>1, <1>2 DEF Books

\* The facts the books are about, with their types.
LEMMA Numbers ==
    ASSUME TypeOK, Opened
    PROVE  /\ \A r \in Runs :
                /\ run[r].tokens \in Nat /\ run[r].dollars \in Nat
                /\ run[r].lease \in Leases \cup {0}
                /\ ledger[r].tokens \in Nat /\ ledger[r].priced \in Nat
                /\ ledger[r].unknown \in Nat
           /\ \A l \in Leases :
                /\ worker[l].seed.tokens \in Nat /\ worker[l].seed.dollars \in Nat
                /\ booked[l].tokens \in Nat /\ booked[l].dollars \in Nat
                /\ acked[l].tokens \in Nat /\ acked[l].dollars \in Nat
           /\ \A h \in handling :
                /\ h \in Reading /\ h.report \in Report /\ h.report.lease \in Leases
                /\ h.tokens \in Nat /\ h.dollars \in Nat /\ h.unknown \in Nat
                /\ h.report.tokens \in Nat /\ h.report.dollars \in Nat
                /\ h.report.unpriced \in Nat
                /\ RunOf(h.report.lease) \in Runs
                /\ worker[h.report.lease].phase # "none"
           /\ 0 \notin Leases
<1>1. ASSUME NEW r \in Runs
      PROVE  /\ run[r].tokens \in Nat /\ run[r].dollars \in Nat
             /\ run[r].lease \in Leases \cup {0}
             /\ ledger[r].tokens \in Nat /\ ledger[r].priced \in Nat
             /\ ledger[r].unknown \in Nat
  BY DEF TypeOK, Row
<1>2. ASSUME NEW l \in Leases
      PROVE  /\ worker[l].seed.tokens \in Nat /\ worker[l].seed.dollars \in Nat
             /\ booked[l].tokens \in Nat /\ booked[l].dollars \in Nat
             /\ acked[l].tokens \in Nat /\ acked[l].dollars \in Nat
  BY DEF TypeOK, WorkerState, Money
<1>3. ASSUME NEW h \in handling
      PROVE  /\ h \in Reading /\ h.report \in Report /\ h.report.lease \in Leases
             /\ h.tokens \in Nat /\ h.dollars \in Nat /\ h.unknown \in Nat
             /\ h.report.tokens \in Nat /\ h.report.dollars \in Nat
             /\ h.report.unpriced \in Nat
             /\ RunOf(h.report.lease) \in Runs
             /\ worker[h.report.lease].phase # "none"
  BY DEF TypeOK, Reading, Report, Opened
<1>4. 0 \notin Leases
  BY BoundsAssumption DEF Leases
<1> QED BY <1>1, <1>2, <1>3, <1>4

\* A step that books nothing and gives out no lease leaves the books as they are.
LEMMA QuietBooks ==
    ASSUME IInv,
           UNCHANGED <<ledger, booked, acked>>,
           handling' \subseteq handling, causes \subseteq causes',
           \A p \in posts' : p \in posts \/ worker[p.lease].phase # "none",
           \A r \in Runs : /\ run'[r].tokens = run[r].tokens
                           /\ run'[r].dollars = run[r].dollars
                           /\ run'[r].lease \in {run[r].lease, 0},
           \A l \in Leases : /\ worker'[l].run = worker[l].run
                             /\ worker'[l].seed = worker[l].seed
                             /\ worker'[l].phase = "none" <=> worker[l].phase = "none"
    PROVE  Books'
<1> USE DEF IInv, Books
<1>0. 0 \notin Leases /\ \A l \in Leases : RunOf(l)' = RunOf(l)
  BY Numbers DEF RunOf
<1>1. Opened'
  BY <1>0 DEF Opened
<1>2. Held'
  BY <1>0, Numbers DEF Held
<1>3. Reads'
  <2> SUFFICES ASSUME NEW h \in handling'
               PROVE  LET p == h.report
                          r == RunOf(p.lease)'
                      IN  /\ h.unknown <= h.dollars
                          /\ p.tokens <= ledger'[r].tokens + h.tokens
                          /\ p.dollars <= ledger'[r].priced + ledger'[r].unknown + h.dollars
                          /\ run'[r].lease = p.lease =>
                               /\ p.tokens <= worker'[p.lease].seed.tokens
                                                + booked'[p.lease].tokens + h.tokens
                               /\ p.dollars <= worker'[p.lease].seed.dollars
                                                + booked'[p.lease].dollars + h.dollars
    BY DEF Reads
  <2>1. h \in handling /\ h.report.lease \in Leases /\ RunOf(h.report.lease) \in Runs
    BY Numbers
  <2>2. RunOf(h.report.lease)' = RunOf(h.report.lease)
    BY <1>0, <2>1
  <2>3. run'[RunOf(h.report.lease)].lease = h.report.lease
            => run[RunOf(h.report.lease)].lease = h.report.lease
    BY <1>0, <2>1
  <2> QED BY <2>1, <2>2, <2>3 DEF Reads
<1>4. RowBooked'
  BY <1>0, Numbers DEF RowBooked
<1>5. AckBooked' /\ LedgerCoversRow'
  BY DEF AckBooked, LedgerCoversRow
<1>6. Ordered' => Ordered
  BY DEF Ordered
<1>7. ReadsCurrent'
  <2> SUFFICES ASSUME Ordered'
               PROVE  /\ \A h \in handling' :
                           /\ h.tokens = Over(h.report.tokens, run'[RunOf(h.report.lease)'].tokens)
                           /\ h.dollars = Over(h.report.dollars, run'[RunOf(h.report.lease)'].dollars)
                      /\ \A h, k \in handling' :
                           RunOf(h.report.lease)' = RunOf(k.report.lease)' => h = k
    BY DEF ReadsCurrent
  <2>1. \A h \in handling' : h \in handling /\ RunOf(h.report.lease)' = RunOf(h.report.lease)
                             /\ RunOf(h.report.lease) \in Runs
    BY <1>0, Numbers
  <2> QED BY <1>6, <2>1 DEF ReadsCurrent
<1>8. NoDoubleBooking'
  BY <1>6 DEF NoDoubleBooking
<1> QED BY <1>1, <1>2, <1>3, <1>4, <1>5, <1>7, <1>8

\* A handler that reads: what it is about to book covers its report.
LEMMA HandleBooks ==
    ASSUME IInv, NEW p \in posts, Handle(p)
    PROVE  Books'
<1> DEFINE r == RunOf(p.lease)
           new == RecordSpendDelta(p)
<1> USE DEF IInv, Books
<1>1. /\ p \in Report /\ p.lease \in Leases /\ r \in Runs /\ worker[p.lease].phase # "none"
      /\ p.tokens \in Nat /\ p.dollars \in Nat
  BY DEF TypeOK, Opened, Report
<1>2. /\ new.report = p /\ new.unknown <= new.dollars
      /\ new.tokens \in Nat /\ new.dollars \in Nat
      /\ new.tokens = Over(p.tokens, run[r].tokens)
      /\ new.dollars = Over(p.dollars, run[r].dollars)
      /\ p.tokens <= run[r].tokens + new.tokens
      /\ p.dollars <= run[r].dollars + new.dollars
  BY <1>1, DeltaFacts DEF Reading
<1>3. /\ UNCHANGED <<run, ledger, worker, booked, acked>>
      /\ posts' \subseteq posts /\ handling' = handling \cup {new}
      /\ causes \subseteq causes'
      /\ "overlap" \notin causes' => \A h \in handling : RunOf(h.report.lease) # r
  BY DEF Handle, RunOf
<1> HIDE DEF new
<1>4. \A l : RunOf(l)' = RunOf(l)
  BY <1>3 DEF RunOf
<1>5. Opened'
  BY <1>1, <1>2, <1>3, <1>4 DEF Opened
<1>6. Held' /\ RowBooked' /\ AckBooked' /\ LedgerCoversRow'
  BY <1>3, <1>4 DEF Held, RowBooked, AckBooked, LedgerCoversRow
<1>7. Reads'
  <2>1. /\ p.tokens <= ledger[r].tokens + new.tokens
        /\ p.dollars <= ledger[r].priced + ledger[r].unknown + new.dollars
    BY <1>1, <1>2, Numbers DEF LedgerCoversRow
  <2>2. run[r].lease = p.lease =>
          /\ p.tokens <= worker[p.lease].seed.tokens + booked[p.lease].tokens + new.tokens
          /\ p.dollars <= worker[p.lease].seed.dollars + booked[p.lease].dollars + new.dollars
    BY <1>1, <1>2, Numbers DEF RowBooked
  <2> QED BY <1>2, <1>3, <1>4, <2>1, <2>2 DEF Reads
<1>8. ReadsCurrent'
  <2> SUFFICES ASSUME Ordered' PROVE ReadsCurrent'
    BY DEF ReadsCurrent
  <2>1. Ordered /\ \A h \in handling : RunOf(h.report.lease) # r
    BY <1>3 DEF Ordered
  <2>2. \A h \in handling' : h = new \/ (h \in handling /\ RunOf(h.report.lease) # r)
    BY <1>3, <2>1
  <2> QED BY <1>2, <1>3, <1>4, <2>1, <2>2 DEF ReadsCurrent
<1>9. NoDoubleBooking'
  <2>1. Ordered' => Ordered
    BY <1>3 DEF Ordered
  <2> QED BY <1>3, <2>1 DEF NoDoubleBooking
<1> QED BY <1>5, <1>6, <1>7, <1>8, <1>9

\* What a handler writes.
LEMMA CommitFacts ==
    ASSUME IInv, NEW h \in handling, Commit(h)
    PROVE  LET p == h.report
               r == RunOf(p.lease)
           IN  /\ run[r].lease = p.lease
               /\ handling' = handling \ {h} /\ UNCHANGED <<worker, posts>>
               /\ causes \subseteq causes'
               /\ "overtaken" \notin causes'
                     => p.tokens >= run[r].tokens /\ p.dollars >= run[r].dollars
               /\ \A q \in Runs \ {r} : run'[q] = run[q] /\ ledger'[q] = ledger[q]
               /\ run'[r].tokens = p.tokens /\ run'[r].dollars = p.dollars
               /\ run'[r].budget = run[r].budget
               /\ run'[r].lease \in {p.lease, 0}
               /\ ledger'[r].tokens = ledger[r].tokens + h.tokens
               /\ ledger'[r].unknown = ledger[r].unknown + h.unknown
               /\ ledger'[r].priced + ledger'[r].unknown
                     = ledger[r].priced + ledger[r].unknown + h.dollars
               /\ \A l \in Leases \ {p.lease} : booked'[l] = booked[l] /\ acked'[l] = acked[l]
               /\ booked'[p.lease].tokens = booked[p.lease].tokens + h.tokens
               /\ booked'[p.lease].dollars = booked[p.lease].dollars + h.dollars
               /\ acked'[p.lease].tokens = Larger(acked[p.lease].tokens, p.tokens)
               /\ acked'[p.lease].dollars = Larger(acked[p.lease].dollars, p.dollars)
<1> DEFINE p == h.report
           r == RunOf(p.lease)
<1>1. /\ h \in Reading /\ p \in Report /\ p.lease \in Leases /\ r \in Runs
      /\ h.tokens \in Nat /\ h.dollars \in Nat /\ h.unknown \in Nat
      /\ p.tokens \in Nat /\ p.dollars \in Nat
      /\ ledger[r].tokens \in Nat /\ ledger[r].priced \in Nat /\ ledger[r].unknown \in Nat
  BY Numbers DEF IInv, Books
<1>2. run[r] \in Row /\ run[r].lease = p.lease
  BY <1>1 DEF Commit, IInv, TypeOK, RunOf
<1>3. /\ Updated(run[r], p).tokens = p.tokens /\ Updated(run[r], p).dollars = p.dollars
      /\ Updated(run[r], p).budget = run[r].budget
      /\ Updated(run[r], p).lease \in {p.lease, 0}
  BY <1>1, <1>2, UpdatedFacts
<1>4. run' = [run EXCEPT ![r] = Updated(run[r], p)]
  BY DEF Commit, RunOf
<1>5. /\ \A q \in Runs \ {r} : run'[q] = run[q]
      /\ run'[r] = Updated(run[r], p)
  BY <1>1, <1>4 DEF IInv, TypeOK
<1>6. /\ \A q \in Runs \ {r} : ledger'[q] = ledger[q]
      /\ ledger'[r].tokens = ledger[r].tokens + h.tokens
      /\ ledger'[r].priced = ledger[r].priced + (h.dollars - h.unknown)
      /\ ledger'[r].unknown = ledger[r].unknown + h.unknown
  BY <1>1 DEF Commit, RunOf, IInv, TypeOK
<1>7. ledger'[r].priced + ledger'[r].unknown = ledger[r].priced + ledger[r].unknown + h.dollars
  BY <1>1, <1>6
<1>8. /\ \A l \in Leases \ {p.lease} : booked'[l] = booked[l] /\ acked'[l] = acked[l]
      /\ booked'[p.lease].tokens = booked[p.lease].tokens + h.tokens
      /\ booked'[p.lease].dollars = booked[p.lease].dollars + h.dollars
      /\ acked'[p.lease].tokens = Larger(acked[p.lease].tokens, p.tokens)
      /\ acked'[p.lease].dollars = Larger(acked[p.lease].dollars, p.dollars)
  BY <1>1 DEF Commit, IInv, TypeOK, Money
<1>9. /\ handling' = handling \ {h} /\ UNCHANGED <<worker, posts>>
      /\ causes \subseteq causes'
      /\ p.tokens < run[r].tokens \/ p.dollars < run[r].dollars => "overtaken" \in causes'
  BY DEF Commit, RunOf
<1>10. "overtaken" \notin causes' => p.tokens >= run[r].tokens /\ p.dollars >= run[r].dollars
  BY <1>1, <1>2, <1>9 DEF Row
<1> QED BY <1>2, <1>3, <1>5, <1>6, <1>7, <1>8, <1>9, <1>10

\* A handler that writes: the ledger and the books of the lease grow by what it has
\* read, the row becomes the report.
LEMMA CommitBooks ==
    ASSUME IInv, NEW h \in handling, Commit(h)
    PROVE  Books'
<1> DEFINE p == h.report
           r == RunOf(p.lease)
<1> USE DEF IInv, Books
<1>1. /\ p \in Report /\ p.lease \in Leases /\ r \in Runs /\ 0 \notin Leases
      /\ h.tokens \in Nat /\ h.dollars \in Nat /\ h.unknown \in Nat
      /\ p.tokens \in Nat /\ p.dollars \in Nat
      /\ worker[p.lease].phase # "none"
  BY Numbers
<1>2. /\ run[r].lease = p.lease
      /\ handling' = handling \ {h} /\ UNCHANGED <<worker, posts>>
      /\ causes \subseteq causes'
      /\ "overtaken" \notin causes'
            => p.tokens >= run[r].tokens /\ p.dollars >= run[r].dollars
      /\ \A q \in Runs \ {r} : run'[q] = run[q] /\ ledger'[q] = ledger[q]
      /\ run'[r].tokens = p.tokens /\ run'[r].dollars = p.dollars
      /\ run'[r].lease \in {p.lease, 0}
      /\ ledger'[r].tokens = ledger[r].tokens + h.tokens
      /\ ledger'[r].priced + ledger'[r].unknown
            = ledger[r].priced + ledger[r].unknown + h.dollars
      /\ \A l \in Leases \ {p.lease} : booked'[l] = booked[l] /\ acked'[l] = acked[l]
      /\ booked'[p.lease].tokens = booked[p.lease].tokens + h.tokens
      /\ booked'[p.lease].dollars = booked[p.lease].dollars + h.dollars
      /\ acked'[p.lease].tokens = Larger(acked[p.lease].tokens, p.tokens)
      /\ acked'[p.lease].dollars = Larger(acked[p.lease].dollars, p.dollars)
  BY CommitFacts
<1>3. \A l : RunOf(l)' = RunOf(l)
  BY <1>2 DEF RunOf
<1>4. /\ p.tokens <= ledger[r].tokens + h.tokens
      /\ p.dollars <= ledger[r].priced + ledger[r].unknown + h.dollars
      /\ p.tokens <= worker[p.lease].seed.tokens + booked[p.lease].tokens + h.tokens
      /\ p.dollars <= worker[p.lease].seed.dollars + booked[p.lease].dollars + h.dollars
  BY <1>2 DEF Reads
<1> HIDE DEF p, r
<1>5. \A q \in Runs : run'[q].lease = run[q].lease \/ run'[q].lease = 0
  BY <1>1, <1>2
<1>6. Opened' /\ Held'
  <2>1. Opened'
    BY <1>1, <1>2, <1>3, <1>5 DEF Opened
  <2>2. Held'
    BY <1>3, <1>5 DEF Held
  <2> QED BY <2>1, <2>2
<1>7. \A q \in Runs : /\ ledger'[q].tokens >= ledger[q].tokens
                      /\ ledger'[q].priced + ledger'[q].unknown >= ledger[q].priced + ledger[q].unknown
                      /\ ledger[q].tokens \in Nat /\ ledger[q].priced + ledger[q].unknown \in Nat
                      /\ ledger'[q].tokens \in Nat /\ ledger'[q].priced + ledger'[q].unknown \in Nat
  BY <1>1, <1>2, Numbers
<1>8. \A l \in Leases : /\ booked'[l].tokens >= booked[l].tokens
                        /\ booked'[l].dollars >= booked[l].dollars
                        /\ booked'[l].tokens \in Nat /\ booked'[l].dollars \in Nat
  BY <1>1, <1>2, Numbers
<1>9. Reads'
  <2> SUFFICES ASSUME NEW k \in handling'
               PROVE  LET o == k.report
                          q == RunOf(o.lease)'
                      IN  /\ k.unknown <= k.dollars
                          /\ o.tokens <= ledger'[q].tokens + k.tokens
                          /\ o.dollars <= ledger'[q].priced + ledger'[q].unknown + k.dollars
                          /\ run'[q].lease = o.lease =>
                               /\ o.tokens <= worker'[o.lease].seed.tokens
                                                + booked'[o.lease].tokens + k.tokens
                               /\ o.dollars <= worker'[o.lease].seed.dollars
                                                + booked'[o.lease].dollars + k.dollars
    BY DEF Reads
  <2> DEFINE o == k.report
             q == RunOf(o.lease)
  <2>1. /\ k \in handling /\ o.lease \in Leases /\ q \in Runs /\ RunOf(o.lease)' = q
        /\ o.tokens \in Nat /\ o.dollars \in Nat /\ k.tokens \in Nat /\ k.dollars \in Nat
        /\ worker[o.lease].seed.tokens \in Nat /\ worker[o.lease].seed.dollars \in Nat
        /\ booked[o.lease].tokens \in Nat /\ booked[o.lease].dollars \in Nat
    BY <1>2, <1>3, Numbers
  <2>2. /\ k.unknown <= k.dollars
        /\ o.tokens <= ledger[q].tokens + k.tokens
        /\ o.dollars <= ledger[q].priced + ledger[q].unknown + k.dollars
        /\ run[q].lease = o.lease =>
             /\ o.tokens <= worker[o.lease].seed.tokens + booked[o.lease].tokens + k.tokens
             /\ o.dollars <= worker[o.lease].seed.dollars + booked[o.lease].dollars + k.dollars
    BY <2>1 DEF Reads
  <2>3. run'[q].lease = o.lease => run[q].lease = o.lease
    BY <1>1, <1>5, <2>1
  <2>4. /\ o.tokens <= ledger'[q].tokens + k.tokens
        /\ o.dollars <= ledger'[q].priced + ledger'[q].unknown + k.dollars
    BY <1>7, <2>1, <2>2
  <2>5. run[q].lease = o.lease =>
          /\ o.tokens <= worker[o.lease].seed.tokens + booked'[o.lease].tokens + k.tokens
          /\ o.dollars <= worker[o.lease].seed.dollars + booked'[o.lease].dollars + k.dollars
    BY <1>8, <2>1, <2>2
  <2> QED BY <1>2, <2>1, <2>2, <2>3, <2>4, <2>5
<1>10. RowBooked'
  <2> SUFFICES ASSUME NEW q \in Runs, run'[q].lease # 0
               PROVE  LET l == run'[q].lease
                      IN  /\ run'[q].tokens <= worker[l].seed.tokens + booked'[l].tokens
                          /\ run'[q].dollars <= worker[l].seed.dollars + booked'[l].dollars
    BY <1>2 DEF RowBooked
  <2>1. CASE q = r
    <3>1. run'[q].lease = p.lease
      BY <1>2, <2>1
    <3>2. /\ run'[q].tokens = p.tokens /\ run'[q].dollars = p.dollars
          /\ booked'[p.lease].tokens = booked[p.lease].tokens + h.tokens
          /\ booked'[p.lease].dollars = booked[p.lease].dollars + h.dollars
      BY <1>2, <2>1
    <3>3. /\ worker[p.lease].seed.tokens \in Nat /\ worker[p.lease].seed.dollars \in Nat
          /\ booked[p.lease].tokens \in Nat /\ booked[p.lease].dollars \in Nat
      BY <1>1, Numbers
    <3> QED BY <1>1, <1>4, <3>1, <3>2, <3>3
  <2>2. CASE q # r
    <3>1. run'[q] = run[q] /\ run[q].lease \in Leases
      BY <1>2, <2>2, Numbers
    <3>2. run[q].lease # p.lease
      BY <1>1, <1>2, <2>2, <3>1 DEF Held, r
    <3> QED BY <1>2, <3>1, <3>2 DEF RowBooked
  <2> QED BY <2>1, <2>2
<1>11. AckBooked'
  <2> SUFFICES ASSUME NEW l \in Leases
               PROVE  /\ acked'[l].tokens <= worker[l].seed.tokens + booked'[l].tokens
                      /\ acked'[l].dollars <= worker[l].seed.dollars + booked'[l].dollars
    BY <1>2 DEF AckBooked
  <2>1. CASE l = p.lease
    <3>1. /\ acked[l].tokens <= worker[l].seed.tokens + booked[l].tokens + h.tokens
          /\ acked[l].dollars <= worker[l].seed.dollars + booked[l].dollars + h.dollars
      BY <1>1, Numbers DEF AckBooked
    <3> QED BY <1>1, <1>2, <1>4, <2>1, <3>1, Numbers DEF Larger
  <2>2. CASE l # p.lease
    BY <1>2, <2>2 DEF AckBooked
  <2> QED BY <2>1, <2>2
<1>12. LedgerCoversRow'
  BY <1>2, <1>4 DEF LedgerCoversRow
<1>13. Ordered' => Ordered /\ "overtaken" \notin causes'
  BY <1>2 DEF Ordered
<1>14. ReadsCurrent'
  <2> SUFFICES ASSUME Ordered' PROVE ReadsCurrent'
    BY DEF ReadsCurrent
  <2>1. \A k \in handling' : /\ k \in handling /\ RunOf(k.report.lease) \in Runs \ {r}
    BY <1>2, <1>13, Numbers DEF ReadsCurrent, r, p
  <2> QED BY <1>2, <1>3, <1>13, <2>1 DEF ReadsCurrent
<1>15. NoDoubleBooking'
  <2> SUFFICES ASSUME Ordered', NEW q \in Runs
               PROVE  /\ ledger'[q].tokens = run'[q].tokens
                      /\ ledger'[q].priced + ledger'[q].unknown = run'[q].dollars
    BY DEF NoDoubleBooking
  <2>1. CASE q = r
    <3>1. /\ ledger[r].tokens = run[r].tokens
          /\ ledger[r].priced + ledger[r].unknown = run[r].dollars
          /\ h.tokens = Over(p.tokens, run[r].tokens)
          /\ h.dollars = Over(p.dollars, run[r].dollars)
      BY <1>1, <1>13 DEF NoDoubleBooking, ReadsCurrent, r, p
    <3>2. run[r].tokens \in Nat /\ run[r].dollars \in Nat
      BY <1>1, Numbers
    <3>3. h.tokens = p.tokens - run[r].tokens /\ h.dollars = p.dollars - run[r].dollars
      BY <1>1, <1>2, <1>13, <3>1, <3>2 DEF Over
    <3> QED BY <1>1, <1>2, <2>1, <3>1, <3>2, <3>3
  <2>2. CASE q # r
    BY <1>2, <1>13, <2>2 DEF NoDoubleBooking
  <2> QED BY <2>1, <2>2
<1> QED BY <1>6, <1>9, <1>10, <1>11, <1>12, <1>14, <1>15

\* A claim: the lease is new, and its worker starts from the row.
LEMMA ClaimFacts ==
    ASSUME IInv, NEW r \in Runs, NEW l \in Leases, ClaimRun(r, l)
    PROVE  /\ worker[l].phase = "none"
           /\ UNCHANGED <<ledger, posts, handling, booked, resumed, causes>>
           /\ \A q \in Runs \ {r} : run'[q] = run[q]
           /\ run'[r].tokens = run[r].tokens /\ run'[r].dollars = run[r].dollars
           /\ run'[r].budget = run[r].budget /\ run'[r].lease = l
           /\ \A k \in Leases \ {l} : worker'[k] = worker[k] /\ acked'[k] = acked[k]
           /\ worker'[l] = Seeded(r) /\ acked'[l] = Seeded(r).seed
           /\ Seeded(r).run = r /\ Seeded(r).phase = "running"
           /\ Seeded(r).seed.tokens = run[r].tokens /\ Seeded(r).seed.dollars = run[r].dollars
           /\ Seeded(r).tokens = run[r].tokens /\ Seeded(r).dollars = run[r].dollars
           /\ Seeded(r).unpriced = ledger[r].unknown /\ Seeded(r).budget = run[r].budget
<1>1. run[r] \in Row
  BY DEF IInv, TypeOK
<1>2. run' = [run EXCEPT ![r] = [run[r] EXCEPT !.lease = l, !.expired = FALSE]]
  BY DEF ClaimRun
<1>3. \A q \in Runs \ {r} : run'[q] = run[q]
  BY <1>2 DEF IInv, TypeOK
<1>4. run'[r].tokens = run[r].tokens /\ run'[r].dollars = run[r].dollars
      /\ run'[r].budget = run[r].budget /\ run'[r].lease = l
  BY <1>1, <1>2 DEF IInv, TypeOK, Row
<1>5. /\ \A k \in Leases \ {l} : worker'[k] = worker[k] /\ acked'[k] = acked[k]
      /\ worker'[l] = Seeded(r) /\ acked'[l] = Seeded(r).seed
  BY DEF ClaimRun, IInv, TypeOK
<1>6. /\ worker[l].phase = "none"
      /\ UNCHANGED <<ledger, posts, handling, booked, resumed, causes>>
  BY DEF ClaimRun
<1> QED BY <1>3, <1>4, <1>5, <1>6 DEF Seeded

LEMMA ClaimBooks ==
    ASSUME IInv, NEW r \in Runs, NEW l \in Leases, ClaimRun(r, l)
    PROVE  Books'
<1> USE DEF IInv, Books
<1>1. /\ worker[l].phase = "none"
      /\ UNCHANGED <<ledger, posts, handling, booked, resumed, causes>>
      /\ \A q \in Runs \ {r} : run'[q] = run[q]
      /\ run'[r].tokens = run[r].tokens /\ run'[r].dollars = run[r].dollars
      /\ run'[r].lease = l
      /\ \A k \in Leases \ {l} : worker'[k] = worker[k] /\ acked'[k] = acked[k]
      /\ worker'[l].run = r /\ worker'[l].phase = "running"
      /\ worker'[l].seed.tokens = run[r].tokens /\ worker'[l].seed.dollars = run[r].dollars
      /\ acked'[l] = worker'[l].seed
  BY ClaimFacts
<1>2. /\ \A p \in posts : p.lease # l
      /\ \A h \in handling : h.report.lease # l
      /\ \A q \in Runs : run[q].lease # l
  BY <1>1 DEF Opened
<1>3. \A k \in Leases \ {l} : RunOf(k)' = RunOf(k)
  BY <1>1 DEF RunOf
<1>4. \A h \in handling : /\ h.report.lease \in Leases \ {l}
                          /\ RunOf(h.report.lease) \in Runs
                          /\ RunOf(h.report.lease)' = RunOf(h.report.lease)
                          /\ worker'[h.report.lease] = worker[h.report.lease]
  BY <1>1, <1>2, <1>3, Numbers
<1>5. Opened'
  <2>1. \A k \in Leases \ {l} : \A q \in Runs : run'[q].lease = k => run[q].lease = k
    BY <1>1
  <2> QED BY <1>1, <1>3, <2>1 DEF Opened, RunOf
<1>6. Held'
  <2>1. RunOf(l)' = r
    BY <1>1 DEF RunOf
  <2> QED BY <1>1, <1>2, <1>3, <2>1, Numbers DEF Held
<1>7. Reads'
  <2>1. \A h \in handling : run'[RunOf(h.report.lease)].lease = h.report.lease
                                => run[RunOf(h.report.lease)].lease = h.report.lease
    BY <1>1, <1>4
  <2>2. handling' = handling /\ ledger' = ledger /\ booked' = booked
    BY <1>1
  <2> QED BY <1>4, <2>1, <2>2 DEF Reads
<1>8. RowBooked'
  <2>1. \A q \in Runs \ {r} : run[q].lease # 0 => run[q].lease \in Leases \ {l}
    BY <1>2, Numbers
  <2>2. /\ run[r].tokens <= worker'[l].seed.tokens + booked[l].tokens
        /\ run[r].dollars <= worker'[l].seed.dollars + booked[l].dollars
    BY <1>1, Numbers
  <2> QED BY <1>1, <2>1, <2>2 DEF RowBooked
<1>9. AckBooked'
  <2>1. /\ acked'[l].tokens <= worker'[l].seed.tokens + booked[l].tokens
        /\ acked'[l].dollars <= worker'[l].seed.dollars + booked[l].dollars
    BY <1>1, Numbers
  <2> QED BY <1>1, <2>1 DEF AckBooked
<1>10. LedgerCoversRow'
  BY <1>1 DEF LedgerCoversRow
<1>11. ReadsCurrent'
  <2>1. Ordered' <=> Ordered
    BY <1>1 DEF Ordered
  <2>2. \A q \in Runs : run'[q].tokens = run[q].tokens /\ run'[q].dollars = run[q].dollars
    BY <1>1
  <2> QED BY <1>1, <1>4, <2>1, <2>2 DEF ReadsCurrent
<1>12. NoDoubleBooking'
  BY <1>1 DEF NoDoubleBooking, Ordered
<1> QED BY <1>5, <1>6, <1>7, <1>8, <1>9, <1>10, <1>11, <1>12

\* The updates of the other actions leave the run and the seed of every worker.
LEMMA WorkerKept ==
    ASSUME TypeOK, NEW l \in Leases, NEW new \in WorkerState,
           new.run = worker[l].run, new.seed = worker[l].seed,
           new.phase = "none" <=> worker[l].phase = "none",
           worker' = [worker EXCEPT ![l] = new]
    PROVE  \A k \in Leases : /\ worker'[k].run = worker[k].run
                             /\ worker'[k].seed = worker[k].seed
                             /\ worker'[k].phase = "none" <=> worker[k].phase = "none"
BY DEF TypeOK

LEMMA NextBooks == IInv /\ [Next]_vars => Books'
<1> SUFFICES ASSUME IInv, [Next]_vars PROVE Books'
  OBVIOUS
<1>1. ASSUME NEW l \in Leases, BudgetCheck(l) PROVE Books'
  <2> DEFINE halted == [worker[l] EXCEPT !.phase = "halting", !.left = 0]
             round == [worker[l] EXCEPT !.left = CallsPerRound]
  <2>1. worker[l] \in WorkerState /\ worker[l].phase = "running"
        /\ (worker' = [worker EXCEPT ![l] = halted] \/ worker' = [worker EXCEPT ![l] = round])
    BY <1>1 DEF BudgetCheck, IInv, TypeOK
  <2>2. /\ halted \in WorkerState /\ round \in WorkerState
        /\ halted.run = worker[l].run /\ halted.seed = worker[l].seed
        /\ round.run = worker[l].run /\ round.seed = worker[l].seed
        /\ halted.phase = "halting" /\ round.phase = "running"
    BY <2>1, WorkerUpdates DEF WorkerState, IInv
  <2> HIDE DEF halted, round
  <2>3. \A k \in Leases : /\ worker'[k].run = worker[k].run
                          /\ worker'[k].seed = worker[k].seed
                          /\ worker'[k].phase = "none" <=> worker[k].phase = "none"
    BY <2>1, <2>2, WorkerKept DEF IInv
  <2> QED BY <1>1, <2>3, QuietBooks DEF BudgetCheck
<1>2. ASSUME NEW l \in Leases, NEW c \in Calls, Track(l, c) PROVE Books'
  <2>1. \A k \in Leases : /\ worker'[k].run = worker[k].run
                          /\ worker'[k].seed = worker[k].seed
                          /\ worker'[k].phase = "none" <=> worker[k].phase = "none"
    BY <1>2, TrackType, WorkerKept DEF IInv
  <2> QED BY <1>2, <2>1, QuietBooks DEF Track
<1>3. ASSUME NEW l \in Leases, Heartbeat(l) PROVE Books'
  <2> DEFINE new == [worker[l] EXCEPT !.n = @ + 1]
  <2>1. /\ worker[l] \in WorkerState /\ worker[l].phase = "running"
        /\ worker' = [worker EXCEPT ![l] = new]
        /\ \A p \in posts' : p \in posts \/ p.lease = l
    BY <1>3 DEF Heartbeat, ReportOf, IInv, TypeOK
  <2>2. new \in WorkerState /\ new.run = worker[l].run /\ new.seed = worker[l].seed
        /\ new.phase = worker[l].phase
    BY <2>1, WorkerUpdates DEF WorkerState, IInv
  <2> HIDE DEF new
  <2>3. \A k \in Leases : /\ worker'[k].run = worker[k].run
                          /\ worker'[k].seed = worker[k].seed
                          /\ worker'[k].phase = "none" <=> worker[k].phase = "none"
    BY <2>1, <2>2, WorkerKept DEF IInv
  <2> QED BY <1>3, <2>1, <2>3, QuietBooks DEF Heartbeat
<1>4. ASSUME NEW l \in Leases, NEW kind \in Kinds, Finish(l, kind) PROVE Books'
  <2>1. /\ worker[l].phase \in {"running", "halting"}
        /\ worker' = [worker EXCEPT ![l] = Gone(l)]
        /\ \A p \in posts' : p \in posts \/ p.lease = l
    BY <1>4 DEF Finish, ReportOf
  <2>2. \A k \in Leases : /\ worker'[k].run = worker[k].run
                          /\ worker'[k].seed = worker[k].seed
                          /\ worker'[k].phase = "none" <=> worker[k].phase = "none"
    BY <2>1, WorkerUpdates, WorkerKept DEF IInv
  <2> QED BY <1>4, <2>1, <2>2, QuietBooks DEF Finish
<1>5. ASSUME NEW l \in Leases, Crash(l) PROVE Books'
  <2>1. worker[l].phase \in {"running", "halting"} /\ worker' = [worker EXCEPT ![l] = Gone(l)]
    BY <1>5 DEF Crash
  <2>2. \A k \in Leases : /\ worker'[k].run = worker[k].run
                          /\ worker'[k].seed = worker[k].seed
                          /\ worker'[k].phase = "none" <=> worker[k].phase = "none"
    BY <2>1, WorkerUpdates, WorkerKept DEF IInv
  <2> QED BY <1>5, <2>2, QuietBooks DEF Crash
<1>6. ASSUME NEW p \in posts, Handle(p) PROVE Books'
  BY <1>6, HandleBooks
<1>7. ASSUME NEW h \in handling, Commit(h) PROVE Books'
  BY <1>7, CommitBooks
<1>8. ASSUME NEW h \in handling, Conflict(h) PROVE Books'
  BY <1>8, QuietBooks DEF Conflict
<1>9. ASSUME NEW source \in {"worker_claim", "chat_post"}, ReadSpend(source) PROVE Books'
  BY <1>9, QuietBooks DEF ReadSpend
<1>10. ASSUME NEW r \in Runs, NEW l \in Leases, ClaimRun(r, l) PROVE Books'
  BY <1>10, ClaimBooks
<1>11. ASSUME NoClaim \/ ChatPost PROVE Books'
  BY <1>11, QuietBooks DEF NoClaim, ChatPost
<1>12. ASSUME NEW c \in Calls, NEW persisted \in BOOLEAN, ChatTurn(c, persisted) PROVE Books'
  BY <1>12, QuietBooks DEF ChatTurn
<1>13. ASSUME NEW r \in Runs, LeaseExpires(r) PROVE Books'
  <2>1. \A q \in Runs : /\ run'[q].tokens = run[q].tokens
                        /\ run'[q].dollars = run[q].dollars
                        /\ run'[q].lease = run[q].lease
    BY <1>13 DEF LeaseExpires, IInv, TypeOK, Row
  <2> QED BY <1>13, <2>1, QuietBooks DEF LeaseExpires
<1>14. ASSUME NEW r \in Runs, NEW b \in Budgets, UnlockRun(r, b) PROVE Books'
  <2>1. \A q \in Runs : /\ run'[q].tokens = run[q].tokens
                        /\ run'[q].dollars = run[q].dollars
                        /\ run'[q].lease \in {run[q].lease, 0}
    BY <1>14 DEF UnlockRun, IInv, TypeOK, Row
  <2> QED BY <1>14, <2>1, QuietBooks DEF UnlockRun
<1>15. ASSUME NewDay \/ UNCHANGED vars PROVE Books'
  BY <1>15, QuietBooks DEF NewDay, vars
<1> QED BY <1>1, <1>2, <1>3, <1>4, <1>5, <1>6, <1>7, <1>8, <1>9, <1>10, <1>11, <1>12,
          <1>13, <1>14, <1>15 DEF Next

-----------------------------------------------------------------------------
(***************************************************************************)
(* Unlocked runs                                                           *)
(***************************************************************************)

\* A run stays affordable when its row, its worker and its reports say what they said.
LEMMA StaysAffordable ==
    ASSUME NEW q, AffordableRun(q),
           ledger'[q].unknown = ledger[q].unknown,
           run'[q].budget = run[q].budget, run'[q].tokens = run[q].tokens,
           run'[q].dollars = run[q].dollars, run'[q].lease = run[q].lease,
           run[q].lease # 0 =>
             /\ worker'[run[q].lease].phase = "gone"
                \/ /\ worker'[run[q].lease].phase = worker[run[q].lease].phase
                   /\ worker'[run[q].lease].budget = worker[run[q].lease].budget
                   /\ worker'[run[q].lease].tokens = worker[run[q].lease].tokens
                   /\ worker'[run[q].lease].dollars = worker[run[q].lease].dollars
                   /\ worker'[run[q].lease].unpriced = worker[run[q].lease].unpriced
             /\ \A p \in Sent' : p.lease = run[q].lease =>
                   \/ p \in Sent
                   \/ /\ worker[run[q].lease].phase = "running"
                      /\ p.tokens = worker[run[q].lease].tokens
                      /\ p.dollars = worker[run[q].lease].dollars
                      /\ p.unpriced = worker[run[q].lease].unpriced
    PROVE  AffordableRun(q)'
<1> DEFINE l == run[q].lease
<1>1. Affords(run'[q].budget, run'[q].tokens, run'[q].dollars, ledger'[q].unknown)
  BY DEF AffordableRun
<1>2. ASSUME l # 0
      PROVE  /\ worker'[l].phase \in {"running", "gone"}
             /\ worker'[l].phase = "running" =>
                  /\ worker'[l].budget = run'[q].budget
                  /\ worker'[l].unpriced <= ledger'[q].unknown
                  /\ Affords(run'[q].budget, worker'[l].tokens, worker'[l].dollars,
                             worker'[l].unpriced)
             /\ \A p \in Sent' : p.lease = l =>
                  /\ p.unpriced <= ledger'[q].unknown
                  /\ Affords(run'[q].budget, p.tokens, p.dollars, p.unpriced)
  BY <1>2 DEF AffordableRun
<1> QED BY <1>1, <1>2 DEF AffordableRun, Affords

\* A stepping worker keeps the other workers, and every report is kept or is its own.
LEMMA OthersAffordable ==
    ASSUME IInv, Affordable, NEW l \in Leases, NEW new,
           UNCHANGED <<run, ledger, handling>>, resumed' \subseteq resumed,
           worker' = [worker EXCEPT ![l] = new],
           \A p \in posts' : p \in posts \/ p = ReportOf(l, p.kind),
           \A q \in resumed' : run[q].lease = l =>
               /\ new.phase = "gone"
                  \/ /\ new.phase = worker[l].phase /\ new.budget = worker[l].budget
                     /\ new.tokens = worker[l].tokens /\ new.dollars = worker[l].dollars
                     /\ new.unpriced = worker[l].unpriced
               /\ posts' \subseteq posts \/ worker[l].phase = "running"
    PROVE  Affordable'
<1> SUFFICES ASSUME NEW q \in resumed' PROVE AffordableRun(q)'
  BY DEF Affordable
<1>1. q \in Runs /\ AffordableRun(q) /\ run[q].lease \in Leases \cup {0}
  BY Numbers DEF IInv, Books, TypeOK, Affordable
<1>2. \A p \in Sent' : p \in Sent \/ p \in posts' \ posts
  BY DEF Sent
<1>3. \A p \in posts' \ posts :
         /\ p.lease = l /\ p.tokens = worker[l].tokens /\ p.dollars = worker[l].dollars
         /\ p.unpriced = worker[l].unpriced
  BY DEF ReportOf
<1>4. \A k \in Leases \ {l} : worker'[k] = worker[k]
  OBVIOUS
<1>5. worker'[l] = new
  BY DEF IInv, TypeOK
<1> QED BY <1>1, <1>2, <1>3, <1>4, <1>5, StaysAffordable

\* Nothing about an unlocked run moves.
LEMMA IdleAffordable ==
    ASSUME IInv,
           UNCHANGED <<ledger, worker>>, resumed' \subseteq resumed, Sent' \subseteq Sent,
           \A q \in Runs : /\ run'[q].budget = run[q].budget /\ run'[q].tokens = run[q].tokens
                           /\ run'[q].dollars = run[q].dollars /\ run'[q].lease = run[q].lease
    PROVE  Affordable'
<1> SUFFICES ASSUME NEW q \in resumed' PROVE AffordableRun(q)'
  BY DEF Affordable
<1>1. q \in Runs /\ AffordableRun(q)
  BY DEF IInv, TypeOK, Affordable
<1> QED BY <1>1, StaysAffordable

\* A worker that is within the budget of its run does not halt.
LEMMA WithinBudget ==
    ASSUME IInv, NEW l \in Leases, BudgetCheck(l), NEW q \in resumed, run[q].lease = l
    PROVE  ~OverBudget(worker[l])
<1>1. /\ worker[l].phase = "running" /\ AffordableRun(q) /\ q \in Runs /\ l # 0
  BY Numbers DEF BudgetCheck, IInv, Books, Affordable, TypeOK
<1>2. /\ worker[l].budget = run[q].budget
      /\ Affords(run[q].budget, worker[l].tokens, worker[l].dollars, worker[l].unpriced)
  BY <1>1 DEF AffordableRun
<1>3. /\ worker[l].tokens \in Nat /\ worker[l].dollars \in Nat /\ worker[l].unpriced \in Nat
      /\ worker[l].budget.tokens \in Nat /\ worker[l].budget.dollars \in Nat
  BY BudgetsAssumption DEF IInv, TypeOK, WorkerState, Money
<1>4. Over(worker[l].dollars, worker[l].unpriced) \in Nat
  BY <1>3 DEF Over
<1> QED BY <1>2, <1>3, <1>4 DEF Affords, OverBudget, EnforceableDollars

LEMMA CommitAffordable ==
    ASSUME IInv, NEW h \in handling, Commit(h)
    PROVE  Affordable'
<1> DEFINE p == h.report
           r == RunOf(p.lease)
<1> SUFFICES ASSUME NEW q \in resumed' PROVE AffordableRun(q)'
  BY DEF Affordable
<1>1. /\ q \in Runs /\ q \in resumed /\ AffordableRun(q)
      /\ p \in Sent /\ p.lease \in Leases /\ r \in Runs /\ 0 \notin Leases
      /\ h.unknown \in Nat /\ p.unpriced \in Nat /\ p.tokens \in Nat /\ p.dollars \in Nat
  BY Numbers DEF IInv, Books, TypeOK, Affordable, Commit, Sent
<1>2. /\ run[r].lease = p.lease
      /\ handling' = handling \ {h} /\ UNCHANGED <<worker, posts>>
      /\ \A k \in Runs \ {r} : run'[k] = run[k] /\ ledger'[k] = ledger[k]
      /\ run'[r].tokens = p.tokens /\ run'[r].dollars = p.dollars
      /\ run'[r].budget = run[r].budget
      /\ run'[r].lease \in {p.lease, 0}
      /\ ledger'[r].unknown = ledger[r].unknown + h.unknown
  BY CommitFacts
<1>3. Sent' \subseteq Sent
  BY <1>2 DEF Sent
<1>4. CASE q # r
  BY <1>1, <1>2, <1>3, <1>4, StaysAffordable
<1>5. CASE q = r
  <2> HIDE DEF p, r
  <2> DEFINE w == worker[p.lease]
  <2>1. /\ w.phase \in {"running", "gone"}
        /\ w.phase = "running" =>
             /\ w.budget = run[r].budget /\ w.unpriced <= ledger[r].unknown
             /\ Affords(run[r].budget, w.tokens, w.dollars, w.unpriced)
        /\ \A o \in Sent : o.lease = p.lease =>
             /\ o.unpriced <= ledger[r].unknown
             /\ Affords(run[r].budget, o.tokens, o.dollars, o.unpriced)
    BY <1>1, <1>2, <1>5 DEF AffordableRun
  <2>2. /\ ledger[r].unknown \in Nat /\ ledger'[r].unknown >= ledger[r].unknown
        /\ ledger'[r].unknown \in Nat /\ run[r].budget.dollars \in Nat
    BY <1>1, <1>2, Numbers, BudgetsAssumption DEF IInv, Books, TypeOK, Row, Money
  <2>3. Affords(run[r].budget, p.tokens, p.dollars, ledger'[r].unknown)
    <3>1. p.unpriced <= ledger'[r].unknown
          /\ Affords(run[r].budget, p.tokens, p.dollars, p.unpriced)
      BY <1>1, <2>1, <2>2
    <3> QED BY <1>1, <2>2, <3>1 DEF Affords, Over
  <2>4. w.unpriced \in Nat /\ \A o \in Sent : o.unpriced \in Nat
    BY <1>1 DEF IInv, TypeOK, WorkerState, Sent, Report, Reading
  <2>5. /\ w.phase = "running" => w.unpriced <= ledger'[r].unknown
        /\ \A o \in Sent : o.lease = p.lease => o.unpriced <= ledger'[r].unknown
    BY <2>1, <2>2, <2>4
  <2>6. run'[r].budget = run[r].budget /\ worker' = worker
    BY <1>2
  <2>7. run'[r].lease # 0 => run'[r].lease = p.lease
    BY <1>2
  <2> DEFINE budget == run[q].budget
             unknown == ledger'[q].unknown
             lease == p.lease
  <2>8. /\ run'[q].budget = budget /\ run'[q].lease \in {lease, 0}
        /\ Affords(budget, run'[q].tokens, run'[q].dollars, unknown)
    BY <1>2, <1>5, <2>3, <2>6
  <2>9. /\ worker'[lease].phase \in {"running", "gone"}
        /\ worker'[lease].phase = "running" =>
             /\ worker'[lease].budget = budget /\ worker'[lease].unpriced <= unknown
             /\ Affords(budget, worker'[lease].tokens, worker'[lease].dollars,
                        worker'[lease].unpriced)
        /\ \A o \in Sent' : o.lease = lease =>
             /\ o.unpriced <= unknown
             /\ Affords(budget, o.tokens, o.dollars, o.unpriced)
    BY <1>3, <1>5, <2>1, <2>5, <2>6
  <2> HIDE DEF budget, lease
  <2> QED BY <2>8, <2>9 DEF AffordableRun, Affords
<1> QED BY <1>4, <1>5

LEMMA ClaimAffordable ==
    ASSUME IInv, NEW r \in Runs, NEW l \in Leases, ClaimRun(r, l)
    PROVE  Affordable'
<1> SUFFICES ASSUME NEW q \in resumed' PROVE AffordableRun(q)'
  BY DEF Affordable
<1>1. /\ worker[l].phase = "none"
      /\ UNCHANGED <<ledger, posts, handling, resumed>>
      /\ \A k \in Runs \ {r} : run'[k] = run[k]
      /\ run'[r].tokens = run[r].tokens /\ run'[r].dollars = run[r].dollars
      /\ run'[r].budget = run[r].budget /\ run'[r].lease = l
      /\ \A k \in Leases \ {l} : worker'[k] = worker[k]
      /\ worker'[l].phase = "running"
      /\ worker'[l].tokens = run[r].tokens /\ worker'[l].dollars = run[r].dollars
      /\ worker'[l].unpriced = ledger[r].unknown /\ worker'[l].budget = run[r].budget
  BY ClaimFacts
<1>2. /\ \A p \in Sent : p.lease # l
      /\ \A k \in Runs : run[k].lease # l
  BY <1>1 DEF IInv, Books, Opened, Sent
<1>3. q \in Runs /\ AffordableRun(q) /\ Sent' = Sent /\ run[q].lease \in Leases \cup {0}
      /\ ledger[q].unknown \in Nat
  BY <1>1, Numbers DEF IInv, Books, TypeOK, Affordable, Sent
<1>4. CASE q # r
  BY <1>1, <1>2, <1>3, <1>4, StaysAffordable
<1>5. CASE q = r
  <2>1. Affords(run[r].budget, run[r].tokens, run[r].dollars, ledger[r].unknown)
    BY <1>3, <1>5 DEF AffordableRun
  <2>2. ledger'[r].unknown = ledger[r].unknown
    BY <1>1
  <2>3. worker'[l].unpriced <= ledger'[r].unknown
    BY <1>1, <1>3, <1>5
  <2>4. AffordableRun(r)'
    BY <1>1, <1>2, <1>3, <2>1, <2>2, <2>3 DEF AffordableRun, Affords
  <2> QED BY <1>5, <2>4
<1> QED BY <1>4, <1>5

LEMMA UnlockAffordable ==
    ASSUME IInv, NEW r \in Runs, NEW b \in Budgets, UnlockRun(r, b)
    PROVE  Affordable'
<1> SUFFICES ASSUME NEW q \in resumed' PROVE AffordableRun(q)'
  BY DEF Affordable
<1>1. /\ b.tokens > run[r].tokens /\ b.dollars > Over(run[r].dollars, ledger[r].unknown)
      /\ UNCHANGED <<ledger, worker, posts, handling>> /\ resumed' = resumed \cup {r}
      /\ run' = [run EXCEPT ![r] = [run[r] EXCEPT !.status = "active", !.budget = b,
                                                  !.lease = 0, !.expired = FALSE]]
  BY DEF UnlockRun
<1>2. run[r] \in Row /\ q \in Runs /\ b.tokens \in Nat /\ b.dollars \in Nat
      /\ run[r].tokens \in Nat /\ run[r].dollars \in Nat /\ ledger[r].unknown \in Nat
  BY <1>1, BudgetsAssumption DEF IInv, TypeOK, Row, Money
<1>3. CASE q # r
  <2>1. run'[q] = run[q] /\ AffordableRun(q) /\ Sent' = Sent
    BY <1>1, <1>2, <1>3 DEF IInv, TypeOK, Affordable, Sent
  <2> QED BY <1>1, <2>1, StaysAffordable
<1>4. CASE q = r
  <2>1. /\ run'[r].budget = b /\ run'[r].lease = 0
        /\ run'[r].tokens = run[r].tokens /\ run'[r].dollars = run[r].dollars
    BY <1>1, <1>2 DEF IInv, TypeOK, Row
  <2>2. Affords(b, run[r].tokens, run[r].dollars, ledger[r].unknown)
    <3>1. Over(run[r].dollars, ledger[r].unknown) \in Nat
      BY <1>2 DEF Over
    <3> QED BY <1>1, <1>2, <3>1 DEF Affords
  <2>3. ledger' = ledger
    BY <1>1
  <2>4. AffordableRun(r)'
    BY <2>1, <2>2, <2>3 DEF AffordableRun, Affords
  <2> QED BY <1>4, <2>4
<1> QED BY <1>3, <1>4

LEMMA NextAffordable == IInv /\ [Next]_vars => Affordable'
<1> SUFFICES ASSUME IInv, [Next]_vars PROVE Affordable'
  OBVIOUS
<1>1. ASSUME NEW l \in Leases, BudgetCheck(l) PROVE Affordable'
  <2> DEFINE halted == [worker[l] EXCEPT !.phase = "halting", !.left = 0]
             round == [worker[l] EXCEPT !.left = CallsPerRound]
  <2>1. /\ worker[l] \in WorkerState
        /\ worker' = [worker EXCEPT ![l] = IF OverBudget(worker[l]) THEN halted ELSE round]
        /\ UNCHANGED <<run, ledger, handling, posts, resumed>>
    BY <1>1 DEF BudgetCheck, IInv, TypeOK
  <2>2. /\ round.phase = worker[l].phase /\ round.budget = worker[l].budget
        /\ round.tokens = worker[l].tokens /\ round.dollars = worker[l].dollars
        /\ round.unpriced = worker[l].unpriced
    BY <2>1 DEF WorkerState
  <2>3. \A q \in resumed : run[q].lease = l => ~OverBudget(worker[l])
    BY <1>1, WithinBudget
  <2> HIDE DEF halted, round
  <2>4. CASE OverBudget(worker[l])
    BY <2>1, <2>3, <2>4, OthersAffordable DEF IInv
  <2>5. CASE ~OverBudget(worker[l])
    BY <2>1, <2>2, <2>5, OthersAffordable DEF IInv
  <2> QED BY <2>4, <2>5
<1>2. ASSUME NEW l \in Leases, NEW c \in Calls, Track(l, c) PROVE Affordable'
  <2>1. worker' = [worker EXCEPT ![l] = worker'[l]]
    BY <1>2, TrackType DEF IInv
  <2>2. \A q \in resumed' : run[q].lease # l
    BY <1>2, Numbers DEF Track, IInv, Books, Held, RunOf, TypeOK
  <2>3. UNCHANGED <<run, ledger, handling, posts>> /\ resumed' \subseteq resumed
    BY <1>2 DEF Track
  <2> DEFINE new == worker'[l]
  <2>4. worker' = [worker EXCEPT ![l] = new]
    BY <2>1
  <2> HIDE DEF new
  <2> QED BY <2>2, <2>3, <2>4, OthersAffordable DEF IInv
<1>3. ASSUME NEW l \in Leases, Heartbeat(l) PROVE Affordable'
  <2> DEFINE new == [worker[l] EXCEPT !.n = @ + 1]
  <2>1. /\ worker[l] \in WorkerState /\ worker[l].phase = "running"
        /\ worker' = [worker EXCEPT ![l] = new]
        /\ UNCHANGED <<run, ledger, handling, resumed>>
        /\ posts' = posts \cup {ReportOf(l, "heartbeat")}
    BY <1>3 DEF Heartbeat, IInv, TypeOK
  <2>2. /\ new.phase = worker[l].phase /\ new.budget = worker[l].budget
        /\ new.tokens = worker[l].tokens /\ new.dollars = worker[l].dollars
        /\ new.unpriced = worker[l].unpriced
    BY <2>1 DEF WorkerState
  <2>3. \A p \in posts' : p \in posts \/ p = ReportOf(l, p.kind)
    BY <2>1 DEF ReportOf
  <2> HIDE DEF new
  <2> QED BY <2>1, <2>2, <2>3, OthersAffordable DEF IInv
<1>4. ASSUME NEW l \in Leases, NEW kind \in Kinds, Finish(l, kind) PROVE Affordable'
  <2>1. /\ worker' = [worker EXCEPT ![l] = Gone(l)]
        /\ UNCHANGED <<run, ledger, handling, resumed>>
        /\ posts' = posts \cup {ReportOf(l, kind)}
        /\ worker[l].phase \in {"running", "halting"}
    BY <1>4 DEF Finish
  <2>2. \A p \in posts' : p \in posts \/ p = ReportOf(l, p.kind)
    BY <2>1 DEF ReportOf
  <2>3. \A q \in resumed : run[q].lease = l => worker[l].phase \in {"running", "gone"}
    BY Numbers DEF IInv, Books, Affordable, AffordableRun
  <2> DEFINE new == Gone(l)
  <2>4. new.phase = "gone"
    BY WorkerUpdates DEF IInv
  <2>5. worker' = [worker EXCEPT ![l] = new]
    BY <2>1
  <2>6. \A q \in resumed : run[q].lease = l => worker[l].phase = "running"
    BY <2>1, <2>3
  <2> HIDE DEF new
  <2>7. UNCHANGED <<run, ledger, handling>> /\ resumed' \subseteq resumed
    BY <2>1
  <2>8. \A q \in resumed' : run[q].lease = l =>
          /\ new.phase = "gone"
             \/ /\ new.phase = worker[l].phase /\ new.budget = worker[l].budget
                /\ new.tokens = worker[l].tokens /\ new.dollars = worker[l].dollars
                /\ new.unpriced = worker[l].unpriced
          /\ posts' \subseteq posts \/ worker[l].phase = "running"
    BY <2>4, <2>6, <2>7
  <2> QED BY <2>2, <2>5, <2>7, <2>8, OthersAffordable DEF IInv
<1>5. ASSUME NEW l \in Leases, Crash(l) PROVE Affordable'
  <2> DEFINE new == Gone(l)
  <2>1. UNCHANGED <<run, ledger, handling, posts, resumed>>
        /\ worker' = [worker EXCEPT ![l] = new]
    BY <1>5 DEF Crash
  <2>2. new.phase = "gone"
    BY WorkerUpdates DEF IInv
  <2> HIDE DEF new
  <2> QED BY <2>1, <2>2, OthersAffordable DEF IInv
<1>6. ASSUME NEW p \in posts, Handle(p) PROVE Affordable'
  <2>1. RecordSpendDelta(p).report = p
    BY DEF RecordSpendDelta
  <2>2. Sent' \subseteq Sent
    BY <1>6, <2>1 DEF Handle, Sent
  <2> QED BY <1>6, <2>2, IdleAffordable DEF Handle
<1>7. ASSUME NEW h \in handling, Commit(h) PROVE Affordable'
  BY <1>7, CommitAffordable
<1>8. ASSUME NEW h \in handling, Conflict(h) PROVE Affordable'
  <2>1. Sent' \subseteq Sent
    BY <1>8 DEF Conflict, Sent
  <2> QED BY <1>8, <2>1, IdleAffordable DEF Conflict
<1>9. ASSUME NEW r \in Runs, NEW l \in Leases, ClaimRun(r, l) PROVE Affordable'
  BY <1>9, ClaimAffordable
<1>10. ASSUME \/ \E source \in {"worker_claim", "chat_post"} : ReadSpend(source)
              \/ NoClaim \/ ChatPost \/ NewDay \/ UNCHANGED vars
              \/ \E c \in Calls, persisted \in BOOLEAN : ChatTurn(c, persisted)
       PROVE  Affordable'
  <2>1. UNCHANGED <<run, ledger, worker, posts, handling, resumed>>
    BY <1>10 DEF ReadSpend, NoClaim, ChatPost, NewDay, ChatTurn, vars
  <2>2. Sent' = Sent
    BY <2>1 DEF Sent
  <2> QED BY <2>1, <2>2, IdleAffordable
<1>11. ASSUME NEW r \in Runs, LeaseExpires(r) PROVE Affordable'
  <2>1. \A q \in Runs : /\ run'[q].budget = run[q].budget /\ run'[q].tokens = run[q].tokens
                        /\ run'[q].dollars = run[q].dollars /\ run'[q].lease = run[q].lease
    BY <1>11 DEF LeaseExpires, IInv, TypeOK, Row
  <2>2. UNCHANGED <<ledger, worker, posts, handling, resumed>> /\ Sent' = Sent
    BY <1>11 DEF LeaseExpires, Sent
  <2> QED BY <2>1, <2>2, IdleAffordable
<1>12. ASSUME NEW r \in Runs, NEW b \in Budgets, UnlockRun(r, b) PROVE Affordable'
  BY <1>12, UnlockAffordable
<1> QED BY <1>1, <1>2, <1>3, <1>4, <1>5, <1>6, <1>7, <1>8, <1>9, <1>10, <1>11, <1>12 DEF Next

-----------------------------------------------------------------------------
(***************************************************************************)
(* The cap of a run                                                        *)
(***************************************************************************)

\* A count of spend that passes a budget by less than n calls.
Capped(b, tokens, dollars, unpriced, n) ==
    /\ tokens < b.tokens + n * CallTokens
    /\ CostTracking => Over(dollars, unpriced) < b.dollars + n * CallDollars

\* A worker has the budget of its row, and passes it by the calls of this round.
WorkerCapped(w, b) ==
    w.phase \in {"running", "halting"} =>
        /\ w.budget = b
        /\ Capped(b, w.tokens, w.dollars, w.unpriced, CallsPerRound - w.left)

\* What is stored of a run, what the worker of its lease has counted and what that
\* worker has reported pass the budget by less than a round.
CappedRun(r) ==
    /\ run[r].tokens < run[r].budget.tokens + RoundTokens
    /\ CostTracking => ledger[r].priced < run[r].budget.dollars + RoundDollars
    /\ run[r].lease # 0 =>
         /\ WorkerCapped(worker[run[r].lease], run[r].budget)
         /\ \A p \in Sent : p.lease = run[r].lease =>
              Capped(run[r].budget, p.tokens, p.dollars, p.unpriced, CallsPerRound)

\* A handler splits the dollars of its report by what the ledger still says.
SplitsCurrent ==
    \A h \in handling :
        h.unknown = Smaller(Over(h.report.unpriced, ledger[RunOf(h.report.lease)].unknown),
                            h.dollars)

Cap == Ordered => SplitsCurrent /\ \A r \in Runs : CappedRun(r)

\* The dearest call is one of the calls.
LEMMA DearestCall ==
    /\ CallTokens \in Nat /\ CallDollars \in Nat
    /\ \A c \in Calls : c.tokens <= CallTokens /\ c.dollars <= CallDollars
<1>1. \E m \in {c.tokens : c \in Calls} : \A c \in {d.tokens : d \in Calls} : c <= m
  BY CallsAssumption
<1>2. /\ CallTokens \in {c.tokens : c \in Calls}
      /\ \A c \in {d.tokens : d \in Calls} : c <= CallTokens
  BY <1>1 DEF CallTokens, Dearest
<1>3. \E m \in {c.dollars : c \in Calls} : \A c \in {d.dollars : d \in Calls} : c <= m
  BY CallsAssumption
<1>4. /\ CallDollars \in {c.dollars : c \in Calls}
      /\ \A c \in {d.dollars : d \in Calls} : c <= CallDollars
  BY <1>3 DEF CallDollars, Dearest
<1>5. \A c \in Calls : c.tokens \in Nat /\ c.dollars \in Nat
  BY CallsAssumption
<1> QED BY <1>2, <1>4, <1>5

\* Rounds and calls are counted in natural numbers.
LEMMA RoundFacts ==
    /\ RoundTokens = CallsPerRound * CallTokens /\ RoundDollars = CallsPerRound * CallDollars
    /\ RoundTokens \in Nat /\ RoundDollars \in Nat
<1>1. RoundTokens = CallsPerRound * CallTokens /\ RoundDollars = CallsPerRound * CallDollars
  BY DEF RoundTokens, RoundDollars, CallTokens, CallDollars
<1>2. CallsPerRound * CallTokens \in Nat /\ CallsPerRound * CallDollars \in Nat
  BY DearestCall, BoundsAssumption
<1> QED BY <1>1, <1>2

LEMMA TimesFacts ==
    ASSUME NEW d \in Nat, NEW n \in Nat, NEW m \in Nat
    PROVE  /\ n * d \in Nat /\ 0 * d = 0 /\ (n + 1) * d = n * d + d
           /\ n <= m => n * d <= m * d
OBVIOUS

\* More calls allow more.
LEMMA CappedMore ==
    ASSUME NEW b \in Budgets, NEW tokens \in Nat, NEW dollars \in Nat, NEW unpriced \in Nat,
           NEW n \in Nat, NEW m \in Nat, n <= m, Capped(b, tokens, dollars, unpriced, n)
    PROVE  Capped(b, tokens, dollars, unpriced, m)
<1>1. b.tokens \in Nat /\ b.dollars \in Nat
  BY BudgetsAssumption DEF Money
<1>2. /\ n * CallTokens \in Nat /\ m * CallTokens \in Nat /\ n * CallTokens <= m * CallTokens
      /\ n * CallDollars \in Nat /\ m * CallDollars \in Nat
      /\ n * CallDollars <= m * CallDollars
  BY DearestCall, TimesFacts
<1>3. Over(dollars, unpriced) \in Nat
  BY DEF Over
<1> HIDE DEF CallTokens, CallDollars
<1> QED BY <1>1, <1>2, <1>3 DEF Capped

\* A call costs no more than the dearest one.
LEMMA CappedCall ==
    ASSUME NEW b \in Budgets, NEW tokens \in Nat, NEW dollars \in Nat, NEW unpriced \in Nat,
           NEW n \in Nat, Capped(b, tokens, dollars, unpriced, n), NEW c \in Calls
    PROVE  Capped(b, tokens + c.tokens, dollars + c.dollars,
                  IF c.unpriced THEN unpriced + c.dollars ELSE unpriced, n + 1)
<1> DEFINE known == IF c.unpriced THEN unpriced + c.dollars ELSE unpriced
<1>1. /\ b.tokens \in Nat /\ b.dollars \in Nat /\ c.tokens \in Nat /\ c.dollars \in Nat
      /\ c.tokens <= CallTokens /\ c.dollars <= CallDollars
      /\ CallTokens \in Nat /\ CallDollars \in Nat
  BY BudgetsAssumption, CallsAssumption, DearestCall DEF Money
<1>2. /\ n * CallTokens \in Nat /\ (n + 1) * CallTokens = n * CallTokens + CallTokens
      /\ n * CallDollars \in Nat /\ (n + 1) * CallDollars = n * CallDollars + CallDollars
  BY <1>1, TimesFacts
<1>3. tokens + c.tokens < b.tokens + (n + 1) * CallTokens
  BY <1>1, <1>2 DEF Capped
<1>4. /\ Over(dollars + c.dollars, known) <= Over(dollars, unpriced) + c.dollars
      /\ Over(dollars + c.dollars, known) \in Nat /\ Over(dollars, unpriced) \in Nat
  BY <1>1 DEF Over
<1> HIDE DEF known
<1>5. CostTracking => Over(dollars + c.dollars, known) < b.dollars + (n + 1) * CallDollars
  BY <1>1, <1>2, <1>4 DEF Capped
<1> QED BY <1>3, <1>5 DEF Capped, known

\* A run stays capped when its row and its ledger say what they said, and its worker
\* and its reports are capped.
LEMMA StaysCapped ==
    ASSUME NEW q, CappedRun(q),
           ledger'[q].priced = ledger[q].priced,
           run'[q].budget = run[q].budget, run'[q].tokens = run[q].tokens,
           run'[q].lease = run[q].lease,
           run[q].lease # 0 =>
             /\ WorkerCapped(worker'[run[q].lease], run[q].budget)
             /\ \A p \in Sent' : p.lease = run[q].lease =>
                  p \in Sent \/ Capped(run[q].budget, p.tokens, p.dollars, p.unpriced,
                                       CallsPerRound)
    PROVE  CappedRun(q)'
<1>1. /\ run'[q].tokens < run'[q].budget.tokens + RoundTokens
      /\ CostTracking => ledger'[q].priced < run'[q].budget.dollars + RoundDollars
  BY DEF CappedRun
<1> DEFINE b == run[q].budget
           l == run[q].lease
<1>2. ASSUME l # 0
      PROVE  /\ WorkerCapped(worker'[l], b)
             /\ \A p \in Sent' : p.lease = l =>
                  Capped(b, p.tokens, p.dollars, p.unpriced, CallsPerRound)
  BY <1>2 DEF CappedRun
<1>3. run'[q].budget = b /\ run'[q].lease = l
  OBVIOUS
<1> HIDE DEF b, l
<1>4. run'[q].lease # 0 =>
        /\ WorkerCapped(worker'[run'[q].lease], run'[q].budget)
        /\ \A p \in Sent' : p.lease = run'[q].lease =>
             Capped(run'[q].budget, p.tokens, p.dollars, p.unpriced, CallsPerRound)
  BY <1>2, <1>3
<1> QED BY <1>1, <1>4 DEF CappedRun, WorkerCapped, Capped, RoundTokens, RoundDollars,
                          CallTokens, CallDollars

\* The splits stand while no handler comes and no ledger moves.
LEMMA StaysSplit ==
    ASSUME IInv, SplitsCurrent, handling' \subseteq handling, ledger' = ledger,
           \A l \in Leases : worker'[l].run = worker[l].run \/ worker[l].phase = "none"
    PROVE  SplitsCurrent'
<1> SUFFICES ASSUME NEW h \in handling'
             PROVE  h.unknown = Smaller(Over(h.report.unpriced,
                                             ledger[RunOf(h.report.lease)'].unknown), h.dollars)
  BY DEF SplitsCurrent
<1>1. h \in handling /\ h.report.lease \in Leases /\ worker[h.report.lease].phase # "none"
  BY Numbers DEF IInv, Books
<1>2. RunOf(h.report.lease)' = RunOf(h.report.lease)
  BY <1>1 DEF RunOf
<1> QED BY <1>1, <1>2 DEF SplitsCurrent

\* The counts of a worker.
LEMMA WorkerNumbers ==
    ASSUME TypeOK, NEW l \in Leases
    PROVE  /\ worker[l] \in WorkerState /\ worker[l].budget \in Budgets
           /\ worker[l].tokens \in Nat /\ worker[l].dollars \in Nat
           /\ worker[l].unpriced \in Nat /\ worker[l].left \in 0..CallsPerRound
           /\ CallsPerRound - worker[l].left \in Nat
           /\ CallsPerRound - worker[l].left <= CallsPerRound /\ CallsPerRound \in Nat
<1>1. /\ worker[l] \in WorkerState /\ worker[l].budget \in Budgets
      /\ worker[l].tokens \in Nat /\ worker[l].dollars \in Nat
      /\ worker[l].unpriced \in Nat /\ worker[l].left \in 0..CallsPerRound
  BY DEF TypeOK, WorkerState
<1> QED BY <1>1, BoundsAssumption

\* A step of a worker that keeps it capped keeps every run capped.
LEMMA OthersCapped ==
    ASSUME IInv, Cap, NEW l \in Leases, NEW new,
           UNCHANGED <<run, ledger, handling, causes>>,
           worker' = [worker EXCEPT ![l] = new], new.run = worker[l].run,
           \A b \in Budgets : WorkerCapped(worker[l], b) => WorkerCapped(new, b),
           \A p \in posts' : \/ p \in posts
                             \/ /\ worker[l].phase \in {"running", "halting"}
                                /\ p = ReportOf(l, p.kind)
    PROVE  Cap'
<1> SUFFICES ASSUME Ordered PROVE (SplitsCurrent /\ \A q \in Runs : CappedRun(q))'
  BY DEF Cap, Ordered
<1>1. worker'[l] = new /\ \A k \in Leases \ {l} : worker'[k] = worker[k]
  BY DEF IInv, TypeOK
<1>2. SplitsCurrent'
  BY <1>1, StaysSplit DEF Cap
<1>3. ASSUME NEW q \in Runs PROVE CappedRun(q)'
  <2>1. /\ CappedRun(q) /\ run[q].lease \in Leases \cup {0} /\ run[q].budget \in Budgets
        /\ Sent' = posts' \cup {h.report : h \in handling}
    BY <1>3, Numbers DEF Cap, IInv, Books, TypeOK, Row, Sent
  <2>2. ASSUME run[q].lease # 0 PROVE WorkerCapped(worker'[run[q].lease], run[q].budget)
    BY <1>1, <2>1, <2>2 DEF CappedRun
  <2>3. ASSUME run[q].lease # 0, NEW p \in Sent', p.lease = run[q].lease, p \notin Sent
        PROVE  Capped(run[q].budget, p.tokens, p.dollars, p.unpriced, CallsPerRound)
    <3>1. p \in posts' /\ p \notin posts
      BY <2>1, <2>3 DEF Sent
    <3>2. /\ worker[l].phase \in {"running", "halting"}
          /\ p.lease = l /\ p.tokens = worker[l].tokens /\ p.dollars = worker[l].dollars
          /\ p.unpriced = worker[l].unpriced
      BY <3>1 DEF ReportOf
    <3>3. Capped(run[q].budget, worker[l].tokens, worker[l].dollars, worker[l].unpriced,
                 CallsPerRound - worker[l].left)
      BY <2>1, <2>3, <3>2 DEF CappedRun, WorkerCapped
    <3>4. Capped(run[q].budget, worker[l].tokens, worker[l].dollars, worker[l].unpriced,
                 CallsPerRound)
      BY <2>1, <3>3, WorkerNumbers, CappedMore DEF IInv
    <3> QED BY <3>2, <3>4
  <2> QED BY <2>1, <2>2, <2>3, StaysCapped
<1> QED BY <1>2, <1>3

\* No worker, no ledger and no report moves.
LEMMA IdleCapped ==
    ASSUME IInv, Cap, UNCHANGED <<ledger, worker>>, causes \subseteq causes',
           handling' \subseteq handling, Sent' \subseteq Sent,
           \A q \in Runs : /\ run'[q].budget = run[q].budget /\ run'[q].tokens = run[q].tokens
                           /\ run'[q].lease = run[q].lease
    PROVE  Cap'
<1> SUFFICES ASSUME Ordered' PROVE (SplitsCurrent /\ \A q \in Runs : CappedRun(q))'
  BY DEF Cap
<1>1. SplitsCurrent /\ \A q \in Runs : CappedRun(q)
  BY DEF Cap, Ordered
<1>2. SplitsCurrent'
  BY <1>1, StaysSplit
<1>3. ASSUME NEW q \in Runs PROVE CappedRun(q)'
  BY <1>1, <1>3, StaysCapped DEF CappedRun
<1> QED BY <1>2, <1>3

LEMMA HandleCapped ==
    ASSUME IInv, Cap, NEW p \in posts, Handle(p)
    PROVE  Cap'
<1> DEFINE r == RunOf(p.lease)
           new == RecordSpendDelta(p)
<1> SUFFICES ASSUME Ordered' PROVE (SplitsCurrent /\ \A q \in Runs : CappedRun(q))'
  BY DEF Cap
<1>1. /\ p \in Report /\ p.lease \in Leases /\ r \in Runs
      /\ UNCHANGED <<run, ledger, worker>> /\ causes \subseteq causes'
      /\ posts' = posts \ {p} /\ handling' = handling \cup {new}
  BY DEF Handle, IInv, Books, TypeOK, Opened, Report
<1>2. SplitsCurrent /\ \A q \in Runs : CappedRun(q)
  BY <1>1 DEF Cap, Ordered
<1>3. /\ new.report = p
      /\ new.unknown = Smaller(Over(p.unpriced, ledger[r].unknown), new.dollars)
  BY DEF RecordSpendDelta, RunOf
<1> HIDE DEF new
<1>4. SplitsCurrent'
  BY <1>1, <1>2, <1>3 DEF SplitsCurrent, RunOf
<1>5. Sent' \subseteq Sent
  BY <1>1, <1>3 DEF Sent
<1>6. ASSUME NEW q \in Runs PROVE CappedRun(q)'
  BY <1>1, <1>2, <1>5, <1>6, StaysCapped DEF CappedRun
<1> QED BY <1>4, <1>6

\* What a handler adds to the priced dollars of a run: nothing, or what brings them
\* to what the worker counts against its budget.
LEMMA PricedSplit ==
    ASSUME NEW priced \in Nat, NEW unknown \in Nat, NEW dollars \in Nat, NEW unpriced \in Nat,
           priced + unknown <= dollars
    PROVE  LET more == dollars - (priced + unknown)
               guess == Smaller(Over(unpriced, unknown), more)
           IN  \/ priced + (more - guess) = priced
               \/ priced + (more - guess) <= Over(dollars, unpriced)
BY DEF Smaller, Over

LEMMA CommitCapped ==
    ASSUME IInv, Cap, NEW h \in handling, Commit(h)
    PROVE  Cap'
<1> DEFINE p == h.report
           r == RunOf(p.lease)
<1> SUFFICES ASSUME Ordered' PROVE (SplitsCurrent /\ \A q \in Runs : CappedRun(q))'
  BY DEF Cap
<1>0. TypeOK'
  BY NextTypeOK DEF IInv, Books, Next
<1>1. /\ p \in Sent /\ p.lease \in Leases /\ r \in Runs /\ 0 \notin Leases
      /\ h.unknown \in Nat /\ h.dollars \in Nat
      /\ p.unpriced \in Nat /\ p.tokens \in Nat /\ p.dollars \in Nat
      /\ run[r].dollars \in Nat /\ ledger[r].priced \in Nat /\ ledger[r].unknown \in Nat
  BY Numbers DEF IInv, Books, Sent
<1>2. /\ run[r].lease = p.lease
      /\ handling' = handling \ {h} /\ UNCHANGED <<worker, posts>>
      /\ causes \subseteq causes'
      /\ "overtaken" \notin causes' => p.dollars >= run[r].dollars
      /\ \A k \in Runs \ {r} : run'[k] = run[k] /\ ledger'[k] = ledger[k]
      /\ run'[r].tokens = p.tokens
      /\ run'[r].budget = run[r].budget
      /\ run'[r].lease \in {p.lease, 0}
      /\ ledger'[r].unknown = ledger[r].unknown + h.unknown
      /\ ledger'[r].priced + ledger'[r].unknown
            = ledger[r].priced + ledger[r].unknown + h.dollars
  BY CommitFacts
<1>3. Ordered /\ p.dollars >= run[r].dollars /\ Sent' \subseteq Sent
  BY <1>2 DEF Ordered, Sent
<1>4. SplitsCurrent /\ \A q \in Runs : CappedRun(q)
  BY <1>3 DEF Cap
<1>5. /\ h.dollars = Over(p.dollars, run[r].dollars)
      /\ \A k \in handling \ {h} : RunOf(k.report.lease) \in Runs \ {r}
      /\ run[r].dollars = ledger[r].priced + ledger[r].unknown
  BY <1>1, <1>3, Numbers DEF IInv, Books, ReadsCurrent, NoDoubleBooking
<1>6. SplitsCurrent'
  BY <1>2, <1>4, <1>5 DEF SplitsCurrent, RunOf
<1>7. h.unknown = Smaller(Over(p.unpriced, ledger[r].unknown), h.dollars)
  BY <1>4 DEF SplitsCurrent
<1> HIDE DEF p, r
<1>8. \/ ledger'[r].priced = ledger[r].priced
      \/ ledger'[r].priced <= Over(p.dollars, p.unpriced)
  <2>1. h.dollars = p.dollars - (ledger[r].priced + ledger[r].unknown)
    BY <1>1, <1>3, <1>5 DEF Over
  <2>2. ledger'[r].priced \in Nat /\ ledger'[r].unknown \in Nat
    BY <1>0, <1>1 DEF TypeOK
  <2>3. ledger'[r].priced = ledger[r].priced + (h.dollars - h.unknown)
    BY <1>1, <1>2, <2>2
  <2> DEFINE more == p.dollars - (ledger[r].priced + ledger[r].unknown)
             guess == Smaller(Over(p.unpriced, ledger[r].unknown), more)
  <2>4. \/ ledger[r].priced + (more - guess) = ledger[r].priced
        \/ ledger[r].priced + (more - guess) <= Over(p.dollars, p.unpriced)
    BY <1>1, <1>3, <1>5, PricedSplit
  <2>5. h.dollars = more /\ h.unknown = guess
    BY <1>7, <2>1
  <2> QED BY <2>3, <2>4, <2>5
<1>9. Capped(run[r].budget, p.tokens, p.dollars, p.unpriced, CallsPerRound)
  BY <1>1, <1>2, <1>4 DEF CappedRun
<1>10. ASSUME NEW q \in Runs, q # r PROVE CappedRun(q)'
  BY <1>2, <1>3, <1>4, <1>10, StaysCapped DEF CappedRun
<1>11. ASSUME NEW q \in Runs, q = r PROVE CappedRun(q)'
  <2> DEFINE b == run[r].budget
             l == p.lease
  <2>1. /\ b.tokens \in Nat /\ b.dollars \in Nat /\ Over(p.dollars, p.unpriced) \in Nat
        /\ ledger'[r].priced \in Nat
    BY <1>0, <1>1, BudgetsAssumption DEF IInv, TypeOK, Row, Money, Over
  <2>2. /\ run'[r].tokens < b.tokens + RoundTokens
        /\ CostTracking => ledger'[r].priced < b.dollars + RoundDollars
    BY <1>1, <1>2, <1>4, <1>8, <1>9, <2>1, RoundFacts DEF CappedRun, Capped
  <2>3. /\ WorkerCapped(worker'[l], b)
        /\ \A o \in Sent' : o.lease = l =>
             Capped(b, o.tokens, o.dollars, o.unpriced, CallsPerRound)
    BY <1>1, <1>2, <1>3, <1>4 DEF CappedRun
  <2>4. run'[r].budget = b /\ run'[r].lease \in {l, 0}
    BY <1>2
  <2> HIDE DEF b, l
  <2>5. run'[r].lease # 0 =>
          /\ WorkerCapped(worker'[run'[r].lease], run'[r].budget)
          /\ \A o \in Sent' : o.lease = run'[r].lease =>
               Capped(run'[r].budget, o.tokens, o.dollars, o.unpriced, CallsPerRound)
    BY <2>3, <2>4
  <2>6. /\ run'[q].tokens < run'[q].budget.tokens + RoundTokens
        /\ CostTracking => ledger'[q].priced < run'[q].budget.dollars + RoundDollars
        /\ run'[q].lease # 0 =>
             /\ WorkerCapped(worker'[run'[q].lease], run'[q].budget)
             /\ \A o \in Sent' : o.lease = run'[q].lease =>
                  Capped(run'[q].budget, o.tokens, o.dollars, o.unpriced, CallsPerRound)
    BY <1>11, <2>2, <2>4, <2>5
  <2> QED BY <2>6 DEF CappedRun, WorkerCapped, Capped, RoundTokens, RoundDollars,
                                  CallTokens, CallDollars
<1> QED BY <1>6, <1>10, <1>11

LEMMA ClaimCapped ==
    ASSUME IInv, Cap, NEW r \in Runs, NEW l \in Leases, ClaimRun(r, l)
    PROVE  Cap'
<1> SUFFICES ASSUME Ordered' PROVE (SplitsCurrent /\ \A q \in Runs : CappedRun(q))'
  BY DEF Cap
<1>1. /\ worker[l].phase = "none"
      /\ UNCHANGED <<ledger, posts, handling, causes>>
      /\ \A k \in Runs \ {r} : run'[k] = run[k]
      /\ run'[r].tokens = run[r].tokens
      /\ run'[r].budget = run[r].budget /\ run'[r].lease = l
      /\ \A k \in Leases \ {l} : worker'[k] = worker[k]
      /\ worker'[l].tokens = run[r].tokens /\ worker'[l].dollars = run[r].dollars
      /\ worker'[l].unpriced = ledger[r].unknown /\ worker'[l].budget = run[r].budget
      /\ worker'[l].left = 0
  <2>1. Seeded(r).left = 0
    BY DEF Seeded
  <2> QED BY <2>1, ClaimFacts
<1>2. Ordered /\ SplitsCurrent /\ \A q \in Runs : CappedRun(q)
  BY <1>1 DEF Cap, Ordered
<1>3. SplitsCurrent'
  BY <1>1, <1>2, StaysSplit
<1>4. /\ \A p \in Sent : p.lease # l
      /\ \A k \in Runs : run[k].lease # l /\ run[k].lease \in Leases \cup {0}
      /\ Sent' = Sent /\ l # 0
  BY <1>1, Numbers DEF IInv, Books, Opened, Sent
<1>5. ASSUME NEW q \in Runs, q # r PROVE CappedRun(q)'
  BY <1>1, <1>2, <1>4, <1>5, StaysCapped DEF CappedRun
<1>6. CappedRun(r)'
  <2> DEFINE b == run[r].budget
  <2>1. /\ run[r].tokens < b.tokens + RoundTokens
        /\ CostTracking => ledger[r].priced < b.dollars + RoundDollars
    BY <1>2 DEF CappedRun
  <2>2. Over(run[r].dollars, ledger[r].unknown) = ledger[r].priced
    BY <1>2, Numbers DEF IInv, Books, NoDoubleBooking, Over
  <2>3. CallsPerRound - 0 = CallsPerRound
    BY BoundsAssumption
  <2>4. Capped(b, run[r].tokens, run[r].dollars, ledger[r].unknown, CallsPerRound - 0)
    BY <2>1, <2>2, <2>3, RoundFacts DEF Capped
  <2>5. WorkerCapped(worker'[l], b)
    BY <1>1, <2>4 DEF WorkerCapped
  <2>6. run'[r].budget = b /\ run'[r].lease = l /\ \A p \in Sent' : p.lease # l
    BY <1>1, <1>4
  <2>7. /\ run'[r].tokens < b.tokens + RoundTokens
        /\ CostTracking => ledger'[r].priced < b.dollars + RoundDollars
    BY <1>1, <2>1
  <2> HIDE DEF b
  <2> QED BY <2>5, <2>6, <2>7 DEF CappedRun, WorkerCapped, Capped, RoundTokens, RoundDollars,
                                  CallTokens, CallDollars
<1> QED BY <1>3, <1>5, <1>6

LEMMA UnlockCapped ==
    ASSUME IInv, Cap, NEW r \in Runs, NEW b \in Budgets, UnlockRun(r, b)
    PROVE  Cap'
<1> SUFFICES ASSUME Ordered PROVE (SplitsCurrent /\ \A q \in Runs : CappedRun(q))'
  BY DEF Cap, UnlockRun, Ordered
<1>1. /\ b.tokens > run[r].tokens /\ b.dollars > Over(run[r].dollars, ledger[r].unknown)
      /\ UNCHANGED <<ledger, worker, posts, handling>>
      /\ run' = [run EXCEPT ![r] = [run[r] EXCEPT !.status = "active", !.budget = b,
                                                  !.lease = 0, !.expired = FALSE]]
  BY DEF UnlockRun
<1>2. SplitsCurrent /\ \A q \in Runs : CappedRun(q)
  BY DEF Cap
<1>3. SplitsCurrent'
  BY <1>1, <1>2, StaysSplit
<1>4. ASSUME NEW q \in Runs, q # r PROVE CappedRun(q)'
  <2>1. run'[q] = run[q] /\ Sent' = Sent
    BY <1>1, <1>4 DEF IInv, TypeOK, Sent
  <2> QED BY <1>1, <1>2, <2>1, StaysCapped DEF CappedRun
<1>5. CappedRun(r)'
  <2>1. run'[r].budget = b /\ run'[r].lease = 0 /\ run'[r].tokens = run[r].tokens
    BY <1>1 DEF IInv, TypeOK, Row
  <2>2. Over(run[r].dollars, ledger[r].unknown) = ledger[r].priced
    BY Numbers DEF IInv, Books, NoDoubleBooking, Over
  <2>3. /\ b.tokens \in Nat /\ b.dollars \in Nat
        /\ run[r].tokens \in Nat /\ ledger[r].priced \in Nat
    BY Numbers, BudgetsAssumption DEF IInv, Books, Money
  <2>4. run'[r].tokens < b.tokens + RoundTokens /\ ledger'[r].priced < b.dollars + RoundDollars
    BY <1>1, <2>1, <2>2, <2>3, RoundFacts
  <2> QED BY <2>1, <2>4 DEF CappedRun, RoundTokens, RoundDollars
<1> QED BY <1>3, <1>4, <1>5

LEMMA InitCapped == Init => Cap
<1> SUFFICES ASSUME Init PROVE SplitsCurrent /\ \A q \in Runs : CappedRun(q)
  BY DEF Cap
<1>1. SplitsCurrent
  BY DEF Init, SplitsCurrent
<1>2. ASSUME NEW q \in Runs PROVE CappedRun(q)
  <2>1. /\ run[q].tokens = 0 /\ ledger[q].priced = 0 /\ run[q].lease = 0
        /\ run[q].budget = StartBudget
    BY DEF Init
  <2>2. /\ StartBudget.tokens \in Nat /\ StartBudget.dollars \in Nat
        /\ StartBudget.tokens > 0 /\ StartBudget.dollars > 0
    BY BudgetsAssumption DEF Money
  <2>3. 0 < StartBudget.tokens + RoundTokens /\ 0 < StartBudget.dollars + RoundDollars
    BY <2>2, RoundFacts
  <2> QED BY <2>1, <2>3 DEF CappedRun
<1> QED BY <1>1, <1>2

LEMMA NextCapped == IInv /\ Cap /\ [Next]_vars => Cap'
<1> SUFFICES ASSUME IInv, Cap, [Next]_vars PROVE Cap'
  OBVIOUS
<1>1. ASSUME NEW l \in Leases, BudgetCheck(l) PROVE Cap'
  <2> DEFINE w == worker[l]
             halted == [w EXCEPT !.phase = "halting", !.left = 0]
             round == [w EXCEPT !.left = CallsPerRound]
             new == IF OverBudget(w) THEN halted ELSE round
  <2>1. /\ worker' = [worker EXCEPT ![l] = new]
        /\ UNCHANGED <<run, ledger, handling, posts, causes>> /\ w.phase = "running"
    BY <1>1 DEF BudgetCheck
  <2>2. /\ w \in WorkerState /\ w.budget \in Budgets
        /\ w.tokens \in Nat /\ w.dollars \in Nat /\ w.unpriced \in Nat
        /\ CallsPerRound - w.left \in Nat /\ CallsPerRound - w.left <= CallsPerRound
        /\ CallsPerRound \in Nat
    BY WorkerNumbers DEF IInv
  <2>3. /\ halted.run = w.run /\ halted.budget = w.budget /\ halted.tokens = w.tokens
        /\ halted.dollars = w.dollars /\ halted.unpriced = w.unpriced /\ halted.left = 0
        /\ round.run = w.run /\ round.budget = w.budget /\ round.tokens = w.tokens
        /\ round.dollars = w.dollars /\ round.unpriced = w.unpriced
        /\ round.left = CallsPerRound
    BY <2>2 DEF WorkerState
  <2> HIDE DEF halted, round
  <2>4. CallsPerRound - 0 = CallsPerRound /\ CallsPerRound - CallsPerRound = 0
    BY <2>2
  <2>5. ASSUME NEW b \in Budgets, WorkerCapped(w, b) PROVE WorkerCapped(halted, b)
    <3>1. w.budget = b /\ Capped(b, w.tokens, w.dollars, w.unpriced, CallsPerRound - w.left)
      BY <2>1, <2>5 DEF WorkerCapped
    <3>2. Capped(b, w.tokens, w.dollars, w.unpriced, CallsPerRound)
      BY <2>2, <3>1, CappedMore
    <3> QED BY <2>3, <2>4, <3>1, <3>2 DEF WorkerCapped
  <2>6. ASSUME NEW b \in Budgets, WorkerCapped(w, b), ~OverBudget(w)
        PROVE  WorkerCapped(round, b)
    <3>1. w.budget = b /\ b.tokens \in Nat /\ b.dollars \in Nat
      BY <2>1, <2>6, BudgetsAssumption DEF WorkerCapped, Money
    <3>2. Over(w.dollars, w.unpriced) \in Nat
      BY <2>2 DEF Over
    <3>3. /\ w.tokens < b.tokens
          /\ CostTracking => Over(w.dollars, w.unpriced) < b.dollars
      BY <2>2, <2>6, <3>1, <3>2 DEF OverBudget, EnforceableDollars
    <3>4. 0 * CallTokens = 0 /\ 0 * CallDollars = 0
      BY DearestCall, TimesFacts
    <3>5. Capped(b, w.tokens, w.dollars, w.unpriced, 0)
      BY <3>1, <3>3, <3>4 DEF Capped
    <3> QED BY <2>3, <2>4, <3>1, <3>5 DEF WorkerCapped
  <2>7. /\ new.run = w.run
        /\ \A b \in Budgets : WorkerCapped(w, b) => WorkerCapped(new, b)
    BY <2>3, <2>5, <2>6
  <2> HIDE DEF new
  <2> QED BY <2>1, <2>7, OthersCapped
<1>2. ASSUME NEW l \in Leases, NEW c \in Calls, Track(l, c) PROVE Cap'
  <2> DEFINE w == worker[l]
             new == worker'[l]
             known == IF c.unpriced THEN w.unpriced + c.dollars ELSE w.unpriced
  <2>1. /\ worker' = [worker EXCEPT ![l] = new]
        /\ UNCHANGED <<run, ledger, handling, posts, causes>>
        /\ w.phase = "running" /\ w.left > 0 /\ new.run = w.run /\ new.budget = w.budget
    BY <1>2, TrackType DEF Track, IInv
  <2>2. /\ w \in WorkerState /\ w.budget \in Budgets
        /\ w.tokens \in Nat /\ w.dollars \in Nat /\ w.unpriced \in Nat
        /\ CallsPerRound - w.left \in Nat /\ w.left \in 0..CallsPerRound /\ CallsPerRound \in Nat
    BY WorkerNumbers DEF IInv
  <2>3. /\ new.tokens = w.tokens + c.tokens /\ new.dollars = w.dollars + c.dollars
        /\ new.unpriced = known /\ new.left = w.left - 1
    BY <1>2, <2>2 DEF Track, IInv, TypeOK, WorkerState
  <2>4. CallsPerRound - (w.left - 1) = (CallsPerRound - w.left) + 1
    BY <2>2
  <2>5. ASSUME NEW b \in Budgets, WorkerCapped(w, b) PROVE WorkerCapped(new, b)
    <3>1. w.budget = b /\ Capped(b, w.tokens, w.dollars, w.unpriced, CallsPerRound - w.left)
      BY <2>1, <2>5 DEF WorkerCapped
    <3>2. Capped(b, w.tokens + c.tokens, w.dollars + c.dollars, known,
                 (CallsPerRound - w.left) + 1)
      BY <2>2, <3>1, CappedCall
    <3> HIDE DEF new, known
    <3> QED BY <2>1, <2>3, <2>4, <3>1, <3>2 DEF WorkerCapped
  <2> HIDE DEF new
  <2> QED BY <2>1, <2>5, OthersCapped
<1>3. ASSUME NEW l \in Leases, Heartbeat(l) PROVE Cap'
  <2> DEFINE w == worker[l]
             new == [w EXCEPT !.n = @ + 1]
  <2>1. /\ w \in WorkerState /\ w.phase = "running"
        /\ worker' = [worker EXCEPT ![l] = new]
        /\ UNCHANGED <<run, ledger, handling, causes>>
        /\ posts' = posts \cup {ReportOf(l, "heartbeat")}
    BY <1>3 DEF Heartbeat, IInv, TypeOK
  <2>2. /\ new.phase = w.phase /\ new.budget = w.budget /\ new.run = w.run
        /\ new.tokens = w.tokens /\ new.dollars = w.dollars
        /\ new.unpriced = w.unpriced /\ new.left = w.left
    BY <2>1 DEF WorkerState
  <2> HIDE DEF new
  <2>3. \A b \in Budgets : WorkerCapped(w, b) => WorkerCapped(new, b)
    BY <2>2 DEF WorkerCapped
  <2>4. \A p \in posts' : p \in posts \/ p = ReportOf(l, p.kind)
    BY <2>1 DEF ReportOf
  <2> QED BY <2>1, <2>2, <2>3, <2>4, OthersCapped
<1>4. ASSUME NEW l \in Leases,
             Crash(l) \/ \E kind \in Kinds : Finish(l, kind)
      PROVE  Cap'
  <2> DEFINE new == Gone(l)
  <2>1. /\ worker' = [worker EXCEPT ![l] = new]
        /\ UNCHANGED <<run, ledger, handling, causes>>
        /\ worker[l].phase \in {"running", "halting"}
        /\ posts' = posts \/ \E kind \in Kinds : posts' = posts \cup {ReportOf(l, kind)}
    BY <1>4 DEF Finish, Crash
  <2>2. new.phase = "gone" /\ new.run = worker[l].run
    BY WorkerUpdates DEF IInv
  <2>3. \A p \in posts' : p \in posts \/ p = ReportOf(l, p.kind)
    BY <2>1 DEF ReportOf
  <2> HIDE DEF new
  <2>4. \A b \in Budgets : WorkerCapped(new, b)
    BY <2>2 DEF WorkerCapped
  <2> QED BY <2>1, <2>2, <2>3, <2>4, OthersCapped
<1>5. ASSUME NEW p \in posts, Handle(p) PROVE Cap'
  BY <1>5, HandleCapped
<1>6. ASSUME NEW h \in handling, Commit(h) PROVE Cap'
  BY <1>6, CommitCapped
<1>7. ASSUME NEW h \in handling, Conflict(h) PROVE Cap'
  <2>1. Sent' \subseteq Sent
    BY <1>7 DEF Conflict, Sent
  <2> QED BY <1>7, <2>1, IdleCapped DEF Conflict
<1>8. ASSUME NEW r \in Runs, NEW l \in Leases, ClaimRun(r, l) PROVE Cap'
  BY <1>8, ClaimCapped
<1>9. ASSUME \/ \E source \in {"worker_claim", "chat_post"} : ReadSpend(source)
             \/ NoClaim \/ ChatPost \/ NewDay \/ UNCHANGED vars
             \/ \E c \in Calls, persisted \in BOOLEAN : ChatTurn(c, persisted)
      PROVE  Cap'
  <2>1. UNCHANGED <<run, ledger, worker, posts, handling, causes>>
    BY <1>9 DEF ReadSpend, NoClaim, ChatPost, NewDay, ChatTurn, vars
  <2>2. Sent' = Sent
    BY <2>1 DEF Sent
  <2> QED BY <2>1, <2>2, IdleCapped
<1>10. ASSUME NEW r \in Runs, LeaseExpires(r) PROVE Cap'
  <2>1. \A q \in Runs : /\ run'[q].budget = run[q].budget /\ run'[q].tokens = run[q].tokens
                        /\ run'[q].lease = run[q].lease
    BY <1>10 DEF LeaseExpires, IInv, TypeOK, Row
  <2>2. UNCHANGED <<ledger, worker, posts, handling>> /\ Sent' = Sent /\ causes \subseteq causes'
    BY <1>10 DEF LeaseExpires, Sent
  <2> QED BY <2>1, <2>2, IdleCapped
<1>11. ASSUME NEW r \in Runs, NEW b \in Budgets, UnlockRun(r, b) PROVE Cap'
  BY <1>11, UnlockCapped
<1> QED BY <1>1, <1>2, <1>3, <1>4, <1>5, <1>6, <1>7, <1>8, <1>9, <1>10, <1>11 DEF Next

-----------------------------------------------------------------------------
(***************************************************************************)
(* The ceiling of the day                                                  *)
(***************************************************************************)

\* A lease that counts as a reservation, and what may still be booked under it: the
\* rest of the budget and what the last round may pass it by.
Leased(r) == run[r].status = "active" /\ run[r].lease # 0 /\ ~run[r].expired

MayBook(r) ==
    IF Leased(r)
    THEN [tokens |-> Over(run[r].budget.tokens + Over(RoundTokens, 1), run[r].tokens),
          dollars |-> Over(run[r].budget.dollars + Over(RoundDollars, 1), ledger[r].priced)]
    ELSE Zero

BookableTokens == SumFunctionOnSet([r \in Runs |-> MayBook(r).tokens], Runs)
BookableDollars == SumFunctionOnSet([r \in Runs |-> MayBook(r).dollars], Runs)

\* The chat turns that were admitted, or refused, and are over.
Pending == IF \E a \in admission : a.source = "chat_post" THEN 1 ELSE 0
TurnsOver == used["chats"] - (chatting + Pending)

OneAdmission ==
    /\ \A a, b \in admission : a.source = b.source => a = b
    /\ chatting + Pending <= used["chats"]

\* Of an expired lease nothing is left.
ExpiredGone ==
    \A r \in Runs : run[r].expired /\ run[r].lease # 0 => ~Lingers(run[r].lease)

\* Since an admission read the spend of the day only chat turns have added to it.
Snapshots ==
    \A a \in admission : /\ today.tokens <= a.spend.tokens + TurnsOver * CallTokens
                         /\ today.dollars <= a.spend.dollars + TurnsOver * CallDollars

TokensCeiling ==
    DailyCap.tokens + Dearest({b.tokens : b \in Budgets})
        + Cardinality(Runs) * Over(RoundTokens, 1)
DollarsCeiling ==
    DailyCap.dollars + Dearest({b.dollars : b \in Budgets})
        + Cardinality(Runs) * Over(RoundDollars, 1)

\* What is booked and may still be booked stays below the ceiling.
Bookable ==
    /\ today.tokens + BookableTokens < TokensCeiling + TurnsOver * CallTokens
    /\ CostTracking =>
         today.dollars + BookableDollars < DollarsCeiling + TurnsOver * CallDollars

Day == OneAdmission /\ (causes = {} => ExpiredGone /\ Snapshots /\ Bookable)

\* A sum whose values are larger by c at most.
LEMMA SumBound ==
    ASSUME NEW f, NEW g, NEW S, IsFiniteSet(S), NEW c \in Nat,
           \A x \in S : f[x] \in Nat /\ g[x] \in Nat /\ f[x] <= g[x] + c
    PROVE  SumFunctionOnSet(f, S) <= SumFunctionOnSet(g, S) + Cardinality(S) * c
<1> DEFINE T == {U \in SUBSET S :
                    ~(SumFunctionOnSet(f, U) <= SumFunctionOnSet(g, U) + Cardinality(U) * c)}
<1> SUFFICES ASSUME T # {} PROVE FALSE
  OBVIOUS
<1>1. PICK U \in T : \A V \in T : ~(V \subseteq U /\ V # U)
  <2>1. T \subseteq SUBSET S
    OBVIOUS
  <2> HIDE DEF T
  <2> QED BY <2>1, SmallestSubset
<1>2. U \subseteq S /\ IsFiniteSet(U)
  BY <1>1, FS_Subset
<1>3. U # {}
  <2> SUFFICES ASSUME U = {} PROVE U \notin T
    BY <1>1
  <2>1. 0 <= 0 + 0 * c
    BY TimesFacts
  <2> QED BY <2>1, SumEmpty, FS_EmptySet
<1> DEFINE p == AnyOf(U)
           V == U \ {p}
<1>4. p \in U /\ IsFiniteSet(V) /\ V \subseteq S /\ V \notin T
  BY <1>1, <1>2, <1>3, AnyOfElement, FS_Subset
<1>5. /\ SumFunctionOnSet(f, U) = f[p] + SumFunctionOnSet(f, V)
      /\ SumFunctionOnSet(g, U) = g[p] + SumFunctionOnSet(g, V)
      /\ SumFunctionOnSet(f, V) <= SumFunctionOnSet(g, V) + Cardinality(V) * c
  BY <1>2, <1>3, <1>4, SumAnyOf
<1>6. /\ f[p] \in Nat /\ g[p] \in Nat /\ f[p] <= g[p] + c
      /\ SumFunctionOnSet(f, V) \in Nat /\ SumFunctionOnSet(g, V) \in Nat
  <2> HIDE DEF p, V
  <2> QED BY <1>2, <1>4, SumType
<1>7. /\ Cardinality(U) \in Nat /\ Cardinality(V) \in Nat
      /\ Cardinality(U) = Cardinality(V) + 1
  BY <1>2, <1>4, FS_CardinalityType, FS_RemoveElement
<1> HIDE DEF p, V
<1>8. Cardinality(V) * c \in Nat /\ Cardinality(U) * c = Cardinality(V) * c + c
  BY <1>7, TimesFacts
<1>9. ASSUME NEW n \in Nat, SumFunctionOnSet(f, V) <= SumFunctionOnSet(g, V) + n
      PROVE  f[p] + SumFunctionOnSet(f, V) <= (g[p] + SumFunctionOnSet(g, V)) + (n + c)
  BY <1>6, <1>9
<1>10. f[p] + SumFunctionOnSet(f, V)
          <= (g[p] + SumFunctionOnSet(g, V)) + (Cardinality(V) * c + c)
  BY <1>5, <1>8, <1>9
<1>11. SumFunctionOnSet(f, U) <= SumFunctionOnSet(g, U) + Cardinality(U) * c
  BY <1>5, <1>8, <1>10
<1> QED BY <1>1, <1>11

\* A value of the sum over all runs falls by as much as is added elsewhere.
LEMMA SumFalls ==
    ASSUME NEW f, NEW g, NEW r \in Runs, NEW d \in Nat,
           \A x \in Runs : f[x] \in Nat /\ g[x] \in Nat,
           \A x \in Runs \ {r} : g[x] = f[x], d + g[r] <= f[r]
    PROVE  d + SumFunctionOnSet(g, Runs) <= SumFunctionOnSet(f, Runs)
<1>1. SumFunctionOnSet(g, Runs) + f[r] = SumFunctionOnSet(f, Runs) + g[r]
  BY RunAssumption, SumChange
<1>2. SumFunctionOnSet(g, Runs) \in Nat /\ SumFunctionOnSet(f, Runs) \in Nat
  BY RunAssumption, SumType
<1> QED BY <1>1, <1>2

\* A run joins those that are summed.
LEMMA SumJoins ==
    ASSUME NEW f, NEW g, NEW h, NEW r \in Runs, NEW b \in Nat, NEW c \in Nat,
           \A x \in Runs : f[x] \in Nat /\ g[x] \in Nat /\ h[x] \in Nat,
           \A x \in Runs \ {r} : g[x] = f[x], \A x \in Runs : f[x] <= h[x] + c,
           g[r] <= b + c
    PROVE  SumFunctionOnSet(g, Runs)
               <= SumFunctionOnSet(h, Runs) + b + Cardinality(Runs) * c
<1> DEFINE R == Runs \ {r}
<1>1. /\ IsFiniteSet(Runs) /\ IsFiniteSet(R) /\ Cardinality(R) \in Nat
      /\ Cardinality(Runs) = Cardinality(R) + 1
  <2>1. IsFiniteSet(Runs)
    BY RunAssumption
  <2>2. IsFiniteSet(R) /\ Cardinality(R) = Cardinality(Runs) - 1
    BY <2>1, FS_RemoveElement
  <2>3. Cardinality(Runs) \in Nat /\ Cardinality(R) \in Nat
    BY <2>1, <2>2, FS_CardinalityType
  <2> QED BY <2>1, <2>2, <2>3
<1>2. /\ SumFunctionOnSet(g, Runs) = g[r] + SumFunctionOnSet(g, R)
      /\ SumFunctionOnSet(h, Runs) = h[r] + SumFunctionOnSet(h, R)
  <2>1. IsFiniteSet(Runs)
    BY <1>1
  <2> QED BY <2>1, SumSplit
<1>3. SumFunctionOnSet(g, R) <= SumFunctionOnSet(h, R) + Cardinality(R) * c
  <2>1. \A x \in R : g[x] \in Nat /\ h[x] \in Nat /\ g[x] <= h[x] + c
    OBVIOUS
  <2> HIDE DEF R
  <2> QED BY <1>1, <2>1, SumBound
<1>4. /\ SumFunctionOnSet(g, R) \in Nat /\ SumFunctionOnSet(h, R) \in Nat
      /\ g[r] \in Nat /\ h[r] \in Nat
  BY <1>1, SumType
<1>5. Cardinality(R) * c \in Nat /\ Cardinality(Runs) * c = Cardinality(R) * c + c
  BY <1>1, TimesFacts
<1> HIDE DEF R
<1> QED BY <1>2, <1>3, <1>4, <1>5

\* The counts the ceiling is about are natural numbers.
LEMMA CeilingNumbers ==
    /\ Over(RoundTokens, 1) \in Nat /\ Over(RoundDollars, 1) \in Nat
    /\ TokensCeiling \in Nat /\ TokensCeiling > 0
    /\ DollarsCeiling \in Nat /\ DollarsCeiling > 0
    /\ Dearest({b.tokens : b \in Budgets}) \in Nat
    /\ Dearest({b.dollars : b \in Budgets}) \in Nat
    /\ \A b \in Budgets : /\ b.tokens <= Dearest({d.tokens : d \in Budgets})
                          /\ b.dollars <= Dearest({d.dollars : d \in Budgets})
    /\ Cardinality(Runs) * Over(RoundTokens, 1) \in Nat
    /\ Cardinality(Runs) * Over(RoundDollars, 1) \in Nat
    /\ DailyCap.tokens \in Nat /\ DailyCap.dollars \in Nat
<1> DEFINE tokens == {b.tokens : b \in Budgets}
           dollars == {b.dollars : b \in Budgets}
<1>1. Dearest(tokens) \in tokens /\ \A n \in tokens : n <= Dearest(tokens)
  <2>1. \E m \in tokens : \A n \in tokens : n <= m
    BY BudgetsAssumption
  <2> HIDE DEF tokens
  <2> QED BY <2>1 DEF Dearest
<1>2. Dearest(dollars) \in dollars /\ \A n \in dollars : n <= Dearest(dollars)
  <2>1. \E m \in dollars : \A n \in dollars : n <= m
    BY BudgetsAssumption
  <2> HIDE DEF dollars
  <2> QED BY <2>1 DEF Dearest
<1>3. \A b \in Budgets : b.tokens \in Nat /\ b.tokens > 0 /\ b.dollars \in Nat /\ b.dollars > 0
  BY BudgetsAssumption DEF Money
<1>4. /\ Dearest(tokens) \in Nat /\ Dearest(tokens) > 0
      /\ Dearest(dollars) \in Nat /\ Dearest(dollars) > 0
      /\ \A b \in Budgets : b.tokens <= Dearest(tokens) /\ b.dollars <= Dearest(dollars)
  BY <1>1, <1>2, <1>3
<1>5. /\ Over(RoundTokens, 1) \in Nat /\ Over(RoundDollars, 1) \in Nat
      /\ Cardinality(Runs) \in Nat
  BY RoundFacts, RunAssumption, FS_CardinalityType DEF Over
<1>6. /\ Cardinality(Runs) * Over(RoundTokens, 1) \in Nat
      /\ Cardinality(Runs) * Over(RoundDollars, 1) \in Nat
  BY <1>5, TimesFacts
<1>7. DailyCap.tokens \in Nat /\ DailyCap.dollars \in Nat
  BY BudgetsAssumption DEF Money
<1>8. /\ TokensCeiling = DailyCap.tokens + Dearest(tokens)
                             + Cardinality(Runs) * Over(RoundTokens, 1)
      /\ DollarsCeiling = DailyCap.dollars + Dearest(dollars)
                             + Cardinality(Runs) * Over(RoundDollars, 1)
  BY DEF TokensCeiling, DollarsCeiling
<1>9. /\ TokensCeiling \in Nat /\ TokensCeiling > 0
      /\ DollarsCeiling \in Nat /\ DollarsCeiling > 0
  <2> HIDE DEF tokens, dollars
  <2> QED BY <1>4, <1>6, <1>7, <1>8
<1> QED BY <1>4, <1>5, <1>6, <1>7, <1>9

LEMMA TurnNumbers ==
    ASSUME TypeOK, OneAdmission
    PROVE  /\ used["chats"] \in Nat /\ chatting \in Nat /\ Pending \in {0, 1}
           /\ TurnsOver \in Nat /\ TurnsOver <= used["chats"]
<1>1. used["chats"] \in Nat /\ chatting \in Nat /\ Pending \in {0, 1}
  BY DEF TypeOK, Bounded, Pending
<1> QED BY <1>1 DEF OneAdmission, TurnsOver

LEMMA DayNumbers ==
    ASSUME TypeOK
    PROVE  /\ today.tokens \in Nat /\ today.dollars \in Nat
           /\ \A a \in admission : /\ a.spend.tokens \in Nat /\ a.spend.dollars \in Nat
                                   /\ a.source \in {"worker_claim", "chat_post"}
           /\ \A r \in Runs : MayBook(r).tokens \in Nat /\ MayBook(r).dollars \in Nat
           /\ \A r \in Runs : Promised(r).tokens \in Nat /\ Promised(r).dollars \in Nat
           /\ BookableTokens \in Nat /\ BookableDollars \in Nat
<1>1. /\ today.tokens \in Nat /\ today.dollars \in Nat
      /\ \A a \in admission : /\ a.spend.tokens \in Nat /\ a.spend.dollars \in Nat
                              /\ a.source \in {"worker_claim", "chat_post"}
  BY DEF TypeOK, Money
<1>2. ASSUME NEW r \in Runs
      PROVE  /\ MayBook(r).tokens \in Nat /\ MayBook(r).dollars \in Nat
             /\ Promised(r).tokens \in Nat /\ Promised(r).dollars \in Nat
  <2>1. /\ run[r].budget.tokens \in Nat /\ run[r].budget.dollars \in Nat
        /\ run[r].tokens \in Nat /\ run[r].dollars \in Nat
        /\ ledger[r].priced \in Nat /\ ledger[r].unknown \in Nat
    BY BudgetsAssumption DEF TypeOK, Row, Money
  <2>2. \A m, n \in Nat : Over(m, n) \in Nat
    BY DEF Over
  <2>3. /\ run[r].budget.tokens + Over(RoundTokens, 1) \in Nat
        /\ run[r].budget.dollars + Over(RoundDollars, 1) \in Nat
    BY <2>1, CeilingNumbers
  <2> QED BY <2>1, <2>2, <2>3 DEF MayBook, Promised, Zero
<1>3. BookableTokens \in Nat /\ BookableDollars \in Nat
  BY <1>2, RunAssumption, SumType DEF BookableTokens, BookableDollars
<1> QED BY <1>1, <1>2, <1>3

\* More turns allow more.
LEMMA TurnsMore ==
    ASSUME TypeOK, TypeOK', OneAdmission, OneAdmission', TurnsOver <= TurnsOver'
    PROVE  /\ TurnsOver * CallTokens \in Nat /\ TurnsOver' * CallTokens \in Nat
           /\ TurnsOver * CallDollars \in Nat /\ TurnsOver' * CallDollars \in Nat
           /\ TurnsOver * CallTokens <= TurnsOver' * CallTokens
           /\ TurnsOver * CallDollars <= TurnsOver' * CallDollars
<1>1. TurnsOver \in Nat
  BY TurnNumbers
<1>2. TurnsOver' \in Nat
  <2>1. used'["chats"] \in Nat /\ chatting' \in Nat /\ Pending' \in {0, 1}
    BY DEF TypeOK, Bounded, Pending
  <2> QED BY <2>1 DEF OneAdmission, TurnsOver
<1> QED BY <1>1, <1>2, DearestCall, TimesFacts
\* Nothing adds up to nothing.
LEMMA SumZero ==
    ASSUME NEW f, NEW S, IsFiniteSet(S), \A x \in S : f[x] = 0
    PROVE  SumFunctionOnSet(f, S) = 0
<1> DEFINE T == {U \in SUBSET S : SumFunctionOnSet(f, U) # 0}
<1> SUFFICES ASSUME T # {} PROVE FALSE
  OBVIOUS
<1>1. PICK U \in T : \A V \in T : ~(V \subseteq U /\ V # U)
  <2>1. T \subseteq SUBSET S
    OBVIOUS
  <2> HIDE DEF T
  <2> QED BY <2>1, SmallestSubset
<1>2. U # {} /\ IsFiniteSet(U) /\ AnyOf(U) \in U /\ U \ {AnyOf(U)} \notin T
  <2>1. U \subseteq S /\ IsFiniteSet(U)
    BY <1>1, FS_Subset
  <2>2. U # {}
    <3> SUFFICES ASSUME U = {} PROVE U \notin T
      BY <1>1
    <3> QED BY SumEmpty
  <2>3. AnyOf(U) \in U
    BY <2>2, AnyOfElement
  <2> QED BY <1>1, <2>1, <2>2, <2>3
<1>3. SumFunctionOnSet(f, U) = f[AnyOf(U)] + SumFunctionOnSet(f, U \ {AnyOf(U)})
  BY <1>2, SumAnyOf
<1> QED BY <1>1, <1>2, <1>3

\* The turns that are over after a step.
LEMMA TurnsPrimed ==
    ASSUME TypeOK', OneAdmission'
    PROVE  TurnsOver' \in Nat
<1>1. used'["chats"] \in Nat /\ chatting' \in Nat /\ Pending' \in {0, 1}
  BY DEF TypeOK, Bounded, Pending
<1> QED BY <1>1 DEF OneAdmission, TurnsOver

\* A step that books nothing and promises nothing new keeps what is said of the day.
LEMMA DayKeeps ==
    ASSUME TypeOK, TypeOK', Day, OneAdmission', causes \subseteq causes',
           causes' = {} => ExpiredGone',
           TurnsOver <= TurnsOver',
           today'.tokens <= today.tokens, today'.dollars <= today.dollars,
           \A r \in Runs : MayBook(r)' = MayBook(r) \/ MayBook(r)' = Zero,
           \A a \in admission' : a \in admission \/ a.spend = today'
    PROVE  Day'
<1> SUFFICES ASSUME causes' = {} PROVE Snapshots' /\ Bookable'
  BY DEF Day
<1>1. causes = {} /\ Snapshots /\ Bookable /\ OneAdmission
  BY DEF Day
<1> DEFINE m == TurnsOver * CallTokens
           n == TurnsOver * CallDollars
           tokens == TurnsOver' * CallTokens
           dollars == TurnsOver' * CallDollars
<1>2. /\ m \in Nat /\ n \in Nat /\ tokens \in Nat /\ dollars \in Nat
      /\ m <= tokens /\ n <= dollars
  BY <1>1, TurnsMore
<1>3. /\ today.tokens \in Nat /\ today.dollars \in Nat
      /\ today'.tokens \in Nat /\ today'.dollars \in Nat
      /\ \A a \in admission \cup admission' : a.spend.tokens \in Nat /\ a.spend.dollars \in Nat
  BY DEF TypeOK, Money
<1>4. /\ BookableTokens \in Nat /\ BookableDollars \in Nat
      /\ \A r \in Runs : MayBook(r).tokens \in Nat /\ MayBook(r).dollars \in Nat
  BY DayNumbers
<1>5. \A r \in Runs : /\ MayBook(r)'.tokens \in Nat /\ MayBook(r)'.dollars \in Nat
                      /\ MayBook(r)'.tokens <= MayBook(r).tokens
                      /\ MayBook(r)'.dollars <= MayBook(r).dollars
  <2>1. Zero.tokens = 0 /\ Zero.dollars = 0
    BY DEF Zero
  <2> HIDE DEF Zero, MayBook
  <2> QED BY <1>4, <2>1
<1>6. /\ BookableTokens' <= BookableTokens /\ BookableDollars' <= BookableDollars
      /\ BookableTokens' \in Nat /\ BookableDollars' \in Nat
  <2> HIDE DEF MayBook
  <2> QED BY <1>4, <1>5, RunAssumption, SumMonotonic, SumType
          DEF BookableTokens, BookableDollars
<1>7. Snapshots'
  <2> SUFFICES ASSUME NEW a \in admission'
               PROVE  /\ today'.tokens <= a.spend.tokens + tokens
                      /\ today'.dollars <= a.spend.dollars + dollars
    BY DEF Snapshots, CallTokens, CallDollars
  <2>1. CASE a.spend = today'
    <3> HIDE DEF tokens, dollars
    <3> QED BY <1>2, <1>3, <2>1
  <2>2. CASE a \in admission
    <3>1. today.tokens <= a.spend.tokens + m /\ today.dollars <= a.spend.dollars + n
      BY <1>1, <2>2 DEF Snapshots
    <3> HIDE DEF m, n, tokens, dollars
    <3> QED BY <1>2, <1>3, <2>2, <3>1
  <2> QED BY <2>1, <2>2
<1>8. Bookable'
  <2>1. /\ today.tokens + BookableTokens < TokensCeiling + m
        /\ CostTracking => today.dollars + BookableDollars < DollarsCeiling + n
    BY <1>1 DEF Bookable
  <2>2. TokensCeiling \in Nat /\ DollarsCeiling \in Nat
    BY CeilingNumbers
  <2> HIDE DEF m, n, tokens, dollars
  <2>3. /\ today'.tokens + BookableTokens' < TokensCeiling + tokens
        /\ CostTracking => today'.dollars + BookableDollars' < DollarsCeiling + dollars
    <3>1. BookableTokens \in Nat /\ BookableDollars \in Nat
      BY <1>4
    <3>2. today'.tokens + BookableTokens' < TokensCeiling + tokens
      BY <1>2, <1>3, <1>6, <2>1, <2>2, <3>1
    <3>3. CASE CostTracking
      <4>1. today'.dollars + BookableDollars' < DollarsCeiling + dollars
        BY <1>2, <1>3, <1>6, <2>1, <2>2, <3>1, <3>3
      <4> QED BY <3>2, <4>1
    <3> QED BY <3>2, <3>3
  <2>4. TokensCeiling' = TokensCeiling /\ DollarsCeiling' = DollarsCeiling
    BY DEF TokensCeiling, DollarsCeiling, RoundTokens, RoundDollars
  <2>5. CallTokens' = CallTokens /\ CallDollars' = CallDollars
    BY DEF CallTokens, CallDollars
  <2> QED BY <2>3, <2>4, <2>5 DEF Bookable, tokens, dollars
<1> QED BY <1>7, <1>8

\* A step of a worker or of a handler that writes nothing.
LEMMA QuietDay ==
    ASSUME TypeOK, TypeOK', Day, UNCHANGED <<run, ledger, today, admission, chatting>>,
           used'["chats"] = used["chats"], causes \subseteq causes',
           \A l \in Leases : Lingers(l)' => Lingers(l)
    PROVE  Day'
<1>1. OneAdmission' /\ TurnsOver' = TurnsOver
  BY DEF Day, OneAdmission, TurnsOver, Pending
<1>2. causes' = {} => ExpiredGone'
  <2> SUFFICES ASSUME causes' = {}, NEW r \in Runs, run'[r].expired, run'[r].lease # 0
               PROVE  ~Lingers(run[r].lease)'
    BY DEF ExpiredGone
  <2>1. run'[r] = run[r] /\ run[r].lease \in Leases
    BY DEF TypeOK, Row
  <2>2. ~Lingers(run[r].lease)
    BY <2>1 DEF Day, ExpiredGone
  <2> QED BY <2>1, <2>2
<1>3. \A r \in Runs : MayBook(r)' = MayBook(r)
  BY DEF MayBook, Leased
<1>4. TurnsOver <= TurnsOver' /\ today'.tokens <= today.tokens /\ today'.dollars <= today.dollars
  BY <1>1, TurnNumbers, DayNumbers DEF Day
<1> QED BY <1>1, <1>2, <1>3, <1>4, DayKeeps

\* A turn that ends adds one call at most, and is over.
LEMMA TurnDay ==
    ASSUME TypeOK, TypeOK', Day, NEW c \in Calls, NEW persisted \in BOOLEAN,
           ChatTurn(c, persisted)
    PROVE  Day'
<1>1. /\ chatting \in Nat /\ chatting > 0 /\ chatting' = chatting - 1
      /\ UNCHANGED <<run, ledger, worker, posts, handling, admission, causes, used>>
      /\ Pending \in {0, 1} /\ used["chats"] \in Nat
  BY TurnNumbers DEF ChatTurn, TypeOK, Day
<1>2. Pending' = Pending
  BY <1>1 DEF Pending
<1>3. OneAdmission' /\ TurnsOver' = TurnsOver + 1 /\ TurnsOver \in Nat
  BY <1>1, <1>2, TurnNumbers DEF Day, OneAdmission, TurnsOver
<1> SUFFICES ASSUME causes' = {} PROVE ExpiredGone' /\ Snapshots' /\ Bookable'
  BY <1>3 DEF Day
<1>4. OneAdmission /\ ExpiredGone /\ Snapshots /\ Bookable
  BY <1>1 DEF Day
<1>5. ExpiredGone'
  BY <1>1, <1>4 DEF ExpiredGone, Lingers
<1> DEFINE m == TurnsOver * CallTokens
           n == TurnsOver * CallDollars
<1>6. /\ m \in Nat /\ n \in Nat /\ CallTokens \in Nat /\ CallDollars \in Nat
      /\ (TurnsOver + 1) * CallTokens = m + CallTokens
      /\ (TurnsOver + 1) * CallDollars = n + CallDollars
  BY <1>3, DearestCall, TimesFacts
<1>7. /\ today.tokens \in Nat /\ today.dollars \in Nat
      /\ today'.tokens \in Nat /\ today'.dollars \in Nat
      /\ today'.tokens <= today.tokens + CallTokens
      /\ today'.dollars <= today.dollars + CallDollars
  <2>1. c.tokens \in Nat /\ c.dollars \in Nat /\ c.tokens <= CallTokens /\ c.dollars <= CallDollars
    BY CallsAssumption, DearestCall
  <2>2. today.tokens \in Nat /\ today.dollars \in Nat
    BY DEF TypeOK, Money
  <2> DEFINE more == IF c.unpriced THEN 0 ELSE c.dollars
  <2>3. today' = today \/ today' = [tokens |-> today.tokens + c.tokens,
                                    dollars |-> today.dollars + more]
    BY DEF ChatTurn
  <2>4. more \in Nat /\ more <= CallDollars
    BY <1>6, <2>1
  <2> HIDE DEF more
  <2>5. CASE today' = today
    BY <1>6, <2>2, <2>5
  <2>6. CASE today' # today
    <3>1. today'.tokens = today.tokens + c.tokens /\ today'.dollars = today.dollars + more
      BY <2>3, <2>6
    <3> QED BY <1>6, <2>1, <2>2, <2>4, <3>1
  <2> QED BY <2>5, <2>6
<1>8. Snapshots'
  <2> SUFFICES ASSUME NEW a \in admission
               PROVE  /\ today'.tokens <= a.spend.tokens + (m + CallTokens)
                      /\ today'.dollars <= a.spend.dollars + (n + CallDollars)
    BY <1>1, <1>3, <1>6 DEF Snapshots, CallTokens, CallDollars
  <2>1. today.tokens <= a.spend.tokens + m /\ today.dollars <= a.spend.dollars + n
    BY <1>4 DEF Snapshots
  <2>2. a.spend.tokens \in Nat /\ a.spend.dollars \in Nat
    BY DayNumbers
  <2> HIDE DEF m, n
  <2> QED BY <1>6, <1>7, <2>1, <2>2
<1>9. Bookable'
  <2>1. /\ today.tokens + BookableTokens < TokensCeiling + m
        /\ CostTracking => today.dollars + BookableDollars < DollarsCeiling + n
    BY <1>4 DEF Bookable
  <2>2. /\ BookableTokens \in Nat /\ BookableDollars \in Nat
        /\ TokensCeiling \in Nat /\ DollarsCeiling \in Nat
    BY DayNumbers, CeilingNumbers
  <2>3. BookableTokens' = BookableTokens /\ BookableDollars' = BookableDollars
    BY <1>1 DEF BookableTokens, BookableDollars, MayBook, Leased
  <2> HIDE DEF m, n
  <2>4. today'.tokens + BookableTokens < TokensCeiling + (m + CallTokens)
    BY <1>6, <1>7, <2>1, <2>2
  <2>5. CASE CostTracking
    <3>1. today'.dollars + BookableDollars < DollarsCeiling + (n + CallDollars)
      BY <1>6, <1>7, <2>1, <2>2, <2>5
    <3> QED BY <1>3, <1>6, <2>3, <2>4, <3>1 DEF Bookable, TokensCeiling, DollarsCeiling,
               RoundTokens, RoundDollars, CallTokens, CallDollars
  <2>6. CASE ~CostTracking
    BY <1>3, <1>6, <2>3, <2>4, <2>6 DEF Bookable, TokensCeiling, RoundTokens, CallTokens
  <2> QED BY <2>5, <2>6
<1> QED BY <1>5, <1>8, <1>9

\* A report that is written ends the promise it is booked on.
LEMMA UpdatedExpired ==
    ASSUME NEW row \in Row, NEW p \in Report
    PROVE  /\ ~Updated(row, p).expired
           /\ Updated(row, p).budget = row.budget /\ Updated(row, p).tokens = p.tokens
<1>1. CASE p.kind = "heartbeat"
  BY <1>1 DEF Updated, Report, Row
<1>2. CASE p.kind = "release"
  <2> DEFINE status == IF row.attempts + 1 >= MaxAttempts THEN "ended" ELSE "active"
             tries == row.attempts + 1
  <2>1. Updated(row, p) = [row EXCEPT !.tokens = p.tokens, !.dollars = p.dollars,
                                      !.expired = FALSE, !.lease = 0,
                                      !.attempts = tries, !.status = status]
    BY <1>2 DEF Updated
  <2> HIDE DEF status, tries
  <2> QED BY <2>1 DEF Row
<1>3. CASE p.kind \notin {"heartbeat", "release"}
  <2>1. Updated(row, p) = [row EXCEPT !.tokens = p.tokens, !.dollars = p.dollars,
                                      !.expired = FALSE, !.lease = 0, !.status = p.kind]
    BY <1>3 DEF Updated
  <2> QED BY <2>1 DEF Row
<1> QED BY <1>1, <1>2, <1>3

\* What is taken of what may pass a budget by less than a round.
LEMMA Taken ==
    ASSUME NEW budget \in Nat, NEW round \in Nat, NEW before \in Nat, NEW after \in Nat,
           NEW d \in Nat, after = before + d, after < budget + round
    PROVE  LET left == Over(budget + Over(round, 1), before)
           IN  /\ d <= left
               /\ d + Over(budget + Over(round, 1), after) <= left
BY DEF Over

\* What is booked was promised: the run of the report holds a lease that counts, and
\* what may still be booked under it falls by what is booked.
LEMMA CommitDay ==
    ASSUME IInv, TypeOK', Cap, Cap', Day, NEW h \in handling, Commit(h),
           NEW r \in Runs, r = RunOf(h.report.lease)
    PROVE  Day'
<1> DEFINE p == h.report
           new == Updated(run[r], p)
<1>1. /\ TypeOK /\ h \in Reading /\ p \in Report /\ p.lease \in Leases /\ r \in Runs
      /\ 0 \notin Leases /\ run[r] \in Row
      /\ h.tokens \in Nat /\ h.dollars \in Nat /\ h.unknown \in Nat /\ h.unknown <= h.dollars
      /\ p.tokens \in Nat /\ p.dollars \in Nat
      /\ ledger[r].priced \in Nat /\ ledger[r].unknown \in Nat
      /\ today.tokens \in Nat /\ today.dollars \in Nat
  BY Numbers, DayNumbers DEF IInv, Books, Reads, TypeOK
<1>2. /\ run[r].lease = p.lease /\ run[r].status = "active"
      /\ handling' = handling \ {h}
      /\ UNCHANGED <<worker, posts, admission, chatting, used>>
      /\ run' = [run EXCEPT ![r] = new]
      /\ ledger'[r].priced = ledger[r].priced + (h.dollars - h.unknown)
      /\ \A q \in Runs \ {r} : ledger'[q] = ledger[q]
      /\ today'.tokens = today.tokens + h.tokens
      /\ today'.dollars = today.dollars + (h.dollars - h.unknown)
      /\ causes \subseteq causes'
      /\ p.tokens < run[r].tokens \/ p.dollars < run[r].dollars => "overtaken" \in causes'
      /\ admission # {} => "snapshot" \in causes'
  BY <1>1 DEF Commit, RunOf, TypeOK
<1>3. OneAdmission' /\ TurnsOver' = TurnsOver
  BY <1>2 DEF Day, OneAdmission, TurnsOver, Pending
<1> SUFFICES ASSUME causes' = {} PROVE ExpiredGone' /\ Snapshots' /\ Bookable'
  BY <1>3 DEF Day
<1>4. /\ causes = {} /\ admission = {} /\ Ordered /\ Ordered'
      /\ p.tokens >= run[r].tokens /\ p.dollars >= run[r].dollars
      /\ OneAdmission /\ ExpiredGone /\ Bookable
  BY <1>1, <1>2 DEF Day, Ordered, Row
<1>5. Snapshots'
  BY <1>2, <1>4 DEF Snapshots
<1>6. ~new.expired /\ new.budget = run[r].budget /\ new.tokens = p.tokens
  BY <1>1, UpdatedExpired
<1>7. run'[r] = new /\ \A q \in Runs \ {r} : run'[q] = run[q]
  BY <1>1, <1>2 DEF TypeOK
<1>8. ExpiredGone'
  <2> SUFFICES ASSUME NEW q \in Runs, run'[q].expired, run'[q].lease # 0
               PROVE  ~Lingers(run[q].lease)'
    BY DEF ExpiredGone
  <2>1. q # r /\ run'[q] = run[q]
    BY <1>6, <1>7
  <2>2. ~Lingers(run[q].lease)
    BY <1>4, <2>1 DEF ExpiredGone
  <2> QED BY <1>2, <2>1, <2>2 DEF Lingers
<1>9. Leased(r)
  <2>1. Lingers(p.lease)
    BY DEF Lingers
  <2> QED BY <1>1, <1>2, <1>4, <2>1 DEF ExpiredGone, Leased
<1> DEFINE more == h.dollars - h.unknown
<1>10. /\ more \in Nat /\ today'.dollars = today.dollars + more
       /\ ledger'[r].priced = ledger[r].priced + more
  BY <1>1, <1>2
<1>11. /\ CappedRun(r) /\ CappedRun(r)'
       /\ h.tokens = Over(p.tokens, run[r].tokens)
       /\ p \in Sent
  BY <1>1, <1>4 DEF Cap, IInv, Books, ReadsCurrent, Sent
<1> DEFINE b == run[r].budget
<1>12. /\ b.tokens \in Nat /\ b.dollars \in Nat /\ run[r].tokens \in Nat
       /\ RoundTokens \in Nat /\ RoundDollars \in Nat
  BY <1>1, BudgetsAssumption, RoundFacts DEF Row, Money
<1>13. p.tokens = run[r].tokens + h.tokens /\ p.tokens < b.tokens + RoundTokens
  <2>1. Capped(b, p.tokens, p.dollars, p.unpriced, CallsPerRound)
    BY <1>1, <1>2, <1>11 DEF CappedRun
  <2>2. p.tokens < b.tokens + RoundTokens
    BY <2>1, RoundFacts DEF Capped
  <2> QED BY <1>1, <1>4, <1>11, <1>12, <2>2 DEF Over
<1>14. CostTracking => ledger'[r].priced < b.dollars + RoundDollars
  <2>1. CostTracking => ledger'[r].priced < run'[r].budget.dollars + RoundDollars
    BY <1>1, <1>4 DEF Cap, CappedRun, RoundDollars, CallDollars
  <2> QED BY <1>6, <1>7, <2>1
<1>15. /\ h.tokens + MayBook(r)'.tokens <= MayBook(r).tokens
       /\ MayBook(r).tokens \in Nat /\ MayBook(r)'.tokens \in Nat
  <2> DEFINE left == Over(b.tokens + Over(RoundTokens, 1), run[r].tokens)
             after == Over(b.tokens + Over(RoundTokens, 1), p.tokens)
  <2>1. h.tokens <= left /\ h.tokens + after <= left
    BY <1>1, <1>12, <1>13, Taken
  <2>2. left \in Nat /\ after \in Nat
    BY <1>1, <1>12 DEF Over
  <2>3. MayBook(r).tokens = left
    BY <1>9 DEF MayBook
  <2>4. MayBook(r)'.tokens = after \/ MayBook(r)'.tokens = 0
    BY <1>6, <1>7 DEF MayBook, Zero, RoundTokens, CallTokens
  <2> HIDE DEF left, after, MayBook
  <2> QED BY <1>1, <2>1, <2>2, <2>3, <2>4
<1>16. CostTracking => /\ more + MayBook(r)'.dollars <= MayBook(r).dollars
                       /\ MayBook(r).dollars \in Nat /\ MayBook(r)'.dollars \in Nat
  <2> SUFFICES ASSUME CostTracking
               PROVE  /\ more + MayBook(r)'.dollars <= MayBook(r).dollars
                      /\ MayBook(r).dollars \in Nat /\ MayBook(r)'.dollars \in Nat
    OBVIOUS
  <2> DEFINE after == ledger'[r].priced
             left == Over(b.dollars + Over(RoundDollars, 1), ledger[r].priced)
             rest == Over(b.dollars + Over(RoundDollars, 1), after)
  <2>1. after \in Nat /\ after = ledger[r].priced + more /\ after < b.dollars + RoundDollars
    BY <1>1, <1>10, <1>14
  <2>2. MayBook(r).dollars = left
    BY <1>9 DEF MayBook
  <2>3. MayBook(r)'.dollars = rest \/ MayBook(r)'.dollars = 0
    BY <1>6, <1>7 DEF MayBook, Zero, RoundDollars, CallDollars
  <2> HIDE DEF after, MayBook, b, more
  <2>4. more <= left /\ more + rest <= left
    BY <1>1, <1>10, <1>12, <2>1, Taken
  <2>5. left \in Nat /\ rest \in Nat
    BY <1>1, <1>12, <2>1 DEF Over
  <2> HIDE DEF left, rest
  <2> QED BY <1>10, <2>2, <2>3, <2>4, <2>5
<1> HIDE DEF more, p, new, b
<1>17. \A q \in Runs : /\ MayBook(q).tokens \in Nat /\ MayBook(q).dollars \in Nat
                       /\ MayBook(q)'.tokens \in Nat /\ MayBook(q)'.dollars \in Nat
  <2>1. \A q \in Runs : MayBook(q).tokens \in Nat /\ MayBook(q).dollars \in Nat
    BY <1>1, DayNumbers
  <2>2. \A q \in Runs : MayBook(q)'.tokens \in Nat /\ MayBook(q)'.dollars \in Nat
    <3> SUFFICES ASSUME NEW q \in Runs
                 PROVE  MayBook(q)'.tokens \in Nat /\ MayBook(q)'.dollars \in Nat
      OBVIOUS
    <3>1. /\ run'[q].budget.tokens \in Nat /\ run'[q].budget.dollars \in Nat
          /\ run'[q].tokens \in Nat /\ ledger'[q].priced \in Nat
      BY BudgetsAssumption DEF TypeOK, Row, Money
    <3>2. Over(RoundTokens, 1) \in Nat /\ Over(RoundDollars, 1) \in Nat
      BY CeilingNumbers
    <3>3. /\ Over(run'[q].budget.tokens + Over(RoundTokens, 1), run'[q].tokens) \in Nat
          /\ Over(run'[q].budget.dollars + Over(RoundDollars, 1), ledger'[q].priced) \in Nat
      BY <3>1, <3>2 DEF Over
    <3> QED BY <3>3 DEF MayBook, Zero, RoundTokens, RoundDollars, CallTokens, CallDollars
  <2> QED BY <2>1, <2>2
<1>18. \A q \in Runs \ {r} : MayBook(q)' = MayBook(q)
  <2> SUFFICES ASSUME NEW q \in Runs \ {r} PROVE MayBook(q)' = MayBook(q)
    OBVIOUS
  <2>1. run'[q] = run[q] /\ ledger'[q] = ledger[q]
    BY <1>2, <1>7
  <2> QED BY <2>1 DEF MayBook, Leased
<1>19. h.tokens + BookableTokens' <= BookableTokens
  <2> DEFINE f == [q \in Runs |-> MayBook(q).tokens]
             g == [q \in Runs |-> MayBook(q)'.tokens]
  <2>1. BookableTokens = SumFunctionOnSet(f, Runs) /\ BookableTokens' = SumFunctionOnSet(g, Runs)
    BY DEF BookableTokens
  <2>2. /\ \A q \in Runs : f[q] \in Nat /\ g[q] \in Nat
        /\ \A q \in Runs \ {r} : g[q] = f[q]
        /\ h.tokens + g[r] <= f[r] /\ r \in Runs /\ h.tokens \in Nat
    <3> HIDE DEF MayBook
    <3> QED BY <1>1, <1>15, <1>17, <1>18
  <2> HIDE DEF f, g
  <2> QED BY <2>1, <2>2, SumFalls
<1>20. CostTracking => more + BookableDollars' <= BookableDollars
  <2> SUFFICES ASSUME CostTracking PROVE more + BookableDollars' <= BookableDollars
    OBVIOUS
  <2> DEFINE f == [q \in Runs |-> MayBook(q).dollars]
             g == [q \in Runs |-> MayBook(q)'.dollars]
  <2>1. BookableDollars = SumFunctionOnSet(f, Runs) /\ BookableDollars' = SumFunctionOnSet(g, Runs)
    BY DEF BookableDollars
  <2>2. /\ \A q \in Runs : f[q] \in Nat /\ g[q] \in Nat
        /\ \A q \in Runs \ {r} : g[q] = f[q]
        /\ more + g[r] <= f[r] /\ r \in Runs /\ more \in Nat
    <3> HIDE DEF MayBook
    <3> QED BY <1>1, <1>10, <1>16, <1>17, <1>18
  <2> HIDE DEF f, g
  <2> QED BY <2>1, <2>2, SumFalls
<1>21. Bookable'
  <2>1. BookableTokens' \in Nat /\ BookableDollars' \in Nat
    <3> HIDE DEF MayBook
    <3> QED BY <1>17, RunAssumption, SumType DEF BookableTokens, BookableDollars
  <2>2. /\ BookableTokens \in Nat /\ BookableDollars \in Nat
        /\ TokensCeiling \in Nat /\ DollarsCeiling \in Nat
        /\ TurnsOver * CallTokens \in Nat /\ TurnsOver * CallDollars \in Nat
    BY <1>1, <1>4, DayNumbers, CeilingNumbers, TurnNumbers, DearestCall, TimesFacts
  <2>3. /\ today.tokens + BookableTokens < TokensCeiling + TurnsOver * CallTokens
        /\ CostTracking =>
             today.dollars + BookableDollars < DollarsCeiling + TurnsOver * CallDollars
    BY <1>4 DEF Bookable
  <2>4. today'.tokens + BookableTokens' < TokensCeiling + TurnsOver * CallTokens
    BY <1>1, <1>2, <1>19, <2>1, <2>2, <2>3
  <2>5. CASE CostTracking
    <3>1. today'.dollars + BookableDollars' < DollarsCeiling + TurnsOver * CallDollars
      BY <1>1, <1>10, <1>20, <2>1, <2>2, <2>3, <2>5
    <3> QED BY <1>3, <2>4, <3>1 DEF Bookable, TokensCeiling, DollarsCeiling, RoundTokens,
                                    RoundDollars, CallTokens, CallDollars
  <2>6. CASE ~CostTracking
    BY <1>3, <2>4, <2>6 DEF Bookable, TokensCeiling, RoundTokens, CallTokens
  <2> QED BY <2>5, <2>6
<1> QED BY <1>5, <1>8, <1>21

\* What may be booked under a lease is what was reserved for it, and at most a last
\* round more.
LEMMA ReservedRound ==
    ASSUME NEW budget \in Nat, NEW extra \in Nat, NEW spent \in Nat
    PROVE  /\ Over(budget, spent) <= Over(budget + extra, spent)
           /\ Over(budget + extra, spent) <= Over(budget, spent) + extra
BY DEF Over

LEMMA PromisedCovers ==
    ASSUME IInv, Ordered, NEW r \in Runs
    PROVE  /\ Promised(r).tokens <= MayBook(r).tokens
           /\ Promised(r).dollars <= MayBook(r).dollars
           /\ MayBook(r).tokens <= Promised(r).tokens + Over(RoundTokens, 1)
           /\ MayBook(r).dollars <= Promised(r).dollars + Over(RoundDollars, 1)
<1>1. /\ run[r].budget.tokens \in Nat /\ run[r].budget.dollars \in Nat
      /\ run[r].tokens \in Nat /\ run[r].dollars \in Nat
      /\ ledger[r].priced \in Nat /\ ledger[r].unknown \in Nat
  BY BudgetsAssumption DEF IInv, TypeOK, Row, Money
<1>2. Over(RoundTokens, 1) \in Nat /\ Over(RoundDollars, 1) \in Nat
  BY CeilingNumbers
<1>3. Over(run[r].dollars, ledger[r].unknown) = ledger[r].priced
  <2>1. ledger[r].priced + ledger[r].unknown = run[r].dollars
    BY DEF IInv, Books, NoDoubleBooking
  <2> QED BY <1>1, <2>1 DEF Over
<1>4. CASE Leased(r)
  <2>1. /\ MayBook(r).tokens = Over(run[r].budget.tokens + Over(RoundTokens, 1), run[r].tokens)
        /\ MayBook(r).dollars
             = Over(run[r].budget.dollars + Over(RoundDollars, 1), ledger[r].priced)
        /\ Promised(r).tokens = Over(run[r].budget.tokens, run[r].tokens)
        /\ Promised(r).dollars = Over(run[r].budget.dollars, ledger[r].priced)
    BY <1>3, <1>4 DEF MayBook, Promised, Leased
  <2> QED BY <1>1, <1>2, <2>1, ReservedRound
<1>5. CASE ~Leased(r)
  <2>1. MayBook(r) = Zero /\ Promised(r) = Zero
    BY <1>5 DEF MayBook, Promised, Leased
  <2>2. Zero.tokens = 0 /\ Zero.dollars = 0
    BY DEF Zero
  <2> QED BY <1>2, <2>1, <2>2
<1> QED BY <1>4, <1>5

\* A claim was admitted while the spend and the promises were below the ceiling; it
\* adds a budget and a last round.
LEMMA ClaimDay ==
    ASSUME IInv, TypeOK', Day, NEW r \in Runs, NEW l \in Leases, ClaimRun(r, l)
    PROVE  Day'
<1>1. PICK a \in admission : /\ a.source = "worker_claim" /\ Admits(a.spend, Reserved)
                             /\ admission' = admission \ {a}
  BY DEF ClaimRun
<1>2. /\ UNCHANGED <<ledger, today, posts, handling, chatting, causes, used>>
      /\ run' = [run EXCEPT ![r].lease = l, ![r].expired = FALSE]
      /\ worker' = [worker EXCEPT ![l] = Seeded(r)] /\ worker[l].phase = "none"
  BY DEF ClaimRun
<1>3. OneAdmission' /\ TurnsOver' = TurnsOver
  <2>1. Pending' = Pending
    BY <1>1 DEF Pending
  <2> QED BY <1>1, <1>2, <2>1 DEF Day, OneAdmission, TurnsOver
<1> SUFFICES ASSUME causes' = {} PROVE ExpiredGone' /\ Snapshots' /\ Bookable'
  BY <1>3 DEF Day
<1>4. Ordered /\ OneAdmission /\ ExpiredGone /\ Snapshots /\ Bookable /\ TypeOK
  BY <1>2 DEF Day, Ordered, IInv
<1>5. /\ ~run'[r].expired /\ run'[r].budget = run[r].budget /\ run'[r].tokens = run[r].tokens
      /\ \A q \in Runs \ {r} : run'[q] = run[q]
      /\ \A k \in Leases \ {l} : worker'[k] = worker[k]
  BY <1>2, <1>4 DEF TypeOK, Row
<1>6. ExpiredGone'
  <2> SUFFICES ASSUME NEW q \in Runs, run'[q].expired, run'[q].lease # 0
               PROVE  ~Lingers(run[q].lease)'
    BY DEF ExpiredGone
  <2>1. q # r /\ run'[q] = run[q] /\ run[q].lease \in Leases
    BY <1>4, <1>5 DEF TypeOK, Row
  <2>2. ~Lingers(run[q].lease) /\ run[q].lease # l
    BY <1>2, <1>4, <2>1 DEF ExpiredGone, IInv, Books, Opened
  <2> DEFINE k == run[q].lease
  <2>3. /\ worker'[k] = worker[k] /\ posts' = posts /\ handling' = handling
        /\ run'[q].lease = k
    BY <1>2, <1>5, <2>1, <2>2
  <2>4. /\ worker[k].phase \notin {"running", "halting"}
        /\ ~\E p \in posts \cup {h.report : h \in handling} : p.lease = k
    BY <2>2 DEF Lingers
  <2> HIDE DEF k
  <2>5. /\ worker'[run'[q].lease].phase \notin {"running", "halting"}
        /\ ~\E p \in posts' \cup {h.report : h \in handling'} : p.lease = run'[q].lease
    BY <2>3, <2>4
  <2> QED BY <2>5 DEF Lingers
<1>7. Snapshots'
  BY <1>1, <1>2, <1>3, <1>4 DEF Snapshots, CallTokens, CallDollars
<1> DEFINE m == TurnsOver * CallTokens
           n == TurnsOver * CallDollars
           tokens == Over(RoundTokens, 1)
           dollars == Over(RoundDollars, 1)
           mostTokens == Dearest({b.tokens : b \in Budgets})
           mostDollars == Dearest({b.dollars : b \in Budgets})
           restTokens == Cardinality(Runs) * tokens
           restDollars == Cardinality(Runs) * dollars
<1>8. /\ m \in Nat /\ n \in Nat /\ tokens \in Nat /\ dollars \in Nat
      /\ mostTokens \in Nat /\ mostDollars \in Nat
      /\ restTokens \in Nat /\ restDollars \in Nat
      /\ DailyCap.tokens \in Nat /\ DailyCap.dollars \in Nat
      /\ TokensCeiling = DailyCap.tokens + mostTokens + restTokens
      /\ DollarsCeiling = DailyCap.dollars + mostDollars + restDollars
  <2>1. /\ TokensCeiling = DailyCap.tokens + mostTokens + restTokens
        /\ DollarsCeiling = DailyCap.dollars + mostDollars + restDollars
    BY DEF TokensCeiling, DollarsCeiling
  <2>2. m \in Nat /\ n \in Nat
    BY <1>4, TurnNumbers, DearestCall, TimesFacts
  <2> QED BY <2>1, <2>2, CeilingNumbers
<1> HIDE DEF m, n, tokens, dollars, mostTokens, mostDollars, restTokens, restDollars
<1>9. /\ a.spend.tokens \in Nat /\ a.spend.dollars \in Nat
      /\ today.tokens \in Nat /\ today.dollars \in Nat
      /\ today.tokens <= a.spend.tokens + m /\ today.dollars <= a.spend.dollars + n
  BY <1>4, DayNumbers DEF Snapshots, m, n
<1>10. \A q \in Runs : /\ MayBook(q).tokens \in Nat /\ MayBook(q).dollars \in Nat
                       /\ Promised(q).tokens \in Nat /\ Promised(q).dollars \in Nat
                       /\ MayBook(q).tokens <= Promised(q).tokens + tokens
                       /\ MayBook(q).dollars <= Promised(q).dollars + dollars
  BY <1>4, DayNumbers, PromisedCovers DEF tokens, dollars
<1>11. \A q \in Runs \ {r} : MayBook(q)' = MayBook(q)
  <2> SUFFICES ASSUME NEW q \in Runs \ {r} PROVE MayBook(q)' = MayBook(q)
    OBVIOUS
  <2>1. run'[q] = run[q] /\ ledger'[q] = ledger[q]
    BY <1>2, <1>5
  <2> QED BY <2>1 DEF MayBook, Leased
<1>12. /\ MayBook(r)'.tokens \in Nat /\ MayBook(r)'.dollars \in Nat
       /\ MayBook(r)'.tokens <= mostTokens + tokens
       /\ MayBook(r)'.dollars <= mostDollars + dollars
  <2> DEFINE b == run[r].budget
  <2>1. /\ b \in Budgets /\ b.tokens \in Nat /\ b.dollars \in Nat
        /\ run[r].tokens \in Nat /\ ledger[r].priced \in Nat
    BY <1>4, BudgetsAssumption DEF TypeOK, Row, Money
  <2>2. b.tokens <= mostTokens /\ b.dollars <= mostDollars
    BY <2>1, CeilingNumbers DEF mostTokens, mostDollars
  <2>3. /\ Over(b.tokens + tokens, run[r].tokens) \in Nat
        /\ Over(b.tokens + tokens, run[r].tokens) <= b.tokens + tokens
        /\ Over(b.dollars + dollars, ledger[r].priced) \in Nat
        /\ Over(b.dollars + dollars, ledger[r].priced) <= b.dollars + dollars
    BY <1>8, <2>1 DEF Over
  <2>4. /\ MayBook(r)'.tokens = Over(b.tokens + tokens, run[r].tokens)
              \/ MayBook(r)'.tokens = 0
        /\ MayBook(r)'.dollars = Over(b.dollars + dollars, ledger[r].priced)
              \/ MayBook(r)'.dollars = 0
    BY <1>2, <1>5 DEF MayBook, Zero, tokens, dollars, RoundTokens, RoundDollars, CallTokens,
                      CallDollars
  <2> HIDE DEF b, MayBook
  <2> QED BY <1>8, <2>1, <2>2, <2>3, <2>4
<1>13. /\ BookableTokens' <= Reserved.tokens + mostTokens + restTokens
       /\ BookableTokens' \in Nat /\ Reserved.tokens \in Nat
  <2> DEFINE f == [q \in Runs |-> MayBook(q).tokens]
             g == [q \in Runs |-> MayBook(q)'.tokens]
             h == [q \in Runs |-> Promised(q).tokens]
  <2>1. /\ BookableTokens' = SumFunctionOnSet(g, Runs)
        /\ Reserved.tokens = SumFunctionOnSet(h, Runs)
    BY DEF BookableTokens, Reserved
  <2>2. /\ \A q \in Runs : f[q] \in Nat /\ g[q] \in Nat /\ h[q] \in Nat
        /\ \A q \in Runs \ {r} : g[q] = f[q]
        /\ \A q \in Runs : f[q] <= h[q] + tokens
        /\ g[r] <= mostTokens + tokens
    <3> HIDE DEF MayBook, Promised
    <3> QED BY <1>10, <1>11, <1>12
  <2> HIDE DEF f, g, h
  <2>3. SumFunctionOnSet(g, Runs) <= SumFunctionOnSet(h, Runs) + mostTokens + restTokens
    BY <1>8, <2>2, SumJoins DEF restTokens
  <2> QED BY <2>1, <2>2, <2>3, RunAssumption, SumType
<1>14. /\ BookableDollars' <= Reserved.dollars + mostDollars + restDollars
       /\ BookableDollars' \in Nat /\ Reserved.dollars \in Nat
  <2> DEFINE f == [q \in Runs |-> MayBook(q).dollars]
             g == [q \in Runs |-> MayBook(q)'.dollars]
             h == [q \in Runs |-> Promised(q).dollars]
  <2>1. /\ BookableDollars' = SumFunctionOnSet(g, Runs)
        /\ Reserved.dollars = SumFunctionOnSet(h, Runs)
    BY DEF BookableDollars, Reserved
  <2>2. /\ \A q \in Runs : f[q] \in Nat /\ g[q] \in Nat /\ h[q] \in Nat
        /\ \A q \in Runs \ {r} : g[q] = f[q]
        /\ \A q \in Runs : f[q] <= h[q] + dollars
        /\ g[r] <= mostDollars + dollars
    <3> HIDE DEF MayBook, Promised
    <3> QED BY <1>10, <1>11, <1>12
  <2> HIDE DEF f, g, h
  <2>3. SumFunctionOnSet(g, Runs) <= SumFunctionOnSet(h, Runs) + mostDollars + restDollars
    BY <1>8, <2>2, SumJoins DEF restDollars
  <2> QED BY <2>1, <2>2, <2>3, RunAssumption, SumType
<1>15. /\ a.spend.tokens + Reserved.tokens < DailyCap.tokens
       /\ CostTracking => a.spend.dollars + Reserved.dollars < DailyCap.dollars
  <2>1. CASE Reserved = Zero
    <3>1. Reserved.tokens = 0 /\ Reserved.dollars = 0
      BY <2>1 DEF Zero
    <3>2. a.spend.tokens < DailyCap.tokens /\ (CostTracking => a.spend.dollars < DailyCap.dollars)
      BY <1>1 DEF Admits
    <3> QED BY <1>9, <3>1, <3>2
  <2>2. CASE Reserved # Zero
    BY <1>1, <2>2 DEF Admits
  <2> QED BY <2>1, <2>2
<1>16. Bookable'
  <2>1. today.tokens + BookableTokens' < TokensCeiling + m
    BY <1>8, <1>9, <1>13, <1>15
  <2>2. CASE CostTracking
    <3>1. today.dollars + BookableDollars' < DollarsCeiling + n
      BY <1>8, <1>9, <1>14, <1>15, <2>2
    <3> QED BY <1>2, <1>3, <2>1, <3>1 DEF Bookable, TokensCeiling, DollarsCeiling, RoundTokens,
                                          RoundDollars, CallTokens, CallDollars, m, n
  <2>3. CASE ~CostTracking
    BY <1>2, <1>3, <2>1, <2>3 DEF Bookable, TokensCeiling, RoundTokens, CallTokens, m
  <2> QED BY <2>2, <2>3
<1> QED BY <1>6, <1>7, <1>16

LEMMA InitDay == Init => Day
<1> SUFFICES ASSUME Init PROVE Day
  OBVIOUS
<1>1. /\ admission = {} /\ chatting = 0 /\ used["chats"] = 0
      /\ today.tokens = 0 /\ today.dollars = 0 /\ \A r \in Runs : run[r].lease = 0
  BY DEF Init, Zero, Bounded
<1>2. Pending = 0 /\ OneAdmission /\ TurnsOver = 0
  <2>1. Pending = 0
    BY <1>1 DEF Pending
  <2> QED BY <1>1, <2>1 DEF OneAdmission, TurnsOver
<1>3. ExpiredGone /\ Snapshots
  BY <1>1 DEF ExpiredGone, Snapshots
<1>4. \A r \in Runs : MayBook(r).tokens = 0 /\ MayBook(r).dollars = 0
  BY <1>1 DEF MayBook, Leased, Zero
<1>5. BookableTokens = 0 /\ BookableDollars = 0
  <2> HIDE DEF MayBook
  <2> QED BY <1>4, RunAssumption, SumZero DEF BookableTokens, BookableDollars
<1>6. Bookable
  <2>1. TurnsOver * CallTokens = 0 /\ TurnsOver * CallDollars = 0
    BY <1>2, DearestCall, TimesFacts
  <2>2. /\ today.tokens + BookableTokens < TokensCeiling + TurnsOver * CallTokens
        /\ today.dollars + BookableDollars < DollarsCeiling + TurnsOver * CallDollars
    BY <1>1, <1>5, <2>1, CeilingNumbers
  <2> QED BY <2>2 DEF Bookable
<1> QED BY <1>2, <1>3, <1>6 DEF Day

\* A worker at work lingers already, whatever it counts and reports.
LEMMA WorkerDay ==
    ASSUME TypeOK, TypeOK', Day, NEW l \in Leases, worker[l].phase \in {"running", "halting"},
           \A k \in Leases \ {l} : worker'[k] = worker[k],
           \A p \in posts' : p \in posts \/ p.lease = l,
           UNCHANGED <<run, ledger, today, handling, admission, chatting, causes>>,
           used'["chats"] = used["chats"]
    PROVE  Day'
<1>1. \A k \in Leases : Lingers(k)' => Lingers(k)
  <2> SUFFICES ASSUME NEW k \in Leases, Lingers(k)' PROVE Lingers(k)
    OBVIOUS
  <2>1. CASE k = l
    BY <2>1 DEF Lingers
  <2>2. CASE k # l
    BY <2>2 DEF Lingers
  <2> QED BY <2>1, <2>2
<1> QED BY <1>1, QuietDay

\* An admission reads the spend as it is, once per source.
LEMMA ReadDay ==
    ASSUME TypeOK, TypeOK', Day, NEW source \in {"worker_claim", "chat_post"}, ReadSpend(source)
    PROVE  Day'
<1>1. /\ \A a \in admission : a.source # source
      /\ admission' = admission \cup {[source |-> source, spend |-> today]}
      /\ UNCHANGED <<run, ledger, today, worker, posts, handling, chatting, causes>>
      /\ used'["chats"] = used["chats"] + (IF source = "chat_post" THEN 1 ELSE 0)
  BY DEF ReadSpend, TypeOK, Bounded
<1>2. /\ used["chats"] \in Nat /\ chatting \in Nat /\ Pending \in {0, 1}
      /\ TurnsOver \in Nat /\ OneAdmission
  BY TurnNumbers DEF Day
<1>3. Pending' = Pending + (IF source = "chat_post" THEN 1 ELSE 0)
  <2> DEFINE a == [source |-> source, spend |-> today]
  <2>1. a.source = source
    OBVIOUS
  <2>2. admission' = admission \cup {a}
    BY <1>1
  <2> HIDE DEF a
  <2>3. CASE source = "chat_post"
    <3>1. Pending' = 1 /\ Pending = 0
      BY <1>1, <2>1, <2>2, <2>3 DEF Pending
    <3> QED BY <2>3, <3>1
  <2>4. CASE source # "chat_post"
    <3>1. Pending' = Pending
      BY <2>1, <2>2, <2>4 DEF Pending
    <3> QED BY <1>2, <2>4, <3>1
  <2> QED BY <2>3, <2>4
<1>4. OneAdmission' /\ TurnsOver' = TurnsOver
  BY <1>1, <1>2, <1>3 DEF OneAdmission, TurnsOver
<1>5. causes' = {} => ExpiredGone'
  BY <1>1 DEF Day, ExpiredGone, Lingers
<1>6. \A r \in Runs : MayBook(r)' = MayBook(r)
  BY <1>1 DEF MayBook, Leased
<1>7. \A a \in admission' : a \in admission \/ a.spend = today'
  BY <1>1
<1>8. TurnsOver <= TurnsOver' /\ today'.tokens <= today.tokens /\ today'.dollars <= today.dollars
  BY <1>1, <1>2, <1>4, DayNumbers
<1> QED BY <1>1, <1>4, <1>5, <1>6, <1>7, <1>8, DayKeeps

\* An admission that ends without a claim books nothing.
LEMMA RefusedDay ==
    ASSUME TypeOK, TypeOK', Day, NEW a \in admission, admission' = admission \ {a},
           UNCHANGED <<run, ledger, today, worker, posts, handling, causes, used>>,
           \/ a.source = "worker_claim" /\ chatting' = chatting
           \/ a.source = "chat_post" /\ chatting' \in {chatting, chatting + 1}
    PROVE  Day'
<1>1. /\ used["chats"] \in Nat /\ chatting \in Nat /\ Pending \in {0, 1}
      /\ TurnsOver \in Nat /\ OneAdmission /\ chatting + Pending <= used["chats"]
  BY TurnNumbers DEF Day, OneAdmission
<1>2. /\ \A b, c \in admission' : b.source = c.source => b = c
      /\ \A b \in admission' : b.source # a.source
  BY <1>1 DEF OneAdmission
<1>3. chatting' + Pending' <= chatting + Pending /\ chatting' + Pending' \in Nat
  <2>1. CASE a.source = "worker_claim"
    <3>1. Pending' = Pending
      BY <2>1 DEF Pending
    <3> QED BY <1>1, <2>1, <3>1
  <2>2. CASE a.source = "chat_post"
    <3>1. Pending' = 0 /\ Pending = 1
      BY <1>2, <2>2 DEF Pending
    <3> QED BY <1>1, <2>2, <3>1
  <2> QED BY <2>1, <2>2
<1>4. OneAdmission' /\ TurnsOver <= TurnsOver'
  BY <1>1, <1>2, <1>3 DEF OneAdmission, TurnsOver
<1>5. causes' = {} => ExpiredGone'
  BY DEF Day, ExpiredGone, Lingers
<1>6. \A r \in Runs : MayBook(r)' = MayBook(r)
  BY DEF MayBook, Leased
<1>7. today'.tokens <= today.tokens /\ today'.dollars <= today.dollars
  BY DayNumbers
<1> QED BY <1>4, <1>5, <1>6, <1>7, DayKeeps

\* A row without a lease that counts promises nothing.
LEMMA RowDay ==
    ASSUME TypeOK, TypeOK', Day, NEW r \in Runs, ~Leased(r)',
           \A q \in Runs \ {r} : run'[q] = run[q],
           run'[r].expired /\ run'[r].lease # 0 /\ causes' = {} => ~Lingers(run[r].lease)',
           UNCHANGED <<ledger, today, worker, posts, handling, admission, chatting>>,
           causes \subseteq causes', used'["chats"] = used["chats"]
    PROVE  Day'
<1>1. OneAdmission' /\ TurnsOver' = TurnsOver
  BY DEF Day, OneAdmission, TurnsOver, Pending
<1>2. causes' = {} => ExpiredGone'
  <2> SUFFICES ASSUME causes' = {}, NEW q \in Runs, run'[q].expired, run'[q].lease # 0
               PROVE  ~Lingers(run[q].lease)'
    BY DEF ExpiredGone
  <2>1. CASE q = r
    BY <2>1
  <2>2. CASE q # r
    <3>1. run'[q] = run[q]
      BY <2>2
    <3>2. ~Lingers(run[q].lease)
      BY <3>1 DEF Day, ExpiredGone
    <3> QED BY <3>1, <3>2 DEF Lingers
  <2> QED BY <2>1, <2>2
<1>3. \A q \in Runs : MayBook(q)' = MayBook(q) \/ MayBook(q)' = Zero
  <2>1. MayBook(r)' = Zero
    BY DEF MayBook, Zero
  <2>2. ASSUME NEW q \in Runs \ {r} PROVE MayBook(q)' = MayBook(q)
    <3>1. run'[q] = run[q] /\ ledger'[q] = ledger[q]
      OBVIOUS
    <3> QED BY <3>1 DEF MayBook, Leased
  <2> QED BY <2>1, <2>2
<1>4. TurnsOver <= TurnsOver' /\ today'.tokens <= today.tokens /\ today'.dollars <= today.dollars
  BY <1>1, TurnNumbers, DayNumbers DEF Day
<1> QED BY <1>1, <1>2, <1>3, <1>4, DayKeeps

LEMMA NextDay == IInv /\ Cap /\ Day /\ [Next]_vars => Day'
<1> SUFFICES ASSUME IInv, Cap, Day, [Next]_vars PROVE Day'
  OBVIOUS
<1>1. TypeOK /\ TypeOK' /\ Cap'
  BY NextTypeOK, NextCapped DEF IInv, Books
<1>2. ASSUME NEW l \in Leases, BudgetCheck(l) PROVE Day'
  <2>1. \A k \in Leases \ {l} : worker'[k] = worker[k]
    BY <1>1, <1>2 DEF BudgetCheck, TypeOK
  <2> QED BY <1>1, <1>2, <2>1, WorkerDay DEF BudgetCheck
<1>3. ASSUME NEW l \in Leases, NEW c \in Calls, Track(l, c) PROVE Day'
  <2>1. \A k \in Leases \ {l} : worker'[k] = worker[k]
    BY <1>1, <1>3 DEF Track, TypeOK
  <2> QED BY <1>1, <1>3, <2>1, WorkerDay DEF Track
<1>4. ASSUME NEW l \in Leases, Heartbeat(l) PROVE Day'
  <2>1. \A k \in Leases \ {l} : worker'[k] = worker[k]
    BY <1>1, <1>4 DEF Heartbeat, TypeOK
  <2>2. \A p \in posts' : p \in posts \/ p.lease = l
    BY <1>4 DEF Heartbeat, ReportOf
  <2>3. used'["chats"] = used["chats"]
    BY <1>1, <1>4 DEF Heartbeat, TypeOK, Bounded
  <2> QED BY <1>1, <1>4, <2>1, <2>2, <2>3, WorkerDay DEF Heartbeat
<1>5. ASSUME NEW l \in Leases, NEW kind \in Kinds, Finish(l, kind) PROVE Day'
  <2>1. \A k \in Leases \ {l} : worker'[k] = worker[k]
    BY <1>1, <1>5 DEF Finish, TypeOK
  <2>2. \A p \in posts' : p \in posts \/ p.lease = l
    BY <1>5 DEF Finish, ReportOf
  <2> QED BY <1>1, <1>5, <2>1, <2>2, WorkerDay DEF Finish
<1>6. ASSUME NEW l \in Leases, Crash(l) PROVE Day'
  <2>1. \A k \in Leases \ {l} : worker'[k] = worker[k]
    BY <1>1, <1>6 DEF Crash, TypeOK
  <2>2. used'["chats"] = used["chats"]
    BY <1>1, <1>6 DEF Crash, TypeOK, Bounded
  <2> QED BY <1>1, <1>6, <2>1, <2>2, WorkerDay DEF Crash
<1>7. ASSUME NEW p \in posts, Handle(p) PROVE Day'
  <2>1. RecordSpendDelta(p).report = p
    BY DEF RecordSpendDelta
  <2>2. /\ posts' \subseteq posts /\ handling' = handling \cup {RecordSpendDelta(p)}
        /\ UNCHANGED <<run, ledger, today, worker, admission, chatting, used>>
        /\ causes \subseteq causes'
    BY <1>7 DEF Handle
  <2>3. \A k \in Leases : Lingers(k)' => Lingers(k)
    BY <2>1, <2>2 DEF Lingers
  <2> QED BY <1>1, <2>2, <2>3, QuietDay
<1>8. ASSUME NEW h \in handling, Commit(h) PROVE Day'
  <2>1. RunOf(h.report.lease) \in Runs
    BY Numbers DEF IInv, Books
  <2> QED BY <1>1, <1>8, <2>1, CommitDay
<1>9. ASSUME NEW h \in handling, Conflict(h) PROVE Day'
  <2>1. /\ handling' \subseteq handling
        /\ UNCHANGED <<run, ledger, today, worker, posts, admission, chatting, causes, used>>
    BY <1>9 DEF Conflict
  <2>2. \A k \in Leases : Lingers(k)' => Lingers(k)
    BY <2>1 DEF Lingers
  <2> QED BY <1>1, <2>1, <2>2, QuietDay
<1>10. ASSUME NEW source \in {"worker_claim", "chat_post"}, ReadSpend(source) PROVE Day'
  BY <1>1, <1>10, ReadDay
<1>11. ASSUME NEW r \in Runs, NEW l \in Leases, ClaimRun(r, l) PROVE Day'
  BY <1>1, <1>11, ClaimDay
<1>12. CASE NoClaim
  <2>1. PICK a \in admission : a.source = "worker_claim" /\ admission' = admission \ {a}
    BY <1>12 DEF NoClaim
  <2> QED BY <1>1, <1>12, <2>1, RefusedDay DEF NoClaim
<1>13. CASE ChatPost
  <2>1. PICK a \in admission : /\ a.source = "chat_post" /\ admission' = admission \ {a}
                               /\ chatting' \in {chatting, chatting + 1}
    BY <1>13 DEF ChatPost
  <2> QED BY <1>1, <1>13, <2>1, RefusedDay DEF ChatPost
<1>14. ASSUME NEW c \in Calls, NEW persisted \in BOOLEAN, ChatTurn(c, persisted) PROVE Day'
  BY <1>1, <1>14, TurnDay
<1>15. ASSUME NEW r \in Runs, LeaseExpires(r) PROVE Day'
  <2>1. /\ run'[r].expired /\ run'[r].lease = run[r].lease
        /\ \A q \in Runs \ {r} : run'[q] = run[q]
        /\ used'["chats"] = used["chats"]
    BY <1>1, <1>15 DEF LeaseExpires, TypeOK, Row, Bounded
  <2>2. ~Leased(r)'
    BY <2>1 DEF Leased
  <2>3. /\ UNCHANGED <<ledger, today, worker, posts, handling, admission, chatting>>
        /\ causes \subseteq causes' /\ (Lingers(run[r].lease) => causes' # {})
    BY <1>15 DEF LeaseExpires
  <2>4. causes' = {} => ~Lingers(run[r].lease)'
    BY <2>1, <2>3 DEF Lingers
  <2> QED BY <1>1, <2>1, <2>2, <2>3, <2>4, RowDay
<1>16. ASSUME NEW r \in Runs, NEW b \in Budgets, UnlockRun(r, b) PROVE Day'
  <2>1. /\ run'[r].lease = 0 /\ \A q \in Runs \ {r} : run'[q] = run[q]
        /\ used'["chats"] = used["chats"]
        /\ UNCHANGED <<ledger, today, worker, posts, handling, admission, chatting, causes>>
    BY <1>1, <1>16 DEF UnlockRun, TypeOK, Row, Bounded
  <2>2. ~Leased(r)'
    BY <2>1 DEF Leased
  <2> QED BY <1>1, <2>1, <2>2, RowDay
<1>17. CASE NewDay
  <2>1. /\ UNCHANGED <<run, ledger, worker, posts, handling, admission, chatting, causes>>
        /\ today' = Zero /\ used'["chats"] = used["chats"]
    BY <1>1, <1>17 DEF NewDay, TypeOK, Bounded
  <2>2. OneAdmission' /\ TurnsOver' = TurnsOver
    BY <2>1 DEF Day, OneAdmission, TurnsOver, Pending
  <2>3. causes' = {} => ExpiredGone'
    BY <2>1 DEF Day, ExpiredGone, Lingers
  <2>4. \A r \in Runs : MayBook(r)' = MayBook(r)
    BY <2>1 DEF MayBook, Leased
  <2>5. /\ TurnsOver <= TurnsOver'
        /\ today'.tokens <= today.tokens /\ today'.dollars <= today.dollars
    BY <1>1, <2>1, <2>2, TurnNumbers, DayNumbers DEF Day, Zero
  <2> QED BY <1>1, <2>1, <2>2, <2>3, <2>4, <2>5, DayKeeps
<1>18. CASE UNCHANGED vars
  <2>1. UNCHANGED <<run, ledger, today, worker, posts, handling, admission, chatting, causes, used>>
    BY <1>18 DEF vars
  <2>2. \A k \in Leases : Lingers(k)' => Lingers(k)
    BY <2>1 DEF Lingers
  <2> QED BY <1>1, <2>1, <2>2, QuietDay
<1> QED BY <1>2, <1>3, <1>4, <1>5, <1>6, <1>7, <1>8, <1>9, <1>10, <1>11, <1>12, <1>13, <1>14,
           <1>15, <1>16, <1>17, <1>18 DEF Next

-----------------------------------------------------------------------------
(***************************************************************************)
(* The chat turns                                                          *)
(***************************************************************************)

\* A turn knows the total it was started with and what it spent since; one that stops
\* for the budget has reached it.
SoundTurn(w, spent) ==
    /\ w.enforced <= w.dollars
    /\ w.at = "none" => w = NoTurn
    /\ w.at \notin {"none", "done", "cancelled"} =>
         /\ w.stop \notin {"refused", "error"} /\ w.prior <= spent
         /\ w.stop = "budget_exhausted" => Tracking /\ w.prior + w.enforced >= Budget

\* A spend that passes the budget by less than the dearest answer.
Near(spent) ==
    \A c \in Answers : (\A d \in Answers : d.dollars <= c.dollars) => spent < Budget + c.dollars

\* A turn that is alone knows the total as it is, calls the model below the budget only,
\* and has passed it by one answer at most.
LoneTurn(w, spent) ==
    w.at \notin {"none", "done", "cancelled"} =>
        /\ w.prior = spent
        /\ w.at = "posted" => w.enforced = 0
        /\ w.at = "calling" => (Tracking => w.prior + w.enforced < Budget)
        /\ w.at # "posted" => (Tracking => Near(w.prior + w.enforced))

Budgeted ==
    /\ conversation.unpriced <= conversation.dollars
    /\ \A t \in Turns : SoundTurn(turn[t], Enforceable)
    /\ conversation.status = "budget_exhausted" => Tracking /\ Enforceable >= Budget
    /\ ~overlapped =>
         /\ \A t, u \in Turns : Live(t) /\ Live(u) => t = u
         /\ \A t \in Turns : LoneTurn(turn[t], Enforceable)
         /\ Tracking => Near(Enforceable)

\* A proposal is stored by the turn that made it, a confirmation reads a proposal that
\* is stored, and what was carried out is marked.
Stored ==
    /\ \A t \in Turns : action[t] # "none" =>
         Finished(t) /\ turn[t].proposed /\ turn[t].stop # "disconnected"
    /\ \A c \in Clicks : click[c].at = "read" => action[click[c].of] # "none"
    /\ \A t \in Turns : decisions[t] > 0 => action[t] = "confirmed"

\* Without a race one confirmation at a time has read a proposal that nobody has carried
\* out.
Single ==
    ~raced =>
        /\ \A t \in Turns : decisions[t] <= 1
        /\ \A c \in Clicks : click[c].at = "read" => decisions[click[c].of] = 0
        /\ \A c, d \in Clicks : click[c].at = "read" /\ click[d].at = "read"
                                    /\ click[c].of = click[d].of => c = d

ChatInv == ChatTypeOK /\ Budgeted /\ Stored /\ Single /\ BillComplete

LEMMA TotalsFacts ==
    ASSUME ChatInv
    PROVE  /\ conversation.dollars \in Nat /\ conversation.unpriced \in Nat
           /\ Enforceable \in Nat /\ Budget \in Nat
<1>1. conversation.dollars \in Nat /\ conversation.unpriced \in Nat
  BY DEF ChatInv, ChatTypeOK
<1> QED BY <1>1, ChatAssumption DEF ChatInv, Budgeted, Enforceable

\* The bill stands while no turn finishes and none that has finished is touched.
LEMMA BillKept ==
    ASSUME ChatInv, UNCHANGED <<conversation>>,
           \A t \in Turns : /\ Finished(t)' <=> Finished(t)
                            /\ Finished(t) => turn'[t] = turn[t],
           ChatTypeOK'
    PROVE  BillComplete'
<1> DEFINE F == {t \in Turns : Finished(t)}
           f == [t \in Turns |-> turn[t].dollars]
           g == [t \in Turns |-> turn'[t].dollars]
           p == [t \in Turns |-> turn[t].enforced]
           q == [t \in Turns |-> turn'[t].enforced]
<1>1. {t \in Turns : Finished(t)'} = F
  OBVIOUS
<1>2. IsFiniteSet(F)
  BY ChatAssumption, FS_Subset
<1>3. \A t \in F : /\ f[t] \in Nat /\ g[t] = f[t]
                   /\ p[t] \in Nat /\ q[t] = p[t]
  BY DEF ChatInv, ChatTypeOK, TurnState
<1> HIDE DEF F
<1>4. SumFunctionOnSet(f, F) = SumFunctionOnSet(g, F)
  <2> HIDE DEF f, g
  <2> QED BY <1>2, <1>3, SumSame
<1>5. SumFunctionOnSet(p, F) = SumFunctionOnSet(q, F)
  <2> HIDE DEF p, q
  <2> QED BY <1>2, <1>3, SumSame
<1>6. /\ conversation.dollars = SumFunctionOnSet(f, F)
      /\ Enforceable = SumFunctionOnSet(p, F)
  BY DEF ChatInv, BillComplete, F
<1>7. Enforceable' = Enforceable
  BY DEF Enforceable
<1> HIDE DEF f, g, p, q
<1>8. /\ conversation'.dollars = SumFunctionOnSet(g, F)
      /\ Enforceable' = SumFunctionOnSet(q, F)
  BY <1>4, <1>5, <1>6, <1>7
<1> QED BY <1>1, <1>8 DEF BillComplete, g, q

\* A step of a turn that is under way and writes nothing.
LEMMA TurnKeeps ==
    ASSUME ChatInv, NEW t \in Turns, NEW w \in TurnState, Live(t),
           turn' = [turn EXCEPT ![t] = w], UNCHANGED <<conversation, Chat>>,
           w.at = "done" => w.stop \in {"refused", "error"}, w.at # "none",
           SoundTurn(w, Enforceable),
           LoneTurn(turn[t], Enforceable) => LoneTurn(w, Enforceable)
    PROVE  ChatInv'
<1>1. /\ turn'[t] = w /\ \A u \in Turns \ {t} : turn'[u] = turn[u]
      /\ ChatTypeOK'
  BY DEF ChatInv, ChatTypeOK, Chat
<1>2. /\ UNCHANGED <<conversation, action, click, decisions, overlapped, raced>>
      /\ Enforceable' = Enforceable
  BY DEF Chat, Enforceable
<1>3. \A u \in Turns : /\ Finished(u)' <=> Finished(u)
                       /\ Finished(u) => turn'[u] = turn[u]
  BY <1>1 DEF Finished, Live
<1>4. BillComplete'
  BY <1>1, <1>2, <1>3, BillKept
<1>5. Budgeted'
  <2>1. \A u \in Turns : SoundTurn(turn'[u], Enforceable')
    BY <1>1, <1>2 DEF ChatInv, Budgeted
  <2>2. ASSUME ~overlapped
        PROVE  /\ \A u, v \in Turns : Live(u)' /\ Live(v)' => u = v
               /\ \A u \in Turns : LoneTurn(turn'[u], Enforceable')
    BY <1>1, <1>2, <2>2 DEF ChatInv, Budgeted, Live
  <2> QED BY <1>2, <2>1, <2>2 DEF ChatInv, Budgeted, SoundTurn, LoneTurn, Near
<1>6. Stored' /\ Single'
  BY <1>1, <1>2, <1>3 DEF ChatInv, Stored, Single
<1> QED BY <1>1, <1>4, <1>5, <1>6 DEF ChatInv

LEMMA StreamKeeps ==
    ASSUME ChatInv, NEW t \in Turns,
           \/ StartTurn(t) \/ CallModel(t) \/ StopCalling(t) \/ UseTool(t) \/ NextIteration(t)
           \/ FailTurn(t) \/ WriteTurn(t) \/ Disconnect(t) \/ Cancel(t)
    PROVE  ChatInv'
<1> DEFINE w == turn[t]
<1>1. /\ turn \in [Turns -> TurnState] /\ w \in TurnState
      /\ SoundTurn(w, Enforceable) /\ Enforceable \in Nat
      /\ Budget \in Nat \ {0} /\ MAX_TOOL_ITERATIONS \in Nat
      /\ w.prior \in Nat /\ w.enforced \in Nat /\ w.dollars \in Nat
  BY TotalsFacts, ChatAssumption DEF ChatInv, ChatTypeOK, Budgeted, TurnState
<1>2. NoTurn \in TurnState /\ NoTurn.dollars = 0 /\ NoTurn.enforced = 0
  BY <1>1 DEF NoTurn, TurnState, Stages
<1>3. CASE Cancel(t)
  <2> DEFINE n == [NoTurn EXCEPT !.at = "cancelled"]
  <2>1. n \in TurnState /\ n.at = "cancelled" /\ n.dollars = 0 /\ n.enforced = 0
    BY <1>2 DEF TurnState, Stages
  <2>2. turn' = [turn EXCEPT ![t] = n] /\ Live(t) /\ UNCHANGED <<conversation, Chat>>
    BY <1>3 DEF Cancel
  <2> HIDE DEF n
  <2>3. SoundTurn(n, Enforceable) /\ LoneTurn(n, Enforceable)
    BY <2>1 DEF SoundTurn, LoneTurn
  <2> QED BY <2>1, <2>2, <2>3, TurnKeeps
<1>4. CASE FailTurn(t)
  <2> DEFINE n == [NoTurn EXCEPT !.at = "done", !.stop = "error"]
  <2>1. n \in TurnState /\ n.at = "done" /\ n.stop = "error" /\ n.dollars = 0 /\ n.enforced = 0
    BY <1>2 DEF TurnState, Stages
  <2>2. turn' = [turn EXCEPT ![t] = n] /\ Live(t) /\ UNCHANGED <<conversation, Chat>>
    BY <1>4 DEF FailTurn, Live
  <2> HIDE DEF n
  <2>3. SoundTurn(n, Enforceable) /\ LoneTurn(n, Enforceable)
    BY <2>1 DEF SoundTurn, LoneTurn
  <2> QED BY <2>1, <2>2, <2>3, TurnKeeps
<1>5. CASE StartTurn(t) /\ Exhausted(w.prior, w)
  <2> DEFINE n == [NoTurn EXCEPT !.at = "done", !.stop = "refused"]
  <2>1. n \in TurnState /\ n.at = "done" /\ n.stop = "refused" /\ n.dollars = 0 /\ n.enforced = 0
    BY <1>2 DEF TurnState, Stages
  <2>2. turn' = [turn EXCEPT ![t] = n] /\ Live(t) /\ UNCHANGED <<conversation, Chat>>
    BY <1>5 DEF StartTurn, Live
  <2> HIDE DEF n
  <2>3. SoundTurn(n, Enforceable) /\ LoneTurn(n, Enforceable)
    BY <2>1 DEF SoundTurn, LoneTurn
  <2> QED BY <2>1, <2>2, <2>3, TurnKeeps
\* The turn calls the model only below the budget.
<1>6. ASSUME Live(t), w.at \in {"posted", "acting"}, ~Exhausted(w.prior, w),
             turn' = [turn EXCEPT ![t].at = "calling"], UNCHANGED <<conversation, Chat>>
      PROVE  ChatInv'
  <2> DEFINE n == [w EXCEPT !.at = "calling"]
  <2>1. /\ n \in TurnState /\ n.at = "calling" /\ n.prior = w.prior /\ n.dollars = w.dollars
        /\ n.enforced = w.enforced /\ n.stop = w.stop
    BY <1>1 DEF TurnState, Stages
  <2>2. turn' = [turn EXCEPT ![t] = n]
    BY <1>6
  <2> HIDE DEF n
  <2>3. SoundTurn(n, Enforceable)
    BY <1>1, <1>6, <2>1 DEF SoundTurn, Live
  <2>4. ASSUME LoneTurn(w, Enforceable) PROVE LoneTurn(n, Enforceable)
    <3>1. Tracking => n.prior + n.enforced < Budget
      BY <1>1, <1>6, <2>1 DEF Exhausted
    <3>2. Tracking => Near(n.prior + n.enforced)
      BY <1>1, <2>1, <3>1, ChatAssumption DEF Near
    <3> QED BY <1>6, <2>1, <2>4, <3>1, <3>2 DEF LoneTurn, Live
  <2> QED BY <1>6, <2>1, <2>2, <2>3, <2>4, TurnKeeps
<1>7. CASE StartTurn(t) /\ ~Exhausted(w.prior, w)
  BY <1>6, <1>7 DEF StartTurn, Live
<1>8. CASE CallModel(t)
  <2>1. PICK c \in Answers, asked \in SUBSET Tools : turn' = [turn EXCEPT ![t] = Answered(w, c, asked)]
    BY <1>8 DEF CallModel
  <2> DEFINE n == Answered(w, c, asked)
             price == IF c.unpriced THEN 0 ELSE c.dollars
             next == IF asked = {} THEN "ending" ELSE "acting"
             more == w.iterations + 1
             dollars == w.dollars + c.dollars
             enforced == w.enforced + price
  <2>2. /\ w.at = "calling" /\ w.iterations < MAX_TOOL_ITERATIONS /\ Live(t)
        /\ UNCHANGED <<conversation, Chat>>
    BY <1>8 DEF CallModel, Live
  <2>3. /\ c.dollars \in Nat /\ price \in Nat /\ price <= c.dollars
        /\ \A d \in Answers : d.dollars \in Nat
    BY ChatAssumption
  <2>4. w.iterations \in 0..MAX_TOOL_ITERATIONS
    BY <1>1 DEF TurnState
  <2>5. n = [w EXCEPT !.at = next, !.iterations = more, !.dollars = dollars,
                      !.enforced = enforced, !.asked = asked]
    BY DEF Answered
  <2>6. /\ next \in {"ending", "acting"} /\ more \in 0..MAX_TOOL_ITERATIONS
        /\ dollars \in Nat /\ enforced \in Nat
    BY <1>1, <2>2, <2>3, <2>4
  <2> HIDE DEF n, next, more, dollars, enforced
  <2>7. /\ n \in TurnState /\ n.at = next /\ n.prior = w.prior /\ n.dollars = dollars
        /\ n.enforced = enforced /\ n.stop = w.stop
    BY <1>1, <2>5, <2>6 DEF TurnState, Stages
  <2> HIDE DEF price
  <2>8. SoundTurn(n, Enforceable)
    BY <1>1, <2>2, <2>3, <2>6, <2>7 DEF SoundTurn, dollars, enforced
  <2>9. ASSUME LoneTurn(w, Enforceable) PROVE LoneTurn(n, Enforceable)
    <3>1. w.prior = Enforceable /\ (Tracking => w.prior + w.enforced < Budget)
      BY <2>2, <2>9 DEF LoneTurn
    <3>2. ASSUME Tracking PROVE Near(w.prior + (w.enforced + price))
      <4> SUFFICES ASSUME NEW d \in Answers, \A k \in Answers : k.dollars <= d.dollars
                   PROVE  w.prior + (w.enforced + price) < Budget + d.dollars
        BY DEF Near
      <4>1. c.dollars <= d.dollars /\ d.dollars \in Nat /\ w.prior + w.enforced < Budget
        BY <2>3, <3>1, <3>2
      <4> HIDE DEF w
      <4> QED BY <1>1, <2>3, <4>1
    <3> QED BY <2>6, <2>7, <3>1, <3>2 DEF LoneTurn, enforced
  <2> QED BY <2>1, <2>2, <2>6, <2>7, <2>8, <2>9, TurnKeeps DEF n
\* The loop is left, at the end, without a client or without a budget.
<1>9. ASSUME NEW reason \in {"end_turn", "disconnected", "budget_exhausted"}, Ends(t, reason),
             w.at \in {"calling", "acting"}, UNCHANGED <<conversation, Chat>>,
             reason = "budget_exhausted" => Exhausted(w.prior, w)
      PROVE  ChatInv'
  <2> DEFINE n == [w EXCEPT !.at = "ending", !.stop = reason, !.asked = {}]
  <2>1. /\ n \in TurnState /\ n.at = "ending" /\ n.prior = w.prior /\ n.dollars = w.dollars
        /\ n.enforced = w.enforced /\ n.stop = reason
    BY <1>1, <1>9 DEF TurnState, Stages
  <2>2. turn' = [turn EXCEPT ![t] = n] /\ Live(t)
    BY <1>1, <1>9 DEF Ends, Live
  <2> HIDE DEF n
  <2>3. SoundTurn(n, Enforceable)
    BY <1>1, <1>9, <2>1, <2>2 DEF SoundTurn, Live, Exhausted
  <2>4. ASSUME LoneTurn(w, Enforceable) PROVE LoneTurn(n, Enforceable)
    BY <1>9, <2>1, <2>4 DEF LoneTurn
  <2> QED BY <1>9, <2>1, <2>2, <2>3, <2>4, TurnKeeps
<1>10. CASE StopCalling(t)
  BY <1>9, <1>10 DEF StopCalling
<1>11. CASE NextIteration(t)
  BY <1>6, <1>9, <1>11 DEF NextIteration, Live
\* What a turn uses, holds or hears of its client does not change what it spent.
<1>12. ASSUME NEW n \in TurnState, Live(t), turn' = [turn EXCEPT ![t] = n],
              n.at = w.at \/ (w.at = "ending" /\ n.at = "written"), n.prior = w.prior,
              n.dollars = w.dollars, n.enforced = w.enforced, n.stop = w.stop,
              UNCHANGED <<conversation, Chat>>
       PROVE  ChatInv'
  <2>1. SoundTurn(n, Enforceable)
    BY <1>1, <1>12 DEF SoundTurn, Live
  <2>2. ASSUME LoneTurn(w, Enforceable) PROVE LoneTurn(n, Enforceable)
    BY <1>12, <2>2 DEF LoneTurn, Live
  <2> QED BY <1>12, <2>1, <2>2, TurnKeeps DEF Live
<1>13. CASE Disconnect(t)
  <2> DEFINE n == [w EXCEPT !.gone = TRUE]
  <2>1. /\ n \in TurnState /\ n.at = w.at /\ n.prior = w.prior /\ n.dollars = w.dollars
        /\ n.enforced = w.enforced /\ n.stop = w.stop
    BY <1>1 DEF TurnState
  <2>2. turn' = [turn EXCEPT ![t] = n] /\ Live(t) /\ UNCHANGED <<conversation, Chat>>
    BY <1>13 DEF Disconnect
  <2> HIDE DEF n
  <2> QED BY <1>12, <2>1, <2>2
<1>14. CASE WriteTurn(t)
  <2> DEFINE n == [w EXCEPT !.at = "written", !.holds = "conversation"]
  <2>1. /\ n \in TurnState /\ n.at = "written" /\ n.prior = w.prior /\ n.dollars = w.dollars
        /\ n.enforced = w.enforced /\ n.stop = w.stop
    BY <1>1 DEF TurnState, Stages
  <2>2. /\ turn' = [turn EXCEPT ![t] = n] /\ Live(t) /\ w.at = "ending"
        /\ UNCHANGED <<conversation, Chat>>
    BY <1>1, <1>14 DEF WriteTurn, Live
  <2> HIDE DEF n
  <2> QED BY <1>12, <2>1, <2>2
<1>15. CASE UseTool(t)
  <2>1. PICK tool \in w.asked :
          LET v == [w EXCEPT !.asked = @ \ {tool}]
          IN  \/ \E valid \in BOOLEAN :
                   turn' = [turn EXCEPT ![t] = [v EXCEPT !.proposed = @ \/ valid]]
              \/ turn' = [turn EXCEPT ![t] = [v EXCEPT !.holds = IF @ = "nothing" THEN "rows" ELSE @]]
              \/ turn' = [turn EXCEPT ![t] = [v EXCEPT !.holds = "conversation"]]
    BY <1>15 DEF UseTool
  <2> DEFINE v == [w EXCEPT !.asked = w.asked \ {tool}]
  <2>2. /\ v \in TurnState /\ v.at = w.at /\ v.prior = w.prior /\ v.dollars = w.dollars
        /\ v.enforced = w.enforced /\ v.stop = w.stop
    BY <1>1 DEF TurnState
  <2>3. PICK n \in TurnState : /\ turn' = [turn EXCEPT ![t] = n]
                               /\ n.at = v.at /\ n.prior = v.prior /\ n.dollars = v.dollars
                               /\ n.enforced = v.enforced /\ n.stop = v.stop
    <3> DEFINE Like(n) == /\ n \in TurnState /\ n.at = v.at /\ n.prior = v.prior
                          /\ n.dollars = v.dollars /\ n.enforced = v.enforced
                          /\ n.stop = v.stop
               kept == IF v.holds = "nothing" THEN "rows" ELSE v.holds
    <3>1. \/ \E valid \in BOOLEAN :
               turn' = [turn EXCEPT ![t] = [v EXCEPT !.proposed = v.proposed \/ valid]]
          \/ turn' = [turn EXCEPT ![t] = [v EXCEPT !.holds = kept]]
          \/ turn' = [turn EXCEPT ![t] = [v EXCEPT !.holds = "conversation"]]
      BY <2>1
    <3> HIDE DEF v
    <3>2. v.proposed \in BOOLEAN /\ kept \in {"nothing", "rows", "conversation"}
      BY <2>2 DEF TurnState
    <3>3. \A b \in BOOLEAN : Like([v EXCEPT !.proposed = b])
      BY <2>2 DEF TurnState
    <3>4. \A held \in {"nothing", "rows", "conversation"} : Like([v EXCEPT !.holds = held])
      BY <2>2 DEF TurnState
    <3> HIDE DEF kept, Like
    <3>5. \E n : Like(n) /\ turn' = [turn EXCEPT ![t] = n]
      BY <3>1, <3>2, <3>3, <3>4
    <3> QED BY <3>5 DEF Like
  <2>4. Live(t) /\ UNCHANGED <<conversation, Chat>>
    BY <1>15 DEF UseTool, Live
  <2> HIDE DEF v
  <2> QED BY <1>12, <2>2, <2>3, <2>4
<1> QED BY <1>3, <1>4, <1>5, <1>7, <1>8, <1>10, <1>11, <1>13, <1>14, <1>15

\* A turn that is posted knows the total as it is; alone it is when no other is live.
LEMMA PostKeeps ==
    ASSUME ChatInv, NEW t \in Turns, PostMessage(t)
    PROVE  ChatInv'
<1> DEFINE w == turn[t]
           n == [w EXCEPT !.at = "posted", !.prior = Enforceable]
<1>1. /\ turn \in [Turns -> TurnState] /\ w \in TurnState /\ w.at = "none"
      /\ SoundTurn(w, Enforceable) /\ Enforceable \in Nat /\ Budget \in Nat \ {0}
      /\ UNCHANGED <<conversation, action, click, decisions, raced>>
      /\ overlapped' = (overlapped \/ \E u \in Turns : Live(u))
      /\ turn' = [turn EXCEPT ![t] = n]
  BY TotalsFacts, ChatAssumption DEF ChatInv, ChatTypeOK, Budgeted, PostMessage
<1>2. /\ n \in TurnState /\ n.at = "posted" /\ n.prior = Enforceable
      /\ n.enforced = w.enforced /\ n.dollars = w.dollars /\ n.stop = w.stop
  BY <1>1 DEF TurnState, Stages
<1> HIDE DEF n
<1>3. /\ turn'[t] = n /\ \A u \in Turns \ {t} : turn'[u] = turn[u]
      /\ Enforceable' = Enforceable
  BY <1>1 DEF Enforceable
<1>4. ChatTypeOK'
  BY <1>1, <1>2 DEF ChatInv, ChatTypeOK
<1>5. \A u \in Turns : /\ Finished(u)' <=> Finished(u)
                       /\ Finished(u) => turn'[u] = turn[u]
  BY <1>1, <1>2, <1>3 DEF Finished
<1>6. BillComplete'
  BY <1>1, <1>4, <1>5, BillKept
<1>7. w = NoTurn
  BY <1>1 DEF SoundTurn
<1>8. /\ w.stop = "end_turn" /\ w.enforced = 0 /\ w.dollars = 0
  BY <1>7 DEF NoTurn
<1>9. Budgeted'
  <2>1. SoundTurn(n, Enforceable)
    BY <1>1, <1>2, <1>8 DEF SoundTurn
  <2>2. LoneTurn(n, Enforceable)
    BY <1>2, <1>8 DEF LoneTurn
  <2>3. \A u \in Turns : SoundTurn(turn'[u], Enforceable')
    BY <1>3, <2>1 DEF ChatInv, Budgeted
  <2>4. ASSUME ~overlapped'
        PROVE  /\ \A u, v \in Turns : Live(u)' /\ Live(v)' => u = v
               /\ \A u \in Turns : LoneTurn(turn'[u], Enforceable')
               /\ Tracking => Near(Enforceable)
    <3>1. ~overlapped /\ \A u \in Turns : ~Live(u)
      BY <1>1, <2>4 DEF ChatInv, ChatTypeOK
    <3> QED BY <1>3, <2>2, <3>1 DEF ChatInv, Budgeted, Live
  <2> QED BY <1>1, <1>3, <2>3, <2>4 DEF ChatInv, Budgeted, SoundTurn, LoneTurn, Near
<1>10. Stored' /\ Single'
  BY <1>1, <1>2, <1>3, <1>5 DEF ChatInv, Stored, Single
<1> QED BY <1>4, <1>6, <1>9, <1>10 DEF ChatInv

\* The bill grows by what the turn that finishes has spent.
LEMMA BillGrows ==
    ASSUME ChatInv, ChatTypeOK', NEW t \in Turns, CommitTurn(t),
           turn[t].stop \notin {"refused", "error"}
    PROVE  BillComplete'
<1> DEFINE w == turn[t]
           F == {u \in Turns : Finished(u)}
           f == [u \in Turns |-> turn[u].dollars]
           g == [u \in Turns |-> turn'[u].dollars]
           p == [u \in Turns |-> turn[u].enforced]
           q == [u \in Turns |-> turn'[u].enforced]
<1>1. /\ w.at = "written" /\ w \in TurnState
      /\ turn'[t] = Closed(w) /\ \A u \in Turns \ {t} : turn'[u] = turn[u]
      /\ conversation' = Billed(w)
      /\ w.dollars \in Nat /\ w.enforced \in Nat /\ w.enforced <= w.dollars
      /\ conversation.dollars \in Nat /\ conversation.unpriced \in Nat
      /\ conversation.unpriced <= conversation.dollars
  BY DEF CommitTurn, ChatInv, ChatTypeOK, TurnState, Budgeted, SoundTurn
<1>2. /\ Closed(w).at = "done" /\ Closed(w).stop = w.stop
      /\ Closed(w).dollars = w.dollars /\ Closed(w).enforced = w.enforced
  BY DEF Closed, NoTurn
<1>3. {u \in Turns : Finished(u)'} = F \cup {t} /\ t \notin F
  BY <1>1, <1>2 DEF Finished
<1>4. IsFiniteSet(F)
  BY ChatAssumption, FS_Subset
<1>5. \A u \in F : /\ f[u] \in Nat /\ g[u] = f[u]
                   /\ p[u] \in Nat /\ q[u] = p[u]
  BY <1>1, <1>3 DEF ChatInv, ChatTypeOK, TurnState
<1>6. g[t] = w.dollars /\ q[t] = w.enforced
  BY <1>1, <1>2
<1>7. /\ conversation.dollars = SumFunctionOnSet(f, F)
      /\ Enforceable = SumFunctionOnSet(p, F)
  BY DEF ChatInv, BillComplete
<1> HIDE DEF F, f, g, p, q
<1>8. SumFunctionOnSet(f, F) = SumFunctionOnSet(g, F)
  BY <1>4, <1>5, SumSame
<1>9. SumFunctionOnSet(p, F) = SumFunctionOnSet(q, F)
  BY <1>4, <1>5, SumSame
<1>10. /\ SumFunctionOnSet(g, F \cup {t}) = w.dollars + SumFunctionOnSet(g, F)
       /\ SumFunctionOnSet(q, F \cup {t}) = w.enforced + SumFunctionOnSet(q, F)
  BY <1>1, <1>3, <1>4, <1>5, <1>6, SumMore
<1>11. /\ conversation'.dollars = conversation.dollars + w.dollars
       /\ conversation'.unpriced = conversation.unpriced + (w.dollars - w.enforced)
  BY <1>1 DEF Billed
<1>12. Enforceable' = Enforceable + w.enforced
  BY <1>1, <1>11 DEF Enforceable
<1>13. Enforceable \in Nat
  BY <1>1 DEF Enforceable
<1>14. /\ conversation'.dollars = SumFunctionOnSet(g, F \cup {t})
       /\ Enforceable' = SumFunctionOnSet(q, F \cup {t})
  BY <1>1, <1>7, <1>8, <1>9, <1>10, <1>11, <1>12, <1>13
<1> QED BY <1>3, <1>14 DEF BillComplete, g, q

\* A turn that finishes adds to the total what it spent with a price; alone it was
\* below the budget before its last answer.
LEMMA CommitKeeps ==
    ASSUME ChatInv, NEW t \in Turns, CommitTurn(t)
    PROVE  ChatInv'
<1> DEFINE w == turn[t]
           n == Closed(w)
<1>1. /\ turn \in [Turns -> TurnState] /\ w \in TurnState /\ w.at = "written"
      /\ SoundTurn(w, Enforceable) /\ Enforceable \in Nat /\ Budget \in Nat
      /\ w.prior \in Nat /\ w.enforced \in Nat /\ w.dollars \in Nat /\ w.enforced <= w.dollars
      /\ conversation.dollars \in Nat /\ conversation.unpriced \in Nat
      /\ UNCHANGED <<click, decisions, overlapped, raced>>
      /\ turn' = [turn EXCEPT ![t] = n] /\ conversation' = Billed(w)
  BY TotalsFacts DEF ChatInv, ChatTypeOK, Budgeted, SoundTurn, TurnState, CommitTurn
<1>2. /\ n \in TurnState /\ n.at = "done" /\ n.stop = w.stop /\ n.proposed = w.proposed
      /\ n.dollars = w.dollars /\ n.enforced = w.enforced
  <2>1. /\ w.proposed \in BOOLEAN
        /\ w.stop \in {"end_turn", "disconnected", "budget_exhausted", "refused", "error"}
    BY <1>1 DEF TurnState
  <2>2. NoTurn \in TurnState
    BY ChatAssumption DEF NoTurn, TurnState, Stages
  <2>3. n = [NoTurn EXCEPT !.at = "done", !.dollars = w.dollars, !.enforced = w.enforced,
                           !.proposed = w.proposed, !.stop = w.stop]
    BY DEF Closed
  <2> HIDE DEF w, n
  <2> QED BY <1>1, <2>1, <2>2, <2>3 DEF TurnState, Stages
<1> HIDE DEF n
<1>3. turn'[t] = n /\ \A u \in Turns \ {t} : turn'[u] = turn[u]
  BY <1>1
<1>4. /\ w.stop \notin {"refused", "error"} /\ w.prior <= Enforceable
      /\ w.stop = "budget_exhausted" => Tracking /\ w.prior + w.enforced >= Budget
  BY <1>1 DEF SoundTurn
<1>5. /\ conversation'.dollars = conversation.dollars + w.dollars
      /\ conversation'.unpriced = conversation.unpriced + (w.dollars - w.enforced)
      /\ conversation'.status
            = IF w.stop = "budget_exhausted" THEN w.stop ELSE conversation.status
      /\ conversation' \in [status : {"active", "closed", "budget_exhausted"},
                            dollars : Nat, unpriced : Nat]
  BY <1>1 DEF Billed, ChatInv, ChatTypeOK
<1>6. /\ Enforceable' = Enforceable + w.enforced
      /\ conversation'.unpriced <= conversation'.dollars
  BY <1>1, <1>5 DEF Enforceable, ChatInv, Budgeted
<1>7. ChatTypeOK'
  BY <1>1, <1>2, <1>5 DEF ChatInv, ChatTypeOK, CommitTurn
<1>8. BillComplete'
  BY <1>4, <1>7, BillGrows
<1>9. \A u \in Turns : Finished(u)' <=> (Finished(u) \/ u = t)
  BY <1>2, <1>3, <1>4 DEF Finished
<1>10. Budgeted'
  <2>1. \A u \in Turns \ {t} : SoundTurn(turn[u], Enforceable + w.enforced)
    <3> SUFFICES ASSUME NEW u \in Turns \ {t} PROVE SoundTurn(turn[u], Enforceable + w.enforced)
      OBVIOUS
    <3>1. SoundTurn(turn[u], Enforceable) /\ turn[u].prior \in Nat
      BY <1>1 DEF ChatInv, Budgeted, TurnState
    <3> QED BY <1>1, <3>1 DEF SoundTurn
  <2>2. SoundTurn(n, Enforceable + w.enforced)
    BY <1>1, <1>2 DEF SoundTurn
  <2>3. conversation'.status = "budget_exhausted" => Tracking /\ Enforceable' >= Budget
    <3>1. CASE w.stop = "budget_exhausted"
      BY <1>1, <1>4, <1>6, <3>1
    <3>2. CASE w.stop # "budget_exhausted"
      BY <1>1, <1>5, <1>6, <3>2 DEF ChatInv, Budgeted
    <3> QED BY <3>1, <3>2
  <2>4. ASSUME ~overlapped
        PROVE  /\ \A u \in Turns : ~Live(u)'
               /\ Tracking => Near(Enforceable + w.enforced)
    <3>1. /\ \A u, v \in Turns : Live(u) /\ Live(v) => u = v
          /\ LoneTurn(w, Enforceable)
      BY <2>4 DEF ChatInv, Budgeted
    <3>2. Live(t)
      BY <1>1 DEF Live
    <3>3. \A u \in Turns : ~Live(u)'
      BY <1>2, <1>3, <3>1, <3>2 DEF Live
    <3>4. w.prior = Enforceable /\ (Tracking => Near(w.prior + w.enforced))
      BY <1>1, <3>1 DEF LoneTurn
    <3> QED BY <3>3, <3>4
  <2>5. ASSUME ~overlapped
        PROVE  \A u \in Turns : LoneTurn(turn'[u], Enforceable')
    BY <2>4, <2>5 DEF Live, LoneTurn
  <2> QED BY <1>1, <1>3, <1>6, <2>1, <2>2, <2>3, <2>4, <2>5
          DEF Budgeted, SoundTurn, LoneTurn, Near
<1>11. Stored'
  <2>1. action' = action \/ (Stores(w) /\ action' = [action EXCEPT ![t] = "proposed"])
    BY DEF CommitTurn
  <2>2. action[t] = "none"
    BY <1>1 DEF ChatInv, Stored, Finished
  <2>3. \A u \in Turns : action'[u] # "none" =>
           Finished(u)' /\ turn'[u].proposed /\ turn'[u].stop # "disconnected"
    BY <1>2, <1>3, <1>9, <2>1, <2>2 DEF ChatInv, ChatTypeOK, Stored, Stores
  <2>4. \A u \in Turns : decisions'[u] > 0 => action'[u] = "confirmed"
    BY <1>1, <2>1, <2>2 DEF ChatInv, ChatTypeOK, Stored
  <2>5. \A c \in Clicks : click'[c].at = "read" => action'[click'[c].of] # "none"
    <3>1. \A c \in Clicks : click[c].of \in Turns
      BY DEF ChatInv, ChatTypeOK
    <3> QED BY <1>1, <2>1, <2>2, <3>1 DEF ChatInv, ChatTypeOK, Stored
  <2> QED BY <2>3, <2>4, <2>5 DEF Stored
<1>12. Single'
  BY <1>1 DEF ChatInv, Single
<1> QED BY <1>7, <1>8, <1>10, <1>11, <1>12 DEF ChatInv

LEMMA ConfirmKeeps ==
    ASSUME ChatInv, NEW c \in Clicks, ReadAction(c) \/ CarryOut(c)
    PROVE  ChatInv'
<1> DEFINE t == click[c].of
<1>1. /\ t \in Turns /\ UNCHANGED <<conversation, turn, overlapped>>
      /\ click \in [Clicks -> [at : {"none", "read", "done"}, of : Turns]]
      /\ action \in [Turns -> {"none", "proposed", "confirmed"}]
      /\ decisions \in [Turns -> Nat]
  BY DEF ReadAction, CarryOut, ChatInv, ChatTypeOK
<1>2. \A d \in Clicks : /\ click'[d].of = click[d].of
                        /\ d # c => click'[d] = click[d]
  BY <1>1 DEF ReadAction, CarryOut
<1>3. ChatTypeOK'
  <2>1. /\ action' \in [Turns -> {"none", "proposed", "confirmed"}]
        /\ decisions' \in [Turns -> Nat]
    BY <1>1 DEF ReadAction, CarryOut
  <2>2. PICK at \in {"read", "done"} : click' = [click EXCEPT ![c].at = at]
    BY DEF ReadAction, CarryOut
  <2>3. click' \in [Clicks -> [at : {"none", "read", "done"}, of : Turns]]
    BY <1>1, <2>2
  <2>4. raced' \in BOOLEAN
    BY DEF ReadAction, CarryOut, ChatInv, ChatTypeOK
  <2> QED BY <1>1, <2>1, <2>3, <2>4 DEF ChatInv, ChatTypeOK
<1>4. BillComplete'
  BY <1>1, <1>3, BillKept DEF Finished
<1>5. Budgeted'
  BY <1>1 DEF ChatInv, Budgeted, SoundTurn, LoneTurn, Near, Live, Enforceable
<1>6. CASE ReadAction(c)
  <2>1. /\ action[t] # "none" /\ UNCHANGED <<action, decisions>>
        /\ click'[c].at = IF action[t] = "confirmed" THEN "done" ELSE "read"
        /\ raced' = (raced \/ \E d \in Clicks : click[d].at = "read" /\ click[d].of = t)
    BY <1>1, <1>6 DEF ReadAction
  <2>2. Stored'
    BY <1>1, <1>2, <2>1 DEF ChatInv, Stored, Finished
  <2>3. Single'
    <3> SUFFICES ASSUME ~raced'
                 PROVE  /\ \A u \in Turns : decisions[u] <= 1
                        /\ \A d \in Clicks : click'[d].at = "read" => decisions[click[d].of] = 0
                        /\ \A d, e \in Clicks : click'[d].at = "read" /\ click'[e].at = "read"
                                                    /\ click[d].of = click[e].of => d = e
      BY <1>2, <2>1 DEF Single
    <3>1. /\ Single /\ ~raced /\ \A d \in Clicks : click[d].at = "read" => click[d].of # t
      BY <2>1 DEF ChatInv, ChatTypeOK
    <3>2. action[t] # "confirmed" => decisions[t] = 0
      BY <1>1 DEF ChatInv, Stored
    <3> QED BY <1>1, <1>2, <2>1, <3>1, <3>2 DEF Single
  <2> QED BY <1>3, <1>4, <1>5, <2>2, <2>3 DEF ChatInv
<1>7. CASE CarryOut(c)
  <2>1. /\ click[c].at = "read" /\ click'[c].at = "done" /\ raced' = raced
        /\ action' = [action EXCEPT ![t] = "confirmed"]
        /\ decisions' = [decisions EXCEPT ![t] = decisions[t] + 1]
    BY <1>1, <1>7 DEF CarryOut
  <2>2. action[t] # "none"
    BY <2>1 DEF ChatInv, Stored
  <2>3. Stored'
    <3>1. \A u \in Turns : action'[u] # "none" =>
             Finished(u)' /\ turn'[u].proposed /\ turn'[u].stop # "disconnected"
      BY <1>1, <2>1, <2>2 DEF ChatInv, Stored, Finished
    <3>2. \A d \in Clicks : click'[d].at = "read" => action'[click'[d].of] # "none"
      BY <1>1, <1>2, <2>1 DEF ChatInv, Stored
    <3>3. \A u \in Turns : decisions'[u] > 0 => action'[u] = "confirmed"
      BY <1>1, <2>1 DEF ChatInv, Stored
    <3> QED BY <3>1, <3>2, <3>3 DEF Stored
  <2>4. Single'
    <3> SUFFICES ASSUME ~raced
                 PROVE  /\ \A u \in Turns : decisions'[u] <= 1
                        /\ \A d \in Clicks : click'[d].at = "read" => decisions'[click[d].of] = 0
                        /\ \A d, e \in Clicks : click'[d].at = "read" /\ click'[e].at = "read"
                                                    /\ click[d].of = click[e].of => d = e
      BY <1>2, <2>1 DEF Single
    <3>1. Single /\ decisions[t] = 0
      BY <2>1 DEF ChatInv, Single
    <3>2. \A d \in Clicks : click'[d].at = "read" => click[d].at = "read" /\ click[d].of # t
      BY <1>2, <2>1, <3>1 DEF Single
    <3>3. \A u \in Turns : decisions'[u] <= 1
      BY <1>1, <2>1, <3>1 DEF Single
    <3>4. \A d \in Clicks : click'[d].at = "read" => decisions'[click[d].of] = 0
      BY <1>1, <2>1, <3>1, <3>2 DEF Single
    <3> QED BY <3>1, <3>2, <3>3, <3>4 DEF Single
  <2> QED BY <1>3, <1>4, <1>5, <2>3, <2>4 DEF ChatInv
<1> QED BY <1>6, <1>7

LEMMA ChatInitInv == ChatInit => ChatInv
<1> SUFFICES ASSUME ChatInit PROVE ChatInv
  OBVIOUS
<1>1. /\ conversation.status = "active" /\ conversation.dollars = 0 /\ conversation.unpriced = 0
      /\ \A t \in Turns : turn[t] = NoTurn /\ action[t] = "none" /\ decisions[t] = 0
      /\ \A c \in Clicks : click[c].at = "none"
      /\ Enforceable = 0
  BY DEF ChatInit, Enforceable
<1>2. /\ NoTurn.at = "none" /\ NoTurn.enforced = 0 /\ NoTurn.dollars = 0
      /\ NoTurn \in TurnState
  BY ChatAssumption DEF NoTurn, TurnState, Stages
<1>3. ChatTypeOK
  BY <1>2 DEF ChatInit, ChatTypeOK
<1>4. Budgeted
  <2>1. \A t \in Turns : SoundTurn(turn[t], Enforceable) /\ LoneTurn(turn[t], Enforceable)
    BY <1>1, <1>2 DEF SoundTurn, LoneTurn
  <2>2. Near(0)
    BY ChatAssumption DEF Near
  <2> QED BY <1>1, <1>2, <2>1, <2>2 DEF Budgeted, Live
<1>5. Stored /\ Single
  BY <1>1 DEF Stored, Single
<1>6. BillComplete
  <2>1. {t \in Turns : Finished(t)} = {}
    BY <1>1, <1>2 DEF Finished
  <2> QED BY <1>1, <2>1, SumEmpty DEF BillComplete
<1> QED BY <1>3, <1>4, <1>5, <1>6 DEF ChatInv

LEMMA ChatNextInv == ChatInv /\ [ChatNext]_chatVars => ChatInv'
<1> SUFFICES ASSUME ChatInv, [ChatNext]_chatVars PROVE ChatInv'
  OBVIOUS
<1>1. ASSUME NEW t \in Turns, PostMessage(t) PROVE ChatInv'
  BY <1>1, PostKeeps
<1>2. ASSUME NEW t \in Turns, Stream(t) \/ Disconnect(t) \/ Cancel(t) PROVE ChatInv'
  BY <1>2, StreamKeeps, CommitKeeps DEF Stream
<1>3. CASE DeleteConversation \/ UNCHANGED chatVars
  <2>1. /\ UNCHANGED <<turn, action, click, decisions, overlapped, raced>>
        /\ conversation' = conversation \/ conversation' = [conversation EXCEPT !.status = "closed"]
    BY <1>3 DEF DeleteConversation, Chat, chatVars
  <2>2. /\ conversation' \in [status : {"active", "closed", "budget_exhausted"},
                              dollars : Nat, unpriced : Nat]
        /\ conversation'.dollars = conversation.dollars
        /\ conversation'.unpriced = conversation.unpriced
        /\ conversation'.status \in {conversation.status, "closed"}
    BY <2>1 DEF ChatInv, ChatTypeOK
  <2>3. Enforceable' = Enforceable
    BY <2>2 DEF Enforceable
  <2>4. ChatTypeOK' /\ Stored' /\ Single' /\ BillComplete'
    BY <2>1, <2>2, <2>3 DEF ChatInv, ChatTypeOK, Stored, Single, BillComplete, Finished
  <2>5. Budgeted'
    BY <2>1, <2>2, <2>3 DEF ChatInv, Budgeted, SoundTurn, LoneTurn, Near, Live
  <2> QED BY <2>4, <2>5 DEF ChatInv
<1>4. ASSUME NEW c \in Clicks, ReadAction(c) \/ CarryOut(c) PROVE ChatInv'
  BY <1>4, ConfirmKeeps
<1> QED BY <1>1, <1>2, <1>3, <1>4 DEF ChatNext


-----------------------------------------------------------------------------
(***************************************************************************)
(* The theorems                                                            *)
(***************************************************************************)

LEMMA InitIInv == Init => IInv
<1>1. Init => Affordable
  BY DEF Init, Affordable
<1> QED BY <1>1, InitTypeOK, InitBooks DEF IInv

LEMMA NextIInv == IInv /\ [Next]_vars => IInv'
BY NextTypeOK, NextBooks, NextAffordable DEF IInv, Books

\* Rows, leases, reports and ledger stay well typed: no count falls below zero and a
\* report that ends a run leaves it in one of its three states.
THEOREM SpendTypeCorrect == Spec => []TypeOK
<1>1. IInv => TypeOK
  BY DEF IInv
<1> QED BY <1>1, InitIInv, NextIInv, PTL DEF Spec

\* What a lease reported and the API stored is in the books, however its reports are
\* delayed, reordered or handled at the same time (_record_spend_delta).
THEOREM ReportsAreBooked == Spec => []BookedCoversReports
<1>1. IInv => BookedCoversReports
  <2> SUFFICES ASSUME IInv, NEW l \in Leases
               PROVE  /\ acked[l].tokens - worker[l].seed.tokens <= booked[l].tokens
                      /\ acked[l].dollars - worker[l].seed.dollars <= booked[l].dollars
    BY DEF BookedCoversReports
  <2>1. /\ acked[l].tokens <= worker[l].seed.tokens + booked[l].tokens
        /\ acked[l].dollars <= worker[l].seed.dollars + booked[l].dollars
    BY DEF IInv, Books, AckBooked
  <2> QED BY <2>1, Numbers DEF IInv, Books
<1> QED BY <1>1, InitIInv, NextIInv, PTL DEF Spec

\* The ledger of a run never shows less than its row, so the ceiling of the day does
\* not see less than the budget of the run (_record_spend_delta).
THEOREM LedgerIsNotBehind == Spec => []LedgerCoversRow
<1>1. IInv => LedgerCoversRow
  BY DEF IInv, Books
<1> QED BY <1>1, InitIInv, NextIInv, PTL DEF Spec

\* Spend is never understated, in whatever order reports are sent, delayed, handled
\* and refused (_record_spend_delta, get_tenant_daily_status).
THEOREM BooksAreComplete == Spec => []BooksComplete
<1>1. BookedCoversReports /\ LedgerCoversRow => BooksComplete
  BY DEF BooksComplete
<1> QED BY <1>1, ReportsAreBooked, LedgerIsNotBehind, PTL

\* While the reports of a run are handled one by one and in order, ledger and row
\* agree: nothing is booked twice (_record_spend_delta).
THEOREM BookedOnce == Spec => []NoDoubleBooking
<1>1. IInv => NoDoubleBooking
  BY DEF IInv, Books
<1> QED BY <1>1, InitIInv, NextIInv, PTL DEF Spec

\* An unlocked run does not halt again before it has made a call, whatever old
\* reports arrive in between (unlock_run, over_budget).
THEOREM UnlockResumes == Spec => []UnlockedRunWorks
<1>1. IInv => UnlockedRunWorks
  <2> SUFFICES ASSUME IInv, NEW l \in Leases, worker[l].phase = "halting",
                      run[worker[l].run].lease = l, worker[l].run \in resumed
               PROVE  FALSE
    BY DEF UnlockedRunWorks
  <2>1. AffordableRun(worker[l].run) /\ l # 0
    BY Numbers DEF IInv, Books, Affordable
  <2> QED BY <2>1 DEF AffordableRun
<1> QED BY <1>1, InitIInv, NextIInv, PTL DEF Spec

\* The cap of a run is honest across crashes, retries, expired leases and unlocks:
\* while its reports are handled in order, what is booked to it exceeds its budget by
\* less than one round of calls, and dollars without a price never count
\* (heartbeat_run, over_budget, claim_run, unlock_run).
THEOREM RunCapIsHonest == Spec => []RunCapHonest
<1>1. Init => IInv /\ Cap
  BY InitIInv, InitCapped
<1>2. IInv /\ Cap /\ [Next]_vars => (IInv /\ Cap)'
  BY NextIInv, NextCapped
<1>3. IInv /\ Cap => RunCapHonest
  <2> SUFFICES ASSUME IInv, Cap, Ordered, NEW r \in Runs
               PROVE  /\ ledger[r].tokens < run[r].budget.tokens + RoundTokens
                      /\ CostTracking => ledger[r].priced < run[r].budget.dollars + RoundDollars
    BY DEF RunCapHonest
  <2> QED BY DEF IInv, Books, NoDoubleBooking, Cap, CappedRun
<1> QED BY <1>1, <1>2, <1>3, PTL DEF Spec

\* The ceiling of the day holds: while no lease expires under a worker, no report is
\* written between the two reads of an admission and reports are handled in order, the
\* spend and the promises of the day stay below the ceiling plus one run budget, what
\* the last round of every run may pass its budget by, and the chat turns
\* (assert_tenant_daily_cap_ok, _RESERVED_SQL).
THEOREM DailyCeilingIsKept == Spec => []DayKept
<1>1. Init => IInv /\ Cap /\ Day
  BY InitIInv, InitCapped, InitDay
<1>2. IInv /\ Cap /\ Day /\ [Next]_vars => (IInv /\ Cap /\ Day)'
  BY NextIInv, NextCapped, NextDay
<1>3. IInv /\ Cap /\ Day => DayKept
  <2> SUFFICES ASSUME IInv, Day, causes = {} PROVE DayKept
    BY DEF DayKept
  <2>1. TypeOK /\ OneAdmission /\ Bookable /\ Ordered
    BY DEF IInv, Day, Ordered
  <2>2. \A r \in Runs : /\ MayBook(r).tokens \in Nat /\ MayBook(r).dollars \in Nat
                        /\ Promised(r).tokens \in Nat /\ Promised(r).dollars \in Nat
                        /\ Promised(r).tokens <= MayBook(r).tokens
                        /\ Promised(r).dollars <= MayBook(r).dollars
    BY <2>1, DayNumbers, PromisedCovers
  <2>3. /\ Reserved.tokens <= BookableTokens /\ Reserved.dollars <= BookableDollars
        /\ Reserved.tokens \in Nat /\ Reserved.dollars \in Nat
    <3> HIDE DEF MayBook, Promised
    <3> QED BY <2>2, RunAssumption, SumMonotonic, SumType
            DEF Reserved, BookableTokens, BookableDollars
  <2> DEFINE m == TurnsOver * CallTokens
             n == TurnsOver * CallDollars
             tokens == used["chats"] * CallTokens
             dollars == used["chats"] * CallDollars
  <2>4. /\ m \in Nat /\ n \in Nat /\ tokens \in Nat /\ dollars \in Nat
        /\ m <= tokens /\ n <= dollars
    BY <2>1, TurnNumbers, DearestCall, TimesFacts
  <2>5. /\ today.tokens \in Nat /\ today.dollars \in Nat
        /\ BookableTokens \in Nat /\ BookableDollars \in Nat
        /\ TokensCeiling \in Nat /\ DollarsCeiling \in Nat
    BY <2>1, DayNumbers, CeilingNumbers
  <2>6. /\ today.tokens + BookableTokens < TokensCeiling + m
        /\ CostTracking => today.dollars + BookableDollars < DollarsCeiling + n
    BY <2>1 DEF Bookable
  <2> HIDE DEF m, n, tokens, dollars
  <2>7. today.tokens + Reserved.tokens < TokensCeiling + tokens
    BY <2>3, <2>4, <2>5, <2>6
  <2>8. ASSUME CostTracking PROVE today.dollars + Reserved.dollars < DollarsCeiling + dollars
    BY <2>3, <2>4, <2>5, <2>6, <2>8
  <2> QED BY <2>7, <2>8 DEF DayKept, TokensCeiling, DollarsCeiling, tokens, dollars
<1> QED BY <1>1, <1>2, <1>3, PTL DEF Spec

\* The totals of a conversation stay natural numbers and no turn passes its bound of
\* calls (run_turn, _update_conversation_totals).
THEOREM ChatTypeCorrect == ChatSpec => []ChatTypeOK
<1>1. ChatInv => ChatTypeOK
  BY DEF ChatInv
<1> QED BY <1>1, ChatInitInv, ChatNextInv, PTL DEF ChatSpec

\* The bill of a conversation is the sum of the turns that finished, however many
\* tabs post, stream, fail and are cancelled at once (_update_conversation_totals).
THEOREM FinishedTurnsAreBilled == ChatSpec => []BillComplete
<1>1. ChatInv => BillComplete
  BY DEF ChatInv
<1> QED BY <1>1, ChatInitInv, ChatNextInv, PTL DEF ChatSpec

\* A conversation is called exhausted only when spend with a price has reached its
\* budget, and turns that do not overlap pass it by less than one call (run_turn, the
\* two budget checks).
THEOREM ConversationBudgetIsHonest == ChatSpec => []BudgetHonest
<1>1. ChatInv => BudgetHonest
  BY DEF ChatInv, Budgeted, Near, BudgetHonest
<1> QED BY <1>1, ChatInitInv, ChatNextInv, PTL DEF ChatSpec

\* An action is carried out once, unless two confirmations race, and only when its
\* turn was stored with a client that could see the button (run_turn,
\* dispatch_confirm).
THEOREM ConfirmedActionsRunOnce == ChatSpec => []ActionsRunOnce
<1>1. ChatInv => ActionsRunOnce
  <2> SUFFICES ASSUME ChatInv, NEW t \in Turns, decisions[t] > 0
               PROVE  /\ Finished(t) /\ turn[t].proposed /\ turn[t].stop # "disconnected"
                      /\ decisions[t] = 1 \/ raced
    BY DEF ActionsRunOnce
  <2>1. decisions[t] \in Nat
    BY DEF ChatInv, ChatTypeOK
  <2> QED BY <2>1 DEF ChatInv, Stored, Single
<1> QED BY <1>1, ChatInitInv, ChatNextInv, PTL DEF ChatSpec
=============================================================================
