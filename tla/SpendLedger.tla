---------------------------- MODULE SpendLedger ----------------------------
(***************************************************************************)
(* What the LLM calls of one tenant cost, and the ceilings on it:          *)
(*                                                                         *)
(*   - a worker counts its calls in the state of its graph and stops when  *)
(*     the run is over its budget (graph/budget.py, supervisor/node.py);   *)
(*   - it reports running totals with every heartbeat and with the last    *)
(*     call of the run; the API books the difference to the stored total   *)
(*     in llm_spend_ledger (core/api/worker_runs.py);                      *)
(*   - a claim and a chat turn are admitted while the spend of the day and *)
(*     the budgets promised to leased runs are below the daily ceiling     *)
(*     (core/cost.py);                                                     *)
(*   - an operator raises the budget of a halted run (core/api/            *)
(*     run_budget.py).                                                     *)
(*                                                                         *)
(* A report is handled in two steps, the reads that precede the write and  *)
(* the write; an admission too, because it reads the spend and then the    *)
(* reservations.  The LLM is external: a call costs a member of Calls.     *)
(***************************************************************************)
EXTENDS Naturals, FiniteSets, Functions

CONSTANTS
    Runs,           \* runs of the tenant, queued from the start
    NoRun,
    MaxLeases,      \* bound: leases given out
    Calls,          \* what a call may cost: [tokens, dollars, unpriced]
    Budgets,        \* budgets a run may be given: [tokens, dollars]
    StartBudget,    \* the budget stamped when the run was created
    DailyCap,       \* effective daily ceilings: [tokens, dollars]
    CostTracking,   \* dollar accounting is on for the tenant
    CallsPerRound,  \* calls of one round of the graph, between two budget checks
    MaxAttempts,    \* releases after which a run is failed
    MaxReports,     \* bound: heartbeats
    MaxChats,       \* bound: chat turns
    MaxUnlocks,     \* bound: unlocks
    MaxCrashes,     \* bound: workers that die
    MaxExpiries,    \* bound: leases that expire
    MaxDays         \* bound: midnights

Money == [tokens : Nat, dollars : Nat]

\* Leases in the order they are given out.
Leases == 1..MaxLeases

ASSUME RunAssumption == NoRun \notin Runs /\ IsFiniteSet(Runs)

\* max_tokens bounds what one call may cost.
ASSUME CallsAssumption ==
    /\ Calls \subseteq [tokens : Nat, dollars : Nat, unpriced : BOOLEAN]
    /\ \E c \in Calls : \A d \in Calls : d.tokens <= c.tokens
    /\ \E c \in Calls : \A d \in Calls : d.dollars <= c.dollars

\* resolve_run_token_budget, resolve_run_dollar_budget: a budget is positive and has
\* a maximum.
ASSUME BudgetsAssumption ==
    /\ Budgets \subseteq Money /\ StartBudget \in Budgets /\ DailyCap \in Money
    /\ \A b \in Budgets : b.tokens > 0 /\ b.dollars > 0
    /\ \E b \in Budgets : \A d \in Budgets : d.tokens <= b.tokens
    /\ \E b \in Budgets : \A d \in Budgets : d.dollars <= b.dollars
    /\ CostTracking \in BOOLEAN
ASSUME BoundsAssumption ==
    /\ MaxLeases \in Nat /\ CallsPerRound \in Nat /\ MaxAttempts \in Nat /\ MaxReports \in Nat
    /\ MaxChats \in Nat /\ MaxUnlocks \in Nat /\ MaxCrashes \in Nat /\ MaxExpiries \in Nat /\ MaxDays \in Nat

VARIABLES
    run,        \* the rows of investigation_runs
    ledger,     \* what llm_spend_ledger holds of a run: tokens, priced and unknown dollars
    today,      \* tokens and enforceable dollars of the current day, runs and chat
    worker,     \* the state of the worker that holds, or held, a lease
    posts,      \* reports on their way
    handling,   \* reports whose handler has read and not yet written
    admission,  \* spend read by the admissions that have not yet read the reservations
    chatting,   \* chat turns that were admitted and are not persisted
    booked,     \* history: tokens and dollars booked for the reports of a lease
    acked,      \* history: the highest totals of a lease that were stored
    resumed,    \* history: runs unlocked since their last call
    causes,     \* history: windows that were met
    used        \* history: how often the bounded events happened

vars == <<run, ledger, today, worker, posts, handling, admission, chatting,
          booked, acked, resumed, causes, used>>

\* The report that ends a run, completed or failed, is "ended".
Kinds == {"heartbeat", "ended", "halted_budget", "release"}
Bounded == {"reports", "chats", "unlocks", "crashes", "expiries", "days"}
Larger(a, b) == IF a > b THEN a ELSE b
Smaller(a, b) == IF a < b THEN a ELSE b
\* max(0, a - b)
Over(a, b) == IF a > b THEN a - b ELSE 0

Zero == [tokens |-> 0, dollars |-> 0]
Report ==
    [lease : Leases, n : Nat, kind : Kinds, tokens : Nat, dollars : Nat, unpriced : Nat]

Row ==
    [status : {"active", "ended", "halted_budget"}, tokens : Nat, dollars : Nat,
     budget : Budgets, attempts : Nat, lease : Leases \cup {0}, expired : BOOLEAN]

WorkerState ==
    [run : Runs \cup {NoRun}, phase : {"none", "running", "halting", "gone"},
     left : 0..CallsPerRound, budget : Budgets, seed : Money,
     tokens : Nat, dollars : Nat, unpriced : Nat, n : Nat]

Reading == [report : Report, tokens : Nat, dollars : Nat, unknown : Nat]

TypeOK ==
    /\ run \in [Runs -> Row]
    /\ ledger \in [Runs -> [tokens : Nat, priced : Nat, unknown : Nat]]
    /\ today \in Money
    /\ worker \in [Leases -> WorkerState]
    /\ posts \subseteq Report
    /\ handling \subseteq Reading
    /\ admission \in SUBSET [source : {"worker_claim", "chat_post"}, spend : Money]
    /\ chatting \in Nat
    /\ booked \in [Leases -> Money] /\ acked \in [Leases -> Money]
    /\ resumed \subseteq Runs
    /\ causes \subseteq {"overlap", "overtaken", "expired", "snapshot"}
    /\ used \in [Bounded -> Nat]

Init ==
    /\ run = [r \in Runs |-> [status |-> "active", tokens |-> 0, dollars |-> 0,
                              budget |-> StartBudget, attempts |-> 0, lease |-> 0,
                              expired |-> FALSE]]
    /\ ledger = [r \in Runs |-> [tokens |-> 0, priced |-> 0, unknown |-> 0]]
    /\ today = Zero
    /\ worker = [l \in Leases |-> [run |-> NoRun, phase |-> "none", left |-> 0,
                                   budget |-> StartBudget, seed |-> Zero,
                                   tokens |-> 0, dollars |-> 0, unpriced |-> 0, n |-> 0]]
    /\ posts = {} /\ handling = {} /\ admission = {} /\ chatting = 0
    /\ booked = [l \in Leases |-> Zero] /\ acked = [l \in Leases |-> Zero]
    /\ resumed = {} /\ causes = {}
    /\ used = [e \in Bounded |-> 0]
-----------------------------------------------------------------------------
(* The worker. *)

\* enforceable_dollars: the total without what was priced by guesswork.
EnforceableDollars(w) == Over(w.dollars, w.unpriced)

\* Mutant: a ceiling that is reached is not exceeded.
OverBudget_Strict(w) ==
    \/ w.tokens > w.budget.tokens
    \/ CostTracking /\ EnforceableDollars(w) > w.budget.dollars

\* over_budget
OverBudget(w) ==
    \/ w.tokens >= w.budget.tokens
    \/ CostTracking /\ EnforceableDollars(w) >= w.budget.dollars

\* supervisor_node: the budget is checked once per round, before any call of it.
BudgetCheck(l) ==
    /\ worker[l].phase = "running" /\ worker[l].left < CallsPerRound
    /\ worker' = IF OverBudget(worker[l])
                 THEN [worker EXCEPT ![l].phase = "halting", ![l].left = 0]
                 ELSE [worker EXCEPT ![l].left = CallsPerRound]
    /\ UNCHANGED <<run, ledger, today, posts, handling, admission, chatting, booked,
                   acked, resumed, causes, used>>

\* track: one response of the model.
Track(l, c) ==
    /\ worker[l].phase = "running" /\ worker[l].left > 0
    /\ worker' = [worker EXCEPT ![l].left = @ - 1,
                                ![l].tokens = @ + c.tokens,
                                ![l].dollars = @ + c.dollars,
                                ![l].unpriced = IF c.unpriced THEN @ + c.dollars ELSE @]
    /\ resumed' = resumed \ {worker[l].run}
    /\ UNCHANGED <<run, ledger, today, posts, handling, admission, chatting, booked,
                   acked, causes, used>>

ReportOf(l, kind) ==
    [lease |-> l, n |-> worker[l].n, kind |-> kind, tokens |-> worker[l].tokens,
     dollars |-> worker[l].dollars, unpriced |-> worker[l].unpriced]

\* _heartbeat_loop: the totals as they stand; an answer is not waited for longer
\* than a timeout, and a 409 does not stop the run.
Heartbeat(l) ==
    /\ worker[l].phase = "running"
    /\ used["reports"] < MaxReports
    /\ used' = [used EXCEPT !["reports"] = @ + 1]
    /\ posts' = posts \cup {ReportOf(l, "heartbeat")}
    /\ worker' = [worker EXCEPT ![l].n = @ + 1]
    /\ UNCHANGED <<run, ledger, today, handling, admission, chatting, booked, acked,
                   resumed, causes>>

\* Nothing is left of the state of the graph.
Gone(l) ==
    [worker[l] EXCEPT !.phase = "gone", !.left = 0, !.tokens = 0, !.dollars = 0,
                      !.unpriced = 0, !.n = 0]

\* The end of _run_one: the graph has halted on the budget, or it has ended with
\* a verdict, an error or a transient failure.
Finish(l, kind) ==
    /\ \/ worker[l].phase = "halting" /\ kind = "halted_budget"
       \/ worker[l].phase = "running" /\ kind \in {"ended", "release"}
    /\ posts' = posts \cup {ReportOf(l, kind)}
    /\ worker' = [worker EXCEPT ![l] = Gone(l)]
    /\ UNCHANGED <<run, ledger, today, handling, admission, chatting, booked, acked,
                   resumed, causes, used>>

\* The worker dies with what it has not reported.
Crash(l) ==
    /\ worker[l].phase \in {"running", "halting"}
    /\ used["crashes"] < MaxCrashes
    /\ worker' = [worker EXCEPT ![l] = Gone(l)]
    /\ used' = [used EXCEPT !["crashes"] = @ + 1]
    /\ UNCHANGED <<run, ledger, today, posts, handling, admission, chatting, booked,
                   acked, resumed, causes>>
-----------------------------------------------------------------------------
(* The handlers of heartbeat, release and complete. *)

\* Mutants: the spend of a release is not booked; the totals are booked instead of
\* the difference.
RecordSpendDelta_NotRelease(p) ==
    LET r == worker[p.lease].run
        d == IF p.kind = "release" THEN 0 ELSE 1
    IN  [report |-> p, tokens |-> d * Over(p.tokens, run[r].tokens),
         dollars |-> d * Over(p.dollars, run[r].dollars), unknown |-> 0]

RecordSpendDelta_Totals(p) ==
    [report |-> p, tokens |-> p.tokens, dollars |-> p.dollars, unknown |-> p.unpriced]

\* _record_spend_delta up to its inserts: the difference between the report and
\* the stored totals, split by what is already booked as unpriced.  Nothing is
\* locked: another handler may write before this one does.
RecordSpendDelta(p) ==
    LET r == worker[p.lease].run
        dollars == Over(p.dollars, run[r].dollars)
        unknown == Smaller(Over(p.unpriced, ledger[r].unknown), dollars)
    IN  [report |-> p, tokens |-> Over(p.tokens, run[r].tokens), dollars |-> dollars,
         unknown |-> unknown]

\* A report that is lost is one that is never handled.
Handle(p) ==
    /\ p \in posts
    /\ posts' = posts \ {p}
    /\ handling' = handling \cup {RecordSpendDelta(p)}
    /\ causes' = IF \E h \in handling : worker[h.report.lease].run = worker[p.lease].run
                 THEN causes \cup {"overlap"} ELSE causes
    /\ UNCHANGED <<run, ledger, today, worker, admission, chatting, booked, acked,
                   resumed, used>>

\* The row after the update of heartbeat_run, release_run or complete_run.
Updated(row, p) ==
    LET stored == [row EXCEPT !.tokens = p.tokens, !.dollars = p.dollars, !.expired = FALSE]
    IN  CASE p.kind = "heartbeat" -> stored
          [] p.kind = "release" ->
                [stored EXCEPT !.lease = 0, !.attempts = @ + 1,
                               !.status = IF row.attempts + 1 >= MaxAttempts
                                          THEN "ended" ELSE "active"]
          [] OTHER -> [stored EXCEPT !.lease = 0, !.status = p.kind]

\* The handler writes and commits: only the current lease of an active run.
Commit(h) ==
    LET p == h.report
        r == worker[p.lease].run
    IN  /\ h \in handling
        /\ run[r].lease = p.lease /\ run[r].status = "active"
        /\ handling' = handling \ {h}
        /\ run' = [run EXCEPT ![r] = Updated(@, p)]
        /\ ledger' = [ledger EXCEPT ![r].tokens = @ + h.tokens,
                                    ![r].priced = @ + (h.dollars - h.unknown),
                                    ![r].unknown = @ + h.unknown]
        /\ today' = [tokens |-> today.tokens + h.tokens,
                     dollars |-> today.dollars + (h.dollars - h.unknown)]
        /\ booked' = [booked EXCEPT ![p.lease].tokens = @ + h.tokens,
                                    ![p.lease].dollars = @ + h.dollars]
        /\ acked' = [acked EXCEPT ![p.lease].tokens = Larger(@, p.tokens),
                                  ![p.lease].dollars = Larger(@, p.dollars)]
        /\ causes' = causes \cup (IF p.tokens < run[r].tokens \/ p.dollars < run[r].dollars
                                  THEN {"overtaken"} ELSE {})
                            \cup (IF admission # {} THEN {"snapshot"} ELSE {})
        /\ UNCHANGED <<worker, posts, admission, chatting, resumed, used>>

\* 409: the transaction is rolled back, its ledger rows with it.
Conflict(h) ==
    LET r == worker[h.report.lease].run
    IN  /\ h \in handling
        /\ run[r].lease # h.report.lease \/ run[r].status # "active"
        /\ handling' = handling \ {h}
        /\ UNCHANGED <<run, ledger, today, worker, posts, admission, chatting, booked,
                       acked, resumed, causes, used>>
-----------------------------------------------------------------------------
(* Admission. *)

\* _RESERVED_SQL: what leased runs may still spend.
Promised(r) ==
    IF run[r].status = "active" /\ run[r].lease # 0 /\ ~run[r].expired
    THEN [tokens |-> Over(run[r].budget.tokens, run[r].tokens),
          dollars |-> Over(run[r].budget.dollars, Over(run[r].dollars, ledger[r].unknown))]
    ELSE Zero

Reserved ==
    [tokens |-> SumFunctionOnSet([r \in Runs |-> Promised(r).tokens], Runs),
     dollars |-> SumFunctionOnSet([r \in Runs |-> Promised(r).dollars], Runs)]

\* Mutant: the ceiling looks at recorded spend only.
Admits_SpendOnly(spend, reserved) ==
    spend.tokens < DailyCap.tokens /\ (CostTracking => spend.dollars < DailyCap.dollars)

\* assert_tenant_daily_cap_ok: cap_hit on the spend alone, then the reservations,
\* which are skipped when there are none.
Admits(spend, reserved) ==
    /\ spend.tokens < DailyCap.tokens /\ (CostTracking => spend.dollars < DailyCap.dollars)
    /\ \/ reserved = Zero
       \/ /\ spend.tokens + reserved.tokens < DailyCap.tokens
          /\ CostTracking => spend.dollars + reserved.dollars < DailyCap.dollars

\* get_tenant_daily_status.  Claims take the advisory lock of the tenant first,
\* chat_post does not.
ReadSpend(source) ==
    /\ source \notin {a.source : a \in admission}
    /\ \/ source = "worker_claim" /\ \E l \in Leases : worker[l].phase = "none"
       \/ source = "chat_post" /\ used["chats"] < MaxChats
    /\ admission' = admission \cup {[source |-> source, spend |-> today]}
    /\ used' = IF source = "chat_post" THEN [used EXCEPT !["chats"] = @ + 1] ELSE used
    /\ UNCHANGED <<run, ledger, today, worker, posts, handling, chatting, booked, acked,
                   resumed, causes>>

Claimable(r) ==
    run[r].status = "active" /\ (run[r].lease = 0 \/ run[r].expired)

\* The worker starts from the totals of the row and the unpriced part the ledger
\* holds (claim_run, _build_state).
Seeded(r) ==
    [run |-> r, phase |-> "running", left |-> 0, budget |-> run[r].budget,
     seed |-> [tokens |-> run[r].tokens, dollars |-> run[r].dollars],
     tokens |-> run[r].tokens, dollars |-> run[r].dollars,
     unpriced |-> ledger[r].unknown, n |-> 0]

ClaimRun(r, l) ==
    /\ Claimable(r)
    /\ worker[l].phase = "none" /\ \A k \in Leases : k < l => worker[k].phase # "none"
    /\ \E a \in admission :
        /\ a.source = "worker_claim" /\ Admits(a.spend, Reserved)
        /\ admission' = admission \ {a}
    /\ run' = [run EXCEPT ![r].lease = l, ![r].expired = FALSE]
    /\ worker' = [worker EXCEPT ![l] = Seeded(r)]
    /\ acked' = [acked EXCEPT ![l] = Seeded(r).seed]
    /\ UNCHANGED <<ledger, today, posts, handling, chatting, booked, resumed, causes, used>>

\* ClaimDenied, or no run to claim.
NoClaim ==
    /\ \E a \in admission :
        /\ a.source = "worker_claim"
        /\ ~Admits(a.spend, Reserved) \/ \A r \in Runs : ~Claimable(r)
        /\ admission' = admission \ {a}
    /\ UNCHANGED <<run, ledger, today, worker, posts, handling, chatting, booked, acked,
                   resumed, causes, used>>

\* chat_post: the turn starts, or the caller gets a 429.
ChatPost ==
    /\ \E a \in admission :
        /\ a.source = "chat_post"
        /\ admission' = admission \ {a}
        /\ chatting' = IF Admits(a.spend, Reserved) THEN chatting + 1 ELSE chatting
    /\ UNCHANGED <<run, ledger, today, worker, posts, handling, booked, acked, resumed,
                   causes, used>>

\* run_turn persists the message with what the turn cost; a turn that dies, or
\* ends without a text, persists none.
ChatTurn(c, persisted) ==
    /\ chatting > 0
    /\ chatting' = chatting - 1
    /\ today' = IF persisted
                THEN [tokens |-> today.tokens + c.tokens,
                      dollars |-> today.dollars + (IF c.unpriced THEN 0 ELSE c.dollars)]
                ELSE today
    /\ UNCHANGED <<run, ledger, worker, posts, handling, admission, booked, acked,
                   resumed, causes, used>>
-----------------------------------------------------------------------------
(* Time and the operator. *)

\* The worker of the lease, or a report of it, may still be there.
Lingers(l) ==
    \/ worker[l].phase \in {"running", "halting"}
    \/ \E p \in posts \cup {h.report : h \in handling} : p.lease = l

LeaseExpires(r) ==
    /\ run[r].lease # 0 /\ ~run[r].expired
    /\ used["expiries"] < MaxExpiries
    /\ run' = [run EXCEPT ![r].expired = TRUE]
    /\ used' = [used EXCEPT !["expiries"] = @ + 1]
    /\ causes' = IF Lingers(run[r].lease) THEN causes \cup {"expired"} ELSE causes
    /\ UNCHANGED <<ledger, today, worker, posts, handling, admission, chatting, booked,
                   acked, resumed>>

\* Midnight in the zone of the tenant; rows are stamped when they are written.
NewDay ==
    /\ used["days"] < MaxDays
    /\ today' = Zero
    /\ used' = [used EXCEPT !["days"] = @ + 1]
    /\ UNCHANGED <<run, ledger, worker, posts, handling, admission, chatting, booked,
                   acked, resumed, causes>>

\* Mutant: a ceiling equal to the spend is accepted.
UnlockRun_Equal(r, b) ==
    /\ run[r].status = "halted_budget"
    /\ used["unlocks"] < MaxUnlocks
    /\ b.dollars >= Over(run[r].dollars, ledger[r].unknown)
    /\ b.tokens >= run[r].tokens
    /\ run' = [run EXCEPT ![r].status = "active", ![r].budget = b, ![r].lease = 0,
                          ![r].expired = FALSE]
    /\ resumed' = resumed \cup {r}
    /\ used' = [used EXCEPT !["unlocks"] = @ + 1]
    /\ UNCHANGED <<ledger, today, worker, posts, handling, admission, chatting, booked,
                   acked, causes>>

\* unlock_run, under the locks of the run and its investigation: a ceiling above
\* what is spent and enforced, spend and attempts as they were.
UnlockRun(r, b) ==
    /\ run[r].status = "halted_budget"
    /\ used["unlocks"] < MaxUnlocks
    /\ b.dollars > Over(run[r].dollars, ledger[r].unknown)
    /\ b.tokens > run[r].tokens
    /\ run' = [run EXCEPT ![r].status = "active", ![r].budget = b, ![r].lease = 0,
                          ![r].expired = FALSE]
    /\ resumed' = resumed \cup {r}
    /\ used' = [used EXCEPT !["unlocks"] = @ + 1]
    /\ UNCHANGED <<ledger, today, worker, posts, handling, admission, chatting, booked,
                   acked, causes>>

Next ==
    \/ \E l \in Leases : \/ BudgetCheck(l) \/ Heartbeat(l) \/ Crash(l)
                         \/ \E c \in Calls : Track(l, c)
                         \/ \E kind \in Kinds : Finish(l, kind)
                         \/ \E r \in Runs : ClaimRun(r, l)
    \/ \E p \in posts : Handle(p)
    \/ \E h \in handling : Commit(h) \/ Conflict(h)
    \/ \E source \in {"worker_claim", "chat_post"} : ReadSpend(source)
    \/ NoClaim
    \/ ChatPost
    \/ \E c \in Calls, persisted \in BOOLEAN : ChatTurn(c, persisted)
    \/ \E r \in Runs : LeaseExpires(r) \/ \E b \in Budgets : UnlockRun(r, b)
    \/ NewDay

Spec == Init /\ [][Next]_vars
-----------------------------------------------------------------------------
\* No report is lost in the books: what was booked for the reports of a lease
\* covers the highest totals of that lease the API has stored, however its
\* heartbeats are delayed, overtaken or handled at the same time
\* (_record_spend_delta).
BookedCoversReports ==
    \A l \in Leases :
        /\ acked[l].tokens - worker[l].seed.tokens <= booked[l].tokens
        /\ acked[l].dollars - worker[l].seed.dollars <= booked[l].dollars

\* The ledger of a run never shows less than the row of the run, so the daily
\* ceiling cannot see less than the budget of the run does.
LedgerCoversRow ==
    \A r \in Runs : /\ run[r].tokens <= ledger[r].tokens
                    /\ run[r].dollars <= ledger[r].priced + ledger[r].unknown

\* Spend is never understated: neither what the API stored of a lease nor what
\* the row of a run says exceeds what the ledger was charged
\* (_record_spend_delta, get_tenant_daily_status).
BooksComplete == BookedCoversReports /\ LedgerCoversRow

Ordered == causes \cap {"overlap", "overtaken"} = {}

\* Nothing is booked twice, unless two reports of a run are handled at the same
\* time or a report is overtaken by a later one.
NoDoubleBooking ==
    Ordered => \A r \in Runs : /\ ledger[r].tokens = run[r].tokens
                               /\ ledger[r].priced + ledger[r].unknown = run[r].dollars

\* The most a call and a round can cost.
Dearest(costs) == CHOOSE m \in costs : \A c \in costs : c <= m
CallTokens == Dearest({c.tokens : c \in Calls})
CallDollars == Dearest({c.dollars : c \in Calls})
RoundTokens == CallsPerRound * CallTokens
RoundDollars == CallsPerRound * CallDollars

\* The cap of a run is honest across crashes, retries, expired leases and unlocks
\* (docstring of heartbeat_run): what is booked to it exceeds its budget by less
\* than one round, and unpriced dollars never count.
RunCapHonest ==
    Ordered => \A r \in Runs :
        /\ ledger[r].tokens < run[r].budget.tokens + RoundTokens
        /\ CostTracking => ledger[r].priced < run[r].budget.dollars + RoundDollars

\* A run that was unlocked works: it does not halt on its first budget check
\* (docstring and 422s of unlock_run).
UnlockedRunWorks ==
    \A l \in Leases : worker[l].phase = "halting" /\ run[worker[l].run].lease = l
                          => worker[l].run \notin resumed

\* The ceiling of the day holds: the spend and the promises of the day stay below
\* the ceiling plus one run budget, what the last round of every run may pass its
\* budget by, and the chat turns, unless a lease expired under a worker, a report was
\* written between the two reads of an admission, or reports were not handled in order
\* (assert_tenant_daily_cap_ok, _RESERVED_SQL).
DayKept ==
    causes = {} =>
        /\ today.tokens + Reserved.tokens
               < DailyCap.tokens + Dearest({b.tokens : b \in Budgets})
                 + Cardinality(Runs) * Over(RoundTokens, 1) + used["chats"] * CallTokens
        /\ CostTracking =>
             today.dollars + Reserved.dollars
               < DailyCap.dollars + Dearest({b.dollars : b \in Budgets})
                 + Cardinality(Runs) * Over(RoundDollars, 1) + used["chats"] * CallDollars
=============================================================================
