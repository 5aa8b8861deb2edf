------------------------- MODULE AuthorizationFacts -------------------------
(***************************************************************************)
(* The authorization facts of a tenant: who may put them on file, when     *)
(* they reach a run, and the question "was this authorized?" with its      *)
(* answer (core/api/authorization.py, core/ir/authorization_store.py,      *)
(* core/ir/authz_shadow.py, authorization/question.py).                    *)
(*                                                                         *)
(* A request is one transaction, except the answer: its grant is written   *)
(* in the session of the request, which commits when the response starts,  *)
(* and the review is decided in a session of its own before that.          *)
(*                                                                         *)
(* A run evaluates the facts it was given with its claim.  They do not     *)
(* change under it, so the model evaluates them at the claim and keeps the *)
(* outcome.                                                                *)
(***************************************************************************)
EXTENDS AuthorizationEngine, FiniteSets

CONSTANTS
    SystemFacts,    \* what integrations submit
    AnalystFacts,   \* what analysts put on file by hand
    TenantFacts,    \* what the tenant asserts about itself
    Cases,
    AlertOf,        \* the alert a case is about: [object, account, action]
    FileChanges,    \* activities of the file integrity track: [object, change]
    Answers,        \* the answers analysts give; their grants carry these ids
    Untils,         \* expiries an analyst may choose
    NoRow,
    NoQuestion,
    MaxNow,         \* bound: ticks
    MaxEdits,       \* bound: submissions, assertions, reviews and revocations
    MaxReviews      \* bound: reviews of a case

VARIABLES
    now,
    store,      \* authorization_facts by fact_id
    edits,      \* counts the calls that edit the store by hand
    run,        \* the live run of a case and what it was given
    review,     \* the latest review of a case
    answer      \* mssp_answer_authorization calls

vars == <<now, store, edits, run, review, answer>>

SystemTrust == 80
AnalystTrust == 60
TenantTrust == 20

Ids == {f.id : f \in SystemFacts \cup AnalystFacts \cup TenantFacts} \cup Answers

\* The ids of tenant facts and answers are generated by the server.
ASSUME FactsAssumption ==
    /\ MaxNow \in Nat /\ MaxEdits \in Nat /\ MaxReviews \in Nat
    /\ NoRow \notin Cases
    /\ \A f \in SystemFacts \cup AnalystFacts \cup TenantFacts : {"id", "trust"} \subseteq DOMAIN f
    /\ \A f \in TenantFacts : f.id \notin Answers
    /\ \A f \in SystemFacts \cup AnalystFacts :
          f.id \notin Answers /\ \A g \in TenantFacts : f.id # g.id

AccountActivity(al, t) ==
    [track |-> "account", object |-> al.object, account |-> al.account,
     action |-> al.action, time |-> t, interactive |-> FALSE]

FileActivity(ch, t) ==
    [track |-> "fim", object |-> ch.object, change |-> ch.change, time |-> t]

\* What the engine may be asked about now.
Activities ==
    {AccountActivity(AlertOf[c], now) : c \in Cases}
        \cup {FileActivity(ch, now) : ch \in FileChanges}

\* list_current_facts
CurrentFacts ==
    {store[i].fact : i \in {j \in Ids :
        /\ store[j] # NoRow
        /\ ~store[j].revoked /\ store[j].review = "approved" /\ ~store[j].fact.superseded}}
-----------------------------------------------------------------------------
(* Facts are put on file, reviewed and revoked. *)

Stamped(f, trust) == [f EXCEPT !.trust = trust]

\* store_fact: insert or replace; a row that was revoked lives again.
Row(f, status) == [fact |-> f, review |-> status, revoked |-> FALSE]
StoreFact(f, status) == store' = [store EXCEPT ![f.id] = Row(f, status)]

Edit == edits < MaxEdits /\ edits' = edits + 1 /\ UNCHANGED <<now, run, review, answer>>

\* submit_facts, one fact at a time; the code commits a batch at once.
SubmitFact(f) == StoreFact(Stamped(f, SystemTrust), "approved") /\ Edit

\* mssp_create_fact
CreateFact(f) == StoreFact(Stamped(f, AnalystTrust), "approved") /\ Edit

\* tenant_assert_fact: under an id nobody has used.
AssertFact(f) ==
    /\ store[f.id] = NoRow
    /\ StoreFact(Stamped(f, TenantTrust), "pending")
    /\ Edit

\* set_review_status, for mssp_review_fact
ReviewFact(i, status) ==
    /\ store[i] # NoRow /\ ~store[i].revoked /\ store[i].review = "pending"
    /\ store' = [store EXCEPT ![i].review = status]
    /\ Edit

\* revoke_fact, for the adapter and for analysts
RevokeFact(i) ==
    /\ store[i] # NoRow /\ ~store[i].revoked
    /\ store' = [store EXCEPT ![i].revoked = TRUE]
    /\ Edit
-----------------------------------------------------------------------------
(* The runs of a case and its question. *)

\* authorization_context_for_alert, and the gates of authorization_question_for
\* that read it.  onFile is kept for AskedOnce.
QuestionFor(F, a) ==
    IF Class(F, a) = "absent" /\ Components(F, a).genuine
    THEN [activity |-> a, onFile |-> {x \in Answers : \E f \in F : f.id = x}]
    ELSE NoQuestion

\* claim_run: the facts are bound to the moment of the claim.  A claim goes
\* ahead without them when they cannot be loaded or there is no host, and a
\* run may be claimed again before it ended.
ClaimRun(c, loaded) ==
    /\ run' = [run EXCEPT ![c] =
          [at |-> "claimed",
           question |-> IF loaded THEN QuestionFor(CurrentFacts, AccountActivity(AlertOf[c], now))
                                  ELSE NoQuestion]]
    /\ UNCHANGED <<now, store, edits, review, answer>>

\* _run_one and complete_run: the run closes the case or escalates, and an
\* escalation that only lacks information (and has no malicious signal) carries
\* the question.  A review that is still pending stays as it is.
CompleteRun(c, escalates, unresolved) ==
    /\ run[c].at = "claimed"
    /\ run' = [run EXCEPT ![c] = [at |-> "idle", question |-> NoQuestion]]
    /\ \/ (~escalates \/ review[c].status = "pending") /\ UNCHANGED review
       \/ /\ escalates /\ review[c].status # "pending" /\ review[c].row < MaxReviews
          /\ review' = [review EXCEPT ![c] =
                [row |-> @.row + 1, status |-> "pending",
                 question |-> IF unresolved THEN run[c].question ELSE NoQuestion]]
    /\ UNCHANGED <<now, store, edits, answer>>

\* Nobody reads the question of a decided review again.
Decided(v) == [v EXCEPT !.status = "decided", !.question = NoQuestion]

\* Any other decision on the review: approve, reject, more information, expiry.
OtherDecision(c) ==
    /\ review[c].status = "pending"
    /\ review' = [review EXCEPT ![c] = Decided(@)]
    /\ UNCHANGED <<now, store, edits, run, answer>>
-----------------------------------------------------------------------------
(* mssp_answer_authorization. *)

\* grant_from_activity: no wider than the activity, at any hour, until then.
GrantFor(x, a, until) ==
    [id |-> x, kind |-> "grant", track |-> a.track, superseded |-> FALSE,
     trust |-> AnalystTrust, class |-> "change_ticket",
     subject |-> a.account, action |-> a.action, targets |-> {a.object}, change |-> "any",
     window |-> [start |-> 0, end |-> Day - 1], from |-> 0, until |-> until,
     status |-> "approved", cab |-> TRUE, emergency |-> FALSE, exception |-> FALSE,
     seen |-> 0, ioc |-> FALSE]

Unused == [at |-> "unused", case |-> NoRow, row |-> 0, grant |-> NoRow, onFile |-> {}]

\* The review is read in a session of its own, the grant is written.
StartAnswer(x, c, until) ==
    LET q == review[c].question IN
    /\ answer[x].at = "unused"
    /\ review[c].status = "pending" /\ q # NoQuestion
    /\ until > q.activity.time
    /\ answer' = [answer EXCEPT ![x] =
          [at |-> "written", case |-> c, row |-> review[c].row,
           grant |-> GrantFor(x, q.activity, until), onFile |-> q.onFile]]
    /\ UNCHANGED <<now, store, edits, run, review>>

\* record_human_decision_received and its commit, whatever the review is now.
ResolveReview(x) ==
    /\ answer[x].at = "written"
    /\ answer' = [answer EXCEPT ![x].at = "resolved"]
    /\ review' = [c \in Cases |->
           IF answer[x].case = c /\ answer[x].row = review[c].row
           THEN Decided(review[c]) ELSE review[c]]
    /\ UNCHANGED <<now, store, edits, run>>

\* The response starts: DBSessionMiddleware commits the grant.
CommitAnswer(x) ==
    /\ answer[x].at = "resolved"
    /\ answer' = [answer EXCEPT ![x].at = "saved"]
    /\ StoreFact(answer[x].grant, "approved")
    /\ UNCHANGED <<now, edits, run, review>>

\* An error or a crash before that rolls the grant back; once the review is
\* decided nobody can answer it again.
FailAnswer(x) ==
    /\ answer[x].at \in {"written", "resolved"}
    /\ answer' = [answer EXCEPT ![x] =
          [Unused EXCEPT !.at = IF answer[x].at = "written" THEN "unused" ELSE "lost"]]
    /\ UNCHANGED <<now, store, edits, run, review>>

Tick ==
    /\ now < MaxNow /\ now' = now + 1
    /\ UNCHANGED <<store, edits, run, review, answer>>
-----------------------------------------------------------------------------
Init ==
    /\ now = 0 /\ edits = 0
    /\ store = [i \in Ids |-> NoRow]
    /\ run = [c \in Cases |-> [at |-> "idle", question |-> NoQuestion]]
    /\ review = [c \in Cases |-> [row |-> 0, status |-> "none", question |-> NoQuestion]]
    /\ answer = [x \in Answers |-> Unused]

Next ==
    \/ \E f \in SystemFacts : SubmitFact(f)
    \/ \E f \in AnalystFacts : CreateFact(f)
    \/ \E f \in TenantFacts : AssertFact(f)
    \/ \E i \in Ids, status \in {"approved", "rejected"} : ReviewFact(i, status)
    \/ \E i \in Ids : RevokeFact(i)
    \/ \E c \in Cases :
          \/ \E loaded \in BOOLEAN : ClaimRun(c, loaded)
          \/ \E e, u \in BOOLEAN : CompleteRun(c, e, u)
          \/ OtherDecision(c)
          \/ \E x \in Answers, until \in Untils : StartAnswer(x, c, until)
    \/ \E x \in Answers : ResolveReview(x) \/ CommitAnswer(x) \/ FailAnswer(x)
    \/ Tick

Spec == Init /\ [][Next]_vars
-----------------------------------------------------------------------------
(* Properties. *)

Facts ==
    {Stamped(f, SystemTrust) : f \in SystemFacts}
        \cup {Stamped(f, AnalystTrust) : f \in AnalystFacts}
        \cup {Stamped(f, TenantTrust) : f \in TenantFacts}
        \cup {GrantFor(x, AccountActivity(AlertOf[c], t), u) :
                  x \in Answers, c \in Cases, t \in 0..MaxNow, u \in Untils}

Questions ==
    {NoQuestion} \cup [activity : {AccountActivity(AlertOf[c], t) : c \in Cases, t \in 0..MaxNow},
                      onFile : SUBSET Answers]

\* Type invariant; a row of the store carries its own id.
TypeOK ==
    /\ now \in 0..MaxNow /\ edits \in 0..MaxEdits
    /\ store \in [Ids -> {NoRow} \cup [fact : Facts, review : {"pending", "approved", "rejected"},
                                     revoked : BOOLEAN]]
    /\ \A i \in Ids : store[i] # NoRow => store[i].fact.id = i
    /\ run \in [Cases -> [at : {"idle", "claimed"}, question : Questions]]
    /\ review \in [Cases -> [row : 0..MaxReviews, status : {"none", "pending", "decided"},
                            question : Questions]]
    /\ answer \in [Answers -> [at : {"unused", "written", "resolved", "saved", "lost"},
                              case : Cases \cup {NoRow}, row : 0..MaxReviews,
                              grant : Facts \cup {NoRow},
                              onFile : SUBSET Answers]]

\* More restrictions never make an activity expected, and fewer grants never
\* do: an activity becomes expected only when a grant or the record of an
\* entity is new to the engine, or a prohibition, a freeze or the record of an
\* entity is gone.  Exceptions to freezes and break-glass waivers look at
\* grants from inside a restriction, which is where this could go wrong.
RestrictionsNeverHelp ==
    [][store' # store =>
          LET old == CurrentFacts
              new == CurrentFacts'
          IN  \/ \E f \in new \ old : f.kind \in {"grant", "entity"}
              \/ \E f \in old \ new : f.kind \in {"prohibition", "freeze", "entity"}
              \/ \A a \in Activities : Expected(new, a) => Expected(old, a)]_vars

\* Ask once, remember (authorization/question.py): no analyst answers a question
\* of a run that was given an earlier answer, one that has expired since
\* included.  Runs claimed before the answer was saved may still ask.
AskedOnce == \A x, y \in Answers : x \notin answer[y].onFile

-----------------------------------------------------------------------------
(* Statements of the documentation that do not hold. *)

\* "a single record fully covers the activity" (authorization/engine.py).
OneRecordCovers ==
    LET others == CurrentFacts \ Grants(CurrentFacts) IN
    \A a \in Activities :
        Components(CurrentFacts, a).inScope =>
            \E g \in Grants(CurrentFacts) : Components(others \cup {g}, a).inScope

\* "a non-covering fact is ignored" (core/ir/authz_shadow.py): a grant for
\* another account, action and host makes no difference.
NonCoveringIgnored ==
    \A c \in Cases, g \in Grants(CurrentFacts) :
        LET a == AccountActivity(AlertOf[c], now)
        IN  ~OnSubject(g, a) /\ a.object \notin g.targets =>
                Class(CurrentFacts, a) = Class(CurrentFacts \ {g}, a)

\* "an affirmative answer becomes a durable analyst_asserted grant"
\* (authorization/question.py): a review decided by an answer has its grant.
AnswerRemembered == \A x \in Answers : answer[x].at # "lost"

\* "we must not ask ... there, because an affirmative answer would mint a fresh
\* grant that papers over exactly the contradiction" (authorization/question.py).
AnswersFillAbsence ==
    [][\A x \in Answers :
          answer[x].at = "resolved" /\ answer'[x].at = "saved" =>
              Class(CurrentFacts, AccountActivity(AlertOf[answer[x].case], now)) # "contradicted"
      ]_answer
=============================================================================
