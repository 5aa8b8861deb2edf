------------------------ MODULE AuthorizationProofs ------------------------
(***************************************************************************)
(* Proofs about the authorization facts, for every set of facts, alerts,   *)
(* file changes and answers.  The first part is about the engine alone and *)
(* any set of facts.                                                       *)
(***************************************************************************)
EXTENDS AuthorizationFacts, TLAPS

-----------------------------------------------------------------------------
(* The engine: more restrictions and fewer grants.                         *)

\* G grants no more than F, restricts no less and knows the same entities.
Tighter(F, G) ==
    /\ \A f \in G \ F : f.kind \notin {"grant", "entity"}
    /\ \A f \in F \ G : f.kind \notin {"prohibition", "freeze", "entity"}

\* What tighter facts have of each kind.
LEMMA TighterParts ==
    ASSUME NEW F, NEW G, Tighter(F, G)
    PROVE  /\ Grants(G) \subseteq Grants(F)
           /\ Prohibitions(F) \subseteq Prohibitions(G)
           /\ Freezes(F) \subseteq Freezes(G)
           /\ \A type, name : Entities(G, type, name) = Entities(F, type, name)
BY DEF Tighter, Grants, Prohibitions, Freezes, Entities

\* _select keeps facts tighter.
LEMMA TighterSelect ==
    ASSUME NEW F, NEW G, NEW a, Tighter(F, G)
    PROVE  Tighter(Select(F, a), Select(G, a))
BY DEF Tighter, Select

\* A ticket that covers under the tighter facts covers under the looser ones.
LEMMA TicketTighter ==
    ASSUME NEW F, NEW G, NEW a, NEW g, Tighter(F, G), TicketCovers(G, g, a)
    PROVE  TicketCovers(F, g, a)
<1>1. Freezes(F) \subseteq Freezes(G)
      /\ Entities(G, "asset", a.object) = Entities(F, "asset", a.object)
  BY TighterParts
<1>2. FreezeBlocks(F, g, a) => FreezeBlocks(G, g, a)
  BY <1>1 DEF FreezeBlocks
<1> QED BY <1>2 DEF TicketCovers

\* What the engine makes of the entities is the same.
LEMMA EntitiesTighter ==
    ASSUME NEW F, NEW G, NEW a, Tighter(F, G)
    PROVE  /\ AccountFacts(G, a) = AccountFacts(F, a)
           /\ AccountGenuine(G, a) <=> AccountGenuine(F, a)
           /\ \A x, y : OrgLinked(G, x, y) <=> OrgLinked(F, x, y)
           /\ ConfigClass(G, a) = ConfigClass(F, a)
<1>1. \A type, name : Entities(G, type, name) = Entities(F, type, name)
  BY TighterParts
<1>2. AccountFacts(G, a) = AccountFacts(F, a)
  BY <1>1 DEF AccountFacts
<1>3. AccountGenuine(G, a) <=> AccountGenuine(F, a)
  BY <1>1, <1>2 DEF AccountGenuine, AccountCompromised
<1>4. \A x, y : OrgLinked(G, x, y) <=> OrgLinked(F, x, y)
  BY <1>1 DEF OrgLinked
<1>5. ConfigClass(G, a) = ConfigClass(F, a)
  BY <1>1 DEF ConfigClass
<1> QED BY <1>2, <1>3, <1>4, <1>5

\* _acct_components is monotonic.
LEMMA AccountTighter ==
    ASSUME NEW F, NEW G, NEW a, Tighter(F, G)
    PROVE  /\ AccountInScope(G, a) => AccountInScope(F, a)
           /\ \A p : AccountForbids(F, p, a) => AccountForbids(G, p, a)
<1>1. /\ Grants(G) \subseteq Grants(F)
      /\ \A type, name : Entities(G, type, name) = Entities(F, type, name)
  BY TighterParts
<1>2. /\ AccountFacts(G, a) = AccountFacts(F, a)
      /\ \A x, y : OrgLinked(G, x, y) <=> OrgLinked(F, x, y)
  BY EntitiesTighter
<1>3. \A g : TicketCovers(G, g, a) => TicketCovers(F, g, a)
  BY TicketTighter
<1>4. AccountInScope(G, a) => AccountInScope(F, a)
  BY <1>1, <1>2, <1>3 DEF AccountInScope, AccountCovers
<1>5. ASSUME NEW p, AccountForbids(F, p, a)
      PROVE  AccountForbids(G, p, a)
  BY <1>1, <1>2, <1>3, <1>5 DEF AccountForbids
<1> QED BY <1>4, <1>5

\* _fim_components is monotonic: a freeze lifted by a request under the tighter
\* facts is lifted under the looser ones.
LEMMA FimTighter ==
    ASSUME NEW F, NEW G, NEW a, Tighter(F, G)
    PROVE  /\ FimInScope(G, a) => FimInScope(F, a)
           /\ \A p : FimForbids(F, p, a) => FimForbids(G, p, a)
<1>1. Grants(G) \subseteq Grants(F) /\ Freezes(F) \subseteq Freezes(G)
  BY TighterParts
<1>2. ConfigClass(G, a) = ConfigClass(F, a)
  BY EntitiesTighter
<1>3. \A z : FimFreezeBlocks(F, z, a) => FimFreezeBlocks(G, z, a)
  BY <1>1, <1>2 DEF FimFreezeBlocks
<1>4. FimInScope(G, a) => FimInScope(F, a)
  BY <1>1, <1>3 DEF FimInScope
<1>5. ASSUME NEW p, FimForbids(F, p, a)
      PROVE  FimForbids(G, p, a)
  BY <1>1, <1>2, <1>5 DEF FimForbids
<1> QED BY <1>4, <1>5

\* evaluate_authorization is monotonic: an activity that is expected stays so
\* when prohibitions and freezes go and grants come, the entities being the same.
THEOREM EngineMonotonic ==
    ASSUME NEW F, NEW G, NEW a, Tighter(F, G), Expected(G, a)
    PROVE  Expected(F, a)
<1> DEFINE S == Select(F, a)
           T == Select(G, a)
<1>1. Tighter(S, T)
  BY TighterSelect
<1> HIDE DEF S, T
<1>2. Grants(T) \subseteq Grants(S) /\ Prohibitions(S) \subseteq Prohibitions(T)
  BY <1>1, TighterParts
<1>3. CASE a.track = "fim"
  <2>1. /\ \E g \in Grants(T) : FimSanctions(g, a)
        /\ FimInScope(T, a)
        /\ ~CompromisedBy(Entities(T, "path", a.object))
        /\ \A p \in Prohibitions(T) : ~FimForbids(T, p, a)
    BY <1>3 DEF Expected, Components, FimComponents, T
  <2>2. Entities(T, "path", a.object) = Entities(S, "path", a.object)
    BY <1>1, TighterParts
  <2>3. /\ \E g \in Grants(S) : FimSanctions(g, a)
        /\ FimInScope(S, a)
        /\ ~CompromisedBy(Entities(S, "path", a.object))
        /\ \A p \in Prohibitions(S) : ~FimForbids(S, p, a)
    BY <2>1, <2>2, <1>1, <1>2, FimTighter
  <2> QED BY <1>3, <2>3 DEF Expected, Components, FimComponents, S
<1>4. CASE a.track # "fim"
  <2>1. /\ \E g \in Grants(T) : AccountSanctions(g, a)
        /\ AccountInScope(T, a)
        /\ AccountGenuine(T, a)
        /\ \A p \in Prohibitions(T) : ~AccountForbids(T, p, a)
    BY <1>4 DEF Expected, Components, AccountComponents, T
  <2>2. AccountGenuine(T, a) <=> AccountGenuine(S, a)
    BY <1>1, EntitiesTighter
  <2>3. /\ \E g \in Grants(S) : AccountSanctions(g, a)
        /\ AccountInScope(S, a)
        /\ AccountGenuine(S, a)
        /\ \A p \in Prohibitions(S) : ~AccountForbids(S, p, a)
    BY <2>1, <2>2, <1>1, <1>2, AccountTighter
  <2> QED BY <1>4, <2>3 DEF Expected, Components, AccountComponents, S
<1> QED BY <1>3, <1>4

-----------------------------------------------------------------------------
(* The engine: one record covers.                                          *)

\* Coverage is sanction: no activity is in scope and left unsanctioned.
THEOREM CoverageSanctions ==
    ASSUME NEW F, NEW a, Components(F, a).inScope
    PROVE  Components(F, a).sanctioned
<1>1. CASE a.track = "fim"
  <2>1. FimInScope(Select(F, a), a)
    BY <1>1 DEF Components, FimComponents
  <2>2. \E g \in Grants(Select(F, a)) : FimSanctions(g, a)
    BY <2>1 DEF FimInScope, RequestCovers, PathBaselineCovers, FimSanctions, GrantOk
  <2> QED BY <1>1, <2>2 DEF Components, FimComponents
<1>2. CASE a.track # "fim"
  <2>1. AccountInScope(Select(F, a), a)
    BY <1>2 DEF Components, AccountComponents
  <2>2. PICK g \in Grants(Select(F, a)) : AccountCovers(Select(F, a), g, a)
    BY <2>1 DEF AccountInScope
  <2>3. AccountSanctions(g, a)
    BY <2>2 DEF AccountCovers, TicketCovers, BaselineCovers, Exact, AccountSanctions
  <2> QED BY <1>2, <2>3 DEF Components, AccountComponents
<1> QED BY <1>1, <1>2

\* "A single record fully covers the activity" holds on the account track: one
\* grant, with everything on file that is no grant, is as good as all of them.
\* On the other track OneRecordCovers fails.
THEOREM OneAccountRecord ==
    ASSUME NEW F, NEW a, a.track # "fim", Components(F, a).inScope
    PROVE  \E g \in Grants(F) : Components((F \ Grants(F)) \cup {g}, a).inScope
<1> DEFINE S == Select(F, a)
<1>1. AccountInScope(S, a)
  BY DEF Components, AccountComponents
<1>2. PICK g \in Grants(S) : AccountCovers(S, g, a)
  BY <1>1 DEF AccountInScope
<1> DEFINE G == (F \ Grants(F)) \cup {g}
           T == Select(G, a)
<1>3. g \in Grants(F) /\ g \in Grants(T)
  BY <1>2 DEF Grants, Select
<1>4. /\ Freezes(T) = Freezes(S)
      /\ \A type, name : Entities(T, type, name) = Entities(S, type, name)
  BY <1>2 DEF Freezes, Entities, Grants, Select
<1>5. AccountFacts(T, a) = AccountFacts(S, a)
  BY <1>4 DEF AccountFacts
<1> HIDE DEF S, T
<1>6. FreezeBlocks(T, g, a) => FreezeBlocks(S, g, a)
  BY <1>4 DEF FreezeBlocks
<1>7. AccountCovers(T, g, a)
  BY <1>2, <1>6 DEF AccountCovers, TicketCovers
<1>8. \A x, y : OrgLinked(S, x, y) <=> OrgLinked(T, x, y)
  BY <1>4 DEF OrgLinked
<1>9. AccountInScope(T, a)
  BY <1>1, <1>3, <1>4, <1>5, <1>7, <1>8 DEF AccountInScope
<1>10. Components(G, a).inScope
  BY <1>9 DEF Components, AccountComponents, T
<1> QED BY <1>3, <1>10

-----------------------------------------------------------------------------
(* Types.                                                                  *)

\* The id and the other fields survive the stamp.
LEMMA StampedType ==
    ASSUME NEW f \in SystemFacts \cup AnalystFacts \cup TenantFacts, NEW t
    PROVE  Stamped(f, t).id = f.id /\ f.id \in Ids
BY FactsAssumption DEF Stamped, Ids

\* Storing a fact under its id keeps the store's type.
LEMMA StoreType ==
    ASSUME TypeOK, NEW f \in Facts, f.id \in Ids,
           NEW status \in {"pending", "approved", "rejected"}, StoreFact(f, status)
    PROVE  /\ store' \in [Ids -> {NoRow} \cup [fact : Facts,
                    review : {"pending", "approved", "rejected"}, revoked : BOOLEAN]]
           /\ \A i \in Ids : store'[i] # NoRow => store'[i].fact.id = i
BY DEF TypeOK, StoreFact, Row

\* grant_from_activity makes a fact of the account track.
LEMMA GrantType ==
    ASSUME NEW x \in Answers, NEW c \in Cases, NEW t \in 0..MaxNow, NEW u \in Untils
    PROVE  LET g == GrantFor(x, AccountActivity(AlertOf[c], t), u)
           IN  g \in Facts /\ g.id = x
<1>1. GrantFor(x, AccountActivity(AlertOf[c], t), u) \in Facts
  BY DEF Facts
<1>2. GrantFor(x, AccountActivity(AlertOf[c], t), u).id = x
  BY DEF GrantFor
<1> QED BY <1>1, <1>2

\* A decision keeps the row and takes the question away.
LEMMA DecidedType ==
    ASSUME TypeOK, NEW c \in Cases
    PROVE  /\ Decided(review[c]) \in [row : 0..MaxReviews,
                status : {"none", "pending", "decided"}, question : Questions]
           /\ Decided(review[c]).question = NoQuestion
<1>1. review[c] \in [row : 0..MaxReviews, status : {"none", "pending", "decided"},
                     question : Questions]
  BY DEF TypeOK
<1>2. NoQuestion \in Questions
  BY DEF Questions
<1> QED BY <1>1, <1>2 DEF Decided

\* A question, if there is one, is about the alert of a case.
LEMMA QuestionType ==
    ASSUME NEW F, NEW c \in Cases, NEW t \in 0..MaxNow
    PROVE  QuestionFor(F, AccountActivity(AlertOf[c], t)) \in Questions
BY DEF QuestionFor, Questions

\* What an answer has written is its grant.
Written ==
    \A x \in Answers : answer[x].at \in {"written", "resolved"} =>
        answer[x].case \in Cases /\ answer[x].grant \in Facts /\ answer[x].grant.id = x

TypeInv == TypeOK /\ Written

\* Type correctness: the store, the runs, the reviews and the answers keep their
\* shape, whatever is submitted and whoever answers.
THEOREM AuthorizationTypeCorrect == Spec => []TypeInv
<1>1. Init => TypeInv
  BY FactsAssumption DEF Init, TypeInv, TypeOK, Written, Questions, Unused
<1>2. ASSUME TypeInv, [Next]_vars PROVE TypeInv'
  <2> USE <1>2 DEF TypeInv
  <2>1. CASE \E f \in SystemFacts : SubmitFact(f)
    <3>1. PICK f \in SystemFacts : SubmitFact(f)
      BY <2>1
    <3>2. Stamped(f, SystemTrust) \in Facts /\ Stamped(f, SystemTrust).id \in Ids
      BY StampedType DEF Facts
    <3>3. StoreFact(Stamped(f, SystemTrust), "approved") /\ Edit
      BY <3>1 DEF SubmitFact
    <3> HIDE DEF TypeInv
    <3>4. /\ store' \in [Ids -> {NoRow} \cup [fact : Facts,
                    review : {"pending", "approved", "rejected"}, revoked : BOOLEAN]]
          /\ \A i \in Ids : store'[i] # NoRow => store'[i].fact.id = i
      BY <3>2, <3>3, <1>2, StoreType DEF TypeInv
    <3> QED BY <1>2, <3>3, <3>4, FactsAssumption DEF TypeInv, TypeOK, Written, Edit
  <2>2. CASE \E f \in AnalystFacts : CreateFact(f)
    <3>1. PICK f \in AnalystFacts : CreateFact(f)
      BY <2>2
    <3>2. Stamped(f, AnalystTrust) \in Facts /\ Stamped(f, AnalystTrust).id \in Ids
      BY StampedType DEF Facts
    <3>3. StoreFact(Stamped(f, AnalystTrust), "approved") /\ Edit
      BY <3>1 DEF CreateFact
    <3> HIDE DEF TypeInv
    <3>4. /\ store' \in [Ids -> {NoRow} \cup [fact : Facts,
                    review : {"pending", "approved", "rejected"}, revoked : BOOLEAN]]
          /\ \A i \in Ids : store'[i] # NoRow => store'[i].fact.id = i
      BY <3>2, <3>3, <1>2, StoreType DEF TypeInv
    <3> QED BY <1>2, <3>3, <3>4, FactsAssumption DEF TypeInv, TypeOK, Written, Edit
  <2>3. CASE \E f \in TenantFacts : AssertFact(f)
    <3>1. PICK f \in TenantFacts : AssertFact(f)
      BY <2>3
    <3>2. Stamped(f, TenantTrust) \in Facts /\ Stamped(f, TenantTrust).id \in Ids
      BY StampedType DEF Facts
    <3>3. StoreFact(Stamped(f, TenantTrust), "pending") /\ Edit
      BY <3>1 DEF AssertFact
    <3> HIDE DEF TypeInv
    <3>4. /\ store' \in [Ids -> {NoRow} \cup [fact : Facts,
                    review : {"pending", "approved", "rejected"}, revoked : BOOLEAN]]
          /\ \A i \in Ids : store'[i] # NoRow => store'[i].fact.id = i
      BY <3>2, <3>3, <1>2, StoreType DEF TypeInv
    <3> QED BY <1>2, <3>3, <3>4, FactsAssumption DEF TypeInv, TypeOK, Written, Edit
  <2>4. CASE \E i \in Ids, status \in {"approved", "rejected"} : ReviewFact(i, status)
    BY <2>4, FactsAssumption DEF TypeOK, Written, ReviewFact, Edit
  <2>5. CASE \E i \in Ids : RevokeFact(i)
    <3>1. PICK i \in Ids : RevokeFact(i)
      BY <2>5
    <3>2. store[i] \in [fact : Facts, review : {"pending", "approved", "rejected"},
                        revoked : BOOLEAN] /\ store[i].fact.id = i
      BY <3>1 DEF RevokeFact, TypeOK
    <3>3. [store[i] EXCEPT !.revoked = TRUE] \in
             [fact : Facts, review : {"pending", "approved", "rejected"}, revoked : BOOLEAN]
          /\ [store[i] EXCEPT !.revoked = TRUE].fact.id = i
      BY <3>2
    <3>4. store' = [store EXCEPT ![i] = [store[i] EXCEPT !.revoked = TRUE]]
      BY <3>1 DEF RevokeFact, TypeOK
    <3>5. /\ store' \in [Ids -> {NoRow} \cup [fact : Facts,
                    review : {"pending", "approved", "rejected"}, revoked : BOOLEAN]]
          /\ \A j \in Ids : store'[j] # NoRow => store'[j].fact.id = j
      BY <3>3, <3>4 DEF TypeOK
    <3> QED BY <3>1, <3>5, FactsAssumption DEF TypeOK, Written, RevokeFact, Edit
  <2>6. CASE \E c \in Cases, loaded \in BOOLEAN : ClaimRun(c, loaded)
    <3>1. PICK c \in Cases, loaded \in BOOLEAN : ClaimRun(c, loaded)
      BY <2>6
    <3>2. QuestionFor(CurrentFacts, AccountActivity(AlertOf[c], now)) \in Questions
          /\ NoQuestion \in Questions
      <4>1. now \in 0..MaxNow
        BY DEF TypeOK
      <4>2. NoQuestion \in Questions
        BY DEF Questions
      <4> QED BY <4>1, <4>2, QuestionType
    <3> QED BY <3>1, <3>2 DEF TypeOK, Written, ClaimRun
  <2>7. CASE \E c \in Cases, e, u \in BOOLEAN : CompleteRun(c, e, u)
    <3>1. PICK c \in Cases, e \in BOOLEAN, u \in BOOLEAN : CompleteRun(c, e, u)
      BY <2>7
    <3>2. NoQuestion \in Questions
      BY DEF Questions
    <3>3. run' \in [Cases -> [at : {"idle", "claimed"}, question : Questions]]
      BY <3>1, <3>2 DEF TypeOK, CompleteRun
    <3>4. review' \in [Cases -> [row : 0..MaxReviews, status : {"none", "pending", "decided"},
                            question : Questions]]
      BY <3>1, <3>2, FactsAssumption DEF TypeOK, CompleteRun
    <3> QED BY <3>1, <3>3, <3>4 DEF TypeOK, Written, CompleteRun
  <2>8. CASE \E c \in Cases : OtherDecision(c)
    <3>1. PICK c \in Cases : OtherDecision(c)
      BY <2>8
    <3>2. review' = [review EXCEPT ![c] = Decided(review[c])]
      BY <3>1 DEF OtherDecision
    <3> QED BY <3>1, <3>2, DecidedType DEF TypeOK, Written, OtherDecision
  <2>9. CASE \E c \in Cases, x \in Answers, until \in Untils : StartAnswer(x, c, until)
    <3>1. PICK c \in Cases, x \in Answers, until \in Untils : StartAnswer(x, c, until)
      BY <2>9
    <3> DEFINE q == review[c].question
               g == GrantFor(x, q.activity, until)
    <3>2. q # NoQuestion /\ q \in Questions
      BY <3>1 DEF StartAnswer, TypeOK
    <3>3. PICK d \in Cases, t \in 0..MaxNow : q.activity = AccountActivity(AlertOf[d], t)
      BY <3>2 DEF Questions
    <3>4. g \in Facts /\ g.id = x
      BY <3>3, GrantType
    <3>5. q.onFile \in SUBSET Answers /\ review[c].row \in 0..MaxReviews
      BY <3>2 DEF Questions, TypeOK
    <3> HIDE DEF g, q
    <3>6. answer' = [answer EXCEPT ![x] = [at |-> "written", case |-> c, row |-> review[c].row,
                                           grant |-> g, onFile |-> q.onFile]]
      BY <3>1 DEF StartAnswer, g, q
    <3> QED BY <3>1, <3>4, <3>5, <3>6 DEF TypeOK, Written, StartAnswer
  <2>10. CASE \E x \in Answers : ResolveReview(x)
    <3>1. PICK x \in Answers : ResolveReview(x)
      BY <2>10
    <3>2. review' \in [Cases -> [row : 0..MaxReviews, status : {"none", "pending", "decided"},
                            question : Questions]]
      BY <3>1, DecidedType DEF TypeOK, ResolveReview
    <3>3. answer' = [answer EXCEPT ![x].at = "resolved"] /\ answer[x].at = "written"
      BY <3>1 DEF ResolveReview
    <3>4. /\ answer' \in [Answers ->
                [at : {"unused", "written", "resolved", "saved", "lost"},
                 case : Cases \cup {NoRow}, row : 0..MaxReviews, grant : Facts \cup {NoRow},
                 onFile : SUBSET Answers]]
          /\ Written'
      BY <3>3 DEF TypeOK, Written
    <3>5. UNCHANGED <<now, store, edits, run>>
      BY <3>1 DEF ResolveReview
    <3> QED BY <3>2, <3>4, <3>5 DEF TypeOK
  <2>11. CASE \E x \in Answers : CommitAnswer(x)
    <3>1. PICK x \in Answers : CommitAnswer(x)
      BY <2>11
    <3>2. answer[x].grant \in Facts /\ answer[x].grant.id \in Ids
      BY <3>1 DEF CommitAnswer, Written, Ids
    <3>3. StoreFact(answer[x].grant, "approved")
      BY <3>1 DEF CommitAnswer
    <3>4. /\ store' \in [Ids -> {NoRow} \cup [fact : Facts,
                    review : {"pending", "approved", "rejected"}, revoked : BOOLEAN]]
          /\ \A i \in Ids : store'[i] # NoRow => store'[i].fact.id = i
      BY <3>2, <3>3, StoreType
    <3>5. answer' = [answer EXCEPT ![x].at = "saved"] /\ UNCHANGED <<now, edits, run, review>>
      BY <3>1 DEF CommitAnswer
    <3>6. /\ answer' \in [Answers ->
                [at : {"unused", "written", "resolved", "saved", "lost"},
                 case : Cases \cup {NoRow}, row : 0..MaxReviews, grant : Facts \cup {NoRow},
                 onFile : SUBSET Answers]]
          /\ Written'
      BY <3>5 DEF TypeOK, Written
    <3> QED BY <3>4, <3>5, <3>6 DEF TypeOK
  <2>12. CASE \E x \in Answers : FailAnswer(x)
    BY <2>12, FactsAssumption DEF TypeOK, Written, FailAnswer, Unused
  <2>13. CASE Tick
    BY <2>13, FactsAssumption DEF TypeOK, Written, Tick
  <2>14. CASE UNCHANGED vars
    BY <2>14 DEF TypeOK, Written, vars
  <2> QED
    BY <1>2, <2>1, <2>2, <2>3, <2>4, <2>5, <2>6, <2>7, <2>8, <2>9, <2>10, <2>11, <2>12, <2>13,
       <2>14 DEF Next
<1> QED BY <1>1, <1>2, PTL DEF Spec

-----------------------------------------------------------------------------
(* The properties.                                                         *)

\* No step makes an activity expected by restricting more or granting less.
THEOREM RestrictingNeverHelps == Spec => RestrictionsNeverHelp
<1> DEFINE new == CurrentFacts'
<1>1. \/ \E f \in new \ CurrentFacts : f.kind \in {"grant", "entity"}
      \/ \E f \in CurrentFacts \ new : f.kind \in {"prohibition", "freeze", "entity"}
      \/ \A a \in Activities : Expected(new, a) => Expected(CurrentFacts, a)
  <2> HIDE DEF new
  <2>1. CASE Tighter(CurrentFacts, new)
    BY <2>1, EngineMonotonic
  <2>2. CASE ~Tighter(CurrentFacts, new)
    BY <2>2 DEF Tighter
  <2> QED BY <2>1, <2>2
<1> QED BY <1>1, PTL DEF Spec, RestrictionsNeverHelp

\* A question the facts leave open: no grant of the track is among them.
LEMMA AbsentMeansNoGrant ==
    ASSUME NEW F, NEW a, Class(F, a) = "absent"
    PROVE  Grants(Select(F, a)) = {}
<1>1. Grants({}) = {}
  BY DEF Grants
<1>2. CASE Select(F, a) = {}
  BY <1>1, <1>2
<1>3. CASE Select(F, a) # {}
  BY <1>3 DEF Class
<1> QED BY <1>2, <1>3

\* Questions and answers have seen no earlier answer.
NoneSeen ==
    /\ \A c \in Cases : run[c].question # NoQuestion => run[c].question.onFile = {}
    /\ \A c \in Cases : review[c].question # NoQuestion => review[c].question.onFile = {}
    /\ \A x \in Answers : answer[x].onFile = {}

\* A fact on file with the id of an answer is a grant of the account track.
LEMMA AnswersAreGrants ==
    ASSUME TypeOK, NEW f \in CurrentFacts, f.id \in Answers, NEW al, NEW t
    PROVE  f \in Grants(Select(CurrentFacts, AccountActivity(al, t)))
<1>1. f \in Facts /\ ~f.superseded
  BY DEF CurrentFacts, TypeOK
<1>2. \A h \in SystemFacts \cup AnalystFacts \cup TenantFacts : \A u :
         Stamped(h, u).id \notin Answers
  BY StampedType, FactsAssumption
<1>3. PICK x \in Answers, c \in Cases, s \in 0..MaxNow, u \in Untils :
         f = GrantFor(x, AccountActivity(AlertOf[c], s), u)
  BY <1>1, <1>2 DEF Facts
<1>4. f.kind = "grant" /\ f.track = "account"
  BY <1>3 DEF GrantFor, AccountActivity
<1> QED BY <1>1, <1>4 DEF Grants, Select, AccountActivity

\* A question is asked only when no answer is on file.
LEMMA QuestionSeesNone ==
    ASSUME TypeOK, NEW c \in Cases,
           QuestionFor(CurrentFacts, AccountActivity(AlertOf[c], now)) # NoQuestion
    PROVE  QuestionFor(CurrentFacts, AccountActivity(AlertOf[c], now)).onFile = {}
<1> DEFINE a == AccountActivity(AlertOf[c], now)
<1>1. Class(CurrentFacts, a) = "absent"
  BY DEF QuestionFor
<1>2. Grants(Select(CurrentFacts, a)) = {}
  BY <1>1, AbsentMeansNoGrant
<1>3. {x \in Answers : \E f \in CurrentFacts : f.id = x} = {}
  BY <1>2, AnswersAreGrants
<1> QED BY <1>3 DEF QuestionFor

\* Ask once: from NoneSeen, which every claim, completion and answer keeps.
THEOREM AsksOnce == Spec => []AskedOnce
<1>1. Init => NoneSeen
  BY DEF Init, NoneSeen, Unused
<1>2. ASSUME TypeInv, NoneSeen, [Next]_vars PROVE NoneSeen'
  <2> USE <1>2 DEF TypeInv, NoneSeen
  <2>1. CASE \/ \E f \in SystemFacts : SubmitFact(f)
             \/ \E f \in AnalystFacts : CreateFact(f)
             \/ \E f \in TenantFacts : AssertFact(f)
             \/ \E i \in Ids, status \in {"approved", "rejected"} : ReviewFact(i, status)
             \/ \E i \in Ids : RevokeFact(i)
    BY <2>1 DEF SubmitFact, CreateFact, AssertFact, ReviewFact, RevokeFact, Edit
  <2>2. CASE \E c \in Cases, loaded \in BOOLEAN : ClaimRun(c, loaded)
    <3>1. PICK c \in Cases, loaded \in BOOLEAN : ClaimRun(c, loaded)
      BY <2>2
    <3> DEFINE q == QuestionFor(CurrentFacts, AccountActivity(AlertOf[c], now))
    <3>2. q # NoQuestion => q.onFile = {}
      BY QuestionSeesNone
    <3> HIDE DEF q
    <3>3. run' = [run EXCEPT ![c] =
             [at |-> "claimed", question |-> IF loaded THEN q ELSE NoQuestion]]
      BY <3>1 DEF ClaimRun, q
    <3> QED BY <3>1, <3>2, <3>3 DEF TypeOK, ClaimRun
  <2>3. CASE \E c \in Cases, e, u \in BOOLEAN : CompleteRun(c, e, u)
    BY <2>3 DEF TypeOK, CompleteRun
  <2>4. CASE \E c \in Cases : OtherDecision(c)
    BY <2>4 DEF TypeOK, OtherDecision, Decided
  <2>5. CASE \E c \in Cases, x \in Answers, until \in Untils : StartAnswer(x, c, until)
    BY <2>5 DEF TypeOK, StartAnswer
  <2>6. CASE \E x \in Answers : ResolveReview(x)
    <3>1. PICK x \in Answers : ResolveReview(x)
      BY <2>6
    <3>2. \A c \in Cases : review'[c] \in {review[c], Decided(review[c])}
      BY <3>1 DEF ResolveReview
    <3>3. \A c \in Cases : review'[c].question # NoQuestion => review'[c].question.onFile = {}
      BY <3>2, DecidedType
    <3> QED BY <3>1, <3>3 DEF TypeOK, ResolveReview
  <2>7. CASE \E x \in Answers : CommitAnswer(x) \/ FailAnswer(x)
    <3>1. PICK x \in Answers : CommitAnswer(x) \/ FailAnswer(x)
      BY <2>7
    <3>2. /\ answer' = [answer EXCEPT ![x].at = "saved"]
             \/ \E status : answer' = [answer EXCEPT ![x] = [Unused EXCEPT !.at = status]]
          /\ UNCHANGED <<run, review>>
      BY <3>1 DEF CommitAnswer, FailAnswer
    <3>3. \A y \in Answers : answer'[y].onFile = {}
      BY <3>2 DEF TypeOK, Unused
    <3> QED BY <3>2, <3>3
  <2>8. CASE Tick \/ UNCHANGED vars
    BY <2>8 DEF Tick, vars
  <2> QED BY <1>2, <2>1, <2>2, <2>3, <2>4, <2>5, <2>6, <2>7, <2>8 DEF Next
<1>3. NoneSeen => AskedOnce
  BY DEF NoneSeen, AskedOnce
<1> QED BY <1>1, <1>2, <1>3, AuthorizationTypeCorrect, PTL DEF Spec
=============================================================================
