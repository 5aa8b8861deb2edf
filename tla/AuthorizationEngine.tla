------------------------ MODULE AuthorizationEngine ------------------------
(***************************************************************************)
(* The authorization evaluator (authorization/engine.py): an activity and  *)
(* the facts on file give the four components of expectedness and the      *)
(* class the guard, the safety floor and the question read.                *)
(*                                                                         *)
(* A fact is a record of its kind (models/authorization.py).  Where the    *)
(* code has an optional constraint, the record has the set, or the range,  *)
(* of what it admits: targets is what a host name or a path glob matches,  *)
(* a place is what the environment, criticality and data class of a host,  *)
(* or the config class of a path, say together.  rank stands for the       *)
(* canonical attributes that break a tie between equally trusted records.  *)
(***************************************************************************)
EXTENDS Naturals

CONSTANTS
    Day,            \* the ticks of a day
    ROUTINE_MIN,    \* sightings that make an activity routine
    DefaultPlace,   \* of a host or path nothing is known about
    NoOrg           \* the organisation of one nothing is known about

ASSUME EngineAssumption == Day \in Nat \ {0} /\ ROUTINE_MIN \in Nat

\* _grants, _prohibitions, _freezes
Grants(F) == {f \in F : f.kind = "grant"}
Prohibitions(F) == {f \in F : f.kind = "prohibition"}
Freezes(F) == {f \in F : f.kind = "freeze"}
Entities(F, type, name) ==
    {f \in F : f.kind = "entity" /\ f.type = type /\ f.name = name}

\* _select: the track of the activity, and no superseded record.
Select(F, a) == {f \in F : f.track = a.track /\ ~f.superseded}
-----------------------------------------------------------------------------
(* Entities. *)

\* The most trusted record; entity_resolution_key breaks ties.
Foremost(S) ==
    CHOOSE f \in S : \A g \in S :
        g.trust < f.trust \/ (g.trust = f.trust /\ g.rank <= f.rank)

\* _attr: the default of a record that is not there.
PlaceOf(S) == IF S = {} THEN DefaultPlace ELSE Foremost(S).place
OrgOf(S) == IF S = {} THEN NoOrg ELSE Foremost(S).org
CompromisedBy(S) == S # {} /\ Foremost(S).compromised

\* _account_fact: a record without a type never shadows a real one.
AccountFacts(F, a) == {f \in Entities(F, "account", a.account) : f.account # "unknown"}

\* _account_compromised: any flagged record counts.
AccountCompromised(F, a) == \E f \in Entities(F, "account", a.account) : f.compromised

\* _org_linked
OrgLinked(F, x, y) ==
    \/ x = y
    \/ \E p \in {<<x, y>>, <<y, x>>} :
          LET S == Entities(F, "org", p[1]) IN S # {} /\ p[2] \in Foremost(S).linked
-----------------------------------------------------------------------------
(* When and what a grant is good for. *)

\* _in_recurring_window, inclusive on both ends; a window that starts after it
\* ends admits nothing.
InWindow(g, t) == g.window.start <= t % Day /\ t % Day <= g.window.end

\* _in_validity
InValidity(g, t) == g.from <= t /\ t <= g.until

InTime(g, a) == InWindow(g, a.time) /\ InValidity(g, a.time)

\* _grant_ok; cab says that the board approved, or need not.
GrantOk(g) == g.status = "approved" /\ g.cab

Active(z, a) == z.start <= a.time /\ a.time <= z.end
-----------------------------------------------------------------------------
(* The account track. *)

OnSubject(g, a) == g.subject = a.account /\ g.action = a.action
Exact(g, a) == OnSubject(g, a) /\ a.object \in g.targets

\* _acct_freeze_blocks
FreezeBlocks(F, g, a) ==
    /\ ~g.exception
    /\ \E z \in Freezes(F) :
          /\ PlaceOf(Entities(F, "asset", a.object)) \in z.places
          /\ Active(z, a) /\ g.id \notin z.allowed

\* _acct_ticket_covers
TicketCovers(F, g, a) ==
    /\ g.class = "change_ticket" /\ GrantOk(g)
    /\ Exact(g, a) /\ InTime(g, a) /\ ~FreezeBlocks(F, g, a)

\* _acct_baseline_covers
BaselineCovers(g, a) == g.class = "standing_baseline" /\ Exact(g, a) /\ InTime(g, a)

\* _acct_routine
Routine(g, a) ==
    /\ g.class = "routine_observation" /\ Exact(g, a)
    /\ g.seen >= ROUTINE_MIN /\ ~g.ioc /\ InTime(g, a)

AccountCovers(F, g, a) == TicketCovers(F, g, a) \/ BaselineCovers(g, a) \/ Routine(g, a)

\* _acct_sanctioned: looser than coverage, no host and no window.
AccountSanctions(g, a) ==
    \/ g.class = "change_ticket" /\ GrantOk(g) /\ OnSubject(g, a)
    \/ g.class = "standing_baseline" /\ OnSubject(g, a)
    \/ Routine(g, a)

AccountGenuine(F, a) ==
    LET known == AccountFacts(F, a)
        account == Foremost(known)
    IN  /\ ~AccountCompromised(F, a)
        /\ ~CompromisedBy(Entities(F, "asset", a.object))
        /\ known # {} =>
              /\ ~(account.account = "service" /\ a.interactive)
              /\ account.account = "human" /\ account.privileged =>
                    account.onCall \/ account.breakGlass

\* blocking says that a prohibition has high priority and no waiver.
AccountForbids(F, p, a) ==
    LET known == AccountFacts(F, a) IN
    /\ p.blocking /\ p.action = a.action
    /\ (IF known = {} THEN "unknown" ELSE Foremost(known).account) \in p.accounts
    /\ PlaceOf(Entities(F, "asset", a.object)) \in p.places
    /\ ~(/\ p.breakGlass /\ known # {} /\ Foremost(known).breakGlass
         /\ \E g \in Grants(F) : g.emergency /\ TicketCovers(F, g, a))

AccountInScope(F, a) ==
    /\ \E g \in Grants(F) : AccountCovers(F, g, a)
    /\ OrgLinked(F, OrgOf(AccountFacts(F, a)), OrgOf(Entities(F, "asset", a.object)))

\* _acct_components
AccountComponents(F, a) ==
    [sanctioned |-> \E g \in Grants(F) : AccountSanctions(g, a),
     inScope    |-> AccountInScope(F, a),
     genuine    |-> AccountGenuine(F, a),
     allowed    |-> \A p \in Prohibitions(F) : ~AccountForbids(F, p, a)]
-----------------------------------------------------------------------------
(* The file integrity track. *)

\* fnmatch and _fim_type_matches
OnChange(g, a) == a.object \in g.targets /\ g.change \in {"any", a.change}

\* _fim_cr_covers, freezes aside
RequestCovers(g, a) ==
    g.class = "change_ticket" /\ GrantOk(g) /\ OnChange(g, a) /\ InTime(g, a)

\* _fim_baseline_covers
PathBaselineCovers(g, a) ==
    g.class = "standing_baseline" /\ OnChange(g, a) /\ InTime(g, a)

\* Approval alone sanctions, without the board.
FimSanctions(g, a) ==
    /\ OnChange(g, a)
    /\ \/ g.class = "change_ticket" /\ g.status = "approved"
       \/ g.class = "standing_baseline"

ConfigClass(F, a) == PlaceOf(Entities(F, "path", a.object))

\* A freeze holds back all coverage unless a covering request is excepted.
FimFreezeBlocks(F, z, a) ==
    /\ ConfigClass(F, a) \in z.places /\ Active(z, a)
    /\ ~ \E g \in Grants(F) : RequestCovers(g, a) /\ (g.exception \/ g.id \in z.allowed)

\* Mutant: one excepted freeze lifts the others.
FimInScope_AnyException(F, a) ==
    /\ \E g \in Grants(F) : RequestCovers(g, a) \/ PathBaselineCovers(g, a)
    /\ Freezes(F) = {} \/ \E z \in Freezes(F) : ~FimFreezeBlocks(F, z, a)

FimInScope(F, a) ==
    /\ \E g \in Grants(F) : RequestCovers(g, a) \/ PathBaselineCovers(g, a)
    /\ \A z \in Freezes(F) : ~FimFreezeBlocks(F, z, a)

FimForbids(F, p, a) ==
    /\ p.blocking /\ a.change \in p.changes /\ ConfigClass(F, a) \in p.places
    /\ ~(p.breakGlass /\ \E g \in Grants(F) : g.emergency /\ RequestCovers(g, a))

\* _fim_components
FimComponents(F, a) ==
    [sanctioned |-> \E g \in Grants(F) : FimSanctions(g, a),
     inScope    |-> FimInScope(F, a),
     genuine    |-> ~CompromisedBy(Entities(F, "path", a.object)),
     allowed    |-> \A p \in Prohibitions(F) : ~FimForbids(F, p, a)]
-----------------------------------------------------------------------------
\* evaluate_authorization
Components(F, a) ==
    IF a.track = "fim" THEN FimComponents(Select(F, a), a) ELSE AccountComponents(Select(F, a), a)

\* AuthorizationComponents.expected
Expected(F, a) ==
    LET c == Components(F, a) IN c.sanctioned /\ c.inScope /\ c.genuine /\ c.allowed

\* Mutant: a record that does not cover does not count as one on file.
Class_OnlyCurrent(F, a) ==
    LET c == Components(F, a)
        onFile == {g \in Grants(Select(F, a)) : InTime(g, a)}
    IN  CASE Select(F, a) # {} /\ ~c.allowed -> "contradicted"
          [] Select(F, a) # {} /\ c.allowed /\ c.inScope -> "covered"
          [] Select(F, a) # {} /\ c.allowed /\ ~c.inScope /\ onFile # {} -> "contradicted"
          [] OTHER -> "absent"

\* derive_authz_class
Class(F, a) ==
    LET S == Select(F, a)
        c == Components(F, a)
    IN  CASE S # {} /\ ~c.allowed -> "contradicted"
          [] S # {} /\ c.allowed /\ c.inScope -> "covered"
          [] S # {} /\ c.allowed /\ ~c.inScope /\ Grants(S) # {} -> "contradicted"
          [] OTHER -> "absent"
=============================================================================
