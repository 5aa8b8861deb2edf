------------------------ MODULE MCAuthorizationFacts ------------------------
(* An alert and a watched file.  For the alert a change ticket, a          *)
(* prohibition and a freeze against it, a baseline the tenant asserts and  *)
(* the record of its account; for the file a change request, a freeze that *)
(* excepts it and one that does not.                                       *)
EXTENDS AuthorizationFacts, TLC

CONSTANTS c1

Symmetry == Permutations(Answers)

MCAlertOf == c1 :> [object |-> "host", account |-> "admin", action |-> "login"]
MCFileChanges == {[object |-> "file", change |-> "modify"]}

Grant(id, track, class, subject, action, object) ==
    [id |-> id, kind |-> "grant", track |-> track, superseded |-> FALSE, trust |-> 0,
     class |-> class, subject |-> subject, action |-> action, targets |-> {object},
     change |-> "any", window |-> [start |-> 0, end |-> Day - 1], from |-> 0,
     until |-> MaxNow, status |-> "approved", cab |-> TRUE,
     emergency |-> class = "change_ticket", exception |-> FALSE, seen |-> 0, ioc |-> FALSE]

Freeze(id, track, start, end, allowed) ==
    [id |-> id, kind |-> "freeze", track |-> track, superseded |-> FALSE, trust |-> 0,
     places |-> {DefaultPlace}, start |-> start, end |-> end, allowed |-> allowed]

MCSystemFacts ==
    {Grant("ticket", "account", "change_ticket", "admin", "login", "host"),
     [id |-> "policy", kind |-> "prohibition", track |-> "account", superseded |-> FALSE,
      trust |-> 0, blocking |-> TRUE, action |-> "login",
      accounts |-> {"unknown", "service", "human"}, places |-> {DefaultPlace},
      changes |-> {}, breakGlass |-> TRUE],
     Freeze("freeze", "account", 1, 1, {}),
     Grant("request", "fim", "change_ticket", "", "", "file"),
     Freeze("fileFreeze", "fim", 0, 1, {"request"}),
     Freeze("fileFreeze2", "fim", 0, 1, {"request2"})}

\* Two requests, each excepted from one freeze.
MCTwoRequests ==
    {Grant("request", "fim", "change_ticket", "", "", "file"),
     Grant("request2", "fim", "change_ticket", "", "", "file"),
     Freeze("fileFreeze", "fim", 0, 1, {"request"}),
     Freeze("fileFreeze2", "fim", 0, 1, {"request2"})}

MCAnalystFacts ==
    {[id |-> "admin", kind |-> "entity", track |-> "account", superseded |-> FALSE,
      trust |-> 0, type |-> "account", name |-> "admin", rank |-> 0,
      place |-> DefaultPlace, org |-> NoOrg, compromised |-> FALSE,
      account |-> "human", privileged |-> TRUE, onCall |-> FALSE, breakGlass |-> TRUE,
      linked |-> {}]}

\* A baseline for another account.
MCOtherAccount ==
    {Grant("tenant", "account", "standing_baseline", "backup", "copy", "vault")}

MCTenantFacts ==
    {Grant("tenant", "account", "standing_baseline", "admin", "login", "host")}
=============================================================================
