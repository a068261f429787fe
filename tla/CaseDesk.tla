------------------------------ MODULE CaseDesk ------------------------------
(***************************************************************************)
(* The case service of one outlet, with the routing rules and the          *)
(* permissions that CaseWorkflow leaves open: its constants MayPerform,    *)
(* InScope, ProviderScoped and RoutedTo take their values from here.       *)
(***************************************************************************)
EXTENDS CaseWorkflow, SequencesExt

CONSTANTS
  ScopesOf,   \* per user, the set of his access scopes
  Outlet,     \* the outlet: name, area, providers it has accounts with
  AboutWhat,  \* per alert: provider, area, type and severity
  RuleRows    \* table routing_rules, in the order a query returns it

Policy == INSTANCE Permissions
Rules == INSTANCE Routing

RolesOfUser(u) == Policy!RolesOf(ScopesOf[u])

Performing == {p \in Users \X Actions : Policy!Admits(RolesOfUser(p[1]), p[2])}

Scoped ==
  {p \in Users \X Alerts : Policy!CanAccess(ScopesOf[p[1]], AboutWhat[p[2]].provider, Outlet)}

AboutProvider == {a \in Alerts : AboutWhat[a].provider # None}

Routed == [a \in Alerts |-> Rules!TargetRole(RuleRows, AboutWhat[a])]

ASSUME ScopesAssumption == \A u \in Users : RolesOfUser(u) \subseteq Policy!AppRoles

\* NULL stands in filters only, and a priority is an integer.
ASSUME RulesAssumption ==
  /\ RuleRows \in Seq(ToSet(RuleRows))
  /\ \A rule \in ToSet(RuleRows) : rule # None /\ rule.priority \in Int

\* The constants of CaseWorkflow have the values above.
ASSUME DeskAssumption ==
  /\ MayPerform = Performing /\ InScope = Scoped
  /\ ProviderScoped = AboutProvider /\ RoutedTo = Routed

-----------------------------------------------------------------------------
(* Properties. *)

\* Whom a case may be routed to, the rows coming in any order.
PossibleOwners ==
  [a \in Alerts |->
     {Rules!TargetRole(order, AboutWhat[a]) : order \in SetToSeqs(ToSet(RuleRows))}]

\* "provider + area -> provider fallback -> area fallback -> default fallback"
\* (routing.py:3): whatever order the query returns the rules in, a case opens
\* with an owner the precedence names; only rules of one level and one priority
\* leave it to the order.
RoutedByPrecedence ==
  \A a \in Alerts : assignments[a] # <<>> =>
    LET owners == Rules!OwnersByPrecedence(ToSet(RuleRows), AboutWhat[a]) IN
    /\ assignments[a][1].role \in owners
    /\ PossibleOwners[a] = owners

\* "The backend remains authoritative" and the offer is "a stable permission
\* vocabulary" of it (permissions.py:3-4): nobody is refused an action he was offered, and a user of
\* one role who was not offered an action is refused it.
OfferedIsAdmitted ==
  \A r \in Requests : reply[r] # None =>
    LET roles == RolesOfUser(call[r].user)
        offered == call[r].action \in Policy!Offered(roles)
    IN /\ offered => reply[r].code # "forbidden"
       /\ ~offered /\ Cardinality(roles) = 1 => reply[r].code = "forbidden"
=============================================================================
