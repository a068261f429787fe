---------------------------- MODULE Permissions ----------------------------
(***************************************************************************)
(* Who may do what to a case (app/core/permissions.py), and on whose cases *)
(* (app/core/authz.py).  What a user is told he may do (GET /me) and what  *)
(* the handlers admit are two hand-kept tables.  A user is the set of his  *)
(* access scopes; roles are taken from them.                               *)
(***************************************************************************)
CONSTANT None  \* no provider, area or outlet

AppRoles == {"agent", "field_officer", "area_manager", "provider_ops", "risk_analyst",
             "management", "admin"}
OpsRoles == {"field_officer", "area_manager", "provider_ops"}
ParticipantRoles == OpsRoles \cup {"agent", "risk_analyst"}

CaseActions == {"open", "assign", "acknowledge", "escalate", "resolve", "note", "review"}
Transitions == {"assign", "acknowledge", "escalate", "resolve"}

\* permissions_for_user: the case actions a user is offered.  The first of his
\* roles that matches decides.
Offered(roles) ==
  IF "admin" \in roles THEN CaseActions
  ELSE IF "management" \in roles THEN {}
  ELSE IF "agent" \in roles THEN {"note"}
  ELSE IF roles \cap OpsRoles # {} THEN CaseActions \ {"review"}
  ELSE IF "risk_analyst" \in roles THEN {"open", "note", "review"}
  ELSE {}

\* Mutant: analysts are not let open cases.
AdmitsOnlyOpsToOpen(roles, action) ==
  \/ "admin" \in roles
  \/ action = "review" /\ "risk_analyst" \in roles
  \/ action \in Transitions \cup {"open"} /\ roles \cap OpsRoles # {}
  \/ action = "note" /\ roles \cap ParticipantRoles # {}

\* require_role_action lets a caller by.
Admits(roles, action) ==
  \/ "admin" \in roles
  \/ action = "review" /\ "risk_analyst" \in roles
  \/ action \in Transitions /\ roles \cap OpsRoles # {}
  \/ action = "open" /\ roles \cap (OpsRoles \cup {"risk_analyst"}) # {}
  \/ action = "note" /\ roles \cap ParticipantRoles # {}

-----------------------------------------------------------------------------
(* Scope.  An outlet is its area and the providers it has active accounts  *)
(* with, under its name.                                                   *)

RolesOf(user) == {s.role : s \in user}

HasProviderScope(user, provider, outlet) ==
  \/ "admin" \in RolesOf(user)
  \/ \E s \in user :
       \/ s.provider # None /\ s.provider = provider /\ s.area \in {None, outlet.area}
       \/ s.outlet # None /\ s.outlet = outlet.name

HasOutletScope(user, outlet) ==
  \/ RolesOf(user) \cap {"admin", "management"} # {}
  \/ \E s \in user :
       \/ s.outlet # None /\ s.outlet = outlet.name
       \/ s.area # None /\ s.area = outlet.area
       \/ s.provider # None /\ s.provider \in outlet.accounts

\* can_access_scope: an alert without a provider is about the shared cash.
CanAccess(user, provider, outlet) ==
  IF provider = None THEN HasOutletScope(user, outlet)
  ELSE "management" \notin RolesOf(user) /\ HasProviderScope(user, provider, outlet)
=============================================================================
