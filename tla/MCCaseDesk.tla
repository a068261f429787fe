----------------------------- MODULE MCCaseDesk -----------------------------
(***************************************************************************)
(* An instance of CaseDesk for TLC: the life of one case at one outlet,    *)
(* with the rules and the scopes of its users.                             *)
(***************************************************************************)
EXTENDS CaseDesk, TLC

CONSTANTS alert, cashAlert,            \* members of Alerts
          ops, risk, stranger, both,   \* members of Users
          bkash, nagad,                \* providers
          market, port                 \* areas

MCOutlet == [name |-> "outlet1", area |-> market, accounts |-> {bkash}]

Scope(role, provider) ==
  [role |-> role, provider |-> provider, area |-> None, outlet |-> None]

\* Two operators, one of them of a provider that has no account at the outlet; a
\* risk analyst; and one who is also the agent of the outlet.
MCScopesOf ==
  ops :> {Scope("provider_ops", bkash)} @@
  stranger :> {Scope("provider_ops", nagad)} @@
  risk :> {Scope("risk_analyst", bkash)} @@
  both :> {[Scope("agent", None) EXCEPT !.outlet = "outlet1"], Scope("risk_analyst", bkash)}

\* An alert on a provider, and one on the cash.
MCAboutWhat ==
  [a \in Alerts |->
     [provider |-> IF a = alert THEN bkash ELSE None, area |-> market,
      type |-> "liquidity", severity |-> "medium"]]

Rule(provider, area, minimum, role, priority) ==
  [provider |-> provider, area |-> area, type |-> None, minimum |-> minimum,
   role |-> role, priority |-> priority]

\* Rules of the seed, and local ones: one for the area, one for the provider in
\* another area, one as specific as the seed's for the provider.
MCRuleRows ==
  <<Rule(None, None, "info", "field_officer", 1000),
    Rule(bkash, None, "low", "provider_ops", 100),
    Rule(None, None, "high", "risk_analyst", 50),
    Rule(None, market, "info", "area_manager", 60),
    Rule(bkash, port, "info", "risk_analyst", 10),
    Rule(bkash, None, "low", "field_officer", 100)>>

CallOn(a, user, action, expected, role) ==
  [action |-> action, alert |-> a, user |-> user, key |-> None, expected |-> expected,
   role |-> role]

Plain(user, action) == CallOn(alert, user, action, None, "risk_analyst")

\* The whole life of one case, without keys; two callers race on version 1.  The
\* case on the cash is only opened.
LifecycleMenu ==
  {Plain(ops, a) : a \in {"acknowledge", "escalate", "resolve", "assign"}}
    \cup {CallOn(alert, ops, "acknowledge", 1, "risk_analyst"),
          CallOn(alert, ops, "assign", 1, "field_officer"),
          Plain(risk, "open"), Plain(risk, "resolve"), Plain(both, "resolve"),
          CallOn(cashAlert, both, "open", None, "risk_analyst")}

Symm == Permutations(Requests)
=============================================================================
