--------------------------- MODULE MCCaseWorkflow ---------------------------
(***************************************************************************)
(* Instances of CaseWorkflow for TLC.  Each run takes one of the menus of  *)
(* calls below; a request serves any call of the menu.                     *)
(***************************************************************************)
EXTENDS CaseWorkflow, TLC

CONSTANTS alert, otherAlert,           \* members of Alerts
          ops, risk, stranger,         \* an operator, an analyst, one out of scope
          key, freshKey,               \* members of Keys
          fieldOfficer, riskAnalyst    \* members of Roles

\* require_role_action for a field officer and for a risk analyst.
MCMayPerform ==
  ({ops, stranger} \X {"open", "assign", "acknowledge", "escalate", "resolve", "note"})
    \cup ({risk} \X {"open", "note", "review"})

MCInScope == {ops, risk} \X Alerts

MCRoutedTo == [a \in Alerts |-> fieldOfficer]

CallOn(a, user, action, k, expected, role) ==
  [action |-> action, alert |-> a, user |-> user, key |-> k, expected |-> expected,
   role |-> role]

Plain(user, action) == CallOn(alert, user, action, None, None, riskAnalyst)
Keyed(user, action, k) == CallOn(alert, user, action, k, None, riskAnalyst)

\* Calls under idempotency keys, each of which a client may make again; one
\* uses the key on a case that does not exist.
RetryMenu ==
  {Plain(ops, "open")}
    \cup {Keyed(ops, a, key) : a \in {"acknowledge", "escalate", "assign", "note"}}
    \cup {Keyed(risk, "review", k) : k \in {key, freshKey}}
    \cup {CallOn(otherAlert, ops, "assign", key, None, riskAnalyst)}

\* One call of every kind, and one from a caller outside the alert's scope.
EveryActionMenu ==
  {Plain(ops, a) : a \in {"open", "acknowledge", "escalate", "resolve", "assign", "note"}}
    \cup {Plain(risk, "review"), Plain(stranger, "assign")}

\* Those, an indexing that may fail, and a caller outside the alert's scope.
ClientMenu ==
  RetryMenu \cup {Plain(ops, "resolve"), Plain(stranger, "assign")}

Symm == Permutations(Requests)
=============================================================================
