--------------------------- MODULE CaseLifecycle ---------------------------
(***************************************************************************)
(* What the database alone promises about a case, whatever the service     *)
(* does: the row appears once for an alert, its status moves only along    *)
(* the edges the trigger enforce_case_transition admits (migration 004),   *)
(* it is never deleted, and each change of the row raises its version by   *)
(* one.  CaseWorkflow, the service with its concurrent requests, is shown  *)
(* to implement this specification.                                        *)
(***************************************************************************)
EXTENDS Naturals

CONSTANTS
  Alerts,     \* alerts; cases.alert_id is UNIQUE, so an alert names its case
  None        \* SQL NULL, and "no row"

VARIABLES
  status,     \* cases.status per alert, None while the alert has no case
  version     \* cases.version per alert, 0 while the alert has no case

Statuses == {"open", "acknowledged", "escalated", "resolved"}

\* The edges the trigger lets an UPDATE of cases.status take.
TriggerAllows(from, to) ==
  \/ from = "open" /\ to \in {"acknowledged", "escalated"}
  \/ from = "acknowledged" /\ to \in {"escalated", "resolved"}
  \/ from = "escalated" /\ to = "resolved"

Init ==
  /\ status = [a \in Alerts |-> None]
  /\ version = [a \in Alerts |-> 0]

\* INSERT INTO cases: status and version take the values of a new row.
Open(a) ==
  /\ status[a] = None
  /\ status' = [status EXCEPT ![a] = "open"]
  /\ version' = [version EXCEPT ![a] = 1]

\* UPDATE cases SET status: only along an admitted edge.
Move(a, to) ==
  /\ TriggerAllows(status[a], to)
  /\ status' = [status EXCEPT ![a] = to]
  /\ version' = [version EXCEPT ![a] = @ + 1]

\* UPDATE cases of the owner alone: allowed in every status.
Reassign(a) ==
  /\ status[a] # None
  /\ version' = [version EXCEPT ![a] = @ + 1]
  /\ UNCHANGED status

Next ==
  \E a \in Alerts :
    \/ Open(a)
    \/ \E to \in Statuses : Move(a, to)
    \/ Reassign(a)

Spec == Init /\ [][Next]_<<status, version>>
=============================================================================
