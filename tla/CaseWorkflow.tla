---------------------------- MODULE CaseWorkflow ----------------------------
(***************************************************************************)
(* The case service (app/services/coordination/cases.py) under concurrent  *)
(* requests.  A request is one API call served in one READ COMMITTED       *)
(* transaction; the steps below are cut where another transaction can come *)
(* between them:                                                           *)
(*                                                                         *)
(*   idle --Begin--> started --LockRow--> locked --commit--> done          *)
(*                                                                         *)
(* Begin is the role check, the start of the transaction (which fixes SQL  *)
(* now()) and its first SELECT: the lookup of the idempotency key, or, for *)
(* an open, of the alert's case.  LockRow is SELECT ... FOR UPDATE with    *)
(* the version and transition checks.  Every later write becomes visible   *)
(* at commit, so the rest of the handler is one step.  Notes, reviews and  *)
(* opens take no row lock and go from started to done in one step.         *)
(***************************************************************************)
EXTENDS Integers, Sequences, FiniteSets

CONSTANTS
  Requests,            \* request handlers; each serves one call
  Alerts,              \* alerts that may get a case
  Users, Roles,        \* callers, and the roles cases are routed to
  Keys,                \* idempotency keys
  Calls,               \* the calls clients make
  MayPerform,          \* pairs <<user, action>> that require_role_action lets by
  InScope,             \* pairs <<user, alert>> that can_access_scope accepts
  ProviderScoped,      \* alerts with a provider_id
  RoutedTo,            \* role the routing decision names for each alert
  IndexFaults,         \* how similar-case indexing may fail in this instance
  OverlappingRetries,  \* may a client retry while its first attempt still runs?
  None                 \* SQL NULL, no row, no key, no answer yet

StatusActions  == {"acknowledge", "escalate", "resolve"}
LockingActions == StatusActions \cup {"assign"}
KeyedActions   == LockingActions \cup {"note", "review"}
Actions        == KeyedActions \cup {"open"}

Statuses == {"open", "acknowledged", "escalated", "resolved"}

CallType ==
  [action : Actions, alert : Alerts, user : Users, key : Keys \cup {None},
   expected : Nat \cup {None}, role : Roles]

ASSUME CallsAssumption == Calls \subseteq CallType
ASSUME RoutedToAssumption == RoutedTo \in [Alerts -> Roles]
ASSUME IndexFaultsAssumption == IndexFaults \subseteq {"python", "database"}
ASSUME OverlapAssumption == OverlappingRetries \in BOOLEAN

VARIABLES
  cases,          \* table cases: row per alert, None while there is none
  history,        \* table case_status_history per case, in commit order
  assignments,    \* table case_assignments per case, in commit order
  notes,          \* table case_notes per case: the requests that wrote one
  review,         \* table case_reviews (case_id UNIQUE): the writing request
  notifications,  \* table notifications per case
  audit,          \* table audit_events per case, in commit order
  idem,           \* table coordination_idempotency_keys: stored bodies
  embeddings,     \* table case_embeddings: the indexed cases
  lock,           \* holder of the row lock on each case
  clock,          \* wall clock, ticks at every timestamp taken
  pc, call, startedAt, seen, reply   \* per request: step, call, now(), row, answer

tables == <<cases, history, assignments, notes, review, notifications, audit,
            idem, embeddings>>
vars == <<tables, lock, clock, pc, call, startedAt, seen, reply>>

CaseRow == [status : Statuses, version : Nat, owner : Roles]
Codes == {"ok", "existing", "forbidden", "not_found", "version_conflict",
          "illegal_transition", "internal_error", "lost"}
\* An answer; origin is the request whose execution produced the body.
Reply == [code : Codes, row : CaseRow \cup {None}, origin : Requests \cup {None}]

StatusChange == [from : Statuses \cup {None}, to : Statuses, at : Nat, by : Requests]
Assignment == [role : Roles, by : Requests]
AuditEvent == [action : Actions, at : Nat, by : Requests]

ASSUME NoneAssumption ==
  /\ None \notin Requests
  /\ None \notin Keys
  /\ None \notin Calls
  /\ None \notin Nat
  /\ None \notin Statuses
  /\ None \notin CaseRow
  /\ None \notin Reply

\* Mutant: the idempotency record is not told apart by action.
IdemScopeOfAnyAction(c) == <<c.key, c.alert, "note">>

IdemScope(c) == <<c.key, c.alert, c.action>>
IdemScopes == Keys \X Alerts \X KeyedActions

TypeOK ==
  /\ cases \in [Alerts -> CaseRow \cup {None}]
  /\ history \in [Alerts -> Seq(StatusChange)]
  /\ assignments \in [Alerts -> Seq(Assignment)]
  /\ notes \in [Alerts -> SUBSET Requests]
  /\ review \in [Alerts -> Requests \cup {None}]
  /\ notifications \in [Alerts -> SUBSET [role : Roles, by : Requests]]
  /\ audit \in [Alerts -> Seq(AuditEvent)]
  /\ idem \in [IdemScopes -> Reply \cup {None}]
  /\ embeddings \subseteq Alerts
  /\ lock \in [Alerts -> Requests \cup {None}]
  /\ clock \in Nat
  /\ pc \in [Requests -> {"idle", "started", "locked", "done"}]
  /\ call \in [Requests -> Calls \cup {None}]
  /\ startedAt \in [Requests -> Nat]
  /\ seen \in [Requests -> CaseRow \cup {None}]
  /\ reply \in [Requests -> Reply \cup {None}]

Init ==
  /\ cases = [a \in Alerts |-> None]
  /\ history = [a \in Alerts |-> <<>>]
  /\ assignments = [a \in Alerts |-> <<>>]
  /\ notes = [a \in Alerts |-> {}]
  /\ review = [a \in Alerts |-> None]
  /\ notifications = [a \in Alerts |-> {}]
  /\ audit = [a \in Alerts |-> <<>>]
  /\ idem = [k \in IdemScopes |-> None]
  /\ embeddings = {}
  /\ lock = [a \in Alerts |-> None]
  /\ clock = 0
  /\ pc = [r \in Requests |-> "idle"]
  /\ call = [r \in Requests |-> None]
  /\ startedAt = [r \in Requests |-> 0]
  /\ seen = [r \in Requests |-> None]
  /\ reply = [r \in Requests |-> None]

-----------------------------------------------------------------------------
(* The checks of a handler, in the order the code makes them. *)

\* Mutant: the edge that architecture.md draws and the trigger refuses.
TransitionsWithShortcut ==
  {<<"open", "acknowledged">>, <<"open", "escalated">>, <<"open", "resolved">>,
   <<"acknowledged", "escalated">>, <<"acknowledged", "resolved">>,
   <<"escalated", "resolved">>}

\* _LEGAL_TRANSITIONS.
LegalTransitions ==
  {<<"open", "acknowledged">>, <<"open", "escalated">>,
   <<"acknowledged", "escalated">>, <<"acknowledged", "resolved">>,
   <<"escalated", "resolved">>}

\* The to_status each status endpoint passes to _apply_status_change.
ToStatus(action) ==
  CASE action = "acknowledge" -> "acknowledged"
    [] action = "escalate" -> "escalated"
    [] action = "resolve" -> "resolved"

\* Mutant: _check_transition is not called.
VerdictOnAnyTransition(c, row) ==
  IF row = None \/ <<c.user, c.alert>> \notin InScope THEN "not_found"
  ELSE IF c.action \in LockingActions /\ c.expected # None /\ c.expected # row.version
       THEN "version_conflict"
  ELSE "ok"

\* _require_case, _check_version and _check_transition on the row a call read.
Verdict(c, row) ==
  IF row = None \/ <<c.user, c.alert>> \notin InScope THEN "not_found"
  ELSE IF c.action \in LockingActions /\ c.expected # None /\ c.expected # row.version
       THEN "version_conflict"
  ELSE IF /\ c.action \in StatusActions
          /\ <<row.status, ToStatus(c.action)>> \notin LegalTransitions
       THEN "illegal_transition"
  ELSE "ok"

\* A body found under the call's idempotency key (_idem_lookup).
Cached(c) ==
  IF c.key = None \/ c.action \notin KeyedActions THEN None ELSE idem[IdemScope(c)]

\* Mutant: a handler forgets to store its body.
IdemForget(c, body) == idem' = idem

\* _idem_store: ON CONFLICT DO NOTHING keeps the body stored first.
IdemStore(c, body) ==
  idem' = IF c.key # None /\ Cached(c) = None
          THEN [idem EXCEPT ![IdemScope(c)] = body]
          ELSE idem

Answer(code, row, origin) == [code |-> code, row |-> row, origin |-> origin]

\* Mutant: the transaction is left open when its request is answered.
FinishHoldingLock(r, answer) ==
  /\ pc' = [pc EXCEPT ![r] = "done"]
  /\ reply' = [reply EXCEPT ![r] = answer]
  /\ startedAt' = [startedAt EXCEPT ![r] = 0]
  /\ seen' = [seen EXCEPT ![r] = None]
  /\ UNCHANGED <<call, lock>>

\* The transaction of r ends: its locks are gone and its client is answered.
Finish(r, answer) ==
  /\ pc' = [pc EXCEPT ![r] = "done"]
  /\ reply' = [reply EXCEPT ![r] = answer]
  /\ lock' = [a \in Alerts |-> IF lock[a] = r THEN None ELSE lock[a]]
  /\ startedAt' = [startedAt EXCEPT ![r] = 0]
  /\ seen' = [seen EXCEPT ![r] = None]
  /\ UNCHANGED call

\* SELECT ... FOR UPDATE waits for the row lock, and so does the foreign-key
\* share lock an INSERT into a child table takes on the case.
RowFree(a) == lock[a] = None

\* UPDATE cases ... WHERE version = :cur_version finds the row it read.
UpdateMatches(r) == cases[call[r].alert].version = seen[r].version

InFlight(r) == pc[r] \in {"started", "locked"}

\* A client that waits for its answer (or for its connection to die) before
\* it retries never has two live requests under one key.
ClientSends(c) ==
  \/ OverlappingRetries
  \/ c.key = None
  \/ \A q \in Requests : InFlight(q) => IdemScope(call[q]) # IdemScope(c)

-----------------------------------------------------------------------------
(* Starting a request. *)

Submit(r, c) ==
  /\ pc[r] = "idle"
  /\ ClientSends(c)
  /\ call' = [call EXCEPT ![r] = c]
  /\ UNCHANGED <<tables, lock, seen>>

AnswerAtOnce(r, answer) ==
  /\ pc' = [pc EXCEPT ![r] = "done"]
  /\ reply' = [reply EXCEPT ![r] = answer]
  /\ UNCHANGED <<startedAt, clock>>

\* require_role_action raises before a transaction starts.
Forbid(r, c) ==
  /\ Submit(r, c)
  /\ <<c.user, c.action>> \notin MayPerform
  /\ AnswerAtOnce(r, Answer("forbidden", None, None))

\* The stored body is returned as it is, before the case is looked at.
Replay(r, c) ==
  /\ Submit(r, c)
  /\ <<c.user, c.action>> \in MayPerform
  /\ Cached(c) # None
  /\ AnswerAtOnce(r, Cached(c))

\* open_case on an alert that has a case already: 200 with that case.
OpenExisting(r, c) ==
  /\ Submit(r, c)
  /\ c.action = "open"
  /\ <<c.user, c.action>> \in MayPerform
  /\ <<c.user, c.alert>> \in InScope
  /\ cases[c.alert] # None
  /\ AnswerAtOnce(r, Answer("existing", cases[c.alert], None))

\* The transaction starts, which fixes its now(), and its first SELECT found
\* nothing to return.
Begin(r, c) ==
  /\ Submit(r, c)
  /\ <<c.user, c.action>> \in MayPerform
  /\ Cached(c) = None
  /\ c.action = "open" =>
       (<<c.user, c.alert>> \in InScope => cases[c.alert] = None)
  /\ pc' = [pc EXCEPT ![r] = "started"]
  /\ clock' = clock + 1
  /\ startedAt' = [startedAt EXCEPT ![r] = clock']
  /\ UNCHANGED reply

-----------------------------------------------------------------------------
(* Refusing a request: the transaction rolls back and nothing is written. *)

\* Why the request cannot go on, "ok" when it can.  A unique constraint hit by
\* the INSERT of a case or a review is no AppError: the client gets a 500.
Refusal(r) ==
  LET c == call[r]
      row == cases[c.alert]
  IN IF pc[r] = "locked"
     THEN IF UpdateMatches(r) THEN "ok" ELSE "version_conflict"
     ELSE IF c.action = "open"
     THEN IF <<c.user, c.alert>> \notin InScope THEN "not_found"
          ELSE IF row # None THEN "internal_error" ELSE "ok"
     ELSE IF c.action = "review" /\ Verdict(c, row) = "ok" /\ review[c.alert] # None
     THEN "internal_error"
     ELSE Verdict(c, row)

Refuse(r) ==
  /\ InFlight(r)
  /\ (pc[r] = "started" /\ call[r].action \in LockingActions) => RowFree(call[r].alert)
  /\ Refusal(r) # "ok"
  /\ Finish(r, Answer(Refusal(r),
                      IF Refusal(r) = "illegal_transition" THEN cases[call[r].alert] ELSE None,
                      None))
  /\ UNCHANGED <<tables, clock>>

\* The worker or its connection dies; PostgreSQL rolls the transaction back.
Abort(r) ==
  /\ InFlight(r)
  /\ Finish(r, Answer("lost", None, None))
  /\ UNCHANGED <<tables, clock>>

-----------------------------------------------------------------------------
(* Status changes and assignment. *)

\* SELECT ... FOR UPDATE, and every check on the row passed.
LockRow(r) ==
  LET c == call[r] IN
  /\ pc[r] = "started"
  /\ c.action \in LockingActions
  /\ RowFree(c.alert)
  /\ Refusal(r) = "ok"
  /\ lock' = [lock EXCEPT ![c.alert] = r]
  /\ seen' = [seen EXCEPT ![r] = cases[c.alert]]
  /\ pc' = [pc EXCEPT ![r] = "locked"]
  /\ UNCHANGED <<tables, clock, call, startedAt, reply>>

NewStatus(r) ==
  IF call[r].action \in StatusActions THEN ToStatus(call[r].action) ELSE seen[r].status

NewOwner(r) ==
  IF call[r].action \in {"escalate", "assign"} THEN call[r].role ELSE seen[r].owner

\* Mutant: an assignment leaves the version alone.
RowOfSameVersion(r) ==
  [status |-> NewStatus(r), owner |-> NewOwner(r),
   version |-> seen[r].version + (IF call[r].action = "assign" THEN 0 ELSE 1)]

\* Mutant: escalation changes the status but not the owner.
RowOfSameOwner(r) ==
  [status |-> NewStatus(r), version |-> seen[r].version + 1,
   owner |-> IF call[r].action = "escalate" THEN seen[r].owner ELSE NewOwner(r)]

\* The row the UPDATE of a status change or an assignment writes.
UpdatedRow(r) ==
  [status |-> NewStatus(r), version |-> seen[r].version + 1, owner |-> NewOwner(r)]

\* The request holds the row and its UPDATE hits it.
Holds(r, action) ==
  /\ pc[r] = "locked"
  /\ call[r].action = action
  /\ Refusal(r) = "ok"

\* Mutant: occurred_at is left to DEFAULT now().
WriteAuditAtStart(r) ==
  /\ clock' = clock + 1
  /\ audit' = [audit EXCEPT ![call[r].alert] =
                 Append(@, [action |-> call[r].action, at |-> startedAt[r], by |-> r])]

\* write_audit_event: occurred_at is read when the event is written.
WriteAudit(r) ==
  /\ clock' = clock + 1
  /\ audit' = [audit EXCEPT ![call[r].alert] =
                 Append(@, [action |-> call[r].action, at |-> clock', by |-> r])]

\* case_status_history.changed_at DEFAULT now(): the start of the transaction.
WriteHistory(r, from, to) ==
  history' = [history EXCEPT ![call[r].alert] =
                Append(@, [from |-> from, to |-> to, at |-> startedAt[r], by |-> r])]

\* INSERT INTO case_assignments; the reason of an assign is the caller's choice.
WriteAssignment(r, role) ==
  assignments' = [assignments EXCEPT ![call[r].alert] =
                    Append(@, [role |-> role, by |-> r])]

\* queue_notification to a role.
Notify(r, role) ==
  notifications' = [notifications EXCEPT ![call[r].alert] =
                      @ \cup {[role |-> role, by |-> r]}]

\* UPDATE cases, the idempotency record and the commit, with the new row as
\* the answer.
CommitUpdate(r) ==
  LET c == call[r]
      body == Answer("ok", UpdatedRow(r), r)
  IN /\ cases' = [cases EXCEPT ![c.alert] = UpdatedRow(r)]
     /\ WriteAudit(r)
     /\ IdemStore(c, body)
     /\ Finish(r, body)
     /\ UNCHANGED <<notes, review>>

\* _apply_status_change.
ApplyStatusChange(r) ==
  /\ CommitUpdate(r)
  /\ WriteHistory(r, seen[r].status, ToStatus(call[r].action))

Acknowledge(r) ==
  /\ Holds(r, "acknowledge")
  /\ ApplyStatusChange(r)
  /\ UNCHANGED <<assignments, notifications, embeddings>>

Escalate(r) ==
  /\ Holds(r, "escalate")
  /\ ApplyStatusChange(r)
  /\ WriteAssignment(r, call[r].role)
  /\ Notify(r, call[r].role)
  /\ UNCHANGED embeddings

\* index_resolved_case upserts the embedding of a provider-scoped case; an
\* exception it raises outside SQL is swallowed and costs the embedding only.
Resolve(r) ==
  /\ Holds(r, "resolve")
  /\ ApplyStatusChange(r)
  /\ \/ embeddings' = embeddings \cup ({call[r].alert} \cap ProviderScoped)
     \/ /\ "python" \in IndexFaults
        /\ UNCHANGED embeddings
  /\ UNCHANGED <<assignments, notifications>>

\* Mutant: every exception of the indexing undoes the resolution.
ResolveAbortedByAnyFault(r) ==
  /\ Holds(r, "resolve")
  /\ IndexFaults # {}
  /\ call[r].alert \in ProviderScoped
  /\ Finish(r, Answer("ok", UpdatedRow(r), r))
  /\ UNCHANGED <<tables, clock>>

\* A failed statement of index_resolved_case aborts the PostgreSQL transaction.
\* The exception is swallowed, so the handler goes on to COMMIT, which
\* PostgreSQL turns into a rollback, and answers 200 with the resolved case.
ResolveAborted(r) ==
  /\ Holds(r, "resolve")
  /\ "database" \in IndexFaults
  /\ call[r].alert \in ProviderScoped
  /\ Finish(r, Answer("ok", UpdatedRow(r), r))
  /\ UNCHANGED <<tables, clock>>

Assign(r) ==
  /\ Holds(r, "assign")
  /\ CommitUpdate(r)
  /\ WriteAssignment(r, call[r].role)
  /\ Notify(r, call[r].role)
  /\ UNCHANGED <<history, embeddings>>

-----------------------------------------------------------------------------
(* Opening a case, notes and reviews: INSERTs without a row lock. *)

\* INSERT INTO cases and its initial history, assignment, notification, audit.
InsertCase(r) ==
  LET c == call[r]
      row == [status |-> "open", version |-> 1, owner |-> RoutedTo[c.alert]]
  IN /\ pc[r] = "started"
     /\ c.action = "open"
     /\ Refusal(r) = "ok"
     /\ cases' = [cases EXCEPT ![c.alert] = row]
     /\ WriteHistory(r, None, "open")
     /\ WriteAssignment(r, row.owner)
     /\ Notify(r, row.owner)
     /\ WriteAudit(r)
     /\ Finish(r, Answer("ok", row, r))
     /\ UNCHANGED <<notes, review, idem, embeddings>>

\* The foreign key makes the INSERT wait for whoever holds the case row.
AddEntry(r, action) ==
  LET c == call[r]
      body == Answer("ok", None, r)
  IN /\ pc[r] = "started"
     /\ c.action = action
     /\ RowFree(c.alert)
     /\ Refusal(r) = "ok"
     /\ WriteAudit(r)
     /\ IdemStore(c, body)
     /\ Finish(r, body)
     /\ UNCHANGED <<cases, history, assignments, notifications, embeddings>>

AddNote(r) ==
  /\ AddEntry(r, "note")
  /\ notes' = [notes EXCEPT ![call[r].alert] = @ \cup {r}]
  /\ UNCHANGED review

AddReview(r) ==
  /\ AddEntry(r, "review")
  /\ review' = [review EXCEPT ![call[r].alert] = r]
  /\ UNCHANGED notes

-----------------------------------------------------------------------------

\* A step the server takes for a request it is serving.
Serve(r) ==
  \/ Refuse(r)
  \/ LockRow(r)
  \/ Acknowledge(r)
  \/ Escalate(r)
  \/ Resolve(r)
  \/ ResolveAborted(r)
  \/ Assign(r)
  \/ InsertCase(r)
  \/ AddNote(r)
  \/ AddReview(r)

\* Every call has been answered: the instance ends here.
Quiescent ==
  /\ \A r \in Requests : pc[r] = "done"
  /\ UNCHANGED vars

Next ==
  \/ \E r \in Requests, c \in Calls :
       Forbid(r, c) \/ Replay(r, c) \/ OpenExisting(r, c) \/ Begin(r, c)
  \/ \E r \in Requests : Serve(r) \/ Abort(r)
  \/ Quiescent

Spec == Init /\ [][Next]_vars

\* The server keeps working on every request it has accepted.
Fairness == \A r \in Requests : WF_vars(Serve(r))

FairSpec == Spec /\ Fairness

-----------------------------------------------------------------------------
(* Properties. *)

\* What a request under way is working on (a part of the invariant of the
\* proofs: the code has it in local variables).
CallsKnown ==
  \A r \in Requests :
    /\ pc[r] # "idle" => call[r] \in Calls
    /\ pc[r] = "locked" => call[r].action \in LockingActions /\ seen[r] \in CaseRow

\* The row a request read under its lock is still the row of the case when
\* the request updates it, and its checks still pass: between the SELECT ...
\* FOR UPDATE of cases.py and the commit nobody else writes the case.
SnapshotIsCurrent ==
  \A r \in Requests : pc[r] = "locked" =>
    /\ lock[call[r].alert] = r
    /\ seen[r] = cases[call[r].alert]
    /\ Verdict(call[r], seen[r]) = "ok"

\* A history explains a row: it starts with the insertion, each entry leaves
\* the status the one before it entered, along a legal edge, and the last one
\* entered the status the row has now.
Explains(h, row) ==
  /\ row = None <=> h = <<>>
  /\ row # None =>
       /\ h[1].from = None /\ h[1].to = "open"
       /\ \A i \in 2..Len(h) :
            h[i].from = h[i - 1].to /\ <<h[i].from, h[i].to>> \in LegalTransitions
       /\ h[Len(h)].to = row.status

\* case_status_history tells the whole life of each case.
HistoryExplainsStatus == \A a \in Alerts : Explains(history[a], cases[a])

\* No update of a case is lost: every status row and every assignment row but
\* the initial one stands for one version, an escalation writing one of each.
Escalations(h) == {i \in 1..Len(h) : h[i].to = "escalated"}

VersionCountsWrites ==
  \A a \in Alerts : cases[a] # None =>
    cases[a].version + 1 + Cardinality(Escalations(history[a]))
      = Len(history[a]) + Len(assignments[a])

\* The answer a request got for its own work, not a replay.
DidIt(r) == reply[r] # None /\ reply[r].code = "ok" /\ reply[r].origin = r

\* A caller that names the version it decided on is only ever let through on
\* that version ("A stale version returns 409", docs/api-reference.md).
ExpectedVersionHonoured ==
  \A r \in Requests :
    (DidIt(r) /\ call[r].action \in LockingActions /\ call[r].expected # None)
      => reply[r].row.version = call[r].expected + 1

\* Which of the first n audit events are openings and status changes.
StatusEvents(events, n) ==
  {i \in 1..n : events[i].action \in StatusActions \cup {"open"}}

\* The audit history of a case is ordered and complete: occurred_at never
\* goes back between two events one of which had the case row to itself (two
\* notes share the row and may be stamped in either order), the events of
\* openings and status changes are those of case_status_history in the same
\* order, and whoever wrote a note, a review or an assignment left an event too.
AuditMatchesTables ==
  \A a \in Alerts :
    /\ \A i, j \in 1..Len(audit[a]) :
         (i < j /\ ({audit[a][i].action, audit[a][j].action} \ {"note", "review"}) # {})
           => audit[a][i].at <= audit[a][j].at
    /\ Cardinality(StatusEvents(audit[a], Len(audit[a]))) = Len(history[a])
    /\ \A i \in StatusEvents(audit[a], Len(audit[a])) :
         history[a][Cardinality(StatusEvents(audit[a], i))].by = audit[a][i].by
    /\ {audit[a][i].by : i \in 1..Len(audit[a])}
         = {history[a][i].by : i \in 1..Len(history[a])}
           \cup {assignments[a][i].by : i \in 1..Len(assignments[a])}
           \cup notes[a] \cup ({review[a]} \ {None})

\* Ownership can be traced: the current owner role of a case is the role of
\* its latest assignment row, and that role was notified by the same request.
OwnerIsLastAssignee ==
  \A a \in Alerts : cases[a] # None =>
    LET latest == assignments[a][Len(assignments[a])]
    IN /\ cases[a].owner = latest.role
       /\ [role |-> latest.role, by |-> latest.by] \in notifications[a]

\* A request that was answered 200/201 for its own work has left that work in
\* the tables; "Indexing runs best-effort on resolve" (similar_cases.py:3), so
\* a failure to index must not cost the resolution.
OkAnswersAreDurable ==
  \A r \in Requests : DidIt(r) =>
    LET a == call[r].alert
    IN /\ \E i \in 1..Len(audit[a]) : audit[a][i].by = r
       /\ call[r].action \in StatusActions =>
            \E i \in 1..Len(history[a]) : history[a][i].by = r

\* A key spends itself once: of all the requests made under one idempotency
\* key for one action on one case, at most one did the work (007:6-8).
AtMostOncePerKey ==
  \A r, q \in Requests :
    (/\ r # q /\ DidIt(r) /\ DidIt(q)
     /\ call[r].action \in KeyedActions /\ call[r].key # None)
      => IdemScope(call[r]) # IdemScope(call[q])

\* A replayed answer is the one its originator got, for the same action on
\* the same case.
ReplaysOriginalAnswer ==
  \A r \in Requests :
    (reply[r] # None /\ reply[r].origin # None) =>
      LET q == reply[r].origin
      IN /\ reply[r] = reply[q]
         /\ call[r].action = call[q].action /\ call[r].alert = call[q].alert

\* Every call the server has taken on is answered: no lock is left behind
\* that another request waits for.
EveryCallAnswered == \A r \in Requests : InFlight(r) ~> pc[r] = "done"

\* Case rows only ever do what the database contract admits; in particular
\* the service's table of transitions asks for nothing the trigger refuses.
StatusColumn == [a \in Alerts |-> IF cases[a] = None THEN None ELSE cases[a].status]
VersionColumn == [a \in Alerts |-> IF cases[a] = None THEN 0 ELSE cases[a].version]

Lifecycle == INSTANCE CaseLifecycle WITH status <- StatusColumn, version <- VersionColumn

ImplementsLifecycle == Lifecycle!Spec

=============================================================================
