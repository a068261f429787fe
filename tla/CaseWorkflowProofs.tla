------------------------- MODULE CaseWorkflowProofs -------------------------
(***************************************************************************)
(* Theorems about CaseWorkflow, for any number of requests, alerts, users, *)
(* keys and calls.                                                         *)
(***************************************************************************)
EXTENDS CaseWorkflow, FiniteSetTheorems, TLAPS

-----------------------------------------------------------------------------
(* Lemmas about the operators the handlers are made of. *)

\* The fields of a call have the types CallType gives them.
LEMMA CallFields ==
  ASSUME NEW c \in Calls
  PROVE  /\ c.action \in Actions /\ c.alert \in Alerts /\ c.user \in Users
         /\ c.key \in Keys \cup {None} /\ c.role \in Roles
         /\ c.expected \in Nat \cup {None}
  BY CallsAssumption DEF CallType

\* A status endpoint names one of the three statuses a case can move to.
LEMMA ToStatusType ==
  ASSUME NEW action \in StatusActions
  PROVE  ToStatus(action) \in Statuses
  BY DEF ToStatus, StatusActions, Statuses

\* The row an UPDATE writes is a row.
LEMMA UpdatedRowType ==
  ASSUME NEW r \in Requests, call[r] \in Calls, seen[r] \in CaseRow
  PROVE  /\ UpdatedRow(r) \in CaseRow
         /\ UpdatedRow(r).status = NewStatus(r)
         /\ UpdatedRow(r).version = seen[r].version + 1
  <1>1. NewStatus(r) \in Statuses
    BY ToStatusType DEF NewStatus, CaseRow
  <1>2. NewOwner(r) \in Roles
    BY CallFields DEF NewOwner, CaseRow
  <1>3. seen[r].version + 1 \in Nat
    BY DEF CaseRow
  <1> QED
    BY <1>1, <1>2, <1>3 DEF UpdatedRow, CaseRow

\* An answer with a row or none and an origin or none is a reply.
LEMMA AnswerType ==
  ASSUME NEW code \in Codes, NEW row \in CaseRow \cup {None},
         NEW origin \in Requests \cup {None}
  PROVE  Answer(code, row, origin) \in Reply
  BY DEF Answer, Reply

\* A refusal is one of the documented codes, and is not about the caller's role.
LEMMA RefusalType ==
  ASSUME NEW r \in Requests
  PROVE  Refusal(r) \in Codes \ {"forbidden"}
  BY DEF Refusal, Verdict, Codes

\* Ending a request keeps the types of the variables of the requests.
LEMMA FinishType ==
  ASSUME TypeOK, NEW r \in Requests, NEW answer \in Reply, Finish(r, answer)
  PROVE  /\ lock' \in [Alerts -> Requests \cup {None}]
         /\ pc' \in [Requests -> {"idle", "started", "locked", "done"}]
         /\ call' \in [Requests -> Calls \cup {None}]
         /\ startedAt' \in [Requests -> Nat]
         /\ seen' \in [Requests -> CaseRow \cup {None}]
         /\ reply' \in [Requests -> Reply \cup {None}]
  BY DEF TypeOK, Finish

\* Storing a body keeps the type of the idempotency table.
LEMMA IdemStoreType ==
  ASSUME TypeOK, NEW c \in Calls, c.action \in KeyedActions, NEW body \in Reply,
         IdemStore(c, body)
  PROVE  idem' \in [IdemScopes -> Reply \cup {None}]
  <1>1. CASE c.key # None /\ Cached(c) = None
    <2>1. IdemScope(c) \in IdemScopes
      BY <1>1, CallFields DEF IdemScope, IdemScopes
    <2> QED
      BY <1>1, <2>1 DEF IdemStore, TypeOK
  <1>2. CASE ~(c.key # None /\ Cached(c) = None)
    BY <1>2 DEF IdemStore, TypeOK
  <1> QED
    BY <1>1, <1>2

\* A cached body is a reply.
LEMMA CachedType ==
  ASSUME TypeOK, NEW c \in Calls
  PROVE  Cached(c) \in Reply \cup {None}
  <1>1. CASE c.key = None \/ c.action \notin KeyedActions
    BY <1>1 DEF Cached
  <1>2. CASE c.key # None /\ c.action \in KeyedActions
    <2>1. IdemScope(c) \in IdemScopes
      BY <1>2, CallFields DEF IdemScope, IdemScopes
    <2> QED
      BY <1>2, <2>1 DEF Cached, TypeOK
  <1> QED
    BY <1>1, <1>2

\* Appending a row of the right type keeps the type of a child table.
LEMMA WritesType ==
  ASSUME TypeOK, NEW r \in Requests, call[r] \in Calls
  PROVE  /\ \A from \in Statuses \cup {None}, to \in Statuses :
              WriteHistory(r, from, to) => history' \in [Alerts -> Seq(StatusChange)]
         /\ \A role \in Roles :
              WriteAssignment(r, role) => assignments' \in [Alerts -> Seq(Assignment)]
         /\ \A role \in Roles :
              Notify(r, role)
                => notifications' \in [Alerts -> SUBSET [role : Roles, by : Requests]]
         /\ WriteAudit(r) => audit' \in [Alerts -> Seq(AuditEvent)] /\ clock' \in Nat
  <1>1. call[r].alert \in Alerts /\ call[r].action \in Actions
    BY CallFields
  <1>2. ASSUME NEW from \in Statuses \cup {None}, NEW to \in Statuses,
               WriteHistory(r, from, to)
        PROVE  history' \in [Alerts -> Seq(StatusChange)]
    <2>1. [from |-> from, to |-> to, at |-> startedAt[r], by |-> r] \in StatusChange
      BY DEF TypeOK, StatusChange
    <2> QED
      BY <1>1, <1>2, <2>1 DEF TypeOK, WriteHistory
  <1>3. ASSUME NEW role \in Roles, WriteAssignment(r, role)
        PROVE  assignments' \in [Alerts -> Seq(Assignment)]
    <2>1. [role |-> role, by |-> r] \in Assignment
      BY DEF Assignment
    <2> QED
      BY <1>1, <1>3, <2>1 DEF TypeOK, WriteAssignment
  <1>4. ASSUME NEW role \in Roles, Notify(r, role)
        PROVE  notifications' \in [Alerts -> SUBSET [role : Roles, by : Requests]]
    BY <1>1, <1>4 DEF TypeOK, Notify
  <1>5. ASSUME WriteAudit(r)
        PROVE  audit' \in [Alerts -> Seq(AuditEvent)] /\ clock' \in Nat
    <2>1. clock' \in Nat
      BY <1>5 DEF TypeOK, WriteAudit
    <2>2. [action |-> call[r].action, at |-> clock', by |-> r] \in AuditEvent
      BY <1>1, <2>1 DEF AuditEvent
    <2> QED
      BY <1>1, <1>5, <2>1, <2>2 DEF TypeOK, WriteAudit
  <1> QED
    BY <1>2, <1>3, <1>4, <1>5

\* What committing an update does to the types of the variables it writes.
LEMMA CommitUpdateType ==
  ASSUME TypeOK, CallsKnown, NEW r \in Requests, pc[r] = "locked", CommitUpdate(r)
  PROVE  /\ cases' \in [Alerts -> CaseRow \cup {None}]
         /\ audit' \in [Alerts -> Seq(AuditEvent)] /\ clock' \in Nat
         /\ idem' \in [IdemScopes -> Reply \cup {None}]
         /\ Finish(r, Answer("ok", UpdatedRow(r), r))
         /\ Answer("ok", UpdatedRow(r), r) \in Reply
  <1>1. /\ call[r] \in Calls /\ call[r].alert \in Alerts
        /\ call[r].action \in KeyedActions /\ seen[r] \in CaseRow
    BY CallFields DEF CallsKnown, KeyedActions
  <1>2. UpdatedRow(r) \in CaseRow
    BY <1>1, UpdatedRowType
  <1>3. Answer("ok", UpdatedRow(r), r) \in Reply
    BY <1>2, AnswerType DEF Codes
  <1>4. cases' \in [Alerts -> CaseRow \cup {None}]
    BY <1>1, <1>2 DEF CommitUpdate, TypeOK
  <1>5. idem' \in [IdemScopes -> Reply \cup {None}]
    BY <1>1, <1>3, IdemStoreType DEF CommitUpdate
  <1> QED
    BY <1>1, <1>3, <1>4, <1>5, WritesType DEF CommitUpdate

-----------------------------------------------------------------------------
(* Type correctness. *)

\* Refusing, aborting and answering touch no table; their answers are replies.
LEMMA RefusalAnswerType ==
  ASSUME TypeOK, CallsKnown, NEW r \in Requests, InFlight(r)
  PROVE  Answer(Refusal(r),
                IF Refusal(r) = "illegal_transition" THEN cases[call[r].alert] ELSE None,
                None) \in Reply
  <1>1. call[r] \in Calls /\ call[r].alert \in Alerts
    BY CallFields DEF CallsKnown, InFlight
  <1>2. cases[call[r].alert] \in CaseRow \cup {None}
    BY <1>1 DEF TypeOK
  <1> QED
    BY <1>2, RefusalType, AnswerType

\* Every step of CaseWorkflow keeps the types, given that the requests under
\* way work on calls of the menu.
LEMMA TypeStep ==
  ASSUME TypeOK, CallsKnown, [Next]_vars
  PROVE  TypeOK'
  <1> USE DEF tables
  <1>1. ASSUME NEW r \in Requests, NEW c \in Calls, Forbid(r, c)
        PROVE  TypeOK'
    <2>1. Answer("forbidden", None, None) \in Reply
      BY AnswerType DEF Codes
    <2> QED
      BY <1>1, <2>1 DEF TypeOK, Forbid, Submit, AnswerAtOnce
  <1>2. ASSUME NEW r \in Requests, NEW c \in Calls, Replay(r, c)
        PROVE  TypeOK'
    <2>1. Cached(c) \in Reply
      BY <1>2, CachedType DEF Replay
    <2> QED
      BY <1>2, <2>1 DEF TypeOK, Replay, Submit, AnswerAtOnce
  <1>3. ASSUME NEW r \in Requests, NEW c \in Calls, OpenExisting(r, c)
        PROVE  TypeOK'
    <2>1. Answer("existing", cases[c.alert], None) \in Reply
      BY CallFields, AnswerType DEF TypeOK, Codes
    <2> QED
      BY <1>3, <2>1 DEF TypeOK, OpenExisting, Submit, AnswerAtOnce
  <1>4. ASSUME NEW r \in Requests, NEW c \in Calls, Begin(r, c)
        PROVE  TypeOK'
    BY <1>4 DEF TypeOK, Begin, Submit
  <1>5. ASSUME NEW r \in Requests, Refuse(r)
        PROVE  TypeOK'
    BY <1>5, RefusalAnswerType, FinishType DEF TypeOK, Refuse
  <1>6. ASSUME NEW r \in Requests, Abort(r)
        PROVE  TypeOK'
    <2>1. Answer("lost", None, None) \in Reply
      BY AnswerType DEF Codes
    <2> QED
      BY <1>6, <2>1, FinishType DEF TypeOK, Abort
  <1>7. ASSUME NEW r \in Requests, LockRow(r)
        PROVE  TypeOK'
    <2>1. call[r].alert \in Alerts
      BY <1>7, CallFields DEF CallsKnown, LockRow
    <2> QED
      BY <1>7, <2>1 DEF TypeOK, LockRow
  <1>8. ASSUME NEW r \in Requests, pc[r] = "locked", ApplyStatusChange(r),
               call[r].action \in StatusActions
        PROVE  history' \in [Alerts -> Seq(StatusChange)]
    <2>1. call[r] \in Calls /\ seen[r].status \in Statuses
      BY <1>8 DEF CallsKnown, CaseRow
    <2>2. ToStatus(call[r].action) \in Statuses
      BY <1>8, ToStatusType
    <2> QED
      BY <1>8, <2>1, <2>2, WritesType DEF ApplyStatusChange
  <1>9. ASSUME NEW r \in Requests, Acknowledge(r)
        PROVE  TypeOK'
    <2>1. pc[r] = "locked" /\ call[r].action \in StatusActions
      BY <1>9 DEF Acknowledge, Holds, StatusActions
    <2> QED
      BY <1>8, <1>9, <2>1, CommitUpdateType, FinishType
         DEF TypeOK, Acknowledge, ApplyStatusChange, CommitUpdate
  <1>10. ASSUME NEW r \in Requests, Escalate(r)
         PROVE  TypeOK'
    <2>1. pc[r] = "locked" /\ call[r].action \in StatusActions
      BY <1>10 DEF Escalate, Holds, StatusActions
    <2>2. call[r] \in Calls /\ call[r].role \in Roles
      BY <2>1, CallFields DEF CallsKnown
    <2>3. /\ assignments' \in [Alerts -> Seq(Assignment)]
          /\ notifications' \in [Alerts -> SUBSET [role : Roles, by : Requests]]
      BY <1>10, <2>2, WritesType DEF Escalate
    <2> QED
      BY <1>8, <1>10, <2>1, <2>3, CommitUpdateType, FinishType
         DEF TypeOK, Escalate, ApplyStatusChange, CommitUpdate
  <1>11. ASSUME NEW r \in Requests, Resolve(r)
         PROVE  TypeOK'
    <2>1. pc[r] = "locked" /\ call[r].action \in StatusActions
      BY <1>11 DEF Resolve, Holds, StatusActions
    <2>2. call[r].alert \in Alerts
      BY <2>1, CallFields DEF CallsKnown
    <2>3. embeddings' \subseteq Alerts
      BY <1>11, <2>2 DEF TypeOK, Resolve
    <2> QED
      BY <1>8, <1>11, <2>1, <2>3, CommitUpdateType, FinishType
         DEF TypeOK, Resolve, ApplyStatusChange, CommitUpdate
  <1>12. ASSUME NEW r \in Requests, ResolveAborted(r)
         PROVE  TypeOK'
    <2>1. call[r] \in Calls /\ seen[r] \in CaseRow
      BY <1>12 DEF ResolveAborted, Holds, CallsKnown
    <2>2. Answer("ok", UpdatedRow(r), r) \in Reply
      BY <2>1, UpdatedRowType, AnswerType DEF Codes
    <2> QED
      BY <1>12, <2>2, FinishType DEF TypeOK, ResolveAborted
  <1>13. ASSUME NEW r \in Requests, Assign(r)
         PROVE  TypeOK'
    <2>1. pc[r] = "locked"
      BY <1>13 DEF Assign, Holds
    <2>2. call[r] \in Calls /\ call[r].role \in Roles
      BY <2>1, CallFields DEF CallsKnown
    <2>3. /\ assignments' \in [Alerts -> Seq(Assignment)]
          /\ notifications' \in [Alerts -> SUBSET [role : Roles, by : Requests]]
      BY <1>13, <2>2, WritesType DEF Assign
    <2> QED
      BY <1>13, <2>1, <2>3, CommitUpdateType, FinishType
         DEF TypeOK, Assign, CommitUpdate
  <1>14. ASSUME NEW r \in Requests, InsertCase(r)
         PROVE  TypeOK'
    <2> DEFINE row == [status |-> "open", version |-> 1,
                       owner |-> RoutedTo[call[r].alert]]
    <2>1. call[r] \in Calls /\ call[r].alert \in Alerts
      BY <1>14, CallFields DEF CallsKnown, InsertCase
    <2>2. row \in CaseRow
      BY <2>1, RoutedToAssumption DEF CaseRow, Statuses
    <2>3. Answer("ok", row, r) \in Reply
      BY <2>2, AnswerType DEF Codes
    <2>4. /\ history' \in [Alerts -> Seq(StatusChange)]
          /\ assignments' \in [Alerts -> Seq(Assignment)]
          /\ notifications' \in [Alerts -> SUBSET [role : Roles, by : Requests]]
          /\ audit' \in [Alerts -> Seq(AuditEvent)] /\ clock' \in Nat
      BY <1>14, <2>1, <2>2, WritesType DEF InsertCase, CaseRow, Statuses
    <2>5. cases' \in [Alerts -> CaseRow \cup {None}]
      BY <1>14, <2>1, <2>2 DEF InsertCase, TypeOK
    <2> QED
      BY <1>14, <2>3, <2>4, <2>5, FinishType DEF TypeOK, InsertCase
  <1>15. ASSUME NEW r \in Requests, NEW action \in {"note", "review"},
                AddEntry(r, action),
                notes' \in [Alerts -> SUBSET Requests],
                review' \in [Alerts -> Requests \cup {None}]
         PROVE  TypeOK'
    <2>1. call[r] \in Calls /\ call[r].action \in KeyedActions
      BY <1>15 DEF CallsKnown, AddEntry, KeyedActions
    <2>2. Answer("ok", None, r) \in Reply
      BY AnswerType DEF Codes
    <2>3. idem' \in [IdemScopes -> Reply \cup {None}]
      BY <1>15, <2>1, <2>2, IdemStoreType DEF AddEntry
    <2>4. audit' \in [Alerts -> Seq(AuditEvent)] /\ clock' \in Nat
      BY <1>15, <2>1, WritesType DEF AddEntry
    <2> QED
      BY <1>15, <2>2, <2>3, <2>4, FinishType DEF TypeOK, AddEntry
  <1>16. ASSUME NEW r \in Requests, AddNote(r)
         PROVE  TypeOK'
    BY <1>15, <1>16 DEF AddNote, TypeOK
  <1>17. ASSUME NEW r \in Requests, AddReview(r)
         PROVE  TypeOK'
    BY <1>15, <1>17 DEF AddReview, TypeOK
  <1>18. CASE UNCHANGED vars
    BY <1>18 DEF TypeOK, vars
  <1> QED
    BY <1>1, <1>2, <1>3, <1>4, <1>5, <1>6, <1>7, <1>9, <1>10, <1>11, <1>12,
       <1>13, <1>14, <1>16, <1>17, <1>18 DEF Next, Serve, Quiescent

-----------------------------------------------------------------------------
(* The row lock: from SELECT ... FOR UPDATE to the commit the row is not    *)
(* written by anybody else.                                                *)

\* Ending r leaves the other requests, and the locks they hold, alone.
LEMMA FinishFrame ==
  ASSUME TypeOK, NEW r \in Requests, NEW answer, Finish(r, answer)
  PROVE  /\ pc'[r] = "done" /\ call'[r] = call[r]
         /\ \A q \in Requests \ {r} :
              /\ pc'[q] = pc[q] /\ call'[q] = call[q] /\ seen'[q] = seen[q]
              /\ \A a \in Alerts : lock[a] = q => lock'[a] = q
  BY DEF TypeOK, Finish

\* A request that ends keeps the invariant if it leaves alone the rows that
\* the others have locked.
LEMMA SnapshotFinish ==
  ASSUME TypeOK, CallsKnown, SnapshotIsCurrent,
         NEW r \in Requests, NEW answer, InFlight(r), Finish(r, answer),
         \A q \in Requests \ {r} :
           pc[q] = "locked" => cases'[call[q].alert] = cases[call[q].alert]
  PROVE  CallsKnown' /\ SnapshotIsCurrent'
  <1>1. call[r] \in Calls
    BY DEF CallsKnown, InFlight
  <1>2. \A q \in Requests : pc[q] = "locked" => call[q].alert \in Alerts
    BY CallFields DEF CallsKnown
  <1>3. CallsKnown'
    BY <1>1, FinishFrame DEF CallsKnown
  <1>4. SnapshotIsCurrent'
    BY <1>2, FinishFrame DEF SnapshotIsCurrent
  <1> QED
    BY <1>3, <1>4

\* Starting a request touches no row and no lock.
LEMMA SnapshotSubmit ==
  ASSUME TypeOK, CallsKnown, SnapshotIsCurrent,
         NEW r \in Requests, NEW c \in Calls, Submit(r, c),
         NEW step \in {"started", "done"}, pc' = [pc EXCEPT ![r] = step]
  PROVE  CallsKnown' /\ SnapshotIsCurrent'
  <1>1. \A q \in Requests \ {r} : pc'[q] = pc[q] /\ call'[q] = call[q]
    BY DEF TypeOK, Submit
  <1>2. pc'[r] = step /\ call'[r] = c /\ UNCHANGED <<cases, lock, seen>>
    BY DEF TypeOK, Submit, tables
  <1> QED
    BY <1>1, <1>2 DEF CallsKnown, SnapshotIsCurrent

\* Only the holder of the lock updates a row.
LEMMA SnapshotUpdate ==
  ASSUME TypeOK, CallsKnown, SnapshotIsCurrent,
         NEW r \in Requests, pc[r] = "locked", CommitUpdate(r)
  PROVE  CallsKnown' /\ SnapshotIsCurrent'
  <1>1. \A q \in Requests : pc[q] = "locked" =>
          call[q].alert \in Alerts /\ lock[call[q].alert] = q
    BY CallFields DEF CallsKnown, SnapshotIsCurrent
  <1>2. \A q \in Requests \ {r} :
          pc[q] = "locked" => cases'[call[q].alert] = cases[call[q].alert]
    BY <1>1 DEF CommitUpdate, TypeOK
  <1>3. Finish(r, Answer("ok", UpdatedRow(r), r))
    BY DEF CommitUpdate
  <1> QED
    BY <1>2, <1>3, SnapshotFinish DEF InFlight

\* Every step keeps a locked row current.
LEMMA SnapshotStep ==
  ASSUME TypeOK, CallsKnown, SnapshotIsCurrent, [Next]_vars
  PROVE  CallsKnown' /\ SnapshotIsCurrent'
  <1>1. ASSUME NEW r \in Requests, NEW c \in Calls,
               Forbid(r, c) \/ Replay(r, c) \/ OpenExisting(r, c) \/ Begin(r, c)
        PROVE  CallsKnown' /\ SnapshotIsCurrent'
    <2>1. /\ Submit(r, c)
          /\ \E step \in {"started", "done"} : pc' = [pc EXCEPT ![r] = step]
      BY <1>1 DEF Forbid, Replay, OpenExisting, Begin, AnswerAtOnce
    <2> QED
      BY <2>1, SnapshotSubmit
  <1>2. ASSUME NEW r \in Requests, NEW answer, InFlight(r), Finish(r, answer),
               UNCHANGED cases
        PROVE  CallsKnown' /\ SnapshotIsCurrent'
    BY <1>2, SnapshotFinish
  <1>3. ASSUME NEW r \in Requests, Refuse(r) \/ Abort(r) \/ ResolveAborted(r)
        PROVE  CallsKnown' /\ SnapshotIsCurrent'
    BY <1>2, <1>3 DEF Refuse, Abort, ResolveAborted, Holds, InFlight, tables
  <1>4. ASSUME NEW r \in Requests, AddNote(r) \/ AddReview(r)
        PROVE  CallsKnown' /\ SnapshotIsCurrent'
    BY <1>2, <1>4 DEF AddNote, AddReview, AddEntry, InFlight
  <1>5. ASSUME NEW r \in Requests, LockRow(r)
        PROVE  CallsKnown' /\ SnapshotIsCurrent'
    <2> DEFINE a == call[r].alert
    <2>1. /\ call[r] \in Calls /\ a \in Alerts
          /\ pc[r] = "started" /\ lock[a] = None /\ r # None
      BY <1>5, CallFields, NoneAssumption DEF CallsKnown, LockRow, RowFree
    <2>2. Verdict(call[r], cases[a]) = "ok"
      BY <1>5, <2>1 DEF LockRow, Refusal, LockingActions, StatusActions
    <2>3. cases[a] \in CaseRow
      BY <2>1, <2>2 DEF Verdict, TypeOK
    <2>4. /\ lock'[a] = r /\ seen'[r] = cases[a] /\ pc'[r] = "locked"
          /\ UNCHANGED <<cases, call>>
      BY <1>5, <2>1 DEF LockRow, TypeOK, tables
    <2>5. \A q \in Requests \ {r} : pc'[q] = pc[q] /\ seen'[q] = seen[q]
      BY <1>5 DEF LockRow, TypeOK
    <2>6. \A b \in Alerts : lock[b] # None => lock'[b] = lock[b]
      BY <1>5, <2>1 DEF LockRow, TypeOK
    <2>7. \A q \in Requests : pc[q] = "locked" => call[q].alert \in Alerts
      BY CallFields DEF CallsKnown
    <2>8. CallsKnown'
      BY <1>5, <2>1, <2>3, <2>4, <2>5 DEF CallsKnown, LockRow
    <2>9. SnapshotIsCurrent'
      BY <2>2, <2>4, <2>5, <2>6, <2>7, NoneAssumption DEF SnapshotIsCurrent
    <2> QED
      BY <2>8, <2>9
  <1>6. ASSUME NEW r \in Requests,
               Acknowledge(r) \/ Escalate(r) \/ Resolve(r) \/ Assign(r)
        PROVE  CallsKnown' /\ SnapshotIsCurrent'
    <2>1. pc[r] = "locked" /\ CommitUpdate(r)
      BY <1>6 DEF Acknowledge, Escalate, Resolve, Assign, Holds, ApplyStatusChange
    <2> QED
      BY <2>1, SnapshotUpdate
  <1>7. ASSUME NEW r \in Requests, InsertCase(r)
        PROVE  CallsKnown' /\ SnapshotIsCurrent'
    <2>1. /\ InFlight(r) /\ call[r].alert \in Alerts
          /\ \E answer : Finish(r, answer)
      BY <1>7, CallFields DEF CallsKnown, InsertCase, InFlight
    <2>2. cases[call[r].alert] = None
      BY <1>7 DEF InsertCase, Refusal
    <2>3. \A q \in Requests : pc[q] = "locked" => cases[call[q].alert] # None
      BY NoneAssumption DEF CallsKnown, SnapshotIsCurrent
    <2>4. \A q \in Requests :
            pc[q] = "locked" => cases'[call[q].alert] = cases[call[q].alert]
      BY <1>7, <2>2, <2>3 DEF InsertCase, TypeOK
    <2> QED
      BY <2>1, <2>4, SnapshotFinish
  <1>8. CASE UNCHANGED vars
    BY <1>8 DEF CallsKnown, SnapshotIsCurrent, vars, tables
  <1> QED
    BY <1>1, <1>3, <1>4, <1>5, <1>6, <1>7, <1>8 DEF Next, Serve, Quiescent

\* The initial state has the right types and no request.
LEMMA InitialState ==
  ASSUME Init
  PROVE  TypeOK /\ CallsKnown /\ SnapshotIsCurrent
  BY NoneAssumption DEF Init, TypeOK, CallsKnown, SnapshotIsCurrent

\* Type correctness: the tables, the locks and the state of every request
\* keep the types their columns and local variables have in the code.
THEOREM TypeCorrect == Spec => []TypeOK
  <1>1. Init => TypeOK /\ CallsKnown /\ SnapshotIsCurrent
    BY InitialState
  <1>2. TypeOK /\ CallsKnown /\ SnapshotIsCurrent /\ [Next]_vars
          => TypeOK' /\ CallsKnown' /\ SnapshotIsCurrent'
    BY TypeStep, SnapshotStep
  <1> QED
    BY <1>1, <1>2, PTL DEF Spec

\* What a request under way works on is a call of the menu and, once it has
\* locked the row, a row.
THEOREM RequestsKnowTheirCalls == Spec => []CallsKnown
  <1>1. Init => TypeOK /\ CallsKnown /\ SnapshotIsCurrent
    BY InitialState
  <1>2. TypeOK /\ CallsKnown /\ SnapshotIsCurrent /\ [Next]_vars
          => TypeOK' /\ CallsKnown' /\ SnapshotIsCurrent'
    BY TypeStep, SnapshotStep
  <1> QED
    BY <1>1, <1>2, PTL DEF Spec

\* The row a handler read with SELECT ... FOR UPDATE (cases.py:311, 488) is
\* still the row of the case when the handler updates it, and its version
\* and transition checks still hold.
THEOREM SnapshotCurrent == Spec => []SnapshotIsCurrent
  <1>1. Init => TypeOK /\ CallsKnown /\ SnapshotIsCurrent
    BY InitialState
  <1>2. TypeOK /\ CallsKnown /\ SnapshotIsCurrent /\ [Next]_vars
          => TypeOK' /\ CallsKnown' /\ SnapshotIsCurrent'
    BY TypeStep, SnapshotStep
  <1> QED
    BY <1>1, <1>2, PTL DEF Spec

-----------------------------------------------------------------------------
(* The status history.                                                     *)

\* One more legal entry, from the status the row has, explains the new row.
LEMMA ExplainsAppend ==
  ASSUME NEW h \in Seq(StatusChange), NEW row \in CaseRow, Explains(h, row),
         NEW e \in StatusChange, NEW newRow \in CaseRow,
         e.from = row.status, e.to = newRow.status,
         <<e.from, e.to>> \in LegalTransitions
  PROVE  Explains(Append(h, e), newRow)
  <1>1. row # None /\ newRow # None /\ h # <<>>
    BY NoneAssumption DEF Explains
  <1>2. /\ Len(h) \in Nat \ {0} /\ Len(Append(h, e)) = Len(h) + 1
        /\ Append(h, e)[Len(h) + 1] = e
        /\ \A i \in 1..Len(h) : Append(h, e)[i] = h[i]
    BY <1>1
  <1>3. Append(h, e) # <<>>
    BY <1>2
  <1>4. \A i \in 2..(Len(h) + 1) :
          /\ Append(h, e)[i].from = Append(h, e)[i - 1].to
          /\ <<Append(h, e)[i].from, Append(h, e)[i].to>> \in LegalTransitions
    BY <1>1, <1>2 DEF Explains
  <1> QED
    BY <1>1, <1>2, <1>3, <1>4 DEF Explains

\* Committing an update writes the row of the call's alert and no other.
LEMMA CommitUpdateRow ==
  ASSUME TypeOK, CallsKnown, SnapshotIsCurrent,
         NEW r \in Requests, pc[r] = "locked", CommitUpdate(r)
  PROVE  LET a == call[r].alert
         IN /\ call[r] \in Calls /\ a \in Alerts
            /\ cases[a] = seen[r] /\ cases[a] \in CaseRow
            /\ cases'[a] = UpdatedRow(r) /\ UpdatedRow(r) \in CaseRow
            /\ cases'[a].status = NewStatus(r)
            /\ cases'[a].version = cases[a].version + 1
            /\ \A b \in Alerts \ {a} : cases'[b] = cases[b]
            /\ call[r].action \in StatusActions
                 => <<cases[a].status, NewStatus(r)>> \in LegalTransitions
            /\ call[r].action \notin StatusActions => NewStatus(r) = cases[a].status
  <1>1. /\ call[r] \in Calls /\ call[r].alert \in Alerts /\ seen[r] \in CaseRow
        /\ cases[call[r].alert] = seen[r] /\ Verdict(call[r], seen[r]) = "ok"
    BY CallFields DEF CallsKnown, SnapshotIsCurrent
  <1>2. /\ UpdatedRow(r) \in CaseRow /\ UpdatedRow(r).status = NewStatus(r)
        /\ UpdatedRow(r).version = seen[r].version + 1
    BY <1>1, UpdatedRowType
  <1>3. /\ cases'[call[r].alert] = UpdatedRow(r)
        /\ \A b \in Alerts \ {call[r].alert} : cases'[b] = cases[b]
    BY <1>1 DEF CommitUpdate, TypeOK
  <1>4. call[r].action \in StatusActions
          => <<seen[r].status, ToStatus(call[r].action)>> \in LegalTransitions
    BY <1>1 DEF Verdict
  <1>5. call[r].action \in StatusActions
          => <<cases[call[r].alert].status, NewStatus(r)>> \in LegalTransitions
    BY <1>1, <1>4 DEF NewStatus
  <1>6. call[r].action \notin StatusActions => NewStatus(r) = cases[call[r].alert].status
    BY <1>1 DEF NewStatus
  <1> QED
    BY <1>1, <1>2, <1>3, <1>5, <1>6

\* INSERT INTO cases finds no row and leaves an open one of version 1.
LEMMA InsertCaseRow ==
  ASSUME TypeOK, CallsKnown, NEW r \in Requests, InsertCase(r)
  PROVE  LET a == call[r].alert
         IN /\ a \in Alerts /\ cases[a] = None
            /\ cases'[a] # None /\ cases'[a].status = "open" /\ cases'[a].version = 1
            /\ \A b \in Alerts \ {a} : cases'[b] = cases[b]
  <1>1. call[r] \in Calls /\ call[r].alert \in Alerts
    BY CallFields DEF CallsKnown, InsertCase
  <1>2. cases[call[r].alert] = None
    BY DEF InsertCase, Refusal
  <1> DEFINE row == [status |-> "open", version |-> 1, owner |-> RoutedTo[call[r].alert]]
  <1>3. row \in CaseRow
    BY <1>1, RoutedToAssumption DEF CaseRow, Statuses
  <1>4. /\ cases'[call[r].alert] = row
        /\ \A b \in Alerts \ {call[r].alert} : cases'[b] = cases[b]
    BY <1>1 DEF InsertCase, TypeOK
  <1> QED
    BY <1>1, <1>2, <1>3, <1>4, NoneAssumption

\* Every step keeps the history of every case in step with its row.
LEMMA HistoryStep ==
  ASSUME TypeOK, CallsKnown, SnapshotIsCurrent, HistoryExplainsStatus, [Next]_vars
  PROVE  HistoryExplainsStatus'
  <1>1. ASSUME UNCHANGED <<cases, history>>
        PROVE  HistoryExplainsStatus'
    BY <1>1 DEF HistoryExplainsStatus, Explains
  <1>2. ASSUME NEW r \in Requests, pc[r] = "locked", ApplyStatusChange(r),
               call[r].action \in StatusActions
        PROVE  HistoryExplainsStatus'
    <2> DEFINE a == call[r].alert
               e == [from |-> seen[r].status, to |-> ToStatus(call[r].action),
                     at |-> startedAt[r], by |-> r]
    <2>1. CommitUpdate(r) /\ WriteHistory(r, seen[r].status, ToStatus(call[r].action))
      BY <1>2 DEF ApplyStatusChange
    <2>2. e \in StatusChange
      <3>1. seen[r].status \in Statuses /\ ToStatus(call[r].action) \in Statuses
        BY <1>2, ToStatusType DEF CallsKnown, CaseRow
      <3> QED
        BY <3>1 DEF StatusChange, TypeOK
    <2>3. /\ a \in Alerts /\ cases[a] = seen[r] /\ cases[a] \in CaseRow
          /\ cases'[a] \in CaseRow /\ cases'[a].status = e.to
          /\ <<e.from, e.to>> \in LegalTransitions
          /\ \A b \in Alerts \ {a} : cases'[b] = cases[b]
      BY <1>2, <2>1, CommitUpdateRow DEF NewStatus
    <2>4. /\ history'[a] = Append(history[a], e)
          /\ \A b \in Alerts \ {a} : history'[b] = history[b]
      BY <2>1, <2>3 DEF WriteHistory, TypeOK
    <2>5. history[a] \in Seq(StatusChange) /\ Explains(history[a], cases[a])
      BY <2>3 DEF TypeOK, HistoryExplainsStatus
    <2>6. Explains(history'[a], cases'[a])
      BY <2>2, <2>3, <2>4, <2>5, ExplainsAppend
    <2>7. \A b \in Alerts \ {a} : Explains(history'[b], cases'[b])
      BY <2>3, <2>4 DEF HistoryExplainsStatus
    <2> QED
      BY <2>6, <2>7 DEF HistoryExplainsStatus, Explains
  <1>3. ASSUME NEW r \in Requests, Acknowledge(r) \/ Escalate(r) \/ Resolve(r)
        PROVE  HistoryExplainsStatus'
    <2>1. pc[r] = "locked" /\ ApplyStatusChange(r) /\ call[r].action \in StatusActions
      BY <1>3 DEF Acknowledge, Escalate, Resolve, Holds, StatusActions
    <2> QED
      BY <1>2, <2>1
  <1>4. ASSUME NEW r \in Requests, Assign(r)
        PROVE  HistoryExplainsStatus'
    <2>1. /\ pc[r] = "locked" /\ CommitUpdate(r) /\ UNCHANGED history
          /\ call[r].action \notin StatusActions
      BY <1>4 DEF Assign, Holds, StatusActions
    <2>2. \A a \in Alerts : /\ cases'[a] = None <=> cases[a] = None
                            /\ cases[a] # None => cases'[a].status = cases[a].status
      BY <2>1, CommitUpdateRow, NoneAssumption
    <2> QED
      BY <2>1, <2>2 DEF HistoryExplainsStatus, Explains
  <1>5. ASSUME NEW r \in Requests, InsertCase(r)
        PROVE  HistoryExplainsStatus'
    <2> DEFINE a == call[r].alert
               e == [from |-> None, to |-> "open", at |-> startedAt[r], by |-> r]
    <2>1. /\ a \in Alerts /\ cases[a] = None
          /\ cases'[a] # None /\ cases'[a].status = "open"
          /\ \A b \in Alerts \ {a} : cases'[b] = cases[b]
      BY <1>5, InsertCaseRow
    <2>2. history[a] = <<>>
      BY <2>1 DEF HistoryExplainsStatus, Explains
    <2>3. /\ history'[a] = <<e>>
          /\ \A b \in Alerts \ {a} : history'[b] = history[b]
      BY <1>5, <2>1, <2>2 DEF InsertCase, WriteHistory, TypeOK
    <2>4. Explains(history'[a], cases'[a])
      BY <2>1, <2>3 DEF Explains
    <2>5. \A b \in Alerts \ {a} : Explains(history'[b], cases'[b])
      BY <2>1, <2>3 DEF HistoryExplainsStatus
    <2> QED
      BY <2>4, <2>5 DEF HistoryExplainsStatus, Explains
  <1>6. ASSUME NEW r \in Requests, Serve(r) \/ Abort(r)
        PROVE  HistoryExplainsStatus'
    BY <1>1, <1>3, <1>4, <1>5, <1>6
       DEF Serve, Refuse, LockRow, ResolveAborted, Abort, AddNote, AddReview, AddEntry,
           tables
  <1>7. ASSUME NEW r \in Requests, NEW c \in Calls,
               Forbid(r, c) \/ Replay(r, c) \/ OpenExisting(r, c) \/ Begin(r, c)
        PROVE  HistoryExplainsStatus'
    BY <1>1, <1>7 DEF Forbid, Replay, OpenExisting, Begin, Submit, tables
  <1>8. CASE UNCHANGED vars
    BY <1>1, <1>8 DEF vars, tables
  <1> QED
    BY <1>6, <1>7, <1>8 DEF Next, Quiescent

\* case_status_history (004:288) explains the status of every case, whatever
\* requests ran concurrently and whichever of them were lost on the way.
THEOREM HistoryExplained == Spec => []HistoryExplainsStatus
  <1>1. Init => HistoryExplainsStatus
    BY DEF Init, HistoryExplainsStatus, Explains
  <1>2. TypeOK /\ CallsKnown /\ SnapshotIsCurrent /\ HistoryExplainsStatus /\ [Next]_vars
          => HistoryExplainsStatus'
    BY HistoryStep
  <1> QED
    BY <1>1, <1>2, TypeCorrect, RequestsKnowTheirCalls, SnapshotCurrent, PTL DEF Spec

-----------------------------------------------------------------------------
(* Refinement: the service implements the database contract.               *)

\* The service's table of transitions has no edge the trigger refuses.
LEMMA TransitionsAgree ==
  ASSUME NEW from, NEW to, <<from, to>> \in LegalTransitions
  PROVE  Lifecycle!TriggerAllows(from, to) /\ to \in Lifecycle!Statuses
  BY DEF LegalTransitions, Lifecycle!TriggerAllows, Lifecycle!Statuses

\* A row that changes alone changes one entry of each mapped column.
LEMMA ColumnsChange ==
  ASSUME NEW a \in Alerts, cases'[a] # None,
         \A b \in Alerts \ {a} : cases'[b] = cases[b]
  PROVE  /\ StatusColumn' = [StatusColumn EXCEPT ![a] = cases'[a].status]
         /\ VersionColumn' = [VersionColumn EXCEPT ![a] = cases'[a].version]
  BY DEF StatusColumn, VersionColumn

\* Every step of the service is a step of the contract, or changes no row.
LEMMA LifecycleStep ==
  ASSUME TypeOK, CallsKnown, SnapshotIsCurrent, [Next]_vars
  PROVE  [Lifecycle!Next]_<<StatusColumn, VersionColumn>>
  <1>1. ASSUME UNCHANGED cases
        PROVE  UNCHANGED <<StatusColumn, VersionColumn>>
    BY <1>1 DEF StatusColumn, VersionColumn
  <1>2. ASSUME NEW r \in Requests, pc[r] = "locked", CommitUpdate(r)
        PROVE  Lifecycle!Next
    <2> DEFINE a == call[r].alert
    <2>1. /\ a \in Alerts /\ cases[a] \in CaseRow /\ cases'[a] \in CaseRow
          /\ cases'[a].status = NewStatus(r)
          /\ cases'[a].version = cases[a].version + 1
          /\ \A b \in Alerts \ {a} : cases'[b] = cases[b]
          /\ call[r].action \in StatusActions
               => <<cases[a].status, NewStatus(r)>> \in LegalTransitions
          /\ call[r].action \notin StatusActions => NewStatus(r) = cases[a].status
      BY <1>2, CommitUpdateRow
    <2>2. cases[a] # None /\ cases'[a] # None
      BY <2>1, NoneAssumption
    <2>3. /\ StatusColumn' = [StatusColumn EXCEPT ![a] = NewStatus(r)]
          /\ VersionColumn' = [VersionColumn EXCEPT ![a] = cases[a].version + 1]
      BY <2>1, <2>2, ColumnsChange
    <2>4. StatusColumn[a] = cases[a].status /\ VersionColumn[a] = cases[a].version
      BY <2>1, <2>2 DEF StatusColumn, VersionColumn
    <2>5. VersionColumn' = [VersionColumn EXCEPT ![a] = @ + 1]
      BY <2>3, <2>4
    <2>6. CASE call[r].action \in StatusActions
      <3>1. /\ Lifecycle!TriggerAllows(StatusColumn[a], NewStatus(r))
            /\ NewStatus(r) \in Lifecycle!Statuses
        BY <2>1, <2>4, <2>6, TransitionsAgree
      <3>2. Lifecycle!Move(a, NewStatus(r))
        BY <2>3, <2>5, <3>1 DEF Lifecycle!Move
      <3> QED
        BY <2>1, <3>1, <3>2 DEF Lifecycle!Next
    <2>7. CASE call[r].action \notin StatusActions
      <3>1. StatusColumn[a] # None
        BY <2>1, <2>4, NoneAssumption DEF CaseRow
      <3>2. StatusColumn' = StatusColumn
        BY <2>1, <2>3, <2>4, <2>7 DEF StatusColumn
      <3>3. Lifecycle!Reassign(a)
        BY <2>5, <3>1, <3>2 DEF Lifecycle!Reassign
      <3> QED
        BY <2>1, <3>3 DEF Lifecycle!Next
    <2> QED
      BY <2>6, <2>7
  <1>3. ASSUME NEW r \in Requests, InsertCase(r)
        PROVE  Lifecycle!Next
    <2> DEFINE a == call[r].alert
    <2>1. /\ a \in Alerts /\ cases[a] = None
          /\ cases'[a] # None /\ cases'[a].status = "open" /\ cases'[a].version = 1
          /\ \A b \in Alerts \ {a} : cases'[b] = cases[b]
      BY <1>3, InsertCaseRow
    <2>2. StatusColumn[a] = None
      BY <2>1 DEF StatusColumn
    <2>3. Lifecycle!Open(a)
      BY <2>1, <2>2, ColumnsChange DEF Lifecycle!Open
    <2> QED
      BY <2>1, <2>3 DEF Lifecycle!Next
  <1>4. ASSUME NEW r \in Requests, Serve(r) \/ Abort(r)
        PROVE  Lifecycle!Next \/ UNCHANGED <<StatusColumn, VersionColumn>>
    <2>1. CASE Acknowledge(r) \/ Escalate(r) \/ Resolve(r) \/ Assign(r)
      <3>1. pc[r] = "locked" /\ CommitUpdate(r)
        BY <2>1 DEF Acknowledge, Escalate, Resolve, Assign, Holds, ApplyStatusChange
      <3> QED
        BY <1>2, <3>1
    <2>2. CASE InsertCase(r)
      BY <1>3, <2>2
    <2>3. CASE Refuse(r) \/ LockRow(r) \/ ResolveAborted(r) \/ AddNote(r)
               \/ AddReview(r) \/ Abort(r)
      BY <1>1, <2>3
         DEF Refuse, LockRow, ResolveAborted, AddNote, AddReview, AddEntry, Abort, tables
    <2> QED
      BY <1>4, <2>1, <2>2, <2>3 DEF Serve
  <1>5. ASSUME NEW r \in Requests, NEW c \in Calls,
               Forbid(r, c) \/ Replay(r, c) \/ OpenExisting(r, c) \/ Begin(r, c)
        PROVE  UNCHANGED <<StatusColumn, VersionColumn>>
    BY <1>1, <1>5 DEF Forbid, Replay, OpenExisting, Begin, Submit, tables
  <1>6. CASE UNCHANGED vars
    BY <1>1, <1>6 DEF vars, tables
  <1> QED
    BY <1>4, <1>5, <1>6 DEF Next, Quiescent

\* The service implements the contract of the table cases and its trigger
\* (004:205-266): no interleaving of requests makes the trigger raise, a case
\* is inserted once, and each change of its row raises its version by one.
THEOREM ServiceImplementsLifecycle == Spec => ImplementsLifecycle
  <1>1. Init => Lifecycle!Init
    BY DEF Init, Lifecycle!Init, StatusColumn, VersionColumn
  <1>2. TypeOK /\ CallsKnown /\ SnapshotIsCurrent /\ [Next]_vars
          => [Lifecycle!Next]_<<StatusColumn, VersionColumn>>
    BY LifecycleStep
  <1> QED
    BY <1>1, <1>2, TypeCorrect, RequestsKnowTheirCalls, SnapshotCurrent, PTL
       DEF Spec, ImplementsLifecycle, Lifecycle!Spec

-----------------------------------------------------------------------------
(* Idempotency keys: where a stored body comes from.                       *)

\* Only a request that is done has an answer, and the body under a key is the
\* answer its originator got for the action and the case the key is filed under.
BodiesHaveOrigins ==
  /\ \A r \in Requests : reply[r] # None => pc[r] = "done"
  /\ \A k \in IdemScopes : idem[k] # None =>
       LET q == idem[k].origin
       IN /\ q \in Requests /\ reply[q] = idem[k]
          /\ call[q] \in Calls /\ IdemScope(call[q]) = k

\* A keyed call has a scope, which is where its cached body is.
LEMMA ScopeOf ==
  ASSUME NEW c \in Calls, c.key # None, c.action \in KeyedActions
  PROVE  IdemScope(c) \in IdemScopes /\ Cached(c) = idem[IdemScope(c)]
  BY CallFields DEF IdemScope, IdemScopes, Cached

\* What every answered request has in common: the request was not answered
\* before, and nothing of the others changes.
LEMMA AnswerFrame ==
  ASSUME TypeOK, NEW r \in Requests, NEW answer, Finish(r, answer)
  PROVE  /\ reply'[r] = answer /\ pc'[r] = "done" /\ call' = call
         /\ \A q \in Requests \ {r} : reply'[q] = reply[q] /\ pc'[q] = pc[q]
  BY DEF TypeOK, Finish

\* Storing a body changes the entry of the call's scope, and only if it was free.
LEMMA IdemStoreFrame ==
  ASSUME TypeOK, NEW c \in Calls, c.action \in KeyedActions, NEW body, IdemStore(c, body)
  PROVE  \A k \in IdemScopes :
           \/ idem'[k] = idem[k]
           \/ /\ c.key # None /\ k = IdemScope(c)
              /\ idem[k] = None /\ idem'[k] = body
  <1>1. CASE c.key # None /\ Cached(c) = None
    <2>1. IdemScope(c) \in IdemScopes /\ idem[IdemScope(c)] = None
      BY <1>1, ScopeOf
    <2>2. idem' = [idem EXCEPT ![IdemScope(c)] = body]
      BY <1>1 DEF IdemStore
    <2> QED
      BY <1>1, <2>1, <2>2 DEF TypeOK
  <1>2. CASE ~(c.key # None /\ Cached(c) = None)
    BY <1>2 DEF IdemStore
  <1> QED
    BY <1>1, <1>2

\* A request that ends with its own body, stored or not.
LEMMA OriginsFinish ==
  ASSUME TypeOK, BodiesHaveOrigins, NEW r \in Requests, InFlight(r), call[r] \in Calls,
         NEW answer \in Reply, Finish(r, answer),
         \/ UNCHANGED idem
         \/ /\ IdemStore(call[r], answer) /\ call[r].action \in KeyedActions
            /\ answer.origin = r
  PROVE  BodiesHaveOrigins'
  <1>1. reply[r] = None
    BY DEF BodiesHaveOrigins, InFlight
  <1>2. answer # None
    BY NoneAssumption
  <1>3. \A q \in Requests : reply'[q] # None => pc'[q] = "done"
    BY AnswerFrame DEF BodiesHaveOrigins
  <1>4. ASSUME NEW k \in IdemScopes, idem'[k] # None
        PROVE  LET q == idem'[k].origin
               IN /\ q \in Requests /\ reply'[q] = idem'[k]
                  /\ call'[q] \in Calls /\ IdemScope(call'[q]) = k
    <2>1. CASE idem'[k] = idem[k]
      <3>1. idem[k].origin # r
        BY <1>1, <1>4, <2>1 DEF BodiesHaveOrigins
      <3> QED
        BY <1>4, <2>1, <3>1, AnswerFrame DEF BodiesHaveOrigins
    <2>2. CASE k = IdemScope(call[r]) /\ idem'[k] = answer /\ answer.origin = r
      BY <2>2, AnswerFrame
    <2> QED
      BY <2>1, <2>2, IdemStoreFrame
  <1> QED
    BY <1>3, <1>4 DEF BodiesHaveOrigins, IdemScope

\* A request that is sent and answered, or begun, in one step.
LEMMA OriginsSubmit ==
  ASSUME TypeOK, BodiesHaveOrigins, NEW r \in Requests, NEW c \in Calls, Submit(r, c),
         \/ \E answer \in Reply : AnswerAtOnce(r, answer)
         \/ pc' = [pc EXCEPT ![r] = "started"] /\ UNCHANGED reply
  PROVE  BodiesHaveOrigins'
  <1>1. /\ pc[r] = "idle" /\ reply[r] = None /\ UNCHANGED idem
        /\ \A q \in Requests \ {r} :
             call'[q] = call[q] /\ reply'[q] = reply[q] /\ pc'[q] = pc[q]
        /\ reply'[r] # None => pc'[r] = "done"
    BY DEF TypeOK, Submit, AnswerAtOnce, BodiesHaveOrigins, tables
  <1>2. \A k \in IdemScopes : idem[k] # None => idem[k].origin # r
    BY <1>1 DEF BodiesHaveOrigins
  <1> QED
    BY <1>1, <1>2 DEF BodiesHaveOrigins, IdemScope

\* How every step of the server ends a request, or lets it keep its row.
LEMMA ServeKinds ==
  ASSUME TypeOK, CallsKnown, NEW r \in Requests, Serve(r) \/ Abort(r)
  PROVE  \/ \E code \in Codes \ {"ok", "forbidden"}, row \in CaseRow \cup {None} :
              InFlight(r) /\ Finish(r, Answer(code, row, None)) /\ UNCHANGED idem
         \/ /\ pc[r] = "locked" /\ Finish(r, Answer("ok", UpdatedRow(r), r))
            /\ IdemStore(call[r], Answer("ok", UpdatedRow(r), r))
         \/ /\ pc[r] = "started" /\ call[r].action \in {"note", "review"}
            /\ Finish(r, Answer("ok", None, r))
            /\ IdemStore(call[r], Answer("ok", None, r))
         \/ \E row \in CaseRow :
              /\ pc[r] = "started" /\ call[r].action = "open"
              /\ Finish(r, Answer("ok", row, r)) /\ UNCHANGED idem
         \/ ResolveAborted(r)
         \/ /\ InFlight(r) /\ pc' = [pc EXCEPT ![r] = "locked"]
            /\ UNCHANGED <<call, reply, idem>>
  <1>1. CASE Refuse(r) \/ Abort(r)
    <2>1. call[r].alert \in Alerts
      BY <1>1, CallFields DEF CallsKnown, Refuse, Abort, InFlight
    <2>2. CASE Refuse(r)
      <3>1. Refusal(r) \in Codes \ {"ok", "forbidden"}
        BY <2>2, RefusalType DEF Refuse
      <3>2. (IF Refusal(r) = "illegal_transition" THEN cases[call[r].alert] ELSE None)
              \in CaseRow \cup {None}
        BY <2>1 DEF TypeOK
      <3> QED
        BY <2>2, <3>1, <3>2 DEF Refuse, tables
    <2>3. CASE Abort(r)
      BY <2>3 DEF Abort, Codes, tables
    <2> QED
      BY <1>1, <2>2, <2>3
  <1>2. CASE Acknowledge(r) \/ Escalate(r) \/ Resolve(r) \/ Assign(r)
    BY <1>2 DEF Acknowledge, Escalate, Resolve, Assign, Holds, ApplyStatusChange, CommitUpdate
  <1>3. CASE AddNote(r) \/ AddReview(r)
    BY <1>3 DEF AddNote, AddReview, AddEntry
  <1>4. CASE InsertCase(r)
    <2>1. call[r].alert \in Alerts
      BY <1>4, CallFields DEF CallsKnown, InsertCase
    <2>2. [status |-> "open", version |-> 1, owner |-> RoutedTo[call[r].alert]] \in CaseRow
      BY <2>1, RoutedToAssumption DEF CaseRow, Statuses
    <2> QED
      BY <1>4, <2>2 DEF InsertCase
  <1>5. CASE LockRow(r)
    BY <1>5 DEF LockRow, InFlight, tables
  <1> QED
    BY <1>1, <1>2, <1>3, <1>4, <1>5 DEF Serve

\* How every step ends or begins a request, or touches neither answers nor keys.
LEMMA StepKinds ==
  ASSUME TypeOK, CallsKnown, Next
  PROVE  \/ \E r \in Requests, c \in Calls :
              /\ Submit(r, c)
              /\ \/ AnswerAtOnce(r, Answer("forbidden", None, None))
                 \/ c.action = "open" /\ AnswerAtOnce(r, Answer("existing", cases[c.alert], None))
                 \/ Cached(c) # None /\ AnswerAtOnce(r, Cached(c))
                 \/ /\ Cached(c) = None /\ UNCHANGED reply
                    /\ pc' = [pc EXCEPT ![r] = "started"]
         \/ \E r \in Requests, code \in Codes \ {"ok", "forbidden"}, row \in CaseRow \cup {None} :
              InFlight(r) /\ Finish(r, Answer(code, row, None)) /\ UNCHANGED idem
         \/ \E r \in Requests :
              /\ pc[r] = "locked" /\ Finish(r, Answer("ok", UpdatedRow(r), r))
              /\ IdemStore(call[r], Answer("ok", UpdatedRow(r), r))
         \/ \E r \in Requests :
              /\ pc[r] = "started" /\ call[r].action \in {"note", "review"}
              /\ Finish(r, Answer("ok", None, r))
              /\ IdemStore(call[r], Answer("ok", None, r))
         \/ \E r \in Requests, row \in CaseRow :
              /\ pc[r] = "started" /\ call[r].action = "open"
              /\ Finish(r, Answer("ok", row, r)) /\ UNCHANGED idem
         \/ \E r \in Requests : ResolveAborted(r)
         \/ \E r \in Requests :
              /\ InFlight(r) /\ pc' = [pc EXCEPT ![r] = "locked"]
              /\ UNCHANGED <<call, reply, idem>>
         \/ UNCHANGED vars
  <1>1. ASSUME NEW r \in Requests, NEW c \in Calls,
               Forbid(r, c) \/ Replay(r, c) \/ OpenExisting(r, c) \/ Begin(r, c)
        PROVE  /\ Submit(r, c)
               /\ \/ AnswerAtOnce(r, Answer("forbidden", None, None))
                  \/ c.action = "open" /\ AnswerAtOnce(r, Answer("existing", cases[c.alert], None))
                  \/ Cached(c) # None /\ AnswerAtOnce(r, Cached(c))
                  \/ /\ Cached(c) = None /\ UNCHANGED reply
                     /\ pc' = [pc EXCEPT ![r] = "started"]
    BY <1>1 DEF Forbid, Replay, OpenExisting, Begin
  <1> QED
    BY <1>1, ServeKinds DEF Next, Quiescent

\* Every step keeps the origin of every stored body.
LEMMA OriginsStep ==
  ASSUME TypeOK, CallsKnown, BodiesHaveOrigins, [Next]_vars
  PROVE  BodiesHaveOrigins'
  <1>1. CASE UNCHANGED vars
    BY <1>1 DEF BodiesHaveOrigins, IdemScope, vars, tables
  <1>2. ASSUME NEW r \in Requests, NEW c \in Calls, Submit(r, c),
               \/ AnswerAtOnce(r, Answer("forbidden", None, None))
               \/ c.action = "open" /\ AnswerAtOnce(r, Answer("existing", cases[c.alert], None))
               \/ Cached(c) # None /\ AnswerAtOnce(r, Cached(c))
               \/ pc' = [pc EXCEPT ![r] = "started"] /\ UNCHANGED reply
        PROVE  BodiesHaveOrigins'
    <2>1. cases[c.alert] \in CaseRow \cup {None} /\ Cached(c) \in Reply \cup {None}
      BY CallFields, CachedType DEF TypeOK
    <2>2. /\ Answer("forbidden", None, None) \in Reply
          /\ Answer("existing", cases[c.alert], None) \in Reply
      BY <2>1, AnswerType DEF Codes
    <2> QED
      BY <1>2, <2>1, <2>2, OriginsSubmit
  <1>3. ASSUME NEW r \in Requests, NEW code \in Codes, NEW row \in CaseRow \cup {None},
               NEW origin \in Requests \cup {None},
               InFlight(r), Finish(r, Answer(code, row, origin)),
               \/ UNCHANGED idem
               \/ /\ IdemStore(call[r], Answer(code, row, origin))
                  /\ call[r].action \in KeyedActions /\ origin = r
        PROVE  BodiesHaveOrigins'
    <2>1. call[r] \in Calls /\ Answer(code, row, origin) \in Reply
      BY <1>3, AnswerType DEF CallsKnown, InFlight
    <2>2. Answer(code, row, origin).origin = origin
      BY DEF Answer
    <2> QED
      BY <1>3, <2>1, <2>2, OriginsFinish
  <1>4. ASSUME NEW r \in Requests, pc[r] = "locked"
        PROVE  /\ InFlight(r) /\ call[r].action \in KeyedActions
               /\ UpdatedRow(r) \in CaseRow /\ "ok" \in Codes
    BY <1>4, UpdatedRowType DEF CallsKnown, InFlight, KeyedActions, Codes
  <1>5. ASSUME NEW r \in Requests, ResolveAborted(r)
        PROVE  BodiesHaveOrigins'
    BY <1>3, <1>4, <1>5 DEF ResolveAborted, Holds, tables
  <1>6. ASSUME NEW r \in Requests, pc[r] = "locked",
               Finish(r, Answer("ok", UpdatedRow(r), r)),
               IdemStore(call[r], Answer("ok", UpdatedRow(r), r))
        PROVE  BodiesHaveOrigins'
    BY <1>3, <1>4, <1>6
  <1>7. ASSUME NEW r \in Requests, pc[r] = "started", call[r].action \in {"note", "review"},
               Finish(r, Answer("ok", None, r)), IdemStore(call[r], Answer("ok", None, r))
        PROVE  BodiesHaveOrigins'
    BY <1>3, <1>7 DEF InFlight, KeyedActions, Codes
  <1>8. ASSUME NEW r \in Requests, NEW row \in CaseRow, pc[r] = "started",
               Finish(r, Answer("ok", row, r)), UNCHANGED idem
        PROVE  BodiesHaveOrigins'
    BY <1>3, <1>8 DEF InFlight, Codes
  <1>9. ASSUME NEW r \in Requests, InFlight(r), pc' = [pc EXCEPT ![r] = "locked"],
               UNCHANGED <<call, reply, idem>>
        PROVE  BodiesHaveOrigins'
    BY <1>9 DEF BodiesHaveOrigins, IdemScope, InFlight, TypeOK
  <1> QED
    BY <1>1, <1>2, <1>3, <1>5, <1>6, <1>7, <1>8, <1>9, StepKinds

\* A body under a key has an originator, at all times.
THEOREM OriginsKnown == Spec => []BodiesHaveOrigins
  <1>1. Init => BodiesHaveOrigins
    BY DEF Init, BodiesHaveOrigins
  <1>2. TypeOK /\ CallsKnown /\ BodiesHaveOrigins /\ [Next]_vars => BodiesHaveOrigins'
    BY OriginsStep
  <1> QED
    BY <1>1, <1>2, TypeCorrect, RequestsKnowTheirCalls, PTL DEF Spec

\* A request that starts had no answer and gave no body.
LEMMA SubmitFrame ==
  ASSUME TypeOK, BodiesHaveOrigins, NEW r \in Requests, NEW c \in Calls, Submit(r, c)
  PROVE  /\ reply[r] = None /\ call'[r] = c /\ UNCHANGED idem
         /\ \A q \in Requests \ {r} : call'[q] = call[q]
         /\ \A k \in IdemScopes : idem[k] # None => idem[k].origin # r
  BY DEF TypeOK, Submit, BodiesHaveOrigins, tables

\* A request that ends with a body of its own, or with none, keeps the
\* replayed answers right.
LEMMA ReplaysFinish ==
  ASSUME TypeOK, BodiesHaveOrigins, ReplaysOriginalAnswer, NEW r \in Requests, InFlight(r),
         NEW answer, Finish(r, answer), answer.origin \in {None, r}
  PROVE  ReplaysOriginalAnswer'
  <1>1. reply[r] = None
    BY DEF BodiesHaveOrigins, InFlight
  <1>2. \A q \in Requests \ {r} :
          reply[q] # None /\ reply[q].origin # None =>
            reply[q].origin \in Requests \ {r}
    <2>1. \A q \in Requests : reply[q] # None => reply[q].origin \in Requests \cup {None}
      BY DEF TypeOK, Reply
    <2>2. \A q \in Requests : reply[q] # None /\ reply[q].origin # None
                             => reply[reply[q].origin] = reply[q]
      BY DEF ReplaysOriginalAnswer
    <2> QED
      BY <1>1, <2>1, <2>2
  <1> QED
    BY <1>2, AnswerFrame DEF ReplaysOriginalAnswer

\* A request that starts keeps the replayed answers right, whether it is
\* answered from the table of keys, at once, or not yet.
LEMMA ReplaysSubmit ==
  ASSUME TypeOK, BodiesHaveOrigins, ReplaysOriginalAnswer,
         NEW r \in Requests, NEW c \in Calls, Submit(r, c),
         \/ \E answer : AnswerAtOnce(r, answer) /\ answer.origin = None
         \/ Cached(c) # None /\ AnswerAtOnce(r, Cached(c))
         \/ UNCHANGED reply
  PROVE  ReplaysOriginalAnswer'
  <1>1. \A q \in Requests \ {r} : reply'[q] = reply[q]
    BY DEF TypeOK, AnswerAtOnce
  <1>2. \A q \in Requests \ {r} :
          reply[q] # None /\ reply[q].origin # None =>
            reply[q].origin \in Requests \ {r}
    <2>1. \A q \in Requests : reply[q] # None => reply[q].origin \in Requests \cup {None}
      BY DEF TypeOK, Reply
    <2>2. \A q \in Requests : reply[q] # None /\ reply[q].origin # None
                             => reply[reply[q].origin] = reply[q]
      BY DEF ReplaysOriginalAnswer
    <2> QED
      BY <2>1, <2>2, SubmitFrame
  <1>3. \A q \in Requests \ {r} :
          reply'[q] # None /\ reply'[q].origin # None =>
            LET o == reply'[q].origin
            IN /\ reply'[q] = reply'[o]
               /\ call'[q].action = call'[o].action /\ call'[q].alert = call'[o].alert
    BY <1>1, <1>2, SubmitFrame DEF ReplaysOriginalAnswer
  <1>4. CASE \/ \E answer : AnswerAtOnce(r, answer) /\ answer.origin = None
             \/ UNCHANGED reply
    <2>1. reply'[r] # None => reply'[r].origin = None
      BY <1>4, SubmitFrame DEF TypeOK, AnswerAtOnce
    <2> QED
      BY <1>3, <2>1 DEF ReplaysOriginalAnswer
  <1>5. CASE Cached(c) # None /\ AnswerAtOnce(r, Cached(c))
    <2> DEFINE k == IdemScope(c)
               o == idem[k].origin
    <2>1. k \in IdemScopes /\ Cached(c) = idem[k] /\ idem[k] # None
      BY <1>5, ScopeOf DEF Cached
    <2>2. o \in Requests \ {r} /\ reply[o] = idem[k] /\ IdemScope(call[o]) = k
      BY <2>1, SubmitFrame DEF BodiesHaveOrigins
    <2>3. reply'[r] = idem[k] /\ reply'[o] = idem[k]
      BY <1>1, <1>5, <2>1, <2>2 DEF TypeOK, AnswerAtOnce
    <2>4. call'[r] = c /\ call'[o] = call[o]
      BY <2>2, SubmitFrame
    <2>5. call[o].action = c.action /\ call[o].alert = c.alert
      BY <2>2 DEF IdemScope
    <2> QED
      BY <1>3, <2>3, <2>4, <2>5 DEF ReplaysOriginalAnswer
  <1> QED
    BY <1>4, <1>5

\* Every step keeps the replayed answers right.
LEMMA ReplaysStep ==
  ASSUME TypeOK, CallsKnown, BodiesHaveOrigins, ReplaysOriginalAnswer, [Next]_vars
  PROVE  ReplaysOriginalAnswer'
  <1>1. CASE UNCHANGED vars
    BY <1>1 DEF ReplaysOriginalAnswer, vars
  <1>2. \A code, row, origin : Answer(code, row, origin).origin = origin
    BY DEF Answer
  <1>3. ASSUME NEW r \in Requests, InFlight(r), NEW answer, Finish(r, answer),
               answer.origin \in {None, r}
        PROVE  ReplaysOriginalAnswer'
    BY <1>3, ReplaysFinish
  <1>4. ASSUME NEW r \in Requests, ResolveAborted(r)
        PROVE  ReplaysOriginalAnswer'
    BY <1>2, <1>3, <1>4 DEF ResolveAborted, Holds, InFlight
  <1>5. ASSUME NEW r \in Requests, NEW c \in Calls, Submit(r, c),
               \/ AnswerAtOnce(r, Answer("forbidden", None, None))
               \/ AnswerAtOnce(r, Answer("existing", cases[c.alert], None))
               \/ Cached(c) # None /\ AnswerAtOnce(r, Cached(c))
               \/ UNCHANGED reply
        PROVE  ReplaysOriginalAnswer'
    BY <1>2, <1>5, ReplaysSubmit
  <1>6. ASSUME NEW r \in Requests, UNCHANGED <<call, reply>>
        PROVE  ReplaysOriginalAnswer'
    BY <1>6 DEF ReplaysOriginalAnswer
  <1> QED
    BY <1>1, <1>2, <1>3, <1>4, <1>5, <1>6, StepKinds DEF InFlight

\* A retry gets the answer of the request whose work it repeats, for the same
\* action on the same case (_idem_lookup, cases.py:64-79).
THEOREM RetriesGetTheOriginalAnswer == Spec => []ReplaysOriginalAnswer
  <1>1. Init => ReplaysOriginalAnswer
    BY DEF Init, ReplaysOriginalAnswer
  <1>2. TypeOK /\ CallsKnown /\ BodiesHaveOrigins /\ ReplaysOriginalAnswer /\ [Next]_vars
          => ReplaysOriginalAnswer'
    BY ReplaysStep
  <1> QED
    BY <1>1, <1>2, TypeCorrect, RequestsKnowTheirCalls, OriginsKnown, PTL DEF Spec

-----------------------------------------------------------------------------
(* Idempotency keys: work done at most once.                               *)

Keyed(c) == c.key # None /\ c.action \in KeyedActions

\* While a keyed request is under way nothing is stored under its scope and
\* no other request has the same scope; work that is done is stored.
KeysHeld ==
  /\ \A r \in Requests : InFlight(r) /\ Keyed(call[r]) => idem[IdemScope(call[r])] = None
  /\ \A r, q \in Requests :
       r # q /\ InFlight(r) /\ InFlight(q) /\ Keyed(call[r])
         => IdemScope(call[r]) # IdemScope(call[q])
  /\ \A r \in Requests : DidIt(r) /\ Keyed(call[r]) => idem[IdemScope(call[r])] = reply[r]

\* A request that ends keeps the keys held if its work, when it did any, is
\* stored under its key.
LEMMA KeysFinish ==
  ASSUME TypeOK, CallsKnown, BodiesHaveOrigins, KeysHeld,
         NEW r \in Requests, InFlight(r), NEW answer \in Reply, Finish(r, answer),
         \/ UNCHANGED idem /\ (answer.code = "ok" => ~Keyed(call[r]))
         \/ IdemStore(call[r], answer) /\ call[r].action \in KeyedActions
  PROVE  KeysHeld'
  <1>1. call[r] \in Calls /\ \A q \in Requests : InFlight(q) => call[q] \in Calls
    BY DEF CallsKnown, InFlight
  <1>2. \A q \in Requests : pc'[q] \in {"started", "locked"} => q # r /\ InFlight(q)
    BY AnswerFrame DEF InFlight
  <1>3. \A k \in IdemScopes :
          idem'[k] # idem[k] =>
            /\ Keyed(call[r]) /\ k = IdemScope(call[r])
            /\ idem[k] = None /\ idem'[k] = answer
    BY <1>1, IdemStoreFrame DEF Keyed
  <1>4. \A q \in Requests : call[q] \in Calls /\ Keyed(call[q]) => IdemScope(call[q]) \in IdemScopes
    BY ScopeOf DEF Keyed
  <1>5. ASSUME NEW q \in Requests, q # r, InFlight(q), Keyed(call[q])
        PROVE  idem'[IdemScope(call[q])] = None
    BY <1>1, <1>3, <1>4, <1>5 DEF KeysHeld
  <1>6. ASSUME NEW q \in Requests, q # r, DidIt(q), Keyed(call[q])
        PROVE  idem'[IdemScope(call[q])] = reply[q]
    <2>1. idem[IdemScope(call[q])] = reply[q] /\ reply[q] # None
      BY <1>6 DEF KeysHeld, DidIt
    <2>2. call[q] \in Calls
      BY <2>1 DEF BodiesHaveOrigins, CallsKnown
    <2> QED
      BY <1>3, <1>4, <1>6, <2>1, <2>2
  <1>7. ASSUME answer.code = "ok", Keyed(call[r])
        PROVE  idem'[IdemScope(call[r])] = answer
    <2>1. IdemStore(call[r], answer) /\ IdemScope(call[r]) \in IdemScopes
      BY <1>1, <1>4, <1>7
    <2>2. Cached(call[r]) = None
      BY <1>1, <1>7, ScopeOf DEF KeysHeld, Keyed
    <2> QED
      BY <1>7, <2>1, <2>2 DEF IdemStore, Keyed, TypeOK
  <1>8. /\ reply'[r] = answer /\ call' = call
        /\ \A q \in Requests \ {r} : reply'[q] = reply[q] /\ pc'[q] = pc[q]
    BY AnswerFrame
  <1>9. \A q \in Requests : pc'[q] \in {"started", "locked"} /\ Keyed(call'[q])
                           => idem'[IdemScope(call'[q])] = None
    BY <1>2, <1>5, <1>8
  <1>10. ASSUME NEW q \in Requests, NEW p \in Requests, q # p,
                pc'[q] \in {"started", "locked"}, pc'[p] \in {"started", "locked"},
                Keyed(call'[q])
         PROVE  IdemScope(call'[q]) # IdemScope(call'[p])
    <2>1. InFlight(q) /\ InFlight(p) /\ call'[q] = call[q] /\ call'[p] = call[p]
      BY <1>2, <1>8, <1>10
    <2> QED
      BY <1>10, <2>1 DEF KeysHeld
  <1>11. \A q \in Requests :
           (reply'[q] # None /\ reply'[q].code = "ok" /\ reply'[q].origin = q
              /\ Keyed(call'[q]))
             => idem'[IdemScope(call'[q])] = reply'[q]
    BY <1>6, <1>7, <1>8 DEF DidIt
  <1> QED
    BY <1>9, <1>10, <1>11 DEF KeysHeld, InFlight, DidIt, Keyed, IdemScope

\* A request that starts keeps the keys held, if its client waited for the
\* requests it had under way.
LEMMA KeysSubmit ==
  ASSUME TypeOK, CallsKnown, BodiesHaveOrigins, KeysHeld, OverlappingRetries = FALSE,
         NEW r \in Requests, NEW c \in Calls, Submit(r, c),
         \/ \E answer : AnswerAtOnce(r, answer) /\ answer.origin = None
         \/ Cached(c) # None /\ AnswerAtOnce(r, Cached(c))
         \/ Cached(c) = None /\ UNCHANGED reply /\ pc' = [pc EXCEPT ![r] = "started"]
  PROVE  KeysHeld'
  <1>1. /\ reply[r] = None /\ call'[r] = c /\ UNCHANGED idem
        /\ \A q \in Requests \ {r} :
             call'[q] = call[q] /\ reply'[q] = reply[q] /\ pc'[q] = pc[q]
    BY SubmitFrame DEF TypeOK, AnswerAtOnce
  <1>2. \A q \in Requests : InFlight(q) /\ Keyed(c) => IdemScope(call[q]) # IdemScope(c)
    BY DEF Submit, ClientSends, Keyed
  <1>3. CASE Cached(c) = None /\ UNCHANGED reply /\ pc' = [pc EXCEPT ![r] = "started"]
    <2>1. Keyed(c) => idem[IdemScope(c)] = None
      BY <1>3, ScopeOf DEF Keyed
    <2>2. \A q \in Requests \ {r} : InFlight(q) /\ Keyed(call[q]) /\ ~Keyed(c)
                                   => IdemScope(call[q]) # IdemScope(c)
      BY DEF Keyed, IdemScope
    <2>3. reply'[r] = None
      BY <1>1, <1>3
    <2> QED
      BY <1>1, <1>2, <2>1, <2>2, <2>3 DEF KeysHeld, InFlight, DidIt, Keyed, IdemScope
  <1>4. CASE \E answer : AnswerAtOnce(r, answer) /\ answer.origin = None
    <2>1. pc'[r] = "done" /\ reply'[r].origin = None
      BY <1>4 DEF AnswerAtOnce, TypeOK
    <2> QED
      BY <1>1, <2>1, NoneAssumption DEF KeysHeld, InFlight, DidIt, Keyed, IdemScope
  <1>5. CASE Cached(c) # None /\ AnswerAtOnce(r, Cached(c))
    <2>1. pc'[r] = "done" /\ reply'[r] = Cached(c)
      BY <1>5 DEF AnswerAtOnce, TypeOK
    <2>2. Keyed(c) /\ Cached(c) = idem[IdemScope(c)] /\ IdemScope(c) \in IdemScopes
      BY <1>5, ScopeOf DEF Cached, Keyed
    <2>3. reply'[r].origin # r
      BY <1>5, <2>1, <2>2, SubmitFrame
    <2> QED
      BY <1>1, <2>1, <2>3 DEF KeysHeld, InFlight, DidIt, Keyed, IdemScope
  <1> QED
    BY <1>3, <1>4, <1>5

\* Every step keeps the keys held.
LEMMA KeysStep ==
  ASSUME TypeOK, CallsKnown, BodiesHaveOrigins, KeysHeld, [Next]_vars,
         OverlappingRetries = FALSE, "database" \notin IndexFaults
  PROVE  KeysHeld'
  <1>1. CASE UNCHANGED vars
    BY <1>1 DEF KeysHeld, InFlight, DidIt, Keyed, IdemScope, vars, tables
  <1>2. \A code, row, origin :
          Answer(code, row, origin).origin = origin /\ Answer(code, row, origin).code = code
    BY DEF Answer
  <1>3. \A r \in Requests : ~ResolveAborted(r)
    BY DEF ResolveAborted
  <1>4. ASSUME NEW r \in Requests, NEW code \in Codes, NEW row \in CaseRow \cup {None},
               NEW origin \in Requests \cup {None},
               InFlight(r), Finish(r, Answer(code, row, origin)),
               \/ UNCHANGED idem /\ (code = "ok" => ~Keyed(call[r]))
               \/ IdemStore(call[r], Answer(code, row, origin)) /\ call[r].action \in KeyedActions
        PROVE  KeysHeld'
    BY <1>2, <1>4, AnswerType, KeysFinish
  <1>5. ASSUME NEW r \in Requests, pc[r] = "locked",
               Finish(r, Answer("ok", UpdatedRow(r), r)),
               IdemStore(call[r], Answer("ok", UpdatedRow(r), r))
        PROVE  KeysHeld'
    <2>1. /\ InFlight(r) /\ call[r].action \in KeyedActions
          /\ UpdatedRow(r) \in CaseRow /\ "ok" \in Codes
      BY <1>5, UpdatedRowType DEF CallsKnown, InFlight, KeyedActions, Codes
    <2> QED
      BY <1>4, <1>5, <2>1
  <1>6. ASSUME NEW r \in Requests, pc[r] = "started", call[r].action \in {"note", "review"},
               Finish(r, Answer("ok", None, r)), IdemStore(call[r], Answer("ok", None, r))
        PROVE  KeysHeld'
    BY <1>4, <1>6 DEF InFlight, KeyedActions, Codes
  <1>7. ASSUME NEW r \in Requests, NEW row \in CaseRow, pc[r] = "started",
               call[r].action = "open", Finish(r, Answer("ok", row, r)), UNCHANGED idem
        PROVE  KeysHeld'
    BY <1>4, <1>7 DEF InFlight, Keyed, KeyedActions, LockingActions, StatusActions, Codes
  <1>8. ASSUME NEW r \in Requests, InFlight(r), pc' = [pc EXCEPT ![r] = "locked"],
               UNCHANGED <<call, reply, idem>>
        PROVE  KeysHeld'
    BY <1>8 DEF KeysHeld, InFlight, DidIt, Keyed, IdemScope, TypeOK
  <1>9. ASSUME NEW r \in Requests, NEW c \in Calls, Submit(r, c),
               \/ AnswerAtOnce(r, Answer("forbidden", None, None))
               \/ AnswerAtOnce(r, Answer("existing", cases[c.alert], None))
               \/ Cached(c) # None /\ AnswerAtOnce(r, Cached(c))
               \/ Cached(c) = None /\ UNCHANGED reply /\ pc' = [pc EXCEPT ![r] = "started"]
        PROVE  KeysHeld'
    <2>1. ASSUME NEW answer, AnswerAtOnce(r, answer), answer.origin = None
          PROVE  KeysHeld'
      BY <1>9, <2>1, KeysSubmit
    <2>2. CASE \/ AnswerAtOnce(r, Answer("forbidden", None, None))
               \/ AnswerAtOnce(r, Answer("existing", cases[c.alert], None))
      BY <1>2, <2>1, <2>2
    <2>3. CASE \/ Cached(c) # None /\ AnswerAtOnce(r, Cached(c))
               \/ Cached(c) = None /\ UNCHANGED reply /\ pc' = [pc EXCEPT ![r] = "started"]
      BY <1>9, <2>3, KeysSubmit
    <2> QED
      BY <1>9, <2>2, <2>3
  <1>10. ASSUME NEW r \in Requests, NEW code \in Codes \ {"ok", "forbidden"},
                NEW row \in CaseRow \cup {None},
                InFlight(r), Finish(r, Answer(code, row, None)), UNCHANGED idem
         PROVE  KeysHeld'
    BY <1>4, <1>10
  <1>11. ASSUME NEW r \in Requests, NEW c \in Calls, Submit(r, c),
                \/ AnswerAtOnce(r, Answer("forbidden", None, None))
                \/ c.action = "open" /\ AnswerAtOnce(r, Answer("existing", cases[c.alert], None))
                \/ Cached(c) # None /\ AnswerAtOnce(r, Cached(c))
                \/ /\ Cached(c) = None /\ UNCHANGED reply
                   /\ pc' = [pc EXCEPT ![r] = "started"]
         PROVE  KeysHeld'
    BY <1>9, <1>11
  <1>12. CASE Next
    BY <1>1, <1>3, <1>5, <1>6, <1>7, <1>8, <1>10, <1>11, <1>12, StepKinds
  <1> QED
    BY <1>1, <1>12

\* Of the requests made under one idempotency key, for one action on one
\* case, at most one does the work, provided that a client never has two of
\* them under way and that indexing statements never fail: the run
\* case_overlapping_retry shows that the first condition is needed.
THEOREM KeySpentOnce ==
  ASSUME OverlappingRetries = FALSE, "database" \notin IndexFaults
  PROVE  Spec => []AtMostOncePerKey
  <1>1. Init => KeysHeld
    BY DEF Init, KeysHeld, InFlight, DidIt
  <1>2. TypeOK /\ CallsKnown /\ BodiesHaveOrigins /\ KeysHeld /\ [Next]_vars => KeysHeld'
    BY KeysStep
  <1>3. KeysHeld => AtMostOncePerKey
    <2> SUFFICES ASSUME KeysHeld, NEW r \in Requests, NEW q \in Requests, r # q,
                        DidIt(r), DidIt(q), Keyed(call[r]),
                        IdemScope(call[r]) = IdemScope(call[q])
                 PROVE  FALSE
      BY DEF AtMostOncePerKey, Keyed
    <2>1. Keyed(call[q])
      BY DEF Keyed, IdemScope
    <2>2. idem[IdemScope(call[r])] = reply[r] /\ idem[IdemScope(call[q])] = reply[q]
      BY <2>1 DEF KeysHeld
    <2> QED
      BY <2>2 DEF DidIt
  <1> QED
    BY <1>1, <1>2, <1>3, TypeCorrect, RequestsKnowTheirCalls, OriginsKnown, PTL DEF Spec

-----------------------------------------------------------------------------
(* The version and the owner of a case against its child tables.           *)

\* The escalations of a history are finitely many.
LEMMA EscalationsFinite ==
  ASSUME NEW h \in Seq(StatusChange)
  PROVE  IsFiniteSet(Escalations(h)) /\ Cardinality(Escalations(h)) \in Nat
  <1>1. IsFiniteSet(1..Len(h))
    BY FS_Interval
  <1>2. Escalations(h) \subseteq 1..Len(h)
    BY DEF Escalations
  <1> QED
    BY <1>1, <1>2, FS_Subset, FS_CardinalityType

\* Appending a status row counts it if it is an escalation.
LEMMA EscalationsAppend ==
  ASSUME NEW h \in Seq(StatusChange), NEW e \in StatusChange
  PROVE  Cardinality(Escalations(Append(h, e)))
           = Cardinality(Escalations(h)) + (IF e.to = "escalated" THEN 1 ELSE 0)
  <1> DEFINE n == Len(h) + 1
  <1>1. /\ Len(h) \in Nat /\ Len(Append(h, e)) = n /\ Append(h, e)[n] = e
        /\ \A i \in 1..Len(h) : Append(h, e)[i] = h[i]
    OBVIOUS
  <1>2. n \notin Escalations(h)
    BY <1>1 DEF Escalations
  <1>3. CASE e.to = "escalated"
    <2>1. Escalations(Append(h, e)) = Escalations(h) \cup {n}
      BY <1>1, <1>3 DEF Escalations
    <2> QED
      BY <1>2, <1>3, <2>1, EscalationsFinite, FS_AddElement
  <1>4. CASE e.to # "escalated"
    <2>1. Escalations(Append(h, e)) = Escalations(h)
      BY <1>1, <1>4 DEF Escalations
    <2> QED
      BY <1>4, <2>1, EscalationsFinite
  <1> QED
    BY <1>3, <1>4

\* What a case owes its child tables: nothing before it exists; then its
\* version counts its writes and its owner is the last role it was routed to.
Accounted(a) ==
  /\ cases[a] = None => assignments[a] = <<>>
  /\ cases[a] # None =>
       /\ assignments[a] # <<>>
       /\ cases[a].version + 1 + Cardinality(Escalations(history[a]))
            = Len(history[a]) + Len(assignments[a])
       /\ cases[a].owner = assignments[a][Len(assignments[a])].role
       /\ [role |-> assignments[a][Len(assignments[a])].role,
            by |-> assignments[a][Len(assignments[a])].by] \in notifications[a]

\* What an update writes into the child tables of its case: a status change
\* one status row, an escalation an assignment too, an assignment just that.
LEMMA UpdateWrites ==
  ASSUME TypeOK, CallsKnown, SnapshotIsCurrent, NEW r \in Requests,
         Acknowledge(r) \/ Escalate(r) \/ Resolve(r) \/ Assign(r)
  PROVE  LET a == call[r].alert
             StatusRow == \E e \in StatusChange :
                            /\ e.to = "escalated" <=> call[r].action = "escalate"
                            /\ history'[a] = Append(history[a], e)
         IN /\ pc[r] = "locked" /\ CommitUpdate(r)
            /\ \/ /\ call[r].action \in {"acknowledge", "resolve"}
                  /\ StatusRow /\ UpdatedRow(r).owner = seen[r].owner
                  /\ UNCHANGED <<assignments, notifications>>
               \/ /\ call[r].action \in {"escalate", "assign"}
                  /\ IF call[r].action = "escalate" THEN StatusRow ELSE UNCHANGED history
                  /\ UpdatedRow(r).owner = call[r].role
                  /\ WriteAssignment(r, call[r].role) /\ Notify(r, call[r].role)
            /\ \A b \in Alerts \ {a} : history'[b] = history[b]
  <1> DEFINE a == call[r].alert
  <1>1. /\ pc[r] = "locked" /\ CommitUpdate(r)
        /\ call[r].action \in {"acknowledge", "escalate", "resolve", "assign"}
    BY DEF Acknowledge, Escalate, Resolve, Assign, Holds, ApplyStatusChange
  <1>2. a \in Alerts /\ seen[r] \in CaseRow
    BY <1>1, CallFields DEF CallsKnown
  <1>3. ASSUME call[r].action \in StatusActions,
               WriteHistory(r, seen[r].status, ToStatus(call[r].action))
        PROVE  /\ \E e \in StatusChange :
                    /\ e.to = "escalated" <=> call[r].action = "escalate"
                    /\ history'[a] = Append(history[a], e)
               /\ \A b \in Alerts \ {a} : history'[b] = history[b]
    <2> DEFINE e == [from |-> seen[r].status, to |-> ToStatus(call[r].action),
                     at |-> startedAt[r], by |-> r]
    <2>1. e \in StatusChange
      BY <1>2, <1>3, ToStatusType DEF StatusChange, CaseRow, TypeOK
    <2>2. e.to = "escalated" <=> call[r].action = "escalate"
      BY <1>3 DEF ToStatus, StatusActions
    <2>3. /\ history'[a] = Append(history[a], e)
          /\ \A b \in Alerts \ {a} : history'[b] = history[b]
      BY <1>2, <1>3 DEF WriteHistory, TypeOK
    <2> QED
      BY <2>1, <2>2, <2>3
  <1>4. CASE Acknowledge(r) \/ Resolve(r)
    BY <1>1, <1>3, <1>4
       DEF Acknowledge, Resolve, Holds, ApplyStatusChange, UpdatedRow, NewOwner, StatusActions
  <1>5. CASE Escalate(r)
    BY <1>1, <1>3, <1>5
       DEF Escalate, Holds, ApplyStatusChange, UpdatedRow, NewOwner, StatusActions
  <1>6. CASE Assign(r)
    BY <1>1, <1>6 DEF Assign, Holds, UpdatedRow, NewOwner
  <1> QED
    BY <1>4, <1>5, <1>6

\* A case whose row and child tables are left alone stays accounted for.
LEMMA AccountedFrame ==
  ASSUME NEW a \in Alerts, Accounted(a),
         cases'[a] = cases[a], history'[a] = history[a],
         assignments'[a] = assignments[a], notifications'[a] = notifications[a]
  PROVE  Accounted(a)'
  BY DEF Accounted

\* An update keeps its case accounted for.
LEMMA AccountedUpdate ==
  ASSUME TypeOK, CallsKnown, SnapshotIsCurrent, NEW r \in Requests,
         Acknowledge(r) \/ Escalate(r) \/ Resolve(r) \/ Assign(r),
         Accounted(call[r].alert)
  PROVE  Accounted(call[r].alert)'
  <1> DEFINE a == call[r].alert
             h == history[a]
             s == assignments[a]
             next == [role |-> call[r].role, by |-> r]
  <1>1. /\ pc[r] = "locked" /\ CommitUpdate(r) /\ call[r] \in Calls /\ a \in Alerts
        /\ call[r].role \in Roles /\ call' = call
    BY UpdateWrites, CallFields DEF CallsKnown, CommitUpdate, Finish
  <1>2. /\ cases[a] = seen[r] /\ cases[a] # None
        /\ cases'[a] = UpdatedRow(r) /\ cases'[a] # None
        /\ cases'[a].version = cases[a].version + 1 /\ cases[a].version \in Nat
    BY <1>1, CommitUpdateRow, NoneAssumption DEF CaseRow
  <1>3. /\ s \in Seq(Assignment) /\ s # <<>> /\ h \in Seq(StatusChange)
        /\ cases[a].version + 1 + Cardinality(Escalations(h)) = Len(h) + Len(s)
        /\ Cardinality(Escalations(h)) \in Nat /\ Len(h) \in Nat /\ Len(s) \in Nat
    BY <1>1, <1>2, EscalationsFinite DEF Accounted, TypeOK
  <1> DEFINE v == cases[a].version
             n == Cardinality(Escalations(h))
  <1>4. /\ (v + 1) + 1 + n = (Len(h) + 1) + Len(s)
        /\ \A k \in Nat : (v + 1) + 1 + (n + k) = (Len(h) + k) + (Len(s) + 1)
    <2> DEFINE p == Len(h)
               q == Len(s)
    <2>1. v \in Nat /\ n \in Nat /\ p \in Nat /\ q \in Nat /\ v + 1 + n = p + q
      BY <1>2, <1>3
    <2> HIDE DEF v, n, p, q
    <2>2. (v + 1) + 1 + n = (p + 1) + q
      BY <2>1
    <2>3. \A k \in Nat : (v + 1) + 1 + (n + k) = (p + k) + (q + 1)
      BY <2>1
    <2> QED
      BY <2>2, <2>3 DEF p, q
  <1>5. ASSUME NEW e \in StatusChange, history'[a] = Append(h, e)
        PROVE  /\ Len(history'[a]) = Len(h) + 1
               /\ Cardinality(Escalations(history'[a]))
                    = Cardinality(Escalations(h)) + (IF e.to = "escalated" THEN 1 ELSE 0)
    BY <1>3, <1>5, EscalationsAppend
  <1>6. CASE /\ call[r].action \in {"acknowledge", "resolve"}
             /\ \E e \in StatusChange :
                  /\ e.to = "escalated" <=> call[r].action = "escalate"
                  /\ history'[a] = Append(h, e)
             /\ UpdatedRow(r).owner = seen[r].owner
             /\ UNCHANGED <<assignments, notifications>>
    <2>1. /\ Len(history'[a]) = Len(h) + 1
          /\ Cardinality(Escalations(history'[a])) = Cardinality(Escalations(h))
      BY <1>3, <1>5, <1>6
    <2>2. cases'[a].version + 1 + Cardinality(Escalations(history'[a]))
            = Len(history'[a]) + Len(assignments'[a])
      <3>1. assignments'[a] = s
        BY <1>6
      <3>2. (cases[a].version + 1) + 1 + Cardinality(Escalations(h)) = (Len(h) + 1) + Len(s)
        BY <1>4
      <3>3. cases'[a].version = cases[a].version + 1
        BY <1>2
      <3> QED
        BY <2>1, <3>1, <3>2, <3>3
    <2> QED
      BY <1>1, <1>2, <1>3, <1>6, <2>2 DEF Accounted
  <1>7. CASE /\ call[r].action \in {"escalate", "assign"}
             /\ IF call[r].action = "escalate"
                THEN \E e \in StatusChange :
                       /\ e.to = "escalated" <=> call[r].action = "escalate"
                       /\ history'[a] = Append(h, e)
                ELSE UNCHANGED history
             /\ UpdatedRow(r).owner = call[r].role
             /\ WriteAssignment(r, call[r].role) /\ Notify(r, call[r].role)
    <2> DEFINE k == IF call[r].action = "escalate" THEN 1 ELSE 0
    <2>1. /\ Len(history'[a]) = Len(h) + k
          /\ Cardinality(Escalations(history'[a])) = Cardinality(Escalations(h)) + k
      <3>1. CASE call[r].action = "escalate"
        BY <1>3, <1>5, <1>7, <3>1
      <3>2. CASE call[r].action # "escalate"
        BY <1>3, <1>7, <3>2
      <3> QED
        BY <3>1, <3>2
    <2>2. assignments'[a] = Append(s, next) /\ next \in Assignment
      BY <1>1, <1>7 DEF WriteAssignment, TypeOK, Assignment
    <2>3. /\ Len(assignments'[a]) = Len(s) + 1 /\ assignments'[a] # <<>>
          /\ assignments'[a][Len(assignments'[a])] = next
      <3> HIDE DEF next
      <3>1. /\ Len(Append(s, next)) = Len(s) + 1 /\ Append(s, next) # <<>>
            /\ Append(s, next)[Len(s) + 1] = next
        BY <1>3
      <3> QED
        BY <2>2, <3>1
    <2>4. cases'[a].version + 1 + Cardinality(Escalations(history'[a]))
            = Len(history'[a]) + Len(assignments'[a])
      <3>1. k \in Nat
        OBVIOUS
      <3> HIDE DEF k
      <3> QED
        <4>1. (cases[a].version + 1) + 1 + (Cardinality(Escalations(h)) + k)
                = (Len(h) + k) + (Len(s) + 1)
          BY <1>4, <3>1
        <4>2. cases'[a].version = cases[a].version + 1
          BY <1>2
        <4> QED
          BY <2>1, <2>3, <4>1, <4>2
    <2>5. next \in notifications'[a]
      BY <1>1, <1>7 DEF Notify, TypeOK
    <2>6. cases'[a].owner = next.role
      BY <1>2, <1>7
    <2> QED
      BY <1>1, <1>2, <2>3, <2>4, <2>5, <2>6 DEF Accounted
  <1> QED
    BY <1>6, <1>7, UpdateWrites

\* Every step keeps every case accounted for.
LEMMA AccountedStep ==
  ASSUME TypeOK, CallsKnown, SnapshotIsCurrent, HistoryExplainsStatus,
         \A a \in Alerts : Accounted(a), [Next]_vars
  PROVE  \A a \in Alerts : Accounted(a)'
  <1>1. ASSUME UNCHANGED <<cases, history, assignments, notifications>>
        PROVE  \A a \in Alerts : Accounted(a)'
    BY <1>1, AccountedFrame
  <1>2. ASSUME NEW r \in Requests,
               Acknowledge(r) \/ Escalate(r) \/ Resolve(r) \/ Assign(r)
        PROVE  \A a \in Alerts : Accounted(a)'
    <2>1. pc[r] = "locked" /\ CommitUpdate(r) /\ call[r].alert \in Alerts
      BY <1>2, UpdateWrites, CallFields DEF CallsKnown
    <2>2. \A b \in Alerts \ {call[r].alert} :
            cases'[b] = cases[b] /\ history'[b] = history[b]
      BY <1>2, <2>1, CommitUpdateRow, UpdateWrites
    <2>3. \A b \in Alerts \ {call[r].alert} :
            assignments'[b] = assignments[b] /\ notifications'[b] = notifications[b]
      <3>1. \/ UNCHANGED <<assignments, notifications>>
            \/ WriteAssignment(r, call[r].role) /\ Notify(r, call[r].role)
        BY <1>2, UpdateWrites
      <3> QED
        BY <3>1 DEF WriteAssignment, Notify, TypeOK
    <2>4. Accounted(call[r].alert)'
      BY <1>2, <2>1, AccountedUpdate
    <2>5. ASSUME NEW b \in Alerts, b # call[r].alert
          PROVE  Accounted(b)'
      BY <2>2, <2>3, <2>5, AccountedFrame
    <2>6. call'[r] = call[r]
      BY <2>1 DEF CommitUpdate, Finish
    <2> QED
      BY <2>4, <2>5, <2>6 DEF Accounted
  <1>3. ASSUME NEW r \in Requests, InsertCase(r)
        PROVE  \A a \in Alerts : Accounted(a)'
    <2> DEFINE a == call[r].alert
               e == [role |-> RoutedTo[a], by |-> r]
               h == [from |-> None, to |-> "open", at |-> startedAt[r], by |-> r]
    <2>1. /\ a \in Alerts /\ cases[a] = None /\ assignments[a] = <<>> /\ history[a] = <<>>
      BY <1>3, InsertCaseRow DEF HistoryExplainsStatus, Explains, Accounted
    <2>2. /\ cases'[a] # None /\ cases'[a].version = 1 /\ cases'[a].owner = RoutedTo[a]
      BY <1>3, <2>1, InsertCaseRow DEF InsertCase, TypeOK
    <2>3. history'[a] = <<h>> /\ assignments'[a] = <<e>>
      BY <1>3, <2>1 DEF InsertCase, WriteHistory, WriteAssignment, TypeOK
    <2>4. [role |-> RoutedTo[a], by |-> r] \in notifications'[a]
      BY <1>3, <2>1 DEF InsertCase, Notify, TypeOK
    <2>5. Escalations(history'[a]) = {}
      BY <2>3 DEF Escalations
    <2>6. Cardinality(Escalations(history'[a])) = 0
      BY <2>5, FS_EmptySet
    <2>7. ASSUME NEW b \in Alerts, b = a
          PROVE  Accounted(b)'
      <3>1. /\ Len(history'[b]) = 1 /\ Len(assignments'[b]) = 1 /\ assignments'[b] # <<>>
            /\ assignments'[b][Len(assignments'[b])].role = RoutedTo[a]
            /\ assignments'[b][Len(assignments'[b])].by = r
        <4> HIDE DEF h
        <4>1. Len(history'[b]) = 1
          BY <2>3, <2>7
        <4>2. assignments'[b] = <<e>> /\ <<e>> # <<>> /\ Len(<<e>>) = 1 /\ <<e>>[1] = e
          BY <2>3, <2>7
        <4>3. e.role = RoutedTo[a] /\ e.by = r
          OBVIOUS
        <4> HIDE DEF e
        <4> QED
          BY <4>1, <4>2, <4>3
      <3>2. /\ cases'[b].version + 1 + Cardinality(Escalations(history'[b]))
                 = Len(history'[b]) + Len(assignments'[b])
            /\ cases'[b].owner = RoutedTo[a] /\ cases'[b] # None
            /\ [role |-> RoutedTo[a], by |-> r] \in notifications'[b]
        BY <2>2, <2>4, <2>6, <2>7, <3>1
      <3> QED
        BY <3>1, <3>2 DEF Accounted
    <2>8. ASSUME NEW b \in Alerts, b # a
          PROVE  Accounted(b)'
      <3>1. cases'[b] = cases[b]
        BY <1>3, <2>8, InsertCaseRow
      <3>2. /\ history'[b] = history[b] /\ assignments'[b] = assignments[b]
            /\ notifications'[b] = notifications[b]
        BY <1>3, <2>8 DEF InsertCase, WriteHistory, WriteAssignment, Notify, TypeOK
      <3> QED
        BY <3>1, <3>2, AccountedFrame
    <2> QED
      BY <2>7, <2>8
  <1>4. ASSUME NEW r \in Requests, Serve(r) \/ Abort(r)
        PROVE  \A a \in Alerts : Accounted(a)'
    BY <1>1, <1>2, <1>3, <1>4
       DEF Serve, Refuse, LockRow, ResolveAborted, Abort, AddNote, AddReview, AddEntry,
           tables
  <1>5. ASSUME NEW r \in Requests, NEW c \in Calls,
               Forbid(r, c) \/ Replay(r, c) \/ OpenExisting(r, c) \/ Begin(r, c)
        PROVE  \A a \in Alerts : Accounted(a)'
    BY <1>1, <1>5 DEF Forbid, Replay, OpenExisting, Begin, Submit, tables
  <1>6. CASE UNCHANGED vars
    BY <1>1, <1>6 DEF vars, tables
  <1> QED
    BY <1>4, <1>5, <1>6 DEF Next, Quiescent

CasesAccounted == \A a \in Alerts : Accounted(a)

\* Every case is accounted for by its child tables, at all times.
THEOREM CasesStayAccounted == Spec => []CasesAccounted
  <1>1. Init => CasesAccounted
    BY DEF Init, CasesAccounted, Accounted
  <1>2. TypeOK /\ CallsKnown /\ SnapshotIsCurrent /\ HistoryExplainsStatus /\ CasesAccounted
          /\ [Next]_vars => CasesAccounted'
    BY AccountedStep DEF CasesAccounted
  <1> QED
    BY <1>1, <1>2, TypeCorrect, RequestsKnowTheirCalls, SnapshotCurrent,
       HistoryExplained, PTL DEF Spec

\* No update of a case is lost (_apply_status_change, assign, open_case).
THEOREM NoLostUpdate == Spec => []VersionCountsWrites
  <1>1. CasesAccounted => VersionCountsWrites
    BY DEF CasesAccounted, Accounted, VersionCountsWrites
  <1> QED
    BY <1>1, CasesStayAccounted, PTL

\* The owner of a case is the role it was last assigned to, which was told so.
THEOREM OwnerTraced == Spec => []OwnerIsLastAssignee
  <1>1. CasesAccounted => OwnerIsLastAssignee
    BY DEF CasesAccounted, Accounted, OwnerIsLastAssignee
  <1> QED
    BY <1>1, CasesStayAccounted, PTL

-----------------------------------------------------------------------------
(* Optimistic concurrency: what a caller's expected_version guarantees.     *)

\* A request that gets no answer of its own leaves the property as it is.
LEMMA ExpectedFrame ==
  ASSUME ExpectedVersionHonoured, NEW r \in Requests,
         \A q \in Requests \ {r} : reply'[q] = reply[q] /\ call'[q] = call[q],
         (reply'[r] # None /\ reply'[r].code = "ok" /\ reply'[r].origin = r
            /\ call'[r].action \in LockingActions /\ call'[r].expected # None)
           => reply'[r].row.version = call'[r].expected + 1
  PROVE  ExpectedVersionHonoured'
  BY DEF ExpectedVersionHonoured, DidIt

\* A locked request answers with the version after the one it was told to expect.
LEMMA ExpectedCommit ==
  ASSUME TypeOK, CallsKnown, SnapshotIsCurrent, ExpectedVersionHonoured,
         NEW r \in Requests, pc[r] = "locked", Finish(r, Answer("ok", UpdatedRow(r), r))
  PROVE  ExpectedVersionHonoured'
  <1>1. /\ call[r] \in Calls /\ call[r].action \in LockingActions /\ seen[r] \in CaseRow
        /\ Verdict(call[r], seen[r]) = "ok"
    BY DEF CallsKnown, SnapshotIsCurrent
  <1>2. call[r].expected # None => call[r].expected = seen[r].version
    BY <1>1 DEF Verdict
  <1>3. Answer("ok", UpdatedRow(r), r).row.version = seen[r].version + 1
    BY <1>1, UpdatedRowType DEF Answer
  <1> QED
    BY <1>2, <1>3, AnswerFrame, ExpectedFrame

\* Every step honours the expected versions.
LEMMA ExpectedStep ==
  ASSUME TypeOK, CallsKnown, SnapshotIsCurrent, BodiesHaveOrigins, ExpectedVersionHonoured,
         [Next]_vars
  PROVE  ExpectedVersionHonoured'
  <1>1. \A code, row, origin :
          Answer(code, row, origin).origin = origin /\ Answer(code, row, origin).code = code
    BY DEF Answer
  <1>2. ASSUME UNCHANGED <<call, reply>>
        PROVE  ExpectedVersionHonoured'
    BY <1>2 DEF ExpectedVersionHonoured, DidIt
  <1>3. ASSUME NEW r \in Requests, NEW answer, Finish(r, answer),
               answer.code # "ok" \/ call[r].action \notin LockingActions
        PROVE  ExpectedVersionHonoured'
    BY <1>3, AnswerFrame, ExpectedFrame
  <1>4. ASSUME NEW r \in Requests, ResolveAborted(r)
        PROVE  ExpectedVersionHonoured'
    BY <1>4, ExpectedCommit DEF ResolveAborted, Holds
  <1>5. ASSUME NEW r \in Requests, NEW c \in Calls, Submit(r, c),
               \/ \E answer : AnswerAtOnce(r, answer) /\ answer.origin = None
               \/ Cached(c) # None /\ AnswerAtOnce(r, Cached(c))
               \/ UNCHANGED reply
        PROVE  ExpectedVersionHonoured'
    <2>1. \A q \in Requests \ {r} : reply'[q] = reply[q] /\ call'[q] = call[q]
      BY <1>5, SubmitFrame DEF TypeOK, AnswerAtOnce
    <2>2. CASE UNCHANGED reply
      BY <1>5, <2>1, <2>2, SubmitFrame, ExpectedFrame
    <2>3. CASE \E answer : AnswerAtOnce(r, answer) /\ answer.origin = None
      <3>1. reply'[r].origin # r
        BY <2>3, NoneAssumption DEF AnswerAtOnce, TypeOK
      <3> QED
        BY <2>1, <3>1, ExpectedFrame
    <2>4. CASE Cached(c) # None /\ AnswerAtOnce(r, Cached(c))
      <3>1. /\ reply'[r] = idem[IdemScope(c)] /\ idem[IdemScope(c)] # None
            /\ IdemScope(c) \in IdemScopes
        BY <2>4, ScopeOf DEF AnswerAtOnce, TypeOK, Cached
      <3>2. reply'[r].origin # r
        BY <1>5, <3>1, SubmitFrame
      <3> QED
        BY <2>1, <3>2, ExpectedFrame
    <2> QED
      BY <1>5, <2>2, <2>3, <2>4
  <1>6. ASSUME NEW r \in Requests, NEW c \in Calls, Submit(r, c),
               \/ AnswerAtOnce(r, Answer("forbidden", None, None))
               \/ c.action = "open" /\ AnswerAtOnce(r, Answer("existing", cases[c.alert], None))
               \/ Cached(c) # None /\ AnswerAtOnce(r, Cached(c))
               \/ /\ Cached(c) = None /\ UNCHANGED reply
                  /\ pc' = [pc EXCEPT ![r] = "started"]
        PROVE  ExpectedVersionHonoured'
    <2>1. ASSUME NEW answer, AnswerAtOnce(r, answer), answer.origin = None
          PROVE  ExpectedVersionHonoured'
      BY <1>5, <1>6, <2>1
    <2> QED
      BY <1>1, <1>5, <1>6, <2>1
  <1>7. ASSUME NEW r \in Requests, NEW code \in Codes \ {"ok", "forbidden"},
               NEW row \in CaseRow \cup {None},
               Finish(r, Answer(code, row, None))
        PROVE  ExpectedVersionHonoured'
    BY <1>1, <1>3, <1>7
  <1>8. ASSUME NEW r \in Requests, NEW row, Finish(r, Answer("ok", row, r)),
               call[r].action \in {"note", "review", "open"}
        PROVE  ExpectedVersionHonoured'
    BY <1>3, <1>8 DEF LockingActions, StatusActions
  <1>9. CASE UNCHANGED vars
    BY <1>2, <1>9 DEF vars
  <1>10. CASE Next
    BY <1>2, <1>4, <1>6, <1>7, <1>8, <1>9, <1>10, StepKinds, ExpectedCommit
  <1> QED
    BY <1>9, <1>10

\* "A stale version returns 409" (docs/api-reference.md): a write whose caller
\* named a version was done on that version of the case and on no later one.
THEOREM StaleVersionsRefused == Spec => []ExpectedVersionHonoured
  <1>1. Init => ExpectedVersionHonoured
    BY DEF Init, ExpectedVersionHonoured, DidIt
  <1>2. TypeOK /\ CallsKnown /\ SnapshotIsCurrent /\ BodiesHaveOrigins
          /\ ExpectedVersionHonoured /\ [Next]_vars => ExpectedVersionHonoured'
    BY ExpectedStep
  <1> QED
    BY <1>1, <1>2, TypeCorrect, RequestsKnowTheirCalls, SnapshotCurrent, OriginsKnown,
       PTL DEF Spec

-----------------------------------------------------------------------------
(* Durability: what an answer of 200 or 201 promises.                       *)

\* Request q wrote a row of the child table of case a.
Wrote(table, a, q) == \E i \in 1..Len(table[a]) : table[a][i].by = q

\* Rows are only ever added to a child table.
Grows(table, later) ==
  \A a \in Alerts, q \in Requests : Wrote(table, a, q) => Wrote(later, a, q)

\* Appending a row of r to the table of case a.
LEMMA AppendGrows ==
  ASSUME NEW S, NEW table \in [Alerts -> Seq(S)], NEW a \in Alerts, NEW r \in Requests,
         NEW row \in S, row.by = r, NEW later,
         later = [table EXCEPT ![a] = Append(@, row)]
  PROVE  Grows(table, later) /\ Wrote(later, a, r)
  <1>1. \A b \in Alerts : b # a => later[b] = table[b]
    OBVIOUS
  <1>2. /\ later[a] = Append(table[a], row) /\ Len(later[a]) = Len(table[a]) + 1
        /\ \A i \in 1..Len(table[a]) : later[a][i] = table[a][i]
        /\ later[a][Len(table[a]) + 1] = row /\ Len(table[a]) \in Nat
    OBVIOUS
  <1>3. Wrote(later, a, r)
    BY <1>2 DEF Wrote
  <1>4. ASSUME NEW b \in Alerts, NEW q \in Requests, Wrote(table, b, q)
        PROVE  Wrote(later, b, q)
    <2>1. CASE b = a
      BY <1>2, <1>4, <2>1 DEF Wrote
    <2>2. CASE b # a
      BY <1>1, <1>4, <2>2 DEF Wrote
    <2> QED
      BY <2>1, <2>2
  <1> QED
    BY <1>3, <1>4 DEF Grows

\* A request's audit event and history row, once written.
LEMMA WritesGrow ==
  ASSUME TypeOK, NEW r \in Requests, call[r] \in Calls
  PROVE  /\ WriteAudit(r) => Grows(audit, audit') /\ Wrote(audit', call[r].alert, r)
         /\ \A from \in Statuses \cup {None}, to \in Statuses :
              WriteHistory(r, from, to)
                => Grows(history, history') /\ Wrote(history', call[r].alert, r)
  <1>1. call[r].alert \in Alerts /\ call[r].action \in Actions
    BY CallFields
  <1>2. ASSUME WriteAudit(r)
        PROVE  Grows(audit, audit') /\ Wrote(audit', call[r].alert, r)
    <2> DEFINE event == [action |-> call[r].action, at |-> clock', by |-> r]
    <2>1. event \in AuditEvent /\ event.by = r
      BY <1>1, <1>2 DEF AuditEvent, TypeOK, WriteAudit
    <2>2. audit' = [audit EXCEPT ![call[r].alert] = Append(@, event)]
      BY <1>2 DEF WriteAudit
    <2>3. audit \in [Alerts -> Seq(AuditEvent)]
      BY DEF TypeOK
    <2> HIDE DEF event
    <2> QED
      BY <1>1, <2>1, <2>2, <2>3, AppendGrows
  <1>3. ASSUME NEW from \in Statuses \cup {None}, NEW to \in Statuses,
               WriteHistory(r, from, to)
        PROVE  Grows(history, history') /\ Wrote(history', call[r].alert, r)
    <2> DEFINE change == [from |-> from, to |-> to, at |-> startedAt[r], by |-> r]
    <2>1. change \in StatusChange /\ change.by = r
      BY DEF StatusChange, TypeOK
    <2>2. history' = [history EXCEPT ![call[r].alert] = Append(@, change)]
      BY <1>3 DEF WriteHistory
    <2>3. history \in [Alerts -> Seq(StatusChange)]
      BY DEF TypeOK
    <2> HIDE DEF change
    <2> QED
      BY <1>1, <2>1, <2>2, <2>3, AppendGrows
  <1> QED
    BY <1>2, <1>3

\* What request q did is in the tables.
Left(q) ==
  /\ Wrote(audit, call[q].alert, q)
  /\ call[q].action \in StatusActions => Wrote(history, call[q].alert, q)

\* A step on behalf of r that only adds rows costs nobody else his work.
LEMMA DurableFrame ==
  ASSUME TypeOK, CallsKnown, BodiesHaveOrigins, OkAnswersAreDurable, NEW r \in Requests,
         \A q \in Requests \ {r} : reply'[q] = reply[q] /\ call'[q] = call[q],
         Grows(audit, audit'), Grows(history, history'), DidIt(r)' => Left(r)'
  PROVE  OkAnswersAreDurable'
  <1>1. ASSUME NEW q \in Requests \ {r}, DidIt(q)'
        PROVE  Left(q)'
    <2>1. DidIt(q) /\ call'[q] = call[q]
      BY <1>1 DEF DidIt
    <2>2. call[q].alert \in Alerts
      BY <2>1, CallFields DEF CallsKnown, BodiesHaveOrigins, DidIt
    <2>3. Left(q)
      BY <2>1 DEF OkAnswersAreDurable, Left, Wrote
    <2> QED
      BY <2>1, <2>2, <2>3 DEF Left, Grows
  <1> QED
    BY <1>1 DEF OkAnswersAreDurable, Left, Wrote

\* Without a failure in SQL, every answered request leaves its work behind.
LEMMA DurableStep ==
  ASSUME TypeOK, CallsKnown, BodiesHaveOrigins, OkAnswersAreDurable,
         "database" \notin IndexFaults, [Next]_vars
  PROVE  OkAnswersAreDurable'
  <1>1. CASE UNCHANGED vars
    BY <1>1 DEF OkAnswersAreDurable, DidIt, vars, tables
  <1>2. Grows(audit, audit) /\ Grows(history, history)
    BY DEF Grows
  <1>3. ASSUME NEW r \in Requests, NEW c \in Calls,
               Forbid(r, c) \/ Replay(r, c) \/ OpenExisting(r, c) \/ Begin(r, c)
        PROVE  OkAnswersAreDurable'
    <2>1. /\ pc[r] = "idle" /\ UNCHANGED <<audit, history>>
          /\ \A q \in Requests \ {r} : reply'[q] = reply[q] /\ call'[q] = call[q]
      BY <1>3 DEF Forbid, Replay, OpenExisting, Begin, Submit, AnswerAtOnce, TypeOK, tables
    <2>2. reply[r] = None
      BY <2>1 DEF BodiesHaveOrigins
    <2>3. ~DidIt(r)'
      <3>1. CASE Forbid(r, c) \/ OpenExisting(r, c) \/ Begin(r, c)
        BY <2>2, <3>1 DEF Forbid, OpenExisting, Begin, AnswerAtOnce, Answer, DidIt, TypeOK
      <3>2. CASE Replay(r, c)
        <4>1. reply'[r] = Cached(c) /\ Cached(c) # None
          BY <3>2 DEF Replay, AnswerAtOnce, TypeOK
        <4>2. Cached(c).origin # r
          BY <2>2, <4>1, ScopeOf DEF Cached, BodiesHaveOrigins
        <4> QED
          BY <4>1, <4>2 DEF DidIt
      <3> QED
        BY <1>3, <3>1, <3>2
    <2> QED
      BY <1>2, <2>1, <2>3, DurableFrame
  <1>4. ASSUME NEW r \in Requests, Serve(r) \/ Abort(r), InFlight(r)
        PROVE  OkAnswersAreDurable'
    <2>1. call[r] \in Calls
      BY <1>4 DEF CallsKnown, InFlight
    <2>2. ASSUME NEW answer, Finish(r, answer), Grows(audit, audit'), Grows(history, history'),
                 answer.origin = r => Left(r)'
          PROVE  OkAnswersAreDurable'
      <3>1. /\ reply'[r] = answer
            /\ \A q \in Requests \ {r} : reply'[q] = reply[q] /\ call'[q] = call[q]
        BY <2>2, AnswerFrame
      <3> QED
        BY <2>2, <3>1, DurableFrame DEF DidIt
    <2>3. CASE Refuse(r) \/ Abort(r)
      <3>1. UNCHANGED <<audit, history>>
        BY <2>3 DEF Refuse, Abort, tables
      <3>2. \A code, row : Answer(code, row, None).origin # r
        BY NoneAssumption DEF Answer
      <3> QED
        BY <1>2, <2>2, <2>3, <3>1, <3>2 DEF Refuse, Abort
    <2>4. CASE LockRow(r)
      <3>1. UNCHANGED <<audit, history, call, reply>>
        BY <2>4 DEF LockRow, tables
      <3>2. reply[r] = None
        BY <1>4 DEF BodiesHaveOrigins, InFlight
      <3> QED
        BY <1>2, <3>1, <3>2, DurableFrame DEF DidIt
    <2>5. CASE Acknowledge(r) \/ Escalate(r) \/ Resolve(r)
      <3>1. /\ WriteAudit(r) /\ Finish(r, Answer("ok", UpdatedRow(r), r))
            /\ WriteHistory(r, seen[r].status, ToStatus(call[r].action))
            /\ pc[r] = "locked" /\ call[r].action \in StatusActions
        BY <2>5 DEF Acknowledge, Escalate, Resolve, ApplyStatusChange, CommitUpdate, Holds,
             StatusActions
      <3>2. seen[r].status \in Statuses /\ ToStatus(call[r].action) \in Statuses
        BY <3>1, ToStatusType DEF CallsKnown, CaseRow
      <3>3. /\ Grows(audit, audit') /\ Wrote(audit', call[r].alert, r)
            /\ Grows(history, history') /\ Wrote(history', call[r].alert, r)
        BY <2>1, <3>1, <3>2, WritesGrow
      <3>4. Left(r)'
        BY <3>1, <3>3, FinishFrame DEF Left
      <3> QED
        BY <2>2, <3>1, <3>3, <3>4
    <2>6. CASE Assign(r) \/ AddNote(r) \/ AddReview(r)
      <3>1. WriteAudit(r) /\ UNCHANGED history /\ call[r].action \notin StatusActions
        BY <2>6 DEF Assign, AddNote, AddReview, CommitUpdate, AddEntry, Holds, StatusActions
      <3>2. \E answer : Finish(r, answer)
        BY <2>6 DEF Assign, AddNote, AddReview, CommitUpdate, AddEntry
      <3>3. Grows(audit, audit') /\ Wrote(audit', call[r].alert, r)
        BY <2>1, <3>1, WritesGrow
      <3>4. Left(r)'
        BY <3>1, <3>2, <3>3, FinishFrame DEF Left
      <3> QED
        BY <1>2, <2>2, <3>1, <3>2, <3>3, <3>4
    <2>7. CASE InsertCase(r)
      <3>1. /\ WriteAudit(r) /\ WriteHistory(r, None, "open")
            /\ call[r].action \notin StatusActions
        BY <2>7 DEF InsertCase, StatusActions
      <3>2. \E answer : Finish(r, answer)
        BY <2>7 DEF InsertCase
      <3>3. /\ Grows(audit, audit') /\ Wrote(audit', call[r].alert, r)
            /\ Grows(history, history')
        BY <2>1, <3>1, WritesGrow DEF Statuses
      <3>4. Left(r)'
        BY <3>1, <3>2, <3>3, FinishFrame DEF Left
      <3> QED
        BY <2>2, <3>2, <3>3, <3>4
    <2> QED
      BY <1>4, <2>3, <2>4, <2>5, <2>6, <2>7 DEF Serve, ResolveAborted
  <1>5. \A r \in Requests : Serve(r) \/ Abort(r) => InFlight(r)
    BY DEF Serve, Abort, Refuse, LockRow, Acknowledge, Escalate, Resolve, ResolveAborted,
         Assign, InsertCase, AddNote, AddReview, AddEntry, Holds, InFlight
  <1> QED
    BY <1>1, <1>3, <1>4, <1>5 DEF Next, Quiescent

\* A request answered 200 or 201 for its own work has left it in the tables,
\* as long as no statement of the best-effort indexing fails in SQL
\* (index_resolved_case; the run case_resolve_index shows that it must not).
THEOREM OkAnswersStay ==
  ASSUME "database" \notin IndexFaults
  PROVE  Spec => []OkAnswersAreDurable
  <1>1. Init => OkAnswersAreDurable
    BY DEF Init, OkAnswersAreDurable, DidIt
  <1>2. TypeOK /\ CallsKnown /\ BodiesHaveOrigins
          /\ OkAnswersAreDurable /\ [Next]_vars => OkAnswersAreDurable'
    BY DurableStep
  <1> QED
    BY <1>1, <1>2, TypeCorrect, RequestsKnowTheirCalls, OriginsKnown, PTL DEF Spec

-----------------------------------------------------------------------------
(* The audit events of a case against its child tables.  Every event is     *)
(* stamped with a tick of the clock of its own, so the order of the events   *)
(* is inductive once no event is stamped later than the clock.              *)

\* Who wrote the rows of a child table of a case.
WritersOf(rows) == {rows[i].by : i \in 1..Len(rows)}
Writers(table, a) == WritersOf(table[a])

\* Who wrote an assignment, a note or the review of a case.
OtherWriters(a) == Writers(assignments, a) \cup notes[a] \cup ({review[a]} \ {None})

\* The audit events of a case tell what its tables hold.
Audited(a) ==
  /\ \A i \in 1..Len(audit[a]) : audit[a][i].at <= clock
  /\ \A i, j \in 1..Len(audit[a]) : i < j => audit[a][i].at <= audit[a][j].at
  /\ Cardinality(StatusEvents(audit[a], Len(audit[a]))) = Len(history[a])
  /\ \A i \in StatusEvents(audit[a], Len(audit[a])) :
       history[a][Cardinality(StatusEvents(audit[a], i))].by = audit[a][i].by
  /\ Writers(audit, a) = Writers(history, a) \cup OtherWriters(a)

\* Appending a row adds its writer.
LEMMA AppendWriters ==
  ASSUME NEW S, NEW rows \in Seq(S), NEW row \in S
  PROVE  WritersOf(Append(rows, row)) = WritersOf(rows) \cup {row.by}
  <1> DEFINE t == Append(rows, row)
  <1>1. /\ Len(rows) \in Nat /\ Len(t) = Len(rows) + 1
        /\ \A i \in 1..Len(rows) : t[i] = rows[i]
        /\ t[Len(rows) + 1] = row
    OBVIOUS
  <1> HIDE DEF t
  <1>2. 1..Len(t) = 1..Len(rows) \cup {Len(rows) + 1}
    BY <1>1
  <1>3. \A i \in 1..Len(rows) : t[i].by = rows[i].by
    BY <1>1
  <1>4. {t[i].by : i \in 1..Len(t)} = {rows[i].by : i \in 1..Len(rows)} \cup {row.by}
    BY <1>1, <1>2, <1>3
  <1> QED
    BY <1>4 DEF WritersOf, t

\* The openings and status changes are finitely many, and an event that is
\* appended is one more of them or none.
LEMMA StatusEventsAppend ==
  ASSUME NEW s \in Seq(AuditEvent), NEW e \in AuditEvent
  PROVE  LET t == Append(s, e)
             n == Len(s) + 1
         IN /\ \A i \in 0..Len(s) : StatusEvents(t, i) = StatusEvents(s, i)
            /\ e.action \notin StatusActions \cup {"open"} =>
                 StatusEvents(t, n) = StatusEvents(s, Len(s))
            /\ e.action \in StatusActions \cup {"open"} =>
                 /\ StatusEvents(t, n) = StatusEvents(s, Len(s)) \cup {n}
                 /\ Cardinality(StatusEvents(t, n))
                      = Cardinality(StatusEvents(s, Len(s))) + 1
            /\ \A i \in 0..Len(s) :
                 /\ Cardinality(StatusEvents(s, i)) \in Nat
                 /\ Cardinality(StatusEvents(s, i)) <= Cardinality(StatusEvents(s, Len(s)))
                 /\ i \in StatusEvents(s, i) => Cardinality(StatusEvents(s, i)) > 0
  <1> DEFINE t == Append(s, e)
             n == Len(s) + 1
  <1>1. /\ Len(s) \in Nat /\ Len(t) = n /\ t[n] = e
        /\ \A i \in 1..Len(s) : t[i] = s[i]
    OBVIOUS
  <1> HIDE DEF t
  <1>2. ASSUME NEW i \in 0..Len(s)
        PROVE  /\ StatusEvents(t, i) = StatusEvents(s, i)
               /\ IsFiniteSet(StatusEvents(s, i))
               /\ StatusEvents(s, i) \subseteq StatusEvents(s, Len(s))
    <2>1. \A j \in 1..i : j \in 1..Len(s) /\ t[j] = s[j]
      BY <1>1
    <2>2. StatusEvents(t, i) = StatusEvents(s, i)
      BY <2>1 DEF StatusEvents
    <2>3. IsFiniteSet(1..i) /\ StatusEvents(s, i) \subseteq 1..i
      BY FS_Interval DEF StatusEvents
    <2>4. StatusEvents(s, i) \subseteq StatusEvents(s, Len(s))
      BY <2>1 DEF StatusEvents
    <2> QED
      BY <2>2, <2>3, <2>4, FS_Subset
  <1>3. Len(s) \in 0..Len(s)
    BY <1>1
  <1>4. ASSUME NEW i \in 0..Len(s)
        PROVE  /\ Cardinality(StatusEvents(s, i)) \in Nat
               /\ Cardinality(StatusEvents(s, i)) <= Cardinality(StatusEvents(s, Len(s)))
               /\ i \in StatusEvents(s, i) => Cardinality(StatusEvents(s, i)) > 0
    <2>1. Cardinality(StatusEvents(s, i)) \in Nat
      BY <1>2, FS_CardinalityType
    <2>2. Cardinality(StatusEvents(s, i)) <= Cardinality(StatusEvents(s, Len(s)))
      BY <1>2, <1>3, FS_Subset
    <2>3. i \in StatusEvents(s, i) => Cardinality(StatusEvents(s, i)) # 0
      BY <1>2, FS_EmptySet
    <2> QED
      BY <2>1, <2>2, <2>3
  <1>5. n \notin StatusEvents(s, Len(s))
    BY <1>1 DEF StatusEvents
  <1>6. 1..n = 1..Len(s) \cup {n}
    BY <1>1
  <1>7. e.action \notin StatusActions \cup {"open"} =>
          StatusEvents(t, n) = StatusEvents(s, Len(s))
    BY <1>1, <1>6 DEF StatusEvents
  <1>8. e.action \in StatusActions \cup {"open"} =>
          StatusEvents(t, n) = StatusEvents(s, Len(s)) \cup {n}
    BY <1>1, <1>6 DEF StatusEvents
  <1>9. e.action \in StatusActions \cup {"open"} =>
          Cardinality(StatusEvents(t, n)) = Cardinality(StatusEvents(s, Len(s))) + 1
    BY <1>2, <1>3, <1>5, <1>8, FS_AddElement
  <1> QED
    BY <1>2, <1>4, <1>7, <1>8, <1>9 DEF t

\* A step that writes an event of a for r, and a status row exactly for an
\* opening or a status change, and otherwise for r what is no status change.
LEMMA AuditedWrite ==
  ASSUME TypeOK, NEW a \in Alerts, NEW r \in Requests, NEW action \in Actions,
         \A b \in Alerts : Audited(b),
         clock' = clock + 1,
         audit' = [audit EXCEPT ![a] =
                     Append(@, [action |-> action, at |-> clock + 1, by |-> r])],
         \/ /\ action \in StatusActions \cup {"open"}
            /\ \E h \in StatusChange :
                 h.by = r /\ history' = [history EXCEPT ![a] = Append(@, h)]
         \/ /\ action \notin StatusActions \cup {"open"}
            /\ history' = history /\ r \in OtherWriters(a)',
         OtherWriters(a) \subseteq OtherWriters(a)',
         OtherWriters(a)' \subseteq OtherWriters(a) \cup {r},
         \A b \in Alerts \ {a} : OtherWriters(b)' = OtherWriters(b)
  PROVE  \A b \in Alerts : Audited(b)'
  <1>0. PICK e : e = [action |-> action, at |-> clock + 1, by |-> r]
    OBVIOUS
  <1> DEFINE s == audit[a]
             t == Append(s, e)
             n == Len(s) + 1
  <1>1. /\ clock \in Nat /\ e \in AuditEvent /\ s \in Seq(AuditEvent)
        /\ audit \in [Alerts -> Seq(AuditEvent)] /\ history \in [Alerts -> Seq(StatusChange)]
        /\ audit' = [audit EXCEPT ![a] = Append(@, e)]
        /\ audit'[a] = t
    <2>1. /\ clock \in Nat /\ audit \in [Alerts -> Seq(AuditEvent)]
          /\ history \in [Alerts -> Seq(StatusChange)]
      BY DEF TypeOK
    <2>2. e \in AuditEvent
      BY <1>0, <2>1 DEF AuditEvent
    <2>3. audit' = [audit EXCEPT ![a] = Append(@, e)]
      BY <1>0
    <2>4. audit'[a] = t
      BY <2>1, <2>3
    <2> QED
      BY <2>1, <2>2, <2>3, <2>4
  <1>2. e.action = action /\ e.at = clock + 1 /\ e.by = r
    BY <1>0
  <1>3. /\ Writers(audit, a)' = Writers(audit, a) \cup {r}
        /\ \A b \in Alerts \ {a} : Writers(audit, b)' = Writers(audit, b)
    <2>1. WritersOf(t) = WritersOf(s) \cup {r}
      BY <1>1, <1>2, AppendWriters
    <2>2. \A b \in Alerts \ {a} : audit'[b] = audit[b]
      BY <1>1
    <2> QED
      BY <1>1, <2>1, <2>2 DEF Writers
  <1>4. /\ Len(s) \in Nat /\ Len(t) = n /\ t[n] = e
        /\ \A i \in 1..Len(s) : t[i] = s[i]
    BY <1>1
  <1>5. ASSUME NEW b \in Alerts \ {a}
        PROVE  Audited(b)'
    <2>1. audit'[b] = audit[b] /\ history'[b] = history[b]
      BY <1>1
    <2>2. \A i \in 1..Len(audit[b]) : audit[b][i].at \in Nat
      <3>1. \A i \in 1..Len(audit[b]) : audit[b][i] \in AuditEvent
        BY <1>1
      <3> QED
        BY <3>1 DEF AuditEvent
    <2>3. Audited(b) /\ Writers(history, b)' = Writers(history, b)
      BY <2>1 DEF Writers
    <2>4. \A i \in 1..Len(audit'[b]) : audit'[b][i].at <= clock'
      BY <1>1, <2>1, <2>2, <2>3 DEF Audited
    <2> QED
      BY <1>3, <2>1, <2>3, <2>4 DEF Audited
  <1>6. Audited(a)'
    <2>1. \A i \in 1..Len(s) : s[i].at \in Nat /\ s[i].at <= clock
      <3>1. \A i \in 1..Len(s) : s[i] \in AuditEvent
        BY <1>1
      <3>2. \A i \in 1..Len(s) : s[i].at <= clock
        BY DEF Audited
      <3> QED
        BY <3>1, <3>2 DEF AuditEvent
    <2> HIDE DEF t
    <2>2. /\ \A i \in 1..n : t[i].at <= clock'
          /\ \A i, j \in 1..n : i < j => t[i].at <= t[j].at
      <3>1. \A i \in 1..n : i = n \/ i \in 1..Len(s)
        BY <1>4
      <3>2. \A i \in 1..Len(s) : t[i].at \in Nat /\ t[i].at <= clock
        BY <1>4, <2>1
      <3>3. t[n].at = clock + 1
        BY <1>2, <1>4
      <3>4. \A i, j \in 1..Len(s) : i < j => t[i].at <= t[j].at
        BY <1>4 DEF Audited
      <3>5. \A i, j \in 1..n : i < j => i \in 1..Len(s)
        BY <1>4
      <3>6. \A i \in 1..n : t[i].at \in Nat /\ t[i].at <= clock + 1
        BY <1>1, <3>1, <3>2, <3>3
      <3>7. ASSUME NEW i \in 1..n, NEW j \in 1..n, i < j
            PROVE  t[i].at <= t[j].at
        <4>1. CASE j = n
          <5>1. i \in 1..Len(s)
            BY <3>5, <3>7
          <5>2. t[i].at \in Nat /\ t[i].at <= clock /\ t[j].at = clock + 1 /\ clock \in Nat
            BY <1>1, <3>2, <3>3, <4>1, <5>1
          <5> QED
            BY <5>2
        <4>2. CASE j # n
          BY <3>1, <3>4, <3>5, <3>7, <4>2
        <4> QED
          BY <4>1, <4>2
      <3> QED
        BY <3>6, <3>7
    <2>3. CASE action \in StatusActions \cup {"open"}
      <3>1. PICK h \in StatusChange :
              h.by = r /\ history' = [history EXCEPT ![a] = Append(@, h)]
        BY <2>3
      <3> DEFINE g == history[a]
                 k == Cardinality(StatusEvents(s, Len(s)))
      <3>2. /\ history'[a] = Append(g, h) /\ Len(g) \in Nat
            /\ Len(history'[a]) = Len(g) + 1 /\ history'[a][Len(g) + 1] = h
            /\ \A i \in 1..Len(g) : history'[a][i] = g[i]
        BY <1>1, <3>1
      <3>3. Writers(history, a)' = Writers(history, a) \cup {r}
        <4>1. g \in Seq(StatusChange) /\ h \in StatusChange /\ h.by = r
          BY <1>1, <3>1
        <4>2. WritersOf(Append(g, h)) = WritersOf(g) \cup {r}
          BY <4>1, AppendWriters
        <4> QED
          BY <3>2, <4>2 DEF Writers
      <3>4. k = Len(g)
        BY DEF Audited
      <3>5. /\ StatusEvents(t, n) = StatusEvents(s, Len(s)) \cup {n}
            /\ Cardinality(StatusEvents(t, n)) = k + 1
            /\ \A i \in 0..Len(s) : StatusEvents(t, i) = StatusEvents(s, i)
            /\ \A i \in 0..Len(s) :
                 /\ Cardinality(StatusEvents(s, i)) \in Nat
                 /\ Cardinality(StatusEvents(s, i)) <= k
                 /\ i \in StatusEvents(s, i) => Cardinality(StatusEvents(s, i)) > 0
        BY <1>1, <1>2, <2>3, StatusEventsAppend DEF t
      <3>6. ASSUME NEW i \in StatusEvents(t, n)
            PROVE  history'[a][Cardinality(StatusEvents(t, i))].by = t[i].by
        <4>1. CASE i = n
          <5> HIDE DEF k, n
          <5>1. Cardinality(StatusEvents(t, i)) = Len(g) + 1
            BY <3>4, <3>5, <4>1
          <5>2. history'[a][Len(g) + 1].by = r /\ t[n].by = r
            BY <1>2, <1>4, <3>1, <3>2
          <5> QED
            BY <4>1, <5>1, <5>2
        <4>2. CASE i # n
          <5>1. i \in StatusEvents(s, Len(s)) /\ i \in 1..Len(s)
            BY <3>5, <3>6, <4>2 DEF StatusEvents
          <5>2. i \in StatusEvents(s, i) /\ i \in 0..Len(s)
            BY <1>4, <5>1 DEF StatusEvents
          <5>3. Cardinality(StatusEvents(s, i)) \in 1..Len(g)
            BY <3>2, <3>4, <3>5, <5>2
          <5>4. g[Cardinality(StatusEvents(s, i))].by = s[i].by
            BY <5>1 DEF Audited
          <5>5. StatusEvents(t, i) = StatusEvents(s, i) /\ t[i] = s[i]
            BY <1>4, <3>5, <5>1, <5>2
          <5> QED
            BY <3>2, <5>3, <5>4, <5>5
        <4> QED
          BY <4>1, <4>2
      <3>7. Writers(audit, a)' = Writers(history, a)' \cup OtherWriters(a)'
        BY <1>3, <3>3 DEF Audited
      <3>8. Cardinality(StatusEvents(t, n)) = Len(history'[a])
        BY <3>2, <3>4, <3>5
      <3> HIDE DEF k, g
      <3> QED
        BY <1>1, <1>4, <2>2, <3>6, <3>7, <3>8 DEF Audited
    <2>4. CASE action \notin StatusActions \cup {"open"}
      <3>1. history' = history /\ r \in OtherWriters(a)'
        BY <2>4
      <3>2. /\ StatusEvents(t, n) = StatusEvents(s, Len(s))
            /\ \A i \in 0..Len(s) : StatusEvents(t, i) = StatusEvents(s, i)
        BY <1>1, <1>2, <2>4, StatusEventsAppend DEF t
      <3>3. ASSUME NEW i \in StatusEvents(t, n)
            PROVE  history'[a][Cardinality(StatusEvents(t, i))].by = t[i].by
        <4>1. i \in StatusEvents(s, Len(s)) /\ i \in 1..Len(s) /\ i \in 0..Len(s)
          BY <1>4, <3>2, <3>3 DEF StatusEvents
        <4>2. history[a][Cardinality(StatusEvents(s, i))].by = s[i].by
          BY <4>1 DEF Audited
        <4> QED
          BY <1>4, <3>1, <3>2, <4>1, <4>2
      <3>4. Writers(audit, a)' = Writers(history, a)' \cup OtherWriters(a)'
        <4>1. Writers(history, a)' = Writers(history, a)
          BY <3>1 DEF Writers
        <4> QED
          BY <1>3, <3>1, <4>1 DEF Audited
      <3>5. Cardinality(StatusEvents(t, n)) = Len(history'[a])
        BY <3>1, <3>2 DEF Audited
      <3> QED
        BY <1>1, <1>4, <2>2, <3>3, <3>4, <3>5 DEF Audited
    <2> QED
      BY <2>3, <2>4
  <1> QED
    BY <1>5, <1>6

\* Every step keeps every case audited.
LEMMA AuditedStep ==
  ASSUME TypeOK, CallsKnown, \A a \in Alerts : Audited(a), [Next]_vars
  PROVE  \A a \in Alerts : Audited(a)'
  <1>1. ASSUME UNCHANGED <<audit, history, assignments, notes, review>>,
               clock' = clock \/ clock' = clock + 1
        PROVE  \A a \in Alerts : Audited(a)'
    <2> SUFFICES ASSUME NEW a \in Alerts
                 PROVE  Audited(a)'
      OBVIOUS
    <2>1. \A i \in 1..Len(audit[a]) : audit[a][i].at \in Nat
      <3>1. audit[a] \in Seq(AuditEvent)
        BY DEF TypeOK
      <3>2. \A i \in 1..Len(audit[a]) : audit[a][i] \in AuditEvent
        BY <3>1
      <3> QED
        BY <3>2 DEF AuditEvent
    <2>2. \A i \in 1..Len(audit[a]) : audit[a][i].at <= clock'
      BY <1>1, <2>1 DEF Audited, TypeOK
    <2>3. /\ Writers(audit, a)' = Writers(audit, a)
          /\ Writers(history, a)' = Writers(history, a)
          /\ OtherWriters(a)' = OtherWriters(a)
      BY <1>1 DEF Writers, OtherWriters
    <2> QED
      BY <1>1, <2>2, <2>3 DEF Audited
  <1>2. ASSUME NEW r \in Requests, InFlight(r)
        PROVE  call[r] \in Calls /\ call[r].alert \in Alerts /\ call[r].action \in Actions
    BY <1>2, CallFields DEF CallsKnown, InFlight
  <1>3. ASSUME NEW r \in Requests, NEW from \in Statuses \cup {None}, NEW to \in Statuses,
               NEW a, call[r].alert = a, WriteHistory(r, from, to)
        PROVE  \E h \in StatusChange :
                 h.by = r /\ history' = [history EXCEPT ![a] = Append(@, h)]
    <2> DEFINE h == [from |-> from, to |-> to, at |-> startedAt[r], by |-> r]
    <2>1. h \in StatusChange /\ h.by = r
      BY DEF StatusChange, TypeOK
    <2> QED
      BY <1>3, <2>1 DEF WriteHistory
  <1>4. ASSUME NEW r \in Requests, NEW role \in Roles,
               NEW a \in Alerts, call[r].alert = a, WriteAssignment(r, role)
        PROVE  /\ Writers(assignments, a)' = Writers(assignments, a) \cup {r}
               /\ \A b \in Alerts \ {a} : Writers(assignments, b)' = Writers(assignments, b)
    <2>0. PICK row : row = [role |-> role, by |-> r]
      OBVIOUS
    <2>1. row \in Assignment /\ row.by = r
      BY <2>0 DEF Assignment
    <2>2. /\ assignments' = [assignments EXCEPT ![a] = Append(@, row)]
          /\ assignments \in [Alerts -> Seq(Assignment)]
      BY <1>4, <2>0 DEF WriteAssignment, TypeOK
    <2>3. /\ assignments[a] \in Seq(Assignment)
          /\ assignments'[a] = Append(assignments[a], row)
          /\ \A b \in Alerts \ {a} : assignments'[b] = assignments[b]
      BY <2>2
    <2>4. WritersOf(Append(assignments[a], row)) = WritersOf(assignments[a]) \cup {r}
      BY <2>1, <2>3, AppendWriters
    <2> QED
      BY <2>3, <2>4 DEF Writers
  <1>5. ASSUME NEW r \in Requests, Acknowledge(r) \/ Escalate(r) \/ Resolve(r) \/ Assign(r)
        PROVE  \A a \in Alerts : Audited(a)'
    <2>1. /\ pc[r] = "locked" /\ WriteAudit(r) /\ UNCHANGED <<notes, review>>
          /\ call[r].action \in LockingActions
      BY <1>5 DEF Acknowledge, Escalate, Resolve, Assign, Holds, ApplyStatusChange,
         CommitUpdate, LockingActions, StatusActions
    <2>2. /\ call[r].alert \in Alerts /\ call[r].action \in Actions
          /\ call[r].role \in Roles /\ seen[r].status \in Statuses
      <3>1. InFlight(r) /\ seen[r] \in CaseRow /\ call[r] \in Calls
        BY <2>1 DEF InFlight, CallsKnown
      <3> QED
        BY <1>2, <3>1, CallFields DEF CaseRow
    <2>3. PICK a \in Alerts, action \in Actions : call[r].alert = a /\ call[r].action = action
      BY <2>2
    <2>4. action \in StatusActions =>
            \E h \in StatusChange :
              h.by = r /\ history' = [history EXCEPT ![a] = Append(@, h)]
      <3> SUFFICES ASSUME action \in StatusActions
                   PROVE  \E h \in StatusChange :
                            h.by = r /\ history' = [history EXCEPT ![a] = Append(@, h)]
        OBVIOUS
      <3>1. WriteHistory(r, seen[r].status, ToStatus(call[r].action))
        BY <1>5, <2>3 DEF Acknowledge, Escalate, Resolve, Assign, Holds,
           ApplyStatusChange, StatusActions
      <3>2. ToStatus(call[r].action) \in Statuses /\ seen[r].status \in Statuses \cup {None}
        BY <2>2, <2>3, ToStatusType
      <3>3. PICK from \in Statuses \cup {None}, to \in Statuses :
              seen[r].status = from /\ ToStatus(call[r].action) = to
        BY <3>2
      <3>4. WriteHistory(r, from, to)
        BY <3>1, <3>3 DEF WriteHistory
      <3> QED
        BY <1>3, <2>3, <3>4
    <2>5. action \notin StatusActions => action = "assign" /\ history' = history
      BY <1>5, <2>3 DEF Acknowledge, Escalate, Resolve, Assign, Holds, StatusActions
    <2>6. \/ UNCHANGED assignments /\ action # "assign"
          \/ WriteAssignment(r, call[r].role)
      BY <1>5, <2>3 DEF Acknowledge, Escalate, Resolve, Assign, Holds
    <2>7. /\ OtherWriters(a) \subseteq OtherWriters(a)'
          /\ OtherWriters(a)' \subseteq OtherWriters(a) \cup {r}
          /\ \A b \in Alerts \ {a} : OtherWriters(b)' = OtherWriters(b)
          /\ action = "assign" => r \in OtherWriters(a)'
      <3>1. CASE UNCHANGED assignments /\ action # "assign"
        BY <2>1, <3>1 DEF OtherWriters, Writers
      <3>2. CASE WriteAssignment(r, call[r].role)
        <4>1. PICK role \in Roles : call[r].role = role
          BY <2>2
        <4>2. /\ Writers(assignments, a)' = Writers(assignments, a) \cup {r}
              /\ \A b \in Alerts \ {a} :
                   Writers(assignments, b)' = Writers(assignments, b)
          BY <1>4, <2>3, <3>2, <4>1
        <4> QED
          BY <2>1, <4>2 DEF OtherWriters
      <3> QED
        BY <2>6, <3>1, <3>2
    <2>8. /\ clock' = clock + 1
          /\ audit' = [audit EXCEPT ![a] =
                         Append(@, [action |-> action, at |-> clock + 1, by |-> r])]
      BY <2>1, <2>3 DEF WriteAudit
    <2>9. \/ /\ action \in StatusActions \cup {"open"}
             /\ \E h \in StatusChange :
                  h.by = r /\ history' = [history EXCEPT ![a] = Append(@, h)]
          \/ /\ action \notin StatusActions \cup {"open"}
             /\ history' = history /\ r \in OtherWriters(a)'
      BY <2>4, <2>5, <2>7
    <2> QED
      BY <2>7, <2>8, <2>9, AuditedWrite
  <1>6. ASSUME NEW r \in Requests, InsertCase(r)
        PROVE  \A a \in Alerts : Audited(a)'
    <2>1. /\ pc[r] = "started" /\ WriteAudit(r) /\ UNCHANGED <<notes, review>>
          /\ call[r].action = "open" /\ WriteHistory(r, None, "open")
          /\ WriteAssignment(r, RoutedTo[call[r].alert])
      BY <1>6 DEF InsertCase
    <2>2. call[r].alert \in Alerts
      BY <1>2, <2>1 DEF InFlight
    <2>3. PICK a \in Alerts : call[r].alert = a
      BY <2>2
    <2>4. RoutedTo[a] \in Roles /\ "open" \in Statuses /\ "open" \in Actions
      BY RoutedToAssumption DEF Statuses, Actions
    <2>5. \E h \in StatusChange :
            h.by = r /\ history' = [history EXCEPT ![a] = Append(@, h)]
      BY <1>3, <2>1, <2>3, <2>4
    <2>6. /\ Writers(assignments, a)' = Writers(assignments, a) \cup {r}
          /\ \A b \in Alerts \ {a} : Writers(assignments, b)' = Writers(assignments, b)
      BY <1>4, <2>1, <2>3, <2>4
    <2>7. /\ OtherWriters(a) \subseteq OtherWriters(a)'
          /\ OtherWriters(a)' \subseteq OtherWriters(a) \cup {r}
          /\ \A b \in Alerts \ {a} : OtherWriters(b)' = OtherWriters(b)
      BY <2>1, <2>6 DEF OtherWriters
    <2>8. /\ clock' = clock + 1
          /\ audit' = [audit EXCEPT ![a] =
                         Append(@, [action |-> "open", at |-> clock + 1, by |-> r])]
      BY <2>1, <2>3 DEF WriteAudit
    <2>9. /\ "open" \in StatusActions \cup {"open"}
          /\ \E h \in StatusChange :
               h.by = r /\ history' = [history EXCEPT ![a] = Append(@, h)]
      BY <2>5
    <2> QED
      BY <2>4, <2>7, <2>8, <2>9, AuditedWrite
  <1>7. ASSUME NEW r \in Requests, AddNote(r) \/ AddReview(r)
        PROVE  \A a \in Alerts : Audited(a)'
    <2>1. /\ pc[r] = "started" /\ WriteAudit(r) /\ UNCHANGED <<history, assignments>>
          /\ call[r].action \in {"note", "review"}
      BY <1>7 DEF AddNote, AddReview, AddEntry
    <2>2. call[r].alert \in Alerts /\ call[r].action \in Actions
      BY <1>2, <2>1 DEF InFlight
    <2>3. PICK a \in Alerts, action \in Actions : call[r].alert = a /\ call[r].action = action
      BY <2>2
    <2>4. /\ OtherWriters(a) \subseteq OtherWriters(a)'
          /\ OtherWriters(a)' \subseteq OtherWriters(a) \cup {r}
          /\ r \in OtherWriters(a)'
          /\ \A b \in Alerts \ {a} : OtherWriters(b)' = OtherWriters(b)
      <3>1. \A b \in Alerts : Writers(assignments, b)' = Writers(assignments, b)
        BY <2>1 DEF Writers
      <3>2. CASE AddNote(r)
        <4>1. /\ review' = review /\ notes'[a] = notes[a] \cup {r}
              /\ \A b \in Alerts \ {a} : notes'[b] = notes[b]
          <5>1. /\ review' = review /\ notes' = [notes EXCEPT ![a] = @ \cup {r}]
                /\ notes \in [Alerts -> SUBSET Requests]
            BY <2>3, <3>2 DEF AddNote, TypeOK
          <5> QED
            BY <5>1
        <4> QED
          BY <3>1, <4>1 DEF OtherWriters
      <3>3. CASE AddReview(r)
        <4>1. /\ notes' = notes /\ review'[a] = r
              /\ \A b \in Alerts \ {a} : review'[b] = review[b]
          <5>1. /\ notes' = notes /\ review' = [review EXCEPT ![a] = r]
                /\ review \in [Alerts -> Requests \cup {None}]
            BY <2>3, <3>3 DEF AddReview, TypeOK
          <5> QED
            BY <5>1
        <4>2. review[a] = None
          BY <2>1, <2>3, <3>3 DEF AddReview, AddEntry, Refusal
        <4>3. r # None
          BY NoneAssumption
        <4> QED
          BY <3>1, <4>1, <4>2, <4>3 DEF OtherWriters
      <3> QED
        BY <1>7, <3>2, <3>3
    <2>5. /\ clock' = clock + 1
          /\ audit' = [audit EXCEPT ![a] =
                         Append(@, [action |-> action, at |-> clock + 1, by |-> r])]
      BY <2>1, <2>3 DEF WriteAudit
    <2>6. /\ action \notin StatusActions \cup {"open"}
          /\ history' = history /\ r \in OtherWriters(a)'
      BY <2>1, <2>3, <2>4 DEF StatusActions
    <2> QED
      BY <2>4, <2>5, <2>6, AuditedWrite
  <1>8. ASSUME NEW r \in Requests,
               Refuse(r) \/ LockRow(r) \/ ResolveAborted(r) \/ Abort(r)
        PROVE  \A a \in Alerts : Audited(a)'
    BY <1>1, <1>8 DEF Refuse, LockRow, ResolveAborted, Abort, tables
  <1>9. ASSUME NEW r \in Requests, NEW c \in Calls,
               Forbid(r, c) \/ Replay(r, c) \/ OpenExisting(r, c) \/ Begin(r, c)
        PROVE  \A a \in Alerts : Audited(a)'
    BY <1>1, <1>9 DEF Forbid, Replay, OpenExisting, Begin, Submit, AnswerAtOnce, tables
  <1>10. CASE UNCHANGED vars
    BY <1>1, <1>10 DEF vars, tables
  <1> QED
    BY <1>5, <1>6, <1>7, <1>8, <1>9, <1>10 DEF Next, Serve, Quiescent

AllAudited == \A a \in Alerts : Audited(a)

\* The audit history of every case is complete and in order (write_audit_event):
\* however requests race, fail or are retried, its openings and status changes
\* are those of case_status_history one by one, and nobody wrote a note, a
\* review or an assignment without an event.
THEOREM AuditTellsAll == Spec => []AuditMatchesTables
  <1>1. Init => AllAudited
    <2> SUFFICES ASSUME Init, NEW a \in Alerts
                 PROVE  Audited(a)
      BY DEF AllAudited
    <2>1. /\ audit[a] = <<>> /\ history[a] = <<>> /\ assignments[a] = <<>>
          /\ notes[a] = {} /\ review[a] = None
      BY DEF Init
    <2>2. StatusEvents(audit[a], Len(audit[a])) = {} /\ Len(audit[a]) = 0
      BY <2>1 DEF StatusEvents
    <2>3. Cardinality(StatusEvents(audit[a], Len(audit[a]))) = Len(history[a])
      BY <2>1, <2>2, FS_EmptySet
    <2>4. Writers(audit, a) = {} /\ Writers(history, a) = {} /\ OtherWriters(a) = {}
      <3>1. WritersOf(<<>>) = {}
        BY DEF WritersOf
      <3> QED
        BY <2>1, <3>1 DEF Writers, OtherWriters
    <2> QED
      BY <2>2, <2>3, <2>4 DEF Audited
  <1>2. TypeOK /\ CallsKnown /\ AllAudited /\ [Next]_vars => AllAudited'
    BY AuditedStep DEF AllAudited
  <1>3. AllAudited => AuditMatchesTables
    BY DEF AllAudited, Audited, AuditMatchesTables, Writers, WritersOf, OtherWriters
  <1> QED
    BY <1>1, <1>2, <1>3, TypeCorrect, RequestsKnowTheirCalls, PTL DEF Spec
=============================================================================
