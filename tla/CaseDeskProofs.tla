--------------------------- MODULE CaseDeskProofs ---------------------------
(***************************************************************************)
(* Theorems about CaseDesk, for any users with any access scopes.          *)
(***************************************************************************)
EXTENDS CaseDesk, CaseWorkflowProofs, Extremes

-----------------------------------------------------------------------------
(* The two tables of permissions.py.                                        *)

\* Whatever roles a user has, what GET /me offers him (permissions_for_user) is
\* admitted by require_role_action, although the one stops at the first role
\* that matches and the other takes them all.
THEOREM OffersAreAdmitted ==
  ASSUME NEW roles \in SUBSET Policy!AppRoles, NEW action \in Policy!Offered(roles)
  PROVE  Policy!Admits(roles, action)
  BY DEF Policy!Offered, Policy!Admits, Policy!CaseActions, Policy!OpsRoles,
         Policy!Transitions, Policy!ParticipantRoles

\* For a user of one role the two agree, the action being any of the seven.
THEOREM OffersAreAllOfOneRole ==
  ASSUME NEW role \in Policy!AppRoles, NEW action \in Actions, Policy!Admits({role}, action)
  PROVE  action \in Policy!Offered({role})
  BY DEF Policy!Offered, Policy!Admits, Policy!CaseActions, Policy!OpsRoles,
         Policy!Transitions, Policy!ParticipantRoles, Policy!AppRoles, Actions,
         KeyedActions, LockingActions, StatusActions

\* A user whose roles count one has one role.
LEMMA OnlyRole ==
  ASSUME NEW u \in Users, Cardinality(RolesOfUser(u)) = 1
  PROVE  \E role \in Policy!AppRoles : RolesOfUser(u) = {role}
  <1>1. IsFiniteSet(Policy!AppRoles)
    <2>1. /\ IsFiniteSet({"agent"} \cup {"field_officer"})
          /\ IsFiniteSet({"area_manager"} \cup {"provider_ops"})
          /\ IsFiniteSet({"risk_analyst"} \cup {"management"})
          /\ IsFiniteSet({"admin"})
      BY FS_Singleton, FS_Union
    <2>2. IsFiniteSet(({"agent"} \cup {"field_officer"})
                        \cup ({"area_manager"} \cup {"provider_ops"}))
      BY <2>1, FS_Union
    <2>3. IsFiniteSet(({"risk_analyst"} \cup {"management"}) \cup {"admin"})
      BY <2>1, FS_Union
    <2>4. Policy!AppRoles =
            (({"agent"} \cup {"field_officer"}) \cup ({"area_manager"} \cup {"provider_ops"}))
              \cup (({"risk_analyst"} \cup {"management"}) \cup {"admin"})
      BY DEF Policy!AppRoles
    <2> QED
      BY <2>2, <2>3, <2>4, FS_Union
  <1>2. IsFiniteSet(RolesOfUser(u))
    BY <1>1, FS_Subset, ScopesAssumption
  <1> QED
    BY <1>2, FS_Singleton, ScopesAssumption

-----------------------------------------------------------------------------
(* Answers.                                                                 *)

Permitted(c) == <<c.user, c.action>> \in MayPerform

\* A request is under way only if its caller's role was let by, answers tell
\* whether it was, and no stored body is a refusal.
Judged ==
  /\ \A r \in Requests : InFlight(r) => Permitted(call[r])
  /\ \A r \in Requests :
       reply[r] # None => (reply[r].code = "forbidden" <=> ~Permitted(call[r]))
  /\ \A k \in IdemScopes : idem[k] # None => idem[k].code # "forbidden"

\* A request that ends with an answer of its handler.
LEMMA JudgedFinish ==
  ASSUME TypeOK, CallsKnown, Judged, NEW r \in Requests, InFlight(r),
         NEW answer \in Reply, answer.code # "forbidden", Finish(r, answer),
         \/ UNCHANGED idem
         \/ IdemStore(call[r], answer) /\ call[r].action \in KeyedActions
  PROVE  Judged'
  <1>1. /\ reply'[r] = answer /\ pc'[r] = "done" /\ call' = call
        /\ \A q \in Requests \ {r} : reply'[q] = reply[q] /\ pc'[q] = pc[q]
    BY AnswerFrame
  <1>2. \A k \in IdemScopes : idem'[k] = idem[k] \/ idem'[k] = answer
    BY IdemStoreFrame DEF CallsKnown, InFlight
  <1> QED
    BY <1>1, <1>2 DEF Judged, InFlight, Permitted

\* Every step keeps the answers true to the roles of their callers.
LEMMA JudgedStep ==
  ASSUME TypeOK, CallsKnown, BodiesHaveOrigins, Judged, [Next]_vars
  PROVE  Judged'
  <1>1. CASE UNCHANGED vars
    BY <1>1 DEF Judged, InFlight, Permitted, vars, tables
  <1>2. ASSUME NEW r \in Requests, NEW c \in Calls, Submit(r, c),
               UNCHANGED idem, pc'[r] = "started" => Permitted(c),
               \A q \in Requests \ {r} : reply'[q] = reply[q] /\ pc'[q] = pc[q],
               pc'[r] # "locked",
               reply'[r] # None => (reply'[r].code = "forbidden" <=> ~Permitted(c))
        PROVE  Judged'
    <2>1. call'[r] = c /\ \A q \in Requests \ {r} : call'[q] = call[q]
      BY <1>2 DEF Submit, TypeOK
    <2> QED
      BY <1>2, <2>1 DEF Judged, InFlight, Permitted
  <1>3. ASSUME NEW r \in Requests, NEW c \in Calls,
               Forbid(r, c) \/ Replay(r, c) \/ OpenExisting(r, c) \/ Begin(r, c)
        PROVE  Judged'
    <2>1. /\ Submit(r, c) /\ UNCHANGED idem
          /\ \A q \in Requests \ {r} : reply'[q] = reply[q] /\ pc'[q] = pc[q]
          /\ pc'[r] # "locked"
      BY <1>3 DEF Forbid, Replay, OpenExisting, Begin, Submit, AnswerAtOnce, TypeOK, tables
    <2>2. CASE Forbid(r, c)
      BY <1>2, <2>1, <2>2 DEF Forbid, AnswerAtOnce, Answer, TypeOK, Permitted
    <2>3. CASE Replay(r, c)
      <3>1. Cached(c) # None /\ Cached(c).code # "forbidden"
        BY <2>3, ScopeOf DEF Replay, Cached, Judged
      <3> QED
        BY <1>2, <2>1, <2>3, <3>1 DEF Replay, AnswerAtOnce, TypeOK, Permitted
    <2>4. CASE OpenExisting(r, c)
      BY <1>2, <2>1, <2>4 DEF OpenExisting, AnswerAtOnce, Answer, TypeOK, Permitted
    <2>5. CASE Begin(r, c)
      <3>1. reply'[r] = reply[r] /\ Permitted(c)
        BY <2>5 DEF Begin, Permitted
      <3>2. reply[r] = None
        BY <2>5 DEF Begin, Submit, BodiesHaveOrigins
      <3> QED
        BY <1>2, <2>1, <3>1, <3>2
    <2> QED
      BY <1>3, <2>2, <2>3, <2>4, <2>5
  <1>4. ASSUME NEW r \in Requests, NEW code \in Codes \ {"forbidden"},
               NEW row \in CaseRow \cup {None}, NEW origin \in Requests \cup {None},
               InFlight(r), Finish(r, Answer(code, row, origin)),
               \/ UNCHANGED idem
               \/ /\ IdemStore(call[r], Answer(code, row, origin))
                  /\ call[r].action \in KeyedActions
        PROVE  Judged'
    <2>1. Answer(code, row, origin) \in Reply
      BY <1>4, AnswerType
    <2>2. Answer(code, row, origin).code # "forbidden"
      BY <1>4 DEF Answer
    <2> QED
      BY <1>4, <2>1, <2>2, JudgedFinish
  <1>5. ASSUME NEW r \in Requests, pc[r] = "locked"
        PROVE  /\ InFlight(r) /\ call[r].action \in KeyedActions
               /\ UpdatedRow(r) \in CaseRow /\ "ok" \in Codes \ {"forbidden"}
    BY <1>5, UpdatedRowType DEF CallsKnown, InFlight, KeyedActions, Codes
  <1>6. ASSUME NEW r \in Requests, ResolveAborted(r)
        PROVE  Judged'
    BY <1>4, <1>5, <1>6 DEF ResolveAborted, Holds, tables
  <1>7. ASSUME NEW r \in Requests, pc[r] = "locked",
               Finish(r, Answer("ok", UpdatedRow(r), r)),
               IdemStore(call[r], Answer("ok", UpdatedRow(r), r))
        PROVE  Judged'
    BY <1>4, <1>5, <1>7
  <1>8. ASSUME NEW r \in Requests, pc[r] = "started", call[r].action \in {"note", "review"},
               Finish(r, Answer("ok", None, r)), IdemStore(call[r], Answer("ok", None, r))
        PROVE  Judged'
    BY <1>4, <1>8 DEF InFlight, KeyedActions, Codes
  <1>9. ASSUME NEW r \in Requests, NEW row \in CaseRow, pc[r] = "started",
               Finish(r, Answer("ok", row, r)), UNCHANGED idem
        PROVE  Judged'
    BY <1>4, <1>9 DEF InFlight, Codes
  <1>10. ASSUME NEW r \in Requests, NEW code \in Codes \ {"ok", "forbidden"},
                NEW row \in CaseRow \cup {None},
                InFlight(r), Finish(r, Answer(code, row, None)), UNCHANGED idem
         PROVE  Judged'
    BY <1>4, <1>10
  <1>11. ASSUME NEW r \in Requests, InFlight(r), pc' = [pc EXCEPT ![r] = "locked"],
                UNCHANGED <<call, reply, idem>>
         PROVE  Judged'
    BY <1>11 DEF Judged, InFlight, Permitted, TypeOK
  <1>12. ASSUME NEW r \in Requests, Serve(r) \/ Abort(r)
         PROVE  Judged'
    BY <1>6, <1>7, <1>8, <1>9, <1>10, <1>11, <1>12, ServeKinds
  <1> QED
    BY <1>1, <1>3, <1>12 DEF Next, Quiescent

\* Nobody is refused what GET /me offers him, and a user of one role is refused
\* whatever it does not (require_role_action, permissions_for_user).
THEOREM OffersHold == Spec => []OfferedIsAdmitted
  <1>1. Init => Judged
    BY DEF Init, Judged, InFlight
  <1>2. TypeOK /\ CallsKnown /\ BodiesHaveOrigins /\ Judged /\ [Next]_vars => Judged'
    BY JudgedStep
  <1>3. CallsKnown /\ BodiesHaveOrigins /\ Judged => OfferedIsAdmitted
    <2> SUFFICES ASSUME CallsKnown, BodiesHaveOrigins, Judged,
                        NEW r \in Requests, reply[r] # None
                 PROVE  LET roles == RolesOfUser(call[r].user)
                            offered == call[r].action \in Policy!Offered(roles)
                        IN /\ offered => reply[r].code # "forbidden"
                           /\ ~offered /\ Cardinality(roles) = 1
                                => reply[r].code = "forbidden"
      BY DEF OfferedIsAdmitted
    <2>1. /\ call[r] \in Calls /\ call[r].user \in Users /\ call[r].action \in Actions
          /\ RolesOfUser(call[r].user) \in SUBSET Policy!AppRoles
      BY CallFields, ScopesAssumption DEF CallsKnown, BodiesHaveOrigins
    <2>2. reply[r].code # "forbidden"
            <=> Policy!Admits(RolesOfUser(call[r].user), call[r].action)
      BY <2>1, DeskAssumption DEF Judged, Permitted, Performing
    <2>3. call[r].action \in Policy!Offered(RolesOfUser(call[r].user))
            => Policy!Admits(RolesOfUser(call[r].user), call[r].action)
      BY <2>1, OffersAreAdmitted
    <2>4. ASSUME Cardinality(RolesOfUser(call[r].user)) = 1,
                 Policy!Admits(RolesOfUser(call[r].user), call[r].action)
          PROVE  call[r].action \in Policy!Offered(RolesOfUser(call[r].user))
      <3>1. PICK role \in Policy!AppRoles : RolesOfUser(call[r].user) = {role}
        BY <2>1, <2>4, OnlyRole
      <3> QED
        BY <2>1, <2>4, <3>1, OffersAreAllOfOneRole
    <2> QED
      BY <2>2, <2>3, <2>4
  <1> QED
    BY <1>1, <1>2, <1>3, TypeCorrect, RequestsKnowTheirCalls, OriginsKnown, PTL DEF Spec

-----------------------------------------------------------------------------
(* Routing.  The loop of resolve_routing keeps a row that no row it has met  *)
(* beats, and to be unbeaten is to come first in the stated precedence.      *)

\* The matching rules no matching rule beats.
Unbeaten(rules, alert) ==
  {r \in rules : /\ Rules!Matches(r, alert)
                 /\ \A q \in rules : Rules!Matches(q, alert) => ~Rules!Beats(q, r)}

\* The loop has a run, row by row.
LEMMA LoopRuns ==
  ASSUME NEW rows, NEW alert, Len(rows) \in Nat
  PROVE  \E best : /\ best = [i \in 0..Len(rows) |->
                                IF i = 0 THEN None
                                ELSE Rules!Consider(best[i - 1], rows[i], alert)]
                   /\ Rules!BestRule(rows, alert) = best[Len(rows)]
  <1> DEFINE Turn(best, i) ==
               IF i = 0 THEN None ELSE Rules!Consider(best[i - 1], rows[i], alert)
             Runs(n) == \E best : best = [i \in 0..n |-> Turn(best, i)]
             Stuck == {n \in Nat : ~Runs(n)}
  <1>1. Stuck = {}
    <2> SUFFICES ASSUME Stuck # {} PROVE FALSE
      OBVIOUS
    <2>1. PICK m \in Stuck : \A n \in Stuck : m <= n
      <3>1. Stuck \subseteq Nat
        OBVIOUS
      <3> HIDE DEF Stuck
      <3> QED
        BY <3>1, LeastNatural
    <2>2. m \in Nat /\ ~Runs(m) /\ \A n \in Nat : n < m => Runs(n)
      <3> HIDE DEF Runs
      <3> QED
        BY <2>1
    <2>3. CASE m = 0
      <3> DEFINE best == [i \in 0..0 |-> None]
      <3>1. \A i \in 0..0 : Turn(best, i) = None
        OBVIOUS
      <3>2. best = [i \in 0..0 |-> Turn(best, i)]
        <4> HIDE DEF Turn
        <4> QED
          BY <3>1
      <3> QED
        BY <2>2, <2>3, <3>2
    <2>4. CASE m # 0
      <3>1. m - 1 \in Nat /\ m - 1 < m
        BY <2>2, <2>4
      <3>2. PICK best : best = [i \in 0..(m - 1) |-> Turn(best, i)]
        BY <2>2, <3>1
      <3> DEFINE next == [i \in 0..m |-> IF i = m THEN Turn(best, m) ELSE best[i]]
      <3>3. \A i \in 0..(m - 1) : next[i] = best[i]
        BY <3>1
      <3>4. ASSUME NEW i \in 0..m PROVE next[i] = Turn(next, i)
        <4>1. i # 0 => next[i - 1] = best[i - 1]
          BY <2>2, <3>3
        <4>2. Turn(next, i) = Turn(best, i)
          BY <4>1
        <4> HIDE DEF Turn
        <4>3. i # m => i \in 0..(m - 1)
          BY <2>2
        <4>4. i # m => best[i] = Turn(best, i)
          BY <3>2, <4>3
        <4> QED
          BY <4>2, <4>4
      <3>5. next = [i \in 0..m |-> Turn(next, i)]
        <4>1. next = [i \in 0..m |-> next[i]]
          OBVIOUS
        <4> HIDE DEF next, Turn
        <4> QED
          BY <3>4, <4>1
      <3> HIDE DEF next, Turn
      <3> QED
        BY <2>2, <3>5
    <2> QED
      BY <2>3, <2>4
  <1>2. Runs(Len(rows))
    <2> HIDE DEF Runs
    <2> QED
      BY <1>1
  <1> DEFINE run == CHOOSE best : best = [i \in 0..Len(rows) |-> Turn(best, i)]
  <1>3. run = [i \in 0..Len(rows) |-> Turn(run, i)]
    <2> HIDE DEF Turn
    <2> QED
      BY <1>2
  <1>4. Rules!BestRule(rows, alert) = run[Len(rows)]
    BY DEF Rules!BestRule
  <1> HIDE DEF run
  <1> QED
    BY <1>3, <1>4

\* What the loop returns: nothing if no row matches, and otherwise a matching
\* row that none of them beats.
LEMMA BestIsUnbeaten ==
  ASSUME NEW rules, \A r \in rules : r # None /\ r.priority \in Int,
         NEW rows \in Seq(rules), NEW alert
  PROVE  LET best == Rules!BestRule(rows, alert)
         IN  IF best = None THEN \A r \in ToSet(rows) : ~Rules!Matches(r, alert)
             ELSE best \in Unbeaten(ToSet(rows), alert)
  <1>1. /\ Len(rows) \in Nat /\ DOMAIN rows = 1..Len(rows)
        /\ \A i \in 1..Len(rows) : rows[i] \in rules
    OBVIOUS
  <1>2. PICK best :
          /\ best = [i \in 0..Len(rows) |->
                       IF i = 0 THEN None ELSE Rules!Consider(best[i - 1], rows[i], alert)]
          /\ Rules!BestRule(rows, alert) = best[Len(rows)]
    BY <1>1, LoopRuns
  <1>3. /\ best[0] = None
        /\ \A i \in 1..Len(rows) : best[i] = Rules!Consider(best[i - 1], rows[i], alert)
    <2>1. \A i \in 0..Len(rows) :
            best[i] = IF i = 0 THEN None ELSE Rules!Consider(best[i - 1], rows[i], alert)
      BY <1>2
    <2> QED
      BY <1>1, <2>1
  <1> DEFINE Met(i) == {rows[j] : j \in 1..i}
             Told(i) == IF best[i] = None THEN \A r \in Met(i) : ~Rules!Matches(r, alert)
                        ELSE best[i] \in Unbeaten(Met(i), alert)
             fails == {i \in 0..Len(rows) : ~Told(i)}
  <1>4. Told(0)
    BY <1>3
  <1>5. ASSUME NEW i \in 1..Len(rows), Told(i - 1)
        PROVE  Told(i)
    <2>1. Met(i) = Met(i - 1) \cup {rows[i]} /\ Met(i) \subseteq rules
      BY <1>1
    <2> HIDE DEF Met
    <2>2. \A r \in Met(i) : r # None /\ Rules!Specificity(r) \in 0..3 /\ r.priority \in Int
      BY <2>1 DEF Rules!Specificity
    <2>3. best[i] = IF /\ Rules!Matches(rows[i], alert)
                       /\ best[i - 1] = None \/ Rules!Beats(rows[i], best[i - 1])
                    THEN rows[i] ELSE best[i - 1]
      BY <1>3 DEF Rules!Consider
    <2>4. ~Rules!Beats(rows[i], rows[i])
      BY <2>1, <2>2 DEF Rules!Beats
    <2>5. CASE best[i - 1] = None
      BY <1>5, <2>1, <2>2, <2>3, <2>4, <2>5 DEF Unbeaten
    <2>6. CASE best[i - 1] # None
      <3> DEFINE b == best[i - 1]
      <3>1. /\ b \in Met(i - 1) /\ Rules!Matches(b, alert)
            /\ \A r \in Met(i - 1) : Rules!Matches(r, alert) => ~Rules!Beats(r, b)
        BY <1>5, <2>6 DEF Unbeaten
      <3>2. CASE Rules!Matches(rows[i], alert) /\ Rules!Beats(rows[i], b)
        <4>1. \A r \in Met(i - 1) : ~Rules!Beats(r, b) => ~Rules!Beats(r, rows[i])
          BY <2>1, <2>2, <3>1, <3>2 DEF Rules!Beats
        <4>2. best[i] = rows[i] /\ best[i] # None
          BY <2>1, <2>2, <2>3, <3>2
        <4> QED
          BY <2>1, <2>4, <3>1, <3>2, <4>1, <4>2 DEF Unbeaten
      <3>3. CASE ~(Rules!Matches(rows[i], alert) /\ Rules!Beats(rows[i], b))
        <4>1. best[i] = b /\ best[i] # None
          BY <2>3, <2>6, <3>3
        <4> QED
          BY <2>1, <3>1, <3>3, <4>1 DEF Unbeaten
      <3> QED
        BY <3>2, <3>3
    <2> QED
      BY <2>5, <2>6
  <1>6. fails = {}
    <2> SUFFICES ASSUME fails # {} PROVE FALSE
      OBVIOUS
    <2>1. 0 \notin fails /\ fails \subseteq 0..Len(rows)
      BY <1>4
    <2>2. PICK i \in 1..Len(rows) : i \in fails /\ i - 1 \in 0..Len(rows) /\ i - 1 \notin fails
      <3> HIDE DEF fails
      <3> QED
        BY <1>1, <2>1, FirstFailure
    <2> HIDE DEF Told
    <2> QED
      BY <1>5, <2>2
  <1>7. Told(Len(rows))
    <2> HIDE DEF Told
    <2> QED
      BY <1>1, <1>6
  <1>8. Met(Len(rows)) = ToSet(rows)
    BY <1>1 DEF ToSet
  <1> HIDE DEF Met
  <1> QED
    BY <1>2, <1>7, <1>8

\* An unbeaten rule that comes first stays the best.
LEMMA FirstUnbeatenStays ==
  ASSUME NEW rules, \A r \in rules : r # None, NEW rows \in Seq(rules), NEW alert,
         rows # <<>>, rows[1] \in Unbeaten(ToSet(rows), alert)
  PROVE  Rules!BestRule(rows, alert) = rows[1]
  <1>1. /\ Len(rows) \in Nat /\ Len(rows) > 0 /\ DOMAIN rows = 1..Len(rows)
        /\ \A i \in 1..Len(rows) : rows[i] \in rules /\ rows[i] \in ToSet(rows)
    BY DEF ToSet
  <1>2. PICK best :
          /\ best = [i \in 0..Len(rows) |->
                       IF i = 0 THEN None ELSE Rules!Consider(best[i - 1], rows[i], alert)]
          /\ Rules!BestRule(rows, alert) = best[Len(rows)]
    BY <1>1, LoopRuns
  <1>3. /\ best[0] = None
        /\ \A i \in 1..Len(rows) : best[i] = Rules!Consider(best[i - 1], rows[i], alert)
    <2>1. \A i \in 0..Len(rows) :
            best[i] = IF i = 0 THEN None ELSE Rules!Consider(best[i - 1], rows[i], alert)
      BY <1>2
    <2> QED
      BY <1>1, <2>1
  <1> DEFINE fails == {i \in 0..Len(rows) : i > 0 /\ best[i] # rows[1]}
  <1>4. fails = {}
    <2> SUFFICES ASSUME fails # {} PROVE FALSE
      OBVIOUS
    <2>1. 0 \notin fails /\ fails \subseteq 0..Len(rows)
      OBVIOUS
    <2>2. PICK i \in 1..Len(rows) : i \in fails /\ i - 1 \in 0..Len(rows) /\ i - 1 \notin fails
      <3> HIDE DEF fails
      <3> QED
        BY <1>1, <2>1, FirstFailure
    <2>3. best[i] = Rules!Consider(best[i - 1], rows[i], alert) /\ best[i] # rows[1]
      BY <1>3, <2>2
    <2>4. i = 1 \/ best[i - 1] = rows[1]
      BY <2>2
    <2>5. CASE i = 1
      BY <1>3, <2>3, <2>5 DEF Rules!Consider, Unbeaten
    <2>6. CASE best[i - 1] = rows[1]
      <3>1. Rules!Matches(rows[i], alert) => ~Rules!Beats(rows[i], rows[1])
        BY <1>1 DEF Unbeaten
      <3> QED
        BY <1>1, <2>3, <2>6, <3>1 DEF Rules!Consider
    <2> QED
      BY <2>4, <2>5, <2>6
  <1> QED
    BY <1>1, <1>2, <1>4

\* Level by level and priority by priority, or by the loop's comparison of two
\* rules: the rules that come first are the same.
LEMMA UnbeatenComeFirst ==
  ASSUME NEW rules, \A r \in rules : r.priority \in Int, NEW alert
  PROVE  Rules!ByPrecedence(rules, alert) = Unbeaten(rules, alert)
  <1> DEFINE M == {r \in rules : Rules!Matches(r, alert)}
             At(i) == {r \in M : Rules!Specificity(r) = 4 - i}
             levels == <<Rules!Level(M, TRUE, TRUE), Rules!Level(M, TRUE, FALSE),
                         Rules!Level(M, FALSE, TRUE), Rules!Level(M, FALSE, FALSE)>>
  <1>1. /\ Rules!Level(M, TRUE, TRUE) = At(1)
        /\ Rules!Level(M, TRUE, FALSE) = At(2)
        /\ Rules!Level(M, FALSE, TRUE) = At(3)
        /\ Rules!Level(M, FALSE, FALSE) = At(4)
    <2> HIDE DEF M
    <2> QED
      BY DEF Rules!Level, Rules!Specificity
  <1>2. \A i \in 1..4 : levels[i] = At(i)
    <2> HIDE DEF At
    <2>1. levels[1] = At(1) /\ levels[2] = At(2) /\ levels[3] = At(3) /\ levels[4] = At(4)
      BY <1>1
    <2> HIDE DEF levels
    <2>2. \A i \in 1..4 : i = 1 \/ i = 2 \/ i = 3 \/ i = 4
      OBVIOUS
    <2> QED
      BY <2>1, <2>2
  <1>3. Rules!ByPrecedence(rules, alert) =
          UNION {Rules!Leading(levels[i]) :
                   i \in {j \in 1..4 : \A k \in 1..(j - 1) : levels[k] = {}}}
    BY DEF Rules!ByPrecedence
  <1> HIDE DEF levels
  <1>4. \A r \in M : Rules!Specificity(r) \in 0..3 /\ r.priority \in Int
    BY DEF Rules!Specificity
  <1>5. ASSUME NEW r \in Rules!ByPrecedence(rules, alert)
        PROVE  r \in Unbeaten(rules, alert)
    <2>1. PICK i \in 1..4 : /\ \A k \in 1..(i - 1) : levels[k] = {}
                            /\ r \in Rules!Leading(levels[i])
      BY <1>3
    <2>2. /\ r \in M /\ Rules!Specificity(r) = 4 - i
          /\ \A q \in M : Rules!Specificity(q) = 4 - i => r.priority <= q.priority
      BY <1>2, <2>1 DEF Rules!Leading
    <2>3. ASSUME NEW q \in M, Rules!Beats(q, r)
          PROVE  FALSE
      <3>1. Rules!Specificity(q) > 4 - i
        BY <1>4, <2>2, <2>3 DEF Rules!Beats
      <3>2. 4 - Rules!Specificity(q) \in 1..(i - 1)
        BY <1>4, <3>1
      <3>3. q \in levels[4 - Rules!Specificity(q)]
        BY <1>2, <1>4, <3>2
      <3> QED
        BY <2>1, <3>2, <3>3
    <2> QED
      BY <2>2, <2>3 DEF Unbeaten
  <1>6. ASSUME NEW r \in Unbeaten(rules, alert)
        PROVE  r \in Rules!ByPrecedence(rules, alert)
    <2>1. r \in M /\ \A q \in M : ~Rules!Beats(q, r)
      BY DEF Unbeaten
    <2>2. PICK i \in 1..4 : Rules!Specificity(r) = 4 - i
      <3>1. 4 - Rules!Specificity(r) \in 1..4
        BY <1>4, <2>1
      <3>2. Rules!Specificity(r) = 4 - (4 - Rules!Specificity(r))
        BY <1>4, <2>1
      <3> QED
        BY <3>1, <3>2
    <2>3. \A q \in M : Rules!Specificity(q) <= 4 - i
      BY <1>4, <2>1, <2>2 DEF Rules!Beats
    <2>4. \A k \in 1..(i - 1) : levels[k] = {}
      <3> SUFFICES ASSUME NEW k \in 1..(i - 1), NEW q \in levels[k]
                   PROVE  FALSE
        OBVIOUS
      <3>1. q \in M /\ Rules!Specificity(q) = 4 - k
        BY <1>2
      <3> QED
        BY <2>3, <3>1
    <2>5. r \in Rules!Leading(levels[i])
      <3>1. r \in levels[i] /\ levels[i] = At(i)
        BY <1>2, <2>1, <2>2
      <3>2. \A q \in At(i) : r.priority <= q.priority
        BY <1>4, <2>1, <2>2 DEF Rules!Beats
      <3> QED
        BY <3>1, <3>2 DEF Rules!Leading
    <2> QED
      BY <1>3, <2>4, <2>5
  <1> QED
    BY <1>5, <1>6

\* The orders of a finite set run through all of it, each of its members leads
\* one, and there always is one.
LEMMA Orders ==
  ASSUME NEW S, IsFiniteSet(S)
  PROVE  /\ \A order \in SetToSeqs(S) : order \in Seq(S) /\ ToSet(order) = S
         /\ \A x \in S : \E order \in SetToSeqs(S) : order # <<>> /\ order[1] = x
         /\ \E order \in SetToSeqs(S) : TRUE
  <1> DEFINE n == Cardinality(S)
  <1>1. n \in Nat /\ IsFiniteSet(1..n) /\ Cardinality(1..n) = n
    BY FS_CardinalityType, FS_Interval
  <1>2. PICK f \in Bijection(1..n, S) : TRUE
    BY FS_CardinalityType DEF ExistsBijection
  <1>3. /\ f \in [1..n -> S]
        /\ \A i, j \in 1..n : f[i] = f[j] => i = j
        /\ \A x \in S : \E i \in 1..n : f[i] = x
    BY DEF Bijection, Injection, Surjection, IsInjective
  <1> HIDE DEF n
  <1>4. SetToSeqs(S) = {g \in [1..n -> S] : \A i, j \in 1..n : i # j => g[i] # g[j]}
    BY DEF SetToSeqs, n
  <1>5. f \in SetToSeqs(S)
    BY <1>3, <1>4
  <1>6. ASSUME NEW order \in SetToSeqs(S)
        PROVE  order \in Seq(S) /\ ToSet(order) = S
    <2>1. /\ order \in [1..n -> S]
          /\ \A i, j \in 1..n : order[i] = order[j] => i = j
      BY <1>4
    <2>2. order \in Injection(1..n, S)
      BY <2>1 DEF Injection, IsInjective
    <2>3. order \in Surjection(1..n, S)
      BY <1>1, <2>2, FS_Injection DEF n
    <2>4. \A x \in S : \E i \in 1..n : order[i] = x
      BY <2>3 DEF Surjection
    <2>5. ToSet(order) = S
      BY <2>1, <2>4 DEF ToSet
    <2> QED
      BY <1>1, <2>1, <2>5
  <1>7. ASSUME NEW x \in S
        PROVE  \E order \in SetToSeqs(S) : order # <<>> /\ order[1] = x
    <2>1. PICK k \in 1..n : f[k] = x
      BY <1>3
    <2>2. 1 \in 1..n
      BY <1>1, <2>1
    <2> DEFINE order == [i \in 1..n |-> IF i = 1 THEN x ELSE IF i = k THEN f[1] ELSE f[i]]
    <2>3. order \in [1..n -> S] /\ order[1] = x
      BY <1>3, <2>2
    <2>4. \A i, j \in 1..n : i # j => order[i] # order[j]
      BY <1>3, <2>1, <2>2
    <2>5. order # <<>>
      BY <2>2, <2>3
    <2> HIDE DEF order
    <2> QED
      BY <1>4, <2>3, <2>4, <2>5
  <1> QED
    BY <1>5, <1>6, <1>7

\* resolve_routing returns an owner the precedence names.
LEMMA OwnerNamed ==
  ASSUME NEW rules, \A r \in rules : r # None /\ r.priority \in Int,
         NEW rows \in Seq(rules), ToSet(rows) = rules, NEW alert
  PROVE  Rules!TargetRole(rows, alert) \in Rules!OwnersByPrecedence(rules, alert)
  <1>1. Rules!ByPrecedence(rules, alert) = Unbeaten(rules, alert)
    BY UnbeatenComeFirst
  <1>2. IF Rules!BestRule(rows, alert) = None
        THEN \A r \in rules : ~Rules!Matches(r, alert)
        ELSE Rules!BestRule(rows, alert) \in Unbeaten(rules, alert)
    BY BestIsUnbeaten
  <1>3. (\A r \in rules : ~Rules!Matches(r, alert)) => Unbeaten(rules, alert) = {}
    BY DEF Unbeaten
  <1> QED
    BY <1>1, <1>2, <1>3 DEF Rules!TargetRole, Rules!OwnersByPrecedence

\* Whatever order the query returns the rules in, the owner is one that the
\* precedence names, and it may be any of them.
LEMMA AnyOrder ==
  ASSUME NEW rules, IsFiniteSet(rules),
         \A r \in rules : r # None /\ r.priority \in Int, NEW alert
  PROVE  {Rules!TargetRole(order, alert) : order \in SetToSeqs(rules)}
           = Rules!OwnersByPrecedence(rules, alert)
  <1>1. Rules!ByPrecedence(rules, alert) = Unbeaten(rules, alert)
    BY UnbeatenComeFirst
  <1>2. \A order \in SetToSeqs(rules) :
          Rules!TargetRole(order, alert) \in Rules!OwnersByPrecedence(rules, alert)
    BY Orders, OwnerNamed
  <1>3. ASSUME NEW role \in Rules!OwnersByPrecedence(rules, alert)
        PROVE  \E order \in SetToSeqs(rules) : Rules!TargetRole(order, alert) = role
    <2>1. CASE Unbeaten(rules, alert) = {}
      <3>1. PICK order \in SetToSeqs(rules) : TRUE
        BY Orders
      <3>2. Rules!OwnersByPrecedence(rules, alert) = {"field_officer"}
        BY <1>1, <2>1 DEF Rules!OwnersByPrecedence
      <3> QED
        BY <1>2, <3>1, <3>2
    <2>2. CASE Unbeaten(rules, alert) # {}
      <3>1. PICK r \in Unbeaten(rules, alert) : r.role = role
        BY <1>1, <2>2 DEF Rules!OwnersByPrecedence
      <3>2. r \in rules /\ r # None
        BY <3>1 DEF Unbeaten
      <3>3. PICK order \in SetToSeqs(rules) : order # <<>> /\ order[1] = r
        BY <3>2, Orders
      <3>4. order \in Seq(rules) /\ ToSet(order) = rules
        BY <3>3, Orders
      <3>5. Rules!BestRule(order, alert) = r
        BY <3>1, <3>3, <3>4, FirstUnbeatenStays
      <3> QED
        BY <3>1, <3>2, <3>3, <3>5 DEF Rules!TargetRole
    <2> QED
      BY <2>1, <2>2
  <1> QED
    BY <1>2, <1>3

\* The first assignment of a case is the owner that routing named.
OpenedAsRouted ==
  \A a \in Alerts : assignments[a] # <<>> => assignments[a][1].role = RoutedTo[a]

\* Only the opening writes the first one: whoever escalates or assigns holds
\* the row of a case that has its own.
LEMMA OpenedAsRoutedStep ==
  ASSUME TypeOK, CallsKnown, SnapshotIsCurrent, CasesAccounted, OpenedAsRouted, [Next]_vars
  PROVE  OpenedAsRouted'
  <1>1. ASSUME UNCHANGED assignments
        PROVE  OpenedAsRouted'
    BY <1>1 DEF OpenedAsRouted
  <1>2. ASSUME NEW r \in Requests, NEW role, WriteAssignment(r, role),
               NEW a \in Alerts, call[r].alert = a,
               assignments[a] # <<>> \/ role = RoutedTo[a]
        PROVE  OpenedAsRouted'
    <2>1. PICK row : row = [role |-> role, by |-> r]
      OBVIOUS
    <2>2. /\ assignments'[a] = Append(assignments[a], row)
          /\ assignments[a] \in Seq(Assignment)
          /\ \A b \in Alerts \ {a} : assignments'[b] = assignments[b]
      BY <1>2, <2>1 DEF WriteAssignment, TypeOK
    <2>3. assignments[a] # <<>> => assignments'[a][1] = assignments[a][1]
      <3>1. assignments[a] # <<>> => 1 \in 1..Len(assignments[a])
        BY <2>2
      <3> QED
        BY <2>2, <3>1
    <2>4. assignments[a] = <<>> => assignments'[a][1] = row
      BY <2>2
    <2>5. row.role = role
      BY <2>1
    <2> QED
      BY <1>2, <2>2, <2>3, <2>4, <2>5 DEF OpenedAsRouted
  <1>3. ASSUME NEW r \in Requests, Escalate(r) \/ Assign(r)
        PROVE  OpenedAsRouted'
    <2>1. pc[r] = "locked"
      BY <1>3 DEF Escalate, Assign, Holds
    <2>2. call[r] \in Calls /\ cases[call[r].alert] \in CaseRow
      BY <2>1 DEF CallsKnown, SnapshotIsCurrent
    <2>3. PICK a \in Alerts : call[r].alert = a
      BY <2>2, CallFields
    <2>4. assignments[a] # <<>>
      BY <2>2, <2>3, NoneAssumption DEF CasesAccounted, Accounted
    <2>5. PICK role : role = call[r].role
      OBVIOUS
    <2>6. WriteAssignment(r, role)
      BY <1>3, <2>5 DEF Escalate, Assign, WriteAssignment
    <2> QED
      BY <1>2, <2>3, <2>4, <2>6
  <1>4. ASSUME NEW r \in Requests, InsertCase(r)
        PROVE  OpenedAsRouted'
    <2>1. pc[r] = "started" /\ WriteAssignment(r, RoutedTo[call[r].alert])
      BY <1>4 DEF InsertCase
    <2>2. PICK a \in Alerts : call[r].alert = a
      BY <2>1, CallFields DEF CallsKnown
    <2> QED
      BY <1>2, <2>1, <2>2
  <1> QED
    BY <1>1, <1>3, <1>4 DEF Next, Serve, Quiescent, Forbid, Replay, OpenExisting, Begin, Submit,
       Refuse, LockRow, Acknowledge, Resolve, ResolveAborted, AddNote, AddReview, AddEntry,
       Abort, vars, tables

\* A case opens with an owner that the precedence of the routing rules names
\* (resolve_routing), for any rules in any order, and only rules of one level
\* and one priority leave it to the order which.
THEOREM RoutingFollowsPrecedence == Spec => []RoutedByPrecedence
  <1>1. Init => OpenedAsRouted
    BY DEF Init, OpenedAsRouted
  <1>2. TypeOK /\ CallsKnown /\ SnapshotIsCurrent /\ CasesAccounted /\ OpenedAsRouted
          /\ [Next]_vars => OpenedAsRouted'
    BY OpenedAsRoutedStep
  <1>3. OpenedAsRouted => RoutedByPrecedence
    <2> SUFFICES ASSUME OpenedAsRouted, NEW a \in Alerts
                 PROVE  LET owners == Rules!OwnersByPrecedence(ToSet(RuleRows), AboutWhat[a])
                        IN /\ assignments[a] # <<>> => assignments[a][1].role \in owners
                           /\ PossibleOwners[a] = owners
      BY DEF RoutedByPrecedence
    <2>1. PICK alert : alert = AboutWhat[a]
      OBVIOUS
    <2>2. RoutedTo[a] = Rules!TargetRole(RuleRows, alert)
      BY <2>1, DeskAssumption DEF Routed
    <2>3. RoutedTo[a] \in Rules!OwnersByPrecedence(ToSet(RuleRows), alert)
      BY <2>2, RulesAssumption, OwnerNamed
    <2>4. IsFiniteSet(ToSet(RuleRows))
      <3>1. DOMAIN RuleRows = 1..Len(RuleRows) /\ Len(RuleRows) \in Nat
        BY RulesAssumption
      <3>2. IsFiniteSet(DOMAIN RuleRows)
        BY <3>1, FS_Interval
      <3>3. RuleRows \in Surjection(DOMAIN RuleRows, ToSet(RuleRows))
        BY <3>1, RulesAssumption DEF Surjection, ToSet
      <3> QED
        BY <3>2, <3>3, FS_Surjection
    <2>5. PossibleOwners[a] = Rules!OwnersByPrecedence(ToSet(RuleRows), alert)
      BY <2>1, <2>4, RulesAssumption, AnyOrder DEF PossibleOwners
    <2> QED
      BY <2>1, <2>3, <2>5 DEF OpenedAsRouted
  <1> QED
    BY <1>1, <1>2, <1>3, TypeCorrect, RequestsKnowTheirCalls, SnapshotCurrent,
       CasesStayAccounted, PTL DEF Spec
=============================================================================
