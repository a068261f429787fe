-------------------------- MODULE DashboardProofs --------------------------
(***************************************************************************)
(* Proofs about Dashboard, for every set of runs, providers and calls.     *)
(*                                                                         *)
(* The invariant is that tables and uncommitted work are finite and well   *)
(* typed, that every balance of a provider in a table, or in the work of a *)
(* call, has an assessment of its feed for the same run beside it, and     *)
(* that a run has no row before the call that creates it ends.             *)
(***************************************************************************)
EXTENDS Dashboard, Extremes, FiniteSetTheorems, TLAPS

\* Every balance has an assessment of its feed in the same run.
Covered(table, assessed) ==
  \A s \in table : s.reserve \in Providers =>
    \E a \in assessed : a.run = s.run /\ a.provider = s.reserve

Assessed ==
  /\ Covered(rows, assessments)
  /\ \A c \in Calls : Covered(work[c].rows, work[c].assessments)

Finite ==
  /\ IsFiniteSet(rows)
  /\ \A c \in Calls : IsFiniteSet(work[c].rows)

\* Only analyses look at feeds.
Analysing == \A c \in Calls : todo[c] # <<>> => c.kind \in Engines

\* A run has no row before the call that creates it ends.
NotYetCreated ==
  \A c \in Calls : c.kind = "create" /\ state[c] # "done" => started[c.run] = 0

IInv == TypeOK /\ Finite /\ Analysing /\ Assessed /\ NotYetCreated

-----------------------------------------------------------------------------
(* Typing. *)

\* The engine gives one of the four statuses.
LEMMA StatusType ==
  ASSUME NEW S, NEW T, NEW t PROVE Quality!FeedStatus(S, T, t) \in Statuses
  BY DEF Quality!FeedStatus, Statuses

\* What batches leave behind has the type of the tables, is finite, and assesses
\* every feed it brings a balance of.
LEMMA IngestedType ==
  ASSUME NEW c \in Calls, NEW from \in Nat
  PROVE LET in == Ingested(c.run, c.batches, from) IN
        /\ in.rows \subseteq Row /\ IsFiniteSet(in.rows)
        /\ in.assessments \subseteq Assessment
        /\ Covered(in.rows, in.assessments)
<1> DEFINE B == c.batches
<1> DEFINE part(i) == {[run |-> c.run, reserve |-> x.reserve, at |-> x.at, balance |-> x.balance,
                        received |-> from + i] : x \in B[i].rows}
<1> DEFINE in == Ingested(c.run, c.batches, from)
<1>1. /\ c.run \in Runs
      /\ B \in Seq({b \in Batch : Carried(b)})
  BY CallsAssumption DEF CallType
<1>2. \A i \in DOMAIN B : i \in Nat /\ B[i] \in Batch /\ Carried(B[i])
  BY <1>1
<1>3. in.rows = UNION {part(i) : i \in DOMAIN B}
  BY DEF Ingested
<1>4. in.assessments =
        {[run |-> c.run, provider |-> B[i].provider, status |-> BatchStatus(B[i]),
          assessed |-> from + i, by |-> "batch",
          samples |-> B[i].accepted + B[i].rejected] : i \in DOMAIN B}
  BY DEF Ingested
<1>5. in.rows \subseteq Row
  BY <1>1, <1>2, <1>3 DEF Batch, Row
<1>6. in.assessments \subseteq Assessment
  BY <1>1, <1>2, <1>4 DEF Batch, Assessment, BatchStatus, Statuses
<1>7. IsFiniteSet(in.rows)
  <2>1. DOMAIN B = 1..Len(B) /\ Len(B) \in Nat
    BY <1>1
  <2>2. IsFiniteSet(DOMAIN B)
    BY <2>1, FS_Interval
  <2>3. \A i \in DOMAIN B : IsFiniteSet(part(i))
    <3> SUFFICES ASSUME NEW i \in DOMAIN B PROVE IsFiniteSet(part(i))
      OBVIOUS
    <3>1. IsFiniteSet(B[i].rows)
      BY FiniteBatches
    <3> DEFINE f == [x \in B[i].rows |->
                       [run |-> c.run, reserve |-> x.reserve, at |-> x.at,
                        balance |-> x.balance, received |-> from + i]]
    <3>2. f \in Surjection(B[i].rows, part(i))
      BY DEF Surjection
    <3> QED BY ONLY <3>1, <3>2, FS_Surjection
  <2>4. IsFiniteSet({part(i) : i \in DOMAIN B})
    <3> DEFINE f == [i \in DOMAIN B |-> part(i)]
    <3> HIDE DEF part
    <3>1. f \in Surjection(DOMAIN B, {part(i) : i \in DOMAIN B})
      BY DEF Surjection
    <3> QED BY ONLY <2>2, <3>1, FS_Surjection
  <2>5. \A S \in {part(i) : i \in DOMAIN B} : IsFiniteSet(S)
    BY <2>3
  <2> HIDE DEF part
  <2> QED BY <1>3, <2>4, <2>5, FS_UNION
<1>8. Covered(in.rows, in.assessments)
  <2> SUFFICES ASSUME NEW s \in in.rows, s.reserve \in Providers
               PROVE \E a \in in.assessments : a.run = s.run /\ a.provider = s.reserve
    BY DEF Covered
  <2>1. PICK i \in DOMAIN B : s \in part(i)
    BY <1>3
  <2>2. PICK x \in B[i].rows : s.run = c.run /\ s.reserve = x.reserve
    BY <2>1
  <2>3. s.reserve = B[i].provider
    BY <1>2, <2>2, FreshNames DEF Carried
  <2> DEFINE a == [run |-> c.run, provider |-> B[i].provider, status |-> BatchStatus(B[i]),
                   assessed |-> from + i, by |-> "batch",
                   samples |-> B[i].accepted + B[i].rejected]
  <2>4. a \in in.assessments
    BY <1>4
  <2>5. a.run = s.run /\ a.provider = s.reserve
    BY <2>2, <2>3
  <2> QED BY ONLY <2>4, <2>5
<1> QED BY <1>5, <1>6, <1>7, <1>8

\* The end of the window is a moment.
LEMMA WindowEndType ==
  ASSUME NEW run, TypeOK PROVE WindowEnd(run) \in Nat
<1> DEFINE times == {x.at : x \in {y \in rows : y.run = run}}
<1> DEFINE newest == {t \in times : \A u \in times : u <= t}
<1> DEFINE one == CHOOSE t \in newest : TRUE
<1>1. newest \subseteq Nat
  BY DEF TypeOK, Row
<1>2. WindowEnd(run) = IF newest = {} THEN 0 ELSE one
  BY DEF WindowEnd
<1>3. newest # {} => one \in newest
  <2> HIDE DEF newest
  <2> QED OBVIOUS
<1>4. CASE newest = {}
  BY <1>2, <1>4
<1>5. CASE newest # {}
  <2> HIDE DEF newest, one
  <2>1. WindowEnd(run) = one
    BY ONLY <1>2, <1>5
  <2>2. one \in Nat
    BY ONLY <1>1, <1>3, <1>5
  <2> QED BY ONLY <2>1, <2>2
<1> QED BY ONLY <1>4, <1>5

\* Each kind of step keeps the type of the state.
LEMMA TypeStep == TypeOK /\ Finite /\ Analysing /\ [Next]_vars => TypeOK'
<1> SUFFICES ASSUME TypeOK, Finite, Analysing, [Next]_vars PROVE TypeOK'
  OBVIOUS
<1> USE DEF TypeOK, tables
<1>0. CASE UNCHANGED vars
  BY <1>0 DEF vars
<1>1. ASSUME NEW c \in Calls, NEW start \in Nat, Ingest(c, start) PROVE TypeOK'
  <2> DEFINE in == Ingested(c.run, c.batches, clock)
  <2>1. in.rows \subseteq Row /\ in.assessments \subseteq Assessment
    BY IngestedType
  <2>2. [NoWork EXCEPT !.start = start, !.rows = in.rows,
                       !.assessments = in.assessments] \in Work
    BY <2>1 DEF NoWork, Work
  <2>3. clock' \in Nat \ {0}
    <3>1. c.batches \in Seq({b \in Batch : Carried(b)})
      BY CallsAssumption DEF CallType
    <3>2. Len(c.batches) \in Nat
      BY <3>1
    <3> QED BY <1>1, <3>2 DEF Ingest
  <2> HIDE DEF in
  <2> QED BY <1>1, <2>2, <2>3 DEF Ingest, in
<1>2. ASSUME NEW c \in Calls, Create(c) PROVE TypeOK'
  BY <1>1, <1>2 DEF Create
<1>3. ASSUME NEW c \in Calls, Add(c) PROVE TypeOK'
  BY <1>1, <1>3 DEF Add
<1>4. ASSUME NEW c \in Calls, StartCycle(c) PROVE TypeOK'
  <2> DEFINE end == WindowEnd(c.run)
  <2> DEFINE cycle == [run |-> c.run, engine |-> c.kind, start |-> clock, end |-> end]
  <2> DEFINE cash == {[run |-> c.run, reserve |-> r, start |-> clock, asOf |-> end] :
                        r \in {Cash} \cap Forecast(c)}
  <2>1. c.run \in Runs /\ c.kind \in Engines
    BY <1>4, CallsAssumption DEF CallType, StartCycle
  <2>2. end \in Nat
    BY WindowEndType
  <2>3. cycle \in Cycle /\ cash \subseteq Projection
    BY <2>1, <2>2 DEF Cycle, Projection, Forecast
  <2>4. [NoWork EXCEPT !.cycles = {cycle}, !.projections = cash] \in Work
    BY <2>3 DEF NoWork, Work
  <2>5. Order \in Seq(Providers)
    BY OrderAssumption
  <2> HIDE DEF end, cycle, cash
  <2> QED BY <1>4, <2>4, <2>5 DEF StartCycle, end, cycle, cash
<1>5. ASSUME NEW c \in Calls, Replay(c) PROVE TypeOK'
  BY <1>5 DEF Replay
<1>6. ASSUME NEW c \in Calls, Look(c) PROVE TypeOK'
  <2> DEFINE p == Head(todo[c])
  <2> DEFINE seen == RowsOf(c.run, p)
  <2>1. p \in Providers /\ Tail(todo[c]) \in Seq(Providers)
    BY <1>6 DEF Look
  <2>2. PICK y \in work[c].cycles :
          work' = [work EXCEPT
            ![c].assessments = @ \cup
               {[run |-> c.run, provider |-> p, assessed |-> clock, by |-> c.kind,
                 status |-> Quality!FeedStatus(Snapshots(seen), Transactions(seen), y.end),
                 samples |-> Cardinality(seen)]},
            ![c].projections = @ \cup
               {[run |-> c.run, reserve |-> r, start |-> y.start, asOf |-> y.end] :
                  r \in {p} \cap Forecast(c)}]
    BY <1>6 DEF Look
  <2> DEFINE a == [run |-> c.run, provider |-> p, assessed |-> clock, by |-> c.kind,
                   status |-> Quality!FeedStatus(Snapshots(seen), Transactions(seen), y.end),
                   samples |-> Cardinality(seen)]
  <2> DEFINE forecast == {[run |-> c.run, reserve |-> r, start |-> y.start, asOf |-> y.end] :
                            r \in {p} \cap Forecast(c)}
  <2>3. y \in Cycle /\ work[c] \in Work
    BY DEF Work
  <2>4. c.run \in Runs /\ c.kind \in {"create", "add"} \cup Engines
    BY CallsAssumption DEF CallType
  <2>5. Cardinality(seen) \in Nat
    <3>1. IsFiniteSet(seen)
      BY FS_Subset DEF Finite, RowsOf
    <3> QED BY <3>1, FS_CardinalityType
  <2>6. Quality!FeedStatus(Snapshots(seen), Transactions(seen), y.end) \in Statuses
    BY StatusType
  <2>7. c.kind \in Engines
    BY <1>6 DEF Look, Analysing
  <2>8. a \in Assessment
    BY <2>1, <2>4, <2>5, <2>6, <2>7 DEF Assessment
  <2>9. forecast \subseteq Projection
    BY <2>1, <2>3, <2>4 DEF Projection, Forecast, Cycle
  <2> HIDE DEF a, forecast
  <2>10. [work[c] EXCEPT !.assessments = @ \cup {a},
                         !.projections = @ \cup forecast] \in Work
    BY <2>3, <2>8, <2>9 DEF Work
  <2>11. work' = [work EXCEPT ![c] = [work[c] EXCEPT !.assessments = @ \cup {a},
                                         !.projections = @ \cup forecast]]
    BY <2>2 DEF a, forecast
  <2>12. work' \in [Calls -> Work]
    BY <2>10, <2>11
  <2> QED BY <1>6, <2>1, <2>12 DEF Look
<1>7. ASSUME NEW c \in Calls, Commit(c) PROVE TypeOK'
  <2>1. work[c] \in Work /\ c.run \in Runs
    BY CallsAssumption DEF CallType
  <2>2. NoWork \in Work
    BY DEF NoWork, Work
  <2>3. started' \in [Runs -> Nat]
    BY <1>7, <2>1 DEF Commit, Work
  <2> QED BY <1>7, <2>1, <2>2, <2>3 DEF Commit, Work
<1>8. ASSUME NEW c \in Calls, Abort(c) PROVE TypeOK'
  BY <1>8 DEF Abort, NoWork, Work
<1> QED BY <1>0, <1>2, <1>3, <1>4, <1>5, <1>6, <1>7, <1>8 DEF Next

-----------------------------------------------------------------------------
(* The invariant. *)

LEMMA InitIInv == Init => IInv
<1> SUFFICES ASSUME Init PROVE IInv
  OBVIOUS
<1> USE DEF Init
<1>1. TypeOK
  BY DEF TypeOK, NoWork, Work
<1>2. Finite
  BY FS_EmptySet DEF Finite, NoWork
<1>3. Analysing
  BY DEF Analysing
<1>4. Assessed
  BY DEF Assessed, Covered, NoWork
<1>5. NotYetCreated
  BY CallsAssumption DEF NotYetCreated, CallType
<1> QED BY <1>1, <1>2, <1>3, <1>4, <1>5 DEF IInv

\* Runs are created once: only the commit of its create gives a run a start, and
\* a start is never taken back.
LEMMA StartedStep ==
  TypeOK /\ NotYetCreated /\ [Next]_vars =>
    NotYetCreated' /\ (\A run \in Runs : started[run] <= started'[run])
<1> SUFFICES ASSUME TypeOK, NotYetCreated, [Next]_vars
             PROVE NotYetCreated' /\ (\A run \in Runs : started[run] <= started'[run])
  OBVIOUS
<1> USE DEF TypeOK, NotYetCreated, tables
<1>0. CASE UNCHANGED vars
  BY <1>0 DEF vars
<1>1. ASSUME NEW c \in Calls, state[c] # "done", UNCHANGED started,
             \A d \in Calls \ {c} : state'[d] = state[d]
      PROVE NotYetCreated' /\ (\A run \in Runs : started[run] <= started'[run])
  BY <1>1
<1>2. ASSUME NEW c \in Calls, Create(c) \/ Add(c) \/ StartCycle(c) \/ Replay(c)
      PROVE NotYetCreated' /\ (\A run \in Runs : started[run] <= started'[run])
  <2>1. state[c] # "done" /\ UNCHANGED started
    BY <1>2 DEF Create, Add, StartCycle, Replay, Ingest, MayOpen
  <2>2. \A d \in Calls \ {c} : state'[d] = state[d]
    BY <1>2 DEF Create, Add, StartCycle, Replay, Ingest
  <2> QED BY <1>1, <2>1, <2>2
<1>3. ASSUME NEW c \in Calls, Look(c) \/ Abort(c)
      PROVE NotYetCreated' /\ (\A run \in Runs : started[run] <= started'[run])
  <2>1. state[c] # "done" /\ UNCHANGED started
    BY <1>3 DEF Look, Abort
  <2>2. \A d \in Calls \ {c} : state'[d] = state[d]
    BY <1>3 DEF Look, Abort
  <2> QED BY <1>1, <2>1, <2>2
<1>4. ASSUME NEW c \in Calls, Commit(c)
      PROVE NotYetCreated' /\ (\A run \in Runs : started[run] <= started'[run])
  <2>1. state[c] = "open" /\ state' = [state EXCEPT ![c] = "done"]
    BY <1>4 DEF Commit
  <2>2. CASE c.kind # "create"
    <3>1. UNCHANGED started
      BY <1>4, <2>2 DEF Commit
    <3>2. \A d \in Calls \ {c} : state'[d] = state[d]
      BY <2>1
    <3> QED BY <1>1, <2>1, <3>1, <3>2
  <2>3. CASE c.kind = "create"
    <3>1. started' = [started EXCEPT ![c.run] = work[c].start] /\ started[c.run] = 0
      BY <1>4, <2>1, <2>3 DEF Commit
    <3>2. work[c].start \in Nat
      BY DEF Work
    <3>3. \A run \in Runs : started[run] <= started'[run]
      BY <3>1, <3>2
    <3>4. ASSUME NEW d \in Calls, d.kind = "create", state'[d] # "done"
          PROVE started'[d.run] = 0
      <4>1. d # c /\ state[d] # "done"
        BY <2>1, <3>4
      <4>2. d.run # c.run /\ started[d.run] = 0
        BY <2>3, <3>4, <4>1, RunsCreatedOnce
      <4>3. d.run \in Runs
        BY CallsAssumption DEF CallType
      <4> QED BY <3>1, <4>2, <4>3
    <3> QED BY <3>3, <3>4
  <2> QED BY <2>2, <2>3
<1> QED BY <1>0, <1>2, <1>3, <1>4 DEF Next

\* Rows are added to the tables and never taken away.
LEMMA TablesGrow ==
  [Next]_vars => rows \subseteq rows' /\ assessments \subseteq assessments'
                 /\ projections \subseteq projections'
BY DEF Next, vars, tables, Create, Add, Ingest, StartCycle, Replay, Look, Commit, Abort

\* Each kind of step keeps the tables finite, keeps looks to analyses and keeps
\* every balance assessed.
LEMMA RestStep == IInv /\ [Next]_vars => (Finite /\ Analysing /\ Assessed)'
<1> SUFFICES ASSUME IInv, [Next]_vars PROVE (Finite /\ Analysing /\ Assessed)'
  OBVIOUS
<1> USE DEF IInv, TypeOK, tables, Finite, Analysing, Assessed
<1>0. CASE UNCHANGED vars
  BY <1>0 DEF vars
<1>1. ASSUME NEW c \in Calls, NEW start \in Nat, Ingest(c, start)
      PROVE (Finite /\ Analysing /\ Assessed)'
  <2> DEFINE in == Ingested(c.run, c.batches, clock)
  <2>1. IsFiniteSet(in.rows) /\ Covered(in.rows, in.assessments)
    BY IngestedType
  <2> HIDE DEF in
  <2>2. work'[c].rows = in.rows /\ work'[c].assessments = in.assessments
    BY <1>1 DEF Ingest, NoWork, in
  <2>3. \A d \in Calls \ {c} : work'[d] = work[d]
    BY <1>1 DEF Ingest
  <2>4. UNCHANGED <<rows, assessments, todo>>
    BY <1>1 DEF Ingest
  <2> QED BY <2>1, <2>2, <2>3, <2>4
<1>2. ASSUME NEW c \in Calls, Create(c) PROVE (Finite /\ Analysing /\ Assessed)'
  BY <1>1, <1>2 DEF Create
<1>3. ASSUME NEW c \in Calls, Add(c) PROVE (Finite /\ Analysing /\ Assessed)'
  BY <1>1, <1>3 DEF Add
<1>4. ASSUME NEW c \in Calls, StartCycle(c) PROVE (Finite /\ Analysing /\ Assessed)'
  <2>1. work'[c].rows = {}
    BY <1>4 DEF StartCycle, NoWork
  <2>2. \A d \in Calls \ {c} : work'[d] = work[d] /\ todo'[d] = todo[d]
    BY <1>4 DEF StartCycle
  <2>3. UNCHANGED <<rows, assessments>> /\ c.kind \in Engines
    BY <1>4 DEF StartCycle
  <2>4. Finite' /\ Analysing'
    BY <2>1, <2>2, <2>3, FS_EmptySet
  <2>5. ASSUME NEW d \in Calls PROVE Covered(work'[d].rows, work'[d].assessments)
    <3>1. CASE d = c
      BY <2>1, <3>1 DEF Covered
    <3>2. CASE d # c
      <4>1. Covered(work[d].rows, work[d].assessments) /\ work'[d] = work[d]
        BY <2>2, <3>2
      <4> QED BY ONLY <4>1
    <3> QED BY <3>1, <3>2
  <2>6. Covered(rows', assessments')
    BY <2>3
  <2> QED BY <2>4, <2>5, <2>6 DEF Covered
<1>5. ASSUME NEW c \in Calls, Replay(c) PROVE (Finite /\ Analysing /\ Assessed)'
  BY <1>5 DEF Replay
<1>6. ASSUME NEW c \in Calls, Look(c) PROVE (Finite /\ Analysing /\ Assessed)'
  <2>1. /\ work'[c].rows = work[c].rows
        /\ work[c].assessments \subseteq work'[c].assessments
    BY <1>6 DEF Look, Work
  <2>2. \A d \in Calls \ {c} : work'[d] = work[d] /\ todo'[d] = todo[d]
    BY <1>6 DEF Look
  <2>3. UNCHANGED <<rows, assessments>> /\ todo[c] # <<>>
    BY <1>6 DEF Look
  <2>4. Finite'
    BY <2>1, <2>2, <2>3
  <2>5. Analysing'
    BY <2>2, <2>3
  <2>6. Assessed'
    <3>1. \A d \in Calls : /\ work'[d].rows = work[d].rows
                           /\ work[d].assessments \subseteq work'[d].assessments
      BY <2>1, <2>2
    <3>2. \A d \in Calls : Covered(work'[d].rows, work'[d].assessments)
      BY <3>1 DEF Covered
    <3>3. Covered(rows', assessments')
      BY <2>3
    <3> QED BY <3>2, <3>3 DEF Covered
  <2> QED BY <2>4, <2>5, <2>6
<1>7. ASSUME NEW c \in Calls, Commit(c) PROVE (Finite /\ Analysing /\ Assessed)'
  <2>1. /\ rows' = rows \cup work[c].rows
        /\ assessments' = assessments \cup work[c].assessments
        /\ work' = [work EXCEPT ![c] = NoWork] /\ todo' = todo
    BY <1>7 DEF Commit
  <2>2. IsFiniteSet(rows')
    BY <2>1, FS_Union
  <2>3. Covered(rows, assessments)' /\ NoWork.rows = {}
    BY <2>1 DEF Covered, NoWork
  <2>4. \A d \in Calls : work'[d] = NoWork \/ work'[d] = work[d]
    BY <2>1
  <2>5. Finite'
    BY <2>2, <2>3, <2>4, FS_EmptySet
  <2>6. Analysing'
    BY <2>1
  <2>7. Assessed'
    <3>1. \A d \in Calls : Covered(work'[d].rows, work'[d].assessments)
      <4> SUFFICES ASSUME NEW d \in Calls
                   PROVE Covered(work'[d].rows, work'[d].assessments)
        OBVIOUS
      <4>1. CASE work'[d] = NoWork
        BY <2>3, <4>1 DEF Covered
      <4>2. CASE work'[d] = work[d]
        <5>1. Covered(work[d].rows, work[d].assessments)
          OBVIOUS
        <5> QED BY ONLY <4>2, <5>1
      <4> QED BY <2>4, <4>1, <4>2
    <3> QED BY <2>3, <3>1 DEF Covered
  <2> QED BY <2>5, <2>6, <2>7
<1>8. ASSUME NEW c \in Calls, Abort(c) PROVE (Finite /\ Analysing /\ Assessed)'
  <2>1. /\ UNCHANGED <<rows, assessments>>
        /\ work' = [work EXCEPT ![c] = NoWork] /\ todo' = [todo EXCEPT ![c] = <<>>]
        /\ NoWork.rows = {}
    BY <1>8 DEF Abort, NoWork
  <2> QED BY <2>1, FS_EmptySet DEF Covered
<1> QED BY <1>0, <1>2, <1>3, <1>4, <1>5, <1>6, <1>7, <1>8 DEF Next

\* What the theorems below rest on, whatever calls overlap or are lost.
THEOREM Invariant == Spec => []IInv
<1>1. IInv /\ [Next]_vars => IInv'
  BY TypeStep, RestStep, StartedStep DEF IInv
<1> QED BY InitIInv, <1>1, PTL DEF Spec

\* Every table and every transaction under way holds rows of its type.
THEOREM TypeCorrect == Spec => []TypeOK
<1>1. IInv => TypeOK
  BY DEF IInv
<1> QED BY Invariant, <1>1, PTL

-----------------------------------------------------------------------------
(* What the dashboard shows. *)

\* Entries of the run started last are replaced by entries of a run started no
\* earlier, when a table grows and no start is taken back.
LEMMA LatestRunMovesForward ==
  ASSUME NEW table, NEW after, table \subseteq after,
         \A x \in after : x.run \in Runs, TypeOK, TypeOK',
         \A run \in Runs : started[run] <= started'[run],
         NEW x \in table,
         NEW y \in after, \A z \in after : started'[z.run] <= started'[y.run]
  PROVE started[x.run] <= started'[y.run]
<1>1. started[x.run] <= started'[x.run] /\ started'[x.run] <= started'[y.run]
  OBVIOUS
<1>2. /\ started[x.run] \in Nat /\ started'[x.run] \in Nat
      /\ started'[y.run] \in Nat
  BY DEF TypeOK
<1> QED BY ONLY <1>1, <1>2

\* What is shown of a reserve, its feed or its projection never goes back to a
\* run started earlier, nor a balance to an earlier moment of its run.
THEOREM CurrentStateMovesForwardAlways == Spec => CurrentStateMovesForward
<1> DEFINE Forward ==
      /\ \A r \in Reserves : \A s \in LatestBalance(r), u \in LatestBalance(r)' :
           /\ started[s.run] <= started'[u.run]
           /\ s.run = u.run => s.at <= u.at
      /\ \A p \in Providers : \A a \in CurrentHealth(p), b \in CurrentHealth(p)' :
           started[a.run] <= started'[b.run]
      /\ \A r \in Reserves : \A x \in LatestProjection(r), y \in LatestProjection(r)' :
           started[x.run] <= started'[y.run]
<1>1. IInv /\ IInv' /\ [Next]_vars => Forward
  <2> SUFFICES ASSUME IInv, IInv', [Next]_vars PROVE Forward
    OBVIOUS
  <2>1. \A run \in Runs : started[run] <= started'[run]
    BY StartedStep DEF IInv
  <2>2. /\ rows \subseteq rows' /\ assessments \subseteq assessments'
        /\ projections \subseteq projections'
    BY TablesGrow
  <2>3. TypeOK /\ TypeOK'
    BY DEF IInv
  <2>4. ASSUME NEW r \in Reserves, NEW s \in LatestBalance(r), NEW u \in LatestBalance(r)'
        PROVE /\ started[s.run] <= started'[u.run]
              /\ s.run = u.run => s.at <= u.at
    <3> DEFINE T == SnapshotsOf(r)
    <3> DEFINE A == SnapshotsOf(r)'
    <3>1. s \in T /\ u \in A
      BY DEF LatestBalance, LatestSnapshots, OfLatestRun
    <3>2. \A z \in A : started'[z.run] <= started'[u.run]
      BY DEF LatestBalance, LatestSnapshots, OfLatestRun
    <3>3. T \subseteq A
      BY <2>2 DEF SnapshotsOf
    <3>4. \A z \in A : z.run \in Runs /\ z.at \in Nat
      BY <2>3 DEF SnapshotsOf, TypeOK, Row
    <3>5. started[s.run] <= started'[u.run]
      BY <2>1, <2>3, <3>1, <3>2, <3>3, <3>4, LatestRunMovesForward
    <3>6. ASSUME s.run = u.run PROVE s.at <= u.at
      <4>1. s \in LatestSnapshots(r)'
        BY <3>1, <3>2, <3>3, <3>6 DEF LatestSnapshots, OfLatestRun
      <4>2. s.at < u.at \/ s.at = u.at
        BY <4>1 DEF LatestBalance
      <4> QED BY <3>1, <3>3, <3>4, <4>2
    <3> QED BY <3>5, <3>6
  <2>5. ASSUME NEW p \in Providers, NEW a \in CurrentHealth(p), NEW b \in CurrentHealth(p)'
        PROVE started[a.run] <= started'[b.run]
    <3> DEFINE T == {x \in assessments : x.provider = p}
    <3> DEFINE A == {x \in assessments' : x.provider = p}
    <3>1. a \in T /\ b \in A
      BY DEF CurrentHealth, OfLatestRun
    <3>2. \A z \in A : started'[z.run] <= started'[b.run]
      BY DEF CurrentHealth, OfLatestRun
    <3>3. T \subseteq A
      BY <2>2
    <3>4. \A z \in A : z.run \in Runs
      BY <2>3 DEF TypeOK, Assessment
    <3> QED BY <2>1, <2>3, <3>1, <3>2, <3>3, <3>4, LatestRunMovesForward
  <2>6. ASSUME NEW r \in Reserves, NEW x \in LatestProjection(r),
               NEW y \in LatestProjection(r)'
        PROVE started[x.run] <= started'[y.run]
    <3> DEFINE T == {z \in projections : z.reserve = r}
    <3> DEFINE A == {z \in projections' : z.reserve = r}
    <3>1. x \in T /\ y \in A
      BY DEF LatestProjection, OfLatestRun
    <3>2. \A z \in A : started'[z.run] <= started'[y.run]
      BY DEF LatestProjection, OfLatestRun
    <3>3. T \subseteq A
      BY <2>2
    <3>4. \A z \in A : z.run \in Runs
      BY <2>3 DEF TypeOK, Projection
    <3> QED BY <2>1, <2>3, <3>1, <3>2, <3>3, <3>4, LatestRunMovesForward
  <2> QED BY <2>4, <2>5, <2>6
<1>2. IInv /\ IInv' /\ [Next]_vars => [tables' # tables => Forward]_vars
  BY <1>1
<1> QED BY Invariant, <1>2, PTL DEF Spec, CurrentStateMovesForward

\* A balance is never shown beside the feed health of a run started earlier.
THEOREM HealthIsNoOlderAlways == Spec => []HealthIsNoOlder
<1>1. IInv => HealthIsNoOlder
  <2> SUFFICES ASSUME IInv, NEW p \in Providers, NEW s \in LatestBalance(p)
               PROVE /\ \E a \in assessments : a.provider = p
                     /\ \A a \in CurrentHealth(p) : started[s.run] <= started[a.run]
    BY DEF HealthIsNoOlder
  <2>1. s \in rows /\ s.reserve = p
    BY DEF LatestBalance, LatestSnapshots, OfLatestRun, SnapshotsOf
  <2>2. PICK b \in assessments : b.run = s.run /\ b.provider = p
    BY <2>1 DEF IInv, Assessed, Covered
  <2>3. \A a \in CurrentHealth(p) : started[b.run] <= started[a.run]
    BY <2>2 DEF CurrentHealth, OfLatestRun
  <2> QED BY <2>2, <2>3
<1> QED BY Invariant, <1>1, PTL

-----------------------------------------------------------------------------
(* Runs are told apart by their starts and assessments by their moments, an *)
(* engine's assessment is of rows that are still there, and a cycle of the *)
(* liquidity engine has looked at every reserve. *)

\* No two runs start at one reading of the clock, nor will they.
StartsApart ==
  /\ \A run \in Runs : started[run] < clock
  /\ \A run, o \in Runs : started[run] = started[o] /\ started[run] # 0 => run = o
  /\ \A c \in Calls : c.kind = "create" /\ state[c] = "open" =>
       /\ work[c].start \in 1..(clock - 1)
       /\ \A run \in Runs : started[run] # work[c].start
       /\ \A d \in Calls : /\ d.kind = "create" /\ state[d] = "open"
                           /\ work[d].start = work[c].start
                           => d = c

\* Only runs that exist have rows, cycles included, and a call writes only of its
\* run.
RowsOfStarted ==
  /\ \A x \in rows : started[x.run] # 0
  /\ \A c \in Calls : state[c] = "open" /\ c.kind # "create" => started[c.run] # 0
  /\ \A c \in Calls : \A x \in work[c].rows : x.run = c.run
  /\ \A c \in Calls : state[c] # "open" => work[c] = NoWork /\ todo[c] = <<>>

AllAssessments == assessments \cup UNION {work[c].assessments : c \in Calls}

\* Every assessment has a moment of its own.
MomentsApart ==
  /\ \A a \in AllAssessments : a.assessed < clock
  /\ \A a, b \in AllAssessments : a.assessed = b.assessed => a = b

\* What an engine says of a feed it says of rows that are still there.
SaidOf(a, seen) ==
  /\ a.samples = Cardinality(seen)
  /\ \E end \in Nat :
       a.status = Quality!FeedStatus(Snapshots(seen), Transactions(seen), end)
SaidOfRows ==
  \A a \in AllAssessments : a.by \in Engines =>
    \E seen \in SUBSET RowsOf(a.run, a.provider) : SaidOf(a, seen)

\* Providers a call has not looked at.
Left(c) == {todo[c][i] : i \in DOMAIN todo[c]}

HasProjection(table, run, r) == \E x \in table : x.run = run /\ x.reserve = r
HasAssessment(table, run, p) == \E a \in table : a.run = run /\ a.provider = p

\* A committed cycle of the liquidity engine has looked at all reserves; one under
\* way at those that are not left.
PanelsFilled ==
  /\ \A y \in cycles : y.engine = "liquidity" =>
       /\ \A r \in Reserves : HasProjection(projections, y.run, r)
       /\ \A p \in Providers : HasAssessment(assessments, y.run, p)
  /\ \A c \in Calls : \A y \in work[c].cycles :
       /\ y.run = c.run /\ y.engine = c.kind
       /\ c.kind = "liquidity" =>
            /\ \A r \in Reserves \ Left(c) : HasProjection(work[c].projections, c.run, r)
            /\ \A p \in Providers \ Left(c) : HasAssessment(work[c].assessments, c.run, p)
  /\ IsFiniteSet(projections)
  /\ \A c \in Calls : IsFiniteSet(work[c].projections)

PInv == StartsApart /\ RowsOfStarted /\ MomentsApart /\ SaidOfRows /\ PanelsFilled


-----------------------------------------------------------------------------
(* What each step changes. *)

\* The other calls are where they were.
OthersWait(c) ==
  \A d \in Calls \ {c} : state'[d] = state[d] /\ work'[d] = work[d] /\ todo'[d] = todo[d]

\* A delivery opens with what its batches leave behind.
LEMMA Opens ==
  ASSUME TypeOK, NEW c \in Calls, Create(c) \/ Add(c)
  PROVE /\ state[c] = "idle" /\ state'[c] = "open" /\ UNCHANGED <<tables, todo>>
        /\ Len(c.batches) \in Nat /\ clock' = clock + Len(c.batches) + 1
        /\ work'[c].rows = Ingested(c.run, c.batches, clock).rows
        /\ work'[c].assessments = Ingested(c.run, c.batches, clock).assessments
        /\ work'[c].cycles = {} /\ work'[c].projections = {}
        /\ \/ c.kind = "create" /\ work'[c].start = clock
           \/ c.kind = "add" /\ started[c.run] # 0
        /\ OthersWait(c)
<1>1. c.batches \in Seq({b \in Batch : Carried(b)})
  BY CallsAssumption DEF CallType
<1>2. Len(c.batches) \in Nat
  BY <1>1
<1>3. PICK start \in Nat :
        /\ Ingest(c, start) /\ MayOpen(c)
        /\ \/ c.kind = "create" /\ start = clock
           \/ c.kind = "add" /\ Exists(c.run)
  BY DEF Create, Add, TypeOK
<1> HIDE DEF Create, Add
<1> DEFINE in == Ingested(c.run, c.batches, clock)
<1>4. /\ state' = [state EXCEPT ![c] = "open"] /\ UNCHANGED <<tables, todo>>
      /\ work' = [work EXCEPT ![c] = [NoWork EXCEPT !.start = start, !.rows = in.rows,
                                                    !.assessments = in.assessments]]
      /\ clock' = clock + Len(c.batches) + 1
  BY <1>3 DEF Ingest
<1> HIDE DEF in
<1>5. work'[c] = [start |-> start, rows |-> in.rows, assessments |-> in.assessments,
                  cycles |-> {}, projections |-> {}]
  BY <1>4 DEF NoWork, TypeOK
<1>6. OthersWait(c)
  BY <1>4 DEF OthersWait, TypeOK
<1>7. state[c] = "idle" /\ state'[c] = "open"
  BY <1>3, <1>4 DEF MayOpen, TypeOK
<1>8. /\ work'[c].rows = in.rows /\ work'[c].assessments = in.assessments
      /\ work'[c].cycles = {} /\ work'[c].projections = {} /\ work'[c].start = start
  BY ONLY <1>5
<1>9. \/ c.kind = "create" /\ work'[c].start = clock
      \/ c.kind = "add" /\ started[c.run] # 0
  BY <1>3, <1>8 DEF Exists
<1> QED BY ONLY <1>2, <1>4, <1>6, <1>7, <1>8, <1>9 DEF in

\* An analysis opens with its cycle and, when it forecasts, the cash.
LEMMA Analyses ==
  ASSUME TypeOK, NEW c \in Calls, StartCycle(c)
  PROVE /\ state[c] = "idle" /\ state'[c] = "open" /\ UNCHANGED tables
        /\ clock' = clock + 1 /\ c.kind \in Engines /\ started[c.run] # 0
        /\ todo'[c] = Order
        /\ work'[c].rows = {} /\ work'[c].assessments = {}
        /\ work'[c].cycles =
             {[run |-> c.run, engine |-> c.kind, start |-> clock, end |-> WindowEnd(c.run)]}
        /\ work'[c].projections =
             {[run |-> c.run, reserve |-> r, start |-> clock, asOf |-> WindowEnd(c.run)] :
                r \in {Cash} \cap Forecast(c)}
        /\ OthersWait(c)
<1> DEFINE end == WindowEnd(c.run)
<1> DEFINE cyc == {[run |-> c.run, engine |-> c.kind, start |-> clock, end |-> end]}
<1> DEFINE pro == {[run |-> c.run, reserve |-> r, start |-> clock, asOf |-> end] :
                     r \in {Cash} \cap Forecast(c)}
<1>1. /\ c.kind \in Engines /\ MayOpen(c) /\ Exists(c.run)
      /\ state' = [state EXCEPT ![c] = "open"] /\ todo' = [todo EXCEPT ![c] = Order]
      /\ work' = [work EXCEPT ![c] = [NoWork EXCEPT !.cycles = cyc, !.projections = pro]]
      /\ clock' = clock + 1 /\ UNCHANGED tables
  BY DEF StartCycle
<1> HIDE DEF cyc, pro
<1>2. work'[c] = [start |-> 0, rows |-> {}, assessments |-> {}, cycles |-> cyc,
                  projections |-> pro]
  BY <1>1 DEF NoWork, TypeOK
<1>3. OthersWait(c)
  BY <1>1 DEF OthersWait, TypeOK
<1>4. state[c] = "idle" /\ state'[c] = "open" /\ todo'[c] = Order /\ started[c.run] # 0
  BY <1>1 DEF MayOpen, TypeOK, Exists
<1>5. /\ work'[c].rows = {} /\ work'[c].assessments = {}
      /\ work'[c].cycles = cyc /\ work'[c].projections = pro
  BY ONLY <1>2
<1> QED BY ONLY <1>1, <1>3, <1>4, <1>5 DEF cyc, pro

\* A look adds the assessment of one feed, of the rows it has by now, and its
\* forecast.
LEMMA Looks ==
  ASSUME TypeOK, Analysing, NEW c \in Calls, Look(c)
  PROVE /\ state[c] = "open" /\ state'[c] = "open" /\ UNCHANGED tables
        /\ clock' = clock + 1 /\ c.kind \in Engines
        /\ todo[c] # <<>> /\ todo'[c] = Tail(todo[c]) /\ Head(todo[c]) \in Providers
        /\ work'[c].rows = work[c].rows /\ work'[c].cycles = work[c].cycles
        /\ work'[c].start = work[c].start
        /\ \E y \in work[c].cycles :
             LET p == Head(todo[c])
                 seen == RowsOf(c.run, p)
             IN /\ y.end \in Nat
                /\ work'[c].assessments = work[c].assessments \cup
                     {[run |-> c.run, provider |-> p, assessed |-> clock, by |-> c.kind,
                       status |-> Quality!FeedStatus(Snapshots(seen), Transactions(seen), y.end),
                       samples |-> Cardinality(seen)]}
                /\ work'[c].projections = work[c].projections \cup
                     {[run |-> c.run, reserve |-> r, start |-> y.start, asOf |-> y.end] :
                        r \in {p} \cap Forecast(c)}
        /\ OthersWait(c)
<1> DEFINE p == Head(todo[c])
<1> DEFINE seen == RowsOf(c.run, p)
<1> DEFINE said(y) ==
      {[run |-> c.run, provider |-> p, assessed |-> clock, by |-> c.kind,
        status |-> Quality!FeedStatus(Snapshots(seen), Transactions(seen), y.end),
        samples |-> Cardinality(seen)]}
<1> DEFINE pro(y) ==
      {[run |-> c.run, reserve |-> r, start |-> y.start, asOf |-> y.end] :
         r \in {p} \cap Forecast(c)}
<1>1. PICK y \in work[c].cycles :
        work' = [work EXCEPT ![c].assessments = @ \cup said(y),
                             ![c].projections = @ \cup pro(y)]
  BY DEF Look
<1>2. /\ state[c] = "open" /\ todo[c] # <<>> /\ todo' = [todo EXCEPT ![c] = Tail(@)]
      /\ clock' = clock + 1 /\ UNCHANGED <<tables, state>>
  BY DEF Look
<1> HIDE DEF Look
<1>3. work[c] \in Work /\ todo[c] \in Seq(Providers)
  BY DEF TypeOK
<1>4. p \in Providers
  BY <1>2, <1>3
<1>5. y.end \in Nat
  BY <1>1, <1>3 DEF Work, Cycle
<1> HIDE DEF said, pro, p
<1>6. work'[c] = [work[c] EXCEPT !.assessments = @ \cup said(y), !.projections = @ \cup pro(y)]
  BY <1>1, <1>3 DEF TypeOK, Work
<1>7. OthersWait(c)
  BY <1>1, <1>2 DEF OthersWait, TypeOK
<1>8. todo'[c] = Tail(todo[c]) /\ c.kind \in Engines /\ state'[c] = state[c]
  BY <1>2 DEF TypeOK, Analysing
<1>9. /\ work'[c].assessments = work[c].assessments \cup said(y)
      /\ work'[c].projections = work[c].projections \cup pro(y)
      /\ work'[c].rows = work[c].rows /\ work'[c].cycles = work[c].cycles
      /\ work'[c].start = work[c].start
  BY <1>3, <1>6 DEF Work
<1> QED BY ONLY <1>1, <1>2, <1>4, <1>5, <1>7, <1>8, <1>9 DEF said, pro, p

\* A commit moves the work of the call into the tables, an abort drops it.
LEMMA Finishes ==
  ASSUME TypeOK, NEW c \in Calls, Commit(c) \/ Abort(c)
  PROVE /\ state[c] = "open" /\ state'[c] = "done" /\ UNCHANGED clock
        /\ work'[c] = NoWork /\ todo'[c] = <<>> /\ OthersWait(c)
<1>1. CASE Commit(c)
  BY <1>1 DEF Commit, OthersWait, TypeOK
<1>2. CASE Abort(c)
  BY <1>2 DEF Abort, OthersWait, TypeOK
<1> QED BY <1>1, <1>2

LEMMA Replays ==
  ASSUME NEW c \in Calls, Replay(c), TypeOK, RowsOfStarted
  PROVE /\ state[c] = "idle" /\ state'[c] = "done" /\ UNCHANGED <<clock, tables, work, todo>>
        /\ OthersWait(c) /\ work[c] = NoWork /\ todo[c] = <<>>
<1>1. /\ state[c] = "idle" /\ state' = [state EXCEPT ![c] = "done"]
      /\ UNCHANGED <<clock, tables, work, todo>>
  BY DEF Replay, MayOpen
<1> QED BY <1>1 DEF TypeOK, RowsOfStarted, OthersWait

\* The kinds of step.
LEMMA NextCases ==
  ASSUME [Next]_vars
  PROVE \/ UNCHANGED vars
        \/ \E c \in Calls : \/ Create(c) \/ Add(c)
                            \/ StartCycle(c)
                            \/ Replay(c)
                            \/ Look(c)
                            \/ Commit(c)
                            \/ Abort(c)
BY DEF Next


\* A start is a reading of the clock of its own.
LEMMA StartsApartStep == IInv /\ PInv /\ [Next]_vars => StartsApart'
<1> SUFFICES ASSUME IInv, PInv, [Next]_vars PROVE StartsApart'
  OBVIOUS
<1> USE DEF StartsApart
<1>0. TypeOK /\ StartsApart /\ RowsOfStarted /\ NotYetCreated /\ Analysing /\ clock \in Nat
  BY DEF IInv, PInv, TypeOK
<1>1. \A run \in Runs : started[run] \in Nat
  BY <1>0 DEF TypeOK
<1>2. ASSUME NEW c \in Calls, started' = started, clock' \in Nat, clock <= clock', OthersWait(c),
             c.kind = "create" /\ state'[c] = "open" =>
               \/ clock < clock' /\ work'[c].start = clock
               \/ state[c] = "open" /\ work'[c].start = work[c].start
      PROVE StartsApart'
  <2>1. \A run \in Runs : started'[run] < clock'
    BY <1>0, <1>1, <1>2
  <2>2. ASSUME NEW d \in Calls, d.kind = "create", state'[d] = "open"
        PROVE \/ d = c /\ clock < clock' /\ work'[d].start = clock
              \/ state[d] = "open" /\ work'[d].start = work[d].start
    BY <1>2, <2>2 DEF OthersWait
  <2>3. ASSUME NEW d \in Calls, d.kind = "create", state'[d] = "open"
        PROVE /\ work'[d].start \in 1..(clock' - 1)
              /\ \A run \in Runs : started'[run] # work'[d].start
    <3>1. clock \in Nat \ {0}
      BY <1>0 DEF TypeOK
    <3> QED BY <1>0, <1>1, <1>2, <2>2, <2>3, <3>1
  <2>4. ASSUME NEW d \in Calls, d.kind = "create", state'[d] = "open",
               NEW e \in Calls, e.kind = "create", state'[e] = "open",
               work'[e].start = work'[d].start
        PROVE e = d
    <3>1. \A f \in {d, e} : \/ f = c /\ work'[f].start = clock
                            \/ /\ state[f] = "open" /\ work'[f].start = work[f].start
                               /\ work[f].start \in 1..(clock - 1)
      BY <1>0, <2>2, <2>4
    <3> QED BY <1>0, <2>4, <3>1
  <2> QED BY <1>0, <1>2, <2>1, <2>3, <2>4
<1>3. CASE UNCHANGED vars
  BY <1>0, <1>3 DEF vars, tables
<1>4. ASSUME NEW c \in Calls, Create(c) \/ Add(c) PROVE StartsApart'
  <2>1. /\ started' = started /\ clock' = clock + Len(c.batches) + 1 /\ Len(c.batches) \in Nat
        /\ OthersWait(c)
        /\ (c.kind = "create" /\ work'[c].start = clock) \/ c.kind = "add"
    BY <1>0, <1>4, Opens DEF tables
  <2>2. clock' \in Nat /\ clock < clock' /\ clock <= clock'
    BY <1>0, <2>1
  <2>3. "create" # "add"
    OBVIOUS
  <2> QED BY ONLY <1>2, <2>1, <2>2, <2>3
<1>5. ASSUME NEW c \in Calls, StartCycle(c) PROVE StartsApart'
  <2>1. started' = started /\ clock' = clock + 1 /\ OthersWait(c) /\ c.kind \in Engines
    BY <1>0, <1>5, Analyses DEF tables
  <2>2. c.kind # "create"
    BY <2>1 DEF Engines
  <2>3. clock' \in Nat /\ clock <= clock'
    BY <1>0, <2>1
  <2> QED BY ONLY <1>2, <2>1, <2>2, <2>3
<1>6. ASSUME NEW c \in Calls, Look(c) PROVE StartsApart'
  <2>1. started' = started /\ clock' = clock + 1 /\ OthersWait(c) /\ c.kind \in Engines
    BY <1>0, <1>6, Looks DEF tables
  <2>2. c.kind # "create"
    BY <2>1 DEF Engines
  <2>3. clock' \in Nat /\ clock <= clock'
    BY <1>0, <2>1
  <2> QED BY ONLY <1>2, <2>1, <2>2, <2>3
<1>7. ASSUME NEW c \in Calls, Replay(c) PROVE StartsApart'
  <2>1. started' = started /\ clock' = clock /\ OthersWait(c) /\ state'[c] = "done"
    BY <1>0, <1>7, Replays DEF tables
  <2>2. clock' \in Nat /\ clock <= clock' /\ "done" # "open"
    BY <1>0, <2>1
  <2> QED BY ONLY <1>2, <2>1, <2>2
<1>8. ASSUME NEW c \in Calls, Abort(c) PROVE StartsApart'
  <2>1. started' = started /\ clock' = clock /\ OthersWait(c) /\ state'[c] = "done"
    BY <1>0, <1>8, Finishes DEF tables, Abort
  <2>2. clock' \in Nat /\ clock <= clock' /\ "done" # "open"
    BY <1>0, <2>1
  <2> QED BY ONLY <1>2, <2>1, <2>2
<1>9. ASSUME NEW c \in Calls, Commit(c) PROVE StartsApart'
  <2>1. /\ clock' = clock /\ OthersWait(c) /\ state'[c] = "done" /\ state[c] = "open"
    BY <1>0, <1>9, Finishes
  <2>2. CASE c.kind # "create"
    <3>1. started' = started
      BY <1>9, <2>2 DEF Commit
    <3>2. clock' \in Nat /\ clock <= clock' /\ "done" # "open"
      BY <1>0, <2>1
    <3> QED BY ONLY <1>2, <2>1, <3>1, <3>2
  <2>3. CASE c.kind = "create"
    <3>1. /\ started' = [started EXCEPT ![c.run] = work[c].start] /\ c.run \in Runs
          /\ started \in [Runs -> Nat]
      BY <1>0, <1>9, <2>3, CallsAssumption DEF Commit, CallType, TypeOK
    <3>2. /\ work[c].start \in 1..(clock - 1)
          /\ \A run \in Runs : started[run] # work[c].start
      BY <1>0, <2>1, <2>3
    <3>3. \A d \in Calls : d.kind = "create" /\ state'[d] = "open" =>
            d # c /\ state[d] = "open" /\ work'[d] = work[d]
      BY <2>1 DEF OthersWait
    <3>4. \A d \in Calls : d.kind = "create" /\ state'[d] = "open" =>
            work[d].start # work[c].start
      BY <1>0, <2>1, <2>3, <3>3
    <3>5. \A run \in Runs : started'[run] < clock'
      BY <1>0, <1>1, <2>1, <3>1, <3>2
    <3>6. \A run, o \in Runs : started'[run] = started'[o] /\ started'[run] # 0 => run = o
      BY <1>0, <3>1, <3>2
    <3>7. ASSUME NEW d \in Calls, d.kind = "create", state'[d] = "open"
          PROVE /\ work'[d].start \in 1..(clock' - 1)
                /\ \A run \in Runs : started'[run] # work'[d].start
                /\ \A e \in Calls : /\ e.kind = "create" /\ state'[e] = "open"
                                    /\ work'[e].start = work'[d].start
                                    => e = d
      BY <1>0, <2>1, <3>1, <3>3, <3>4, <3>7
    <3> QED BY <3>5, <3>6, <3>7
  <2> QED BY <2>2, <2>3
<1> QED BY <1>3, <1>4, <1>5, <1>6, <1>7, <1>8, <1>9, NextCases

\* Rows come with the run they are of, or to a run that is there.
LEMMA RowsOfStartedStep == IInv /\ PInv /\ [Next]_vars => RowsOfStarted'
<1> SUFFICES ASSUME IInv, PInv, [Next]_vars PROVE RowsOfStarted'
  OBVIOUS
<1> USE DEF RowsOfStarted
<1>0. TypeOK /\ StartsApart /\ RowsOfStarted /\ NotYetCreated /\ Analysing
  BY DEF IInv, PInv
<1>1. \A c \in Calls : c.run \in Runs
  BY CallsAssumption DEF CallType
<1>2. ASSUME NEW c \in Calls, UNCHANGED <<rows, started>>, OthersWait(c),
             state'[c] = "open" /\ c.kind # "create" => started[c.run] # 0,
             \A x \in work'[c].rows : x.run = c.run,
             state'[c] # "open" => work'[c] = NoWork /\ todo'[c] = <<>>
      PROVE RowsOfStarted'
  <2>1. \A d \in Calls : state'[d] = "open" /\ d.kind # "create" => started'[d.run] # 0
    BY <1>0, <1>2 DEF OthersWait
  <2>2. \A d \in Calls : \A x \in work'[d].rows : x.run = d.run
    BY <1>0, <1>2 DEF OthersWait
  <2>3. \A d \in Calls : state'[d] # "open" => work'[d] = NoWork /\ todo'[d] = <<>>
    BY <1>0, <1>2 DEF OthersWait
  <2> QED BY <1>0, <1>2, <2>1, <2>2, <2>3
<1>3. CASE UNCHANGED vars
  BY <1>0, <1>3 DEF vars, tables
<1>4. ASSUME NEW c \in Calls, Create(c) \/ Add(c) PROVE RowsOfStarted'
  <2>1. /\ UNCHANGED <<rows, started>> /\ OthersWait(c) /\ state'[c] = "open"
        /\ work'[c].rows = Ingested(c.run, c.batches, clock).rows
        /\ c.kind # "create" => started[c.run] # 0
    BY <1>0, <1>4, Opens DEF tables
  <2>2. \A x \in work'[c].rows : x.run = c.run
    BY <2>1 DEF Ingested
  <2> QED BY ONLY <1>2, <2>1, <2>2
<1>5. ASSUME NEW c \in Calls, StartCycle(c) PROVE RowsOfStarted'
  <2>1. /\ UNCHANGED <<rows, started>> /\ OthersWait(c) /\ state'[c] = "open"
        /\ work'[c].rows = {} /\ started[c.run] # 0
    BY <1>0, <1>5, Analyses DEF tables
  <2> QED BY ONLY <1>2, <2>1
<1>6. ASSUME NEW c \in Calls, Look(c) PROVE RowsOfStarted'
  <2>1. /\ UNCHANGED <<rows, started>> /\ OthersWait(c) /\ state'[c] = "open"
        /\ state[c] = "open" /\ work[c] \in Work
    BY <1>0, <1>6, Looks DEF tables, TypeOK
  <2>2. work'[c].rows = work[c].rows
    BY <1>0, <1>6, Looks
  <2> QED BY <1>0, <1>2, <2>1, <2>2
<1>7. ASSUME NEW c \in Calls, Replay(c) PROVE RowsOfStarted'
  <2>1. /\ UNCHANGED <<rows, started, work, todo>> /\ OthersWait(c) /\ state'[c] = "done"
        /\ work[c] = NoWork /\ todo[c] = <<>>
    BY <1>0, <1>7, Replays DEF tables
  <2> QED BY <1>0, <1>2, <2>1
<1>8. ASSUME NEW c \in Calls, Abort(c) PROVE RowsOfStarted'
  <2>1. /\ UNCHANGED <<rows, started>> /\ OthersWait(c) /\ state'[c] = "done"
        /\ work'[c] = NoWork /\ todo'[c] = <<>> /\ NoWork.rows = {}
    BY <1>0, <1>8, Finishes DEF tables, Abort, NoWork
  <2> QED BY <1>2, <2>1
<1>9. ASSUME NEW c \in Calls, Commit(c) PROVE RowsOfStarted'
  <2>1. /\ OthersWait(c) /\ state'[c] = "done" /\ state[c] = "open"
        /\ work'[c] = NoWork /\ todo'[c] = <<>> /\ NoWork.rows = {}
    BY <1>0, <1>9, Finishes DEF NoWork
  <2>2. rows' = rows \cup work[c].rows
    BY <1>9 DEF Commit
  <2>3. started[c.run] # 0 \/ (c.kind = "create" /\ work[c].start # 0)
    BY <1>0, <2>1 DEF StartsApart
  <2>4. started'[c.run] # 0 /\ \A run \in Runs : started[run] # 0 => started'[run] # 0
    <3>1. c.run \in Runs /\ started \in [Runs -> Nat]
      BY <1>0, <1>1 DEF TypeOK
    <3>2. CASE c.kind = "create"
      <4>1. started' = [started EXCEPT ![c.run] = work[c].start] /\ work[c].start # 0
        BY <1>0, <1>9, <2>1, <3>2 DEF Commit, StartsApart
      <4> QED BY ONLY <3>1, <4>1
    <3>3. CASE c.kind # "create"
      <4>1. started' = started
        BY <1>9, <3>3 DEF Commit
      <4> QED BY <2>3, <3>3, <4>1
    <3> QED BY <3>2, <3>3
  <2>5. \A x \in rows' : started'[x.run] # 0
    <3> SUFFICES ASSUME NEW x \in rows' PROVE started'[x.run] # 0
      OBVIOUS
    <3>1. CASE x \in rows
      <4>1. x.run \in Runs /\ started[x.run] # 0
        BY <1>0, <3>1 DEF TypeOK, Row
      <4> QED BY <2>4, <4>1
    <3>2. CASE x \in work[c].rows
      BY <1>0, <2>4, <3>2
    <3> QED BY <2>2, <3>1, <3>2
  <2>6. \A d \in Calls : state'[d] = "open" /\ d.kind # "create" => started'[d.run] # 0
    BY <1>0, <1>1, <2>1, <2>4 DEF OthersWait
  <2>7. \A d \in Calls : \A x \in work'[d].rows : x.run = d.run
    BY <1>0, <2>1 DEF OthersWait
  <2>8. \A d \in Calls : state'[d] # "open" => work'[d] = NoWork /\ todo'[d] = <<>>
    BY <1>0, <2>1 DEF OthersWait
  <2> QED BY <2>5, <2>6, <2>7, <2>8
<1> QED BY <1>3, <1>4, <1>5, <1>6, <1>7, <1>8, <1>9, NextCases


\* What a step says of feeds: of each once, at a moment of its own, and an engine
\* of the rows there are.
LEMMA AssessmentsCome ==
  ASSUME IInv, PInv, [Next]_vars
  PROVE \E A : /\ AllAssessments' \subseteq AllAssessments \cup A
               /\ clock' \in Nat /\ clock <= clock'
               /\ \A a \in A : /\ clock <= a.assessed /\ a.assessed < clock'
                               /\ a.by \in Engines => SaidOf(a, RowsOf(a.run, a.provider))
               /\ \A a, b \in A : a.assessed = b.assessed => a = b
<1> DEFINE Come(A) ==
      /\ AllAssessments' \subseteq AllAssessments \cup A
      /\ clock' \in Nat /\ clock <= clock'
      /\ \A a \in A : /\ clock <= a.assessed /\ a.assessed < clock'
                      /\ a.by \in Engines => SaidOf(a, RowsOf(a.run, a.provider))
      /\ \A a, b \in A : a.assessed = b.assessed => a = b
<1> SUFFICES \E A : Come(A)
  OBVIOUS
<1>0. TypeOK /\ RowsOfStarted /\ Analysing /\ clock \in Nat
  BY DEF IInv, PInv, TypeOK
<1>1. ASSUME NEW A, assessments' \subseteq AllAssessments \cup A,
             \A d \in Calls : work'[d].assessments \subseteq AllAssessments \cup A
      PROVE AllAssessments' \subseteq AllAssessments \cup A
  <2> DEFINE old == AllAssessments \cup A
  <2>1. AllAssessments' = assessments' \cup UNION {work'[d].assessments : d \in Calls}
    BY DEF AllAssessments
  <2>2. assessments' \subseteq old /\ \A d \in Calls : work'[d].assessments \subseteq old
    BY <1>1
  <2> HIDE DEF old
  <2>3. AllAssessments' \subseteq old
    BY ONLY <2>1, <2>2
  <2> QED BY <2>3 DEF old
<1>2. assessments \subseteq AllAssessments /\ \A d \in Calls : work[d].assessments \subseteq AllAssessments
  BY DEF AllAssessments
<1>3. ASSUME NEW c \in Calls, OthersWait(c), assessments' \subseteq AllAssessments,
             work'[c].assessments \subseteq AllAssessments, clock' \in Nat, clock <= clock'
      PROVE \E A : Come(A)
  <2>1. \A d \in Calls : work'[d].assessments \subseteq AllAssessments
    BY <1>2, <1>3 DEF OthersWait
  <2>2. AllAssessments' \subseteq AllAssessments \cup {}
    BY <1>1, <1>3, <2>1
  <2>3. Come({})
    BY <1>3, <2>2
  <2> HIDE DEF Come
  <2> QED BY <2>3
<1>4. ASSUME NEW c \in Calls, OthersWait(c), assessments' = assessments, NEW A,
             work'[c].assessments \subseteq work[c].assessments \cup A
      PROVE AllAssessments' \subseteq AllAssessments \cup A
  <2>1. \A d \in Calls : work'[d].assessments \subseteq AllAssessments \cup A
    BY <1>2, <1>4 DEF OthersWait
  <2> QED BY <1>1, <1>2, <1>4, <2>1
<1>5. CASE UNCHANGED vars
  <2>1. AllAssessments' = AllAssessments /\ clock' = clock
    BY <1>5 DEF vars, tables, AllAssessments
  <2>2. Come({})
    BY <1>0, <2>1
  <2> HIDE DEF Come
  <2> QED BY <2>2
<1>6. ASSUME NEW c \in Calls, Create(c) \/ Add(c) PROVE \E A : Come(A)
  <2> DEFINE n == Len(c.batches)
  <2> DEFINE of(i) == [run |-> c.run, provider |-> c.batches[i].provider,
                       status |-> BatchStatus(c.batches[i]), assessed |-> clock + i,
                       by |-> "batch", samples |-> c.batches[i].accepted + c.batches[i].rejected]
  <2> DEFINE A == {of(i) : i \in 1..n}
  <2>1. /\ OthersWait(c) /\ assessments' = assessments /\ clock' = clock + n + 1 /\ n \in Nat
        /\ work'[c].assessments = Ingested(c.run, c.batches, clock).assessments
    BY <1>0, <1>6, Opens DEF tables
  <2>2. DOMAIN c.batches = 1..n
    BY CallsAssumption DEF CallType
  <2>3. work'[c].assessments = A
    BY <2>1, <2>2 DEF Ingested
  <2>4. AllAssessments' \subseteq AllAssessments \cup A
    BY <1>4, <2>1, <2>3
  <2>5. \A i \in 1..n : of(i).assessed = clock + i /\ of(i).by = "batch"
    OBVIOUS
  <2> HIDE DEF of
  <2>6. "batch" \notin Engines
    BY DEF Engines
  <2>7. \A a \in A : /\ clock <= a.assessed /\ a.assessed < clock' /\ a.by \notin Engines
    BY <1>0, <2>1, <2>5, <2>6
  <2>8. \A a, b \in A : a.assessed = b.assessed => a = b
    <3> SUFFICES ASSUME NEW i \in 1..n, NEW j \in 1..n, of(i).assessed = of(j).assessed
                 PROVE i = j
      OBVIOUS
    <3> QED BY <1>0, <2>1, <2>5
  <2>9. clock' \in Nat /\ clock <= clock'
    BY <1>0, <2>1
  <2>10. Come(A)
    BY <2>4, <2>7, <2>8, <2>9
  <2> QED BY <2>10
<1>7. ASSUME NEW c \in Calls, StartCycle(c) PROVE \E A : Come(A)
  <2>1. /\ OthersWait(c) /\ assessments' = assessments /\ clock' = clock + 1
        /\ work'[c].assessments = {}
    BY <1>0, <1>7, Analyses DEF tables
  <2> QED BY <1>0, <1>2, <1>3, <2>1
<1>8. ASSUME NEW c \in Calls, Look(c) PROVE \E A : Come(A)
  <2> DEFINE p == Head(todo[c])
  <2> DEFINE seen == RowsOf(c.run, p)
  <2> DEFINE said(y) == [run |-> c.run, provider |-> p, assessed |-> clock, by |-> c.kind,
                         status |-> Quality!FeedStatus(Snapshots(seen), Transactions(seen),
                                                       y.end),
                         samples |-> Cardinality(seen)]
  <2>1. /\ OthersWait(c) /\ assessments' = assessments /\ clock' = clock + 1
        /\ \E y \in work[c].cycles :
             y.end \in Nat /\ work'[c].assessments = work[c].assessments \cup {said(y)}
    BY <1>0, <1>8, Looks DEF tables
  <2>2. PICK y \in work[c].cycles :
          y.end \in Nat /\ work'[c].assessments = work[c].assessments \cup {said(y)}
    BY <2>1
  <2>3. AllAssessments' \subseteq AllAssessments \cup {said(y)}
    BY <1>4, <2>1, <2>2
  <2>4. SaidOf(said(y), RowsOf(said(y).run, said(y).provider))
    BY <2>2 DEF SaidOf
  <2>5. said(y).assessed = clock
    OBVIOUS
  <2> HIDE DEF said
  <2>6. Come({said(y)})
    BY <1>0, <2>1, <2>3, <2>4, <2>5
  <2> QED BY <2>6
<1>9. ASSUME NEW c \in Calls, Replay(c) PROVE \E A : Come(A)
  <2>1. OthersWait(c) /\ UNCHANGED <<clock, assessments, work>>
    BY <1>0, <1>9, Replays DEF tables
  <2> QED BY <1>0, <1>2, <1>3, <2>1
<1>10. ASSUME NEW c \in Calls, Commit(c) \/ Abort(c) PROVE \E A : Come(A)
  <2>1. OthersWait(c) /\ clock' = clock /\ work'[c] = NoWork
    BY <1>0, <1>10, Finishes
  <2>2. work'[c].assessments = {}
    BY <2>1 DEF NoWork
  <2>3. assessments' \subseteq assessments \cup work[c].assessments
    BY <1>10 DEF Commit, Abort, tables
  <2> QED BY <1>0, <1>2, <1>3, <2>1, <2>2, <2>3
<1> QED BY <1>5, <1>6, <1>7, <1>8, <1>9, <1>10, NextCases

\* What is new is said now, of rows that are there; what is not, before, of rows
\* that stay.
LEMMA SaidStep == IInv /\ PInv /\ [Next]_vars => (MomentsApart /\ SaidOfRows)'
<1> SUFFICES ASSUME IInv, PInv, [Next]_vars PROVE (MomentsApart /\ SaidOfRows)'
  OBVIOUS
<1>1. PICK A :
        /\ AllAssessments' \subseteq AllAssessments \cup A
        /\ clock' \in Nat /\ clock <= clock'
        /\ \A a \in A : /\ clock <= a.assessed /\ a.assessed < clock'
                        /\ a.by \in Engines => SaidOf(a, RowsOf(a.run, a.provider))
        /\ \A a, b \in A : a.assessed = b.assessed => a = b
  BY AssessmentsCome
<1>2. MomentsApart /\ SaidOfRows /\ clock \in Nat /\ rows \subseteq rows'
  BY TablesGrow DEF IInv, PInv, TypeOK
<1>3. \A a \in AllAssessments : a.assessed \in Nat
  BY DEF IInv, TypeOK, AllAssessments, Work, Assessment
<1>4. MomentsApart'
  <2>1. \A a \in AllAssessments' :
          \/ a \in A /\ clock <= a.assessed /\ a.assessed < clock'
          \/ a \in AllAssessments /\ a.assessed < clock /\ a.assessed \in Nat
    BY <1>1, <1>2, <1>3 DEF MomentsApart
  <2>2. \A a \in AllAssessments' : a.assessed < clock'
    BY <1>1, <1>2, <2>1
  <2>3. \A a, b \in AllAssessments' : a.assessed = b.assessed => a = b
    BY <1>1, <1>2, <2>1 DEF MomentsApart
  <2> QED BY <2>2, <2>3 DEF MomentsApart
<1>5. SaidOfRows'
  <2> SUFFICES ASSUME NEW a \in AllAssessments', a.by \in Engines
               PROVE \E seen \in SUBSET (RowsOf(a.run, a.provider)') : SaidOf(a, seen)
    BY DEF SaidOfRows, SaidOf, Engines, Snapshots, Transactions
  <2>1. \E seen \in SUBSET RowsOf(a.run, a.provider) : SaidOf(a, seen)
    BY <1>1, <1>2 DEF SaidOfRows
  <2>2. RowsOf(a.run, a.provider) \subseteq RowsOf(a.run, a.provider)'
    BY <1>2 DEF RowsOf
  <2> QED BY <2>1, <2>2
<1> QED BY <1>4, <1>5

\* A liquidity cycle is committed when it has looked at every reserve.
LEMMA PanelsStep == IInv /\ PInv /\ [Next]_vars => PanelsFilled'
<1> SUFFICES ASSUME IInv, PInv, [Next]_vars PROVE PanelsFilled'
  OBVIOUS
<1>0. TypeOK /\ RowsOfStarted /\ Analysing /\ PanelsFilled
  BY DEF IInv, PInv
<1> DEFINE Way(c, w, left) ==
      /\ \A y \in w.cycles :
           /\ y.run = c.run /\ y.engine = c.kind
           /\ c.kind = "liquidity" =>
                /\ \A r \in Reserves \ left : HasProjection(w.projections, c.run, r)
                /\ \A p \in Providers \ left : HasAssessment(w.assessments, c.run, p)
      /\ IsFiniteSet(w.projections)
<1>1. \A c \in Calls : Way(c, work[c], Left(c))
  BY <1>0 DEF PanelsFilled
<1>2. ASSUME NEW c \in Calls, OthersWait(c),
             Way(c, work'[c], {todo'[c][i] : i \in DOMAIN todo'[c]})
      PROVE \A d \in Calls : Way(d, work'[d], {todo'[d][i] : i \in DOMAIN todo'[d]})
  <2> SUFFICES ASSUME NEW d \in Calls, d # c
               PROVE Way(d, work'[d], {todo'[d][i] : i \in DOMAIN todo'[d]})
    BY <1>2
  <2>1. work'[d] = work[d] /\ todo'[d] = todo[d]
    BY <1>2 DEF OthersWait
  <2>2. Way(d, work[d], {todo[d][i] : i \in DOMAIN todo[d]})
    BY <1>1 DEF Left
  <2> HIDE DEF Way
  <2> QED BY <2>1, <2>2
<1>3. ASSUME \A d \in Calls : Way(d, work'[d], {todo'[d][i] : i \in DOMAIN todo'[d]}),
             UNCHANGED <<cycles, projections, assessments>>
      PROVE PanelsFilled'
  BY <1>0, <1>3 DEF PanelsFilled, Left, HasProjection, HasAssessment
<1>4. NoWork.cycles = {} /\ NoWork.projections = {}
  BY DEF NoWork
<1>5. \A c \in Calls : \A w, left : w.cycles = {} /\ w.projections = {} => Way(c, w, left)
  BY FS_EmptySet
<1> HIDE DEF Way
<1>6. CASE UNCHANGED vars
  <2>1. UNCHANGED <<cycles, projections, assessments, work, todo>>
    BY <1>6 DEF vars, tables
  <2>2. \A d \in Calls : Way(d, work'[d], {todo'[d][i] : i \in DOMAIN todo'[d]})
    BY <1>1, <2>1 DEF Left
  <2> QED BY <1>3, <2>1, <2>2
<1>7. ASSUME NEW c \in Calls, Create(c) \/ Add(c) PROVE PanelsFilled'
  <2>1. /\ OthersWait(c) /\ UNCHANGED <<cycles, projections, assessments>>
        /\ work'[c].cycles = {} /\ work'[c].projections = {}
    BY <1>0, <1>7, Opens DEF tables
  <2> QED BY <1>2, <1>3, <1>5, <2>1
<1>8. ASSUME NEW c \in Calls, StartCycle(c) PROVE PanelsFilled'
  <2> DEFINE of(r) == [run |-> c.run, reserve |-> r, start |-> clock, asOf |-> WindowEnd(c.run)]
  <2>1. /\ OthersWait(c) /\ UNCHANGED <<cycles, projections, assessments>>
        /\ todo'[c] = Order
        /\ work'[c].cycles =
             {[run |-> c.run, engine |-> c.kind, start |-> clock, end |-> WindowEnd(c.run)]}
        /\ work'[c].projections = {of(r) : r \in {Cash} \cap Forecast(c)}
    BY <1>0, <1>8, Analyses DEF tables
  <2>2. \A r : of(r).run = c.run /\ of(r).reserve = r
    OBVIOUS
  <2> HIDE DEF of
  <2>3. {todo'[c][i] : i \in DOMAIN todo'[c]} = Providers
    BY <2>1 DEF Providers
  <2>4. \A y \in work'[c].cycles : y.run = c.run /\ y.engine = c.kind
    BY <2>1
  <2>5. c.kind = "liquidity" =>
          \A r \in Reserves \ Providers : HasProjection(work'[c].projections, c.run, r)
    <3> SUFFICES ASSUME c.kind = "liquidity"
                 PROVE HasProjection(work'[c].projections, c.run, Cash)
      BY DEF Reserves
    <3>1. Cash \in {Cash} \cap Forecast(c)
      BY DEF Forecast, Reserves
    <3>2. of(Cash) \in work'[c].projections
      BY <2>1, <3>1
    <3> QED BY <2>2, <3>2 DEF HasProjection
  <2>6. IsFiniteSet(work'[c].projections)
    <3>1. work'[c].projections \subseteq {of(Cash)}
      BY <2>1
    <3> QED BY ONLY <3>1, FS_Singleton, FS_Subset
  <2>7. Way(c, work'[c], Providers)
    BY <2>4, <2>5, <2>6 DEF Way
  <2> QED BY <1>2, <1>3, <2>1, <2>3, <2>7
<1>9. ASSUME NEW c \in Calls, Look(c) PROVE PanelsFilled'
  <2> DEFINE p == Head(todo[c])
  <2> DEFINE seen == RowsOf(c.run, p)
  <2> DEFINE left == {todo'[c][i] : i \in DOMAIN todo'[c]}
  <2>1. PICK y \in work[c].cycles :
          /\ work'[c].assessments = work[c].assessments \cup
               {[run |-> c.run, provider |-> p, assessed |-> clock, by |-> c.kind,
                 status |-> Quality!FeedStatus(Snapshots(seen), Transactions(seen), y.end),
                 samples |-> Cardinality(seen)]}
          /\ work'[c].projections = work[c].projections \cup
               {[run |-> c.run, reserve |-> r, start |-> y.start, asOf |-> y.end] :
                  r \in {p} \cap Forecast(c)}
    BY <1>0, <1>9, Looks
  <2> DEFINE a == [run |-> c.run, provider |-> p, assessed |-> clock, by |-> c.kind,
                   status |-> Quality!FeedStatus(Snapshots(seen), Transactions(seen), y.end),
                   samples |-> Cardinality(seen)]
  <2> DEFINE of(r) == [run |-> c.run, reserve |-> r, start |-> y.start, asOf |-> y.end]
  <2>2. /\ work'[c].assessments = work[c].assessments \cup {a}
        /\ work'[c].projections = work[c].projections \cup {of(r) : r \in {p} \cap Forecast(c)}
    BY <2>1
  <2>3. a.run = c.run /\ a.provider = p /\ \A r : of(r).run = c.run /\ of(r).reserve = r
    OBVIOUS
  <2> HIDE DEF a, of
  <2>4. /\ OthersWait(c) /\ UNCHANGED <<cycles, projections, assessments>>
        /\ todo[c] # <<>> /\ todo'[c] = Tail(todo[c]) /\ p \in Providers
        /\ work'[c].cycles = work[c].cycles /\ todo[c] \in Seq(Providers)
    BY <1>0, <1>9, Looks DEF tables, TypeOK
  <2>5. Left(c) \subseteq left \cup {p}
    <3> SUFFICES ASSUME NEW i \in DOMAIN todo[c], i # 1
                 PROVE \E j \in DOMAIN Tail(todo[c]) : todo[c][i] = Tail(todo[c])[j]
      BY <2>4 DEF Left
    <3>1. i - 1 \in DOMAIN Tail(todo[c]) /\ Tail(todo[c])[i - 1] = todo[c][i]
      BY <2>4
    <3> QED BY <3>1
  <2> HIDE DEF left, p
  <2>6. Way(c, work[c], Left(c))
    BY <1>1
  <2>7. c.kind = "liquidity" =>
          /\ \A r \in Reserves \ left : HasProjection(work'[c].projections, c.run, r)
          /\ \A q \in Providers \ left : HasAssessment(work'[c].assessments, c.run, q)
    <3> SUFFICES ASSUME c.kind = "liquidity"
                 PROVE /\ \A r \in Reserves \ left :
                            HasProjection(work'[c].projections, c.run, r)
                       /\ \A q \in Providers \ left :
                            HasAssessment(work'[c].assessments, c.run, q)
      OBVIOUS
    <3>1. p \in {p} \cap Forecast(c)
      BY <2>4 DEF Forecast, Reserves
    <3>2. of(p) \in work'[c].projections /\ a \in work'[c].assessments
      BY <2>2, <3>1
    <3>3. /\ HasProjection(work'[c].projections, c.run, p)
          /\ HasAssessment(work'[c].assessments, c.run, p)
      BY <2>3, <3>2 DEF HasProjection, HasAssessment
    <3>4. /\ \A r \in Reserves \ Left(c) : HasProjection(work[c].projections, c.run, r)
          /\ \A q \in Providers \ Left(c) : HasAssessment(work[c].assessments, c.run, q)
      BY <2>1, <2>6 DEF Way
    <3>5. ASSUME NEW r \in Reserves \ left, r # p
          PROVE HasProjection(work'[c].projections, c.run, r)
      BY <2>2, <2>5, <3>4, <3>5 DEF HasProjection
    <3>6. ASSUME NEW q \in Providers \ left, q # p
          PROVE HasAssessment(work'[c].assessments, c.run, q)
      BY <2>2, <2>5, <3>4, <3>6 DEF HasAssessment
    <3> QED BY <3>3, <3>5, <3>6
  <2>8. IsFiniteSet(work'[c].projections)
    <3>1. IsFiniteSet(work[c].projections)
      BY <2>6 DEF Way
    <3> DEFINE new == {of(r) : r \in {p} \cap Forecast(c)}
    <3>2. new \subseteq {of(p)}
      OBVIOUS
    <3>3. IsFiniteSet(new)
      BY ONLY <3>2, FS_Singleton, FS_Subset
    <3>4. work'[c].projections = work[c].projections \cup new
      BY <2>2
    <3> HIDE DEF new
    <3> QED BY ONLY <3>1, <3>3, <3>4, FS_Union
  <2>9. Way(c, work'[c], left)
    BY <2>4, <2>6, <2>7, <2>8 DEF Way
  <2> QED BY <1>2, <1>3, <2>4, <2>9 DEF left
<1>10. ASSUME NEW c \in Calls, Replay(c) PROVE PanelsFilled'
  <2>1. UNCHANGED <<cycles, projections, assessments, work, todo>>
    BY <1>0, <1>10, Replays DEF tables
  <2>2. \A d \in Calls : Way(d, work'[d], {todo'[d][i] : i \in DOMAIN todo'[d]})
    BY <1>1, <2>1 DEF Left
  <2> QED BY <1>3, <2>1, <2>2
<1>11. ASSUME NEW c \in Calls, Abort(c) PROVE PanelsFilled'
  <2>1. /\ OthersWait(c) /\ UNCHANGED <<cycles, projections, assessments>>
        /\ work'[c] = NoWork
    BY <1>0, <1>11, Finishes DEF Abort, tables
  <2> QED BY <1>2, <1>3, <1>4, <1>5, <2>1
<1>12. ASSUME NEW c \in Calls, Commit(c) PROVE PanelsFilled'
  <2>1. OthersWait(c) /\ work'[c] = NoWork
    BY <1>0, <1>12, Finishes
  <2>2. /\ todo[c] = <<>> /\ cycles' = cycles \cup work[c].cycles
        /\ assessments' = assessments \cup work[c].assessments
        /\ projections' = projections \cup work[c].projections
    BY <1>12 DEF Commit
  <2>3. \A d \in Calls : Way(d, work'[d], {todo'[d][i] : i \in DOMAIN todo'[d]})
    BY <1>2, <1>4, <1>5, <2>1
  <2>4. Way(c, work[c], {})
    <3>1. Left(c) = {}
      BY <2>2 DEF Left
    <3> QED BY <1>1, <3>1
  <2>5. IsFiniteSet(projections')
    BY <1>0, <2>2, <2>4, FS_Union DEF Way, PanelsFilled
  <2>6. ASSUME NEW y \in cycles', y.engine = "liquidity"
        PROVE /\ \A r \in Reserves : HasProjection(projections', y.run, r)
              /\ \A p \in Providers : HasAssessment(assessments', y.run, p)
    <3>1. CASE y \in cycles
      BY <1>0, <2>2, <2>6, <3>1 DEF PanelsFilled, HasProjection, HasAssessment
    <3>2. CASE y \in work[c].cycles
      <4>1. y.run = c.run /\ c.kind = "liquidity"
        BY <2>4, <2>6, <3>2 DEF Way
      <4>2. /\ \A r \in Reserves : HasProjection(work[c].projections, y.run, r)
            /\ \A p \in Providers : HasAssessment(work[c].assessments, y.run, p)
        BY <2>4, <3>2, <4>1 DEF Way
      <4> QED BY <2>2, <4>2 DEF HasProjection, HasAssessment
    <3> QED BY <2>2, <2>6, <3>1, <3>2
  <2> QED BY <2>3, <2>5, <2>6 DEF PanelsFilled, Left, Way
<1> QED BY <1>6, <1>7, <1>8, <1>9, <1>10, <1>11, <1>12, NextCases

LEMMA InitPInv == Init => PInv
<1> SUFFICES ASSUME Init PROVE PInv
  OBVIOUS
<1> USE DEF Init, NoWork
<1>1. StartsApart
  BY DEF StartsApart
<1>2. RowsOfStarted
  BY DEF RowsOfStarted
<1>3. AllAssessments = {}
  BY DEF AllAssessments
<1>4. MomentsApart /\ SaidOfRows
  BY <1>3 DEF MomentsApart, SaidOfRows
<1>5. PanelsFilled
  BY FS_EmptySet DEF PanelsFilled
<1> QED BY <1>1, <1>2, <1>4, <1>5 DEF PInv

LEMMA PanelsInvariant == Spec => []PInv
<1>1. IInv /\ PInv /\ [Next]_vars => PInv'
  BY StartsApartStep, RowsOfStartedStep, SaidStep, PanelsStep DEF PInv
<1> QED BY InitPInv, Invariant, <1>1, PTL DEF Spec


-----------------------------------------------------------------------------
(* What doubt the dashboard and the history show. *)

\* Rows that are there have a latest: the one received last of the newest moment.
LEMMA HasLatest ==
  ASSUME NEW T, T \subseteq Row, IsFiniteSet(T), T # {}
  PROVE \E s \in T : \A u \in T : u.at < s.at \/ (u.at = s.at /\ u.received <= s.received)
<1> DEFINE Ats == {x.at : x \in T}
<1> DEFINE f == [x \in T |-> x.at]
<1>1. f \in Surjection(T, Ats)
  BY DEF Surjection
<1>2. IsFiniteSet(Ats)
  BY ONLY <1>1, IsFiniteSet(T), FS_Surjection
<1>3. \A x \in T : x.at \in Int /\ x.received \in Int
  BY DEF Row
<1>4. Ats \subseteq Int /\ Ats # {}
  BY <1>3
<1> HIDE DEF Ats
<1>5. PICK t \in Ats : \A n \in Ats : n <= t
  BY <1>2, <1>4, Greatest
<1> DEFINE L == {x \in T : x.at = t}
<1> DEFINE Rs == {x.received : x \in L}
<1> DEFINE g == [x \in L |-> x.received]
<1>6. g \in Surjection(L, Rs)
  BY DEF Surjection
<1>7. IsFiniteSet(L)
  BY FS_Subset
<1>8. IsFiniteSet(Rs)
  <2> HIDE DEF L
  <2> QED BY ONLY <1>6, <1>7, FS_Surjection
<1>9. L # {}
  BY DEF Ats
<1>10. Rs \subseteq Int /\ Rs # {}
  BY <1>3, <1>9
<1>11. PICK n \in Rs : \A k \in Rs : k <= n
  <2> HIDE DEF Rs
  <2> QED BY <1>8, <1>10, Greatest
<1>12. PICK s \in L : s.received = n
  OBVIOUS
<1>13. \A u \in T : u.at \in Ats
  BY DEF Ats
<1>14. ASSUME NEW u \in T PROVE u.at < s.at \/ (u.at = s.at /\ u.received <= s.received)
  <2>1. u.at <= t /\ u.at \in Int /\ s.at = t /\ t \in Int
    BY <1>3, <1>5, <1>12, <1>13
  <2>2. u.at = t => u.received <= n
    BY <1>11
  <2> QED BY <1>12, <2>1, <2>2
<1> QED BY <1>12, <1>14

\* Two balances for the newest moment of a feed are shown as a conflict, and none
\* of two balances of one moment is shown as the balance.
THEOREM DoubtIsShownAlways == Spec => []DoubtIsShown
<1>1. IInv => DoubtIsShown
  <2> SUFFICES ASSUME IInv, NEW p \in Providers
               PROVE LET all == LatestSnapshots(p) IN
                     /\ \A s, u \in all :
                          s.at = u.at /\ s.balance # u.balance /\ (\A x \in all : x.at <= s.at)
                            => ShownStatus(p) = "conflicting"
                     /\ \A s \in ShownBalance(p), u \in all : u.at = s.at => u.balance = s.balance
    BY DEF DoubtIsShown
  <2> DEFINE all == LatestSnapshots(p)
  <2>1. all \subseteq Row /\ IsFiniteSet(all)
    <3>1. all \subseteq rows /\ IsFiniteSet(rows) /\ rows \subseteq Row
      BY DEF LatestSnapshots, OfLatestRun, SnapshotsOf, IInv, Finite, TypeOK
    <3> QED BY <3>1, FS_Subset
  <2>2. ASSUME NEW s \in all, NEW u \in all, s.at = u.at, s.balance # u.balance,
               \A x \in all : x.at <= s.at
        PROVE ShownStatus(p) = "conflicting"
    <3>1. PICK l \in all : \A x \in all : x.at < l.at \/ (x.at = l.at /\ x.received <= l.received)
      <4> HIDE DEF all
      <4> QED BY <2>1, <2>2, HasLatest
    <3>2. l \in LatestBalance(p)
      BY <3>1 DEF LatestBalance
    <3>3. s.at \in Int /\ l.at \in Int
      BY <2>1 DEF Row
    <3>4. l.at = s.at
      BY <2>2, <3>1, <3>3
    <3>5. Contradicted(l, all)
      BY <2>2, <3>4 DEF Contradicted
    <3> QED BY <3>2, <3>5 DEF ShownStatus, IsConflicted
  <2>3. ASSUME NEW s \in ShownBalance(p), NEW u \in all, u.at = s.at
        PROVE u.balance = s.balance
    <3>1. ~Contradicted(s, all)
      BY DEF ShownBalance, IsConflicted, LastTrusted
    <3> QED BY <2>3, <3>1 DEF Contradicted
  <2> QED BY <2>2, <2>3
<1> QED BY Invariant, <1>1, PTL

\* A row of the history that another row contradicts is marked, unless it is of
\* the earliest moment of the page: a page that leaves a row out leaves out none of
\* a later moment than any it has.
THEOREM HistoryCutsOnlyItsEndAlways == Spec => []HistoryCutsOnlyItsEnd
<1>1. TypeOK => HistoryCutsOnlyItsEnd
  <2> SUFFICES ASSUME TypeOK, NEW p \in Providers, NEW page \in Pages(p),
                      NEW s \in page \ Marked(page), NEW u \in page,
                      Contradicted(s, SnapshotsOf(p))
               PROVE s.at <= u.at
    BY DEF HistoryCutsOnlyItsEnd
  <2>1. page \subseteq SnapshotsOf(p) /\ SnapshotsOf(p) \subseteq Row
    BY DEF Pages, SnapshotsOf, TypeOK
  <2>2. PICK v \in SnapshotsOf(p) : v.at = s.at /\ v.balance # s.balance
    BY DEF Contradicted
  <2>3. v \notin page
    BY <2>2 DEF Marked, Contradicted
  <2>4. ~Later(v, u)
    BY <2>2, <2>3 DEF Pages
  <2>5. v.at \in Nat /\ u.at \in Nat
    BY <2>1 DEF Row
  <2> QED BY <2>2, <2>4, <2>5 DEF Later
<1> QED BY TypeCorrect, <1>1, PTL

\* Entries of a run no other run started after are of the run started last.
LEMMA LastRunWins ==
  ASSUME TypeOK, StartsApart, NEW run \in Runs, started[run] # 0,
         \A o \in Runs : started[o] <= started[run],
         NEW table, \A x \in table : x.run \in Runs,
         NEW z \in table, z.run = run
  PROVE \A x \in OfLatestRun(table) : x.run = run
<1> SUFFICES ASSUME NEW x \in OfLatestRun(table) PROVE x.run = run
  OBVIOUS
<1>1. x \in table /\ started[run] <= started[x.run]
  BY DEF OfLatestRun
<1>2. x.run \in Runs /\ started[x.run] \in Nat /\ started[run] \in Nat
  BY <1>1 DEF TypeOK
<1>3. started[x.run] = started[run]
  BY <1>1, <1>2
<1> QED BY <1>2, <1>3 DEF StartsApart

\* Once the run started last has been forecast, every card shows its feed health
\* and its projection, and a feed without a balance in it is called missing unless
\* it has transactions.
THEOREM AnalysedRunFillsPanelsAlways == Spec => []AnalysedRunFillsPanels
<1>1. IInv /\ PInv => AnalysedRunFillsPanels
  <2> SUFFICES ASSUME IInv, PInv, NEW run \in Runs, Exists(run),
                      \A o \in Runs : started[o] <= started[run],
                      Analysed(run, "liquidity")
               PROVE /\ \A r \in Reserves : \E x \in LatestProjection(r) : x.run = run
                     /\ \A p \in Providers : \A a \in CurrentHealth(p) :
                          /\ a.run = run
                          /\ (\A s \in LatestBalance(p) : s.run # run) /\ a.by \in Engines
                               => a.status = "missing" \/ Transactions(RowsOf(run, p)) # {}
    BY DEF AnalysedRunFillsPanels
  <2>1. PICK y \in cycles : y.run = run /\ y.engine = "liquidity"
    BY DEF Analysed
  <2>2. TypeOK /\ StartsApart /\ Finite /\ PanelsFilled /\ SaidOfRows
    BY DEF IInv, PInv
  <2>3. started[run] # 0
    BY DEF Exists
  <2>4. /\ \A r \in Reserves : HasProjection(projections, run, r)
        /\ \A p \in Providers : HasAssessment(assessments, run, p)
    BY <2>1, <2>2 DEF PanelsFilled
  <2>5. ASSUME NEW r \in Reserves PROVE \E x \in LatestProjection(r) : x.run = run
    <3> DEFINE all == {x \in projections : x.reserve = r}
    <3> DEFINE latest == OfLatestRun(all)
    <3>1. PICK z \in all : z.run = run
      BY <2>4 DEF HasProjection
    <3>2. \A x \in all : x.run \in Runs /\ x.start \in Int
      BY <2>2 DEF TypeOK, Projection
    <3>3. \A x \in latest : x.run = run
      BY <2>2, <2>3, <3>1, <3>2, LastRunWins
    <3>4. z \in latest
      BY <3>1, <3>2 DEF OfLatestRun
    <3>5. IsFiniteSet(latest)
      <4>1. latest \subseteq projections
        BY DEF OfLatestRun
      <4> QED BY <2>2, <4>1, FS_Subset DEF PanelsFilled
    <3> DEFINE times == {x.start : x \in latest}
    <3> DEFINE f == [x \in latest |-> x.start]
    <3>6. times \subseteq Int /\ times # {}
      BY <3>2, <3>4 DEF OfLatestRun
    <3>7. f \in Surjection(latest, times)
      BY DEF Surjection
    <3>8. IsFiniteSet(times)
      <4> HIDE DEF latest
      <4> QED BY ONLY <3>5, <3>7, FS_Surjection
    <3>9. PICK n \in times : \A k \in times : k <= n
      <4> HIDE DEF times
      <4> QED BY <3>6, <3>8, Greatest
    <3>10. PICK x \in latest : x.start = n
      OBVIOUS
    <3>11. x \in LatestProjection(r)
      BY <3>9, <3>10 DEF LatestProjection
    <3> QED BY <3>3, <3>10, <3>11
  <2>6. ASSUME NEW p \in Providers, NEW a \in CurrentHealth(p)
        PROVE /\ a.run = run
              /\ (\A s \in LatestBalance(p) : s.run # run) /\ a.by \in Engines
                   => a.status = "missing" \/ Transactions(RowsOf(run, p)) # {}
    <3> DEFINE all == {x \in assessments : x.provider = p}
    <3>1. PICK z \in all : z.run = run
      BY <2>4 DEF HasAssessment
    <3>2. \A x \in all : x.run \in Runs
      BY <2>2 DEF TypeOK, Assessment
    <3>3. a \in OfLatestRun(all)
      BY DEF CurrentHealth
    <3>4. a.run = run /\ a \in assessments /\ a.provider = p
      BY <2>2, <2>3, <3>1, <3>2, <3>3, LastRunWins DEF OfLatestRun
    <3>5. ASSUME \A s \in LatestBalance(p) : s.run # run, a.by \in Engines
          PROVE a.status = "missing" \/ Transactions(RowsOf(run, p)) # {}
      <4>1. Snapshots(RowsOf(run, p)) = {}
        <5> SUFFICES ASSUME Snapshots(RowsOf(run, p)) # {} PROVE FALSE
          OBVIOUS
        <5> DEFINE T == LatestSnapshots(p)
        <5>1. PICK w \in SnapshotsOf(p) : w.run = run
          BY DEF Snapshots, RowsOf, SnapshotsOf
        <5>2. \A x \in SnapshotsOf(p) : x.run \in Runs /\ x \in rows
          BY <2>2 DEF SnapshotsOf, TypeOK, Row
        <5>3. \A x \in T : x.run = run
          BY <2>2, <2>3, <5>1, <5>2, LastRunWins DEF LatestSnapshots
        <5>4. w \in T
          BY <5>1, <5>2 DEF LatestSnapshots, OfLatestRun
        <5>5. T \subseteq rows /\ rows \subseteq Row /\ IsFiniteSet(rows)
          BY <2>2, <5>2 DEF LatestSnapshots, OfLatestRun, TypeOK, Finite
        <5>6. T \subseteq Row /\ IsFiniteSet(T) /\ T # {}
          BY <5>4, <5>5, FS_Subset
        <5> HIDE DEF T
        <5>7. PICK s \in T :
                \A u \in T : u.at < s.at \/ (u.at = s.at /\ u.received <= s.received)
          BY <5>6, HasLatest
        <5>8. s \in LatestBalance(p)
          BY <5>7 DEF LatestBalance, T
        <5> QED BY <3>5, <5>3, <5>7, <5>8
      <4>2. PICK seen \in SUBSET RowsOf(run, p) : SaidOf(a, seen)
        BY <2>2, <3>4, <3>5 DEF SaidOfRows, AllAssessments
      <4>3. Snapshots(seen) = {}
        BY <4>1 DEF Snapshots
      <4>4. CASE Transactions(seen) = {}
        BY <4>2, <4>3, <4>4 DEF SaidOf, Quality!FeedStatus
      <4>5. CASE Transactions(seen) # {}
        BY <4>5 DEF Transactions
      <4> QED BY <4>4, <4>5
    <3> QED BY <3>4, <3>5
  <2> QED BY <2>5, <2>6
<1> QED BY Invariant, PanelsInvariant, <1>1, PTL

\* A current assessment by an engine that saw every row of the feed is what the card
\* shows: engine and view agree on what is a conflict.
THEOREM ViewsAgreeWithEngineAlways == Spec => []ViewsAgreeWithEngine
<1>1. IInv /\ PInv => ViewsAgreeWithEngine
  <2> SUFFICES ASSUME IInv, PInv, NEW p \in Providers, NEW a \in CurrentHealth(p),
                      NEW s \in LatestBalance(p), a.by \in Engines, a.run = s.run,
                      a.samples = Cardinality(RowsOf(a.run, p))
               PROVE ShownStatus(p) = a.status /\ a.status # "missing"
    BY DEF ViewsAgreeWithEngine
  <2> DEFINE R == RowsOf(a.run, p)
  <2>1. TypeOK /\ StartsApart /\ Finite /\ SaidOfRows /\ MomentsApart /\ RowsOfStarted
    BY DEF IInv, PInv
  <2>2. a \in assessments /\ a.provider = p
    BY DEF CurrentHealth, OfLatestRun
  <2>3. PICK seen \in SUBSET R : SaidOf(a, seen)
    BY <2>1, <2>2 DEF SaidOfRows, AllAssessments
  <2>4. IsFiniteSet(R)
    <3>1. R \subseteq rows /\ IsFiniteSet(rows)
      BY <2>1 DEF RowsOf, Finite
    <3> QED BY <3>1, FS_Subset
  <2>5. seen = R
    <3> HIDE DEF R
    <3> QED BY <2>3, <2>4, FS_Subset DEF SaidOf, R
  <2>6. PICK end \in Nat :
          a.status = Quality!FeedStatus(Snapshots(R), Transactions(R), end)
    BY <2>3, <2>5 DEF SaidOf
  <2>7. s \in LatestSnapshots(p) /\ s \in rows /\ s.reserve = p /\ s.balance # None
    BY DEF LatestBalance, LatestSnapshots, OfLatestRun, SnapshotsOf
  <2>8. s \in Snapshots(R)
    BY <2>7 DEF Snapshots, RowsOf
  <2>9. a.status # "missing"
    BY <2>6, <2>8 DEF Quality!FeedStatus
  <2>10. ASSUME NEW b \in CurrentHealth(p) PROVE b = a
    <3> DEFINE latest == OfLatestRun({x \in assessments : x.provider = p})
    <3>1. a \in latest /\ b \in latest /\ b.assessed <= a.assessed /\ a.assessed <= b.assessed
      BY DEF CurrentHealth
    <3>2. b \in assessments /\ a \in AllAssessments /\ b \in AllAssessments
      BY <2>2 DEF CurrentHealth, OfLatestRun, AllAssessments
    <3>3. a.assessed \in Nat /\ b.assessed \in Nat
      BY <2>1, <2>2, <3>2 DEF TypeOK, Assessment
    <3>4. a.assessed = b.assessed
      BY <3>1, <3>3
    <3> QED BY <2>1, <3>2, <3>4 DEF MomentsApart
  <2>11. CASE IsConflicted(p)
    <3>1. PICK l \in LatestBalance(p), u \in LatestSnapshots(p) :
            u.at = l.at /\ u.balance # l.balance
      BY <2>11 DEF IsConflicted, Contradicted
    <3>2. /\ l \in LatestSnapshots(p)
          /\ \A x \in LatestSnapshots(p) :
               x \in rows /\ x.reserve = p /\ x.balance # None /\ x.run \in Runs
      BY <2>1 DEF LatestBalance, LatestSnapshots, OfLatestRun, SnapshotsOf, TypeOK, Row
    <3>3. \A x \in LatestSnapshots(p) : x.run = s.run
      <4> SUFFICES ASSUME NEW x \in LatestSnapshots(p) PROVE x.run = s.run
        OBVIOUS
      <4>1. started[x.run] <= started[s.run] /\ started[s.run] <= started[x.run]
        BY <2>7 DEF LatestSnapshots, OfLatestRun
      <4>2. started[x.run] \in Nat /\ started[s.run] \in Nat /\ started[s.run] # 0
        BY <2>1, <2>7, <3>2 DEF TypeOK, RowsOfStarted
      <4>3. started[x.run] = started[s.run]
        BY <4>1, <4>2
      <4> QED BY <2>1, <2>7, <3>2, <4>2, <4>3 DEF StartsApart
    <3>4. l \in Snapshots(R) /\ u \in Snapshots(R)
      BY <3>1, <3>2, <3>3 DEF Snapshots, RowsOf
    <3>5. l.at \in Quality!Conflicts(Snapshots(R))
      BY <3>1, <3>4 DEF Quality!Conflicts, Quality!Times, Quality!RowsAt
    <3>6. a.status = "conflicting"
      BY <2>6, <2>8, <3>5 DEF Quality!FeedStatus
    <3> QED BY <2>9, <2>11, <3>6 DEF ShownStatus
  <2>12. CASE ~IsConflicted(p)
    <3>1. CurrentHealth(p) # {} /\ (CHOOSE b \in CurrentHealth(p) : TRUE) = a
      BY <2>10
    <3> QED BY <2>9, <2>12, <3>1 DEF ShownStatus
  <2> QED BY <2>11, <2>12
<1> QED BY Invariant, PanelsInvariant, <1>1, PTL
=============================================================================
