----------------------- MODULE AlertPublicationProofs -----------------------
(***************************************************************************)
(* Theorems about AlertPublication, for any number of requests, runs,      *)
(* outlets, reserves and detectors, and any ledgers.                       *)
(***************************************************************************)
EXTENDS AlertPublication, TLAPS

-----------------------------------------------------------------------------
(* The inductive invariant. *)

\* Where a request is: what its step has already established.
Placed(r) ==
  /\ pc[r] # "idle" => call[r] \in Calls
  /\ pc[r] \in {"forecast", "detect"} =>
       /\ cycle[r] \in cycles \cup work[r].cycles
       /\ cycle[r].run = call[r].run
       /\ cycle[r].engine = (IF pc[r] = "forecast" THEN "liquidity" ELSE "anomaly")
       /\ ledger[call[r].run] # 0

\* The cycle of an artifact is there as soon as the artifact is.
ArtifactsHaveCycles ==
  /\ \A a \in artifacts : a.cycle \in cycles
  /\ \A r \in Requests : \A a \in work[r].artifacts : a.cycle \in cycles \cup work[r].cycles

\* What an uncommitted alert, or a candidate, of request r cites.
Cites(r, x) ==
  /\ x.key.run = call[r].run
  /\ x.source \in artifacts \cup work[r].artifacts
  /\ x.source.cycle.run = x.key.run
  /\ LookupOf[x.source.subject] = LookupOf[x.key.subject]

Citing(r) ==
  /\ \A c \in todo[r] : Cites(r, c)
  /\ \A a \in work[r].alerts : Cites(r, a) /\ a.source.verdict # "suppressed"

\* A request holds rows and candidates only while it is being served, and one
\* candidate for a subject.
Queue(r) ==
  /\ pc[r] \in {"idle", "done"} => work[r] = NoWork
  /\ pc[r] \in {"idle", "liquidity", "forecast", "done"} => todo[r] = {}
  /\ pc[r] \in {"anomaly", "detect"} => \A c \in todo[r] : c.key.subject \in Reserves
  /\ \A c, d \in todo[r] : c.key.subject = d.key.subject => c = d

\* What uq_alerts_active_dedup and the lookup before it keep apart.
KeysApart ==
  /\ OneActivePerKey
  /\ \A r \in Requests : \A a \in work[r].alerts :
       /\ \A b \in work[r].alerts : a.key = b.key => a = b
       /\ \A b \in alerts : a.key # b.key
       /\ \A q \in Requests \ {r} : \A b \in work[q].alerts : a.key # b.key
  /\ \A r \in Requests : pc[r] = "insert" =>
       \A c \in todo[r] : Turn(r, c) => \A a \in work[r].alerts : a.key # c.key

IInv ==
  /\ TypeOK
  /\ \A r \in Requests : Placed(r)
  /\ ArtifactsHaveCycles
  /\ \A r \in Requests : Citing(r)
  /\ \A r \in Requests : Queue(r)
  /\ KeysApart
  /\ AlertsCiteTheirRun
  /\ NoAlertOnSuppressedFlag

-----------------------------------------------------------------------------
(* Lemmas about the operators the steps are made of. *)

\* The fields of a call have the types CallType gives them.
LEMMA CallFields ==
  ASSUME NEW c \in Calls
  PROVE  c.kind \in Kinds /\ c.run \in Runs /\ c.outlet \in Outlets
  BY CallsAssumption DEF CallType

\* What a request can end with: an error, which an analytics call or publication
\* answers with analytics_state_error only when a replay misses a row, or a commit,
\* for which a publication has no candidate left.
Failing(r, code) ==
  /\ pc[r] # "idle"
  /\ code # "ok"
  /\ code = "analytics_state_error" => ReplayFails(r)
  /\ Fail(r, code)

Committing(r) ==
  /\ pc[r] = "check"
  /\ call[r].kind = "publish" => todo[r] = {}
  /\ Commit(r)

\* Every step is a failure, a commit, one of the other actions, or a stutter.
LEMMA NextCases ==
  ASSUME [Next]_vars
  PROVE  \/ \E r \in Requests, c \in Calls : Start(r, c)
         \/ \E r \in Requests : OpenCycle(r)
         \/ \E r \in Requests : Analyse(r)
         \/ \E r \in Requests : \E c \in todo[r] : Deduplicate(r, c)
         \/ \E r \in Requests : \E c \in todo[r] : DecideToInsert(r, c)
         \/ \E r \in Requests : \E c \in todo[r] : InsertAlert(r, c)
         \/ \E r \in Requests, code \in Codes : Failing(r, code)
         \/ \E r \in Requests : Committing(r)
         \/ \E run \in Runs : LedgerGrows(run)
         \/ UNCHANGED vars
  <1>1. ASSUME NEW r \in Requests, RunUnknown(r)
        PROVE  "not_found" \in Codes /\ Failing(r, "not_found")
    BY <1>1 DEF Failing, RunUnknown, Engines, Codes
  <1>2. ASSUME NEW r \in Requests, ReplayFails(r)
        PROVE  "analytics_state_error" \in Codes /\ Failing(r, "analytics_state_error")
    BY <1>2 DEF Failing, ReplayFails, Codes
  <1>3. ASSUME NEW r \in Requests, NEW c \in todo[r], InsertRefused(r, c)
        PROVE  "internal_error" \in Codes /\ Failing(r, "internal_error")
    BY <1>3 DEF Failing, InsertRefused, Publishing, Codes
  <1>4. ASSUME NEW r \in Requests, Abort(r)
        PROVE  "lost" \in Codes /\ Failing(r, "lost")
    BY <1>4 DEF Failing, Abort, InFlight, Steps, Codes
  <1>5. ASSUME NEW r \in Requests, Report(r) \/ Publish(r)
        PROVE  Committing(r)
    BY <1>5 DEF Committing, Report, Publish
  <1>6. ASSUME NEW r \in Requests, Serve(r)
        PROVE  \/ OpenCycle(r) \/ Analyse(r)
               \/ \E c \in todo[r] : \/ Deduplicate(r, c) \/ DecideToInsert(r, c)
                                     \/ InsertAlert(r, c)
               \/ \E code \in Codes : Failing(r, code)
               \/ Committing(r)
    BY <1>1, <1>2, <1>3, <1>5, <1>6 DEF Serve
  <1> QED
    BY <1>4, <1>6 DEF Next, Quiescent

LEMMA Ends ==
  /\ \A r, code : Failing(r, code) => pc[r] # "idle" /\ Fail(r, code)
  /\ \A r : Committing(r) => pc[r] = "check" /\ Commit(r)
  BY DEF Failing, Committing

\* What an engine finds has a verdict, and is about reserves or detectors.
LEMMA FoundType ==
  ASSUME TypeOK, NEW r \in Requests, Placed(r), pc[r] \in {"forecast", "detect"}
  PROVE  /\ call[r] \in Calls /\ cycle[r] \in Cycle
         /\ ledger[call[r].run] \in Ledgers
         /\ \A s \in Found(r) :
              /\ s \in IF pc[r] = "forecast" THEN Reserves ELSE Detectors
              /\ Verdict[ledger[call[r].run]][s] \in Verdicts
  <1>1. call[r] \in Calls /\ call[r].run \in Runs
    BY CallFields DEF Placed
  <1>2. cycle[r] \in Cycle
    BY DEF Placed, TypeOK, Work
  <1>3. ledger[call[r].run] \in Ledgers
    BY <1>1, BoundAssumption DEF Placed, TypeOK, Ledgers
  <1>4. \A s \in Found(r) : s \in IF pc[r] = "forecast" THEN Reserves ELSE Detectors
    BY DEF Placed, Found, Findings
  <1>5. \A s \in Found(r) : s \in Subjects
    BY <1>4 DEF Subjects
  <1> QED
    BY <1>1, <1>2, <1>3, <1>4, <1>5, LedgerAssumption

\* The artifact a finding is cited by: of the cycle under way, found by the
\* lookup of the finding, and either new or persisted.
LEMMA SourceType ==
  ASSUME TypeOK, NEW r \in Requests, Placed(r), pc[r] \in {"forecast", "detect"},
         NEW s \in Found(r), Persists(r) \/ Persisted(cycle[r], s) # {}
  PROVE  LET l == ledger[call[r].run]
             a == SourceOf(r, s, l)
         IN /\ a \in Artifact
            /\ a.cycle = cycle[r]
            /\ LookupOf[a.subject] = LookupOf[s]
            /\ a \in artifacts \cup FreshRows(r, l)
  <1> DEFINE l == ledger[call[r].run]
             a == SourceOf(r, s, l)
  <1>1. s \in Subjects /\ l \in Nat /\ Verdict[l][s] \in Verdicts /\ cycle[r] \in Cycle
    BY FoundType DEF Subjects, Ledgers
  <1>2. CASE Persists(r)
    <2>1. a = [cycle |-> cycle[r], subject |-> s, basis |-> l, verdict |-> Verdict[l][s]]
      BY <1>2 DEF SourceOf
    <2>2. a \in FreshRows(r, l)
      BY <1>2 DEF FreshRows
    <2> QED
      BY <1>1, <2>1, <2>2 DEF Artifact
  <1>3. CASE ~Persists(r)
    <2>1. a \in Persisted(cycle[r], s)
      BY <1>3 DEF SourceOf
    <2> QED
      BY <2>1 DEF Persisted, TypeOK
  <1> QED
    BY <1>2, <1>3

\* So a candidate is a candidate.
LEMMA CandidateType ==
  ASSUME TypeOK, NEW r \in Requests, Placed(r), pc[r] \in {"forecast", "detect"},
         NEW s \in Found(r), Persists(r) \/ Persisted(cycle[r], s) # {}
  PROVE  LET l == ledger[call[r].run]
             c == CandidateFor(r, s, l)
         IN /\ c \in Candidate
            /\ c.key.subject = s
            /\ c.key.run = call[r].run
            /\ c.source = SourceOf(r, s, l)
  <1> DEFINE l == ledger[call[r].run]
             c == CandidateFor(r, s, l)
  <1>1. SourceOf(r, s, l) \in Artifact
    BY SourceType
  <1>2. s \in Subjects /\ l \in Nat /\ call[r].run \in Runs /\ window[r] \in Nat
    BY FoundType, CallFields DEF Subjects, Ledgers, TypeOK
  <1>3. c = [key |-> [run |-> call[r].run, subject |-> s, window |-> window[r]],
             basis |-> l, source |-> SourceOf(r, s, l)]
    BY DEF CandidateFor
  <1> QED
    BY <1>1, <1>2, <1>3 DEF Candidate, Key

\* Ending a request keeps the types of the variables of the requests.
LEMMA AnsweredType ==
  ASSUME TypeOK, NEW r \in Requests, NEW code \in Codes,
         NEW published \in SUBSET Key, NEW dups \in SUBSET Key,
         Answered(r, code, published, dups)
  PROVE  /\ pc' \in [Requests -> Steps \cup {"idle", "done"}]
         /\ call' \in [Requests -> Calls \cup {None}]
         /\ window' \in [Requests -> Nat]
         /\ cycle' \in [Requests -> Cycle \cup {None}]
         /\ todo' \in [Requests -> SUBSET Candidate]
         /\ work' \in [Requests -> Work]
         /\ merged' \in [Requests -> SUBSET Key]
         /\ reply' \in [Requests -> Reply \cup {None}]
  <1>1. NoWork \in Work
    BY DEF NoWork, Work
  <1>2. [code |-> code, published |-> published, merged |-> dups] \in Reply
    BY DEF Reply
  <1> QED
    BY <1>1, <1>2 DEF Answered, TypeOK

\* An inserted alert is an alert.
LEMMA NewAlertType ==
  ASSUME NEW r \in Requests, NEW c \in Candidate
  PROVE  /\ NewAlert(r, c) \in Alert
         /\ NewAlert(r, c).key = c.key
         /\ NewAlert(r, c).source = c.source
  BY DEF NewAlert, Alert, Candidate

-----------------------------------------------------------------------------
(* Types. *)

LEMMA TypeStep ==
  ASSUME TypeOK, \A r \in Requests : Placed(r), [Next]_vars
  PROVE  TypeOK'
  <1>1. ASSUME NEW r \in Requests, NEW c \in Calls, Start(r, c)
        PROVE  TypeOK'
    BY <1>1 DEF Start, tables, TypeOK, Steps
  <1>2. ASSUME NEW r \in Requests, OpenCycle(r)
        PROVE  TypeOK'
    <2> DEFINE c == call[r]
               l == ledger[c.run]
               fresh == [by |-> r, engine |-> pc[r], run |-> c.run, outlet |-> c.outlet,
                         started |-> clock]
    <2>1. c.run \in Runs /\ c.outlet \in Outlets
      BY <1>2, CallFields DEF OpenCycle, Placed, Engines
    <2>2. l \in Ledgers
      BY <1>2, <2>1, BoundAssumption DEF OpenCycle, TypeOK, Ledgers
    <2>3. WindowEnd[l][c.outlet] \in Nat
      BY <2>1, <2>2, LedgerAssumption
    <2>4. fresh \in Cycle
      BY <1>2, <2>1 DEF OpenCycle, Cycle, TypeOK
    <2>5. work' \in [Requests -> Work] /\ cycle' \in [Requests -> Cycle \cup {None}]
          /\ clock' \in Nat
      <3>1. CASE CyclesOf(c.run, pc[r]) = {}
        <4>1. /\ cycle' = [cycle EXCEPT ![r] = fresh]
              /\ work' = [work EXCEPT ![r].cycles = @ \cup {fresh}]
              /\ clock' = clock + 1
          BY <1>2, <3>1 DEF OpenCycle
        <4> HIDE DEF fresh
        <4>2. work[r] \in Work /\ [work[r] EXCEPT !.cycles = @ \cup {fresh}] \in Work
          BY <2>4 DEF TypeOK, Work
        <4>3. work' \in [Requests -> Work]
          BY <4>1, <4>2 DEF TypeOK
        <4> QED
          BY <2>4, <4>1, <4>3 DEF TypeOK
      <3>2. CASE CyclesOf(c.run, pc[r]) # {}
        <4>1. PICK c0 \in Earliest(CyclesOf(c.run, pc[r])) :
                cycle' = [cycle EXCEPT ![r] = c0] /\ work' = work /\ clock' = clock
          BY <1>2, <3>2 DEF OpenCycle
        <4>2. c0 \in Cycle
          BY DEF Earliest, CyclesOf, TypeOK
        <4> QED
          BY <4>1, <4>2 DEF TypeOK
      <3> QED
        BY <3>1, <3>2
    <2>6. /\ window' = [window EXCEPT ![r] = WindowEnd[l][c.outlet]]
          /\ pc' = [pc EXCEPT ![r] = IF pc[r] = "liquidity" THEN "forecast" ELSE "detect"]
          /\ UNCHANGED <<tables, call, todo, merged, reply>>
      BY <1>2 DEF OpenCycle
    <2> QED
      BY <2>3, <2>5, <2>6 DEF tables, TypeOK, Steps
  <1>3. ASSUME NEW r \in Requests, Analyse(r)
        PROVE  TypeOK'
    <2> DEFINE l == ledger[call[r].run]
    <2>1. /\ pc[r] \in {"forecast", "detect"}
          /\ \A s \in Found(r) : Persists(r) \/ Persisted(cycle[r], s) # {}
      BY <1>3 DEF Analyse
    <2>2. FreshRows(r, l) \subseteq Artifact
      BY <2>1, SourceType DEF FreshRows
    <2>3. Candidates(r, l) \subseteq Candidate
      BY <2>1, CandidateType DEF Candidates
    <2>4. /\ work' = [work EXCEPT ![r].artifacts = @ \cup FreshRows(r, l)]
          /\ todo' = [todo EXCEPT ![r] = @ \cup Candidates(r, l)]
          /\ pc' = [pc EXCEPT ![r] = IF pc[r] = "forecast" /\ call[r].kind = "publish"
                                     THEN "anomaly" ELSE "check"]
          /\ UNCHANGED <<tables, clock, call, window, cycle, merged, reply>>
      BY <1>3 DEF Analyse
    <2>5. work' \in [Requests -> Work]
      BY <2>2, <2>4 DEF TypeOK, Work
    <2> QED
      BY <2>3, <2>4, <2>5 DEF tables, TypeOK, Steps
  <1>4. ASSUME NEW r \in Requests, NEW c \in todo[r], Deduplicate(r, c)
        PROVE  TypeOK'
    <2>1. c.key \in Key
      BY DEF TypeOK, Candidate
    <2> QED
      BY <1>4, <2>1 DEF Deduplicate, tables, TypeOK
  <1>5. ASSUME NEW r \in Requests, NEW c \in todo[r], DecideToInsert(r, c)
        PROVE  TypeOK'
    BY <1>5 DEF DecideToInsert, tables, TypeOK, Steps
  <1>6. ASSUME NEW r \in Requests, NEW c \in todo[r], InsertAlert(r, c)
        PROVE  TypeOK'
    <2>1. NewAlert(r, c) \in Alert
      BY NewAlertType DEF TypeOK
    <2>2. /\ work' = [work EXCEPT ![r].alerts = @ \cup {NewAlert(r, c)}]
          /\ todo' = [todo EXCEPT ![r] = @ \ {c}]
          /\ pc' = [pc EXCEPT ![r] = "check"]
          /\ UNCHANGED <<tables, clock, call, window, cycle, merged, reply>>
      BY <1>6 DEF InsertAlert
    <2>3. work' \in [Requests -> Work]
      BY <2>1, <2>2 DEF TypeOK, Work
    <2> QED
      BY <2>2, <2>3 DEF tables, TypeOK, Steps
  <1>7. ASSUME NEW r \in Requests, NEW code \in Codes, Fail(r, code)
        PROVE  TypeOK'
    <2>1. {} \in SUBSET Key /\ Answered(r, code, {}, {})
      BY <1>7 DEF Fail
    <2>2. UNCHANGED <<ledger, cycles, artifacts, alerts, clock>>
      BY <1>7 DEF Fail, tables
    <2> QED
      BY <2>1, <2>2, AnsweredType DEF TypeOK
  <1>8. ASSUME NEW r \in Requests, Commit(r)
        PROVE  TypeOK'
    <2>1. work[r].cycles \subseteq Cycle /\ work[r].artifacts \subseteq Artifact
          /\ work[r].alerts \subseteq Alert
      BY DEF TypeOK, Work
    <2>2. {a.key : a \in work[r].alerts} \subseteq Key /\ merged[r] \subseteq Key /\ "ok" \in Codes
      BY <2>1 DEF Alert, TypeOK, Codes
    <2> QED
      BY <1>8, <2>1, <2>2, AnsweredType DEF Commit, TypeOK
  <1>9. ASSUME NEW run \in Runs, LedgerGrows(run)
        PROVE  TypeOK'
    <2>1. ledger' \in [Runs -> 0..MaxLedger]
      BY <1>9, BoundAssumption DEF LedgerGrows, TypeOK
    <2> QED
      BY <1>9, <2>1 DEF LedgerGrows, local, TypeOK
  <1>10. CASE UNCHANGED vars
    BY <1>10 DEF vars, tables, local, TypeOK
  <1> QED
    BY NextCases, Ends, <1>1, <1>2, <1>3, <1>4, <1>5, <1>6, <1>7, <1>8, <1>9, <1>10

\* A request stays where its step has put it.
LEMMA PlacedStep ==
  ASSUME TypeOK, \A r \in Requests : Placed(r), [Next]_vars, NEW q \in Requests
  PROVE  Placed(q)'
  <1>0. Placed(q)
    OBVIOUS
  <1>1. ASSUME NEW r \in Requests, NEW c \in Calls, Start(r, c)
        PROVE  Placed(q)'
    BY <1>0, <1>1 DEF Start, tables, TypeOK, Placed
  <1>2. ASSUME NEW r \in Requests, OpenCycle(r)
        PROVE  Placed(q)'
    <2> DEFINE c == call[r]
               fresh == [by |-> r, engine |-> pc[r], run |-> c.run, outlet |-> c.outlet,
                         started |-> clock]
    <2>1. /\ pc[r] \in Engines
          /\ ledger[c.run] # 0
          /\ pc' = [pc EXCEPT ![r] = IF pc[r] = "liquidity" THEN "forecast" ELSE "detect"]
          /\ UNCHANGED <<tables, call>>
      BY <1>2 DEF OpenCycle
    <2>2. CASE q # r
      <3>1. cycle'[q] = cycle[q] /\ work'[q] = work[q]
        BY <1>2, <2>2 DEF OpenCycle, TypeOK
      <3> QED
        BY <1>0, <2>1, <2>2, <3>1 DEF Placed, tables, TypeOK
    <2>3. CASE q = r
      <3>1. CASE CyclesOf(c.run, pc[r]) = {}
        <4>1. /\ cycle' = [cycle EXCEPT ![r] = fresh]
              /\ work' = [work EXCEPT ![r].cycles = @ \cup {fresh}]
          BY <1>2, <3>1 DEF OpenCycle
        <4>2. cycle'[r] = fresh /\ fresh \in work'[r].cycles
          BY <4>1 DEF TypeOK, Work
        <4> QED
          BY <1>0, <2>1, <2>3, <4>2 DEF Placed, tables, TypeOK, Engines
      <3>2. CASE CyclesOf(c.run, pc[r]) # {}
        <4>1. PICK c0 \in Earliest(CyclesOf(c.run, pc[r])) :
                cycle' = [cycle EXCEPT ![r] = c0] /\ work' = work
          BY <1>2, <3>2 DEF OpenCycle
        <4>2. c0 \in cycles /\ c0.engine = pc[r] /\ c0.run = c.run
          BY DEF Earliest, CyclesOf
        <4> QED
          BY <1>0, <2>1, <2>3, <4>1, <4>2 DEF Placed, tables, TypeOK, Engines
      <3> QED
        BY <3>1, <3>2
    <2> QED
      BY <2>2, <2>3
  <1>3. ASSUME NEW r \in Requests, Analyse(r)
        PROVE  Placed(q)'
    <2>1. work'[q].cycles = work[q].cycles
      BY <1>3 DEF Analyse, TypeOK, Work
    <2> QED
      BY <1>0, <1>3, <2>1 DEF Analyse, tables, TypeOK, Placed
  <1>4. ASSUME NEW r \in Requests, NEW c \in todo[r], Deduplicate(r, c)
        PROVE  Placed(q)'
    BY <1>0, <1>4 DEF Deduplicate, tables, Placed
  <1>5. ASSUME NEW r \in Requests, NEW c \in todo[r], DecideToInsert(r, c)
        PROVE  Placed(q)'
    BY <1>0, <1>5 DEF DecideToInsert, Publishing, tables, TypeOK, Placed
  <1>6. ASSUME NEW r \in Requests, NEW c \in todo[r], InsertAlert(r, c)
        PROVE  Placed(q)'
    <2>1. work'[q].cycles = work[q].cycles
      BY <1>6 DEF InsertAlert, TypeOK, Work
    <2> QED
      BY <1>0, <1>6, <2>1 DEF InsertAlert, Publishing, tables, TypeOK, Placed
  <1>7. ASSUME NEW r \in Requests, NEW code \in Codes, pc[r] # "idle", Fail(r, code)
        PROVE  Placed(q)'
    BY <1>0, <1>7 DEF Fail, Answered, tables, TypeOK, Placed
  <1>8. ASSUME NEW r \in Requests, pc[r] = "check", Commit(r)
        PROVE  Placed(q)'
    BY <1>0, <1>8 DEF Commit, Answered, TypeOK, Placed
  <1>9. ASSUME NEW run \in Runs, LedgerGrows(run)
        PROVE  Placed(q)'
    <2>1. \A other \in Runs : ledger[other] # 0 => ledger'[other] # 0
      BY <1>9, BoundAssumption DEF LedgerGrows, TypeOK
    <2>2. pc[q] # "idle" => call[q].run \in Runs
      BY <1>0, CallFields DEF Placed
    <2> QED
      BY <1>0, <1>9, <2>1, <2>2 DEF LedgerGrows, local, Placed
  <1>10. CASE UNCHANGED vars
    BY <1>0, <1>10 DEF vars, tables, local, Placed
  <1> QED
    BY NextCases, Ends, <1>1, <1>2, <1>3, <1>4, <1>5, <1>6, <1>7, <1>8, <1>9, <1>10

-----------------------------------------------------------------------------
(* Artifacts and citations. *)

\* The rows of a transaction with one more cycle, artifact or alert.
LEMMA WorkGrows ==
  ASSUME TypeOK, NEW r \in Requests, NEW S
  PROVE  /\ LET w == [work EXCEPT ![r].cycles = @ \cup S]
            IN /\ \A q \in Requests \ {r} : w[q] = work[q]
               /\ w[r].cycles = work[r].cycles \cup S
               /\ w[r].artifacts = work[r].artifacts
               /\ w[r].alerts = work[r].alerts
         /\ LET w == [work EXCEPT ![r].artifacts = @ \cup S]
            IN /\ \A q \in Requests \ {r} : w[q] = work[q]
               /\ w[r].cycles = work[r].cycles
               /\ w[r].artifacts = work[r].artifacts \cup S
               /\ w[r].alerts = work[r].alerts
         /\ LET w == [work EXCEPT ![r].alerts = @ \cup S]
            IN /\ \A q \in Requests \ {r} : w[q] = work[q]
               /\ w[r].cycles = work[r].cycles
               /\ w[r].artifacts = work[r].artifacts
               /\ w[r].alerts = work[r].alerts \cup S
  BY DEF TypeOK, Work

\* OpenCycle leaves every row alone but the cycles of the request.
LEMMA OpenCycleEffect ==
  ASSUME TypeOK, NEW r \in Requests, OpenCycle(r)
  PROVE  /\ \A q \in Requests : /\ work[q].cycles \subseteq work'[q].cycles
                                /\ work'[q].artifacts = work[q].artifacts
                                /\ work'[q].alerts = work[q].alerts
         /\ UNCHANGED <<ledger, cycles, artifacts, alerts, call, todo>>
  <1> DEFINE fresh == [by |-> r, engine |-> pc[r], run |-> call[r].run,
                       outlet |-> call[r].outlet, started |-> clock]
  <1>1. UNCHANGED <<ledger, cycles, artifacts, alerts, call, todo>>
    BY DEF OpenCycle, tables
  <1>2. work' = [work EXCEPT ![r].cycles = @ \cup {fresh}] \/ work' = work
    BY DEF OpenCycle
  <1> HIDE DEF fresh
  <1>3. CASE work' = [work EXCEPT ![r].cycles = @ \cup {fresh}]
    BY <1>1, <1>3, WorkGrows
  <1>4. CASE work' = work
    BY <1>1, <1>4
  <1> QED
    BY <1>2, <1>3, <1>4

\* A request that ends keeps nothing; the others are not touched.
LEMMA AnsweredEffect ==
  ASSUME TypeOK, NEW r \in Requests, NEW code, NEW published, NEW dups,
         Answered(r, code, published, dups)
  PROVE  /\ \A q \in Requests \ {r} : work'[q] = work[q] /\ todo'[q] = todo[q] /\ pc'[q] = pc[q]
         /\ work'[r].cycles = {} /\ work'[r].artifacts = {} /\ work'[r].alerts = {}
         /\ work'[r] = NoWork /\ todo'[r] = {} /\ pc'[r] = "done"
         /\ call' = call
  BY DEF Answered, TypeOK, NoWork

LEMMA ArtifactsStep ==
  ASSUME TypeOK, \A r \in Requests : Placed(r), ArtifactsHaveCycles, [Next]_vars
  PROVE  ArtifactsHaveCycles'
  <1>1. ASSUME NEW r \in Requests, NEW c \in Calls, Start(r, c)
        PROVE  ArtifactsHaveCycles'
    BY <1>1 DEF Start, tables, ArtifactsHaveCycles
  <1>2. ASSUME NEW r \in Requests, OpenCycle(r)
        PROVE  ArtifactsHaveCycles'
    BY <1>2, OpenCycleEffect DEF ArtifactsHaveCycles
  <1>3. ASSUME NEW r \in Requests, Analyse(r)
        PROVE  ArtifactsHaveCycles'
    <2> DEFINE F == FreshRows(r, ledger[call[r].run])
    <2>1. /\ pc[r] \in {"forecast", "detect"}
          /\ work' = [work EXCEPT ![r].artifacts = @ \cup F]
          /\ UNCHANGED <<cycles, artifacts>>
      BY <1>3 DEF Analyse, tables
    <2>2. \A a \in F : a.cycle = cycle[r]
      <3> SUFFICES ASSUME NEW s \in Found(r), Persists(r)
                   PROVE  SourceOf(r, s, ledger[call[r].run]).cycle = cycle[r]
        BY DEF FreshRows
      <3> QED
        BY <2>1, SourceType
    <2>3. cycle[r] \in cycles \cup work[r].cycles
      BY <2>1 DEF Placed
    <2> HIDE DEF F
    <2> QED
      BY <2>1, <2>2, <2>3, WorkGrows DEF ArtifactsHaveCycles
  <1>4. ASSUME NEW r \in Requests, NEW c \in todo[r],
               Deduplicate(r, c) \/ DecideToInsert(r, c)
        PROVE  ArtifactsHaveCycles'
    BY <1>4 DEF Deduplicate, DecideToInsert, tables, ArtifactsHaveCycles
  <1>5. ASSUME NEW r \in Requests, NEW c \in todo[r], InsertAlert(r, c)
        PROVE  ArtifactsHaveCycles'
    BY <1>5, WorkGrows DEF InsertAlert, tables, ArtifactsHaveCycles
  <1>6. ASSUME NEW r \in Requests, NEW code \in Codes, Fail(r, code)
        PROVE  ArtifactsHaveCycles'
    BY <1>6, AnsweredEffect DEF Fail, tables, ArtifactsHaveCycles
  <1>7. ASSUME NEW r \in Requests, Commit(r)
        PROVE  ArtifactsHaveCycles'
    BY <1>7, AnsweredEffect DEF Commit, ArtifactsHaveCycles
  <1>8. ASSUME NEW run \in Runs, LedgerGrows(run)
        PROVE  ArtifactsHaveCycles'
    BY <1>8 DEF LedgerGrows, local, ArtifactsHaveCycles
  <1>9. CASE UNCHANGED vars
    BY <1>9 DEF vars, tables, local, ArtifactsHaveCycles
  <1> QED
    BY NextCases, Ends, <1>1, <1>2, <1>3, <1>4, <1>5, <1>6, <1>7, <1>8, <1>9

\* A request goes on citing what is there.
LEMMA CitingStep ==
  ASSUME TypeOK, \A r \in Requests : Placed(r), \A r \in Requests : Queue(r),
         \A r \in Requests : Citing(r), [Next]_vars, NEW q \in Requests
  PROVE  Citing(q)'
  <1>0. Citing(q) /\ Queue(q)
    OBVIOUS
  <1>1. ASSUME NEW r \in Requests, NEW c \in Calls, Start(r, c)
        PROVE  Citing(q)'
    <2>1. CASE q = r
      BY <1>0, <1>1, <2>1 DEF Start, Queue, NoWork, TypeOK, Citing
    <2>2. CASE q # r
      BY <1>0, <1>1, <2>2 DEF Start, tables, TypeOK, Citing, Cites
    <2> QED
      BY <2>1, <2>2
  <1>2. ASSUME NEW r \in Requests, OpenCycle(r)
        PROVE  Citing(q)'
    BY <1>0, <1>2, OpenCycleEffect DEF Citing, Cites
  <1>3. ASSUME NEW r \in Requests, Analyse(r)
        PROVE  Citing(q)'
    <2> DEFINE l == ledger[call[r].run]
               F == FreshRows(r, l)
               N == Candidates(r, l)
    <2>1. /\ pc[r] \in {"forecast", "detect"}
          /\ \A s \in Found(r) : Persists(r) \/ Persisted(cycle[r], s) # {}
          /\ work' = [work EXCEPT ![r].artifacts = @ \cup F]
          /\ todo' = [todo EXCEPT ![r] = @ \cup N]
          /\ UNCHANGED <<artifacts, call>>
      BY <1>3 DEF Analyse, tables
    <2>2. \A c \in N : /\ c.key.run = call[r].run
                       /\ c.source \in artifacts \cup F
                       /\ c.source.cycle.run = c.key.run
                       /\ LookupOf[c.source.subject] = LookupOf[c.key.subject]
      <3> SUFFICES ASSUME NEW s \in Found(r)
                   PROVE  LET c == CandidateFor(r, s, l)
                          IN /\ c.key.run = call[r].run
                             /\ c.source \in artifacts \cup F
                             /\ c.source.cycle.run = c.key.run
                             /\ LookupOf[c.source.subject] = LookupOf[c.key.subject]
        BY DEF Candidates
      <3>1. cycle[r].run = call[r].run
        BY <2>1 DEF Placed
      <3> QED
        BY <2>1, <3>1, SourceType, CandidateType
    <2> HIDE DEF F, N
    <2>3. CASE q = r
      <3>1. /\ todo'[r] = todo[r] \cup N
            /\ work'[r].artifacts = work[r].artifacts \cup F
            /\ work'[r].alerts = work[r].alerts
        BY <2>1, WorkGrows DEF TypeOK
      <3> QED
        BY <1>0, <2>1, <2>2, <2>3, <3>1 DEF Citing, Cites
    <2>4. CASE q # r
      <3>1. todo'[q] = todo[q] /\ work'[q] = work[q]
        BY <2>1, <2>4 DEF TypeOK
      <3> QED
        BY <1>0, <2>1, <3>1 DEF Citing, Cites
    <2> QED
      BY <2>3, <2>4
  <1>4. ASSUME NEW r \in Requests, NEW c \in todo[r],
               Deduplicate(r, c) \/ DecideToInsert(r, c)
        PROVE  Citing(q)'
    <2>1. todo'[q] \subseteq todo[q] /\ UNCHANGED <<artifacts, work, call>>
      BY <1>4 DEF Deduplicate, DecideToInsert, tables, TypeOK
    <2> QED
      BY <1>0, <2>1 DEF Citing, Cites
  <1>5. ASSUME NEW r \in Requests, NEW c \in todo[r], InsertAlert(r, c)
        PROVE  Citing(q)'
    <2>1. /\ todo'[q] \subseteq todo[q]
          /\ work' = [work EXCEPT ![r].alerts = @ \cup {NewAlert(r, c)}]
          /\ UNCHANGED <<artifacts, call>>
      BY <1>5 DEF InsertAlert, tables, TypeOK
    <2>2. work'[q].artifacts = work[q].artifacts
      BY <2>1, WorkGrows
    <2>3. \A x : Cites(q, x) => Cites(q, x)'
      BY <2>1, <2>2 DEF Cites
    <2>4. CASE q = r
      <3>1. work'[r].alerts = work[r].alerts \cup {NewAlert(r, c)}
        BY <2>1, WorkGrows
      <3>2. c.source.verdict # "suppressed"
        BY <1>5 DEF InsertAlert, Refused
      <3>3. NewAlert(r, c).key = c.key /\ NewAlert(r, c).source = c.source
        BY DEF NewAlert
      <3>4. Cites(r, NewAlert(r, c))'
        BY <1>0, <2>1, <2>2, <2>4, <3>3 DEF Citing, Cites
      <3> QED
        BY <1>0, <2>1, <2>3, <2>4, <3>1, <3>2, <3>3, <3>4 DEF Citing
    <2>5. CASE q # r
      <3>1. work'[q].alerts = work[q].alerts
        BY <2>1, <2>5, WorkGrows
      <3> QED
        BY <1>0, <2>1, <2>3, <3>1 DEF Citing
    <2> QED
      BY <2>4, <2>5
  <1>6. ASSUME NEW r \in Requests, NEW code \in Codes, Fail(r, code)
        PROVE  Citing(q)'
    BY <1>0, <1>6, AnsweredEffect DEF Fail, tables, Citing, Cites
  <1>7. ASSUME NEW r \in Requests, Commit(r)
        PROVE  Citing(q)'
    <2>1. artifacts \subseteq artifacts'
      BY <1>7 DEF Commit
    <2> QED
      BY <1>0, <1>7, <2>1, AnsweredEffect DEF Commit, Citing, Cites
  <1>8. ASSUME NEW run \in Runs, LedgerGrows(run)
        PROVE  Citing(q)'
    BY <1>0, <1>8 DEF LedgerGrows, local, Citing, Cites
  <1>9. CASE UNCHANGED vars
    BY <1>0, <1>9 DEF vars, tables, local, Citing, Cites
  <1> QED
    BY NextCases, Ends, <1>1, <1>2, <1>3, <1>4, <1>5, <1>6, <1>7, <1>8, <1>9

\* A request keeps one candidate for a subject.
LEMMA QueueStep ==
  ASSUME TypeOK, \A r \in Requests : Placed(r), \A r \in Requests : Queue(r),
         [Next]_vars, NEW q \in Requests
  PROVE  Queue(q)'
  <1>0. Queue(q)
    OBVIOUS
  <1>1. ASSUME NEW r \in Requests, NEW c \in Calls, Start(r, c)
        PROVE  Queue(q)'
    BY <1>0, <1>1 DEF Start, TypeOK, Queue
  <1>2. ASSUME NEW r \in Requests, OpenCycle(r)
        PROVE  Queue(q)'
    <2>1. CASE q = r
      BY <1>0, <1>2, <2>1 DEF OpenCycle, Engines, TypeOK, Queue
    <2>2. CASE q # r
      <3>1. work'[q] = work[q] /\ todo'[q] = todo[q] /\ pc'[q] = pc[q]
        BY <1>2, <2>2 DEF OpenCycle, TypeOK
      <3> QED
        BY <1>0, <3>1 DEF Queue
    <2> QED
      BY <2>1, <2>2
  <1>3. ASSUME NEW r \in Requests, Analyse(r)
        PROVE  Queue(q)'
    <2> DEFINE l == ledger[call[r].run]
               N == Candidates(r, l)
    <2>1. /\ pc[r] \in {"forecast", "detect"}
          /\ \A s \in Found(r) : Persists(r) \/ Persisted(cycle[r], s) # {}
          /\ todo' = [todo EXCEPT ![r] = @ \cup N]
          /\ pc' = [pc EXCEPT ![r] = IF pc[r] = "forecast" /\ call[r].kind = "publish"
                                     THEN "anomaly" ELSE "check"]
      BY <1>3 DEF Analyse
    <2>2. CASE q # r
      <3>1. work'[q] = work[q] /\ todo'[q] = todo[q] /\ pc'[q] = pc[q]
        BY <1>3, <2>1, <2>2 DEF Analyse, TypeOK
      <3> QED
        BY <1>0, <3>1 DEF Queue
    <2>3. CASE q = r
      <3>1. \A c \in N : c.key.subject \in IF pc[r] = "forecast" THEN Reserves ELSE Detectors
        BY <2>1, CandidateType, FoundType DEF Candidates
      <3>2. \A c, d \in N : c.key.subject = d.key.subject => c = d
        <4> SUFFICES ASSUME NEW s \in Found(r), NEW t \in Found(r),
                            CandidateFor(r, s, l).key.subject = CandidateFor(r, t, l).key.subject
                     PROVE  s = t
          BY DEF Candidates
        <4> QED
          BY <2>1, CandidateType
      <3> HIDE DEF N
      <3>3. todo'[r] = todo[r] \cup N
        BY <2>1 DEF TypeOK
      <3>4. CASE pc[r] = "forecast"
        <4>1. todo[r] = {} /\ pc'[r] \in {"anomaly", "check"}
          BY <1>0, <2>1, <2>3, <3>4 DEF Queue, TypeOK
        <4> QED
          BY <2>3, <3>1, <3>2, <3>3, <3>4, <4>1 DEF Queue
      <3>5. CASE pc[r] = "detect"
        <4>1. \A c \in todo[r] : c.key.subject \in Reserves
          BY <1>0, <2>3, <3>5 DEF Queue
        <4>2. \A c, d \in todo[r] : c.key.subject = d.key.subject => c = d
          BY <1>0, <2>3 DEF Queue
        <4>3. \A c \in N : c.key.subject \in Detectors
          BY <3>1, <3>5
        <4>4. \A c, d \in todo[r] \cup N : c.key.subject = d.key.subject => c = d
          BY <3>2, <4>1, <4>2, <4>3, OrderAssumption
        <4>5. pc'[r] = "check"
          BY <2>1, <3>5 DEF TypeOK
        <4> QED
          BY <2>3, <3>3, <4>4, <4>5 DEF Queue
      <3> QED
        BY <2>1, <3>4, <3>5
    <2> QED
      BY <2>2, <2>3
  <1>4. ASSUME NEW r \in Requests, NEW c \in todo[r],
               Deduplicate(r, c) \/ DecideToInsert(r, c)
        PROVE  Queue(q)'
    <2>1. /\ todo'[q] \subseteq todo[q] /\ work' = work
          /\ pc[r] = "check"
          /\ \/ pc' = pc
             \/ pc' = [pc EXCEPT ![r] = "insert"]
      BY <1>4 DEF Deduplicate, DecideToInsert, Publishing, TypeOK
    <2> QED
      BY <1>0, <2>1 DEF Queue, TypeOK
  <1>5. ASSUME NEW r \in Requests, NEW c \in todo[r], InsertAlert(r, c)
        PROVE  Queue(q)'
    <2>1. /\ todo'[q] \subseteq todo[q]
          /\ pc' = [pc EXCEPT ![r] = "check"]
      BY <1>5 DEF InsertAlert, TypeOK
    <2>2. CASE q = r
      BY <1>0, <2>1, <2>2 DEF Queue, TypeOK
    <2>3. CASE q # r
      <3>1. work'[q] = work[q] /\ pc'[q] = pc[q]
        BY <1>5, <2>1, <2>3 DEF InsertAlert, TypeOK
      <3> QED
        BY <1>0, <2>1, <3>1 DEF Queue
    <2> QED
      BY <2>2, <2>3
  <1>6. ASSUME NEW r \in Requests, NEW code \in Codes, Fail(r, code)
        PROVE  Queue(q)'
    BY <1>0, <1>6, AnsweredEffect DEF Fail, Queue
  <1>7. ASSUME NEW r \in Requests, Commit(r)
        PROVE  Queue(q)'
    BY <1>0, <1>7, AnsweredEffect DEF Commit, Queue
  <1>8. ASSUME NEW run \in Runs, LedgerGrows(run)
        PROVE  Queue(q)'
    BY <1>0, <1>8 DEF LedgerGrows, local, Queue
  <1>9. CASE UNCHANGED vars
    BY <1>0, <1>9 DEF vars, local, Queue
  <1> QED
    BY NextCases, Ends, <1>1, <1>2, <1>3, <1>4, <1>5, <1>6, <1>7, <1>8, <1>9

\* One candidate at a time: no two candidates of a request have the turn.
LEMMA TurnUnique ==
  ASSUME TypeOK, NEW r \in Requests, Queue(r), NEW c, NEW d, Turn(r, c), Turn(r, d)
  PROVE  c = d
  <1>1. c \in Candidate /\ d \in Candidate /\ c \in todo[r] /\ d \in todo[r]
    BY DEF Turn, TypeOK
  <1>2. c.key.subject \in Subjects /\ d.key.subject \in Subjects
    BY <1>1 DEF Candidate, Key
  <1>3. Position[c.key.subject] = Position[d.key.subject]
    <2>1. Position[c.key.subject] \in Nat /\ Position[d.key.subject] \in Nat
      BY <1>2, OrderAssumption
    <2>2. /\ Position[c.key.subject] <= Position[d.key.subject]
          /\ Position[d.key.subject] <= Position[c.key.subject]
      BY <1>1 DEF Turn
    <2> QED
      BY <2>1, <2>2
  <1> QED
    BY <1>1, <1>2, <1>3, OrderAssumption DEF Queue

\* No step gives one key to two alerts.
LEMMA KeysStep ==
  ASSUME TypeOK, \A r \in Requests : Queue(r), KeysApart, [Next]_vars
  PROVE  KeysApart'
  <1>1. ASSUME NEW r \in Requests, NEW c \in Calls, Start(r, c)
        PROVE  KeysApart'
    BY <1>1 DEF Start, tables, TypeOK, KeysApart, OneActivePerKey, Turn
  <1>2. ASSUME NEW r \in Requests, OpenCycle(r)
        PROVE  KeysApart'
    <2>1. \A q \in Requests : pc'[q] = "insert" => pc[q] = "insert"
      BY <1>2 DEF OpenCycle, TypeOK
    <2> QED
      BY <1>2, <2>1, OpenCycleEffect DEF KeysApart, OneActivePerKey, Turn
  <1>3. ASSUME NEW r \in Requests, Analyse(r)
        PROVE  KeysApart'
    <2> DEFINE F == FreshRows(r, ledger[call[r].run])
    <2>1. work' = [work EXCEPT ![r].artifacts = @ \cup F] /\ UNCHANGED alerts
      BY <1>3 DEF Analyse, tables
    <2>2. \A q \in Requests : work'[q].alerts = work[q].alerts
      <3> HIDE DEF F
      <3> QED
        BY <2>1, WorkGrows
    <2>3. \A q \in Requests : pc'[q] = "insert" => pc[q] = "insert" /\ todo'[q] = todo[q]
      BY <1>3 DEF Analyse, TypeOK
    <2> QED
      BY <2>1, <2>2, <2>3 DEF KeysApart, OneActivePerKey, Turn
  <1>4. ASSUME NEW r \in Requests, NEW c \in todo[r], Deduplicate(r, c)
        PROVE  KeysApart'
    <2>1. \A q \in Requests : pc'[q] = "insert" => pc[q] = "insert" /\ todo'[q] = todo[q]
      BY <1>4 DEF Deduplicate, Publishing, TypeOK
    <2> QED
      BY <1>4, <2>1 DEF Deduplicate, tables, KeysApart, OneActivePerKey, Turn
  <1>5. ASSUME NEW r \in Requests, NEW c \in todo[r], DecideToInsert(r, c)
        PROVE  KeysApart'
    <2>1. /\ UNCHANGED <<alerts, todo, work>>
          /\ \A q \in Requests : q # r => pc'[q] = pc[q]
          /\ Turn(r, c)
          /\ \A a \in work[r].alerts : a.key # c.key
      BY <1>5 DEF DecideToInsert, Publishing, ActiveAlert, tables, TypeOK
    <2>2. \A d \in todo[r] : Turn(r, d) => d = c
      BY <2>1, TurnUnique
    <2> QED
      BY <2>1, <2>2 DEF KeysApart, OneActivePerKey, Turn
  <1>6. ASSUME NEW r \in Requests, NEW c \in todo[r], InsertAlert(r, c)
        PROVE  KeysApart'
    <2> DEFINE S == {NewAlert(r, c)}
    <2>1. \A a, b \in S : a.key = c.key /\ a = b
      BY DEF NewAlert
    <2>2. /\ \A a \in work[r].alerts : a.key # c.key
          /\ \A a \in alerts : a.key # c.key
          /\ \A q \in Requests \ {r} : \A a \in work[q].alerts : a.key # c.key
      BY <1>6 DEF InsertAlert, Publishing, KeySettled, Refused, KeysApart
    <2>3. work' = [work EXCEPT ![r].alerts = @ \cup S] /\ UNCHANGED alerts
      BY <1>6 DEF InsertAlert, tables
    <2> HIDE DEF S
    <2>4. /\ \A q \in Requests \ {r} : work'[q] = work[q]
          /\ work'[r].alerts = work[r].alerts \cup S
      BY <2>3, WorkGrows
    <2>5. \A q \in Requests : pc'[q] = "insert" => q # r /\ pc[q] = "insert" /\ todo'[q] = todo[q]
      BY <1>6 DEF InsertAlert, TypeOK
    <2>6. \A q \in Requests : \A a \in work'[q].alerts :
            /\ \A b \in work'[q].alerts : a.key = b.key => a = b
            /\ \A b \in alerts : a.key # b.key
      BY <2>1, <2>2, <2>4 DEF KeysApart
    <2>7. \A q \in Requests : \A a \in work'[q].alerts :
            \A p \in Requests \ {q} : \A b \in work'[p].alerts : a.key # b.key
      BY <2>1, <2>2, <2>4 DEF KeysApart
    <2>8. \A q \in Requests : pc'[q] = "insert" =>
            \A d \in todo'[q] : Turn(q, d)' => \A a \in work'[q].alerts : a.key # d.key
      BY <2>4, <2>5 DEF KeysApart, Turn
    <2> QED
      BY <2>3, <2>6, <2>7, <2>8 DEF KeysApart, OneActivePerKey
  <1>7. ASSUME NEW r \in Requests, NEW code \in Codes, Fail(r, code)
        PROVE  KeysApart'
    <2>1. UNCHANGED alerts
      BY <1>7 DEF Fail, tables
    <2> QED
      BY <1>7, <2>1, AnsweredEffect DEF Fail, KeysApart, OneActivePerKey, Turn
  <1>8. ASSUME NEW r \in Requests, Commit(r)
        PROVE  KeysApart'
    <2>1. alerts' = alerts \cup work[r].alerts
      BY <1>8 DEF Commit
    <2>2. /\ \A q \in Requests \ {r} : work'[q] = work[q] /\ todo'[q] = todo[q] /\ pc'[q] = pc[q]
          /\ work'[r].alerts = {} /\ pc'[r] = "done"
      BY <1>8, AnsweredEffect DEF Commit
    <2>3. OneActivePerKey'
      BY <2>1 DEF KeysApart, OneActivePerKey
    <2>4. \A q \in Requests : \A a \in work'[q].alerts :
            /\ \A b \in work'[q].alerts : a.key = b.key => a = b
            /\ \A b \in alerts' : a.key # b.key
            /\ \A p \in Requests \ {q} : \A b \in work'[p].alerts : a.key # b.key
      BY <2>1, <2>2 DEF KeysApart
    <2>5. \A q \in Requests : pc'[q] = "insert" =>
            \A d \in todo'[q] : Turn(q, d)' => \A a \in work'[q].alerts : a.key # d.key
      BY <2>2 DEF KeysApart, Turn
    <2> QED
      BY <2>3, <2>4, <2>5 DEF KeysApart
  <1>9. CASE (\E run \in Runs : LedgerGrows(run)) \/ UNCHANGED vars
    <2>1. UNCHANGED <<alerts, pc, todo, work>>
      BY <1>9 DEF LedgerGrows, vars, tables, local
    <2> QED
      BY <2>1 DEF KeysApart, OneActivePerKey, Turn
  <1> QED
    BY NextCases, Ends, <1>1, <1>2, <1>3, <1>4, <1>5, <1>6, <1>7, <1>8, <1>9

\* The alerts of the table change only when a publication commits.
LEMMA AlertsChange ==
  ASSUME [Next]_vars
  PROVE  \/ \E r \in Requests : pc[r] = "check" /\ Commit(r)
         \/ alerts' = alerts /\ cycles' = cycles /\ artifacts' = artifacts
  BY NextCases, Ends DEF Start, OpenCycle, Analyse, Deduplicate, DecideToInsert, InsertAlert, Fail,
     LedgerGrows, vars, tables

LEMMA CommittedStep ==
  ASSUME IInv, [Next]_vars
  PROVE  AlertsCiteTheirRun' /\ NoAlertOnSuppressedFlag'
  <1>1. ASSUME NEW r \in Requests, Commit(r)
        PROVE  AlertsCiteTheirRun' /\ NoAlertOnSuppressedFlag'
    <2>1. /\ alerts' = alerts \cup work[r].alerts
          /\ artifacts' = artifacts \cup work[r].artifacts
          /\ cycles' = cycles \cup work[r].cycles
      BY <1>1 DEF Commit
    <2>2. \A a \in artifacts \cup work[r].artifacts : a.cycle \in cycles \cup work[r].cycles
      BY DEF IInv, ArtifactsHaveCycles
    <2>3. \A a \in work[r].alerts : Cites(r, a) /\ a.source.verdict # "suppressed"
      BY DEF IInv, Citing
    <2> QED
      BY <2>1, <2>2, <2>3 DEF IInv, Cites, AlertsCiteTheirRun, NoAlertOnSuppressedFlag
  <1>2. CASE alerts' = alerts /\ cycles' = cycles /\ artifacts' = artifacts
    BY <1>2 DEF IInv, AlertsCiteTheirRun, NoAlertOnSuppressedFlag
  <1> QED
    BY AlertsChange, <1>1, <1>2

-----------------------------------------------------------------------------
(* The theorems. *)

LEMMA InitIInv == Init => IInv
  <1> SUFFICES ASSUME Init
               PROVE  IInv
    OBVIOUS
  <1>1. TypeOK
    BY BoundAssumption DEF Init, TypeOK, NoWork, Work
  <1>2. \A r \in Requests : Placed(r) /\ Citing(r) /\ Queue(r)
    BY DEF Init, Placed, Citing, Queue, NoWork
  <1>3. ArtifactsHaveCycles /\ KeysApart /\ AlertsCiteTheirRun /\ NoAlertOnSuppressedFlag
    BY DEF Init, ArtifactsHaveCycles, KeysApart, OneActivePerKey, AlertsCiteTheirRun,
       NoAlertOnSuppressedFlag, NoWork
  <1> QED
    BY <1>1, <1>2, <1>3 DEF IInv

LEMMA NextIInv == IInv /\ [Next]_vars => IInv'
  <1> SUFFICES ASSUME IInv, [Next]_vars
               PROVE  IInv'
    OBVIOUS
  <1>1. TypeOK'
    BY TypeStep DEF IInv
  <1>2. \A r \in Requests : Placed(r)'
    BY PlacedStep DEF IInv
  <1>3. ArtifactsHaveCycles'
    BY ArtifactsStep DEF IInv
  <1>4. \A r \in Requests : Citing(r)'
    BY CitingStep DEF IInv
  <1>5. \A r \in Requests : Queue(r)'
    BY QueueStep DEF IInv
  <1>6. KeysApart'
    BY KeysStep DEF IInv
  <1> QED
    BY <1>1, <1>2, <1>3, <1>4, <1>5, <1>6, CommittedStep DEF IInv

LEMMA Invariance == Spec => []IInv
  BY InitIInv, NextIInv, PTL DEF Spec

\* Every variable keeps its type: tables, transactions and answers.
THEOREM TypeCorrect == Spec => []TypeOK
  <1>1. IInv => TypeOK
    BY DEF IInv
  <1> QED
    BY <1>1, Invariance, PTL

\* The lookup of _publish_one and the unique index keep one active alert for a
\* deduplication key, however many publications overlap.
THEOREM OneAlertPerKey == Spec => []OneActivePerKey
  <1>1. IInv => OneActivePerKey
    BY DEF IInv, KeysApart
  <1> QED
    BY <1>1, Invariance, PTL

\* Every alert cites a persisted artifact of a persisted cycle of its own run,
\* also when a replay cites what an earlier publication has persisted.
THEOREM CitationsOfTheRun == Spec => []AlertsCiteTheirRun
  <1>1. IInv => AlertsCiteTheirRun
    BY DEF IInv
  <1> QED
    BY <1>1, Invariance, PTL

\* No alert rests on a flag that was suppressed for bad data.
THEOREM NoSuppressedEvidence == Spec => []NoAlertOnSuppressedFlag
  <1>1. IInv => NoAlertOnSuppressedFlag
    BY DEF IInv
  <1> QED
    BY <1>1, Invariance, PTL

\* Each step of publication is a publication of the abstract book, or leaves
\* the book as it is.
LEMMA BookStep ==
  ASSUME IInv, [Next]_vars
  PROVE  [Book!Next]_alerts
  <1>1. ASSUME NEW r \in Requests, Commit(r)
        PROVE  Book!Next
    <2> DEFINE S == alerts' \ alerts
    <2>1. alerts' = alerts \cup work[r].alerts
      BY <1>1 DEF Commit
    <2>2. S \subseteq work[r].alerts
      BY <2>1
    <2>3. S \subseteq Alert
      BY <2>2 DEF IInv, TypeOK, Work
    <2>4. \A a, b \in S : a.key = b.key => a = b
      BY <2>2 DEF IInv, KeysApart
    <2>5. \A a \in S : \A b \in alerts : a.key # b.key
      BY <2>2 DEF IInv, KeysApart
    <2>6. \A a, b \in S : a.key.run = b.key.run
      BY <2>2 DEF IInv, Citing, Cites
    <2> HIDE DEF S
    <2>7. Book!OnePerKey(S)
      BY <2>4 DEF Book!OnePerKey
    <2>8. Book!KeysOf(S) \cap Book!KeysOf(alerts) = {}
      BY <2>5 DEF Book!KeysOf
    <2>9. Book!Publishable(S)
      BY <2>3, <2>6, <2>7, <2>8 DEF Book!Publishable, KeyRun
    <2> QED
      BY <2>1, <2>9 DEF Book!Next, S
  <1> QED
    BY AlertsChange, <1>1

\* Concurrent publication implements the abstract book of alerts.
THEOREM PublicationImplementsBook == Spec => ImplementsBook
  <1>1. Init => Book!Init
    BY DEF Init, Book!Init
  <1> QED
    BY <1>1, Invariance, BookStep, PTL DEF Spec, ImplementsBook, Book!Spec

-----------------------------------------------------------------------------
(* Answers that account for every candidate. *)

\* Every ledger of the run calls for an alert of s, one the call of r is about.
Due(r, s) == OutletOf[s] = call[r].outlet /\ \A l \in Ledgers : CallsForAlert(s, l)

\* A publication has not lost sight of s: it is a candidate, an alert the
\* transaction has inserted, or a key found already published.
InSight(r, s) ==
  \/ \E c \in todo[r] : c.key.subject = s
  \/ \E a \in work[r].alerts : a.key.subject = s
  \/ \E k \in merged[r] : k.subject = s

\* What a publication has in sight at each of its steps.
Covers(r) ==
  (pc[r] \in {"anomaly", "detect", "check", "insert"} /\ call[r].kind = "publish") =>
    /\ \A s \in Reserves : Due(r, s) => InSight(r, s)
    /\ pc[r] \in {"check", "insert"} => \A s \in Detectors : Due(r, s) => InSight(r, s)

\* What AnswersAccountForCandidates says of the answer to r.
AnswerAccounts(r) ==
  (reply[r] # None /\ reply[r].code = "ok") =>
    /\ reply[r].published = {a.key : a \in {b \in alerts : b.by = r}}
    /\ \A k \in reply[r].merged : \E a \in alerts : a.key = k
    /\ call[r].kind = "publish" =>
         \A s \in Subjects :
           Due(r, s) => \E k \in reply[r].published \cup reply[r].merged : k.subject = s

Accounted(r) ==
  /\ \A a \in work[r].alerts : a.by = r
  /\ pc[r] # "done" => reply[r] = None /\ \A a \in alerts : a.by # r
  /\ \A k \in merged[r] : \E a \in alerts \cup work[r].alerts : a.key = k
  /\ Covers(r)
  /\ AnswerAccounts(r)

\* A request that a step leaves alone stays accounted for, whatever alerts
\* others publish.
LEMMA AccountedFrame ==
  ASSUME NEW q \in Requests, Accounted(q),
         pc'[q] = pc[q], call'[q] = call[q], todo'[q] = todo[q],
         work'[q].alerts = work[q].alerts, merged'[q] = merged[q], reply'[q] = reply[q],
         alerts \subseteq alerts', \A a \in alerts' \ alerts : a.by # q
  PROVE  Accounted(q)'
  <1>1. \A s : (Due(q, s)' <=> Due(q, s)) /\ (InSight(q, s)' <=> InSight(q, s))
    BY DEF Due, InSight, CallsForAlert
  <1>2. Covers(q)'
    BY <1>1 DEF Accounted, Covers
  <1>3. {b \in alerts' : b.by = q} = {b \in alerts : b.by = q}
    OBVIOUS
  <1>4. AnswerAccounts(q)'
    <2> SUFFICES ASSUME reply[q] # None, reply[q].code = "ok"
                 PROVE  AnswerAccounts(q)'
      BY DEF AnswerAccounts
    <2>1. /\ reply[q].published = {a.key : a \in {b \in alerts' : b.by = q}}
          /\ \A k \in reply[q].merged : \E a \in alerts' : a.key = k
      BY <1>3 DEF Accounted, AnswerAccounts
    <2>2. call[q].kind = "publish" =>
            \A s \in Subjects :
              Due(q, s)' => \E k \in reply[q].published \cup reply[q].merged : k.subject = s
      BY <1>1 DEF Accounted, AnswerAccounts
    <2> QED
      BY <2>1, <2>2 DEF AnswerAccounts
  <1>5. pc[q] # "done" => \A a \in alerts' : a.by # q
    BY DEF Accounted
  <1> QED
    BY <1>2, <1>4, <1>5 DEF Accounted

\* A step of another request leaves a request's variables alone.
LEMMA OthersStand ==
  ASSUME TypeOK, NEW r \in Requests, NEW q \in Requests \ {r},
         \/ \E c \in Calls : Start(r, c)
         \/ OpenCycle(r) \/ Analyse(r)
         \/ \E c \in todo[r] : Deduplicate(r, c) \/ DecideToInsert(r, c) \/ InsertAlert(r, c)
         \/ \E code : Fail(r, code)
         \/ Commit(r)
  PROVE  /\ pc'[q] = pc[q] /\ call'[q] = call[q] /\ cycle'[q] = cycle[q]
         /\ todo'[q] = todo[q] /\ work'[q] = work[q]
         /\ merged'[q] = merged[q] /\ reply'[q] = reply[q]
  <1>1. ASSUME NEW c \in Calls, Start(r, c)
        PROVE  pc'[q] = pc[q] /\ call'[q] = call[q] /\ UNCHANGED <<cycle, todo, work, merged, reply>>
    BY <1>1 DEF Start, TypeOK
  <1>2. CASE OpenCycle(r)
    <2>1. pc'[q] = pc[q] /\ UNCHANGED <<call, todo, merged, reply>>
      BY <1>2 DEF OpenCycle, TypeOK
    <2>2. work'[q] = work[q] /\ cycle'[q] = cycle[q]
      BY <1>2 DEF OpenCycle, TypeOK
    <2> QED
      BY <2>1, <2>2
  <1>3. CASE Analyse(r)
    BY <1>3 DEF Analyse, TypeOK
  <1>4. ASSUME NEW c \in todo[r], Deduplicate(r, c) \/ DecideToInsert(r, c) \/ InsertAlert(r, c)
        PROVE  /\ pc'[q] = pc[q] /\ todo'[q] = todo[q] /\ work'[q] = work[q]
               /\ merged'[q] = merged[q] /\ UNCHANGED <<call, cycle, reply>>
    BY <1>4 DEF Deduplicate, DecideToInsert, InsertAlert, TypeOK
  <1>5. ASSUME \E code : Fail(r, code)
        PROVE  /\ pc'[q] = pc[q] /\ todo'[q] = todo[q] /\ work'[q] = work[q]
               /\ merged'[q] = merged[q] /\ reply'[q] = reply[q]
               /\ cycle'[q] = cycle[q] /\ UNCHANGED call
    BY <1>5 DEF Fail, Answered, TypeOK
  <1>6. CASE Commit(r)
    BY <1>6 DEF Commit, Answered, TypeOK
  <1> QED
    BY <1>1, <1>2, <1>3, <1>4, <1>5, <1>6

\* An engine leaves a candidate for every subject of its own that is due.
LEMMA CandidateForDue ==
  ASSUME TypeOK, NEW r \in Requests, Placed(r), pc[r] \in {"forecast", "detect"},
         \A s \in Found(r) : Persists(r) \/ Persisted(cycle[r], s) # {},
         NEW s \in IF pc[r] = "forecast" THEN Reserves ELSE Detectors, Due(r, s)
  PROVE  \E c \in Candidates(r, ledger[call[r].run]) : c.key.subject = s
  <1> DEFINE l == ledger[call[r].run]
  <1>1. CallsForAlert(s, l)
    BY FoundType DEF Due
  <1>2. s \in Found(r)
    BY <1>1 DEF Found, Findings, Due, CallsForAlert, Placed
  <1>3. CandidateFor(r, s, l) \in Candidates(r, l)
    BY <1>1, <1>2 DEF Candidates
  <1> QED
    BY <1>2, <1>3, CandidateType

LEMMA AccountedStep ==
  ASSUME IInv, \A r \in Requests : Accounted(r), [Next]_vars, NEW q \in Requests
  PROVE  Accounted(q)'
  <1> USE DEF IInv
  <1>0. Accounted(q)
    OBVIOUS
  <1>1. ASSUME NEW r \in Requests, NEW c \in Calls, Start(r, c)
        PROVE  Accounted(q)'
    <2>1. UNCHANGED <<alerts, todo, work, merged, reply>>
      BY <1>1 DEF Start, tables
    <2>2. CASE q # r
      BY <1>0, <1>1, <2>1, <2>2, OthersStand, AccountedFrame
    <2>3. CASE q = r
      <3>1. /\ pc[r] = "idle" /\ pc'[r] \in {"anomaly", "liquidity"}
            /\ pc'[r] = "anomaly" => call'[r].kind = "anomaly"
        BY <1>1 DEF Start, TypeOK
      <3>2. Covers(r)'
        BY <3>1 DEF Covers
      <3>3. reply[r] = None
        BY <1>0, <2>3, <3>1 DEF Accounted
      <3> QED
        BY <1>0, <2>1, <2>3, <3>1, <3>2, <3>3 DEF Accounted, AnswerAccounts
    <2> QED
      BY <2>2, <2>3
  <1>2. ASSUME NEW r \in Requests, OpenCycle(r)
        PROVE  Accounted(q)'
    <2>1. UNCHANGED <<alerts, call, todo, merged, reply>> /\ work'[q].alerts = work[q].alerts
      BY <1>2, OpenCycleEffect DEF OpenCycle
    <2>2. CASE q # r
      BY <1>0, <1>2, <2>1, <2>2, OthersStand, AccountedFrame
    <2>3. CASE q = r
      <3>1. /\ pc[r] \in Engines
            /\ pc'[r] = IF pc[r] = "liquidity" THEN "forecast" ELSE "detect"
        BY <1>2 DEF OpenCycle, TypeOK
      <3>2. \A s : (Due(q, s)' <=> Due(q, s)) /\ (InSight(q, s)' <=> InSight(q, s))
        BY <2>1 DEF Due, InSight, CallsForAlert
      <3>3. Covers(r)'
        BY <1>0, <2>1, <2>3, <3>1, <3>2 DEF Covers, Accounted, Engines
      <3>4. reply[r] = None /\ pc'[r] # "done" /\ pc[r] # "done"
        BY <1>0, <2>3, <3>1 DEF Accounted, Engines
      <3> QED
        BY <1>0, <2>1, <2>3, <3>3, <3>4 DEF Accounted, AnswerAccounts
    <2> QED
      BY <2>2, <2>3
  <1>3. ASSUME NEW r \in Requests, Analyse(r)
        PROVE  Accounted(q)'
    <2> DEFINE l == ledger[call[r].run]
               F == FreshRows(r, l)
               N == Candidates(r, l)
    <2>1. /\ pc[r] \in {"forecast", "detect"}
          /\ \A s \in Found(r) : Persists(r) \/ Persisted(cycle[r], s) # {}
          /\ work' = [work EXCEPT ![r].artifacts = @ \cup F]
          /\ todo' = [todo EXCEPT ![r] = @ \cup N]
          /\ pc' = [pc EXCEPT ![r] = IF pc[r] = "forecast" /\ call[r].kind = "publish"
                                     THEN "anomaly" ELSE "check"]
          /\ UNCHANGED <<alerts, call, merged, reply>>
      BY <1>3 DEF Analyse, tables
    <2>2. \A s \in IF pc[r] = "forecast" THEN Reserves ELSE Detectors :
            Due(r, s) => \E c \in N : c.key.subject = s
      BY <2>1, CandidateForDue
    <2> HIDE DEF F, N
    <2>3. CASE q # r
      BY <1>0, <1>3, <2>1, <2>3, OthersStand, AccountedFrame
    <2>4. CASE q = r
      <3>1. /\ todo'[r] = todo[r] \cup N
            /\ work'[r].alerts = work[r].alerts
            /\ pc'[r] = IF pc[r] = "forecast" /\ call[r].kind = "publish"
                        THEN "anomaly" ELSE "check"
        BY <2>1, WorkGrows DEF TypeOK
      <3>2. \A s : (Due(r, s)' <=> Due(r, s)) /\ (InSight(r, s) => InSight(r, s)')
        BY <2>1, <3>1 DEF Due, InSight, CallsForAlert
      <3>3. \A s : (\E c \in N : c.key.subject = s) => InSight(r, s)'
        BY <3>1 DEF InSight
      <3>4. Covers(r)'
        <4>1. CASE pc[r] = "forecast"
          BY <2>1, <2>2, <3>1, <3>2, <3>3, <4>1 DEF Covers
        <4>2. CASE pc[r] = "detect"
          BY <1>0, <2>1, <2>2, <2>4, <3>1, <3>2, <3>3, <4>2 DEF Covers, Accounted
        <4> QED
          BY <2>1, <4>1, <4>2
      <3>5. reply[r] = None /\ pc'[r] # "done" /\ pc[r] # "done"
        BY <1>0, <2>1, <2>4, <3>1 DEF Accounted
      <3> QED
        BY <1>0, <2>1, <2>4, <3>1, <3>4, <3>5 DEF Accounted, AnswerAccounts
    <2> QED
      BY <2>3, <2>4
  <1>4. ASSUME NEW r \in Requests, NEW c \in todo[r], Deduplicate(r, c)
        PROVE  Accounted(q)'
    <2>1. /\ UNCHANGED <<alerts, pc, call, work, reply>>
          /\ pc[r] = "check"
          /\ \E a \in alerts \cup work[r].alerts : a.key = c.key
      BY <1>4 DEF Deduplicate, Publishing, ActiveAlert, tables
    <2>2. CASE q # r
      BY <1>0, <1>4, <2>1, <2>2, OthersStand, AccountedFrame
    <2>3. CASE q = r
      <3>1. /\ merged'[r] = merged[r] \cup {c.key}
            /\ todo'[r] = todo[r] \ {c}
        BY <1>4 DEF Deduplicate, TypeOK
      <3>2. \A s : (Due(r, s)' <=> Due(r, s)) /\ (InSight(r, s) => InSight(r, s)')
        BY <2>1, <3>1 DEF Due, InSight, CallsForAlert
      <3>3. Covers(r)'
        BY <1>0, <2>1, <2>3, <3>2 DEF Covers, Accounted
      <3>4. \A k \in merged'[r] : \E a \in alerts' \cup work'[r].alerts : a.key = k
        BY <1>0, <2>1, <2>3, <3>1 DEF Accounted
      <3>5. reply[r] = None /\ AnswerAccounts(r)'
        BY <1>0, <2>1, <2>3 DEF Accounted, AnswerAccounts
      <3> QED
        BY <1>0, <2>1, <2>3, <3>3, <3>4, <3>5 DEF Accounted
    <2> QED
      BY <2>2, <2>3
  <1>5. ASSUME NEW r \in Requests, NEW c \in todo[r], DecideToInsert(r, c)
        PROVE  Accounted(q)'
    <2>1. UNCHANGED <<alerts, call, todo, work, merged, reply>> /\ pc[r] = "check"
      BY <1>5 DEF DecideToInsert, Publishing, tables
    <2>2. CASE q # r
      BY <1>0, <1>5, <2>1, <2>2, OthersStand, AccountedFrame
    <2>3. CASE q = r
      <3>1. pc'[r] = "insert"
        BY <1>5 DEF DecideToInsert, TypeOK
      <3>2. \A s : (Due(r, s)' <=> Due(r, s)) /\ (InSight(r, s)' <=> InSight(r, s))
        BY <2>1 DEF Due, InSight, CallsForAlert
      <3>3. Covers(r)'
        BY <1>0, <2>1, <2>3, <3>1, <3>2 DEF Covers, Accounted
      <3>4. reply[r] = None /\ AnswerAccounts(r)'
        BY <1>0, <2>1, <2>3 DEF Accounted, AnswerAccounts
      <3> QED
        BY <1>0, <2>1, <2>3, <3>1, <3>3, <3>4 DEF Accounted
    <2> QED
      BY <2>2, <2>3
  <1>6. ASSUME NEW r \in Requests, NEW c \in todo[r], InsertAlert(r, c)
        PROVE  Accounted(q)'
    <2>1. /\ UNCHANGED <<alerts, call, merged, reply>>
          /\ pc[r] = "insert"
          /\ work' = [work EXCEPT ![r].alerts = @ \cup {NewAlert(r, c)}]
      BY <1>6 DEF InsertAlert, Publishing, tables
    <2>2. CASE q # r
      BY <1>0, <1>6, <2>1, <2>2, OthersStand, AccountedFrame
    <2>3. CASE q = r
      <3>1. /\ todo'[r] = todo[r] \ {c} /\ pc'[r] = "check"
            /\ work'[r].alerts = work[r].alerts \cup {NewAlert(r, c)}
        BY <1>6, <2>1, WorkGrows DEF InsertAlert, TypeOK
      <3>2. NewAlert(r, c).key = c.key /\ NewAlert(r, c).by = r
        BY DEF NewAlert
      <3>3. \A s : (Due(r, s)' <=> Due(r, s)) /\ (InSight(r, s) => InSight(r, s)')
        BY <2>1, <3>1, <3>2 DEF Due, InSight, CallsForAlert
      <3>4. Covers(r)'
        BY <1>0, <2>1, <2>3, <3>1, <3>3 DEF Covers, Accounted
      <3>5. reply[r] = None /\ AnswerAccounts(r)'
        BY <1>0, <2>1, <2>3 DEF Accounted, AnswerAccounts
      <3> QED
        BY <1>0, <2>1, <2>3, <3>1, <3>2, <3>4, <3>5 DEF Accounted
    <2> QED
      BY <2>2, <2>3
  <1>7. ASSUME NEW r \in Requests, NEW code \in Codes, Failing(r, code)
        PROVE  Accounted(q)'
    <2>1. Fail(r, code) /\ UNCHANGED alerts /\ code # "ok"
      BY <1>7 DEF Failing, Fail, tables
    <2>2. CASE q # r
      BY <1>0, <2>1, <2>2, OthersStand, AccountedFrame
    <2>3. CASE q = r
      <3>1. /\ pc'[r] = "done" /\ merged'[r] = {} /\ reply'[r].code = code
            /\ work'[r].alerts = {}
        BY <2>1 DEF Fail, Answered, TypeOK, NoWork
      <3> QED
        BY <2>1, <2>3, <3>1 DEF Accounted, Covers, AnswerAccounts
    <2> QED
      BY <2>2, <2>3
  <1>8. ASSUME NEW r \in Requests, Committing(r)
        PROVE  Accounted(q)'
    <2>1. /\ Commit(r) /\ pc[r] = "check" /\ alerts' = alerts \cup work[r].alerts
          /\ call[r].kind = "publish" => todo[r] = {}
      BY <1>8 DEF Committing, Commit
    <2>2. \A a \in work[r].alerts : a.by = r
      BY DEF Accounted
    <2>3. CASE q # r
      BY <1>0, <2>1, <2>2, <2>3, OthersStand, AccountedFrame
    <2>4. CASE q = r
      <3> DEFINE published == {a.key : a \in work[r].alerts}
      <3>1. /\ pc'[r] = "done" /\ merged'[r] = {} /\ work'[r].alerts = {}
            /\ reply'[r] = [code |-> "ok", published |-> published, merged |-> merged[r]]
            /\ call' = call
        BY <2>1 DEF Commit, Answered, TypeOK, NoWork
      <3>2. {b \in alerts' : b.by = r} = work[r].alerts
        BY <1>0, <2>1, <2>2, <2>4 DEF Accounted
      <3>3. reply'[r].published = {a.key : a \in {b \in alerts' : b.by = r}}
        BY <3>1, <3>2
      <3>4. \A k \in reply'[r].merged : \E a \in alerts' : a.key = k
        BY <1>0, <2>1, <2>4, <3>1 DEF Accounted
      <3>5. \A s : Due(r, s)' <=> Due(r, s)
        BY <3>1 DEF Due, CallsForAlert
      <3>6. ASSUME call'[r].kind = "publish", NEW s \in Subjects, Due(r, s)'
            PROVE  \E k \in reply'[r].published \cup reply'[r].merged : k.subject = s
        <4>1. todo[r] = {}
          BY <2>1, <3>1, <3>6
        <4>2. InSight(r, s)
          BY <1>0, <2>1, <2>4, <3>1, <3>5, <3>6 DEF Accounted, Covers, Subjects
        <4>3. \E k \in published \cup merged[r] : k.subject = s
          BY <4>1, <4>2 DEF InSight
        <4> QED
          BY <3>1, <4>3
      <3>7. AnswerAccounts(r)'
        BY <3>3, <3>4, <3>6 DEF AnswerAccounts
      <3> QED
        BY <2>4, <3>1, <3>7 DEF Accounted, Covers
    <2> QED
      BY <2>3, <2>4
  <1>9. CASE (\E run \in Runs : LedgerGrows(run)) \/ UNCHANGED vars
    <2>1. UNCHANGED <<alerts, local>>
      BY <1>9 DEF LedgerGrows, vars, tables
    <2> QED
      BY <1>0, <2>1, AccountedFrame DEF local
  <1> QED
    BY NextCases, <1>1, <1>2, <1>3, <1>4, <1>5, <1>6, <1>7, <1>8, <1>9

LEMMA AccountedAlways == Spec => [](\A r \in Requests : Accounted(r))
  <1> DEFINE AInv == \A r \in Requests : Accounted(r)
  <1>1. Init => AInv
    <2> SUFFICES ASSUME Init, NEW r \in Requests
                 PROVE  Accounted(r)
      OBVIOUS
    <2>1. /\ pc[r] = "idle" /\ reply[r] = None /\ alerts = {}
          /\ work[r].alerts = {} /\ merged[r] = {}
      BY DEF Init, NoWork
    <2> QED
      BY <2>1 DEF Accounted, Covers, AnswerAccounts
  <1>2. IInv /\ AInv /\ [Next]_vars => AInv'
    BY AccountedStep
  <1> QED
    BY <1>1, <1>2, Invariance, PTL DEF Spec

\* An ok answer accounts for every candidate, however publications overlap and
\* ledgers grow: what it says it published is what it published, what it says
\* was there is there, and nothing that every ledger calls an alert for is left
\* without one.
THEOREM AnswersAreAccounts == Spec => []AnswersAccountForCandidates
  <1>1. (\A r \in Requests : Accounted(r)) => AnswersAccountForCandidates
    BY DEF Accounted, AnswerAccounts, AnswersAccountForCandidates, Due
  <1> QED
    BY <1>1, AccountedAlways, PTL

-----------------------------------------------------------------------------
(* Runs whose ledger is settled. *)

\* The hypotheses: the calls for a run are about one outlet, the only one of
\* the runs the application generates (DEFAULT_OUTLET_ID), the ledger of a run
\* stays as its first analytics run reads it, and the lookups of a replay tell
\* the reserves, or the flags, of an outlet apart (uq_opa_outlet_provider).
OneOutletPerRun == \A c, d \in Calls : c.run = d.run => c.outlet = d.outlet

LookupsApart ==
  \A S \in {Reserves, Detectors} : \A s, t \in S :
    (OutletOf[s] = OutletOf[t] /\ LookupOf[s] = LookupOf[t]) => s = t

Analysed(run) ==
  \/ \E c \in cycles : c.run = run
  \/ \E r \in Requests : \E c \in work[r].cycles : c.run = run

LedgersSettle == \A run \in Runs : Analysed(run) => ledger'[run] = ledger[run]

\* The row cycle c persists for s, computed from the ledger as it is now.
RowFor(c, s) ==
  [cycle |-> c, subject |-> s, basis |-> ledger[c.run], verdict |-> Verdict[ledger[c.run]][s]]

FindingsOf(c) == Findings(c.engine, c.outlet, ledger[c.run])

\* The artifacts S have a row for everything the engine of c finds now, and
\* are what their cycles would persist now.
RowsComplete(c, S) == \A s \in FindingsOf(c) : RowFor(c, s) \in S

RowsCurrent(S) ==
  \A a \in S : a.subject \in FindingsOf(a.cycle) /\ a = RowFor(a.cycle, a.subject)

\* The cycles of request r are its own, about its outlet, and complete but for
\* the one it is about to analyse.
SettledWork(r) ==
  /\ pc[r] # "done" => \A c \in cycles : c.by # r
  /\ \A c \in work[r].cycles :
       /\ c.by = r /\ c.run = call[r].run /\ c.outlet = call[r].outlet
       /\ \/ RowsComplete(c, work[r].artifacts)
          \/ pc[r] \in {"forecast", "detect"} /\ c = cycle[r]
  /\ RowsCurrent(work[r].artifacts)

SettledTables ==
  /\ \A c \in cycles :
       /\ \E d \in Calls : d.run = c.run /\ d.outlet = c.outlet
       /\ RowsComplete(c, artifacts)
  /\ RowsCurrent(artifacts)
  /\ \A r \in Requests : SettledWork(r)
  /\ ReplaysAreComplete

\* An alert or a candidate that says what its artifact says.
Matches(x) ==
  /\ x.basis = ledger[x.key.run]
  /\ x.source.basis = x.basis
  /\ x.source.verdict = "alert"

SettledAlerts ==
  /\ \A a \in alerts : Matches(a)
  /\ \A r \in Requests : \A x \in todo[r] \cup work[r].alerts : Matches(x)

\* A cycle that has been opened goes on finding what it found, and an artifact
\* that has been computed stays current.
LEMMA SettledStands ==
  ASSUME TypeOK, ArtifactsHaveCycles, LedgersSettle
  PROVE  /\ \A c \in cycles : ledger'[c.run] = ledger[c.run]
         /\ \A r \in Requests : \A c \in work[r].cycles : ledger'[c.run] = ledger[c.run]
         /\ \A a \in artifacts : ledger'[a.cycle.run] = ledger[a.cycle.run]
         /\ \A r \in Requests : \A a \in work[r].artifacts :
              ledger'[a.cycle.run] = ledger[a.cycle.run]
  <1>1. \A c \in cycles : ledger'[c.run] = ledger[c.run]
    BY DEF TypeOK, Cycle, LedgersSettle, Analysed
  <1>2. \A r \in Requests : \A c \in work[r].cycles : ledger'[c.run] = ledger[c.run]
    BY DEF TypeOK, Work, Cycle, LedgersSettle, Analysed
  <1> QED
    BY <1>1, <1>2 DEF ArtifactsHaveCycles

\* Rows that are complete or current stay so while the ledger of their cycle
\* does not change.
LEMMA RowsStand ==
  ASSUME NEW c, ledger'[c.run] = ledger[c.run]
  PROVE  FindingsOf(c)' = FindingsOf(c) /\ \A s : RowFor(c, s)' = RowFor(c, s)
  BY DEF FindingsOf, RowFor, Findings

LEMMA CompleteStands ==
  ASSUME NEW c, ledger'[c.run] = ledger[c.run],
         NEW S, NEW T, S \subseteq T, \A s \in FindingsOf(c) : RowFor(c, s) \in S
  PROVE  \A s \in FindingsOf(c)' : RowFor(c, s)' \in T
  BY RowsStand

\* The cycle under way is the request's own or a committed one, and either way
\* about the outlet of the call.
LEMMA CycleUnderWay ==
  ASSUME OneOutletPerRun, TypeOK, NEW r \in Requests, Placed(r),
         SettledWork(r), \A c \in cycles : \E d \in Calls : d.run = c.run /\ d.outlet = c.outlet,
         pc[r] \in {"forecast", "detect"}
  PROVE  /\ Persists(r) => cycle[r] \in work[r].cycles
         /\ ~Persists(r) => cycle[r] \in cycles
         /\ cycle[r].run = call[r].run
         /\ Found(r) = FindingsOf(cycle[r])
  <1>1. /\ cycle[r] \in cycles \cup work[r].cycles /\ cycle[r].run = call[r].run
        /\ call[r] \in Calls
    BY DEF Placed
  <1>2. cycle[r].outlet = call[r].outlet
    <2>1. CASE cycle[r] \in work[r].cycles
      BY <2>1 DEF SettledWork
    <2>2. CASE cycle[r] \in cycles
      BY <1>1, <2>2 DEF OneOutletPerRun
    <2> QED
      BY <1>1, <2>1, <2>2
  <1> QED
    BY <1>1, <1>2 DEF SettledWork, Persists, Found, FindingsOf

\* So no replay misses a row.
LEMMA ReplaysDoNotFail ==
  ASSUME OneOutletPerRun, IInv, SettledTables, NEW r \in Requests
  PROVE  ~ReplayFails(r)
  <1> SUFFICES ASSUME ReplayFails(r)
               PROVE  FALSE
    OBVIOUS
  <1>1. pc[r] \in {"forecast", "detect"} /\ ~Persists(r)
    BY DEF ReplayFails
  <1>2. PICK s \in Found(r) : Persisted(cycle[r], s) = {}
    BY DEF ReplayFails
  <1>3. cycle[r] \in cycles /\ s \in FindingsOf(cycle[r])
    BY <1>1, <1>2, CycleUnderWay DEF IInv, SettledTables
  <1>4. RowFor(cycle[r], s) \in artifacts
    BY <1>3 DEF SettledTables, RowsComplete
  <1>5. RowFor(cycle[r], s) \in Persisted(cycle[r], s)
    BY <1>4 DEF Persisted, RowFor
  <1> QED
    BY <1>2, <1>5

\* A request whose rows a step leaves alone keeps them settled.
LEMMA SettledWorkFrame ==
  ASSUME TypeOK, ArtifactsHaveCycles, LedgersSettle, NEW q \in Requests, SettledWork(q),
         work'[q].cycles = work[q].cycles, work'[q].artifacts = work[q].artifacts,
         work[q].cycles # {} => call'[q] = call[q],
         pc'[q] # "done" => pc[q] # "done",
         pc[q] \in {"forecast", "detect"} => pc'[q] = pc[q] /\ cycle'[q] = cycle[q],
         \A c \in cycles' \ cycles : c.by # q
  PROVE  SettledWork(q)'
  <1>1. pc'[q] # "done" => \A c \in cycles' : c.by # q
    BY DEF SettledWork
  <1>2. ASSUME NEW c \in work[q].cycles
        PROVE  /\ c.by = q /\ c.run = call'[q].run /\ c.outlet = call'[q].outlet
               /\ \/ RowsComplete(c, work[q].artifacts)'
                  \/ pc'[q] \in {"forecast", "detect"} /\ c = cycle'[q]
    <2>1. c.by = q /\ c.run = call'[q].run /\ c.outlet = call'[q].outlet
      BY <1>2 DEF SettledWork
    <2>2. CASE RowsComplete(c, work[q].artifacts)
      <3>1. ledger'[c.run] = ledger[c.run]
        BY <1>2, SettledStands
      <3> QED
        BY <2>1, <2>2, <3>1, RowsStand DEF RowsComplete
    <2>3. CASE pc[q] \in {"forecast", "detect"} /\ c = cycle[q]
      BY <2>1, <2>3
    <2> QED
      BY <1>2, <2>2, <2>3 DEF SettledWork
  <1>3. RowsCurrent(work[q].artifacts)'
    <2> SUFFICES ASSUME NEW a \in work[q].artifacts
                 PROVE  a.subject \in FindingsOf(a.cycle)' /\ a = RowFor(a.cycle, a.subject)'
      BY DEF RowsCurrent
    <2>1. ledger'[a.cycle.run] = ledger[a.cycle.run]
      BY SettledStands
    <2> QED
      BY <2>1, RowsStand DEF SettledWork, RowsCurrent
  <1> QED
    BY <1>1, <1>2, <1>3 DEF SettledWork

\* The tables stay complete and current as they are.
LEMMA SettledTablesStand ==
  ASSUME TypeOK, ArtifactsHaveCycles, LedgersSettle, SettledTables
  PROVE  /\ \A c \in cycles : \A s \in FindingsOf(c)' : RowFor(c, s)' \in artifacts
         /\ \A a \in artifacts : /\ a.subject \in FindingsOf(a.cycle)'
                                 /\ a = RowFor(a.cycle, a.subject)'
  <1>1. ASSUME NEW c \in cycles
        PROVE  \A s \in FindingsOf(c)' : RowFor(c, s)' \in artifacts
    <2>1. ledger'[c.run] = ledger[c.run]
      BY SettledStands
    <2> QED
      BY <2>1, RowsStand DEF SettledTables, RowsComplete
  <1>2. ASSUME NEW a \in artifacts
        PROVE  a.subject \in FindingsOf(a.cycle)' /\ a = RowFor(a.cycle, a.subject)'
    <2>1. ledger'[a.cycle.run] = ledger[a.cycle.run]
      BY SettledStands
    <2> QED
      BY <2>1, RowsStand DEF SettledTables, RowsCurrent
  <1> QED
    BY <1>1, <1>2

\* A fresh cycle gets a row for each of its findings; a replay writes nothing.
LEMMA FreshRowsSettled ==
  ASSUME OneOutletPerRun, IInv, SettledTables, NEW r \in Requests,
         pc[r] \in {"forecast", "detect"}
  PROVE  LET F == FreshRows(r, ledger[call[r].run])
         IN /\ RowsCurrent(F)
            /\ Persists(r) => RowsComplete(cycle[r], F)
            /\ \A a \in F : a.cycle = cycle[r] /\ cycle[r] \in work[r].cycles
  <1> DEFINE l == ledger[call[r].run]
             F == FreshRows(r, l)
  <1>1. CASE ~Persists(r)
    BY <1>1 DEF FreshRows, RowsCurrent
  <1>2. CASE Persists(r)
    <2>1. /\ cycle[r] \in work[r].cycles /\ cycle[r].run = call[r].run
          /\ Found(r) = FindingsOf(cycle[r])
      BY <1>2, CycleUnderWay DEF IInv, SettledTables
    <2>2. \A s : SourceOf(r, s, l) = RowFor(cycle[r], s)
      BY <1>2, <2>1 DEF SourceOf, RowFor
    <2>3. F = {RowFor(cycle[r], s) : s \in FindingsOf(cycle[r])}
      BY <1>2, <2>1, <2>2 DEF FreshRows
    <2>4. \A s : RowFor(cycle[r], s).cycle = cycle[r] /\ RowFor(cycle[r], s).subject = s
      BY DEF RowFor
    <2> QED
      BY <2>1, <2>3, <2>4 DEF RowsCurrent, RowsComplete
  <1> QED
    BY <1>1, <1>2

\* An engine that has analysed leaves its request's rows settled.
LEMMA AnalyseSettles ==
  ASSUME OneOutletPerRun, IInv, SettledTables, LedgersSettle,
         NEW r \in Requests, Analyse(r)
  PROVE  SettledWork(r)'
  <1> DEFINE F == FreshRows(r, ledger[call[r].run])
  <1>0. SettledWork(r)
    BY DEF SettledTables
  <1>1. /\ pc[r] \in {"forecast", "detect"}
        /\ pc'[r] \in {"anomaly", "check"}
        /\ work' = [work EXCEPT ![r].artifacts = @ \cup F]
        /\ UNCHANGED <<ledger, cycles, call, cycle>>
    BY DEF Analyse, tables, IInv, TypeOK
  <1>2. /\ RowsCurrent(F)
        /\ Persists(r) => RowsComplete(cycle[r], F)
    BY <1>1, FreshRowsSettled
  <1>3. ~Persists(r) => \A c \in work[r].cycles : c # cycle[r]
    BY <1>0 DEF SettledWork, Persists
  <1> HIDE DEF F
  <1>4. /\ work'[r].cycles = work[r].cycles
        /\ work'[r].artifacts = work[r].artifacts \cup F
    BY <1>1, WorkGrows DEF IInv
  <1>5. \A c, s : RowFor(c, s)' = RowFor(c, s) /\ FindingsOf(c)' = FindingsOf(c)
    BY <1>1 DEF RowFor, FindingsOf, Findings
  <1>6. \A c \in work[r].cycles : RowsComplete(c, work[r].artifacts \cup F)
    BY <1>0, <1>2, <1>3 DEF SettledWork, RowsComplete
  <1>7. \A c \in work[r].cycles : RowsComplete(c, work[r].artifacts)'
    BY <1>4, <1>5, <1>6 DEF RowsComplete
  <1>8. RowsCurrent(work[r].artifacts)'
    BY <1>0, <1>2, <1>4, <1>5 DEF SettledWork, RowsCurrent
  <1> QED
    BY <1>0, <1>1, <1>4, <1>7, <1>8 DEF SettledWork

\* A new cycle is one to be analysed.
LEMMA OpenCycleSettles ==
  ASSUME IInv, SettledTables, LedgersSettle, NEW r \in Requests, OpenCycle(r)
  PROVE  SettledWork(r)'
  <1> DEFINE fresh == [by |-> r, engine |-> pc[r], run |-> call[r].run,
                       outlet |-> call[r].outlet, started |-> clock]
  <1>0. SettledWork(r)
    BY DEF SettledTables
  <1>1. /\ pc[r] \in Engines /\ pc'[r] \in {"forecast", "detect"}
        /\ UNCHANGED <<ledger, cycles, call>>
    BY DEF OpenCycle, tables, IInv, TypeOK
  <1>2. \/ /\ cycle' = [cycle EXCEPT ![r] = fresh]
           /\ work' = [work EXCEPT ![r].cycles = @ \cup {fresh}]
        \/ work' = work
    BY DEF OpenCycle
  <1>3. /\ work'[r].artifacts = work[r].artifacts
        /\ \/ work'[r].cycles = work[r].cycles
           \/ /\ work'[r].cycles = work[r].cycles \cup {fresh}
              /\ cycle'[r] = fresh
    <2> HIDE DEF fresh
    <2>1. CASE work' = work
      BY <2>1
    <2>2. CASE /\ cycle' = [cycle EXCEPT ![r] = fresh]
               /\ work' = [work EXCEPT ![r].cycles = @ \cup {fresh}]
      <3>1. cycle'[r] = fresh
        BY <2>2 DEF IInv, TypeOK
      <3> QED
        BY <2>2, <3>1, WorkGrows DEF IInv
    <2> QED
      BY <1>2, <2>1, <2>2
  <1>4. fresh.by = r /\ fresh.run = call[r].run /\ fresh.outlet = call[r].outlet
    OBVIOUS
  <1>5. \A c, s : RowFor(c, s)' = RowFor(c, s) /\ FindingsOf(c)' = FindingsOf(c)
    BY <1>1 DEF RowFor, FindingsOf, Findings
  <1>6. \A c \in work[r].cycles : RowsComplete(c, work[r].artifacts)'
    BY <1>0, <1>1, <1>3, <1>5 DEF SettledWork, RowsComplete, Engines
  <1>7. RowsCurrent(work[r].artifacts)'
    BY <1>0, <1>3, <1>5 DEF SettledWork, RowsCurrent
  <1> HIDE DEF fresh
  <1>8. \A c \in work'[r].cycles :
          /\ c.by = r /\ c.run = call'[r].run /\ c.outlet = call'[r].outlet
          /\ \/ RowsComplete(c, work[r].artifacts)'
             \/ pc'[r] \in {"forecast", "detect"} /\ c = cycle'[r]
    BY <1>0, <1>1, <1>3, <1>4, <1>6 DEF SettledWork
  <1>9. \A c \in cycles' : c.by # r
    BY <1>0, <1>1 DEF SettledWork, Engines
  <1> QED
    BY <1>7, <1>8, <1>9 DEF SettledWork

\* No step leaves a cycle short of a row, or makes a replay miss one.
LEMMA SettledTablesStep ==
  ASSUME OneOutletPerRun, IInv, SettledTables, [Next]_vars, LedgersSettle
  PROVE  SettledTables'
  <1> USE DEF IInv
  <1>0. \A r \in Requests : SettledWork(r)
    BY DEF SettledTables
  <1>a. ASSUME cycles' = cycles, artifacts' = artifacts
        PROVE  /\ \A c \in cycles' : /\ \E d \in Calls : d.run = c.run /\ d.outlet = c.outlet
                                     /\ RowsComplete(c, artifacts)'
               /\ RowsCurrent(artifacts)'
    BY <1>a, SettledTablesStand DEF SettledTables, RowsComplete, RowsCurrent
  <1>b. ASSUME cycles' = cycles, artifacts' = artifacts, reply' = reply,
               \A q \in Requests : SettledWork(q)'
        PROVE  SettledTables'
    BY <1>a, <1>b DEF SettledTables, ReplaysAreComplete
  <1>1. ASSUME NEW r \in Requests, NEW c \in Calls, Start(r, c)
        PROVE  SettledTables'
    <2>1. /\ UNCHANGED <<cycles, artifacts, work, cycle, reply>> /\ pc[r] = "idle"
          /\ work[r].cycles = {}
      BY <1>1 DEF Start, tables, Queue, NoWork
    <2>2. \A q \in Requests : SettledWork(q)'
      BY <1>0, <1>1, <2>1, OthersStand, SettledWorkFrame
    <2> QED
      BY <1>b, <2>1, <2>2
  <1>2. ASSUME NEW r \in Requests, OpenCycle(r) \/ Analyse(r)
        PROVE  SettledTables'
    <2>1. UNCHANGED <<cycles, artifacts, reply>>
      BY <1>2 DEF OpenCycle, Analyse, tables
    <2>2. ASSUME NEW q \in Requests \ {r}
          PROVE  SettledWork(q)'
      BY <1>0, <1>2, <2>1, OthersStand, SettledWorkFrame
    <2>3. SettledWork(r)'
      BY <1>2, OpenCycleSettles, AnalyseSettles
    <2> QED
      BY <1>b, <2>1, <2>2, <2>3
  <1>3. ASSUME NEW r \in Requests, NEW c \in todo[r],
               Deduplicate(r, c) \/ DecideToInsert(r, c) \/ InsertAlert(r, c)
        PROVE  SettledTables'
    <2>1. /\ UNCHANGED <<cycles, artifacts, reply, call>>
          /\ pc[r] \in {"check", "insert"}
      BY <1>3 DEF Deduplicate, DecideToInsert, InsertAlert, Publishing, tables
    <2>2. ASSUME NEW q \in Requests \ {r}
          PROVE  SettledWork(q)'
      BY <1>0, <1>3, <2>1, OthersStand, SettledWorkFrame
    <2>3. work'[r].cycles = work[r].cycles /\ work'[r].artifacts = work[r].artifacts
      <3>1. work' = work \/ work' = [work EXCEPT ![r].alerts = @ \cup {NewAlert(r, c)}]
        BY <1>3 DEF Deduplicate, DecideToInsert, InsertAlert
      <3>2. CASE work' = work
        BY <3>2
      <3>3. CASE work' = [work EXCEPT ![r].alerts = @ \cup {NewAlert(r, c)}]
        BY <3>3, WorkGrows
      <3> QED
        BY <3>1, <3>2, <3>3
    <2>4. SettledWork(r)'
      BY <1>0, <2>1, <2>3, SettledWorkFrame
    <2> QED
      BY <1>b, <2>1, <2>2, <2>4
  <1>4. ASSUME NEW r \in Requests, NEW code \in Codes, Failing(r, code)
        PROVE  SettledTables'
    <2>1. /\ Fail(r, code) /\ UNCHANGED <<cycles, artifacts>>
          /\ code # "analytics_state_error"
      BY <1>4, ReplaysDoNotFail DEF Failing, Fail, tables
    <2>2. /\ reply' = [reply EXCEPT ![r] = [code |-> code, published |-> {}, merged |-> {}]]
          /\ pc'[r] = "done" /\ work'[r].cycles = {} /\ work'[r].artifacts = {}
      BY <2>1, AnsweredEffect DEF Fail, Answered
    <2>3. ReplaysAreComplete'
      BY <2>1, <2>2 DEF SettledTables, ReplaysAreComplete, TypeOK
    <2>4. ASSUME NEW q \in Requests \ {r}
          PROVE  SettledWork(q)'
      BY <1>0, <2>1, OthersStand, SettledWorkFrame
    <2>5. SettledWork(r)'
      BY <2>2 DEF SettledWork, RowsCurrent
    <2> QED
      BY <1>a, <2>1, <2>3, <2>4, <2>5 DEF SettledTables
  <1>5. ASSUME NEW r \in Requests, Committing(r)
        PROVE  SettledTables'
    <2>1. /\ Commit(r) /\ pc[r] = "check" /\ ledger' = ledger
          /\ cycles' = cycles \cup work[r].cycles
          /\ artifacts' = artifacts \cup work[r].artifacts
      BY <1>5 DEF Committing, Commit
    <2>2. /\ reply' = [reply EXCEPT ![r] = [code |-> "ok",
                         published |-> {a.key : a \in work[r].alerts}, merged |-> merged[r]]]
          /\ pc'[r] = "done" /\ work'[r].cycles = {} /\ work'[r].artifacts = {}
      BY <2>1, AnsweredEffect DEF Commit, Answered
    <2>3. ReplaysAreComplete'
      BY <2>2 DEF SettledTables, ReplaysAreComplete, TypeOK
    <2>4. ASSUME NEW q \in Requests \ {r}
          PROVE  SettledWork(q)'
      <3>1. \A c \in cycles' \ cycles : c.by # q
        BY <1>0, <2>1 DEF SettledWork
      <3> QED
        BY <1>0, <2>1, <3>1, OthersStand, SettledWorkFrame
    <2>5. SettledWork(r)'
      BY <2>2 DEF SettledWork, RowsCurrent
    <2>6. \A c, s : RowFor(c, s)' = RowFor(c, s) /\ FindingsOf(c)' = FindingsOf(c)
      BY <2>1 DEF RowFor, FindingsOf, Findings
    <2>7. \A c \in work[r].cycles : /\ call[r].run = c.run /\ call[r].outlet = c.outlet
                                    /\ RowsComplete(c, work[r].artifacts)
      BY <1>0, <2>1 DEF SettledWork
    <2>8. \A c \in cycles' : \E d \in Calls : d.run = c.run /\ d.outlet = c.outlet
      <3>1. call[r] \in Calls
        BY <2>1 DEF Placed
      <3> QED
        BY <2>1, <2>7, <3>1 DEF SettledTables
    <2>9. \A c \in cycles' : RowsComplete(c, artifacts)'
      BY <2>1, <2>6, <2>7 DEF SettledTables, RowsComplete
    <2>10. RowsCurrent(artifacts)'
      BY <1>0, <2>1, <2>6 DEF SettledTables, SettledWork, RowsCurrent
    <2> QED
      BY <2>3, <2>4, <2>5, <2>8, <2>9, <2>10 DEF SettledTables
  <1>6. CASE (\E run \in Runs : LedgerGrows(run)) \/ UNCHANGED vars
    <2>1. UNCHANGED <<cycles, artifacts, local>>
      BY <1>6 DEF LedgerGrows, vars, tables
    <2>2. \A q \in Requests : SettledWork(q)'
      BY <1>0, <2>1, SettledWorkFrame DEF local
    <2> QED
      BY <1>b, <2>1, <2>2 DEF local
  <1> QED
    BY NextCases, <1>1, <1>2, <1>3, <1>4, <1>5, <1>6

\* While the ledger of a run stays, so does the match of an alert or candidate
\* with the artifact it cites.
LEMMA MatchesStand ==
  ASSUME IInv, SettledAlerts, LedgersSettle
  PROVE  /\ \A a \in alerts : Matches(a)'
         /\ \A r \in Requests : \A x \in todo[r] \cup work[r].alerts : Matches(x)'
  <1>1. ASSUME NEW a \in alerts
        PROVE  Matches(a)'
    <2>1. a.source \in artifacts /\ a.source.cycle.run = a.key.run
      BY DEF IInv, AlertsCiteTheirRun
    <2>2. ledger'[a.key.run] = ledger[a.key.run]
      BY <2>1, SettledStands DEF IInv
    <2> QED
      BY <2>2 DEF SettledAlerts, Matches
  <1>2. ASSUME NEW r \in Requests, NEW x \in todo[r] \cup work[r].alerts
        PROVE  Matches(x)'
    <2>1. x.source \in artifacts \cup work[r].artifacts /\ x.source.cycle.run = x.key.run
      BY DEF IInv, Citing, Cites
    <2>2. ledger'[x.key.run] = ledger[x.key.run]
      BY <2>1, SettledStands DEF IInv
    <2> QED
      BY <2>2 DEF SettledAlerts, Matches
  <1> QED
    BY <1>1, <1>2

\* A candidate says what the artifact found for it says.
LEMMA CandidatesMatch ==
  ASSUME OneOutletPerRun, LookupsApart, IInv, SettledTables, NEW r \in Requests,
         pc[r] \in {"forecast", "detect"},
         \A s \in Found(r) : Persists(r) \/ Persisted(cycle[r], s) # {}
  PROVE  \A c \in Candidates(r, ledger[call[r].run]) : Matches(c)
  <1> DEFINE l == ledger[call[r].run]
  <1> SUFFICES ASSUME NEW s \in Found(r), CallsForAlert(s, l)
               PROVE  Matches(CandidateFor(r, s, l))
    BY DEF Candidates
  <1>1. /\ CandidateFor(r, s, l).key.run = call[r].run
        /\ CandidateFor(r, s, l).source = SourceOf(r, s, l)
        /\ CandidateFor(r, s, l).basis = l
    BY CandidateType DEF IInv, CandidateFor
  <1>2. Verdict[l][s] = "alert"
    BY DEF CallsForAlert
  <1>3. CASE Persists(r)
    BY <1>1, <1>2, <1>3 DEF Matches, SourceOf
  <1>4. CASE ~Persists(r)
    <2> DEFINE a == SourceOf(r, s, l)
    <2>1. FreshRows(r, l) = {}
      BY <1>4 DEF FreshRows
    <2>2. a \in artifacts /\ a.cycle = cycle[r] /\ LookupOf[a.subject] = LookupOf[s]
      BY <2>1, SourceType DEF IInv
    <2>3. /\ cycle[r].run = call[r].run
          /\ Found(r) = FindingsOf(cycle[r])
      BY CycleUnderWay DEF IInv, SettledTables
    <2> HIDE DEF a
    <2>4. /\ a.subject \in FindingsOf(cycle[r])
          /\ a = RowFor(cycle[r], a.subject)
      BY <2>2 DEF SettledTables, RowsCurrent
    <2>5. a.subject = s
      BY <2>2, <2>3, <2>4 DEF FindingsOf, Findings, LookupsApart
    <2>6. a.basis = l /\ a.verdict = Verdict[l][s]
      BY <2>3, <2>4, <2>5 DEF RowFor
    <2> QED
      BY <1>1, <1>2, <2>6 DEF Matches, a
  <1> QED
    BY <1>3, <1>4

LEMMA SettledAlertsStep ==
  ASSUME OneOutletPerRun, LookupsApart, IInv, SettledTables, SettledAlerts, [Next]_vars,
         LedgersSettle
  PROVE  SettledAlerts'
  <1>1. ASSUME alerts' = alerts,
               \A q \in Requests : todo'[q] \subseteq todo[q] /\ work'[q].alerts = work[q].alerts
        PROVE  SettledAlerts'
    BY <1>1, MatchesStand DEF SettledAlerts
  <1>2. ASSUME NEW r \in Requests, \/ \E c \in Calls : Start(r, c)
                                   \/ \E c \in todo[r] : Deduplicate(r, c) \/ DecideToInsert(r, c)
        PROVE  SettledAlerts'
    BY <1>1, <1>2 DEF Start, Deduplicate, DecideToInsert, tables, IInv, TypeOK
  <1>3. ASSUME NEW r \in Requests, OpenCycle(r)
        PROVE  SettledAlerts'
    BY <1>1, <1>3, OpenCycleEffect DEF IInv
  <1>4. ASSUME NEW r \in Requests, Analyse(r)
        PROVE  SettledAlerts'
    <2> DEFINE F == FreshRows(r, ledger[call[r].run])
               N == Candidates(r, ledger[call[r].run])
    <2>1. /\ pc[r] \in {"forecast", "detect"}
          /\ \A s \in Found(r) : Persists(r) \/ Persisted(cycle[r], s) # {}
          /\ work' = [work EXCEPT ![r].artifacts = @ \cup F]
          /\ todo' = [todo EXCEPT ![r] = @ \cup N]
          /\ UNCHANGED <<ledger, alerts>>
      BY <1>4 DEF Analyse, tables
    <2>2. \A c \in N : Matches(c)
      BY <2>1, CandidatesMatch
    <2> HIDE DEF F, N
    <2>3. \A q \in Requests : /\ todo'[q] \subseteq todo[q] \cup N
                              /\ work'[q].alerts = work[q].alerts
      BY <2>1, WorkGrows DEF IInv, TypeOK
    <2>4. \A x : Matches(x)' <=> Matches(x)
      BY <2>1 DEF Matches
    <2> QED
      BY <2>1, <2>2, <2>3, <2>4 DEF SettledAlerts
  <1>5. ASSUME NEW r \in Requests, NEW c \in todo[r], InsertAlert(r, c)
        PROVE  SettledAlerts'
    <2>1. /\ work' = [work EXCEPT ![r].alerts = @ \cup {NewAlert(r, c)}]
          /\ \A q \in Requests : todo'[q] \subseteq todo[q]
          /\ UNCHANGED <<ledger, alerts>>
      BY <1>5 DEF InsertAlert, tables, IInv, TypeOK
    <2>2. \A q \in Requests : work'[q].alerts \subseteq work[q].alerts \cup {NewAlert(r, c)}
                              /\ (q # r => work'[q].alerts = work[q].alerts)
      BY <2>1, WorkGrows DEF IInv
    <2>3. Matches(c) /\ \A x : Matches(x)' <=> Matches(x)
      BY <2>1 DEF Matches, SettledAlerts
    <2>4. Matches(NewAlert(r, c))
      BY <2>3 DEF Matches, NewAlert
    <2> QED
      BY <2>1, <2>2, <2>3, <2>4 DEF SettledAlerts
  <1>6. ASSUME NEW r \in Requests, NEW code \in Codes, Failing(r, code)
        PROVE  SettledAlerts'
    <2>1. Fail(r, code) /\ alerts' = alerts
      BY <1>6 DEF Failing, Fail, tables
    <2>2. /\ todo'[r] = {} /\ work'[r].alerts = {}
          /\ \A q \in Requests \ {r} : todo'[q] = todo[q] /\ work'[q] = work[q]
      BY <2>1, AnsweredEffect DEF Fail, IInv
    <2> QED
      BY <2>1, <2>2, MatchesStand DEF SettledAlerts
  <1>7. ASSUME NEW r \in Requests, Committing(r)
        PROVE  SettledAlerts'
    <2>1. Commit(r) /\ alerts' = alerts \cup work[r].alerts
      BY <1>7 DEF Committing, Commit
    <2>2. /\ todo'[r] = {} /\ work'[r].alerts = {}
          /\ \A q \in Requests \ {r} : todo'[q] = todo[q] /\ work'[q] = work[q]
      BY <2>1, AnsweredEffect DEF Commit, IInv
    <2> QED
      BY <2>1, <2>2, MatchesStand DEF SettledAlerts
  <1>8. CASE (\E run \in Runs : LedgerGrows(run)) \/ UNCHANGED vars
    <2>1. UNCHANGED <<alerts, todo, work>>
      BY <1>8 DEF LedgerGrows, vars, tables, local
    <2> QED
      BY <1>1, <2>1
  <1> QED
    BY NextCases, <1>2, <1>3, <1>4, <1>5, <1>6, <1>7, <1>8

LEMMA InitSettled == Init => SettledTables /\ SettledAlerts
  <1> SUFFICES ASSUME Init
               PROVE  SettledTables /\ SettledAlerts
    OBVIOUS
  <1>1. /\ cycles = {} /\ artifacts = {} /\ alerts = {}
        /\ \A r \in Requests : /\ work[r].cycles = {} /\ work[r].artifacts = {}
                               /\ work[r].alerts = {} /\ todo[r] = {} /\ reply[r] = None
    BY DEF Init, NoWork
  <1> QED
    BY <1>1 DEF SettledTables, SettledWork, SettledAlerts, RowsCurrent, ReplaysAreComplete

LEMMA StutterSettles == [LedgersSettle]_vars => LedgersSettle
  BY DEF LedgersSettle, vars, tables

\* When the calls for a run are about one outlet and its ledger stays as its
\* first analytics run reads it, a replay has a row for everything it finds: it
\* never fails with analytics_state_error, however calls overlap or are lost.
THEOREM ReplaysCompleteOnSettledLedgers ==
  OneOutletPerRun => (Spec /\ [][LedgersSettle]_vars => []ReplaysAreComplete)
  <1> SUFFICES ASSUME OneOutletPerRun
               PROVE  Spec /\ [][LedgersSettle]_vars => []ReplaysAreComplete
    OBVIOUS
  <1>1. IInv /\ SettledTables /\ [Next]_vars /\ [LedgersSettle]_vars => SettledTables'
    BY SettledTablesStep, StutterSettles
  <1>2. SettledTables => ReplaysAreComplete
    BY DEF SettledTables
  <1> QED
    BY <1>1, <1>2, InitSettled, Invariance, PTL DEF Spec

\* When besides the lookups of a replay tell the subjects of an outlet apart,
\* every alert shows what the artifact it cites shows, also when the artifact is
\* one that another publication, or a call of the dashboard, has persisted.
THEOREM EvidenceMatchesOnSettledLedgers ==
  OneOutletPerRun /\ LookupsApart =>
    (Spec /\ [][LedgersSettle]_vars => []AlertsMatchTheirEvidence)
  <1> SUFFICES ASSUME OneOutletPerRun, LookupsApart
               PROVE  Spec /\ [][LedgersSettle]_vars => []AlertsMatchTheirEvidence
    OBVIOUS
  <1> DEFINE SInv == SettledTables /\ SettledAlerts
  <1>1. IInv /\ SInv /\ [Next]_vars /\ [LedgersSettle]_vars => SInv'
    BY SettledTablesStep, SettledAlertsStep, StutterSettles
  <1>2. SInv => AlertsMatchTheirEvidence
    BY DEF SettledAlerts, Matches, AlertsMatchTheirEvidence
  <1>3. Init => SInv
    BY InitSettled
  <1> QED
    BY <1>1, <1>2, <1>3, Invariance, PTL DEF Spec
=============================================================================
