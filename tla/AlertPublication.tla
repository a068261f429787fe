--------------------------- MODULE AlertPublication ---------------------------
(***************************************************************************)
(* Analytics and alert publication (services/analytics/runner.py and       *)
(* services/coordination/alerts.py) under concurrent requests and runs     *)
(* whose ledger may still grow.  A publication is one READ COMMITTED       *)
(* transaction:                                                            *)
(*                                                                         *)
(*   liquidity --> forecast --> anomaly --> detect --> check <--> insert   *)
(*      window and guard, readings       candidate by candidate, commit    *)
(*                                                                         *)
(* and an analytics call is the first or the second pair of these steps.   *)
(* The engines are pure; what they find in a ledger is a constant.         *)
(***************************************************************************)
EXTENDS Integers

CONSTANTS
  Requests,      \* request handlers; each serves one call
  Runs, Outlets, \* simulation runs and outlets
  Calls,         \* the calls administrators make
  Reserves,      \* what run_liquidity forecasts: shared cash, provider accounts
  Detectors,     \* what run_anomalies examines: an account under an active rule
  Position,      \* the place of each in the order of publication
  OutletOf,      \* outlet of each reserve and detector
  LookupOf,      \* what a replay looks up a reserve or flag by
  MaxLedger,     \* bound: how often the ledger of a run grows
  WindowEnd,     \* per ledger and outlet, the newest timestamp
  Verdict,       \* per ledger, what the engines say of each subject
  None           \* no row, no answer yet

Ledgers == 1..MaxLedger
Subjects == Reserves \cup Detectors
Engines == {"liquidity", "anomaly"}
Kinds == Engines \cup {"publish"}

\* alert: an actionable shortage, or a flag that requires review; suppressed: a
\* flag held back for bad data; quiet: a row that calls for no alert (no
\* shortage ahead, an inconclusive flag); absent: no flag is persisted.
Verdicts == {"alert", "suppressed", "quiet", "absent"}

CallType == [kind : Kinds, run : Runs, outlet : Outlets]

ASSUME CallsAssumption == Calls \subseteq CallType
ASSUME OrderAssumption ==
  /\ Reserves \cap Detectors = {}
  /\ Position \in [Subjects -> Nat]
  /\ \A s, t \in Subjects : Position[s] = Position[t] => s = t
  /\ \A s \in Reserves, t \in Detectors : Position[s] < Position[t]
ASSUME BoundAssumption == MaxLedger \in Nat
ASSUME LedgerAssumption ==
  /\ WindowEnd \in [Ledgers -> [Outlets -> Nat]]
  /\ Verdict \in [Ledgers -> [Subjects -> Verdicts]]
  /\ \A l \in Ledgers, s \in Reserves : Verdict[l][s] \in {"alert", "quiet"}

VARIABLES
  ledger,     \* per run, how often its ledger has grown; 0 before the run exists
  cycles,     \* table analytics_runs
  artifacts,  \* tables liquidity_projections and anomaly_flags
  alerts,     \* table alerts with its source links (every alert is active)
  clock,      \* ticks at every started_at
  pc, call,   \* per request: next step, call
  window,     \* input_window_end read by the engine under way
  cycle,      \* the analytics run of the engine under way
  todo,       \* candidates still to publish
  work,       \* uncommitted rows of the transaction
  merged,     \* keys of candidates found already published
  reply       \* the answer

tables == <<ledger, cycles, artifacts, alerts>>
local == <<pc, call, window, cycle, todo, work, merged, reply>>
vars == <<tables, clock, local>>

Cycle == [by : Requests, engine : Engines, run : Runs, outlet : Outlets, started : Nat]
\* basis is the ledger the artifact was computed from.
Artifact == [cycle : Cycle, subject : Subjects, basis : Nat, verdict : Verdicts]
Key == [run : Runs, subject : Subjects, window : Nat]
\* basis is the ledger the structured payload of the alert was computed from.
Candidate == [key : Key, basis : Nat, source : Artifact]
Alert == [key : Key, basis : Nat, source : Artifact, by : Requests]
Work == [cycles : SUBSET Cycle, artifacts : SUBSET Artifact, alerts : SUBSET Alert]
Codes == {"ok", "not_found", "analytics_state_error", "internal_error", "lost"}
Reply == [code : Codes, published : SUBSET Key, merged : SUBSET Key]

NoWork == [cycles |-> {}, artifacts |-> {}, alerts |-> {}]

Steps == {"liquidity", "forecast", "anomaly", "detect", "check", "insert"}

ASSUME NoneAssumption ==
  None \notin Calls /\ None \notin Cycle /\ None \notin Reply

TypeOK ==
  /\ ledger \in [Runs -> 0..MaxLedger]
  /\ cycles \subseteq Cycle
  /\ artifacts \subseteq Artifact
  /\ alerts \subseteq Alert
  /\ clock \in Nat
  /\ pc \in [Requests -> Steps \cup {"idle", "done"}]
  /\ call \in [Requests -> Calls \cup {None}]
  /\ window \in [Requests -> Nat]
  /\ cycle \in [Requests -> Cycle \cup {None}]
  /\ todo \in [Requests -> SUBSET Candidate]
  /\ work \in [Requests -> Work]
  /\ merged \in [Requests -> SUBSET Key]
  /\ reply \in [Requests -> Reply \cup {None}]

Init ==
  /\ ledger = [run \in Runs |-> 0]
  /\ cycles = {}
  /\ artifacts = {}
  /\ alerts = {}
  /\ clock = 0
  /\ pc = [r \in Requests |-> "idle"]
  /\ call = [r \in Requests |-> None]
  /\ window = [r \in Requests |-> 0]
  /\ cycle = [r \in Requests |-> None]
  /\ todo = [r \in Requests |-> {}]
  /\ work = [r \in Requests |-> NoWork]
  /\ merged = [r \in Requests |-> {}]
  /\ reply = [r \in Requests |-> None]

InFlight(r) == pc[r] \in Steps

-----------------------------------------------------------------------------
(* The end of a transaction. *)

\* The request is answered and what it held in memory is gone.
Answered(r, code, published, dups) ==
  /\ pc' = [pc EXCEPT ![r] = "done"]
  /\ reply' = [reply EXCEPT ![r] = [code |-> code, published |-> published, merged |-> dups]]
  /\ window' = [window EXCEPT ![r] = 0]
  /\ cycle' = [cycle EXCEPT ![r] = None]
  /\ todo' = [todo EXCEPT ![r] = {}]
  /\ work' = [work EXCEPT ![r] = NoWork]
  /\ merged' = [merged EXCEPT ![r] = {}]
  /\ UNCHANGED call

\* An exception: the transaction is rolled back with all its rows.
Fail(r, code) ==
  /\ Answered(r, code, {}, {})
  /\ UNCHANGED <<tables, clock>>

\* The worker or its connection dies.
Abort(r) ==
  /\ InFlight(r)
  /\ Fail(r, "lost")

\* Every row the transaction wrote becomes visible.
Commit(r) ==
  /\ cycles' = cycles \cup work[r].cycles
  /\ artifacts' = artifacts \cup work[r].artifacts
  /\ alerts' = alerts \cup work[r].alerts
  /\ Answered(r, "ok", {a.key : a \in work[r].alerts}, merged[r])
  /\ UNCHANGED <<ledger, clock>>

-----------------------------------------------------------------------------
(* The engines. *)

\* A call arrives and its transaction begins.
Start(r, c) ==
  /\ pc[r] = "idle"
  /\ call' = [call EXCEPT ![r] = c]
  /\ pc' = [pc EXCEPT ![r] = IF c.kind = "anomaly" THEN "anomaly" ELSE "liquidity"]
  /\ UNCHANGED <<tables, clock, window, cycle, todo, work, merged, reply>>

\* The analytics runs of one engine committed for a run, for whatever outlet.
CyclesOf(run, engine) == {c \in cycles : c.engine = engine /\ c.run = run}

\* ORDER BY started_at LIMIT 1.
Earliest(S) == {c \in S : \A d \in S : c.started <= d.started}

\* _validate_run finds nothing: the run does not exist (yet).
RunUnknown(r) ==
  /\ pc[r] \in Engines
  /\ ledger[call[r].run] = 0
  /\ Fail(r, "not_found")

\* _validate_run, _compute_window and the guard that looks for an earlier
\* cycle; without one, an analytics run of the transaction's own is inserted.
OpenCycle(r) ==
  LET c == call[r]
      known == CyclesOf(c.run, pc[r])
      fresh == [by |-> r, engine |-> pc[r], run |-> c.run, outlet |-> c.outlet,
                started |-> clock]
  IN /\ pc[r] \in Engines
     /\ ledger[c.run] # 0
     /\ window' = [window EXCEPT ![r] = WindowEnd[ledger[c.run]][c.outlet]]
     /\ pc' = [pc EXCEPT ![r] = IF pc[r] = "liquidity" THEN "forecast" ELSE "detect"]
     /\ IF known = {}
        THEN /\ cycle' = [cycle EXCEPT ![r] = fresh]
             /\ work' = [work EXCEPT ![r].cycles = @ \cup {fresh}]
             /\ clock' = clock + 1
        ELSE \E c0 \in Earliest(known) :
               /\ cycle' = [cycle EXCEPT ![r] = c0]
               /\ UNCHANGED <<work, clock>>
     /\ UNCHANGED <<tables, call, todo, merged, reply>>

\* The engine under way is writing its own cycle.
Persists(r) == cycle[r].by = r

\* A projection for every reserve of the outlet; a flag for each detector on
\* its accounts that has something to persist (AnomalyResult.persist).
Findings(engine, outlet, l) ==
  {s \in (IF engine = "liquidity" THEN Reserves ELSE Detectors) :
     OutletOf[s] = outlet /\ Verdict[l][s] # "absent"}

CallsForAlert(s, l) == Verdict[l][s] = "alert"

\* Mutant: any row of the cycle will do.
PersistedInCycle(c, s) == {a \in artifacts : a.cycle = c}

\* The rows of an earlier cycle a lookup for s can return: a provider reserve
\* is looked up by its account, shared cash by the reserve type alone, and a
\* flag by provider and rule, neither of the last two by outlet.
Persisted(c, s) == {a \in artifacts : a.cycle = c /\ LookupOf[a.subject] = LookupOf[s]}

\* The artifact a finding is cited by: a row of this transaction or, on a
\* replay, the persisted one.
SourceOf(r, s, l) ==
  IF Persists(r)
  THEN [cycle |-> cycle[r], subject |-> s, basis |-> l, verdict |-> Verdict[l][s]]
  ELSE CHOOSE a \in Persisted(cycle[r], s) : TRUE

CandidateFor(r, s, l) ==
  [key |-> [run |-> call[r].run, subject |-> s, window |-> window[r]],
   basis |-> l, source |-> SourceOf(r, s, l)]

\* What the engine under way finds in the ledger as it is now.
Found(r) == Findings(cycle[r].engine, call[r].outlet, ledger[call[r].run])

\* envelope_to_alert_candidate for each finding that calls for an alert.
Candidates(r, l) == {CandidateFor(r, s, l) : s \in {x \in Found(r) : CallsForAlert(x, l)}}

\* The replay of a cycle looks up a row that the cycle does not have.
ReplayFails(r) ==
  /\ pc[r] \in {"forecast", "detect"}
  /\ ~Persists(r)
  /\ \E s \in Found(r) : Persisted(cycle[r], s) = {}
  /\ Fail(r, "analytics_state_error")

\* Mutant: only what calls for an alert is persisted.
RowsWorthAnAlert(r, l) ==
  IF Persists(r) THEN {SourceOf(r, s, l) : s \in {x \in Found(r) : CallsForAlert(x, l)}} ELSE {}

\* The projections or flags a fresh cycle inserts.
FreshRows(r, l) == IF Persists(r) THEN {SourceOf(r, s, l) : s \in Found(r)} ELSE {}

\* Read the ledger, run the engine, persist its results or find those of the
\* earlier cycle, and collect the candidates.
Analyse(r) ==
  LET l == ledger[call[r].run]
  IN /\ pc[r] \in {"forecast", "detect"}
     /\ Persists(r) \/ \A s \in Found(r) : Persisted(cycle[r], s) # {}
     /\ work' = [work EXCEPT ![r].artifacts = @ \cup FreshRows(r, l)]
     /\ todo' = [todo EXCEPT ![r] = @ \cup Candidates(r, l)]
     /\ pc' = [pc EXCEPT ![r] =
                 IF pc[r] = "forecast" /\ call[r].kind = "publish" THEN "anomaly" ELSE "check"]
     /\ UNCHANGED <<tables, clock, call, window, cycle, merged, reply>>

\* An analytics call ends here; its candidates are only shown.
Report(r) ==
  /\ pc[r] = "check"
  /\ call[r].kind # "publish"
  /\ Commit(r)

-----------------------------------------------------------------------------
(* Publishing the candidates. *)

\* Mutant: candidates come in any order, as rows do without ORDER BY.
AnyTurn(r, c) == c \in todo[r]

\* Liquidity candidates come first, shared cash before the accounts ORDER BY
\* code; then the anomaly candidates by account and rule.
Turn(r, c) ==
  /\ c \in todo[r]
  /\ \A d \in todo[r] : Position[c.key.subject] <= Position[d.key.subject]

\* Mutant: the lookup leaves the window out of the key.
ActiveAlertOfAnyWindow(r, key) ==
  \E a \in alerts \cup work[r].alerts : a.key.run = key.run /\ a.key.subject = key.subject

\* _existing_active_alert: committed alerts and those of this transaction.
ActiveAlert(r, key) == \E a \in alerts \cup work[r].alerts : a.key = key

\* Candidate c is next at a step of _publish_one.
Publishing(r, step, c) ==
  /\ pc[r] = step
  /\ call[r].kind = "publish"
  /\ Turn(r, c)

\* An active alert has the key: nothing is inserted.
Deduplicate(r, c) ==
  /\ Publishing(r, "check", c)
  /\ ActiveAlert(r, c.key)
  /\ merged' = [merged EXCEPT ![r] = @ \cup {c.key}]
  /\ todo' = [todo EXCEPT ![r] = @ \ {c}]
  /\ UNCHANGED <<tables, clock, pc, call, window, cycle, work, reply>>

\* No alert has the key yet, as far as this statement sees.
DecideToInsert(r, c) ==
  /\ Publishing(r, "check", c)
  /\ ~ActiveAlert(r, c.key)
  /\ pc' = [pc EXCEPT ![r] = "insert"]
  /\ UNCHANGED <<tables, clock, call, window, cycle, todo, work, merged, reply>>

\* Mutant: the index does not see uncommitted entries.
KeyIsFree(r, c) == TRUE

\* An INSERT waits for a transaction that holds the key in uq_alerts_active_dedup.
KeySettled(r, c) == \A q \in Requests \ {r} : \A a \in work[q].alerts : a.key # c.key

\* The unique index refuses the key, or the trigger on alert_anomaly_flags
\* refuses a flag that was suppressed.
Refused(c) ==
  \/ \E a \in alerts : a.key = c.key
  \/ c.source.verdict = "suppressed"

NewAlert(r, c) == [key |-> c.key, basis |-> c.basis, source |-> c.source, by |-> r]

InsertRefused(r, c) ==
  /\ Publishing(r, "insert", c)
  /\ KeySettled(r, c)
  /\ Refused(c)
  /\ Fail(r, "internal_error")

\* INSERT INTO alerts with its source links, explanations and audit event.
InsertAlert(r, c) ==
  /\ Publishing(r, "insert", c)
  /\ KeySettled(r, c)
  /\ ~Refused(c)
  /\ work' = [work EXCEPT ![r].alerts = @ \cup {NewAlert(r, c)}]
  /\ todo' = [todo EXCEPT ![r] = @ \ {c}]
  /\ pc' = [pc EXCEPT ![r] = "check"]
  /\ UNCHANGED <<tables, clock, call, window, cycle, merged, reply>>

\* The last candidate is done: the transaction commits and answers.
Publish(r) ==
  /\ pc[r] = "check"
  /\ call[r].kind = "publish"
  /\ todo[r] = {}
  /\ Commit(r)

-----------------------------------------------------------------------------

\* Creation, a reset or an ingestion for the run commits more ledger rows.
LedgerGrows(run) ==
  /\ ledger[run] < MaxLedger
  /\ ledger' = [ledger EXCEPT ![run] = @ + 1]
  /\ UNCHANGED <<cycles, artifacts, alerts, clock, local>>

\* A step the server takes for a request it is serving.
Serve(r) ==
  \/ RunUnknown(r)
  \/ OpenCycle(r)
  \/ ReplayFails(r)
  \/ Analyse(r)
  \/ Report(r)
  \/ \E c \in todo[r] :
       Deduplicate(r, c) \/ DecideToInsert(r, c) \/ InsertRefused(r, c) \/ InsertAlert(r, c)
  \/ Publish(r)

Quiescent ==
  /\ \A r \in Requests : pc[r] = "done"
  /\ UNCHANGED vars

Next ==
  \/ \E r \in Requests, c \in Calls : Start(r, c)
  \/ \E r \in Requests : Serve(r) \/ Abort(r)
  \/ \E run \in Runs : LedgerGrows(run)
  \/ Quiescent

Spec == Init /\ [][Next]_vars

\* The server keeps working on every request it has accepted.
Fairness == \A r \in Requests : WF_vars(Serve(r))

FairSpec == Spec /\ Fairness

-----------------------------------------------------------------------------
(* Properties. *)

\* The check of _publish_one and the partial unique index together: however
\* publications overlap, a condition of a run and window has one alert.
OneActivePerKey == \A a, b \in alerts : a.key = b.key => a = b

\* An alert cites an artifact that is in the tables, of a cycle of the alert's
\* own run, and of the reserve, or provider and rule, the alert is about.
AlertsCiteTheirRun ==
  \A a \in alerts :
    /\ a.source \in artifacts
    /\ a.source.cycle \in cycles
    /\ a.source.cycle.run = a.key.run
    /\ LookupOf[a.source.subject] = LookupOf[a.key.subject]

\* No alert rests on a flag that was suppressed for bad data (004:83), not even
\* when a replay on later data cites the flag of the first cycle.
NoAlertOnSuppressedFlag == \A a \in alerts : a.source.verdict # "suppressed"

\* An ok answer accounts for every candidate: its published keys are its own
\* alerts, its merged keys are alerts already there, and a publication leaves
\* nothing without an alert that every ledger of the run calls one for.
AnswersAccountForCandidates ==
  \A r \in Requests :
    (reply[r] # None /\ reply[r].code = "ok") =>
      /\ reply[r].published = {a.key : a \in {b \in alerts : b.by = r}}
      /\ \A k \in reply[r].merged : \E a \in alerts : a.key = k
      /\ call[r].kind = "publish" =>
           \A s \in Subjects :
             (OutletOf[s] = call[r].outlet /\ \A l \in Ledgers : CallsForAlert(s, l)) =>
               \E k \in reply[r].published \cup reply[r].merged : k.subject = s

\* An alert shows what its evidence shows: the payload and the artifact it
\* cites were computed from the same ledger ("no evidence recomputation
\* drift", alerts.py:137), and the artifact calls for an alert.  It holds while
\* the ledger of a run stays as the first cycle read it.
AlertsMatchTheirEvidence ==
  \A a \in alerts : a.source.basis = a.basis /\ a.source.verdict = "alert"

\* A replayed cycle has an artifact for everything the replay finds: analytics
\* on a run are deterministic (runner.py:215).
ReplaysAreComplete ==
  \A r \in Requests : reply[r] # None => reply[r].code # "analytics_state_error"

\* Every publication and analytics call is answered: publications that wait
\* for one another's keys never wait in a circle.
EveryRequestAnswered == \A r \in Requests : InFlight(r) ~> pc[r] = "done"

KeyRun(key) == key.run

\* Publication implements the abstract book of alerts.
Book == INSTANCE AlertBook WITH Alerts <- Alert, RunOf <- KeyRun, book <- alerts

ImplementsBook == Book!Spec
=============================================================================
