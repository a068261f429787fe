# TLA+ models of the MFS agent liquidity and coordination platform

The repository is a decision-support platform for mobile-financial-service agents: it
ingests (simulated) provider feeds into a ledger, judges the quality of that evidence,
forecasts liquidity, flags unusual activity, publishes advisory alerts and coordinates the
people who handle them as *cases*. The backend is FastAPI over asyncpg and PostgreSQL
(`src/backend`), the frontend a Next.js client (`src/frontend`). All state that matters
is in PostgreSQL; every concurrent behaviour is a matter of transactions, row locks,
unique constraints and triggers.

All paths below are relative to `src/backend/` unless they start with `frontend`.

## 1. Inventory

| Component (source) | State | Operations | Interacts through | Correct when |
|---|---|---|---|---|
| **Case workflow** (`app/services/coordination/cases.py`, `app/api/v1/cases.py`) | `cases` (status, owner role, version), `case_status_history`, `case_assignments`, `case_notes`, `case_reviews`, `coordination_idempotency_keys` | open, acknowledge, escalate, resolve, assign, note, review | one transaction per request, `SELECT … FOR UPDATE` on the case, routing, notifications, audit, similar-case index | no update is lost, history explains status, a key spends itself once, an answer 200 is durable |
| **Case database contract** (`migrations/004`) | the same rows | CHECKs, UNIQUE(alert_id), trigger `enforce_case_transition`, append-only triggers | — | whatever the service does, the status moves along admitted edges |
| **Audit** (`coordination/audit.py`) | `audit_events` (append only) | `write_audit_event` | called in the transaction of each mutation | complete, ordered |
| **Notifications** (`coordination/notifications.py`) | `notifications` | queue, list, mark read | queued by the case workflow | the owner of a case was told |
| **Routing** (`coordination/routing.py`) | `routing_rules` (read) | `resolve_routing` | called by open | the most specific rule wins, whatever order the rows come in |
| **Permissions and scope** (`core/permissions.py`, `core/authz.py`, `core/auth.py`, RLS in `migrations/006`) | role assignments | role gate, provider and outlet scope | every endpoint | what a client is told it may do is what the gate lets by; scope never widens |
| **Alert publication** (`coordination/alerts.py`, `coordination/explanations.py`) | `alerts`, source link tables, `alert_explanations` | publish from a run, suppress duplicates, list | calls the analytics in its own transaction | at most one active alert per dedup key, every alert has evidence and explanation |
| **Analytics runner** (`analytics/runner.py`, `analytics/persistence.py`) | `analytics_runs`, `quality_assessments`, `liquidity_projections`, `anomaly_flags` | `run_liquidity`, `run_anomalies`, replay of an earlier cycle | read ledger, call engines | one persisted cycle per run and engine; alerts cite persisted artifacts |
| **Engines** (`quality/`, `liquidity/`, `anomaly/`, `alert_candidate_adapter.py`) | none (pure) | assess, forecast, detect, adapt | runner | no actionable output on untrusted data |
| **Ingestion** (`ingestion/pipeline.py`, `normalizer.py`) | `ingestion_batches`, `ingestion_events`, `data_quality_assessments` | `ingest_batch`, `_process_event` | ledger writer, quality foundation | a batch sent again changes nothing; a bad event does not cost the good ones |
| **Ledger** (`ledger/writer.py`, `reader.py`) | `transactions`, `cash_balance_snapshots`, `provider_balance_snapshots` (append only) | write with deduplication; reads | ingestion, analytics | a provider reference is recorded once |
| **Simulation** (`simulation/run_service.py`, `fault_service.py`) | `simulation_runs`, `fault_injections` | create, reset, inject or patch a fault | generator, fault effects, ingestion | a run ends completed or failed; a reset replays its scenario |
| **Fault effects, generator** (`ingestion/fault_effects.py`, `synthetic/`) | none (pure, seeded) | generate batches, distort them | simulation | same seed, same data; ground truth never reaches the detectors |
| **Read models** (`migrations/005`, `008`, `012`) | views | — | dashboards | the current state is that of the latest run |
| **Migration runner** (`migrations/run_migrations.py`) | `schema_migrations` | apply, reset, seed | — | each migration once, in order, unmodified |
| **Demo bootstrap** (`app/scripts/bootstrap_demo.py`) | — | ensure run, alerts, case | simulation, publication, cases | a bootstrap that stops anywhere can be started again, and adds what is missing only |
| **Validation harness** (`validation/`) | `validation_runs`, results | run, report | simulation, analytics and publication, in one outer transaction (`scripts/validation_cli.py`) | an evaluation leaves all of its rows or none |
| **API shell** (`app/main.py`, `core/middleware.py`, …) | request counters | — | — | — |
| **Frontend** (`frontend/src`) | query cache only | calls the API | HTTP | follows the permissions the API sends |

What is hard here: overlapping requests on one case or one run (lookups made before the
lock that would protect them), retries under idempotency keys, failures swallowed inside a
transaction, timestamps taken at the start of a transaction that then waits, and replays
that mix artifacts of an earlier cycle with data of a later one. `PROJECT.json` lists these
hazards with their lines and the properties that watch over them.

## 2. Plan

| Part | Modules | Abstract specification | State |
|---|---|---|---|
| Case service (§3) | `CaseWorkflow`; `Routing` and `Permissions` wired in by `CaseDesk` | `CaseLifecycle` | checked, proved |
| Analytics and publication (§4) | `AlertPublication` | `AlertBook` | checked, proved |
| Simulation and ingestion (§5) | `FeedIngestion` | `FeedLedger` | checked, proved |
| Migrations and bootstrap (§6) | `Deployment` | — | checked, proved |
| Engines over one account (§7) | `AccountEngines`, `AccountAnalysis` | the provider's books | checked, proved |
| Read models (§8) | `Dashboard` | — | checked, proved |

Every stateful part has a module of its theorems (`…Proofs`) and, for TLC, a module of its
instances (`MC…`). The account's theorems are in `AccountProofs`; `Extremes` has the lemmas
about integers the proofs share: a finite set of them has a greatest and a least member, and
so every number has a property unless there is a first one that fails it. Type invariants are
theorems (`TypeCorrect`, for the account the lemma `Invariant`) and not repeated in the runs,
and so are the invariants the tables below mark "proved, not run": TLC confirmed them when they
were written, and the proof covers every instance.

Every invariant and action property of the runs that pass is stated by a theorem, and so are
the three refinements. Nine of the theorems name a hypothesis about the constants or the
environment beyond the `ASSUME`s of the modules; the sections say which, and what in the code
justifies it. What stays with TLC is:

- *liveness* (`EveryCallAnswered` twice, `EveryRequestAnswered`, `CommandsEnd`): reasoning
  from fairness needs ENABLED, which the provers used here do not handle;
- the properties of the four runs that expect a violation, which the code refutes;
- that the hypotheses are met by states of the system: TLC runs the instances under them.

What a recursive function computes is proved by way of the first step at which it would go
wrong (`FirstFailure` in `Extremes`), since the induction theorems of the library take an
operator, which the provers cannot instantiate. `RECURSIVE` operators are not used in modules
that theorems are about.

Left to do: which run an evaluation of the validation harness reuses; a proof that the
hypothesis of `RunsDoNotDeadlock` follows from a model of the generator's loops.

## 3. The case workflow

### 3.1 Modules

- `CaseLifecycle.tla` — the abstract specification. Per alert, the status and the version of
  its case row; `Open`, `Move` along the edges of the trigger, `Reassign`.
- `CaseWorkflow.tla` — the service. Composes every table the handlers write with the
  requests in flight. `Lifecycle == INSTANCE CaseLifecycle WITH status <- StatusColumn,
  version <- VersionColumn` is the refinement mapping. Who may do what, and to whom a case is
  routed, are constants.
- `Routing.tla`, `Permissions.tla` — what those constants are in the program: the loop over
  the rows of `routing_rules`, the table of actions a client is told, the one the handlers go
  by, and the provider and outlet scopes.
- `CaseDesk.tla` — extends `CaseWorkflow` with both: its assumptions give the constants their
  values, its properties speak of routing and permissions in the running service.
- `MCCaseDesk.tla`, `MCCaseWorkflow.tla` — instances for TLC. The first takes users with
  scopes and the rules of the seed with local ones beside them; the second takes permissions
  as given and concentrates on keys, with three *menus* of calls (`ClientMenu`, `RetryMenu`,
  `EveryActionMenu`).
- `CaseWorkflowProofs.tla`, `CaseDeskProofs.tla` — the theorems.

### 3.2 Correspondence

A *request* is one API call served by one transaction. Its handler is cut exactly where
another transaction can come between: at its start (`Begin`: the role gate, SQL `now()`, the
idempotency lookup or, for an open, the lookup of the case), at the row lock (`LockRow`:
`SELECT … FOR UPDATE` with the version and transition checks), and at the commit. Everything
a handler writes becomes visible at its commit, so the writes are one action.

| Model | Code |
|---|---|
| `Forbid` | `require_role_action` raises before the transaction |
| `Replay`, `Cached`, `IdemStore` | `_idem_lookup`, `_idem_store` (`ON CONFLICT DO NOTHING`) |
| `OpenExisting` | `open_case` finds the alert's case |
| `Begin` | transaction start and a lookup that found nothing |
| `LockRow`, `Verdict`, `Refusal` | `_load_case(for_update)`, `_require_case`, `_check_version`, `_check_transition` in that order |
| `Acknowledge`, `Escalate`, `Resolve`, `Assign` | the handlers of those names up to commit |
| `ResolveAborted` | `index_resolved_case` fails in SQL, the exception is swallowed, COMMIT rolls back |
| `InsertCase`, `AddNote`, `AddReview` | handlers that insert without a row lock; the foreign key makes them wait for a lock holder |
| `Refuse` | an `AppError` or a unique violation: rollback, error answer |
| `Abort` | worker or connection dies: rollback, no answer |
| `Routing!TargetRole`, `BestRule`, `Consider`, `Matches`, `Beats` | `resolve_routing`: one pass over the rows, keeping the first that no other beats in (specificity, priority); `RulesAssumption` is the declaration of `routing_rules` in `migrations/004:186-198` |
| `Permissions!Offered` | `permissions_for_user`: the first role of a user that matches decides |
| `Permissions!Admits` | `require_role_action`: any of his roles suffices |
| `HasProviderScope`, `HasOutletScope`, `CanAccess` | the functions of `authz.py` of those names |
| `startedAt`, `clock` | SQL `now()` is the start of the transaction; `write_audit_event` reads the clock when it writes |

Data is abstracted to what properties tell apart: names, reasons, note texts and response
bodies other than the row are left out; a reply carries the row and the request whose work
produced it (`origin`). Two note-takers share the case row and may be stamped and committed
in either order; the model gives each one step, and no property orders their events.

### 3.3 Runs

All instances take every call from a *menu*; a request may take any of them, so all
interleavings of all combinations of calls are explored.

| Run | Bounds | Shows |
|---|---|---|
| `case_lifecycle` | `MCCaseDesk`: 4 requests, one case through its whole life and one on the cash that is opened, no keys, all indexing faults, 6 rules, 4 users; 585,887 states | `HistoryExplainsStatus`, `VersionCountsWrites`, `AuditMatchesTables`, `OwnerIsLastAssignee`, `RoutedByPrecedence`, `OfferedIsAdmitted`, refinement `ImplementsLifecycle` |
| `case_retries` | `MCCaseWorkflow`: 3 requests, 2 alerts, 2 keys, one call of every kind, a caller out of scope, clients that wait before they retry, fairness; 120,131 states | `AtMostOncePerKey`, `ReplaysOriginalAnswer`, `OkAnswersAreDurable`, liveness `EveryCallAnswered` |

Proved, not run: `TypeOK`, `SnapshotIsCurrent`, `ExpectedVersionHonoured`.

Four requests are enough for open, two racing calls that wait for one another, and a third
that sees the result; the longest legal life of a case (open, acknowledge, escalate, resolve)
is four calls too. In `case_retries`
three requests are a first attempt, its retry and a call that comes between; the second
alert exists so that a key can be used on another case. The rules of `case_lifecycle`
hold one for an area, one for a provider and two that tie, so that each level of the
precedence decides for some alert, and `RoutedByPrecedence` evaluates every order of the
rows. Symmetry permutes requests, which no property or constant tells apart; the run with
liveness uses none. Nothing grows beyond what the requests write, so no state constraint is needed.
Deadlock is checked: `Quiescent` is the only way to stop, and only when all are answered.

*Fairness.* `WF(Serve(r))` per request: the event loop and PostgreSQL keep working on a
request that has its transaction and can go on. No fairness is assumed of clients (a request
need not arrive) or of `Abort` (a connection need not die). A waiter needs weak fairness only:
a lock holder either commits, refuses or dies, and calls do not return, so waiting ends.

### 3.4 Where code and documentation part

Two runs violate what a comment or a document says. Each names one property.

| Run | What happens | Claim |
|---|---|---|
| `case_overlapping_retry` | two live requests under one key both do the work: the lookup precedes the lock | `migrations/007:6-8` "no duplicated side effects" |
| `case_resolve_index` | an SQL failure in best-effort indexing undoes a resolution answered 200 | `similar_cases.py:3` |

`case_retries` therefore assumes clients that wait (`OverlappingRetries = FALSE`) and an
indexing that fails outside SQL (`IndexFaults = {"python"}`); the violating runs lift exactly
these assumptions.

More limits of the code are visible in the model without a run of their own: the second of
two concurrent opens of an alert fails on `UNIQUE (alert_id)` and is answered 500
(`InsertCase`, `Refuse`), and a used key with another body is answered with the stored reply,
since bodies are not compared (`Replay`). A history row takes the start time of a transaction
that may have waited for the lock, so `changed_at` may go back from one row to the next;
`HistoryExplainsStatus` takes rows in the order of their commits. The seeded rule
"High-severity risk escalation" routes a cash case of high severity to `risk_analyst`, a role
that may read and review it but not acknowledge, escalate or resolve it, and several rules
route to `field_officer`, a role no demo user has.

### 3.5 Proofs

`CaseWorkflowProofs.tla` proves, for all values of the constants:

| Theorem | Property | Extra assumption |
|---|---|---|
| `TypeCorrect` | `TypeOK` (not run) | — |
| `SnapshotCurrent` | `SnapshotIsCurrent` (not run) | — |
| `StaleVersionsRefused` | `ExpectedVersionHonoured` (not run) | — |
| `HistoryExplained` | `HistoryExplainsStatus` | — |
| `ServiceImplementsLifecycle` | `ImplementsLifecycle` | — |
| `NoLostUpdate` | `VersionCountsWrites` | — |
| `OwnerTraced` | `OwnerIsLastAssignee` | — |
| `RetriesGetTheOriginalAnswer` | `ReplaysOriginalAnswer` | — |
| `KeySpentOnce` | `AtMostOncePerKey` | `OverlappingRetries = FALSE`, `"database" \notin IndexFaults` |
| `OkAnswersStay` | `OkAnswersAreDurable` | `"database" \notin IndexFaults` |
| `AuditTellsAll` | `AuditMatchesTables` | — |

and `CaseDeskProofs.tla`, with the assumptions of `CaseDesk`:

| Theorem | Statement |
|---|---|
| `OffersAreAdmitted` | every action a set of roles is offered is admitted |
| `OffersHold` | `Spec => []OfferedIsAdmitted`: nobody is refused what he was offered, and who holds a single role and was not offered an action is refused it |
| `RoutingFollowsPrecedence` | `Spec => []RoutedByPrecedence`: the owner a case opens with is one the precedence names, and the loop over the rows reaches each of those in some order and no other |

The argument. `SnapshotIsCurrent` says that the row a request read under its lock is still
the row of the case and still passes the checks. It is inductive only together with `TypeOK`
and `CallsKnown` (what a request under way has in its local variables); these three are the
core invariant. It makes every UPDATE hit the row that was checked, so a step of the service
is a legal step of `CaseLifecycle`, and the entry a step appends to the history leaves the
status the previous one entered. `NoLostUpdate` counts rows: each committing action adds as
many rows as the version equation asks for; `OwnerTraced` follows the same rows to the last
assignment. `OkAnswersStay` is about what is never taken back: the tables grow only at their
ends (`AppendGrows`, `WritesGrow`), so what an answer reports stays in them. For the keys, `BodiesHaveOrigins` says that a
stored body is the reply of the request that did the work under that scope, which gives the
theorem about replays; `KeysHeld` adds that a request in flight under a key found none
stored and is alone under it, which is true only when clients wait, hence the assumption.

`OffersHold` needs one invariant of the running service, `Judged`: a request that is past its
start passed the gate, and one that was refused there did not. The rest is that the two
tables agree, role by role (`OffersAreAdmitted`; `OffersAreAllOfOneRole` for the converse).

`AuditTellsAll` counts too: the n-th of the events that report a status is by the request that
wrote the n-th row of the history. A step that appends to one appends to both or to neither
(`StatusEventsAppend`, `AuditedWrite`). The order of the moments needs that no event is stamped
later than the clock (`Audited`). `write_audit_event` reads the clock when it writes; the
history takes the start of its transaction and has no such order.

`RoutingFollowsPrecedence` is about two definitions that do not resemble each other: a loop with
a comparison, and four levels with a minimum in each. The middle is `Unbeaten`, the matching
rules no matching rule beats. They are what the precedence names (`UnbeatenComeFirst`, the
least priority of a level from `Extremes`); what the loop ends with is one of them, the rows
having been met one by one (`LoopRuns`, `BestIsUnbeaten`); and any of them is what the loop
ends with when its row comes first (`FirstUnbeatenStays`, `Orders`). `OpenedAsRouted` carries
the decision from the opening to any later state: the first assignment of a case is the one
that routing made, and nothing else writes a first one.

Only model-checked: the liveness property `EveryCallAnswered`, and the properties of the two
violations.

## 4. Analytics and alert publication

### 4.1 Modules

- `AlertBook.tla` — the abstract specification: table `alerts` as its readers may rely on
  it, a book to which each publication adds the alerts of one run at once, under new keys,
  and from which nothing is taken or changed.
- `AlertPublication.tla` — the analytics runner and the publication transaction. Composes
  `analytics_runs`, the artifacts (projections and flags), `alerts` and the requests in
  flight; `Book == INSTANCE AlertBook WITH Alerts <- Alert, RunOf <- KeyRun, book <- alerts`.
- `MCAlertPublication.tla` — two outlets with an account of one provider each, three
  detectors, two successive ledgers between which the engines change their minds, and one that
  stays as it is. A run holds rows of more than one outlet when it comes from the dataset of
  `scripts/load_moderate_dataset.py`; later rows of another outlet than the default one can only
  be cash snapshots (`pipeline.py:332-349`), so the accounts of the second outlet keep their
  verdicts.
- `AlertPublicationProofs.tla` — the theorems.

### 4.2 Correspondence

A publication is one transaction of many statements under READ COMMITTED: it sees what
others have committed in between, and others see nothing of it before its commit (`work`).

| Model | Code |
|---|---|
| `Start` | the endpoints for publishing, liquidity and anomaly analytics (administrators only) |
| `RunUnknown` | `_validate_run` raises 404 |
| `OpenCycle` | `_compute_window`, `_existing_analytics_run` and, when it finds none, `create_analytics_run` |
| `Analyse` | read the ledger, run the engine, insert its rows or look up those of the earlier cycle, collect the candidates |
| `ReplayFails` | a lookup finds no row: `analytics_state_error`, 500 |
| `Report` | an analytics call commits |
| `Turn` | the order of candidates: liquidity first, shared cash before accounts by code, then account by rule |
| `Deduplicate`, `DecideToInsert` | `_publish_one` with and without an active alert in sight |
| `KeySettled` | the INSERT waits for a transaction with an uncommitted entry of the same key |
| `InsertRefused` | `uq_alerts_active_dedup`, or the trigger against suppressed flags: 500, everything undone |
| `InsertAlert` | alert, source links, explanations, audit event |
| `Publish` | commit of the publication |
| `LedgerGrows` | creating or resetting a run, ingesting for it: more rows of the same run |
| `Abort` | worker or connection dies |

`Verdict[l][s]` is what the engines say of subject `s` (a reserve, or an account under a rule)
in the `l`-th ledger of a run; the engines are pure functions of the ledger. `LookupOf`
is the key of a replay's lookup: account for a provider reserve, reserve type for shared cash,
provider and rule for a flag. `basis` and `verdict` of an artifact record which ledger it
was computed from. The engine of one step reads the ledger at one moment, although the code
reads account by account; the window is read before, in a step of its own. A ledger grows
with a fresh window end or, for a late batch, without one. Quality assessments go with their
artifact and have no state of their own here. Alert state never leaves `active` in this code, so
it is not a field.

### 4.3 Runs

| Run | Bounds | Shows |
|---|---|---|
| `publish_growing` | 3 requests publish for two outlets or analyse, 1 run whose ledger grows once it exists; 1,635,130 states | `OneActivePerKey`, `AlertsCiteTheirRun`, `AnswersAccountForCandidates` |
| `publish_frozen` | 2 requests of 4 kinds, 2 runs, ledgers that do not change, fairness; 7,172 states | `AlertsMatchTheirEvidence`, `ReplaysAreComplete`, refinement `ImplementsBook`, liveness `EveryRequestAnswered` |

Proved, not run: `TypeOK`, `NoAlertOnSuppressedFlag`.

Three requests are two that race and one that replays what the first of them committed; two
ledgers are enough for a cycle, a change, and a replay on the changed data. Where the ledger
does not change two requests suffice: one replays or races what the other does. The second
run matters only to the keys. Symmetry permutes requests in the first run, which has no
liveness property. *Fairness* is `WF(Serve(r))` as for cases: the server goes on with what it
accepted. It is enough because publications take the keys in one order (`Turn`); the mutant of
`EveryRequestAnswered` drops the order and two publishers wait for one another for ever
(PostgreSQL would break the circle by failing one of them after `deadlock_timeout`, which the
model leaves out because no circle forms).

### 4.4 Where code and documentation part

`publish_drift`: after a reset an alert computed from the new rows cites the artifact of the
old ones, which may not call for an alert at all, although `alerts.py:137` promises "no
evidence recomputation drift". `publish_frozen` shows the other side: while the ledger of a
run stays as the first cycle read it and one outlet is asked for, the claims about evidence
and replays hold, also with two cycles and publications that race.

More limits of the code are visible in the model without a run of their own. After a reset
that brings a flag the first cycle did not have, the replay is answered 500, and so is every
later one (`ReplayFails`). Two concurrent calls that find no cycle persist one each
(`OpenCycle`), also when one of them is the bootstrap's (§6.2). The second of two concurrent publications fails as a whole on the unique index with a
500 (`InsertRefused`), and because a replay looks flags up by provider and rule the alert of one
outlet may cite the flag of another (`Persisted`): `AlertsCiteTheirRun` promises the run and
the rule, not the outlet.

### 4.5 Proofs

`AlertPublicationProofs.tla` proves `TypeCorrect`, `OneAlertPerKey` (`OneActivePerKey`),
`CitationsOfTheRun` (`AlertsCiteTheirRun`), `NoSuppressedEvidence`
(`NoAlertOnSuppressedFlag`), `PublicationImplementsBook` (`ImplementsBook`) and
`AnswersAreAccounts` (`AnswersAccountForCandidates`) for all values of the constants. They
rest on the assumptions about the constants only: calls are well typed, `Position` orders
subjects strictly with reserves first, verdicts and windows are defined for every ledger.

Two more are about runs whose ledger is settled:

| Theorem | Property | Hypotheses |
|---|---|---|
| `ReplaysCompleteOnSettledLedgers` | `ReplaysAreComplete` | `OneOutletPerRun`, `[][LedgersSettle]_vars` |
| `EvidenceMatchesOnSettledLedgers` | `AlertsMatchTheirEvidence` | these and `LookupsApart` |

- `OneOutletPerRun`: the calls for a run ask for one outlet. The generator writes for
  `DEFAULT_OUTLET_ID` only (`constants.py:27`); a dataset with more is loaded by a script.
- `LedgersSettle`: once a run has been analysed, its ledger stays. Without it the code breaks
  both properties, which is what `publish_drift` shows.
- `LookupsApart`: the keys a replay looks artifacts up by tell the reserves, or the flags, of one
  outlet apart, since an outlet has one account per provider (`uq_opa_outlet_provider`,
  `migrations/001:179`).

The argument. `OneActivePerKey` is not inductive, since rows become visible at a commit long
after they were checked. `KeysApart` strengthens it: the keys of each transaction's
uncommitted alerts differ from one another, from the committed keys and from those of every
other transaction, and the candidate a request is about to insert has none of its own keys. The
last part needs that the candidate whose turn it is is the one the lookup was made for, which
`Queue` gives: a request holds one candidate for a subject, reserves before detectors. For the
citations, `Citing` says of every candidate and uncommitted alert that what it cites is
committed or its own, and `ArtifactsHaveCycles` that artifacts come with their cycle; `Placed`
says what the steps of a request have established before. The book follows: what a
commit adds has new keys (`KeysApart`) of one run (`Citing`).

An answer accounts for its candidates because a publication never loses sight of a subject
that every ledger of the run calls for (`Covers`, `InSight`): at each step it is a candidate, an
alert of the transaction or a key found already published, and when no candidate is left it is
one of the last two. Each engine is a step of its own on a ledger that may have grown since the
other, so what is covered differs by step.

With a settled ledger every artifact is the row its cycle would compute now (`RowsCurrent`), and
a cycle that can be seen is complete: all of its findings have rows (`RowsComplete`), also when
it was opened by another transaction, because it commits as a whole. A replay therefore finds
what it looks for, and what it finds has the verdict of the ledger (`Matches`).

Only model-checked: the liveness property `EveryRequestAnswered`.

## 5. Simulation runs, ingestion and the ledger

### 5.1 Modules

- `FeedLedger.tla` — the abstract specification: batches and transactions as the readers of
  the ledger may rely on them. A delivery brings batches under new references and of one run,
  and exactly the accepted transactions the ledger lacks.
- `FeedIngestion.tla` — the calls that create a run, reset it, ingest a batch, or inject and
  lift faults, down to the single event. `Ledger == INSTANCE FeedLedger WITH Batches <- Batch,
  Rows <- Row`; the operator `Accepted` and the two tables go by the same name.
- `MCFeedIngestion.tla` — a run loaded from a dataset (`scripts/load_moderate_dataset.py`
  writes rows under names of its own) and one created from the same seed, with two generated
  batches, the first of which a fault corrupts; feeds that bring the same two transactions in
  the opposite order, with duplicates, rejected events, nothing but rejected events, or an
  event that raises.
- `FeedIngestionProofs.tla` — the theorems.

### 5.2 Correspondence

A call is one transaction. What it wrote is in `work` until its commit; under READ COMMITTED
each of its statements sees what others have committed in between. It is cut at every
statement whose outcome another transaction can change.

| Model | Code |
|---|---|
| `Start`, `BeginIngest`, `CreateRun` | the endpoints; `create_run` up to the INSERT of the run, `generate_dataset` and the suffix of the references (`Generation`) |
| `RunUnknown`, `ReadConfig` | `reset_run` reads the run without a lock and adds one to `reset_count` |
| `ResetRun` | its UPDATEs, which wait for a transaction that holds the row |
| `SetFault` | `create_fault`, `patch_fault` |
| `ReplayBatch`, `DecideToIngest` | `ingest_batch` finds a batch of that reference or none |
| `InsertBatch`, `InsertBatchRefused` | the INSERT waits for an uncommitted one of the same reference (`MayProceed`), then `uq_batch_provider_ref` or the foreign key refuses it |
| `DuplicateEvent`, `RejectEvent`, `RecordEvent`, `EventRaises` | `_process_event` and its caller's counts; an exception that is not listed ends the transaction |
| `DecideToWrite`, `WriteTransaction`, `WriteRefused` | the lookup and the INSERT of `write_transaction`, between which others may commit |
| `CloseBatch` | the final UPDATE and `record_batch_assessment` |
| `Finish` | status `completed`, COMMIT, the answer |
| `DeadlockVictim` | PostgreSQL ends a circle of waits by failing a statement of it (external) |
| `Abort` | worker or connection dies |

An event is its reference in the batch, the transaction it carries if any, and a `form`: what
the normalizer makes of the payload. Snapshots are append-only rows, one for each accepted
balance event, and need no state of their own. Generator and fault effects are pure and
seeded: `Generated[seed][enabled faults]`. Runs of one seed therefore share scenario and
configuration in the model: a seed stands for that whole triple. The status `failed` that
`create_run` writes for an exception is rolled back with it (`run_service.py:111-127`), so a
run is never seen failed (`Fail`). Artifact counts of the answer and the read endpoints are left out.

### 5.3 Runs

| Run | Bounds | Shows |
|---|---|---|
| `ingest_ledger` | 2 requests of 7 kinds, 2 runs of one seed, 2 feeds, 1 fault, 2 transactions, fairness; 11,938 states | `CountsMatchEvidence`, `RunsArriveWhole`, `AnswersMatchEvidence`, `GeneratedRunsDoNotDeadlock`, refinement `ImplementsLedger`, liveness `EveryCallAnswered` |

Proved, not run: `TypeOK`, `LedgerIsWhatWasAccepted`.

Two transactions in opposite orders are the smallest circle of waits, and two requests race
or follow one another in every way; what a third would find is what the first committed, and
the proofs hold for any number. Duplicated and rejected events are in the feeds and, by the
fault, in the runs. There is no symmetry, because of the liveness property. Deadlock is
checked; `Quiescent` is the only way to stop, when all requests are answered.

*Fairness* is `WF(Serve(r))`. `Serve` contains `DeadlockVictim`: PostgreSQL looks for
circles after `deadlock_timeout`, so a request in a circle is failed or freed. Nothing is
assumed of clients, faults or `Abort`.

`GeneratedRunsDoNotDeadlock` says where circles cannot come from: runs take the row of the
run, then references and keys in the order of the generator. Its mutant lets a creation ingest
in the other order.

### 5.4 Where code and documentation part

`ingest_reset`: the references of a reset end in `R` and the number of resets, without the
run, and `uq_batch_provider_ref` is global. The first reset of a second run of a seed meets
the batches of the first reset of the first, takes each for one delivered again, and is answered
200 with status `completed` although nothing was ingested for it; `simulation_cli.py:116`
says "Reset and re-run". Two concurrent resets of one run collide in the same way;
`LoneResetsIngest` does not count those.

Two more limits are visible without a run of their own. Transactions are unique per provider
and reference across runs, so a second run of a seed, or a reset, records accepted events that
write nothing (`RecordEvent`); the tests accept this, and `LedgerIsWhatWasAccepted` speaks
of the ledger as a whole. And the loser of two concurrent deliveries of a batch or of a
transaction fails as a whole with a 500 (`InsertBatchRefused`, `WriteRefused`); sent again
it is a replay.

### 5.5 Proofs

`FeedIngestionProofs.tla` proves `TypeCorrect`, `CountsCorrect` (`CountsMatchEvidence`),
`LedgerCorrect` (`LedgerIsWhatWasAccepted`), `AnswersCorrect` (`AnswersMatchEvidence`) and
`IngestionImplementsLedger` (`ImplementsLedger`) for all values of the constants, from the
named assumptions of `FeedIngestion`: calls are well typed, every seed generates at least one
batch and no batch is empty, `None` is no value of anything, names of feeds and
seeds differ.

All five follow from one inductive invariant, `IInv`. A committed batch tells its evidence
because a batch under way does, but for the events that are still to come (`Tally` with
`StillToCount`). The ledger equation is the hard part: a transaction may accept an event
because *another* delivery has written the row, or because it will write it in the next
step, and either may fail. `Delivering` bounds what a transaction holds from both sides: what
it has accepted so far is in the ledger or written by itself, and it writes nothing it has not
accepted; only at `write` the key under way is still missing. At a commit the two bounds
meet. `RefsApart` and `KeysApart` say that references and keys of an uncommitted
transaction differ from the committed ones and from those of every other transaction, so a
commit adds only new ones, and `OfItsRun` that all are of one run; that is a step of the abstract
ledger. `TypeOK` itself needs `Told`: the answer to a batch sent again has a final status only
because batches that can be seen are closed.

Two more theorems have a hypothesis each.

`RunsAlwaysArriveWhole` (`RunsArriveWhole`) asks that no feed sends a batch under a reference
the creation of a run makes (`FeedsNameTheirOwn`). Such a reference ends in the id of the new
run (`run_service.py:256`), which no feed can know; one that guessed it would have its batch
taken for a part of the run. The invariant `WInv` says that before its row nothing of a run is
there (`Whole`), that names of a run come from the one request that creates it (`NamesKept`),
and that the references this request has still to ingest and those it has ingested are
together those of the generation (`Creating`): at the commit none is left.

`RunsDoNotDeadlock` (`GeneratedRunsDoNotDeadlock`) asks that all that is generated comes in one
order (`GeneratedInOneOrder`): batches by their index, the transactions of a batch by their
place. The loops of the generator go over the providers and the transactions of each in
that order whatever the scenario (`generator.py:139,177`), references hold the seed, and a fault
drops or corrupts what is there and reorders nothing (`fault_effects.py:39`). The invariant
`OInv` is that what a call holds comes before everything it has still to take. Were there a
circle, one of its calls would wait for what comes first of all that is waited for
(`LeastNatural` of `Extremes`). But that call holds something another one waits for, and this
comes before what it waits for itself: a contradiction.

Only model-checked: the liveness property `EveryCallAnswered`, and the property of the
violation.

## 6. Migrations, seeds and the demo bootstrap

### 6.1 Modules and correspondence

`Deployment.tla` models the commands that bring the platform up: `run_migrations.py` (apply,
seed, reset), `seed_rag_similar_cases.py` and `bootstrap_demo.py`, chained with `&&` by the
`migrate` container of compose or typed by an operator. `MCDeployment.tla` is the instance,
`DeploymentProofs.tla` the theorems.

State: the texts of the migration files, table `schema_migrations` (`None` before it exists),
whether the reference rows and the corpus are there, the bootstrapped runs, per run and engine
the sequence of its analytics cycles, the alerts and the cases, each row with who inserted it
(`by`); per command where it is (`pc`, `todo`, `at`), what it has read (`read`, `run`,
`alert`), the engines for which the transaction under way found no cycle (`fresh`), how it
ended (`exit`) and how often it was started; and per user of the running backend the
transaction under way (`call`).

A step is one database transaction, or a part of one. The transactions that run engines,
publish or open a case look rows up first and insert later, at READ COMMITTED and without a
lock or, for cycles, a unique index, while users do the same: each lookup is a step of its own,
and the insert another. What a transaction inserts is put in the tables with the step that
commits it, since no other transaction sees it before. So an insert and its commit are one
step: an insert that meets a key another transaction has inserted and not committed waits, and
then fails or goes on as that one ends, which is what the step does when it is taken after that
end. Between any two steps a command may die (`Die`) and its transaction is rolled back; a new
start runs the script from the top.

| Model | Code |
|---|---|
| `EnsureHistoryTable`, `ReadHistory` | `CREATE TABLE IF NOT EXISTS schema_migrations`; the history, read once |
| `SkipApplied`, `RefuseModified`, `ApplyMigration`, `AllApplied` | the loop over the files: checksum compared, or SQL and history row in one transaction |
| `RefuseTaken` | there is no advisory lock: the later of two concurrent applies fails on the CREATE or the primary key ("conflict") |
| `SeedReference`, `SeedCorpus` | `seed`, and the corpus script it starts |
| `LookUpRun`, `CreateRun` | `_existing_run_id`, `create_run` |
| `CheckAlerts` | existing alerts of the run |
| `PublishLiquidity`, `PublishAnomalies` | `publish_from_run`: each engine looks for an earlier cycle (`runner.py:412`, `726`) and finds the rows of its accounts in it or ends the process ("analytics") |
| `LookUpAlert`, `InsertAlert` | `_existing_active_alert`, then the insert and the commit; `uq_alerts_active_dedup` refuses an alert whose key was committed since, and the `IntegrityError` ends the process ("refused") |
| `CheckLiquidity`, `RunLiquidity`, `CheckAnomaly`, `RunAnomalies` | the two engines for scenarios without publication; each checks for rows of its kind, so an anomaly cycle that found nothing is looked up again and adds nothing |
| `CommitCycles` | the commit of a transaction that inserts no alert |
| `CheckCase`, `FindAlert`, `OpenCase`, `InsertCase` | the demo case: `open_case` looks for a case of the alert and inserts one later; `UNIQUE (alert_id)` refuses the second ("refused") |
| `UserPublishes`, `UserAnalyses`, `UserOpens`, `UserLooksUpCycle`, `UserLooksUpAlert`, `UserCommits`, `UserInsertsCase`, `UserGivesUp` | the same transactions in the backend, for its users, while a second start runs; `UserGivesUp` is every way one is rolled back |
| `EditFile`, `Reset` | a migration that was applied is edited, or the database reset, with no command under way |

A user acts on the runs that are there, at the outlet of the run: that users create runs of a
demo scenario under the seed of the bootstrap, or resolve an alert and so free its key, is left
out. The alerts of a run are one: those of one publication are committed together.

### 6.2 Run

`deploy_reruns`: the container (apply, seed, bootstrap), started up to twice, an operator
(apply, status, seed), started once, and one user with one transaction; 2 migrations, 4
scenarios of which one flags and alerts; 408,126 states. Two migrations are the least that an
order and a stop between them need, and two commands the least that apply at the same time.
Two starts of the container give one that died and one that finished what it left, or one that
finds everything there. One transaction of a user is enough to overlap any of the
bootstrap's: the run reaches states with two cycles of one run and engine, and both ways an
insert of the bootstrap is refused. One bootstrap runs at a time (`MayStart`), as compose
starts it.

- `OkMeansDeployed`: when the container ends well, migrations, seeds, runs, cycles, alerts and
  a case are there, whatever died before and whatever users did meanwhile.
- `NothingTwice`: one run per scenario; and bootstraps add at most one cycle per run and
  engine, one alert per run and one case, also when the lookup that is to prevent the second
  is older than what others have committed since. It does not say that the table has one cycle
  per run and engine: a user's transaction that overlaps the bootstrap's, or another user's,
  adds a second one (`runner.py:726`; §4.4).
- `RerunsSucceed` ("Safe to re-run", `bootstrap_demo.py:5`): no start fails on what an
  earlier one left. A bootstrap may still end on a unique key, when a user publishes the run
  or opens a case on the alert between its lookup and its insert; the property says that the
  row in its way is then a user's, never one of a bootstrap. The other ways to fail are a
  modified file, and another command that migrates at the same time.
- `CommandsEnd`, liveness under `WF(Run(c))`: a process that runs goes on running. Nothing is
  assumed of starts, of deaths or of users.

Deadlock is checked. A bootstrap for a second outlet is left out: runs are looked for by
scenario and seed whatever their outlet (`bootstrap_demo.py:65`), so it would publish
from the runs of the first outlet, or fail where a cycle has no rows of its accounts
(`HasRowsFor`).

### 6.3 Proofs

For any commands, scripts, outlets, users, numbers of migrations, of starts and of calls:
`TypeCorrect`, `AppliedOnceInOrderAlways` (each migration once, in order, however many apply at
once), `NothingOnModifiedAlways` (none on top of one that was modified since), all three not
run, and `NothingTwiceAlways`. `IInv` adds to these what a command knows where it stands
(`Sound`): what it read of the history is still recorded, with the checksums it compared;
everything before the file it is at is recorded (`Applying`); the run it is about to create is
not there (`Creating`). What a lookup found is no longer certain when the insert comes, so the
invariant says how it may have changed: a cycle that was not found and is there by now
(`Fresh`), an alert of the run (`Publishing`) and a case (`Opening`) are users'. This needs
`Exclusive`: one bootstrap at a time. `Fresh` also says which engines a transaction has looked
up, so that an alert is committed with a cycle of both; `Calling` says the same of users'
transactions, and `Matched` that every run has its place for cycles.

When all bootstraps are given one outlet (`OneOutlet`; compose and the operators take the default
of `--outlet-id`, `bootstrap_demo.py:340`), `OkMeansDeployedAlways` and `RerunsSucceedAlways`
hold as well: a migrate container that ends well left everything in place, and no start fails on
what an earlier one left. The invariant `Promises` says how far the container has come at each
of its steps (`Progress`): the subcommands before the present one, of the bootstrap the
scenarios before the present one, of that scenario the checks before the present one, are
there. What is there stays (`RowsStay`), so a promise once kept is kept until the end, whoever
else applies, publishes, analyses or opens a case meanwhile. `AtOneOutlet` is what makes the
run a restart finds one it can go on with. The hypothesis is needed: runs are looked up without
their outlet (§6.2).

Only model-checked: the liveness property `CommandsEnd`.

## 7. The engines over one account

### 7.1 Modules and correspondence

`AccountEngines.tla` holds the pure functions of `quality/engine.py`, `liquidity/engine.py`
and `anomaly/engine.py` as operators on sets of rows: conflicts, last trusted balance, status
and modifier of a feed; burn, actionability and confidence of a forecast; near-identical
clusters, velocity spikes with their baseline, reconciliation of balances, and the disposition
of a detection. Scores are integers in ten-thousandths, rounded as `quantize_score` rounds
them. Where the code takes the first or last of rows of equal time, which a query returns in
any order, the operator returns the *set* of possible results.

`AccountAnalysis.tla` puts them to work. An honest provider keeps books (`Trade`, `Close`) and
publishes each entry as events, and the fault may add a conflicting balance for the closing
moment; events are ingested in any order (`Accept`), rejected (`Reject`) or never arrive; other
feeds go on (`OtherFeed`), which is what makes this one stale, since all feeds of a run are
measured from one moment. In every state the engines may run, and the properties compare what
they say of the rows with what the books say.

Abstracted: amounts and parties to what the rules compare, the distance of the behavioural
detector to its possible outcomes, the projected time and all wording. Not modelled: the
learned calibration of the modifier, for which the repository holds no artifact, so that the
code takes the fixed one.

### 7.2 Run

`account`: up to three trades of three kinds (two within the tolerance of each other, one
hours later), a closing balance, one rejection, other feeds level or 250 minutes ahead;
565,494 states. Windows and tolerances are those of the code; how many transactions a pattern
takes is scaled down to the three there are. Deadlock is not checked: an account on which every
event has arrived is done.

| Property | Shows |
|---|---|
| `ClusterIsMaximal` | the sliding window finds a largest near-identical set, against the definition over all subsets |
| `BaselineExcludesSpike` | no transaction of a spike is also in a window it is measured against, inclusive bounds and all |
| `MismatchHasACause` | an honest feed is called inconsistent only because rows are missing, late, floored at zero or contradictory |
| `OneForecastUnlessConflicting` | `runner.py:410` "deterministic": ties in time change nothing unless the feed contradicts itself |
| `DoubtIsNeverConfident` | `docs/architecture.md:65`: missing or conflicting input is never a confident result |
| `TrustedIsTrue` | the balance called trusted is what the books say of its moment |
| `NothingDegradedRaises` | neither a rejection nor other feeds going on raise the modifier |

Three limits of the code show in the model. The feed that contradicts itself is still forecast
as actionable, at low confidence (`liquidity/engine.py:117`, `analytics/config.py:36`),
although `docs/phase-by-phase-implementation-prompts.md:1015` wants it withheld. *Accepting* the
conflicting balance may raise the modifier, from .25 to .2667, because one more sample counts
for more than the contradiction costs; this is why `NothingDegradedRaises` speaks of rejections
and other feeds only. And a delay fault changes when an event is observed, not when its
row arrives, so it makes no feed stale by itself.

### 7.3 Proofs

`AccountProofs.tla` proves all seven properties for any trades, times, amounts and
configurations the assumptions allow, any number of events and any order of their arrival:

| Theorem | Property | Hypothesis |
|---|---|---|
| `TrustedIsTrueAlways` | `TrustedIsTrue` | — |
| `BaselineExcludesSpikeAlways` | `BaselineExcludesSpike` | — |
| `ClusterIsMaximalAlways` | `ClusterIsMaximal` | — |
| `DoubtIsNeverConfidentAlways` | `DoubtIsNeverConfident` | — |
| `OneForecastUnlessConflictingAlways` | `OneForecastUnlessConflicting` | — |
| `NothingDegradedRaisesAlways` | `NothingDegradedRaises` | — |
| `MismatchExplained` | `MismatchHasACause` | `RuleTolerates` |

The state invariant is small: the books are entries in the order of time whose balance only a
trade changes (`BooksKept`), and what arrived or was rejected is what the books published
(`EventsPublished`). The work is in the engines. `ClusterIsMaximalAlways` shows both inclusions between the sliding
window and the definition over all subsets: a near-identical set lies in the window that
begins at its least amount. `DoubtIsNeverConfidentAlways` and `NothingDegradedRaisesAlways` are
about the arithmetic of scores: factors at most one, products that round monotonically, and a
penalty that only falls when a feed becomes stale. `OneForecastUnlessConflictingAlways` says that
without two balances of one moment the newest and oldest row are one each.

`MismatchExplained` follows the books. `ExpectedBalance` adds the transactions after the anchor
one by one (`BalanceOver`); with every trade between anchor and report there, none from later
and none cut short at zero, the sum after the n-th is the balance of the n-th entry
(`SumFollows`, `SumReconciles`; `FirstFailure` of `Extremes` is the induction), so the expected
balance is the reported one and passes the rule (`EqualsPass`). That equals pass needs a rule
that lets some difference pass, `RuleTolerates`: the comparison is `>=`, so a configuration
with amount and share both zero would call every balance inconsistent. The repository
configures 100.00 and 0.5 per cent (`migrations/009`).

## 8. The dashboard

### 8.1 Modules and correspondence

`Dashboard.tla` models the current-state views of migrations 005, 008 and 012 and the queries
of `ledger/reader.py` over the tables they read: runs with `started_at`, snapshots and
transactions, feed assessments, analytics cycles, projections. Calls create a run, add rows to
one, or analyse it, each once; a call is one transaction, cut at each reading of the clock and,
for an analysis, at each provider it looks at (`Look`), because its SELECTs see what others
commit in between. Any call may abort. The views are operators: `OfLatestRun`,
`LatestBalance`, `IsConflicted`, `LastTrusted`, `CurrentHealth`, `LatestProjection`,
`ShownBalance`, `ShownStatus`, and for the history `Pages` and `Marked`. The status an
analysis writes is `AccountEngines!FeedStatus`; the confidence modifier is left out.

### 8.2 Run

`dashboard`: two providers and the cash, a long run and a short one started while the long one
is fed, a late delivery that contradicts one feed, and three liquidity analyses, two of them of
one run by different callers; at most 2 transactions at a time; 557,092 states. Two runs are
what "latest" needs; the second is shorter so that the newest moment is of the older run.
Deadlock is not checked: the calls get done. `Carried` batches put the cash in the batches of
a provider, as the generator does.

| Property | Shows |
|---|---|
| `CurrentStateMovesForward` | what migration 012 is for: no card goes back to an older run, whatever is written to it later |
| `DoubtIsShown` | two balances for the newest moment make the card conflicting, and neither is shown |
| `AnalysedRunFillsPanels` | after the analysis of the latest run, health and projection are of that run |
| `ViewsAgreeWithEngine` | the view and the quality engine, each with its own rule, agree on rows both have seen |
| `HistoryCutsOnlyItsEnd` | the limit of a history hides a contradiction at its oldest moment only |

Proved, not run: `TypeOK`, `HealthIsNoOlder`.

Until the latest run is analysed, a card shows its balances beside the projection of an older
run, and the health its batches gave it; a batch that carries the cash assesses the feed of its
carrier. A feed that has transactions and no balance is shown with the balance of an older run.

### 8.3 Proofs

For any runs, providers, calls and batches: `TypeCorrect`, `CurrentStateMovesForwardAlways` and
`HealthIsNoOlderAlways`. `IInv` says that tables are finite (so that "latest" exists), that an
open analysis writes for a run that is there, that every balance, committed or not, has an
assessment of its feed for the same run beside it (`Assessed`), and that nothing is of a run
not yet created (`NotYetCreated`): a start is given once, so the order of runs is settled.

`DoubtIsShownAlways` needs no more than that, and `HistoryCutsOnlyItsEndAlways` only the types:
whatever the order of rows of equal time, a page that leaves a row out leaves out none of a
later moment than any it has. `AnalysedRunFillsPanelsAlways` and `ViewsAgreeWithEngineAlways` rest
on a second invariant, `PInv`: runs start at different readings of the clock (`StartsApart`) and
assessments are made at different ones (`MomentsApart`), so "latest" names one run and one
assessment; an assessment by an engine is what `FeedStatus` says of some subset of the rows that
are there (`SaidOfRows`), rows are only added, and as many as it counted are all of them; and a
liquidity cycle has looked at every reserve but those left to look at (`PanelsFilled`).

Everything the run checks is proved; there is no liveness property.

## 9. Not modelled

- **Row level security** (`migrations/006`): declarative policies beside the checks of
  `authz.py`, which are modelled; they bind roles the backend does not connect as.
- **Validation harness**: the command line wraps an evaluation in one transaction, so it leaves
  all rows or none; a status `failed` written in it is undone with the rest
  (`validation/harness.py:304`). What it calls is modelled in §4 and §5. Which run it reuses is
  listed as a hazard; its metrics are arithmetic.
- **`mark_read`**: overwrites one column, and nothing depends on it.
- **Analytics reader and the read endpoints**: queries of what others wrote.
- **Numerical models**: the learned calibration, embeddings and their retrieval.
- **API shell and frontend**: framework wiring and a client without state of its own.
- **PostgreSQL** beyond the guarantees the code relies on: READ COMMITTED snapshots per
  statement, row locks, unique constraints, deferred triggers, a failed statement aborting its
  transaction, one victim per circle of waits.
