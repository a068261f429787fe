----------------------------- MODULE Dashboard -----------------------------
(***************************************************************************)
(* What the dashboard and the balance history of one outlet show           *)
(* (migrations 008 and 012, services/ledger/reader.py) while runs are      *)
(* created, fed, reset and analysed.  Every call is one transaction: what  *)
(* it writes is visible when it commits.  Tables only grow.                *)
(*                                                                         *)
(* Timestamps taken from the clock (started_at, received_at, assessed_at)  *)
(* are its successive readings; the moments of a feed are the synthetic    *)
(* ones its rows carry.                                                    *)
(***************************************************************************)
EXTENDS Integers, Sequences, FiniteSets

CONSTANTS
  Runs,               \* simulation runs
  Order,              \* providers in the order of their codes, one account each
  Cash,               \* the shared cash, carried in batches of a provider
  Callers, Calls,     \* who calls, and the calls made, each once
  MaxOpen,            \* bound: transactions open at a time
  None                \* no balance: the row is a transaction

Providers == {Order[i] : i \in DOMAIN Order}
Reserves == Providers \cup {Cash}

\* The quality engine depends on none of the rules of the anomaly engine.
NoRule == [window |-> 0, tolerance |-> 0, minimum |-> 1, deviations |-> 0, windows |-> 1,
           amount |-> 0, permille |-> 0, history |-> 0]
Quality == INSTANCE AccountEngines WITH
  ClusterRule <- NoRule, VelocityRule <- NoRule, BalanceRule <- NoRule,
  BehavioralRule <- NoRule

Statuses == {"fresh", "stale", "missing", "conflicting"}
Engines == {"liquidity", "anomaly"}

\* A batch after normalization: how many of its events were accepted and
\* rejected, and the rows it adds to the ledger.
Batch == [provider : Providers, accepted : Nat, rejected : Nat,
          rows : SUBSET [reserve : Reserves, at : Nat, balance : Nat \cup {None}]]

\* Rows of a provider's batch are of its own account, or of the shared cash.
Carried(batch) == \A x \in batch.rows : x.reserve \in {batch.provider, Cash}

\* "add" is a delivery to a run that exists, or its reset.
CallType ==
  [kind : {"create", "add"} \cup Engines, run : Runs, by : Callers,
   batches : Seq({b \in Batch : Carried(b)})]

ASSUME CallsAssumption == Calls \subseteq CallType
ASSUME FiniteBatches ==
  \A c \in Calls : \A i \in DOMAIN c.batches : IsFiniteSet(c.batches[i].rows)
ASSUME OrderAssumption == Order \in Seq(Providers)
ASSUME FreshNames == None \notin Nat /\ Cash \notin Providers
ASSUME RunsCreatedOnce ==
  \A c, d \in Calls : c.kind = "create" /\ d.kind = "create" /\ c.run = d.run => c = d

\* transactions and the two tables of balance snapshots.
Row == [run : Runs, reserve : Reserves, at : Nat, balance : Nat \cup {None}, received : Nat]
\* Tables data_quality_assessments, analytics_runs and liquidity_projections.
Assessment == [run : Runs, provider : Providers, status : Statuses, assessed : Nat,
               samples : Nat, by : {"batch"} \cup Engines]
Cycle == [run : Runs, engine : Engines, start : Nat, end : Nat]
Projection == [run : Runs, reserve : Reserves, start : Nat, asOf : Nat]

VARIABLES
  clock,        \* the next reading of the clock
  started,      \* table simulation_runs: started_at, 0 when there is no row
  rows, assessments, cycles, projections,
  state,        \* per call: "idle", "open" or "done"
  todo,         \* per analysis: providers still to look at
  work          \* per call: what it has written and not committed

tables == <<started, rows, assessments, cycles, projections>>
vars == <<clock, tables, state, todo, work>>

Work == [start : Nat, rows : SUBSET Row, assessments : SUBSET Assessment,
         cycles : SUBSET Cycle, projections : SUBSET Projection]

NoWork == [start |-> 0, rows |-> {}, assessments |-> {}, cycles |-> {}, projections |-> {}]

TypeOK ==
  /\ clock \in Nat \ {0}
  /\ started \in [Runs -> Nat]
  /\ rows \subseteq Row
  /\ assessments \subseteq Assessment
  /\ cycles \subseteq Cycle
  /\ projections \subseteq Projection
  /\ state \in [Calls -> {"idle", "open", "done"}]
  /\ todo \in [Calls -> Seq(Providers)]
  /\ work \in [Calls -> Work]

Init ==
  /\ clock = 1
  /\ started = [run \in Runs |-> 0]
  /\ rows = {} /\ assessments = {} /\ cycles = {} /\ projections = {}
  /\ state = [c \in Calls |-> "idle"]
  /\ todo = [c \in Calls |-> <<>>]
  /\ work = [c \in Calls |-> NoWork]

\* Bound: the call may open its transaction.
MayOpen(c) ==
  state[c] = "idle" /\ Cardinality({d \in Calls : state[d] = "open"}) < MaxOpen

Exists(run) == started[run] # 0

-----------------------------------------------------------------------------
(* Ingestion. *)

\* The assessment a batch gets from the count of its rejected events.
BatchStatus(batch) ==
  IF batch.rejected = 0 THEN "fresh"
  ELSE IF batch.accepted = 0 THEN "missing"
  ELSE "stale"

\* What the batches leave behind in a run, the clock being read once per batch
\* from the reading `from` on.
Ingested(run, batches, from) ==
  [rows |->
     UNION {{[run |-> run, reserve |-> x.reserve, at |-> x.at, balance |-> x.balance,
              received |-> from + i] : x \in batches[i].rows} : i \in DOMAIN batches},
   assessments |->
     {[run |-> run, provider |-> batches[i].provider, status |-> BatchStatus(batches[i]),
       assessed |-> from + i, by |-> "batch",
       samples |-> batches[i].accepted + batches[i].rejected] :
        i \in DOMAIN batches}]

Ingest(c, start) ==
  LET in == Ingested(c.run, c.batches, clock) IN
  /\ state' = [state EXCEPT ![c] = "open"]
  /\ work' = [work EXCEPT ![c] = [NoWork EXCEPT !.start = start, !.rows = in.rows,
                                                !.assessments = in.assessments]]
  /\ clock' = clock + Len(c.batches) + 1
  /\ UNCHANGED <<tables, todo>>

\* create_run reads the clock for started_at before it opens its transaction.
Create(c) ==
  /\ c.kind = "create" /\ MayOpen(c)
  /\ Ingest(c, clock)

\* A batch posted for a run, or all batches of a reset, which leaves started_at
\* as it is.
Add(c) ==
  /\ c.kind = "add" /\ MayOpen(c) /\ Exists(c.run)
  /\ Ingest(c, 0)

-----------------------------------------------------------------------------
(* Analytics. *)

RowsOf(run, reserve) == {x \in rows : x.run = run /\ x.reserve = reserve}
Snapshots(table) == {x \in table : x.balance # None}
Transactions(table) == {x \in table : x.balance = None}

\* The end of the input window: the newest moment of any row of the run, if it
\* has any.
WindowEnd(run) ==
  LET times == {x.at : x \in {y \in rows : y.run = run}}
      newest == {t \in times : \A u \in times : u <= t}
  IN IF newest = {} THEN 0 ELSE CHOOSE t \in newest : TRUE

\* The reserves the engine of a call forecasts.
Forecast(c) == IF c.kind = "liquidity" THEN Reserves ELSE {}

Analysed(run, engine) == \E y \in cycles : y.run = run /\ y.engine = engine

\* The engine has no cycle of the run yet: it opens one, and the liquidity
\* engine forecasts the cash.
StartCycle(c) ==
  LET end == WindowEnd(c.run) IN
  /\ c.kind \in Engines /\ MayOpen(c) /\ Exists(c.run)
  /\ ~Analysed(c.run, c.kind)
  /\ state' = [state EXCEPT ![c] = "open"]
  /\ todo' = [todo EXCEPT ![c] = Order]
  /\ work' = [work EXCEPT ![c] =
       [NoWork EXCEPT
          !.cycles = {[run |-> c.run, engine |-> c.kind, start |-> clock, end |-> end]},
          !.projections =
             {[run |-> c.run, reserve |-> r, start |-> clock, asOf |-> end] :
                r \in {Cash} \cap Forecast(c)}]]
  /\ clock' = clock + 1
  /\ UNCHANGED tables

\* The engine has a cycle of the run: it computes the answer and writes nothing.
Replay(c) ==
  /\ c.kind \in Engines /\ MayOpen(c) /\ Exists(c.run)
  /\ Analysed(c.run, c.kind)
  /\ state' = [state EXCEPT ![c] = "done"]
  /\ UNCHANGED <<clock, tables, todo, work>>

\* The engine reads the rows the next provider has by now and assesses the feed as of
\* the end of the window it read first; the liquidity engine forecasts the
\* reserve.
Look(c) ==
  LET p == Head(todo[c])
      seen == RowsOf(c.run, p) IN
  /\ state[c] = "open" /\ todo[c] # <<>>
  /\ \E y \in work[c].cycles :
       work' = [work EXCEPT
         ![c].assessments = @ \cup
            {[run |-> c.run, provider |-> p, assessed |-> clock, by |-> c.kind,
              status |-> Quality!FeedStatus(Snapshots(seen), Transactions(seen), y.end),
              samples |-> Cardinality(seen)]},
         ![c].projections = @ \cup
            {[run |-> c.run, reserve |-> r, start |-> y.start, asOf |-> y.end] :
               r \in {p} \cap Forecast(c)}]
  /\ todo' = [todo EXCEPT ![c] = Tail(@)]
  /\ clock' = clock + 1
  /\ UNCHANGED <<tables, state>>

-----------------------------------------------------------------------------
(* The end of a transaction. *)

Commit(c) ==
  /\ state[c] = "open" /\ todo[c] = <<>>
  /\ started' = IF c.kind = "create" THEN [started EXCEPT ![c.run] = work[c].start]
                ELSE started
  /\ rows' = rows \cup work[c].rows
  /\ assessments' = assessments \cup work[c].assessments
  /\ cycles' = cycles \cup work[c].cycles
  /\ projections' = projections \cup work[c].projections
  /\ state' = [state EXCEPT ![c] = "done"]
  /\ work' = [work EXCEPT ![c] = NoWork]
  /\ UNCHANGED <<clock, todo>>

\* An exception or a lost connection: nothing of the call remains.
Abort(c) ==
  /\ state[c] = "open"
  /\ state' = [state EXCEPT ![c] = "done"]
  /\ todo' = [todo EXCEPT ![c] = <<>>]
  /\ work' = [work EXCEPT ![c] = NoWork]
  /\ UNCHANGED <<clock, tables>>

Next ==
  \E c \in Calls :
    \/ Create(c) \/ Add(c) \/ StartCycle(c) \/ Replay(c)
    \/ Look(c) \/ Commit(c) \/ Abort(c)

Spec == Init /\ [][Next]_vars

-----------------------------------------------------------------------------
(* The views. *)

\* The entries of the run started last among those that have any.
OfLatestRun(table) == {x \in table : \A y \in table : started[y.run] <= started[x.run]}

SnapshotsOf(reserve) == {s \in rows : s.reserve = reserve /\ s.balance # None}

\* Mutant: the newest moment of any run, as before migration 012.
SnapshotsOfLastMoment(reserve) ==
  {s \in SnapshotsOf(reserve) : \A u \in SnapshotsOf(reserve) : u.at <= s.at}

LatestSnapshots(reserve) == OfLatestRun(SnapshotsOf(reserve))

\* v_latest_cash_balance, and the row a provider's balance comes from.
LatestBalance(reserve) ==
  LET all == LatestSnapshots(reserve) IN
  {s \in all : \A u \in all : u.at < s.at \/ (u.at = s.at /\ u.received <= s.received)}

\* Another row of the table gives the moment of s another balance.
Contradicted(s, table) == \E u \in table : u.at = s.at /\ u.balance # s.balance

\* Mutant: a moment reported twice is in conflict.
ReportedTwice(p) ==
  LET all == LatestSnapshots(p) IN
  \E s \in LatestBalance(p), u \in all : u # s /\ u.at = s.at

IsConflicted(p) == \E s \in LatestBalance(p) : Contradicted(s, LatestSnapshots(p))

LastTrusted(p) ==
  LET trusted == {s \in LatestSnapshots(p) : ~Contradicted(s, LatestSnapshots(p))} IN
  {s \in trusted : \A u \in trusted : u.at <= s.at}

\* v_current_feed_health.
CurrentHealth(p) ==
  LET latest == OfLatestRun({a \in assessments : a.provider = p}) IN
  {a \in latest : \A b \in latest : b.assessed <= a.assessed}

\* Mutant: the projection of the window that ends last.
ProjectionOfLastWindow(reserve) ==
  LET all == {x \in projections : x.reserve = reserve} IN
  {x \in all : \A y \in all : y.asOf <= x.asOf}

\* v_latest_liquidity_projections.
LatestProjection(reserve) ==
  LET latest == OfLatestRun({x \in projections : x.reserve = reserve}) IN
  {x \in latest : \A y \in latest : y.start <= x.start}

\* v_outlet_dashboard and get_dashboard: the row a card takes its balance from
\* (none stands for a balance of 0) and the status it shows.
ShownBalance(p) == IF IsConflicted(p) THEN LastTrusted(p) ELSE LatestBalance(p)

\* Mutant: the status of the feed, as before migration 008.
StatusOfFeed(p) ==
  IF CurrentHealth(p) = {} THEN "fresh" ELSE (CHOOSE a \in CurrentHealth(p) : TRUE).status

ShownStatus(p) ==
  IF IsConflicted(p) THEN "conflicting"
  ELSE IF CurrentHealth(p) = {} THEN "fresh"
  ELSE (CHOOSE a \in CurrentHealth(p) : TRUE).status

\* balance_history: limit rows of all runs, the newest moment first.
Later(u, s) == u.at > s.at \/ (u.at = s.at /\ u.received > s.received)

\* Mutant: the rows received last come first.
ReceivedLast(p) ==
  LET all == SnapshotsOf(p) IN
  {page \in SUBSET all : \A s \in page, u \in all \ page : u.received <= s.received}

\* What a history returns: as many of the latest rows as the limit says.
Pages(p) ==
  LET all == SnapshotsOf(p) IN
  {page \in SUBSET all : \A s \in page, u \in all \ page : ~Later(u, s)}

\* The rows of a page it marks as conflicting.
Marked(page) == {s \in page : Contradicted(s, page)}

-----------------------------------------------------------------------------
(* Properties *)

\* What is shown of a reserve, its feed or its projection is never of a run
\* started before the run it was of, and within a run no balance is of an
\* earlier moment than the one it takes the place of, whatever is delivered to
\* older runs and whenever they are analysed.
CurrentStateMovesForward ==
  [][tables' # tables =>
       /\ \A r \in Reserves : \A s \in LatestBalance(r), u \in LatestBalance(r)' :
            /\ started[s.run] <= started'[u.run]
            /\ s.run = u.run => s.at <= u.at
       /\ \A p \in Providers : \A a \in CurrentHealth(p), b \in CurrentHealth(p)' :
            started[a.run] <= started'[b.run]
       /\ \A r \in Reserves : \A x \in LatestProjection(r), y \in LatestProjection(r)' :
            started[x.run] <= started'[y.run]]_vars

\* Two balances reported for the newest moment of a feed make its card say
\* "conflicting", and no card ever takes one of two such balances.
DoubtIsShown ==
  \A p \in Providers :
    LET all == LatestSnapshots(p) IN
    /\ \A s, u \in all :
         s.at = u.at /\ s.balance # u.balance /\ (\A x \in all : x.at <= s.at)
           => ShownStatus(p) = "conflicting"
    /\ \A s \in ShownBalance(p), u \in all : u.at = s.at => u.balance = s.balance

\* The balance of a run is never shown beside the feed health of a run started
\* before it: every batch that brings a balance assesses its feed.
HealthIsNoOlder ==
  \A p \in Providers : \A s \in LatestBalance(p) :
    /\ \E a \in assessments : a.provider = p
    /\ \A a \in CurrentHealth(p) : started[s.run] <= started[a.run]

\* Once the run started last has its liquidity cycle, every card shows the feed
\* health and the projection of that run.  Its balance is of an older run only
\* if the feed has none in this one; the engine then called it missing, unless
\* it saw transactions.
AnalysedRunFillsPanels ==
  \A run \in Runs :
    /\ Exists(run) /\ (\A o \in Runs : started[o] <= started[run])
    /\ Analysed(run, "liquidity")
    => /\ \A r \in Reserves : \E x \in LatestProjection(r) : x.run = run
       /\ \A p \in Providers : \A a \in CurrentHealth(p) :
            /\ a.run = run
            /\ (\A s \in LatestBalance(p) : s.run # run) /\ a.by \in Engines
                 => a.status = "missing" \/ Transactions(RowsOf(run, p)) # {}

\* The views and the quality engine tell conflicts apart independently of each
\* other.  When the assessment current for a card is an engine's that saw every
\* row the run has of the feed, the card shows that status: the view finds a
\* conflict only if the engine called the feed conflicting, and a feed that has
\* a balance is not called missing.
ViewsAgreeWithEngine ==
  \A p \in Providers : \A a \in CurrentHealth(p), s \in LatestBalance(p) :
    /\ a.by \in Engines /\ a.run = s.run
    /\ a.samples = Cardinality(RowsOf(a.run, p))
    => /\ ShownStatus(p) = a.status
       /\ a.status # "missing"

\* However many rows are asked for, a balance of the history that another row
\* contradicts is marked, except at the earliest moment of the page, where the
\* limit may leave the other row out.
HistoryCutsOnlyItsEnd ==
  \A p \in Providers :
    LET all == SnapshotsOf(p) IN
    \A page \in Pages(p) : \A s \in page \ Marked(page), u \in page :
      Contradicted(s, all) => s.at <= u.at
=============================================================================
