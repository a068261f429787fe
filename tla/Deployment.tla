----------------------------- MODULE Deployment -----------------------------
(***************************************************************************)
(* Bringing the platform up (docker-compose.yml, migrations/               *)
(* run_migrations.py, scripts/seed_rag_similar_cases.py, scripts/          *)
(* bootstrap_demo.py).  A command chains subcommands with &&; the migrate  *)
(* container chains them all:                                              *)
(*                                                                         *)
(*   apply                seed               bootstrap                     *)
(*   table -> read ->     seed -> corpus     per scenario: run -> create   *)
(*     apply, file          (a subprocess)     -> alerts -> publish, or    *)
(*     by file                                 -> liquidity, anomaly;      *)
(*                                           then case -> alert -> open    *)
(*                                                                         *)
(* A step is one database transaction, or part of one: the transactions    *)
(* that run analytics, publish or open a case look rows up first and       *)
(* insert later, at READ COMMITTED, while users of the running backend do  *)
(* the same.  What a transaction has inserted is in the tables with the    *)
(* step that commits it.  A command may die between any two steps and be   *)
(* started again from the top.                                             *)
(***************************************************************************)
EXTENDS Integers, Sequences, FiniteSets

CONSTANTS
  Commands,    \* command lines: the migrate container, an operator's shell
  Script,      \* per command, the subcommands it chains
  OutletOf,    \* per command, the --outlet-id its bootstrap is given
  Outlets,
  Users,       \* sessions of the running backend
  LastVersion, \* the migration files are numbered 1 to LastVersion
  NeededBy,    \* per subcommand, the last migration whose tables it uses
  Flagging,    \* scenarios in whose data the anomaly engine finds something
  Alerting,    \* scenarios from whose data something is published
  MaxStarts,   \* bound: per command, how often it is started
  MaxCalls,    \* bound: per user, how often
  None         \* no table, no row, no alert, no call

Versions == 1..LastVersion
Texts == {"original", "edited"}
Subcommands == {"apply", "status", "seed", "bootstrap"}
Engines == {"liquidity", "anomaly"}

ASSUME LastVersionAssumption == LastVersion \in Nat \ {0}
ASSUME ScriptAssumption == Script \in [Commands -> Seq(Subcommands) \ {<<>>}]
ASSUME OutletAssumption == OutletOf \in [Commands -> Outlets]
ASSUME NeededAssumption == NeededBy \in [{"seed", "corpus", "bootstrap"} -> 0..LastVersion]
ASSUME BoundAssumption == MaxStarts \in [Commands -> Nat] /\ MaxCalls \in [Users -> Nat]

\* BOOTSTRAP_SCENARIOS: NORMAL, A, B and C.
Scenarios ==
  <<[liquidity |-> TRUE, anomaly |-> FALSE, publish |-> FALSE],
    [liquidity |-> TRUE, anomaly |-> FALSE, publish |-> TRUE],
    [liquidity |-> TRUE, anomaly |-> TRUE,  publish |-> TRUE],
    [liquidity |-> TRUE, anomaly |-> TRUE,  publish |-> FALSE]>>

ASSUME YieldAssumption == Flagging \subseteq 1..4 /\ Alerting \subseteq 1..4

\* A row of schema_migrations; the checksum stands for the text it is taken of.
Migration == [version : Versions, checksum : Texts]
RunRow == [scenario : 1..4, outlet : Outlets]
\* Every row says who inserted it.
AnalyticsRow == [outlet : Outlets, by : Commands \cup Users]
\* Alerts on the demo provider, told apart by the run they were published from.
AlertRow == [run : Nat \ {0}, outlet : Outlets, by : Commands \cup Users]
CaseRow == [alert : AlertRow, by : Commands \cup Users]

\* A user's transaction that has looked something up and has not inserted yet.
UserCall == [step : {"flags", "dedup", "insert", "commit", "opening"}, run : Nat,
             fresh : SUBSET Engines, alert : AlertRow \cup {None}]

ASSUME UsersAssumption == Users \cap Commands = {}
ASSUME NoneAssumption ==
  None \notin Seq(Migration) /\ None \notin AnalyticsRow /\ None \notin AlertRow /\ None \notin UserCall

VARIABLES
  files,      \* the text of each migration file
  history,    \* table schema_migrations, in the order of application
  reference,  \* are the rows of reference_seed.sql there?
  corpus,     \* are the nine resolved cases of the similar-case corpus there?
  runs,       \* table simulation_runs, the bootstrapped ones, by started_at
  analytics,  \* table analytics_runs with its projections and flags: per run and
              \*   engine its cycles, in the order of commit
  alerts,     \* table alerts, without those of the corpus
  cases,      \* table cases, without those of the corpus
  pc, todo,   \* per command: next step, subcommands still to run
  read,       \* the history the command read
  at,         \* file or scenario under way
  run,        \* simulation run of the scenario under way
  alert,      \* alert the demo case is to be opened on
  fresh,      \* engines whose cycle the transaction under way adds
  exit,       \* how the command ended last
  starts,     \* how often the command was started
  call,       \* per user, the transaction under way
  calls       \* how often the user called

tables == <<history, reference, corpus, runs, analytics, alerts, cases>>
local == <<pc, todo, read, at, run, alert, fresh, exit>>
vars == <<files, tables, local, starts, call, calls>>

Steps == {"table", "read", "apply", "seed", "corpus", "run", "create",
          "alerts", "publish", "flags", "dedup", "insert", "published",
          "liquidity", "project", "projected", "anomaly", "detect", "detected",
          "case", "alert", "open", "opening"}
Exits == {"none", "ok", "died", "modified", "conflict", "no table", "no row", "analytics", "refused"}

TypeOK ==
  /\ files \in [Versions -> Texts]
  /\ history \in Seq(Migration) \cup {None}
  /\ reference \in BOOLEAN /\ corpus \in BOOLEAN
  /\ runs \in Seq(RunRow)
  /\ analytics \in Seq([Engines -> Seq(AnalyticsRow)])
  /\ alerts \subseteq AlertRow
  /\ cases \subseteq CaseRow
  /\ pc \in [Commands -> Steps \cup {"idle"}]
  /\ todo \in [Commands -> Seq(Subcommands)]
  /\ read \in [Commands -> SUBSET Migration]
  /\ at \in [Commands -> Nat]
  /\ run \in [Commands -> Nat]
  /\ alert \in [Commands -> AlertRow \cup {None}]
  /\ fresh \in [Commands -> SUBSET Engines]
  /\ exit \in [Commands -> Exits]
  /\ starts \in [Commands -> Nat]
  /\ call \in [Users -> UserCall \cup {None}]
  /\ calls \in [Users -> Nat]

NoRows ==
  /\ history = None
  /\ reference = FALSE /\ corpus = FALSE
  /\ runs = <<>>
  /\ analytics = <<>> /\ alerts = {} /\ cases = {}

Init ==
  /\ files = [v \in Versions |-> "original"]
  /\ NoRows
  /\ pc = [c \in Commands |-> "idle"]
  /\ todo = [c \in Commands |-> <<>>]
  /\ read = [c \in Commands |-> {}]
  /\ at = [c \in Commands |-> 1]
  /\ run = [c \in Commands |-> 0]
  /\ alert = [c \in Commands |-> None]
  /\ fresh = [c \in Commands |-> {}]
  /\ exit = [c \in Commands |-> "none"]
  /\ starts = [c \in Commands |-> 0]
  /\ call = [u \in Users |-> None]
  /\ calls = [u \in Users |-> 0]

-----------------------------------------------------------------------------
(* How a command gets from step to step. *)

InFlight(c) == pc[c] # "idle"
Bootstraps(c) == \E i \in 1..Len(Script[c]) : Script[c][i] = "bootstrap"

FirstStep(subcommand) ==
  CASE subcommand \in {"apply", "status"} -> "table"
    [] subcommand = "seed" -> "seed"
    [] subcommand = "bootstrap" -> "run"

Goto(c, step) ==
  /\ pc' = [pc EXCEPT ![c] = step]
  /\ UNCHANGED <<todo, exit>>

\* A process ends, and what it knew is gone.
Forget(c) ==
  /\ read' = [read EXCEPT ![c] = {}]
  /\ at' = [at EXCEPT ![c] = 1]
  /\ run' = [run EXCEPT ![c] = 0]
  /\ alert' = [alert EXCEPT ![c] = None]
  /\ fresh' = [fresh EXCEPT ![c] = {}]

Exit(c, how) ==
  /\ pc' = [pc EXCEPT ![c] = "idle"]
  /\ todo' = [todo EXCEPT ![c] = <<>>]
  /\ exit' = [exit EXCEPT ![c] = how]
  /\ Forget(c)

\* The subcommand under way, the first of todo, is through; && starts the next,
\* a process of its own.
NextSubcommand(c) ==
  IF Len(todo[c]) = 1 THEN Exit(c, "ok")
  ELSE /\ todo' = [todo EXCEPT ![c] = Tail(@)]
       /\ pc' = [pc EXCEPT ![c] = FirstStep(todo[c][2])]
       /\ Forget(c)
       /\ UNCHANGED exit

\* A statement that meets a table or a row that is not there fails, and the
\* exception ends the process.
Fail(c, how) == Exit(c, how) /\ UNCHANGED tables

HasTables(needed) == history # None /\ needed <= Len(history)

\* Compose runs one migrate container at a time, and the operator who calls the
\* bootstrap by hand waits for it.
MayStart(c) ==
  /\ ~InFlight(c)
  /\ Bootstraps(c) => \A d \in Commands : InFlight(d) => ~Bootstraps(d)

Start(c) ==
  /\ starts[c] < MaxStarts[c]
  /\ MayStart(c)
  /\ starts' = [starts EXCEPT ![c] = @ + 1]
  /\ todo' = [todo EXCEPT ![c] = Script[c]]
  /\ pc' = [pc EXCEPT ![c] = FirstStep(Script[c][1])]
  /\ exit' = [exit EXCEPT ![c] = "none"]
  /\ UNCHANGED <<files, tables, read, at, run, alert, fresh, call, calls>>

\* The process, its container or its connection dies.
Die(c) ==
  /\ InFlight(c)
  /\ Exit(c, "died")
  /\ UNCHANGED <<files, tables, starts, call, calls>>

-----------------------------------------------------------------------------
(* apply and status *)

EnsureHistoryTable(c) ==
  /\ pc[c] = "table"
  /\ history' = IF history = None THEN <<>> ELSE history
  /\ Goto(c, "read")
  /\ UNCHANGED <<reference, corpus, runs, analytics, alerts, cases, read, at, run, alert, fresh>>

Recorded == {history[i] : i \in 1..Len(history)}

\* applied_map; status prints it and is through.
ReadHistory(c) ==
  /\ pc[c] = "read"
  /\ IF todo[c][1] = "apply"
     THEN /\ read' = [read EXCEPT ![c] = Recorded]
          /\ Goto(c, "apply")
          /\ UNCHANGED <<at, run, alert, fresh>>
     ELSE NextSubcommand(c)
  /\ UNCHANGED tables

\* What the file under way says now.
File(c) == [version |-> at[c], checksum |-> files[at[c]]]
ReadAsApplied(c) == \E m \in read[c] : m.version = at[c]

SkipApplied(c) ==
  /\ pc[c] = "apply" /\ at[c] \in Versions
  /\ File(c) \in read[c]
  /\ at' = [at EXCEPT ![c] = @ + 1]
  /\ Goto(c, "apply")
  /\ UNCHANGED <<tables, read, run, alert, fresh>>

RefuseModified(c) ==
  /\ pc[c] = "apply" /\ at[c] \in Versions
  /\ ReadAsApplied(c) /\ File(c) \notin read[c]
  /\ Fail(c, "modified")

\* The CREATE of a table that is there, or the primary key of the history.
Taken(version) == \E m \in Recorded : m.version = version

\* The SQL of the file and its history row, in one transaction.
ApplyMigration(c) ==
  /\ pc[c] = "apply" /\ at[c] \in Versions
  /\ ~ReadAsApplied(c) /\ ~Taken(at[c])
  /\ history' = Append(history, File(c))
  /\ at' = [at EXCEPT ![c] = @ + 1]
  /\ Goto(c, "apply")
  /\ UNCHANGED <<reference, corpus, runs, analytics, alerts, cases, read, run, alert, fresh>>

\* Another command applied the file since this one read the history.
RefuseTaken(c) ==
  /\ pc[c] = "apply" /\ at[c] \in Versions
  /\ ~ReadAsApplied(c) /\ Taken(at[c])
  /\ Fail(c, "conflict")

AllApplied(c) ==
  /\ pc[c] = "apply" /\ at[c] \notin Versions
  /\ NextSubcommand(c)
  /\ UNCHANGED tables

-----------------------------------------------------------------------------
(* seed *)

\* reference_seed.sql: fixed identifiers, ON CONFLICT DO NOTHING.
SeedReference(c) ==
  /\ pc[c] = "seed"
  /\ IF HasTables(NeededBy["seed"])
     THEN /\ reference' = TRUE
          /\ Goto(c, "corpus")
          /\ UNCHANGED <<history, corpus, runs, analytics, alerts, cases, read, at, run, alert, fresh>>
     ELSE Fail(c, "no table")

\* seed_rag_similar_cases.py: the run, its analytics and nine alerts with their
\* cases, under fixed identifiers, in one transaction.
SeedCorpus(c) ==
  /\ pc[c] = "corpus"
  /\ IF ~HasTables(NeededBy["corpus"]) THEN Fail(c, "no table")
     ELSE IF ~reference THEN Fail(c, "no row")
     ELSE /\ corpus' = TRUE
          /\ NextSubcommand(c)
          /\ UNCHANGED <<history, reference, runs, analytics, alerts, cases>>

-----------------------------------------------------------------------------
(* bootstrap, one scenario after the other *)

FirstCheck(scenario) ==
  IF scenario.publish THEN "alerts"
  ELSE IF scenario.liquidity THEN "liquidity"
  ELSE "anomaly"

Scenario(c) == Scenarios[at[c]]

NextScenario(c) ==
  /\ at' = [at EXCEPT ![c] = @ + 1]
  /\ Goto(c, IF at[c] < Len(Scenarios) THEN "run" ELSE "case")

\* _existing_run_id: the runs of this scenario and seed, at whatever outlet.
RunsOfScenario(c) == {n \in 1..Len(runs) : runs[n].scenario = at[c]}

LookUpRun(c) ==
  /\ pc[c] = "run"
  /\ IF ~HasTables(NeededBy["bootstrap"]) THEN Fail(c, "no table")
     ELSE IF RunsOfScenario(c) = {}
     THEN Goto(c, "create") /\ UNCHANGED <<tables, read, at, run, alert, fresh>>
     ELSE /\ \E n \in RunsOfScenario(c) :
               /\ \A m \in RunsOfScenario(c) : n <= m
               /\ run' = [run EXCEPT ![c] = n]
          /\ Goto(c, FirstCheck(Scenario(c)))
          /\ UNCHANGED <<tables, read, at, alert, fresh>>

\* create_run commits the run with everything generated for it, or nothing.
CreateRun(c) ==
  /\ pc[c] = "create"
  /\ IF ~reference THEN Fail(c, "no row")
     ELSE /\ runs' = Append(runs, [scenario |-> at[c], outlet |-> OutletOf[c]])
          /\ analytics' = Append(analytics, [e \in Engines |-> <<>>])
          /\ run' = [run EXCEPT ![c] = Len(runs) + 1]
          /\ Goto(c, FirstCheck(Scenario(c)))
          /\ UNCHANGED <<history, reference, corpus, alerts, cases, read, at, alert, fresh>>

Cycles(n, engine) == {analytics[n][engine][i] : i \in 1..Len(analytics[n][engine])}
HasCycleAt(n, engine, outlet) == \E row \in Cycles(n, engine) : row.outlet = outlet

\* Mutant: the cycles that are there are not looked for.
FoundNothing(n, engine) == {None}

\* _existing_analytics_run: a cycle that is there.  They are ordered by the time
\* they started at, which need not be the order they were committed in.
Found(n, engine) == IF Cycles(n, engine) = {} THEN {None} ELSE Cycles(n, engine)

\* Mutant: a cycle that is there is an error.
HasRowsOnce(row, outlet) == row = None

\* An engine that found a cycle for the run adds none, and looks the rows of that
\* cycle up by the accounts of the outlet it is asked for.
HasRowsFor(row, outlet) == row # None => row.outlet = outlet

\* The table with one more cycle of the run, by each of the engines.
WithCycles(engines, n, row) ==
  [analytics EXCEPT ![n] =
     [e \in Engines |-> IF e \in engines THEN Append(@[e], row) ELSE @[e]]]

Cycle(c) == [outlet |-> OutletOf[c], by |-> c]

\* uq_alerts_active_dedup: one active alert per key, and the key names the run.
AlertThere(n, outlet) == \E a \in alerts : a.run = n /\ a.outlet = outlet

\* The first read of an engine's part in a transaction.  No lock and no unique
\* index keeps another transaction from adding the cycle that is not found.
LookUpCycle(c, engine, wanted, step) ==
  /\ \E row \in Found(run[c], engine) :
       IF wanted => HasRowsFor(row, OutletOf[c])
       THEN /\ fresh' = [fresh EXCEPT ![c] = IF row = None THEN @ \cup {engine} ELSE @]
            /\ Goto(c, step)
            /\ UNCHANGED <<read, at, run, alert>>
       ELSE Exit(c, "analytics")
  /\ UNCHANGED tables

CheckAlerts(c) ==
  /\ pc[c] = "alerts"
  /\ IF \E a \in alerts : a.run = run[c]
     THEN NextScenario(c)
     ELSE Goto(c, "publish") /\ UNCHANGED at
  /\ UNCHANGED <<tables, read, run, alert, fresh>>

\* publish_from_run, one transaction: both engines and what they find worth an
\* alert.
PublishLiquidity(c) ==
  /\ pc[c] = "publish"
  /\ LookUpCycle(c, "liquidity", TRUE, "flags")

PublishAnomalies(c) ==
  /\ pc[c] = "flags"
  /\ LookUpCycle(c, "anomaly", at[c] \in Flagging,
                 IF at[c] \in Alerting THEN "dedup" ELSE "published")

\* _existing_active_alert
LookUpAlert(c) ==
  /\ pc[c] = "dedup"
  /\ Goto(c, IF AlertThere(run[c], OutletOf[c]) THEN "published" ELSE "insert")
  /\ UNCHANGED <<tables, read, at, run, alert, fresh>>

\* The insert meets an alert that was committed since the lookup, and the
\* exception ends the process, or everything is committed.  While another
\* transaction has inserted the key the insert waits, and then ends either way.
InsertAlert(c) ==
  /\ pc[c] = "insert"
  /\ IF AlertThere(run[c], OutletOf[c]) THEN Fail(c, "refused")
     ELSE /\ analytics' = WithCycles(fresh[c], run[c], Cycle(c))
          /\ alerts' = alerts \cup {[run |-> run[c], outlet |-> OutletOf[c], by |-> c]}
          /\ fresh' = [fresh EXCEPT ![c] = {}]
          /\ NextScenario(c)
          /\ UNCHANGED <<history, reference, corpus, runs, cases, read, run, alert>>

AfterLiquidity(c) ==
  IF Scenario(c).anomaly THEN Goto(c, "anomaly") /\ UNCHANGED at ELSE NextScenario(c)

\* Mutant: publication is tried until there are alerts.
CommitAndCheck(c) ==
  /\ pc[c] \in {"published", "projected", "detected"}
  /\ analytics' = WithCycles(fresh[c], run[c], Cycle(c))
  /\ fresh' = [fresh EXCEPT ![c] = {}]
  /\ IF pc[c] = "published" THEN Goto(c, "alerts") /\ UNCHANGED at
     ELSE IF pc[c] = "projected" THEN AfterLiquidity(c) ELSE NextScenario(c)
  /\ UNCHANGED <<history, reference, corpus, runs, alerts, cases, read, run, alert>>

CommitCycles(c) ==
  /\ pc[c] \in {"published", "projected", "detected"}
  /\ analytics' = WithCycles(fresh[c], run[c], Cycle(c))
  /\ fresh' = [fresh EXCEPT ![c] = {}]
  /\ IF pc[c] = "projected" THEN AfterLiquidity(c) ELSE NextScenario(c)
  /\ UNCHANGED <<history, reference, corpus, runs, alerts, cases, read, run, alert>>

\* A liquidity cycle always leaves projections, for its own outlet.
CheckLiquidity(c) ==
  /\ pc[c] = "liquidity"
  /\ IF HasCycleAt(run[c], "liquidity", OutletOf[c])
     THEN AfterLiquidity(c)
     ELSE Goto(c, "project") /\ UNCHANGED at
  /\ UNCHANGED <<tables, read, run, alert, fresh>>

RunLiquidity(c) ==
  /\ pc[c] = "project"
  /\ LookUpCycle(c, "liquidity", TRUE, "projected")

\* The check asks for flags: a cycle that found nothing is not one.
CheckAnomaly(c) ==
  /\ pc[c] = "anomaly"
  /\ IF HasCycleAt(run[c], "anomaly", OutletOf[c]) /\ at[c] \in Flagging
     THEN NextScenario(c)
     ELSE Goto(c, "detect") /\ UNCHANGED at
  /\ UNCHANGED <<tables, read, run, alert, fresh>>

RunAnomalies(c) ==
  /\ pc[c] = "detect"
  /\ LookUpCycle(c, "anomaly", at[c] \in Flagging, "detected")

-----------------------------------------------------------------------------
(* bootstrap, the demo case *)

\* Mutant: the check counts the cases of the corpus as well.
CaseOfAnyKind == cases # {} \/ corpus

\* A case whose number is not one of the corpus.
CaseThere == cases # {}

CheckCase(c) ==
  /\ pc[c] = "case"
  /\ IF CaseThere THEN NextSubcommand(c)
     ELSE Goto(c, "alert") /\ UNCHANGED <<read, at, run, alert, fresh>>
  /\ UNCHANGED tables

\* Alerts of the outlet that are not of the corpus; of those detected at the
\* same time any may come first.
Candidates(c) == {a \in alerts : a.outlet = OutletOf[c]}

FindAlert(c) ==
  /\ pc[c] = "alert"
  /\ IF Candidates(c) = {}
     THEN NextSubcommand(c)
     ELSE /\ \E a \in Candidates(c) : alert' = [alert EXCEPT ![c] = a]
          /\ Goto(c, "open")
          /\ UNCHANGED <<read, at, run, fresh>>
  /\ UNCHANGED tables

CaseOn(a) == {k \in cases : k.alert = a}

\* open_case returns the case of an alert that has one.
OpenCase(c) ==
  /\ pc[c] = "open"
  /\ IF CaseOn(alert[c]) # {} THEN NextSubcommand(c)
     ELSE Goto(c, "opening") /\ UNCHANGED <<read, at, run, alert, fresh>>
  /\ UNCHANGED tables

\* UNIQUE (alert_id) refuses the case when another was committed since the lookup.
InsertCase(c) ==
  /\ pc[c] = "opening"
  /\ IF CaseOn(alert[c]) # {} THEN Fail(c, "refused")
     ELSE /\ cases' = cases \cup {[alert |-> alert[c], by |-> c]}
          /\ NextSubcommand(c)
          /\ UNCHANGED <<history, reference, corpus, runs, analytics, alerts>>

Run(c) ==
  /\ \/ EnsureHistoryTable(c) \/ ReadHistory(c)
     \/ SkipApplied(c) \/ RefuseModified(c) \/ ApplyMigration(c) \/ RefuseTaken(c)
     \/ AllApplied(c)
     \/ SeedReference(c) \/ SeedCorpus(c)
     \/ LookUpRun(c) \/ CreateRun(c)
     \/ CheckAlerts(c) \/ PublishLiquidity(c) \/ PublishAnomalies(c)
     \/ LookUpAlert(c) \/ InsertAlert(c) \/ CommitCycles(c)
     \/ CheckLiquidity(c) \/ RunLiquidity(c)
     \/ CheckAnomaly(c) \/ RunAnomalies(c)
     \/ CheckCase(c) \/ FindAlert(c) \/ OpenCase(c) \/ InsertCase(c)
  /\ UNCHANGED <<files, starts, call, calls>>

-----------------------------------------------------------------------------
(* What others do. *)

Ask(u, step, n, engines, a) ==
  /\ call' = [call EXCEPT ![u] = [step |-> step, run |-> n, fresh |-> engines, alert |-> a]]
  /\ UNCHANGED <<files, tables, local, starts>>

\* A user waits for the answer of one call before the next.
Begin(u) ==
  /\ call[u] = None /\ calls[u] < MaxCalls[u]
  /\ calls' = [calls EXCEPT ![u] = @ + 1]

\* A user of the running backend publishes from a run, at the outlet of the run,
\* in a transaction like that of a bootstrap.
UserPublishes(u, n) ==
  /\ Begin(u)
  /\ \E row \in Found(n, "liquidity") :
       /\ HasRowsFor(row, runs[n].outlet)
       /\ Ask(u, "flags", n, IF row = None THEN {"liquidity"} ELSE {}, None)

\* Or runs one engine, which adds nothing when there is a cycle.
UserAnalyses(u, n, engine) ==
  /\ Begin(u)
  /\ Cycles(n, engine) = {}
  /\ Ask(u, "commit", n, {engine}, None)

\* Or opens a case on an alert.
UserOpens(u, a) ==
  /\ Begin(u)
  /\ CaseOn(a) = {}
  /\ Ask(u, "opening", 0, {}, a)

At(u, step) == call[u] # None /\ call[u].step = step

UserLooksUpCycle(u) ==
  LET n == call[u].run IN
  /\ At(u, "flags")
  /\ \E row \in Found(n, "anomaly") :
       /\ runs[n].scenario \in Flagging => HasRowsFor(row, runs[n].outlet)
       /\ Ask(u, IF runs[n].scenario \in Alerting THEN "dedup" ELSE "commit", n,
              call[u].fresh \cup IF row = None THEN {"anomaly"} ELSE {}, None)
  /\ UNCHANGED calls

UserLooksUpAlert(u) ==
  LET n == call[u].run IN
  /\ At(u, "dedup")
  /\ Ask(u, IF AlertThere(n, runs[n].outlet) THEN "commit" ELSE "insert", n, call[u].fresh, None)
  /\ UNCHANGED calls

\* The cycles, and the alert of a transaction that inserts one, are committed.
UserCommits(u) ==
  LET n == call[u].run
      outlet == runs[n].outlet IN
  /\ \/ At(u, "commit") /\ UNCHANGED alerts
     \/ /\ At(u, "insert") /\ ~AlertThere(n, outlet)
        /\ alerts' = alerts \cup {[run |-> n, outlet |-> outlet, by |-> u]}
  /\ analytics' = WithCycles(call[u].fresh, n, [outlet |-> outlet, by |-> u])
  /\ call' = [call EXCEPT ![u] = None]
  /\ UNCHANGED <<files, history, reference, corpus, runs, cases, local, starts, calls>>

UserInsertsCase(u) ==
  /\ At(u, "opening")
  /\ CaseOn(call[u].alert) = {}
  /\ cases' = cases \cup {[alert |-> call[u].alert, by |-> u]}
  /\ call' = [call EXCEPT ![u] = None]
  /\ UNCHANGED <<files, history, reference, corpus, runs, analytics, alerts, local, starts, calls>>

\* The transaction is rolled back: an insert is refused, rows of a cycle are not
\* found, or the worker or its connection dies.
UserGivesUp(u) ==
  /\ call[u] # None
  /\ call' = [call EXCEPT ![u] = None]
  /\ UNCHANGED <<files, tables, local, starts, calls>>

User(u) ==
  \/ \E n \in 1..Len(runs) : UserPublishes(u, n) \/ \E e \in Engines : UserAnalyses(u, n, e)
  \/ \E a \in alerts : UserOpens(u, a)
  \/ UserLooksUpCycle(u) \/ UserLooksUpAlert(u) \/ UserCommits(u) \/ UserInsertsCase(u)
  \/ UserGivesUp(u)

\* Somebody edits a migration; the commands of one build all see one text.  What
\* a file said before it was first applied makes no difference.
EditFile(v) ==
  /\ \A c \in Commands : ~InFlight(c)
  /\ history # None /\ Taken(v)
  /\ files' = [files EXCEPT ![v] = "edited"]
  /\ UNCHANGED <<tables, local, starts, call, calls>>

\* reset, in development only and with nothing else under way.
Reset ==
  /\ \A c \in Commands : ~InFlight(c)
  /\ \A u \in Users : call[u] = None
  /\ history' = None
  /\ reference' = FALSE /\ corpus' = FALSE
  /\ runs' = <<>>
  /\ analytics' = <<>> /\ alerts' = {} /\ cases' = {}
  /\ exit' = [c \in Commands |-> "none"]
  /\ UNCHANGED <<files, pc, todo, read, at, run, alert, fresh, starts, call, calls>>

Next ==
  \/ \E c \in Commands : Start(c) \/ Run(c) \/ Die(c)
  \/ \E u \in Users : User(u)
  \/ \E v \in Versions : EditFile(v)
  \/ Reset

Spec == Init /\ [][Next]_vars

\* A process that runs goes on running; nobody need start one.
FairSpec == Spec /\ \A c \in Commands : WF_vars(Run(c))

-----------------------------------------------------------------------------
(* Properties. *)

\* Whoever applies migrations, together or one after the other, stopped at any
\* point and started again: each is applied once, in the order of the files.
AppliedOnceInOrder ==
  history # None => \A i \in 1..Len(history) : history[i].version = i

\* No migration is ever put on top of one whose file has changed since.
NothingOnModified ==
  [][history' # history /\ history' # None /\ history # None =>
       \A i \in 1..Len(history) : history[i].checksum = files[i]]_vars

\* What a completed bootstrap at an outlet promises of a scenario.
Prepared(i, outlet) ==
  \E n \in 1..Len(runs) :
    /\ runs[n].scenario = i
    /\ Scenarios[i].liquidity => Cycles(n, "liquidity") # {}
    /\ Scenarios[i].anomaly => Cycles(n, "anomaly") # {}
    /\ Scenarios[i].publish /\ i \in Alerting => AlertThere(n, outlet)

\* Everything compose waits for before it starts the backend is there when the
\* migrate container ends well: all migrations, the seeds, per scenario a run
\* with its analytics and alerts, and, where these yield an alert, a case.
Deployed(c) ==
  /\ HasTables(LastVersion)
  /\ reference /\ corpus
  /\ \A i \in 1..4 : Prepared(i, OutletOf[c])
  /\ (\E i \in Alerting : Scenarios[i].publish) => cases # {}

FullScript == <<"apply", "seed", "bootstrap">>

OkMeansDeployed == \A c \in Commands : (exit[c] = "ok" /\ Script[c] = FullScript) => Deployed(c)

\* "reuses existing seeded runs and skips work that is already present"
\* (bootstrap_demo.py:5): after any crashes and restarts, and whatever users do
\* meanwhile, there is one run per scenario, and bootstraps have added at most one
\* cycle per run and engine, one alert per run and one case.  A second cycle of a
\* run and engine is there only when the transaction of a user overlapped that of
\* a bootstrap or of another user.
NothingTwice ==
  /\ \A n, m \in 1..Len(runs) : runs[n].scenario = runs[m].scenario => n = m
  /\ \A n \in 1..Len(analytics) : \A e \in Engines : \A i, j \in 1..Len(analytics[n][e]) :
       (analytics[n][e][i].by \in Commands /\ analytics[n][e][j].by \in Commands) => i = j
  /\ \A a, b \in alerts : (a.run = b.run /\ a.by \in Commands /\ b.by \in Commands) => a = b
  /\ \A k, l \in cases : (k.by \in Commands /\ l.by \in Commands) => k = l

\* "Safe to re-run" (bootstrap_demo.py:5): a bootstrap never fails on what an
\* earlier attempt left behind.  The migrate container can only fail on a
\* modified file, because another command migrates at the same time, or because
\* a user publishes the run or opens the case between its lookup and its insert:
\* the row that refuses the insert is then always a user's.
RerunsSucceed ==
  \A c \in Commands :
    /\ exit[c] # "analytics"
    /\ Script[c] = FullScript => exit[c] \notin {"no table", "no row"}
    /\ pc[c] = "insert" => \A a \in alerts : a.run = run[c] => a.by \in Users
    /\ pc[c] = "opening" => \A k \in cases : k.alert = alert[c] => k.by \in Users

\* Every command that is started ends.
CommandsEnd == \A c \in Commands : InFlight(c) ~> ~InFlight(c)
=============================================================================
