-------------------------- MODULE DeploymentProofs --------------------------
(***************************************************************************)
(* Theorems about Deployment, for any number of commands, whatever         *)
(* subcommands they chain and outlets they name, and any number of users,  *)
(* migrations and restarts.                                                *)
(***************************************************************************)
EXTENDS Deployment, TLAPS

-----------------------------------------------------------------------------
(* The inductive invariant. *)

\* Steps within a transaction that runs an engine, steps of a scenario that have
\* its run, and steps of the bootstrap.
TxSteps == {"flags", "dedup", "insert", "published", "projected", "detected"}
RunSteps == {"alerts", "publish", "liquidity", "project", "anomaly", "detect"} \cup TxSteps
ScenarioSteps == {"run", "create"} \cup RunSteps
BootstrapSteps == ScenarioSteps \cup {"case", "alert", "open", "opening"}

\* Where a command is: what its steps have already established.
Placed(c) ==
  /\ InFlight(c) => todo[c] # <<>>
  /\ pc[c] \in {"idle", "table", "read", "seed", "corpus"} => at[c] = 1
  /\ pc[c] = "apply" => at[c] \in 1..(LastVersion + 1)
  /\ pc[c] \in ScenarioSteps => at[c] \in 1..4
  /\ pc[c] \in RunSteps => run[c] \in 1..Len(runs)
  /\ pc[c] \in {"open", "opening"} => alert[c] \in AlertRow

\* Subcommands still to run are of the script.
Scripted(c) ==
  /\ \A i \in 1..Len(todo[c]) : \E j \in 1..Len(Script[c]) : Script[c][j] = todo[c][i]
  /\ pc[c] \in BootstrapSteps => Bootstraps(c)

\* One bootstrap at a time.
Exclusive ==
  \A c, d \in Commands :
    (InFlight(c) /\ InFlight(d) /\ Bootstraps(c) /\ Bootstraps(d)) => c = d

\* What a command that applies migrations has found or done so far.
Applying(c) ==
  /\ pc[c] \in {"read", "apply"} => history # None
  /\ pc[c] = "apply" =>
       /\ read[c] \subseteq Recorded
       /\ at[c] - 1 <= Len(history)
       /\ \A i \in 1..(at[c] - 1) : history[i].checksum = files[i]

\* A run is created only when there is none of the scenario.
Creating(c) == pc[c] = "create" => RunsOfScenario(c) = {}

\* A bootstrap looks for an alert only when no bootstrap has opened a case.
Opening(c) == pc[c] \in {"alert", "open", "opening"} => \A k \in cases : k.by \in Users

\* A bootstrap publishes a run only when no bootstrap has.
Publishing(c) ==
  pc[c] \in {"publish", "flags", "dedup", "insert"} =>
    \A a \in alerts : a.run = run[c] => a.by \in Users

\* The run has a cycle of the engine, or will have one when the transaction that
\* adds these engines' cycles commits.
Covers(engines, n, e) == e \in engines \/ Cycles(n, e) # {}

\* A transaction adds the cycles it did not find, and those that were committed
\* since it looked are users'.
Fresh(c) ==
  /\ pc[c] \notin TxSteps => fresh[c] = {}
  /\ pc[c] \in TxSteps => \A e \in fresh[c] : \A row \in Cycles(run[c], e) : row.by \in Users
  /\ pc[c] \in {"flags", "dedup", "insert", "published", "projected"} =>
       Covers(fresh[c], run[c], "liquidity")
  /\ pc[c] \in {"dedup", "insert", "published", "detected"} =>
       Covers(fresh[c], run[c], "anomaly")

Sound(c) ==
  /\ Placed(c) /\ Scripted(c) /\ Applying(c) /\ Creating(c)
  /\ Opening(c) /\ Publishing(c) /\ Fresh(c)

\* The same of the transactions of users.
Calling(u) ==
  call[u] # None =>
    /\ call[u].step = "opening" => call[u].alert \in AlertRow
    /\ call[u].step # "opening" => call[u].run \in 1..Len(runs)
    /\ call[u].step \in {"flags", "dedup", "insert"} =>
         Covers(call[u].fresh, call[u].run, "liquidity")
    /\ call[u].step \in {"dedup", "insert"} =>
         Covers(call[u].fresh, call[u].run, "anomaly")

\* Every run has its place for cycles.
Matched == Len(analytics) = Len(runs)

\* The inductive invariant.
IInv ==
  /\ TypeOK
  /\ Matched
  /\ \A c \in Commands : Sound(c)
  /\ \A u \in Users : Calling(u)
  /\ Exclusive
  /\ AppliedOnceInOrder
  /\ NothingTwice

-----------------------------------------------------------------------------
(* How a command moves on. *)

\* A command that ends, or dies, or fails, forgets what it knew.
LEMMA ExitEffect ==
  ASSUME TypeOK, NEW c \in Commands, NEW how \in Exits, Exit(c, how)
  PROVE  /\ pc' \in [Commands -> Steps \cup {"idle"}] /\ pc'[c] = "idle"
         /\ todo' \in [Commands -> Seq(Subcommands)] /\ todo'[c] = <<>>
         /\ read' \in [Commands -> SUBSET Migration] /\ read'[c] = {}
         /\ at' \in [Commands -> Nat] /\ at'[c] = 1
         /\ run' \in [Commands -> Nat] /\ run'[c] = 0
         /\ alert' \in [Commands -> AlertRow \cup {None}]
         /\ fresh' \in [Commands -> SUBSET Engines] /\ fresh'[c] = {}
         /\ exit' \in [Commands -> Exits] /\ exit'[c] = how
         /\ \A d \in Commands \ {c} :
              /\ pc'[d] = pc[d] /\ todo'[d] = todo[d] /\ read'[d] = read[d]
              /\ at'[d] = at[d] /\ run'[d] = run[d] /\ alert'[d] = alert[d]
              /\ fresh'[d] = fresh[d] /\ exit'[d] = exit[d]
  BY DEF TypeOK, Exit, Forget, Steps

LEMMA FirstStepType ==
  ASSUME NEW s \in Subcommands
  PROVE  /\ FirstStep(s) \in {"table", "seed", "run"}
         /\ FirstStep(s) = "run" => s = "bootstrap"
         /\ FirstStep(s) = "seed" => s = "seed"
         /\ FirstStep(s) = "table" => s \in {"apply", "status"}
  BY DEF FirstStep, Subcommands

LEMMA NotEmpty ==
  ASSUME NEW S, NEW s \in Seq(S), s # <<>>
  PROVE  Len(s) \in Nat \ {0} /\ s[1] \in S
  OBVIOUS

LEMMA SecondAndTail ==
  ASSUME NEW S, NEW s \in Seq(S), Len(s) > 1
  PROVE  /\ s[2] \in S /\ Tail(s) \in Seq(S) /\ Tail(s) # <<>>
         /\ Len(Tail(s)) = Len(s) - 1
         /\ \A i \in 1..Len(Tail(s)) : Tail(s)[i] = s[i + 1]
  <1>1. Tail(s) \in Seq(S) /\ Len(Tail(s)) = Len(s) - 1 /\ Len(s) \in Nat
    OBVIOUS
  <1>2. s[2] \in S /\ \A i \in 1..Len(Tail(s)) : Tail(s)[i] = s[i + 1]
    BY <1>1
  <1>3. Tail(s) # <<>>
    <2>1. Len(Tail(s)) # 0
      <3> DEFINE n == Len(s)
                 m == Len(Tail(s))
      <3>1. n \in Nat /\ n > 1 /\ m = n - 1
        BY <1>1
      <3> HIDE DEF n, m
      <3>2. m # 0
        BY <3>1
      <3> QED
        BY <3>2 DEF m
    <2>2. Len(<<>>) = 0
      OBVIOUS
    <2> QED
      BY <2>1, <2>2
  <1> QED
    BY <1>1, <1>2, <1>3

\* A subcommand that is through ends the command, or starts the next one.
LEMMA NextSubcommandEffect ==
  ASSUME TypeOK, NEW c \in Commands, todo[c] # <<>>, NextSubcommand(c)
  PROVE  /\ pc' \in [Commands -> Steps \cup {"idle"}]
         /\ todo' \in [Commands -> Seq(Subcommands)]
         /\ read' \in [Commands -> SUBSET Migration] /\ read'[c] = {}
         /\ at' \in [Commands -> Nat] /\ at'[c] = 1
         /\ run' \in [Commands -> Nat] /\ run'[c] = 0
         /\ alert' \in [Commands -> AlertRow \cup {None}]
         /\ fresh' \in [Commands -> SUBSET Engines] /\ fresh'[c] = {}
         /\ exit' \in [Commands -> Exits]
         /\ \A d \in Commands \ {c} :
              /\ pc'[d] = pc[d] /\ todo'[d] = todo[d] /\ read'[d] = read[d]
              /\ at'[d] = at[d] /\ run'[d] = run[d] /\ alert'[d] = alert[d]
              /\ fresh'[d] = fresh[d] /\ exit'[d] = exit[d]
         /\ \/ /\ pc'[c] = "idle" /\ todo'[c] = <<>>
               /\ Len(todo[c]) = 1 /\ exit'[c] = "ok"
            \/ /\ Len(todo[c]) > 1 /\ todo'[c] = Tail(todo[c])
               /\ todo'[c] # <<>> /\ exit'[c] = exit[c]
               /\ pc'[c] = FirstStep(todo[c][2])
               /\ pc'[c] \in {"table", "seed", "run"}
  <1>1. CASE Len(todo[c]) = 1
    BY <1>1, ExitEffect DEF NextSubcommand, Exits
  <1>2. CASE Len(todo[c]) # 1
    <2>1. todo[c] \in Seq(Subcommands)
      BY DEF TypeOK
    <2>2. Len(todo[c]) > 1
      <3> DEFINE n == Len(todo[c])
      <3>1. n \in Nat \ {0} /\ n # 1
        BY <1>2, <2>1, NotEmpty, Zenon
      <3> HIDE DEF n
      <3>2. n > 1
        BY <3>1
      <3> QED
        BY <3>2 DEF n
    <2>3. /\ todo[c][2] \in Subcommands /\ Tail(todo[c]) \in Seq(Subcommands)
          /\ Tail(todo[c]) # <<>>
      BY <2>1, <2>2, SecondAndTail
    <2>4. FirstStep(todo[c][2]) \in {"table", "seed", "run"}
      BY <2>3, FirstStepType
    <2>5. /\ todo' = [todo EXCEPT ![c] = Tail(todo[c])]
          /\ pc' = [pc EXCEPT ![c] = FirstStep(todo[c][2])]
          /\ Forget(c) /\ UNCHANGED exit
      BY <1>2 DEF NextSubcommand
    <2> QED
      BY <2>2, <2>3, <2>4, <2>5 DEF TypeOK, Forget, Steps
  <1> QED
    BY <1>1, <1>2

LEMMA GotoEffect ==
  ASSUME TypeOK, NEW c \in Commands, NEW step \in Steps, Goto(c, step)
  PROVE  /\ pc' \in [Commands -> Steps \cup {"idle"}] /\ pc'[c] = step
         /\ \A d \in Commands \ {c} : pc'[d] = pc[d]
         /\ todo' = todo /\ exit' = exit
  BY DEF TypeOK, Goto

-----------------------------------------------------------------------------
(* A step of a command disturbs no other command, and keeps types. *)

LocalTypes ==
  /\ pc \in [Commands -> Steps \cup {"idle"}]
  /\ todo \in [Commands -> Seq(Subcommands)]
  /\ read \in [Commands -> SUBSET Migration]
  /\ at \in [Commands -> Nat]
  /\ run \in [Commands -> Nat]
  /\ alert \in [Commands -> AlertRow \cup {None}]
  /\ fresh \in [Commands -> SUBSET Engines]
  /\ exit \in [Commands -> Exits]

TableTypes ==
  /\ history \in Seq(Migration) \cup {None}
  /\ reference \in BOOLEAN /\ corpus \in BOOLEAN
  /\ runs \in Seq(RunRow)
  /\ analytics \in Seq([Engines -> Seq(AnalyticsRow)])
  /\ alerts \subseteq AlertRow
  /\ cases \subseteq CaseRow

\* What the other commands know is as it was.
OthersStay(c) ==
  \A d \in Commands \ {c} :
    /\ pc'[d] = pc[d] /\ todo'[d] = todo[d] /\ read'[d] = read[d]
    /\ at'[d] = at[d] /\ run'[d] = run[d] /\ alert'[d] = alert[d]
    /\ fresh'[d] = fresh[d] /\ exit'[d] = exit[d]

LEMMA ExitLocal ==
  ASSUME TypeOK, NEW c \in Commands, NEW how \in Exits, Exit(c, how)
  PROVE  LocalTypes' /\ OthersStay(c)
  BY ExitEffect DEF LocalTypes, OthersStay

LEMMA NextSubcommandLocal ==
  ASSUME TypeOK, NEW c \in Commands, todo[c] # <<>>, NextSubcommand(c)
  PROVE  LocalTypes' /\ OthersStay(c)
  BY NextSubcommandEffect DEF LocalTypes, OthersStay

LEMMA AtMovesOn ==
  ASSUME TypeOK, NEW c \in Commands, at' = [at EXCEPT ![c] = @ + 1]
  PROVE  /\ at' \in [Commands -> Nat] /\ at'[c] = at[c] + 1
         /\ \A d \in Commands \ {c} : at'[d] = at[d]
  <1>1. at[c] \in Nat /\ at \in [Commands -> Nat]
    BY DEF TypeOK
  <1>2. at[c] + 1 \in Nat
    BY <1>1
  <1> QED
    BY <1>1, <1>2

\* A step that disturbs no other transaction.
FreshMoves(c) ==
  /\ fresh' \in [Commands -> SUBSET Engines]
  /\ \A d \in Commands \ {c} : fresh'[d] = fresh[d]

LEMMA FreshEffect ==
  ASSUME TypeOK, NEW c \in Commands, NEW S \in SUBSET Engines,
         fresh' = [fresh EXCEPT ![c] = S] \/ (fresh' = fresh /\ S = fresh[c])
  PROVE  FreshMoves(c) /\ fresh'[c] = S
  BY DEF TypeOK, FreshMoves

LEMMA GotoLocal ==
  ASSUME TypeOK, NEW c \in Commands, NEW step \in Steps, Goto(c, step),
         UNCHANGED <<read, at, run, alert>>, FreshMoves(c)
  PROVE  LocalTypes' /\ OthersStay(c)
  BY GotoEffect DEF TypeOK, LocalTypes, OthersStay, FreshMoves

LEMMA NextScenarioLocal ==
  ASSUME TypeOK, NEW c \in Commands, NextScenario(c), UNCHANGED <<read, run, alert>>,
         FreshMoves(c)
  PROVE  LocalTypes' /\ OthersStay(c)
  <1>1. (IF at[c] < Len(Scenarios) THEN "run" ELSE "case") \in Steps
    BY DEF Steps
  <1>2. /\ pc' \in [Commands -> Steps \cup {"idle"}]
        /\ \A d \in Commands \ {c} : pc'[d] = pc[d]
        /\ todo' = todo /\ exit' = exit
    BY <1>1, GotoEffect, Zenon DEF NextScenario
  <1>3. at' \in [Commands -> Nat] /\ \A d \in Commands \ {c} : at'[d] = at[d]
    BY AtMovesOn, Zenon DEF NextScenario
  <1> QED
    BY <1>2, <1>3 DEF TypeOK, LocalTypes, OthersStay, FreshMoves

LEMMA AfterLiquidityLocal ==
  ASSUME TypeOK, NEW c \in Commands, AfterLiquidity(c), UNCHANGED <<read, run, alert>>,
         FreshMoves(c)
  PROVE  LocalTypes' /\ OthersStay(c)
  <1>1. CASE Scenario(c).anomaly
    BY <1>1, GotoLocal DEF AfterLiquidity, Steps
  <1>2. CASE ~Scenario(c).anomaly
    BY <1>2, NextScenarioLocal DEF AfterLiquidity
  <1> QED
    BY <1>1, <1>2

-----------------------------------------------------------------------------
(* The cycles of a run. *)

LEMMA SeqLength == ASSUME NEW S, NEW s \in Seq(S) PROVE Len(s) + 1 \in Nat
  OBVIOUS

LEMMA AppendFacts ==
  ASSUME NEW S, NEW s \in Seq(S), NEW e \in S
  PROVE  /\ Append(s, e) \in Seq(S) /\ Len(Append(s, e)) = Len(s) + 1 /\ Len(s) \in Nat
         /\ Append(s, e)[Len(s) + 1] = e
         /\ \A i \in 1..Len(s) : Append(s, e)[i] = s[i]
         /\ 1..Len(s) \subseteq 1..Len(Append(s, e))
         /\ \A i \in 1..Len(Append(s, e)) : i \in 1..Len(s) \/ i = Len(s) + 1
  <1>1. /\ Append(s, e) \in Seq(S) /\ Len(Append(s, e)) = Len(s) + 1 /\ Len(s) \in Nat
        /\ Append(s, e)[Len(s) + 1] = e
        /\ \A i \in 1..Len(s) : Append(s, e)[i] = s[i]
    OBVIOUS
  <1> DEFINE n == Len(s)
             m == Len(Append(s, e))
  <1>2. n \in Nat /\ m = n + 1
    BY <1>1
  <1> HIDE DEF n, m
  <1>3. 1..n \subseteq 1..m /\ \A i \in 1..m : i \in 1..n \/ i = n + 1
    BY <1>2
  <1> QED
    BY <1>1, <1>3 DEF n, m

LEMMA ExceptFacts ==
  ASSUME NEW S, NEW s \in Seq(S), NEW n \in 1..Len(s), NEW x \in S
  PROVE  /\ [s EXCEPT ![n] = x] \in Seq(S) /\ Len([s EXCEPT ![n] = x]) = Len(s)
         /\ [s EXCEPT ![n] = x][n] = x
         /\ \A m \in 1..Len(s) : m # n => [s EXCEPT ![n] = x][m] = s[m]
  OBVIOUS

LEMMA CyclesType ==
  ASSUME TypeOK, NEW n \in 1..Len(analytics), NEW e \in Engines
  PROVE  /\ analytics[n] \in [Engines -> Seq(AnalyticsRow)]
         /\ analytics[n][e] \in Seq(AnalyticsRow)
         /\ Cycles(n, e) \subseteq AnalyticsRow /\ None \notin Cycles(n, e)
         /\ \A i \in 1..Len(analytics[n][e]) : analytics[n][e][i] \in Cycles(n, e)
  <1>1. analytics[n] \in [Engines -> Seq(AnalyticsRow)]
    BY DEF TypeOK
  <1>2. analytics[n][e] \in Seq(AnalyticsRow)
    BY <1>1
  <1> QED
    BY <1>1, <1>2, NoneAssumption DEF Cycles

\* Cycles that one transaction adds.
CyclesBecome(engines, n, row) ==
  /\ analytics' \in Seq([Engines -> Seq(AnalyticsRow)])
  /\ Len(analytics') = Len(analytics)
  /\ \A m \in 1..Len(analytics) : \A e \in Engines :
       /\ m = n /\ e \in engines =>
            /\ analytics'[m][e] = Append(analytics[m][e], row)
            /\ Cycles(m, e)' = Cycles(m, e) \cup {row}
       /\ m # n \/ e \notin engines =>
            /\ analytics'[m][e] = analytics[m][e]
            /\ Cycles(m, e)' = Cycles(m, e)

LEMMA CyclesAdded ==
  ASSUME TypeOK, NEW n \in 1..Len(analytics), NEW engines \in SUBSET Engines,
         NEW row \in AnalyticsRow, analytics' = WithCycles(engines, n, row)
  PROVE  CyclesBecome(engines, n, row)
  <1> DEFINE x == [e \in Engines |-> IF e \in engines THEN Append(analytics[n][e], row)
                                     ELSE analytics[n][e]]
  <1>1. analytics' = [analytics EXCEPT ![n] = x]
    BY DEF WithCycles
  <1>2. \A e \in Engines : analytics[n][e] \in Seq(AnalyticsRow)
    BY CyclesType
  <1>3. \A e \in Engines : Append(analytics[n][e], row) \in Seq(AnalyticsRow)
    BY <1>2, AppendFacts
  <1>4. x \in [Engines -> Seq(AnalyticsRow)]
    BY <1>2, <1>3
  <1>5. \A e \in Engines : x[e] = IF e \in engines THEN Append(analytics[n][e], row)
                                  ELSE analytics[n][e]
    OBVIOUS
  <1>6. analytics \in Seq([Engines -> Seq(AnalyticsRow)])
    BY DEF TypeOK
  <1> HIDE DEF x
  <1>7. /\ analytics' \in Seq([Engines -> Seq(AnalyticsRow)]) /\ Len(analytics') = Len(analytics)
        /\ analytics'[n] = x
        /\ \A m \in 1..Len(analytics) : m # n => analytics'[m] = analytics[m]
    BY <1>1, <1>4, <1>6, ExceptFacts
  <1> SUFFICES ASSUME NEW m \in 1..Len(analytics), NEW e \in Engines
               PROVE  /\ m = n /\ e \in engines =>
                           /\ analytics'[m][e] = Append(analytics[m][e], row)
                           /\ Cycles(m, e)' = Cycles(m, e) \cup {row}
                      /\ m # n \/ e \notin engines =>
                           /\ analytics'[m][e] = analytics[m][e]
                           /\ Cycles(m, e)' = Cycles(m, e)
    BY <1>7 DEF CyclesBecome
  <1>8. CASE m = n /\ e \in engines
    <2> DEFINE s == analytics[m][e]
               u == Append(s, row)
    <2>1. s \in Seq(AnalyticsRow)
      BY <1>2, <1>8
    <2>2. analytics'[m][e] = u
      BY <1>5, <1>7, <1>8
    <2>3. /\ Len(s) + 1 \in 1..Len(u) /\ u[Len(s) + 1] = row
          /\ 1..Len(s) \subseteq 1..Len(u)
          /\ \A i \in 1..Len(s) : u[i] = s[i]
          /\ \A i \in 1..Len(u) : i \in 1..Len(s) \/ i = Len(s) + 1
      <3>1. /\ Len(u) = Len(s) + 1 /\ Len(s) \in Nat /\ u[Len(s) + 1] = row
            /\ 1..Len(s) \subseteq 1..Len(u)
            /\ \A i \in 1..Len(s) : u[i] = s[i]
            /\ \A i \in 1..Len(u) : i \in 1..Len(s) \/ i = Len(s) + 1
        BY <2>1, AppendFacts
      <3> HIDE DEF s, u
      <3> QED
        BY <3>1
    <2>4. Cycles(m, e)' = {u[i] : i \in 1..Len(u)}
      BY <2>2 DEF Cycles
    <2>5. Cycles(m, e) = {s[i] : i \in 1..Len(s)}
      BY DEF Cycles
    <2> HIDE DEF s, u
    <2>6. {u[i] : i \in 1..Len(u)} = {s[i] : i \in 1..Len(s)} \cup {row}
      <3>1. \A r \in {u[i] : i \in 1..Len(u)} : r \in {s[i] : i \in 1..Len(s)} \cup {row}
        BY <2>3
      <3>2. \A r \in {s[i] : i \in 1..Len(s)} \cup {row} : r \in {u[i] : i \in 1..Len(u)}
        BY <2>3
      <3> QED
        BY <3>1, <3>2
    <2> QED
      BY <1>8, <2>2, <2>4, <2>5, <2>6 DEF s, u
  <1>9. CASE ~(m = n /\ e \in engines)
    <2>1. analytics'[m][e] = analytics[m][e]
      BY <1>5, <1>7, <1>9
    <2> QED
      BY <1>9, <2>1 DEF Cycles
  <1> QED
    BY <1>8, <1>9

NoCycles == [e \in Engines |-> <<>>]

\* The place of a run that has just been created.
LEMMA CyclesOfNewRun ==
  ASSUME TypeOK, analytics' = Append(analytics, NoCycles)
  PROVE  /\ analytics' \in Seq([Engines -> Seq(AnalyticsRow)])
         /\ Len(analytics') = Len(analytics) + 1 /\ Len(analytics) \in Nat
         /\ \A m \in 1..Len(analytics) : \A e \in Engines :
              /\ m \in 1..Len(analytics')
              /\ analytics'[m][e] = analytics[m][e]
              /\ Cycles(m, e)' = Cycles(m, e)
         /\ \A e \in Engines : analytics'[Len(analytics) + 1][e] = <<>>
         /\ \A m \in 1..Len(analytics') : m \in 1..Len(analytics) \/ m = Len(analytics) + 1
  <1>1. NoCycles \in [Engines -> Seq(AnalyticsRow)] /\ \A e \in Engines : NoCycles[e] = <<>>
    BY DEF NoCycles
  <1>2. analytics \in Seq([Engines -> Seq(AnalyticsRow)])
    BY DEF TypeOK
  <1>3. /\ Append(analytics, NoCycles) \in Seq([Engines -> Seq(AnalyticsRow)])
        /\ Len(Append(analytics, NoCycles)) = Len(analytics) + 1 /\ Len(analytics) \in Nat
        /\ Append(analytics, NoCycles)[Len(analytics) + 1] = NoCycles
        /\ \A i \in 1..Len(analytics) : Append(analytics, NoCycles)[i] = analytics[i]
        /\ 1..Len(analytics) \subseteq 1..Len(Append(analytics, NoCycles))
        /\ \A i \in 1..Len(Append(analytics, NoCycles)) :
             i \in 1..Len(analytics) \/ i = Len(analytics) + 1
    BY <1>1, <1>2, AppendFacts
  <1>4. \A m \in 1..Len(analytics) : \A e \in Engines :
              /\ m \in 1..Len(analytics')
              /\ analytics'[m][e] = analytics[m][e]
              /\ Cycles(m, e)' = Cycles(m, e)
    BY <1>3 DEF Cycles
  <1> QED
    BY <1>1, <1>3, <1>4

\* What a transaction finds of an engine's cycles, and does about it.
Looked(c, engine, step) ==
  /\ Goto(c, step)
  /\ UNCHANGED <<tables, read, at, run, alert>>
  /\ \/ Cycles(run[c], engine) = {} /\ fresh' = [fresh EXCEPT ![c] = fresh[c] \cup {engine}]
     \/ Cycles(run[c], engine) # {} /\ fresh' = fresh

LEMMA LookUpCycleEffect ==
  ASSUME TypeOK, NEW c \in Commands, NEW engine \in Engines, NEW wanted, NEW step,
         run[c] \in 1..Len(analytics), LookUpCycle(c, engine, wanted, step)
  PROVE  \/ Looked(c, engine, step)
         \/ /\ Exit(c, "analytics") /\ UNCHANGED tables
            /\ \E row \in Cycles(run[c], engine) : row.outlet # OutletOf[c]
  <1>1. PICK row \in Found(run[c], engine) :
          IF wanted => HasRowsFor(row, OutletOf[c])
          THEN /\ fresh' = [fresh EXCEPT ![c] = IF row = None THEN @ \cup {engine} ELSE @]
               /\ Goto(c, step)
               /\ UNCHANGED <<read, at, run, alert>>
          ELSE Exit(c, "analytics")
    BY DEF LookUpCycle
  <1>2. UNCHANGED tables
    BY DEF LookUpCycle
  <1>3. row = None <=> Cycles(run[c], engine) = {}
    BY CyclesType DEF Found
  <1>4. row # None => row \in Cycles(run[c], engine)
    BY <1>3 DEF Found
  <1>5. fresh \in [Commands -> SUBSET Engines]
    BY DEF TypeOK
  <1>6. CASE wanted => HasRowsFor(row, OutletOf[c])
    <2>1. /\ Goto(c, step) /\ UNCHANGED <<read, at, run, alert>>
          /\ fresh' = [fresh EXCEPT ![c] = IF row = None THEN fresh[c] \cup {engine} ELSE fresh[c]]
      BY <1>1, <1>6
    <2>2. CASE row = None
      BY <1>2, <1>3, <2>1, <2>2 DEF Looked, tables
    <2>3. CASE row # None
      <3>1. fresh' = fresh
        BY <1>5, <2>1, <2>3
      <3> QED
        BY <1>2, <1>3, <2>1, <2>3, <3>1 DEF Looked, tables
    <2> QED
      BY <2>2, <2>3
  <1>7. CASE ~(wanted => HasRowsFor(row, OutletOf[c]))
    BY <1>1, <1>2, <1>4, <1>7 DEF HasRowsFor
  <1> QED
    BY <1>6, <1>7

\* What a step that looks a cycle up leads to, whichever it is.
LookedUp(c, engine, step) ==
  \/ Looked(c, engine, step)
  \/ /\ Exit(c, "analytics") /\ UNCHANGED tables
     /\ \E row \in Cycles(run[c], engine) : row.outlet # OutletOf[c]

LEMMA LookUps ==
  ASSUME TypeOK, Matched, NEW c \in Commands, Placed(c)
  PROVE  /\ PublishLiquidity(c) => pc[c] = "publish" /\ LookedUp(c, "liquidity", "flags")
         /\ PublishAnomalies(c) =>
              /\ pc[c] = "flags"
              /\ \E step \in {"dedup", "published"} :
                   LookedUp(c, "anomaly", step) /\ (step = "dedup" <=> at[c] \in Alerting)
         /\ RunLiquidity(c) => pc[c] = "project" /\ LookedUp(c, "liquidity", "projected")
         /\ RunAnomalies(c) => pc[c] = "detect" /\ LookedUp(c, "anomaly", "detected")
  <1>1. pc[c] \in RunSteps => run[c] \in 1..Len(analytics)
    BY DEF Placed, Matched
  <1>2. "liquidity" \in Engines /\ "anomaly" \in Engines
    BY DEF Engines
  <1>3. ASSUME pc[c] \in RunSteps
        PROVE  \A engine \in Engines : \A wanted, step :
                 LookUpCycle(c, engine, wanted, step) => LookedUp(c, engine, step)
    BY <1>1, <1>3, LookUpCycleEffect DEF LookedUp
  <1>4. PublishLiquidity(c) => pc[c] = "publish" /\ LookedUp(c, "liquidity", "flags")
    <2>1. PublishLiquidity(c) =>
            pc[c] = "publish" /\ LookUpCycle(c, "liquidity", TRUE, "flags")
      BY DEF PublishLiquidity
    <2> QED
      BY <1>2, <1>3, <2>1, Zenon DEF RunSteps
  <1>5. RunLiquidity(c) => pc[c] = "project" /\ LookedUp(c, "liquidity", "projected")
    <2>1. RunLiquidity(c) =>
            pc[c] = "project" /\ LookUpCycle(c, "liquidity", TRUE, "projected")
      BY DEF RunLiquidity
    <2> QED
      BY <1>2, <1>3, <2>1, Zenon DEF RunSteps
  <1>6. RunAnomalies(c) => pc[c] = "detect" /\ LookedUp(c, "anomaly", "detected")
    <2>1. RunAnomalies(c) =>
            pc[c] = "detect" /\ LookUpCycle(c, "anomaly", at[c] \in Flagging, "detected")
      BY DEF RunAnomalies
    <2> QED
      BY <1>2, <1>3, <2>1, Zenon DEF RunSteps
  <1>7. PublishAnomalies(c) =>
          /\ pc[c] = "flags"
          /\ \E step \in {"dedup", "published"} :
               LookedUp(c, "anomaly", step) /\ (step = "dedup" <=> at[c] \in Alerting)
    <2> DEFINE step == IF at[c] \in Alerting THEN "dedup" ELSE "published"
    <2>1. PublishAnomalies(c) =>
            pc[c] = "flags" /\ LookUpCycle(c, "anomaly", at[c] \in Flagging, step)
      BY DEF PublishAnomalies
    <2>2. step \in {"dedup", "published"} /\ (step = "dedup" <=> at[c] \in Alerting)
      OBVIOUS
    <2>3. "flags" \in RunSteps
      BY DEF RunSteps, TxSteps
    <2> HIDE DEF step
    <2>4. PublishAnomalies(c) => pc[c] = "flags" /\ LookedUp(c, "anomaly", step)
      BY <1>2, <1>3, <2>1, <2>3, Zenon
    <2> QED
      BY <2>2, <2>4
  <1> QED
    BY <1>4, <1>5, <1>6, <1>7

LEMMA FirstCheckType == \A s : FirstCheck(s) \in {"alerts", "liquidity", "anomaly"}
  BY DEF FirstCheck

LEMMA LookedUpLocal ==
  ASSUME TypeOK, NEW c \in Commands, NEW engine \in Engines, NEW step \in Steps,
         LookedUp(c, engine, step)
  PROVE  LocalTypes' /\ OthersStay(c)
  <1>1. CASE Looked(c, engine, step)
    <2>1. fresh[c] \in SUBSET Engines /\ fresh[c] \cup {engine} \in SUBSET Engines
      BY DEF TypeOK
    <2>2. FreshMoves(c)
      BY <1>1, <2>1, FreshEffect DEF Looked
    <2> QED
      BY <1>1, <2>2, GotoLocal DEF Looked
  <1>2. CASE Exit(c, "analytics")
    BY <1>2, ExitLocal DEF Exits
  <1> QED
    BY <1>1, <1>2 DEF LookedUp

LEMMA RunLocal ==
  ASSUME TypeOK, Matched, NEW c \in Commands, Placed(c), Applying(c), Run(c)
  PROVE  LocalTypes' /\ OthersStay(c)
  <1>0. fresh' = fresh => FreshMoves(c)
    BY DEF TypeOK, FreshMoves
  <1> USE DEF Steps, Exits, LocalTypes, OthersStay, Fail
  <1>1. pc[c] # "idle" => todo[c] # <<>>
    BY DEF Placed, InFlight
  <1>2. CASE EnsureHistoryTable(c)
    BY <1>2 DEF EnsureHistoryTable, Goto, TypeOK
  <1>3. CASE ReadHistory(c)
    <2>1. CASE todo[c][1] = "apply"
      <3>1. Recorded \in SUBSET Migration
        <4>1. history \in Seq(Migration)
          BY <1>3 DEF Applying, ReadHistory, TypeOK
        <4> QED
          BY <4>1 DEF Recorded
      <3> QED
        BY <1>3, <2>1, <3>1 DEF ReadHistory, Goto, TypeOK
    <2>2. CASE todo[c][1] # "apply"
      BY <1>1, <1>3, <2>2, NextSubcommandLocal DEF ReadHistory
    <2> QED
      BY <2>1, <2>2
  <1>4. CASE SkipApplied(c)
    <2>1. /\ at' = [at EXCEPT ![c] = @ + 1] /\ Goto(c, "apply")
          /\ UNCHANGED <<read, run, alert, fresh>>
      BY <1>4 DEF SkipApplied
    <2>2. at' \in [Commands -> Nat] /\ \A d \in Commands \ {c} : at'[d] = at[d]
      BY <2>1, AtMovesOn, Zenon
    <2> HIDE DEF LocalTypes, OthersStay
    <2>3. LocalTypes'
      BY <2>1, <2>2 DEF Goto, TypeOK, LocalTypes
    <2>4. OthersStay(c)
      BY <2>1, <2>2 DEF Goto, TypeOK, OthersStay
    <2> QED
      BY <2>3, <2>4
  <1>5. CASE RefuseModified(c)
    <2>1. "modified" \in Exits /\ Exit(c, "modified")
      BY <1>5 DEF RefuseModified
    <2> QED
      BY <2>1, ExitLocal, Zenon
  <1>6. CASE ApplyMigration(c)
    <2>1. /\ at' = [at EXCEPT ![c] = @ + 1] /\ Goto(c, "apply")
          /\ UNCHANGED <<read, run, alert, fresh>>
      BY <1>6 DEF ApplyMigration
    <2>2. at' \in [Commands -> Nat] /\ \A d \in Commands \ {c} : at'[d] = at[d]
      BY <2>1, AtMovesOn, Zenon
    <2> HIDE DEF LocalTypes, OthersStay
    <2>3. LocalTypes'
      BY <2>1, <2>2 DEF Goto, TypeOK, LocalTypes
    <2>4. OthersStay(c)
      BY <2>1, <2>2 DEF Goto, TypeOK, OthersStay
    <2> QED
      BY <2>3, <2>4
  <1>7. CASE RefuseTaken(c)
    <2>1. "conflict" \in Exits /\ Exit(c, "conflict")
      BY <1>7 DEF RefuseTaken
    <2> QED
      BY <2>1, ExitLocal, Zenon
  <1>8. CASE AllApplied(c)
    BY <1>1, <1>8, NextSubcommandLocal DEF AllApplied
  <1>9. CASE SeedReference(c)
    <2>1. CASE HasTables(NeededBy["seed"])
      BY <1>9, <2>1 DEF SeedReference, Goto, TypeOK
    <2>2. CASE ~HasTables(NeededBy["seed"])
      BY <1>9, <2>2, ExitLocal DEF SeedReference
    <2> QED
      BY <2>1, <2>2
  <1>10. CASE SeedCorpus(c)
    <2>1. CASE HasTables(NeededBy["corpus"]) /\ reference
      BY <1>1, <1>10, <2>1, NextSubcommandLocal DEF SeedCorpus
    <2>2. CASE ~(HasTables(NeededBy["corpus"]) /\ reference)
      BY <1>10, <2>2, ExitLocal DEF SeedCorpus
    <2> QED
      BY <2>1, <2>2
  <1>11. CASE LookUpRun(c)
    <2>1. CASE ~HasTables(NeededBy["bootstrap"])
      BY <1>11, <2>1, ExitLocal DEF LookUpRun
    <2>2. CASE HasTables(NeededBy["bootstrap"]) /\ RunsOfScenario(c) = {}
      BY <1>11, <2>2 DEF LookUpRun, Goto, TypeOK
    <2>3. CASE HasTables(NeededBy["bootstrap"]) /\ RunsOfScenario(c) # {}
      <3>1. /\ Goto(c, FirstCheck(Scenario(c)))
            /\ UNCHANGED <<read, at, alert, fresh>>
            /\ \E n \in RunsOfScenario(c) : run' = [run EXCEPT ![c] = n]
        BY <1>11, <2>3 DEF LookUpRun
      <3>2. FirstCheck(Scenario(c)) \in Steps
        BY FirstCheckType, Zenon
      <3>3. PICK n \in RunsOfScenario(c) : run' = [run EXCEPT ![c] = n]
        BY <3>1
      <3>4. n \in Nat
        BY DEF RunsOfScenario
      <3>5. /\ pc' \in [Commands -> Steps \cup {"idle"}]
            /\ \A d \in Commands \ {c} : pc'[d] = pc[d]
            /\ todo' = todo /\ exit' = exit
        BY <3>1, <3>2, GotoEffect, Zenon
      <3> QED
        BY <3>1, <3>3, <3>4, <3>5 DEF TypeOK
    <2> QED
      BY <2>1, <2>2, <2>3
  <1>12. CASE CreateRun(c)
    <2>1. CASE ~reference
      BY <1>12, <2>1, ExitLocal DEF CreateRun
    <2>2. CASE reference
      <3>1. /\ Goto(c, FirstCheck(Scenario(c)))
            /\ UNCHANGED <<read, at, alert, fresh>>
            /\ run' = [run EXCEPT ![c] = Len(runs) + 1]
        BY <1>12, <2>2 DEF CreateRun
      <3>2. FirstCheck(Scenario(c)) \in Steps
        BY FirstCheckType, Zenon
      <3>3. Len(runs) + 1 \in Nat
        BY SeqLength DEF TypeOK
      <3>4. /\ pc' \in [Commands -> Steps \cup {"idle"}]
            /\ \A d \in Commands \ {c} : pc'[d] = pc[d]
            /\ todo' = todo /\ exit' = exit
        BY <3>1, <3>2, GotoEffect, Zenon
      <3> QED
        BY <3>1, <3>3, <3>4 DEF TypeOK
    <2> QED
      BY <2>1, <2>2
  <1>13. CASE CheckAlerts(c)
    <2>1. FreshMoves(c)
      BY <1>0, <1>13 DEF CheckAlerts
    <2>2. CASE \E a \in alerts : a.run = run[c]
      BY <1>13, <2>1, <2>2, NextScenarioLocal DEF CheckAlerts
    <2>3. CASE ~\E a \in alerts : a.run = run[c]
      BY <1>13, <2>1, <2>3, GotoLocal DEF CheckAlerts
    <2> QED
      BY <2>2, <2>3
  <1>14. CASE PublishLiquidity(c) \/ PublishAnomalies(c) \/ RunLiquidity(c) \/ RunAnomalies(c)
    <2>1. \E e \in Engines : \E step \in Steps : LookedUp(c, e, step)
      BY <1>14, LookUps DEF Engines
    <2> QED
      BY <2>1, LookedUpLocal
  <1>15. CASE LookUpAlert(c)
    <2>1. FreshMoves(c) /\ UNCHANGED <<read, at, run, alert>>
      BY <1>0, <1>15 DEF LookUpAlert
    <2>2. \E step \in Steps : Goto(c, step)
      BY <1>15 DEF LookUpAlert
    <2> QED
      BY <2>1, <2>2, GotoLocal
  <1>16. CASE InsertAlert(c)
    <2>1. CASE AlertThere(run[c], OutletOf[c])
      BY <1>16, <2>1, ExitLocal DEF InsertAlert
    <2>2. CASE ~AlertThere(run[c], OutletOf[c])
      <3>1. fresh' = [fresh EXCEPT ![c] = {}] /\ NextScenario(c) /\ UNCHANGED <<read, run, alert>>
        BY <1>16, <2>2 DEF InsertAlert
      <3>2. FreshMoves(c)
        BY <3>1, FreshEffect
      <3> QED
        BY <3>1, <3>2, NextScenarioLocal
    <2> QED
      BY <2>1, <2>2
  <1>17. CASE CommitCycles(c)
    <2>1. /\ fresh' = [fresh EXCEPT ![c] = {}] /\ UNCHANGED <<read, run, alert>>
          /\ AfterLiquidity(c) \/ NextScenario(c)
      BY <1>17 DEF CommitCycles
    <2>2. FreshMoves(c)
      BY <2>1, FreshEffect
    <2> QED
      BY <2>1, <2>2, NextScenarioLocal, AfterLiquidityLocal
  <1>18. CASE CheckLiquidity(c)
    <2>1. /\ FreshMoves(c) /\ UNCHANGED <<read, run, alert>>
          /\ AfterLiquidity(c) \/ (Goto(c, "project") /\ UNCHANGED at)
      BY <1>0, <1>18 DEF CheckLiquidity
    <2> QED
      BY <2>1, GotoLocal, AfterLiquidityLocal
  <1>19. CASE CheckAnomaly(c)
    <2>1. /\ FreshMoves(c) /\ UNCHANGED <<read, run, alert>>
          /\ NextScenario(c) \/ (Goto(c, "detect") /\ UNCHANGED at)
      BY <1>0, <1>19 DEF CheckAnomaly
    <2> QED
      BY <2>1, GotoLocal, NextScenarioLocal
  <1>20. CASE CheckCase(c)
    <2>1. CASE CaseThere
      BY <1>1, <1>20, <2>1, NextSubcommandLocal DEF CheckCase
    <2>2. CASE ~CaseThere
      BY <1>20, <2>2 DEF CheckCase, Goto, TypeOK
    <2> QED
      BY <2>1, <2>2
  <1>21. CASE FindAlert(c)
    <2>1. CASE Candidates(c) = {}
      BY <1>1, <1>21, <2>1, NextSubcommandLocal DEF FindAlert
    <2>2. CASE Candidates(c) # {}
      <3>1. Candidates(c) \subseteq AlertRow
        BY DEF Candidates, TypeOK
      <3> QED
        BY <1>21, <2>2, <3>1 DEF FindAlert, Goto, TypeOK
    <2> QED
      BY <2>1, <2>2
  <1>22. CASE OpenCase(c)
    <2>1. CASE CaseOn(alert[c]) # {}
      BY <1>1, <1>22, <2>1, NextSubcommandLocal DEF OpenCase
    <2>2. CASE CaseOn(alert[c]) = {}
      BY <1>0, <1>22, <2>2, GotoLocal DEF OpenCase
    <2> QED
      BY <2>1, <2>2
  <1>23. CASE InsertCase(c)
    <2>1. CASE CaseOn(alert[c]) # {}
      BY <1>23, <2>1, ExitLocal DEF InsertCase
    <2>2. CASE CaseOn(alert[c]) = {}
      BY <1>1, <1>23, <2>2, NextSubcommandLocal DEF InsertCase
    <2> QED
      BY <2>1, <2>2
  <1> QED
    BY <1>2, <1>3, <1>4, <1>5, <1>6, <1>7, <1>8, <1>9, <1>10, <1>11, <1>12, <1>13, <1>14,
       <1>15, <1>16, <1>17, <1>18, <1>19, <1>20, <1>21, <1>22, <1>23, Zenon DEF Run

-----------------------------------------------------------------------------
(* What a step of a command does to the tables. *)

NewRun(c) == [scenario |-> at[c], outlet |-> OutletOf[c]]
NewAlert(c) == [run |-> run[c], outlet |-> OutletOf[c], by |-> c]
NewCase(c) == [alert |-> alert[c], by |-> c]

\* The steps that commit a transaction's cycles.
CommitSteps == {"insert", "published", "projected", "detected"}

CyclesCommitted(c) ==
  /\ pc[c] \in CommitSteps
  /\ runs' = runs
  /\ analytics' = WithCycles(fresh[c], run[c], Cycle(c))

\* What one step of a command may add to the tables.
TablesStep(c) ==
  /\ \/ history' = history
     \/ pc[c] = "table" /\ history = None /\ history' = <<>>
     \/ ApplyMigration(c)
  /\ reference' \in {reference, TRUE} /\ corpus' \in {corpus, TRUE}
  /\ \/ runs' = runs /\ analytics' = analytics
     \/ /\ pc[c] = "create"
        /\ runs' = Append(runs, NewRun(c))
        /\ analytics' = Append(analytics, NoCycles)
     \/ CyclesCommitted(c)
  /\ \/ alerts' = alerts
     \/ /\ pc[c] = "insert" /\ CyclesCommitted(c)
        /\ alerts' = alerts \cup {NewAlert(c)}
  /\ \/ cases' = cases
     \/ pc[c] = "opening" /\ cases' = cases \cup {NewCase(c)}

LEMMA TablesKept == ASSUME UNCHANGED tables, NEW c \in Commands PROVE TablesStep(c)
  BY DEF TablesStep, tables

LEMMA RunTables ==
  ASSUME TypeOK, Matched, NEW c \in Commands, Placed(c), Run(c)
  PROVE  TablesStep(c) /\ UNCHANGED <<files, starts, call, calls>> /\ pc[c] \in Steps
  <1>0. UNCHANGED <<files, starts, call, calls>>
    BY DEF Run
  <1> USE DEF Steps
  <1>1. CASE EnsureHistoryTable(c)
    BY <1>0, <1>1 DEF EnsureHistoryTable, TablesStep
  <1>2. CASE ReadHistory(c)
    BY <1>0, <1>2, TablesKept DEF ReadHistory
  <1>3. CASE SkipApplied(c)
    BY <1>0, <1>3, TablesKept DEF SkipApplied
  <1>4. CASE RefuseModified(c)
    BY <1>0, <1>4, TablesKept DEF RefuseModified, Fail
  <1>5. CASE ApplyMigration(c)
    <2>1. TablesStep(c)
      BY <1>5 DEF ApplyMigration, TablesStep
    <2> QED
      BY <1>0, <1>5, <2>1 DEF ApplyMigration
  <1>6. CASE RefuseTaken(c)
    BY <1>0, <1>6, TablesKept DEF RefuseTaken, Fail
  <1>7. CASE AllApplied(c)
    BY <1>0, <1>7, TablesKept DEF AllApplied
  <1>8. CASE SeedReference(c)
    BY <1>0, <1>8, TablesKept DEF SeedReference, Fail, TablesStep
  <1>9. CASE SeedCorpus(c)
    BY <1>0, <1>9, TablesKept DEF SeedCorpus, Fail, TablesStep
  <1>10. CASE LookUpRun(c)
    BY <1>0, <1>10, TablesKept DEF LookUpRun, Fail
  <1>11. CASE CreateRun(c)
    <2>1. CASE reference
      BY <1>0, <1>11, <2>1 DEF CreateRun, TablesStep, NewRun, NoCycles
    <2>2. CASE ~reference
      BY <1>0, <1>11, <2>2, TablesKept DEF CreateRun, Fail
    <2> QED
      BY <2>1, <2>2
  <1>12. CASE CheckAlerts(c)
    BY <1>0, <1>12, TablesKept DEF CheckAlerts
  <1>13. CASE PublishLiquidity(c) \/ PublishAnomalies(c) \/ RunLiquidity(c) \/ RunAnomalies(c)
    <2>1. pc[c] \in Steps /\ \E e \in Engines : \E step \in Steps : LookedUp(c, e, step)
      BY <1>13, LookUps DEF Engines
    <2>2. UNCHANGED tables
      BY <2>1 DEF LookedUp, Looked, tables
    <2> QED
      BY <1>0, <2>1, <2>2, TablesKept
  <1>14. CASE LookUpAlert(c)
    BY <1>0, <1>14, TablesKept DEF LookUpAlert
  <1>15. CASE InsertAlert(c)
    <2>1. CASE AlertThere(run[c], OutletOf[c])
      BY <1>0, <1>15, <2>1, TablesKept DEF InsertAlert, Fail
    <2>2. CASE ~AlertThere(run[c], OutletOf[c])
      BY <1>0, <1>15, <2>2 DEF InsertAlert, TablesStep, CyclesCommitted, CommitSteps, NewAlert
    <2> QED
      BY <2>1, <2>2
  <1>16. CASE CommitCycles(c)
    <2>1. /\ pc[c] \in {"published", "projected", "detected"}
          /\ analytics' = WithCycles(fresh[c], run[c], Cycle(c))
          /\ UNCHANGED <<history, reference, corpus, runs, alerts, cases>>
      BY <1>16 DEF CommitCycles
    <2> QED
      BY <1>0, <2>1 DEF TablesStep, CyclesCommitted, CommitSteps
  <1>17. CASE CheckLiquidity(c)
    BY <1>0, <1>17, TablesKept DEF CheckLiquidity
  <1>18. CASE CheckAnomaly(c)
    BY <1>0, <1>18, TablesKept DEF CheckAnomaly
  <1>19. CASE CheckCase(c)
    BY <1>0, <1>19, TablesKept DEF CheckCase
  <1>20. CASE FindAlert(c)
    BY <1>0, <1>20, TablesKept DEF FindAlert
  <1>21. CASE OpenCase(c)
    BY <1>0, <1>21, TablesKept DEF OpenCase
  <1>22. CASE InsertCase(c)
    <2>1. CASE CaseOn(alert[c]) # {}
      BY <1>0, <1>22, <2>1, TablesKept DEF InsertCase, Fail
    <2>2. CASE CaseOn(alert[c]) = {}
      BY <1>0, <1>22, <2>2 DEF InsertCase, TablesStep, NewCase
    <2> QED
      BY <2>1, <2>2
  <1> QED
    BY <1>1, <1>2, <1>3, <1>4, <1>5, <1>6, <1>7, <1>8, <1>9, <1>10, <1>11, <1>12, <1>13,
       <1>14, <1>15, <1>16, <1>17, <1>18, <1>19, <1>20, <1>21, <1>22, Zenon DEF Run

\* A migration under way is a row of the history table.
LEMMA FileType ==
  ASSUME TypeOK, NEW c \in Commands, at[c] \in Versions
  PROVE  File(c) \in Migration /\ File(c).version = at[c] /\ File(c).checksum = files[at[c]]
  BY DEF File, TypeOK, Migration

\* The history only grows, and the runs do.
Grow ==
  /\ history # None =>
       /\ history' # None /\ 1..Len(history) \subseteq 1..Len(history')
       /\ \A i \in 1..Len(history) : history'[i] = history[i]
  /\ 1..Len(runs) \subseteq 1..Len(runs')
  /\ \A n \in 1..Len(runs) : runs'[n] = runs[n]

LEMMA NoneIsNoHistory == None \notin Seq(Migration)
  BY NoneAssumption

LEMMA HistoryGrows ==
  ASSUME TypeOK, NEW c \in Commands, ApplyMigration(c), history # None
  PROVE  /\ history \in Seq(Migration) /\ File(c) \in Migration /\ at[c] \in Versions
         /\ history' = Append(history, File(c))
         /\ history' \in Seq(Migration) /\ history' # None
         /\ 1..Len(history) \subseteq 1..Len(history')
         /\ \A i \in 1..Len(history) : history'[i] = history[i]
         /\ Len(history') = Len(history) + 1 /\ Len(history) \in Nat
         /\ history'[Len(history) + 1] = File(c)
         /\ \A i \in 1..Len(history') : i \in 1..Len(history) \/ i = Len(history) + 1
  <1>1. history \in Seq(Migration) /\ at[c] \in Versions /\ history' = Append(history, File(c))
    BY DEF ApplyMigration, TypeOK
  <1>2. File(c) \in Migration
    BY <1>1, FileType
  <1> QED
    BY <1>1, <1>2, AppendFacts, NoneIsNoHistory

LEMMA RunRowType ==
  ASSUME TypeOK, NEW c \in Commands, Placed(c), pc[c] = "create"
  PROVE  NewRun(c) \in RunRow
  BY OutletAssumption DEF Placed, ScenarioSteps, RunRow, NewRun

LEMMA RunsGrow ==
  ASSUME TypeOK, NEW c \in Commands, Placed(c), pc[c] = "create",
         runs' = Append(runs, NewRun(c))
  PROVE  /\ runs' \in Seq(RunRow) /\ Len(runs') = Len(runs) + 1 /\ Len(runs) \in Nat
         /\ runs'[Len(runs) + 1] = NewRun(c)
         /\ \A i \in 1..Len(runs) : runs'[i] = runs[i]
         /\ 1..Len(runs) \subseteq 1..Len(runs')
         /\ \A i \in 1..Len(runs') : i \in 1..Len(runs) \/ i = Len(runs) + 1
  <1>1. runs \in Seq(RunRow)
    BY DEF TypeOK
  <1> QED
    BY <1>1, RunRowType, AppendFacts

LEMMA TablesGrow ==
  ASSUME TypeOK, NEW c \in Commands, Placed(c), TablesStep(c)
  PROVE  Grow
  <1>1. history # None =>
          /\ history' # None /\ 1..Len(history) \subseteq 1..Len(history')
          /\ \A i \in 1..Len(history) : history'[i] = history[i]
    BY HistoryGrows DEF TablesStep
  <1>2. /\ 1..Len(runs) \subseteq 1..Len(runs')
        /\ \A n \in 1..Len(runs) : runs'[n] = runs[n]
    BY RunsGrow DEF TablesStep, CyclesCommitted
  <1> QED
    BY <1>1, <1>2 DEF Grow

LEMMA NewRowTypes ==
  ASSUME TypeOK, NEW c \in Commands, Placed(c), pc[c] \in RunSteps
  PROVE  Cycle(c) \in AnalyticsRow /\ NewAlert(c) \in AlertRow /\ run[c] \in 1..Len(runs)
  <1>1. run[c] \in 1..Len(runs) /\ run[c] \in Nat
    BY DEF Placed, TypeOK
  <1>2. run[c] \in Nat \ {0}
    BY <1>1
  <1> QED
    BY <1>1, <1>2, OutletAssumption DEF Cycle, AnalyticsRow, NewAlert, AlertRow

\* What a step of a command adds to the cycles of each run.
LEMMA CyclesStep ==
  ASSUME TypeOK, Matched, NEW c \in Commands, Placed(c), TablesStep(c)
  PROVE  /\ analytics' \in Seq([Engines -> Seq(AnalyticsRow)]) /\ Matched'
         /\ \A m \in 1..Len(runs) : \A e \in Engines :
              \/ analytics'[m][e] = analytics[m][e] /\ Cycles(m, e)' = Cycles(m, e)
              \/ /\ CyclesCommitted(c) /\ m = run[c] /\ e \in fresh[c]
                 /\ analytics'[m][e] = Append(analytics[m][e], Cycle(c))
                 /\ Cycles(m, e)' = Cycles(m, e) \cup {Cycle(c)}
         /\ \A m \in 1..Len(runs') :
              m \in 1..Len(runs) \/ (pc[c] = "create" /\ \A e \in Engines : analytics'[m][e] = <<>>)
         /\ CyclesCommitted(c) =>
              \A n : n = run[c] =>
                \A e \in Engines : Covers(fresh[c], n, e) => Cycles(n, e)' # {}
  <1>1. CASE runs' = runs /\ analytics' = analytics /\ ~CyclesCommitted(c)
    BY <1>1 DEF TypeOK, Matched, Cycles
  <1>2. CASE /\ pc[c] = "create"
             /\ runs' = Append(runs, NewRun(c))
             /\ analytics' = Append(analytics, NoCycles)
    <2>1. /\ Len(runs') = Len(runs) + 1 /\ Len(runs) \in Nat
          /\ \A i \in 1..Len(runs') : i \in 1..Len(runs) \/ i = Len(runs) + 1
      BY <1>2, RunsGrow
    <2>2. ~CyclesCommitted(c)
      BY <1>2 DEF CyclesCommitted, CommitSteps
    <2> QED
      BY <1>2, <2>1, <2>2, CyclesOfNewRun DEF Matched
  <1>3. CASE CyclesCommitted(c)
    <2>1. /\ pc[c] \in RunSteps /\ runs' = runs
          /\ analytics' = WithCycles(fresh[c], run[c], Cycle(c))
      BY <1>3 DEF CyclesCommitted, CommitSteps, RunSteps, TxSteps
    <2>2. /\ Cycle(c) \in AnalyticsRow /\ run[c] \in 1..Len(analytics)
          /\ fresh[c] \in SUBSET Engines
      BY <2>1, NewRowTypes DEF TypeOK, Matched
    <2>3. /\ analytics' \in Seq([Engines -> Seq(AnalyticsRow)])
          /\ Len(analytics') = Len(analytics)
          /\ \A m \in 1..Len(analytics) : \A e \in Engines :
               /\ m = run[c] /\ e \in fresh[c] =>
                    /\ analytics'[m][e] = Append(analytics[m][e], Cycle(c))
                    /\ Cycles(m, e)' = Cycles(m, e) \cup {Cycle(c)}
               /\ m # run[c] \/ e \notin fresh[c] =>
                    /\ analytics'[m][e] = analytics[m][e]
                    /\ Cycles(m, e)' = Cycles(m, e)
      <3>1. CyclesBecome(fresh[c], run[c], Cycle(c))
        BY <2>1, <2>2, CyclesAdded, Zenon
      <3> QED
        BY <3>1 DEF CyclesBecome
    <2>4. ASSUME NEW n, n = run[c], NEW e \in Engines, Covers(fresh[c], n, e)
          PROVE  Cycles(n, e)' # {}
      BY <2>2, <2>3, <2>4 DEF Covers
    <2> QED
      BY <1>3, <2>1, <2>3, <2>4 DEF Matched
  <1> QED
    BY <1>1, <1>2, <1>3 DEF TablesStep

LEMMA TablesTypes ==
  ASSUME TypeOK, Matched, NEW c \in Commands, Placed(c), Applying(c), TablesStep(c)
  PROVE  TableTypes'
  <1>1. history' \in Seq(Migration) \cup {None}
    <2>1. CASE history' = history
      BY <2>1 DEF TypeOK
    <2>2. CASE history' = <<>>
      BY <2>2
    <2>3. CASE ApplyMigration(c)
      <3>1. history # None
        BY <2>3 DEF ApplyMigration, Applying
      <3> QED
        BY <2>3, <3>1, HistoryGrows
    <2> QED
      BY <2>1, <2>2, <2>3 DEF TablesStep
  <1>2. runs' \in Seq(RunRow)
    <2>1. CASE runs' = runs
      BY <2>1 DEF TypeOK
    <2>2. CASE runs' # runs
      BY <2>2, RunsGrow DEF TablesStep, CyclesCommitted
    <2> QED
      BY <2>1, <2>2
  <1>3. analytics' \in Seq([Engines -> Seq(AnalyticsRow)])
    BY CyclesStep
  <1>4. alerts' \subseteq AlertRow
    BY NewRowTypes DEF TablesStep, TypeOK, RunSteps, TxSteps
  <1>5. cases' \subseteq CaseRow
    BY DEF TablesStep, TypeOK, Placed, CaseRow, NewCase
  <1>6. reference' \in BOOLEAN /\ corpus' \in BOOLEAN
    BY DEF TablesStep, TypeOK
  <1> QED
    BY <1>1, <1>2, <1>3, <1>4, <1>5, <1>6 DEF TableTypes

-----------------------------------------------------------------------------
(* A step of a command keeps what is claimed of it. *)

LEMMA IdleIsSound ==
  ASSUME TypeOK, NEW c \in Commands, pc[c] = "idle", todo[c] = <<>>, at[c] = 1,
         fresh[c] = {}
  PROVE  Sound(c)
  BY DEF Sound, Placed, Scripted, Applying, Creating, Opening, Publishing, Fresh, InFlight, RunSteps,
         ScenarioSteps, BootstrapSteps, TxSteps

LEMMA AfterExit ==
  ASSUME TypeOK, NEW c \in Commands, NEW how \in Exits, Exit(c, how)
  PROVE  Sound(c)'
  <1>1. pc'[c] = "idle" /\ todo'[c] = <<>> /\ at'[c] = 1 /\ fresh'[c] = {}
    BY ExitEffect
  <1> QED
    BY <1>1 DEF Sound, Placed, Scripted, Applying, Creating, Opening, Publishing, Fresh, InFlight, RunSteps,
                ScenarioSteps, BootstrapSteps, TxSteps

LEMMA AfterNextSubcommand ==
  ASSUME TypeOK, NEW c \in Commands, todo[c] # <<>>, Scripted(c), NextSubcommand(c)
  PROVE  Sound(c)'
  <1>1. at'[c] = 1 /\ fresh'[c] = {}
    BY NextSubcommandEffect
  <1>2. CASE pc'[c] = "idle" /\ todo'[c] = <<>>
    BY <1>1, <1>2 DEF Sound, Placed, Scripted, Applying, Creating, Opening, Publishing, Fresh, InFlight, RunSteps,
                      ScenarioSteps, BootstrapSteps, TxSteps
  <1>3. CASE ~(pc'[c] = "idle" /\ todo'[c] = <<>>)
    <2>1. /\ Len(todo[c]) > 1 /\ todo'[c] = Tail(todo[c]) /\ todo'[c] # <<>>
          /\ pc'[c] = FirstStep(todo[c][2])
          /\ pc'[c] \in {"table", "seed", "run"}
      BY <1>3, NextSubcommandEffect
    <2>2. todo[c] \in Seq(Subcommands)
      BY DEF TypeOK
    <2>3. /\ \A i \in 1..Len(Tail(todo[c])) : Tail(todo[c])[i] = todo[c][i + 1]
          /\ Len(Tail(todo[c])) = Len(todo[c]) - 1 /\ todo[c][2] \in Subcommands
      BY <2>1, <2>2, SecondAndTail
    <2>4. \A i \in 1..Len(Tail(todo[c])) : i + 1 \in 1..Len(todo[c])
      BY <2>2, <2>3
    <2>5. 2 \in 1..Len(todo[c])
      BY <2>1, <2>2
    <2>6. \A i \in 1..Len(todo'[c]) : \E j \in 1..Len(Script[c]) : Script[c][j] = todo'[c][i]
      BY <2>1, <2>3, <2>4 DEF Scripted
    <2>7. pc'[c] = "run" => todo[c][2] = "bootstrap"
      BY <2>1, <2>3, FirstStepType
    <2>8. pc'[c] = "run" => Bootstraps(c)
      BY <2>5, <2>7 DEF Scripted, Bootstraps
    <2>9. Bootstraps(c)' = Bootstraps(c)
      BY DEF Bootstraps
    <2>10. Scripted(c)'
      BY <2>1, <2>6, <2>8, <2>9 DEF Scripted, BootstrapSteps, ScenarioSteps, RunSteps, TxSteps
    <2>11. Placed(c)'
      BY <1>1, <2>1 DEF Placed, ScenarioSteps, RunSteps, TxSteps, InFlight
    <2> QED
      BY <1>1, <2>1, <2>10, <2>11
         DEF Sound, Applying, Creating, Opening, Publishing, Fresh, TxSteps
  <1> QED
    BY <1>2, <1>3

LEMMA AfterNextScenario ==
  ASSUME TypeOK, NEW c \in Commands, Placed(c), Scripted(c), pc[c] \in RunSteps,
         NextScenario(c), fresh'[c] = {}
  PROVE  Sound(c)'
  <1>1. /\ pc'[c] = IF at[c] < Len(Scenarios) THEN "run" ELSE "case"
        /\ todo' = todo /\ at'[c] = at[c] + 1
    BY DEF NextScenario, Goto, TypeOK
  <1>2. Len(Scenarios) = 4
    BY DEF Scenarios
  <1>3. at[c] \in 1..4 /\ todo[c] # <<>> /\ Bootstraps(c)
    BY DEF Placed, Scripted, RunSteps, TxSteps, ScenarioSteps, BootstrapSteps, InFlight
  <1>4. Bootstraps(c)'
    BY <1>3 DEF Bootstraps
  <1>5. at[c] < 4 => at[c] + 1 \in 1..4
    BY <1>3
  <1>6. Placed(c)'
    BY <1>1, <1>2, <1>3, <1>5 DEF Placed, RunSteps, TxSteps, ScenarioSteps, InFlight
  <1>7. Scripted(c)'
    BY <1>1, <1>4 DEF Scripted
  <1> QED
    BY <1>1, <1>6, <1>7 DEF Sound, Applying, Creating, Opening, Publishing, Fresh, TxSteps

\* From one step of a scenario that has its run to another.
LEMMA WithinScenario ==
  ASSUME TypeOK, NEW c \in Commands, Placed(c), Scripted(c), pc[c] \in RunSteps, Grow,
         NEW step \in RunSteps, Goto(c, step), UNCHANGED <<at, run>>,
         Publishing(c)', Fresh(c)'
  PROVE  Sound(c)'
  <1>1. pc'[c] = step /\ todo' = todo
    BY DEF Goto, TypeOK
  <1>2. at[c] \in 1..4 /\ todo[c] # <<>> /\ Bootstraps(c) /\ run[c] \in 1..Len(runs)
    BY DEF Placed, Scripted, RunSteps, TxSteps, ScenarioSteps, BootstrapSteps, InFlight
  <1>3. Bootstraps(c)'
    BY <1>2 DEF Bootstraps
  <1>4. run'[c] \in 1..Len(runs')
    BY <1>2 DEF Grow
  <1>5. Placed(c)'
    BY <1>1, <1>2, <1>4 DEF Placed, RunSteps, TxSteps, ScenarioSteps, InFlight
  <1>6. Scripted(c)'
    BY <1>1, <1>3 DEF Scripted
  <1> QED
    BY <1>1, <1>5, <1>6 DEF Sound, Applying, Creating, Opening, RunSteps, TxSteps

\* From one check of a scenario to the next, outside of any transaction.
LEMMA BetweenChecks ==
  ASSUME TypeOK, NEW c \in Commands, Placed(c), Scripted(c), pc[c] \in RunSteps, Grow,
         NEW step \in {"project", "anomaly", "detect"}, Goto(c, step), UNCHANGED <<at, run>>,
         fresh'[c] = {}
  PROVE  Sound(c)'
  <1>1. pc'[c] = step /\ step \in RunSteps
    BY DEF Goto, TypeOK, RunSteps
  <1>2. Publishing(c)' /\ Fresh(c)'
    BY <1>1 DEF Publishing, Fresh, TxSteps
  <1> QED
    BY <1>1, <1>2, WithinScenario

LEMMA AfterLiquiditySound ==
  ASSUME TypeOK, NEW c \in Commands, Placed(c), Scripted(c), pc[c] \in RunSteps, Grow,
         AfterLiquidity(c), UNCHANGED <<run>>, fresh'[c] = {}
  PROVE  Sound(c)'
  <1>1. CASE Scenario(c).anomaly
    BY <1>1, BetweenChecks DEF AfterLiquidity
  <1>2. CASE ~Scenario(c).anomaly
    BY <1>2, AfterNextScenario DEF AfterLiquidity
  <1> QED
    BY <1>1, <1>2

\* Into a transaction, or on in it, after the cycle of an engine is looked up.
LEMMA LookedUpSound ==
  ASSUME TypeOK, NEW c \in Commands, Sound(c), Grow, pc[c] \in RunSteps,
         NEW engine \in Engines, NEW step \in TxSteps \ {"insert"}, LookedUp(c, engine, step),
         step \in {"flags", "dedup"} => pc[c] \in {"publish", "flags"},
         step \in {"flags", "projected"} => engine = "liquidity",
         step \in {"dedup", "published"} => engine = "anomaly" /\ pc[c] = "flags",
         step = "detected" => engine = "anomaly"
  PROVE  Sound(c)'
  <1>1. CASE Exit(c, "analytics")
    BY <1>1, AfterExit DEF Exits
  <1>2. CASE Looked(c, engine, step)
    <2>1. /\ Goto(c, step) /\ UNCHANGED <<tables, at, run>>
          /\ pc'[c] = step /\ pc'[c] \in TxSteps /\ step \in RunSteps
      BY <1>2 DEF Looked, Goto, TypeOK, RunSteps
    <2>2. /\ Placed(c) /\ Scripted(c)
          /\ pc[c] \notin TxSteps => fresh[c] = {}
          /\ pc[c] \in TxSteps => \A e \in fresh[c] : \A row \in Cycles(run[c], e) : row.by \in Users
      BY DEF Sound, Fresh
    <2>3. \/ Cycles(run[c], engine) = {} /\ fresh'[c] = fresh[c] \cup {engine}
          \/ Cycles(run[c], engine) # {} /\ fresh'[c] = fresh[c]
      BY <1>2 DEF Looked, TypeOK
    <2>4. PICK n : n = run[c]
      OBVIOUS
    <2>5. \A e : Cycles(n, e)' = Cycles(n, e) /\ Cycles(run[c], e)' = Cycles(n, e)
      BY <2>1, <2>4 DEF Cycles, tables
    <2>6. \A e \in fresh'[c] : \A row \in Cycles(n, e) : row.by \in Users
      BY <2>2, <2>3, <2>4
    <2>7. engine \in fresh'[c] \/ Cycles(n, engine) # {}
      BY <2>3, <2>4
    <2>8. pc[c] = "flags" => ("liquidity" \in fresh'[c] \/ Cycles(n, "liquidity") # {})
      <3>1. pc[c] = "flags" => "liquidity" \in fresh[c] \/ Cycles(n, "liquidity") # {}
        BY <2>4 DEF Sound, Fresh, Covers
      <3> QED
        BY <2>3, <3>1
    <2>9. Fresh(c)'
      BY <2>1, <2>5, <2>6, <2>7, <2>8 DEF Fresh, Covers
    <2>10. Publishing(c)'
      <3>1. alerts' = alerts /\ run' = run
        BY <2>1 DEF tables
      <3>2. pc'[c] \in {"publish", "flags", "dedup", "insert"} => pc[c] \in {"publish", "flags"}
        BY <2>1 DEF TxSteps
      <3> QED
        BY <3>1, <3>2 DEF Sound, Publishing
    <2> QED
      BY <2>1, <2>2, <2>9, <2>10, WithinScenario
  <1> QED
    BY <1>1, <1>2 DEF LookedUp

\* A bootstrap step has its subcommand in todo, and its script bootstraps.
LEMMA InBootstrap ==
  ASSUME TypeOK, NEW c \in Commands, Placed(c), Scripted(c), pc[c] \in BootstrapSteps
  PROVE  todo[c] # <<>> /\ Bootstraps(c) /\ Bootstraps(c)'
  <1>1. todo[c] # <<>> /\ Bootstraps(c)
    BY DEF Placed, Scripted, InFlight, RunSteps, TxSteps, ScenarioSteps, BootstrapSteps
  <1> QED
    BY <1>1 DEF Bootstraps

LEMMA LookUpRunSound ==
  ASSUME TypeOK, NEW c \in Commands, Sound(c), LookUpRun(c)
  PROVE  Sound(c)'
  <1>1. pc[c] = "run" /\ pc[c] \in BootstrapSteps
    BY DEF LookUpRun, RunSteps, TxSteps, ScenarioSteps, BootstrapSteps
  <1>2. todo[c] # <<>> /\ Bootstraps(c)' /\ at[c] \in 1..4
    BY <1>1, InBootstrap DEF Sound, Placed, ScenarioSteps
  <1>3. CASE ~HasTables(NeededBy["bootstrap"])
    <2>1. Exit(c, "no table") /\ "no table" \in Exits
      BY <1>3 DEF LookUpRun, Fail, Exits
    <2> QED
      BY <2>1, AfterExit
  <1>4. CASE HasTables(NeededBy["bootstrap"]) /\ RunsOfScenario(c) = {}
    <2>1. /\ pc'[c] = "create" /\ todo' = todo /\ at' = at /\ runs' = runs /\ fresh' = fresh
      BY <1>4 DEF LookUpRun, Goto, TypeOK, tables
    <2>2. RunsOfScenario(c)' = {}
      BY <1>4, <2>1 DEF RunsOfScenario
    <2>3. Placed(c)'
      BY <1>2, <2>1 DEF Placed, RunSteps, TxSteps, ScenarioSteps, InFlight
    <2>4. Scripted(c)'
      BY <1>2, <2>1 DEF Scripted, Sound
    <2> QED
      BY <1>1, <2>1, <2>2, <2>3, <2>4 DEF Sound, Applying, Creating, Opening, Publishing, Fresh, TxSteps
  <1>5. CASE HasTables(NeededBy["bootstrap"]) /\ RunsOfScenario(c) # {}
    <2>1. PICK n \in RunsOfScenario(c) : run' = [run EXCEPT ![c] = n]
      BY <1>5 DEF LookUpRun
    <2>2. /\ pc'[c] = FirstCheck(Scenario(c)) /\ todo' = todo /\ at' = at /\ runs' = runs /\ fresh' = fresh
      BY <1>5 DEF LookUpRun, Goto, TypeOK, tables
    <2>3. pc'[c] \in {"alerts", "liquidity", "anomaly"}
      BY <2>2, FirstCheckType, Zenon
    <2>4. run'[c] \in 1..Len(runs')
      BY <2>1, <2>2 DEF RunsOfScenario, TypeOK
    <2>5. Placed(c)'
      BY <1>2, <2>2, <2>3, <2>4 DEF Placed, RunSteps, TxSteps, ScenarioSteps, InFlight
    <2>6. Scripted(c)'
      BY <1>2, <2>2 DEF Scripted, Sound
    <2> QED
      BY <1>1, <2>2, <2>3, <2>5, <2>6 DEF Sound, Applying, Creating, Opening, Publishing, Fresh, TxSteps
  <1> QED
    BY <1>3, <1>4, <1>5

LEMMA CreateRunSound ==
  ASSUME TypeOK, NEW c \in Commands, Sound(c), CreateRun(c)
  PROVE  Sound(c)'
  <1>1. pc[c] = "create" /\ pc[c] \in BootstrapSteps
    BY DEF CreateRun, RunSteps, TxSteps, ScenarioSteps, BootstrapSteps
  <1>2. todo[c] # <<>> /\ Bootstraps(c)' /\ at[c] \in 1..4
    BY <1>1, InBootstrap DEF Sound, Placed, ScenarioSteps
  <1>3. CASE ~reference
    <2>1. Exit(c, "no row") /\ "no row" \in Exits
      BY <1>3 DEF CreateRun, Fail, Exits
    <2> QED
      BY <2>1, AfterExit
  <1>4. CASE reference
    <2>1. /\ runs' = Append(runs, NewRun(c))
          /\ run' = [run EXCEPT ![c] = Len(runs) + 1]
          /\ pc'[c] = FirstCheck(Scenario(c)) /\ todo' = todo /\ at' = at
          /\ fresh' = fresh
      BY <1>4 DEF CreateRun, NewRun, Goto, TypeOK
    <2>2. Placed(c)
      BY DEF Sound
    <2>3. Len(runs') = Len(runs) + 1 /\ Len(runs) \in Nat
      BY <1>1, <2>1, <2>2, RunsGrow
    <2>4. run'[c] = Len(runs) + 1
      BY <2>1 DEF TypeOK
    <2>5. run'[c] \in 1..Len(runs')
      BY <2>3, <2>4
    <2>6. pc'[c] \in {"alerts", "liquidity", "anomaly"}
      BY <2>1, FirstCheckType, Zenon
    <2>7. Placed(c)'
      BY <1>2, <2>1, <2>5, <2>6 DEF Placed, RunSteps, TxSteps, ScenarioSteps, InFlight
    <2>8. Scripted(c)'
      BY <1>2, <2>1 DEF Scripted, Sound
    <2> QED
      BY <1>1, <2>1, <2>6, <2>7, <2>8 DEF Sound, Applying, Creating, Opening, Publishing, Fresh, TxSteps
  <1> QED
    BY <1>3, <1>4

\* A file that is read as applied is the row of the history at its place.
LEMMA ReadIsHistory ==
  ASSUME TypeOK, NEW c \in Commands, Sound(c), AppliedOnceInOrder, pc[c] = "apply",
         at[c] \in Versions, File(c) \in read[c]
  PROVE  at[c] \in 1..Len(history) /\ history[at[c]].checksum = files[at[c]]
  <1>1. File(c) \in Recorded
    BY DEF Sound, Applying
  <1>2. PICK i \in 1..Len(history) : history[i] = File(c)
    BY <1>1 DEF Recorded
  <1>3. history[i].version = i
    BY DEF AppliedOnceInOrder, Sound, Applying
  <1> QED
    BY <1>2, <1>3, FileType

\* Where a migration is applied, the history ends right before it.
LEMMA NextInHistory ==
  ASSUME TypeOK, NEW c \in Commands, Sound(c), AppliedOnceInOrder, ApplyMigration(c)
  PROVE  /\ history # None /\ history \in Seq(Migration)
         /\ at[c] = Len(history) + 1 /\ Len(history) \in Nat
         /\ \A i \in 1..Len(history) : history[i].checksum = files[i]
  <1>1. /\ history # None /\ at[c] - 1 <= Len(history) /\ at[c] \in Versions
        /\ \A i \in 1..(at[c] - 1) : history[i].checksum = files[i]
    BY DEF ApplyMigration, Sound, Applying
  <1>2. history \in Seq(Migration)
    BY <1>1 DEF TypeOK
  <1>3. \A i \in 1..Len(history) : history[i].version # at[c]
    BY DEF ApplyMigration, Taken, Recorded
  <1>4. at[c] \notin 1..Len(history)
    BY <1>1, <1>3 DEF AppliedOnceInOrder
  <1> DEFINE n == Len(history)
             k == at[c]
  <1>5. n \in Nat /\ k \in Nat \ {0} /\ k - 1 <= n /\ k \notin 1..n
    BY <1>1, <1>2, <1>4, LastVersionAssumption DEF Versions
  <1> HIDE DEF n, k
  <1>6. k = n + 1 /\ k - 1 = n
    BY <1>5
  <1> QED
    BY <1>1, <1>2, <1>5, <1>6 DEF n, k

LEMMA SkipAppliedSound ==
  ASSUME TypeOK, NEW c \in Commands, Sound(c), AppliedOnceInOrder, SkipApplied(c),
         UNCHANGED files
  PROVE  Sound(c)'
  <1>1. /\ pc[c] = "apply" /\ at[c] \in Versions /\ File(c) \in read[c]
        /\ at' = [at EXCEPT ![c] = at[c] + 1] /\ Goto(c, "apply")
        /\ read' = read /\ fresh' = fresh /\ history' = history
    BY DEF SkipApplied, tables
  <1>2. at[c] \in 1..Len(history) /\ history[at[c]].checksum = files[at[c]]
    BY <1>1, ReadIsHistory
  <1>3. pc'[c] = "apply" /\ todo' = todo /\ at'[c] = at[c] + 1
    BY <1>1 DEF Goto, TypeOK
  <1>4. at[c] \in Nat /\ LastVersion \in Nat /\ at[c] + 1 \in 1..(LastVersion + 1)
    BY <1>1, LastVersionAssumption DEF Versions, TypeOK
  <1>5. \A i \in 1..((at[c] + 1) - 1) : i \in 1..(at[c] - 1) \/ i = at[c]
    BY <1>4
  <1>6. /\ history # None /\ read[c] \subseteq Recorded
        /\ \A i \in 1..(at[c] - 1) : history[i].checksum = files[i]
    BY <1>1 DEF Sound, Applying
  <1>7. (at[c] + 1) - 1 <= Len(history)
    BY <1>2, <1>4
  <1>8. Recorded' = Recorded
    BY <1>1 DEF Recorded
  <1>9. \A i \in 1..((at[c] + 1) - 1) : history[i].checksum = files[i]
    BY <1>2, <1>5, <1>6
  <1>10. at'[c] - 1 = (at[c] + 1) - 1 /\ read'[c] \subseteq Recorded' /\ history' # None
    BY <1>1, <1>3, <1>6, <1>8
  <1>11. at'[c] - 1 <= Len(history')
         /\ \A i \in 1..(at'[c] - 1) : history'[i].checksum = files'[i]
    BY <1>1, <1>7, <1>9, <1>10
  <1>12. Applying(c)'
    BY <1>10, <1>11 DEF Applying
  <1>13. Placed(c)'
    BY <1>1, <1>3, <1>4 DEF Sound, Placed, InFlight, RunSteps, TxSteps, ScenarioSteps
  <1>14. Scripted(c)'
    BY <1>1, <1>3 DEF Sound, Scripted, RunSteps, TxSteps, ScenarioSteps, BootstrapSteps
  <1> QED
    BY <1>1, <1>3, <1>12, <1>13, <1>14 DEF Sound, Creating, Opening, Publishing, Fresh, TxSteps

LEMMA ApplyMigrationSound ==
  ASSUME TypeOK, NEW c \in Commands, Sound(c), AppliedOnceInOrder, ApplyMigration(c),
         UNCHANGED files
  PROVE  Sound(c)' /\ AppliedOnceInOrder'
  <1>1. /\ pc[c] = "apply" /\ at[c] \in Versions
        /\ at' = [at EXCEPT ![c] = at[c] + 1] /\ Goto(c, "apply") /\ read' = read /\ fresh' = fresh
    BY DEF ApplyMigration
  <1>2. /\ history # None /\ at[c] = Len(history) + 1 /\ Len(history) \in Nat
        /\ \A i \in 1..Len(history) : history[i].checksum = files[i]
    BY NextInHistory
  <1>3. /\ File(c).version = at[c] /\ File(c).checksum = files[at[c]]
    BY <1>1, FileType
  <1>4. /\ history' # None
        /\ 1..Len(history) \subseteq 1..Len(history')
        /\ \A i \in 1..Len(history) : history'[i] = history[i]
        /\ Len(history') = Len(history) + 1
        /\ history'[Len(history) + 1] = File(c)
        /\ \A i \in 1..Len(history') : i \in 1..Len(history) \/ i = Len(history) + 1
    BY <1>2, HistoryGrows
  <1>5. AppliedOnceInOrder'
    BY <1>2, <1>3, <1>4 DEF AppliedOnceInOrder
  <1>6. pc'[c] = "apply" /\ todo' = todo /\ at'[c] = at[c] + 1
    BY <1>1 DEF Goto, TypeOK
  <1>7. at[c] \in Nat /\ LastVersion \in Nat /\ at[c] + 1 \in 1..(LastVersion + 1)
    BY <1>1, LastVersionAssumption DEF Versions, TypeOK
  <1>8. at'[c] - 1 = at[c]
    BY <1>6, <1>7
  <1>9. \A i \in 1..Len(history') : history'[i].checksum = files'[i]
    BY <1>2, <1>3, <1>4
  <1>10. Len(history') = at[c]
    BY <1>2, <1>4
  <1>11. read[c] \subseteq Recorded /\ Recorded \subseteq Recorded'
    BY <1>1, <1>4 DEF Sound, Applying, Recorded
  <1>12. read'[c] \subseteq Recorded'
    BY <1>1, <1>11
  <1>13. at'[c] - 1 <= Len(history')
         /\ \A i \in 1..(at'[c] - 1) : history'[i].checksum = files'[i]
    BY <1>8, <1>9, <1>10
  <1>14. Applying(c)'
    BY <1>4, <1>12, <1>13 DEF Applying
  <1>15. Placed(c)'
    BY <1>1, <1>6, <1>7 DEF Sound, Placed, InFlight, RunSteps, TxSteps, ScenarioSteps
  <1>16. Scripted(c)'
    BY <1>1, <1>6 DEF Sound, Scripted, RunSteps, TxSteps, ScenarioSteps, BootstrapSteps
  <1> QED
    BY <1>1, <1>5, <1>6, <1>14, <1>15, <1>16 DEF Sound, Creating, Opening, Publishing, Fresh, TxSteps

LEMMA RunSound ==
  ASSUME IInv, NEW c \in Commands, Run(c)
  PROVE  Sound(c)' /\ AppliedOnceInOrder'
  <1>1. /\ TypeOK /\ Matched /\ Sound(c) /\ Placed(c) /\ Scripted(c) /\ AppliedOnceInOrder
        /\ TablesStep(c) /\ UNCHANGED files /\ pc[c] \in Steps
    BY RunTables DEF IInv, Sound
  <1>0. fresh' = fresh /\ pc[c] \notin TxSteps => fresh'[c] = {}
    BY <1>1 DEF Sound, Fresh
  <1>2. Grow
    BY <1>1, TablesGrow
  <1>3. todo[c] # <<>>
    BY <1>1 DEF Placed, InFlight, Steps
  <1>4. ~ApplyMigration(c) => AppliedOnceInOrder'
    <2>1. CASE history' = history
      BY <1>1, <2>1 DEF AppliedOnceInOrder
    <2>2. CASE history' = <<>>
      BY <2>2 DEF AppliedOnceInOrder
    <2> QED
      BY <1>1, <2>1, <2>2 DEF TablesStep
  <1>5. ApplyMigration(c) => Sound(c)' /\ AppliedOnceInOrder'
    BY <1>1, ApplyMigrationSound
  <1> SUFFICES Sound(c)'
    BY <1>4, <1>5
  <1>6. CASE EnsureHistoryTable(c)
    <2>1. /\ pc[c] = "table" /\ pc'[c] = "read" /\ todo' = todo /\ at' = at /\ fresh' = fresh
      BY <1>1, <1>6 DEF EnsureHistoryTable, Goto, TypeOK
    <2>2. <<>> # None
      <3>1. <<>> \in Seq(Migration)
        OBVIOUS
      <3> QED
        BY <3>1, NoneIsNoHistory
    <2>3. history' # None
      BY <1>6, <2>2 DEF EnsureHistoryTable
    <2> QED
      BY <1>1, <2>1, <2>3
         DEF Sound, Placed, Scripted, Applying, Creating, Opening, Publishing, Fresh, InFlight,
             RunSteps, TxSteps, ScenarioSteps, BootstrapSteps
  <1>7. CASE ReadHistory(c)
    <2>1. CASE todo[c][1] = "apply"
      <3>1. /\ pc[c] = "read" /\ pc'[c] = "apply" /\ todo' = todo /\ at' = at
            /\ history' = history /\ read'[c] = Recorded /\ fresh' = fresh
        BY <1>1, <1>7, <2>1 DEF ReadHistory, Goto, TypeOK, tables
      <3>2. at[c] = 1 /\ history # None
        BY <1>1, <3>1 DEF Sound, Placed, Applying
      <3>3. Recorded' = Recorded
        BY <3>1 DEF Recorded
      <3>4. history \in Seq(Migration)
        BY <1>1, <3>2 DEF TypeOK
      <3>5. at'[c] - 1 <= Len(history') /\ at'[c] \in 1..(LastVersion + 1)
        BY <3>1, <3>2, <3>4, LastVersionAssumption
      <3>6. \A i \in 1..(at'[c] - 1) : history'[i].checksum = files'[i]
        BY <3>1, <3>2
      <3>7. Applying(c)'
        BY <3>1, <3>2, <3>3, <3>5, <3>6 DEF Applying
      <3> QED
        BY <1>1, <1>3, <3>1, <3>5, <3>7
           DEF Sound, Placed, Scripted, Creating, Opening, Publishing, Fresh, InFlight,
               RunSteps, TxSteps, ScenarioSteps, BootstrapSteps
    <2>2. CASE todo[c][1] # "apply"
      BY <1>1, <1>3, <1>7, <2>2, AfterNextSubcommand DEF ReadHistory
    <2> QED
      BY <2>1, <2>2
  <1>8. CASE SkipApplied(c)
    BY <1>1, <1>8, SkipAppliedSound
  <1>9. CASE RefuseModified(c)
    <2>1. Exit(c, "modified") /\ "modified" \in Exits
      BY <1>9 DEF RefuseModified, Fail, Exits
    <2> QED
      BY <1>1, <2>1, AfterExit
  <1>10. CASE RefuseTaken(c)
    <2>1. Exit(c, "conflict") /\ "conflict" \in Exits
      BY <1>10 DEF RefuseTaken, Fail, Exits
    <2> QED
      BY <1>1, <2>1, AfterExit
  <1>11. CASE AllApplied(c)
    BY <1>1, <1>3, <1>11, AfterNextSubcommand DEF AllApplied
  <1>12. CASE SeedReference(c)
    <2>1. CASE HasTables(NeededBy["seed"])
      <3>1. /\ pc[c] = "seed" /\ pc'[c] = "corpus" /\ todo' = todo /\ at' = at /\ fresh' = fresh
        BY <1>1, <1>12, <2>1 DEF SeedReference, Goto, TypeOK
      <3> QED
        BY <1>1, <3>1
           DEF Sound, Placed, Scripted, Applying, Creating, Opening, Publishing, Fresh, InFlight,
               RunSteps, TxSteps, ScenarioSteps, BootstrapSteps
    <2>2. CASE ~HasTables(NeededBy["seed"])
      <3>1. Exit(c, "no table") /\ "no table" \in Exits
        BY <1>12, <2>2 DEF SeedReference, Fail, Exits
      <3> QED
        BY <1>1, <3>1, AfterExit
    <2> QED
      BY <2>1, <2>2
  <1>13. CASE SeedCorpus(c)
    <2>1. CASE ~HasTables(NeededBy["corpus"])
      <3>1. Exit(c, "no table") /\ "no table" \in Exits
        BY <1>13, <2>1 DEF SeedCorpus, Fail, Exits
      <3> QED
        BY <1>1, <3>1, AfterExit
    <2>2. CASE HasTables(NeededBy["corpus"]) /\ ~reference
      <3>1. Exit(c, "no row") /\ "no row" \in Exits
        BY <1>13, <2>2 DEF SeedCorpus, Fail, Exits
      <3> QED
        BY <1>1, <3>1, AfterExit
    <2>3. CASE HasTables(NeededBy["corpus"]) /\ reference
      BY <1>1, <1>3, <1>13, <2>3, AfterNextSubcommand DEF SeedCorpus
    <2> QED
      BY <2>1, <2>2, <2>3
  <1>14. CASE LookUpRun(c)
    BY <1>1, <1>14, LookUpRunSound
  <1>15. CASE CreateRun(c)
    BY <1>1, <1>15, CreateRunSound
  <1>16. CASE CheckAlerts(c)
    <2>1. pc[c] \in RunSteps /\ run' = run /\ fresh'[c] = {} /\ alerts' = alerts
      BY <1>0, <1>16 DEF CheckAlerts, RunSteps, TxSteps, tables
    <2>2. CASE \E a \in alerts : a.run = run[c]
      BY <1>1, <1>16, <2>1, <2>2, AfterNextScenario DEF CheckAlerts
    <2>3. CASE ~\E a \in alerts : a.run = run[c]
      <3>1. Goto(c, "publish") /\ at' = at /\ "publish" \in RunSteps /\ pc'[c] = "publish"
        BY <1>1, <1>16, <2>3 DEF CheckAlerts, Goto, TypeOK, RunSteps
      <3>2. Publishing(c)' /\ Fresh(c)'
        BY <2>1, <2>3, <3>1 DEF Publishing, Fresh, TxSteps
      <3> QED
        BY <1>1, <1>2, <2>1, <3>1, <3>2, WithinScenario
    <2> QED
      BY <2>2, <2>3
  <1>17. CASE PublishLiquidity(c) \/ RunLiquidity(c)
    BY <1>1, <1>2, <1>17, LookUps, LookedUpSound DEF Engines, RunSteps, TxSteps
  <1>18. CASE PublishAnomalies(c) \/ RunAnomalies(c)
    BY <1>1, <1>2, <1>18, LookUps, LookedUpSound DEF Engines, RunSteps, TxSteps
  <1>19. CASE LookUpAlert(c)
    <2>1. PICK step \in {"published", "insert"} : Goto(c, step)
      BY <1>19 DEF LookUpAlert
    <2>2. /\ pc[c] = "dedup" /\ pc[c] \in RunSteps /\ step \in RunSteps
          /\ UNCHANGED <<tables, at, run, fresh>> /\ pc'[c] = step
      BY <1>1, <1>19, <2>1 DEF LookUpAlert, RunSteps, TxSteps, Goto, TypeOK
    <2>3. PICK n : n = run[c]
      OBVIOUS
    <2>4. \A e : Cycles(run[c], e)' = Cycles(n, e)
      BY <2>2, <2>3 DEF Cycles, tables
    <2>5. /\ \A e \in fresh[c] : \A row \in Cycles(n, e) : row.by \in Users
          /\ "liquidity" \in fresh[c] \/ Cycles(n, "liquidity") # {}
          /\ "anomaly" \in fresh[c] \/ Cycles(n, "anomaly") # {}
      BY <1>1, <2>2, <2>3 DEF Sound, Fresh, TxSteps, Covers
    <2>6. Fresh(c)'
      BY <2>2, <2>4, <2>5 DEF Fresh, Covers, TxSteps
    <2>7. alerts' = alerts /\ \A a \in alerts : a.run = run[c] => a.by \in Users
      BY <1>1, <2>2 DEF Sound, Publishing, tables
    <2>8. Publishing(c)'
      BY <2>2, <2>7 DEF Publishing
    <2> QED
      BY <1>1, <1>2, <2>1, <2>2, <2>6, <2>8, WithinScenario
  <1>20. CASE InsertAlert(c)
    <2>1. CASE AlertThere(run[c], OutletOf[c])
      <3>1. Exit(c, "refused") /\ "refused" \in Exits
        BY <1>20, <2>1 DEF InsertAlert, Fail, Exits
      <3> QED
        BY <1>1, <3>1, AfterExit
    <2>2. CASE ~AlertThere(run[c], OutletOf[c])
      <3>1. NextScenario(c) /\ fresh'[c] = {} /\ pc[c] \in RunSteps
        BY <1>1, <1>20, <2>2 DEF InsertAlert, TypeOK, RunSteps, TxSteps
      <3> QED
        BY <1>1, <3>1, AfterNextScenario
    <2> QED
      BY <2>1, <2>2
  <1>21. CASE CommitCycles(c)
    <2>1. /\ AfterLiquidity(c) \/ NextScenario(c)
          /\ fresh'[c] = {} /\ pc[c] \in RunSteps /\ run' = run
      BY <1>1, <1>21 DEF CommitCycles, TypeOK, RunSteps, TxSteps
    <2> QED
      BY <1>1, <1>2, <2>1, AfterNextScenario, AfterLiquiditySound
  <1>22. CASE CheckLiquidity(c)
    <2>1. /\ AfterLiquidity(c) \/ (Goto(c, "project") /\ at' = at)
          /\ fresh'[c] = {} /\ pc[c] \in RunSteps /\ run' = run
      BY <1>0, <1>22 DEF CheckLiquidity, RunSteps, TxSteps
    <2> QED
      BY <1>1, <1>2, <2>1, BetweenChecks, AfterLiquiditySound
  <1>23. CASE CheckAnomaly(c)
    <2>1. /\ NextScenario(c) \/ (Goto(c, "detect") /\ at' = at)
          /\ fresh'[c] = {} /\ pc[c] \in RunSteps /\ run' = run
      BY <1>0, <1>23 DEF CheckAnomaly, RunSteps, TxSteps
    <2> QED
      BY <1>1, <1>2, <2>1, BetweenChecks, AfterNextScenario
  <1>24. CASE CheckCase(c)
    <2>1. CASE CaseThere
      BY <1>1, <1>3, <1>24, <2>1, AfterNextSubcommand DEF CheckCase
    <2>2. CASE ~CaseThere
      <3>1. /\ pc[c] = "case" /\ pc'[c] = "alert" /\ todo' = todo /\ cases' = {} /\ fresh' = fresh
        BY <1>1, <1>24, <2>2 DEF CheckCase, CaseThere, Goto, TypeOK, tables
      <3>2. Bootstraps(c)'
        BY <1>1, <3>1, InBootstrap DEF BootstrapSteps
      <3> QED
        BY <1>1, <3>1, <3>2
           DEF Sound, Placed, Scripted, Applying, Creating, Opening, Publishing, Fresh, InFlight,
               RunSteps, TxSteps, ScenarioSteps
    <2> QED
      BY <2>1, <2>2
  <1>25. CASE FindAlert(c)
    <2>1. CASE Candidates(c) = {}
      BY <1>1, <1>3, <1>25, <2>1, AfterNextSubcommand DEF FindAlert
    <2>2. CASE Candidates(c) # {}
      <3>1. /\ pc[c] = "alert" /\ pc'[c] = "open" /\ todo' = todo /\ cases' = cases /\ fresh' = fresh
        BY <1>1, <1>25, <2>2 DEF FindAlert, Goto, TypeOK, tables
      <3>2. Bootstraps(c)'
        BY <1>1, <3>1, InBootstrap DEF BootstrapSteps
      <3>3. alert'[c] \in AlertRow
        BY <1>1, <1>25, <2>2 DEF FindAlert, Candidates, TypeOK
      <3> QED
        BY <1>1, <3>1, <3>2, <3>3
           DEF Sound, Placed, Scripted, Applying, Creating, Opening, Publishing, Fresh, InFlight,
               RunSteps, TxSteps, ScenarioSteps
    <2> QED
      BY <2>1, <2>2
  <1>26. CASE OpenCase(c)
    <2>1. CASE CaseOn(alert[c]) # {}
      BY <1>1, <1>3, <1>26, <2>1, AfterNextSubcommand DEF OpenCase
    <2>2. CASE CaseOn(alert[c]) = {}
      <3>1. /\ pc[c] = "open" /\ pc'[c] = "opening" /\ todo' = todo /\ cases' = cases
            /\ UNCHANGED <<at, run, alert, fresh>>
        BY <1>1, <1>26, <2>2 DEF OpenCase, Goto, TypeOK, tables
      <3>2. Bootstraps(c)'
        BY <1>1, <3>1, InBootstrap DEF BootstrapSteps
      <3> QED
        BY <1>1, <3>1, <3>2
           DEF Sound, Placed, Scripted, Applying, Creating, Opening, Publishing, Fresh, InFlight,
               RunSteps, TxSteps, ScenarioSteps
    <2> QED
      BY <2>1, <2>2
  <1>27. CASE InsertCase(c)
    <2>1. CASE CaseOn(alert[c]) # {}
      <3>1. Exit(c, "refused") /\ "refused" \in Exits
        BY <1>27, <2>1 DEF InsertCase, Fail, Exits
      <3> QED
        BY <1>1, <3>1, AfterExit
    <2>2. CASE CaseOn(alert[c]) = {}
      BY <1>1, <1>3, <1>27, <2>2, AfterNextSubcommand DEF InsertCase
    <2> QED
      BY <2>1, <2>2
  <1> QED
    BY <1>5, <1>6, <1>7, <1>8, <1>9, <1>10, <1>11, <1>12, <1>13, <1>14, <1>15, <1>16, <1>17,
       <1>18, <1>19, <1>20, <1>21, <1>22, <1>23, <1>24, <1>25, <1>26, <1>27, Zenon DEF Run

-----------------------------------------------------------------------------
(* What is claimed of the other commands, and of the tables. *)

\* What a command needs of the tables outlives what others add to them.
LEMMA OthersSound ==
  ASSUME IInv, NEW c \in Commands, Run(c), NEW d \in Commands \ {c}
  PROVE  Sound(d)'
  <1>1. /\ TypeOK /\ Matched /\ Sound(d) /\ TablesStep(c) /\ UNCHANGED files
        /\ Placed(c) /\ Applying(c) /\ Scripted(c) /\ pc[c] \in Steps
    BY RunTables DEF IInv, Sound
  <1>2. Grow
    BY <1>1, TablesGrow
  <1>3. /\ pc'[d] = pc[d] /\ todo'[d] = todo[d] /\ read'[d] = read[d]
        /\ at'[d] = at[d] /\ run'[d] = run[d] /\ alert'[d] = alert[d]
        /\ fresh'[d] = fresh[d]
    BY <1>1, RunLocal DEF OthersStay
  <1>4. Placed(d)'
    BY <1>1, <1>2, <1>3 DEF Sound, Placed, Grow, InFlight
  <1>5. Scripted(d)'
    BY <1>1, <1>3 DEF Sound, Scripted, Bootstraps
  <1>6. Applying(d)'
    <2>1. pc[d] \in {"read", "apply"} => history # None /\ history' # None
      BY <1>1, <1>2 DEF Sound, Applying, Grow
    <2>2. history # None => Recorded \subseteq Recorded'
      BY <1>2 DEF Grow, Recorded
    <2>3. ASSUME pc[d] = "apply"
          PROVE  /\ at[d] - 1 <= Len(history')
                 /\ \A i \in 1..(at[d] - 1) : history'[i].checksum = files'[i]
      <3>1. /\ history # None /\ at[d] - 1 <= Len(history)
            /\ \A i \in 1..(at[d] - 1) : history[i].checksum = files[i]
            /\ at[d] \in 1..(LastVersion + 1)
        BY <1>1, <2>3 DEF Sound, Applying, Placed
      <3>2. /\ history' # None /\ 1..Len(history) \subseteq 1..Len(history')
            /\ \A i \in 1..Len(history) : history'[i] = history[i]
        BY <1>2, <3>1 DEF Grow
      <3>3. history \in Seq(Migration) /\ history' \in Seq(Migration)
        BY <1>1, <3>1, <3>2, TablesTypes DEF TypeOK, TableTypes
      <3> DEFINE n == Len(history)
                 m == Len(history')
                 k == at[d]
      <3>4. n \in Nat /\ m \in Nat /\ k \in Int /\ 1..n \subseteq 1..m /\ k - 1 <= n
        BY <3>1, <3>2, <3>3, LastVersionAssumption
      <3>5. k - 1 <= m /\ 1..(k - 1) \subseteq 1..n
        <4> HIDE DEF n, m, k
        <4>1. n <= m
          <5>1. CASE n = 0
            BY <3>4, <5>1
          <5>2. CASE n # 0
            BY <3>4, <5>2
          <5> QED
            BY <5>1, <5>2
        <4> QED
          BY <3>4, <4>1
      <3> QED
        BY <1>1, <3>1, <3>2, <3>5
    <2> QED
      BY <1>1, <1>3, <2>1, <2>2, <2>3 DEF Sound, Applying
  <1>7. pc[d] \in BootstrapSteps /\ pc[c] \in BootstrapSteps => FALSE
    BY <1>1 DEF IInv, Exclusive, Sound, Scripted, InFlight, BootstrapSteps,
                ScenarioSteps, RunSteps, TxSteps
  <1>8. Creating(d)'
    <2>1. ASSUME pc[d] = "create" PROVE runs' = runs
      BY <1>1, <1>7, <2>1
         DEF TablesStep, CyclesCommitted, CommitSteps, BootstrapSteps, ScenarioSteps
    <2> QED
      BY <1>1, <1>3, <2>1 DEF Sound, Creating, RunsOfScenario
  <1>9. Opening(d)'
    <2>1. ASSUME pc[d] \in {"alert", "open", "opening"} PROVE cases' = cases
      BY <1>1, <1>7, <2>1 DEF TablesStep, BootstrapSteps
    <2> QED
      BY <1>1, <1>3, <2>1 DEF Sound, Opening
  <1>10. Publishing(d)'
    <2>1. ASSUME pc[d] \in {"publish", "flags", "dedup", "insert"} PROVE alerts' = alerts
      BY <1>1, <1>7, <2>1 DEF TablesStep, BootstrapSteps, ScenarioSteps, RunSteps, TxSteps
    <2> QED
      BY <1>1, <1>3, <2>1 DEF Sound, Publishing
  <1>11. Fresh(d)'
    <2>1. ASSUME pc[d] \in TxSteps PROVE analytics' = analytics
      BY <1>1, <1>7, <2>1
         DEF TablesStep, CyclesCommitted, CommitSteps, BootstrapSteps, ScenarioSteps, RunSteps,
             TxSteps
    <2>2. CASE pc[d] \notin TxSteps
      BY <1>1, <1>3, <2>2 DEF Sound, Fresh, TxSteps
    <2>3. CASE pc[d] \in TxSteps
      <3>1. PICK n : n = run[d]
        OBVIOUS
      <3>2. \A e : Cycles(run[d], e)' = Cycles(n, e)
        BY <1>3, <2>1, <2>3, <3>1 DEF Cycles
      <3>3. Fresh(d)
        BY <1>1 DEF Sound
      <3> QED
        BY <1>3, <2>3, <3>1, <3>2, <3>3 DEF Fresh, Covers
    <2> QED
      BY <2>2, <2>3
  <1> QED
    BY <1>4, <1>5, <1>6, <1>8, <1>9, <1>10, <1>11 DEF Sound

\* No cycle of a run is taken away by a step of a command, and neither are runs.
LEMMA CallsStay ==
  ASSUME IInv, NEW u \in Users, call'[u] = call[u], 1..Len(runs) \subseteq 1..Len(runs'),
         \A m \in 1..Len(runs) : \A e \in Engines : Cycles(m, e) # {} => Cycles(m, e)' # {}
  PROVE  Calling(u)'
  <1>1. Calling(u)
    BY DEF IInv
  <1>2. CASE call[u] = None
    BY <1>2 DEF Calling
  <1>3. CASE call[u] # None
    <2>1. PICK n : n = call[u].run
      OBVIOUS
    <2>2. call[u].step # "opening" => n \in 1..Len(runs) /\ n \in 1..Len(runs')
      BY <1>1, <1>3, <2>1 DEF Calling
    <2>3. ASSUME NEW e \in Engines, call[u].step # "opening", Covers(call[u].fresh, n, e)
          PROVE  Covers(call[u].fresh, call[u].run, e)'
      <3>1. Cycles(call[u].run, e)' = Cycles(n, e)'
        BY <2>1 DEF Cycles
      <3> QED
        BY <2>2, <2>3, <3>1 DEF Covers
    <2> QED
      BY <1>1, <1>3, <2>1, <2>2, <2>3 DEF Calling, Engines
  <1> QED
    BY <1>2, <1>3

\* Only a command in flight takes a step.
LEMMA ExclusiveKept ==
  ASSUME IInv, NEW c \in Commands, InFlight(c),
         \A d \in Commands \ {c} : pc'[d] = pc[d]
  PROVE  Exclusive'
  BY DEF IInv, Exclusive, InFlight, Bootstraps

\* A cycle is at most once in a run by a bootstrap, if what is appended is a
\* user's, or all that is there is users'.
OnceByCommands(rows) ==
  \A i, j \in 1..Len(rows) : (rows[i].by \in Commands /\ rows[j].by \in Commands) => i = j

LEMMA StillOnce ==
  ASSUME NEW rows \in Seq(AnalyticsRow), NEW row \in AnalyticsRow, OnceByCommands(rows),
         row.by \in Users \/ \A i \in 1..Len(rows) : rows[i].by \in Users
  PROVE  OnceByCommands(Append(rows, row))
  <1>1. \A x \in Users : x \notin Commands
    BY UsersAssumption
  <1>2. /\ Append(rows, row)[Len(rows) + 1] = row
        /\ \A i \in 1..Len(rows) : Append(rows, row)[i] = rows[i]
        /\ \A i \in 1..Len(Append(rows, row)) : i \in 1..Len(rows) \/ i = Len(rows) + 1
    BY AppendFacts
  <1> QED
    BY <1>1, <1>2 DEF OnceByCommands

LEMMA RunNothingTwice ==
  ASSUME IInv, NEW c \in Commands, Run(c)
  PROVE  NothingTwice'
  <1>1. /\ TypeOK /\ Matched /\ Sound(c) /\ TablesStep(c) /\ Placed(c) /\ NothingTwice
    BY RunTables DEF IInv, Sound
  <1>2. \A x \in Users : x \notin Commands
    BY UsersAssumption
  <1>3. \A n, m \in 1..Len(runs') : runs'[n].scenario = runs'[m].scenario => n = m
    <2>1. CASE runs' = runs
      BY <1>1, <2>1 DEF NothingTwice
    <2>2. CASE runs' # runs
      <3>1. pc[c] = "create" /\ runs' = Append(runs, NewRun(c))
        BY <1>1, <2>2 DEF TablesStep, CyclesCommitted
      <3>2. /\ Len(runs') = Len(runs) + 1 /\ Len(runs) \in Nat
            /\ runs'[Len(runs) + 1] = NewRun(c)
            /\ \A i \in 1..Len(runs) : runs'[i] = runs[i]
            /\ \A i \in 1..Len(runs') : i \in 1..Len(runs) \/ i = Len(runs) + 1
        BY <1>1, <3>1, RunsGrow
      <3>3. \A i \in 1..Len(runs) : runs[i].scenario # at[c]
        BY <1>1, <3>1 DEF Sound, Creating, RunsOfScenario
      <3>4. runs'[Len(runs) + 1].scenario = at[c]
        BY <3>2 DEF NewRun
      <3> QED
        BY <1>1, <3>2, <3>3, <3>4 DEF NothingTwice
    <2> QED
      BY <2>1, <2>2
  <1>4. \A n \in 1..Len(analytics') : \A e \in Engines : OnceByCommands(analytics'[n][e])
    <2> SUFFICES ASSUME NEW n \in 1..Len(runs'), NEW e \in Engines
                 PROVE  OnceByCommands(analytics'[n][e])
      BY <1>1, CyclesStep DEF Matched
    <2>1. CASE n \notin 1..Len(runs)
      <3>1. analytics'[n][e] = <<>>
        BY <1>1, <2>1, CyclesStep
      <3> QED
        BY <3>1 DEF OnceByCommands
    <2>2. CASE n \in 1..Len(runs)
      <3>1. n \in 1..Len(analytics) /\ analytics[n][e] \in Seq(AnalyticsRow)
            /\ \A i \in 1..Len(analytics[n][e]) : analytics[n][e][i] \in Cycles(n, e)
        BY <1>1, <2>2, CyclesType DEF Matched
      <3>2. OnceByCommands(analytics[n][e])
        BY <1>1, <3>1 DEF NothingTwice, OnceByCommands
      <3>3. CASE analytics'[n][e] = analytics[n][e]
        BY <3>2, <3>3
      <3>4. CASE /\ CyclesCommitted(c) /\ n = run[c] /\ e \in fresh[c]
                 /\ analytics'[n][e] = Append(analytics[n][e], Cycle(c))
        <4>1. pc[c] \in TxSteps /\ pc[c] \in RunSteps
          BY <3>4 DEF CyclesCommitted, CommitSteps, TxSteps, RunSteps
        <4>2. \A row \in Cycles(n, e) : row.by \in Users
          BY <1>1, <3>4, <4>1 DEF Sound, Fresh
        <4>3. Cycle(c) \in AnalyticsRow
          BY <1>1, <4>1, NewRowTypes
        <4>4. \A i \in 1..Len(analytics[n][e]) : analytics[n][e][i].by \in Users
          BY <3>1, <4>2
        <4> QED
          BY <3>1, <3>2, <3>4, <4>3, <4>4, StillOnce
      <3> QED
        BY <1>1, <2>2, <3>3, <3>4, CyclesStep
    <2> QED
      BY <2>1, <2>2
  <1>5. \A a, b \in alerts' : (a.run = b.run /\ a.by \in Commands /\ b.by \in Commands) => a = b
    BY <1>1, <1>2 DEF TablesStep, Sound, Publishing, NothingTwice, NewAlert
  <1>6. \A k, l \in cases' : (k.by \in Commands /\ l.by \in Commands) => k = l
    BY <1>1, <1>2 DEF TablesStep, Sound, Opening, NothingTwice
  <1> QED
    BY <1>3, <1>4, <1>5, <1>6 DEF NothingTwice, OnceByCommands

-----------------------------------------------------------------------------
(* What a step of a user does. *)

\* What one step of a user may add to the tables: rows of its own.
UserEffect(u) ==
  /\ UNCHANGED <<files, history, reference, corpus, runs, local, starts>>
  /\ \/ analytics' = analytics
     \/ \E n \in 1..Len(runs) : \E engines \in SUBSET Engines :
          analytics' = WithCycles(engines, n, [outlet |-> runs[n].outlet, by |-> u])
  /\ \/ alerts' = alerts
     \/ \E n \in 1..Len(runs) :
          /\ alerts' = alerts \cup {[run |-> n, outlet |-> runs[n].outlet, by |-> u]}
          /\ \A e \in Engines : Cycles(n, e)' # {}
  /\ \/ cases' = cases
     \/ \E a \in AlertRow : cases' = cases \cup {[alert |-> a, by |-> u]}

\* What becomes of the calls.
CallEffect(u) ==
  /\ call' \in [Users -> UserCall \cup {None}]
  /\ calls' \in [Users -> Nat]
  /\ \A v \in Users \ {u} : call'[v] = call[v]
  /\ Calling(u)'

LEMMA AskEffect ==
  ASSUME TypeOK, NEW u \in Users, NEW step \in {"flags", "dedup", "insert", "commit", "opening"},
         NEW n \in Nat, NEW engines \in SUBSET Engines, NEW a \in AlertRow \cup {None},
         Ask(u, step, n, engines, a), calls' \in [Users -> Nat],
         step = "opening" => a \in AlertRow,
         step # "opening" => n \in 1..Len(runs),
         step \in {"flags", "dedup", "insert"} => Covers(engines, n, "liquidity"),
         step \in {"dedup", "insert"} => Covers(engines, n, "anomaly")
  PROVE  UserEffect(u) /\ CallEffect(u)
  <1> DEFINE new == [step |-> step, run |-> n, fresh |-> engines, alert |-> a]
  <1>1. /\ call' = [call EXCEPT ![u] = new]
        /\ UNCHANGED <<files, tables, local, starts>>
    BY DEF Ask
  <1>2. /\ new \in UserCall
        /\ new.step = step /\ new.run = n /\ new.fresh = engines /\ new.alert = a
    BY DEF UserCall
  <1> HIDE DEF new
  <1>3. UserEffect(u)
    BY <1>1 DEF UserEffect, tables
  <1>4. /\ call' \in [Users -> UserCall \cup {None}] /\ call'[u] = new
        /\ \A v \in Users \ {u} : call'[v] = call[v]
    BY <1>1, <1>2 DEF TypeOK
  <1>5. /\ runs' = runs /\ \A e : Cycles(n, e)' = Cycles(n, e)
        /\ \A e : Cycles(call[u].run, e)' = Cycles(n, e)
    BY <1>1, <1>2, <1>4 DEF tables, Cycles
  <1>6. Calling(u)'
    BY <1>2, <1>4, <1>5 DEF Calling, Covers
  <1> QED
    BY <1>3, <1>4, <1>6 DEF CallEffect

\* A transaction that is through, or rolled back.
LEMMA CallOver ==
  ASSUME TypeOK, NEW u \in Users, call' = [call EXCEPT ![u] = None], UNCHANGED calls
  PROVE  CallEffect(u)
  <1>1. call' \in [Users -> UserCall \cup {None}] /\ call'[u] = None
        /\ calls' \in [Users -> Nat] /\ \A v \in Users \ {u} : call'[v] = call[v]
    BY DEF TypeOK
  <1> QED
    BY <1>1 DEF CallEffect, Calling

LEMMA CallType ==
  ASSUME IInv, NEW u \in Users, call[u] # None
  PROVE  /\ call[u].step \in {"flags", "dedup", "insert", "commit", "opening"}
         /\ call[u].run \in Nat /\ call[u].fresh \in SUBSET Engines
         /\ Calling(u)
  BY DEF IInv, TypeOK, UserCall

LEMMA BeginType ==
  ASSUME TypeOK, NEW u \in Users, Begin(u)
  PROVE  calls' \in [Users -> Nat]
  <1>1. calls[u] + 1 \in Nat /\ calls \in [Users -> Nat]
    BY DEF TypeOK
  <1> QED
    BY <1>1 DEF Begin

LEMMA UserPublishesEffect ==
  ASSUME IInv, NEW u \in Users, NEW n \in 1..Len(runs), UserPublishes(u, n)
  PROVE  UserEffect(u) /\ CallEffect(u)
  <1>1. TypeOK /\ calls' \in [Users -> Nat] /\ n \in Nat
    BY BeginType DEF IInv, UserPublishes
  <1>2. PICK row \in Found(n, "liquidity") :
          Ask(u, "flags", n, IF row = None THEN {"liquidity"} ELSE {}, None)
    BY DEF UserPublishes
  <1>3. PICK engines : engines = IF row = None THEN {"liquidity"} ELSE {}
    OBVIOUS
  <1>4. engines \in SUBSET Engines /\ Covers(engines, n, "liquidity")
    BY <1>3 DEF Covers, Found, Engines
  <1>5. Ask(u, "flags", n, engines, None)
    BY <1>2, <1>3
  <1> QED
    BY <1>1, <1>4, <1>5, AskEffect

LEMMA UserAnalysesEffect ==
  ASSUME IInv, NEW u \in Users, NEW n \in 1..Len(runs), NEW e \in Engines, UserAnalyses(u, n, e)
  PROVE  UserEffect(u) /\ CallEffect(u)
  <1>1. TypeOK /\ calls' \in [Users -> Nat] /\ n \in Nat /\ Ask(u, "commit", n, {e}, None)
    BY BeginType DEF IInv, UserAnalyses
  <1>2. {e} \in SUBSET Engines
    OBVIOUS
  <1> QED
    BY <1>1, <1>2, AskEffect

LEMMA UserOpensEffect ==
  ASSUME IInv, NEW u \in Users, NEW a \in alerts, UserOpens(u, a)
  PROVE  UserEffect(u) /\ CallEffect(u)
  <1>1. TypeOK /\ calls' \in [Users -> Nat] /\ Ask(u, "opening", 0, {}, a) /\ a \in AlertRow
    BY BeginType DEF IInv, TypeOK, UserOpens
  <1>2. {} \in SUBSET Engines /\ 0 \in Nat
    OBVIOUS
  <1> QED
    BY <1>1, <1>2, AskEffect

LEMMA UserLooksUpCycleEffect ==
  ASSUME IInv, NEW u \in Users, UserLooksUpCycle(u)
  PROVE  UserEffect(u) /\ CallEffect(u)
  <1>1. /\ TypeOK /\ call[u] # None /\ call[u].step = "flags" /\ calls' \in [Users -> Nat]
    BY DEF IInv, TypeOK, UserLooksUpCycle, At
  <1>2. PICK n, engines : n = call[u].run /\ engines = call[u].fresh
    OBVIOUS
  <1>3. /\ n \in Nat /\ n \in 1..Len(runs) /\ engines \in SUBSET Engines
        /\ Covers(engines, n, "liquidity")
    BY <1>1, <1>2, CallType DEF Calling
  <1>4. PICK row \in Found(n, "anomaly") :
          Ask(u, IF runs[n].scenario \in Alerting THEN "dedup" ELSE "commit", n,
              engines \cup IF row = None THEN {"anomaly"} ELSE {}, None)
    BY <1>2 DEF UserLooksUpCycle
  <1>5. PICK step, added : /\ step = IF runs[n].scenario \in Alerting THEN "dedup" ELSE "commit"
                           /\ added = engines \cup IF row = None THEN {"anomaly"} ELSE {}
    OBVIOUS
  <1>6. step \in {"dedup", "commit"} /\ Ask(u, step, n, added, None)
    BY <1>4, <1>5
  <1>7. added \in SUBSET Engines /\ Covers(added, n, "liquidity") /\ Covers(added, n, "anomaly")
    BY <1>3, <1>5 DEF Covers, Found, Engines
  <1> QED
    BY <1>1, <1>3, <1>6, <1>7, AskEffect

LEMMA UserLooksUpAlertEffect ==
  ASSUME IInv, NEW u \in Users, UserLooksUpAlert(u)
  PROVE  UserEffect(u) /\ CallEffect(u)
  <1>1. /\ TypeOK /\ call[u] # None /\ call[u].step = "dedup" /\ calls' \in [Users -> Nat]
    BY DEF IInv, TypeOK, UserLooksUpAlert, At
  <1>2. PICK n, engines : n = call[u].run /\ engines = call[u].fresh
    OBVIOUS
  <1>3. /\ n \in Nat /\ n \in 1..Len(runs) /\ engines \in SUBSET Engines
        /\ Covers(engines, n, "liquidity") /\ Covers(engines, n, "anomaly")
    BY <1>1, <1>2, CallType DEF Calling
  <1>4. PICK step \in {"commit", "insert"} : Ask(u, step, n, engines, None)
    BY <1>2 DEF UserLooksUpAlert
  <1> QED
    BY <1>1, <1>3, <1>4, AskEffect

LEMMA RowTypes ==
  ASSUME TypeOK, NEW u \in Users, NEW n \in 1..Len(runs)
  PROVE  /\ [outlet |-> runs[n].outlet, by |-> u] \in AnalyticsRow
         /\ [run |-> n, outlet |-> runs[n].outlet, by |-> u] \in AlertRow
  <1>1. runs \in Seq(RunRow) /\ Len(runs) \in Nat
    BY DEF TypeOK
  <1>2. n \in Nat \ {0}
    BY <1>1
  <1>3. runs[n] \in RunRow
    BY <1>1
  <1>4. runs[n].outlet \in Outlets
    BY <1>3 DEF RunRow
  <1> QED
    BY <1>2, <1>4 DEF AnalyticsRow, AlertRow

LEMMA UserCommitsEffect ==
  ASSUME IInv, NEW u \in Users, UserCommits(u)
  PROVE  UserEffect(u) /\ CallEffect(u)
  <1>1. /\ TypeOK /\ Matched /\ call[u] # None /\ call[u].step \in {"commit", "insert"}
        /\ call' = [call EXCEPT ![u] = None]
        /\ UNCHANGED <<files, history, reference, corpus, runs, cases, local, starts, calls>>
    BY DEF IInv, UserCommits, At
  <1>2. PICK n, engines : n = call[u].run /\ engines = call[u].fresh
    OBVIOUS
  <1> DEFINE row == [outlet |-> runs[n].outlet, by |-> u]
  <1>3. /\ n \in 1..Len(runs) /\ engines \in SUBSET Engines
        /\ call[u].step = "insert" =>
             Covers(engines, n, "liquidity") /\ Covers(engines, n, "anomaly")
    BY <1>1, <1>2, CallType DEF Calling
  <1>4. /\ analytics' = WithCycles(engines, n, row)
        /\ \/ alerts' = alerts
           \/ /\ call[u].step = "insert"
              /\ alerts' = alerts \cup {[run |-> n, outlet |-> runs[n].outlet, by |-> u]}
    BY <1>2 DEF UserCommits, At
  <1>5. row \in AnalyticsRow /\ n \in 1..Len(analytics)
    BY <1>1, <1>3, RowTypes DEF Matched
  <1>6. \E m \in 1..Len(runs) : \E s \in SUBSET Engines :
          analytics' = WithCycles(s, m, [outlet |-> runs[m].outlet, by |-> u])
    BY <1>3, <1>4
  <1> HIDE DEF row
  <1>7. CyclesBecome(engines, n, row)
    BY <1>1, <1>3, <1>4, <1>5, CyclesAdded, Zenon
  <1>8. ASSUME call[u].step = "insert", NEW e \in Engines PROVE Cycles(n, e)' # {}
    <2>1. Covers(engines, n, e)
      BY <1>3, <1>8 DEF Engines
    <2> QED
      BY <1>5, <1>7, <2>1 DEF CyclesBecome, Covers
  <1>9. UserEffect(u)
    BY <1>1, <1>3, <1>4, <1>6, <1>8 DEF UserEffect
  <1> QED
    BY <1>1, <1>9, CallOver

LEMMA UserInsertsCaseEffect ==
  ASSUME IInv, NEW u \in Users, UserInsertsCase(u)
  PROVE  UserEffect(u) /\ CallEffect(u)
  <1>1. /\ TypeOK /\ call[u] # None /\ call[u].step = "opening"
        /\ call' = [call EXCEPT ![u] = None]
        /\ cases' = cases \cup {[alert |-> call[u].alert, by |-> u]}
        /\ UNCHANGED <<files, history, reference, corpus, runs, analytics, alerts, local, starts, calls>>
    BY DEF IInv, UserInsertsCase, At
  <1>2. call[u].alert \in AlertRow
    BY <1>1, CallType DEF Calling
  <1> QED
    BY <1>1, <1>2, CallOver DEF UserEffect

LEMMA UserSteps ==
  ASSUME IInv, NEW u \in Users, User(u)
  PROVE  UserEffect(u) /\ CallEffect(u)
  <1>1. CASE UserGivesUp(u)
    <2>1. UserEffect(u) /\ call' = [call EXCEPT ![u] = None] /\ UNCHANGED calls
      BY <1>1 DEF UserGivesUp, UserEffect, tables
    <2> QED
      BY <2>1, CallOver DEF IInv
  <1> QED
    BY <1>1, UserPublishesEffect, UserAnalysesEffect, UserOpensEffect, UserLooksUpCycleEffect,
       UserLooksUpAlertEffect, UserCommitsEffect, UserInsertsCaseEffect DEF User

\* What a user adds to the cycles of each run.
CyclesWithUsers(u) ==
  /\ analytics' \in Seq([Engines -> Seq(AnalyticsRow)]) /\ Len(analytics') = Len(analytics)
  /\ \A m \in 1..Len(analytics) : \A e \in Engines :
       \/ analytics'[m][e] = analytics[m][e] /\ Cycles(m, e)' = Cycles(m, e)
       \/ \E row \in AnalyticsRow :
            /\ row.by = u /\ row.outlet = runs[m].outlet
            /\ analytics'[m][e] = Append(analytics[m][e], row)
            /\ Cycles(m, e)' = Cycles(m, e) \cup {row}

LEMMA UserCycles ==
  ASSUME TypeOK, Matched, NEW u \in Users, UserEffect(u)
  PROVE  CyclesWithUsers(u)
  <1>1. CASE analytics' = analytics
    BY <1>1 DEF TypeOK, Cycles, CyclesWithUsers
  <1>2. CASE \E n \in 1..Len(runs) : \E engines \in SUBSET Engines :
               analytics' = WithCycles(engines, n, [outlet |-> runs[n].outlet, by |-> u])
    <2>1. PICK n \in 1..Len(runs), engines \in SUBSET Engines :
               analytics' = WithCycles(engines, n, [outlet |-> runs[n].outlet, by |-> u])
      BY <1>2
    <2> DEFINE row == [outlet |-> runs[n].outlet, by |-> u]
    <2>2. /\ row \in AnalyticsRow /\ n \in 1..Len(analytics)
          /\ row.by = u /\ row.outlet = runs[n].outlet
          /\ analytics' = WithCycles(engines, n, row)
      BY <2>1, RowTypes DEF Matched
    <2> HIDE DEF row
    <2>3. CyclesBecome(engines, n, row)
      BY <2>2, CyclesAdded, Zenon
    <2> QED
      BY <2>2, <2>3 DEF CyclesBecome, CyclesWithUsers
  <1> QED
    BY <1>1, <1>2 DEF UserEffect

LEMMA UserSound ==
  ASSUME IInv, NEW u \in Users, UserEffect(u), NEW c \in Commands
  PROVE  Sound(c)'
  <1>1. /\ TypeOK /\ Matched /\ Sound(c)
        /\ pc' = pc /\ todo' = todo /\ read' = read /\ at' = at /\ run' = run /\ alert' = alert
        /\ fresh' = fresh /\ files' = files /\ history' = history /\ runs' = runs
    BY DEF IInv, UserEffect, local
  <1>2. Placed(c)' /\ Scripted(c)' /\ Creating(c)'
    BY <1>1 DEF Sound, Placed, Scripted, Creating, InFlight, Bootstraps, RunsOfScenario
  <1>3. Recorded' = Recorded
    BY <1>1 DEF Recorded
  <1>4. Applying(c)'
    BY <1>1, <1>3 DEF Sound, Applying
  <1>5. Opening(c)'
    BY <1>1 DEF Sound, Opening, UserEffect
  <1>6. Publishing(c)'
    BY <1>1 DEF Sound, Publishing, UserEffect
  <1>7. Fresh(c)'
    <2>1. CASE pc[c] \notin TxSteps
      BY <1>1, <2>1 DEF Sound, Fresh, TxSteps
    <2>2. CASE pc[c] \in TxSteps
      <3>1. PICK n : n = run[c]
        OBVIOUS
      <3>2. n \in 1..Len(analytics) /\ fresh[c] \in SUBSET Engines
        BY <1>1, <2>2, <3>1 DEF Sound, Placed, Matched, RunSteps, TypeOK
      <3>3. \A e \in Engines : /\ Cycles(n, e) # {} => Cycles(n, e)' # {}
                               /\ \A row \in Cycles(n, e)' : row \in Cycles(n, e) \/ row.by \in Users
        <4>1. CyclesWithUsers(u)
          BY <1>1, UserCycles
        <4>2. ASSUME NEW e \in Engines
              PROVE  \/ Cycles(n, e)' = Cycles(n, e)
                     \/ \E row \in AnalyticsRow :
                          row.by = u /\ Cycles(n, e)' = Cycles(n, e) \cup {row}
          BY <3>2, <4>1, Zenon DEF CyclesWithUsers
        <4> QED
          BY <4>2
      <3>4. \A e : Cycles(run[c], e)' = Cycles(n, e)'
        BY <1>1, <3>1 DEF Cycles
      <3>5. Fresh(c)
        BY <1>1 DEF Sound
      <3>6. \A e \in fresh'[c] : \A row \in Cycles(n, e)' : row.by \in Users
        BY <1>1, <2>2, <3>1, <3>2, <3>3, <3>5 DEF Fresh
      <3>7. \A e \in Engines : Covers(fresh[c], n, e) => Covers(fresh[c], run[c], e)'
        BY <1>1, <3>3, <3>4 DEF Covers
      <3> QED
        BY <1>1, <2>2, <3>1, <3>4, <3>5, <3>6, <3>7 DEF Fresh, Engines
    <2> QED
      BY <2>1, <2>2
  <1> QED
    BY <1>2, <1>4, <1>5, <1>6, <1>7 DEF Sound

LEMMA UserNothingTwice ==
  ASSUME IInv, NEW u \in Users, UserEffect(u)
  PROVE  NothingTwice'
  <1>1. /\ TypeOK /\ Matched /\ NothingTwice /\ runs' = runs /\ u \notin Commands
        /\ CyclesWithUsers(u)
    BY UsersAssumption, UserCycles DEF IInv, UserEffect
  <1>2. ASSUME NEW n \in 1..Len(analytics), NEW e \in Engines
        PROVE  OnceByCommands(analytics'[n][e])
    <2>1. analytics[n][e] \in Seq(AnalyticsRow)
      BY <1>1, CyclesType
    <2>2. OnceByCommands(analytics[n][e])
      BY <1>1 DEF NothingTwice, OnceByCommands
    <2>3. \/ analytics'[n][e] = analytics[n][e]
          \/ \E row \in AnalyticsRow :
               row.by = u /\ analytics'[n][e] = Append(analytics[n][e], row)
      BY <1>1 DEF CyclesWithUsers
    <2>4. CASE analytics'[n][e] = analytics[n][e]
      BY <2>2, <2>4
    <2>5. CASE \E row \in AnalyticsRow :
                 row.by = u /\ analytics'[n][e] = Append(analytics[n][e], row)
      <3>1. PICK row \in AnalyticsRow :
                 row.by = u /\ analytics'[n][e] = Append(analytics[n][e], row)
        BY <2>5
      <3>2. row.by \notin Commands
        BY <1>1, <3>1
      <3> QED
        BY <2>1, <2>2, <3>1, <3>2, StillOnce
    <2> QED
      BY <2>3, <2>4, <2>5
  <1>3. Len(analytics') = Len(analytics)
    BY <1>1 DEF CyclesWithUsers
  <1>4. \A a, b \in alerts' : (a.run = b.run /\ a.by \in Commands /\ b.by \in Commands) => a = b
    BY <1>1 DEF UserEffect, NothingTwice
  <1>5. \A k, l \in cases' : (k.by \in Commands /\ l.by \in Commands) => k = l
    BY <1>1 DEF UserEffect, NothingTwice
  <1> QED
    BY <1>1, <1>2, <1>3, <1>4, <1>5 DEF NothingTwice, OnceByCommands

-----------------------------------------------------------------------------
(* Every step keeps the invariant. *)

LEMMA InitInv == Init => IInv
  <1> SUFFICES ASSUME Init PROVE IInv
    OBVIOUS
  <1>1. TypeOK
    <2>1. files \in [Versions -> Texts] /\ history \in Seq(Migration) \cup {None}
      BY DEF Init, NoRows, Texts
    <2>2. /\ reference \in BOOLEAN /\ corpus \in BOOLEAN /\ runs = <<>>
          /\ analytics = <<>> /\ alerts \subseteq AlertRow /\ cases \subseteq CaseRow
      BY DEF Init, NoRows
    <2>3. runs \in Seq(RunRow) /\ analytics \in Seq([Engines -> Seq(AnalyticsRow)])
      BY <2>2
    <2>4. todo \in [Commands -> Seq(Subcommands)]
      BY DEF Init
    <2>5. /\ pc \in [Commands -> Steps \cup {"idle"}] /\ read \in [Commands -> SUBSET Migration]
          /\ at \in [Commands -> Nat] /\ run \in [Commands -> Nat]
          /\ alert \in [Commands -> AlertRow \cup {None}] /\ exit \in [Commands -> Exits]
          /\ fresh \in [Commands -> SUBSET Engines]
          /\ starts \in [Commands -> Nat] /\ calls \in [Users -> Nat]
          /\ call \in [Users -> UserCall \cup {None}]
      BY DEF Init, Exits
    <2> QED
      BY <2>1, <2>2, <2>3, <2>4, <2>5 DEF TypeOK
  <1>2. \A c \in Commands : Sound(c)
    BY <1>1, IdleIsSound DEF Init
  <1>3. /\ Exclusive /\ AppliedOnceInOrder /\ NothingTwice
        /\ Matched /\ \A u \in Users : Calling(u)
    BY DEF Init, NoRows, Exclusive, AppliedOnceInOrder, NothingTwice, InFlight, Matched, Calling
  <1> QED
    BY <1>1, <1>2, <1>3 DEF IInv

LEMMA RunInv == ASSUME IInv, NEW c \in Commands, Run(c) PROVE IInv'
  <1>1. /\ TypeOK /\ Matched /\ Placed(c) /\ Applying(c) /\ TablesStep(c)
        /\ UNCHANGED <<files, starts, call, calls>> /\ pc[c] \in Steps
    BY RunTables DEF IInv, Sound
  <1>2. TypeOK'
    BY <1>1, TablesTypes, RunLocal DEF TypeOK, TableTypes, LocalTypes
  <1>3. \A d \in Commands : Sound(d)'
    BY RunSound, OthersSound
  <1>4. InFlight(c) /\ \A d \in Commands \ {c} : pc'[d] = pc[d]
    BY <1>1, RunLocal DEF OthersStay, InFlight, Steps
  <1>5. /\ Matched' /\ 1..Len(runs) \subseteq 1..Len(runs')
        /\ \A m \in 1..Len(runs) : \A e \in Engines : Cycles(m, e) # {} => Cycles(m, e)' # {}
    BY <1>1, CyclesStep, TablesGrow DEF Grow
  <1>6. \A u \in Users : Calling(u)'
    BY <1>1, <1>5, CallsStay
  <1> QED
    BY <1>2, <1>3, <1>4, <1>5, <1>6, RunSound, RunNothingTwice, ExclusiveKept DEF IInv

\* Steps that leave the tables and the files alone, and all commands but one.
LEMMA FreshStays ==
  ASSUME NEW d \in Commands, Fresh(d), pc'[d] = pc[d], run'[d] = run[d], fresh'[d] = fresh[d],
         analytics' = analytics
  PROVE  Fresh(d)'
  <1>1. PICK n : n = run[d]
    OBVIOUS
  <1>2. \A e : Cycles(run[d], e)' = Cycles(n, e)
    BY <1>1 DEF Cycles
  <1>3. \A e : Covers(fresh[d], run[d], e)' <=> Covers(fresh[d], n, e)
    BY <1>2 DEF Covers
  <1> QED
    BY <1>1, <1>2, <1>3 DEF Fresh

LEMMA OneCommandMoves ==
  ASSUME IInv, NEW c \in Commands, UNCHANGED <<files, tables, call>>, TypeOK', Sound(c)',
         Exclusive', OthersStay(c)
  PROVE  IInv'
  <1>1. ASSUME NEW d \in Commands \ {c} PROVE Sound(d)'
    <2>1. /\ pc'[d] = pc[d] /\ todo'[d] = todo[d] /\ read'[d] = read[d]
          /\ at'[d] = at[d] /\ run'[d] = run[d] /\ alert'[d] = alert[d]
          /\ fresh'[d] = fresh[d]
          /\ files' = files /\ history' = history /\ runs' = runs /\ cases' = cases
          /\ alerts' = alerts /\ analytics' = analytics
          /\ Sound(d)
      BY DEF OthersStay, tables, IInv
    <2>2. Placed(d)' /\ Scripted(d)'
      BY <2>1 DEF Sound, Placed, Scripted, InFlight, Bootstraps
    <2>3. Recorded' = Recorded
      BY <2>1 DEF Recorded
    <2>4. Applying(d)'
      BY <2>1, <2>3 DEF Sound, Applying
    <2>5. Creating(d)' /\ Opening(d)'
      BY <2>1 DEF Sound, Creating, Opening, RunsOfScenario
    <2>6. Publishing(d)'
      BY <2>1 DEF Sound, Publishing
    <2>7. Fresh(d)'
      BY <2>1, FreshStays DEF Sound
    <2> QED
      BY <2>2, <2>4, <2>5, <2>6, <2>7 DEF Sound
  <1>2. AppliedOnceInOrder' /\ NothingTwice' /\ Matched'
    BY DEF IInv, AppliedOnceInOrder, NothingTwice, Matched, tables
  <1>3. ASSUME NEW u \in Users PROVE Calling(u)'
    BY DEF IInv, Calling, Covers, Cycles, tables
  <1> QED
    BY <1>1, <1>2, <1>3 DEF IInv

LEMMA DieInv == ASSUME IInv, NEW c \in Commands, Die(c) PROVE IInv'
  <1>1. "died" \in Exits /\ Exit(c, "died") /\ TypeOK /\ InFlight(c)
        /\ UNCHANGED <<files, tables, starts, call, calls>>
    BY DEF Die, Exits, IInv
  <1>2. LocalTypes' /\ OthersStay(c) /\ Sound(c)'
    BY <1>1, ExitLocal, AfterExit
  <1>3. TypeOK'
    BY <1>1, <1>2 DEF TypeOK, LocalTypes, tables
  <1>4. Exclusive'
    BY <1>1, <1>2, ExclusiveKept DEF OthersStay
  <1> QED
    BY <1>1, <1>2, <1>3, <1>4, OneCommandMoves

LEMMA StartInv == ASSUME IInv, NEW c \in Commands, Start(c) PROVE IInv'
  <1>1. /\ TypeOK /\ ~InFlight(c) /\ Sound(c)
        /\ Bootstraps(c) => \A d \in Commands : InFlight(d) => ~Bootstraps(d)
        /\ starts' = [starts EXCEPT ![c] = @ + 1]
        /\ todo' = [todo EXCEPT ![c] = Script[c]]
        /\ pc' = [pc EXCEPT ![c] = FirstStep(Script[c][1])]
        /\ exit' = [exit EXCEPT ![c] = "none"]
        /\ UNCHANGED <<files, tables, read, at, run, alert, fresh, call, calls>>
    BY DEF Start, MayStart, IInv
  <1>2. Script[c] \in Seq(Subcommands) /\ Script[c] # <<>>
    BY ScriptAssumption
  <1>3. Script[c][1] \in Subcommands /\ 1 \in 1..Len(Script[c])
    BY <1>2
  <1>4. /\ FirstStep(Script[c][1]) \in {"table", "seed", "run"}
        /\ FirstStep(Script[c][1]) = "run" => Script[c][1] = "bootstrap"
    BY <1>3, FirstStepType
  <1>5. TypeOK'
    <2>1. TableTypes'
      BY <1>1 DEF TypeOK, TableTypes, tables
    <2>2. pc' \in [Commands -> Steps \cup {"idle"}]
      BY <1>1, <1>4 DEF TypeOK, Steps
    <2>3. todo' \in [Commands -> Seq(Subcommands)]
      BY <1>1, <1>2 DEF TypeOK
    <2>4. exit' \in [Commands -> Exits]
      BY <1>1 DEF TypeOK, Exits
    <2>5. starts[c] + 1 \in Nat
      BY <1>1 DEF TypeOK
    <2>6. starts' \in [Commands -> Nat]
      BY <1>1, <2>5 DEF TypeOK
    <2> QED
      BY <1>1, <2>1, <2>2, <2>3, <2>4, <2>6 DEF TypeOK, TableTypes
  <1>6. /\ pc'[c] = FirstStep(Script[c][1]) /\ todo'[c] = Script[c] /\ at'[c] = 1
        /\ fresh'[c] = {}
    BY <1>1 DEF TypeOK, Sound, Placed, Fresh, InFlight, TxSteps
  <1>7. Placed(c)'
    BY <1>2, <1>4, <1>6 DEF Placed, RunSteps, TxSteps, ScenarioSteps, InFlight
  <1>8. pc'[c] = "run" => Bootstraps(c)'
    BY <1>3, <1>4, <1>6 DEF Bootstraps
  <1>9. Scripted(c)'
    BY <1>4, <1>6, <1>8 DEF Scripted, RunSteps, TxSteps, ScenarioSteps, BootstrapSteps
  <1>10. Sound(c)'
    BY <1>4, <1>6, <1>7, <1>9 DEF Sound, Applying, Creating, Opening, Publishing, Fresh, TxSteps
  <1>11. OthersStay(c)
    BY <1>1 DEF OthersStay, TypeOK
  <1>12. Exclusive'
    BY <1>1, <1>11 DEF IInv, Exclusive, InFlight, Bootstraps, OthersStay
  <1> QED
    BY <1>1, <1>5, <1>10, <1>11, <1>12, OneCommandMoves

LEMMA UserInv == ASSUME IInv, NEW u \in Users, User(u) PROVE IInv'
  <1>1. /\ TypeOK /\ Matched /\ UserEffect(u) /\ CallEffect(u)
        /\ UNCHANGED <<files, history, reference, corpus, runs, local, starts>>
    BY UserSteps DEF IInv, UserEffect
  <1>2. alerts' \subseteq AlertRow
    <2>1. \A n \in 1..Len(runs) : [run |-> n, outlet |-> runs[n].outlet, by |-> u] \in AlertRow
      BY <1>1, RowTypes
    <2>2. alerts \subseteq AlertRow
      BY <1>1 DEF TypeOK
    <2> QED
      BY <1>1, <2>1, <2>2 DEF UserEffect
  <1>3. cases' \subseteq CaseRow
    <2>1. \A a \in AlertRow : [alert |-> a, by |-> u] \in CaseRow
      BY DEF CaseRow
    <2>2. cases \subseteq CaseRow
      BY <1>1 DEF TypeOK
    <2> QED
      BY <1>1, <2>1, <2>2 DEF UserEffect
  <1>4. TypeOK' /\ Matched'
    <2>1. CyclesWithUsers(u)
      BY <1>1, UserCycles
    <2> QED
      BY <1>1, <1>2, <1>3, <2>1 DEF TypeOK, Matched, CallEffect, local, CyclesWithUsers
  <1>5. \A c \in Commands : Sound(c)'
    BY <1>1, UserSound
  <1>6. \A m \in 1..Len(runs) : \A e \in Engines : Cycles(m, e) # {} => Cycles(m, e)' # {}
    <2>1. CyclesWithUsers(u)
      BY <1>1, UserCycles
    <2> QED
      BY <1>1, <2>1 DEF Matched, CyclesWithUsers
  <1>7. \A v \in Users : Calling(v)'
    BY <1>1, <1>6, CallsStay DEF CallEffect
  <1>8. Exclusive' /\ AppliedOnceInOrder'
    BY <1>1 DEF IInv, Exclusive, InFlight, Bootstraps, AppliedOnceInOrder, local
  <1> QED
    BY <1>1, <1>4, <1>5, <1>7, <1>8, UserNothingTwice DEF IInv

LEMMA EditFileInv == ASSUME IInv, NEW v \in Versions, EditFile(v) PROVE IInv'
  <1>1. /\ TypeOK /\ \A c \in Commands : pc[c] = "idle"
        /\ files' = [files EXCEPT ![v] = "edited"]
        /\ UNCHANGED <<tables, local, starts, call, calls>>
    BY DEF EditFile, IInv, InFlight
  <1>2. TypeOK' /\ Matched'
    BY <1>1 DEF IInv, TypeOK, Matched, tables, local, Texts
  <1>3. \A d \in Commands : Sound(d)'
    BY <1>1 DEF IInv, Sound, Placed, Scripted, Applying, Creating, Opening, Publishing, Fresh,
                InFlight, RunSteps, TxSteps, ScenarioSteps, BootstrapSteps, local, tables
  <1>4. Exclusive' /\ AppliedOnceInOrder' /\ NothingTwice'
    BY <1>1 DEF IInv, Exclusive, InFlight, Bootstraps, AppliedOnceInOrder, NothingTwice, local,
                tables
  <1>5. ASSUME NEW u \in Users PROVE Calling(u)'
    BY <1>1 DEF IInv, Calling, Covers, Cycles, tables
  <1> QED
    BY <1>2, <1>3, <1>4, <1>5 DEF IInv

LEMMA ResetInv == ASSUME IInv, Reset PROVE IInv'
  <1>1. /\ TypeOK /\ \A c \in Commands : pc[c] = "idle"
        /\ \A u \in Users : call[u] = None
        /\ history' = None
        /\ reference' = FALSE /\ corpus' = FALSE
        /\ runs' = <<>>
        /\ analytics' = <<>> /\ alerts' = {} /\ cases' = {}
        /\ exit' = [c \in Commands |-> "none"]
        /\ UNCHANGED <<files, pc, todo, read, at, run, alert, fresh, starts, call, calls>>
    BY DEF Reset, IInv, InFlight
  <1>2. TypeOK'
    <2>1. /\ runs' \in Seq(RunRow) /\ history' \in Seq(Migration) \cup {None}
          /\ analytics' \in Seq([Engines -> Seq(AnalyticsRow)])
      BY <1>1
    <2>2. exit' \in [Commands -> Exits]
      BY <1>1 DEF Exits
    <2> QED
      BY <1>1, <2>1, <2>2 DEF TypeOK
  <1>3. \A d \in Commands : Sound(d)'
    BY <1>1 DEF IInv, Sound, Placed, Scripted, Applying, Creating, Opening, Publishing, Fresh,
                InFlight, RunSteps, TxSteps, ScenarioSteps, BootstrapSteps
  <1>4. Exclusive' /\ AppliedOnceInOrder' /\ NothingTwice' /\ Matched' /\ \A u \in Users : Calling(u)'
    BY <1>1 DEF Exclusive, InFlight, AppliedOnceInOrder, NothingTwice, Matched, Calling
  <1> QED
    BY <1>2, <1>3, <1>4 DEF IInv

LEMMA StutterInv == ASSUME IInv, UNCHANGED vars PROVE IInv'
  <1>1. TypeOK' /\ Matched'
    BY DEF IInv, TypeOK, Matched, vars, tables, local
  <1>2. ASSUME NEW d \in Commands PROVE Sound(d)'
    <2>1. Placed(d)' /\ Scripted(d)' /\ Creating(d)' /\ Opening(d)' /\ Publishing(d)'
      BY DEF IInv, Sound, Placed, Scripted, Creating, Opening, Publishing, InFlight, Bootstraps,
             RunsOfScenario, vars, tables, local
    <2>2. Recorded' = Recorded
      BY DEF Recorded, vars, tables
    <2>3. Applying(d)'
      BY <2>2 DEF IInv, Sound, Applying, vars, tables, local
    <2>4. Fresh(d)'
      BY FreshStays DEF IInv, Sound, vars, tables, local
    <2> QED
      BY <2>1, <2>3, <2>4 DEF Sound
  <1>3. Exclusive' /\ AppliedOnceInOrder' /\ NothingTwice'
    BY DEF IInv, Exclusive, InFlight, Bootstraps, AppliedOnceInOrder, NothingTwice, vars,
           tables, local
  <1>4. ASSUME NEW u \in Users PROVE Calling(u)'
    BY DEF IInv, Calling, Covers, Cycles, vars, tables
  <1> QED
    BY <1>1, <1>2, <1>3, <1>4 DEF IInv

LEMMA NextInv == ASSUME IInv, [Next]_vars PROVE IInv'
  <1>1. CASE \E c \in Commands : Start(c) \/ Run(c) \/ Die(c)
    BY <1>1, StartInv, RunInv, DieInv
  <1>2. CASE \E u \in Users : User(u)
    BY <1>2, UserInv
  <1>3. CASE \E v \in Versions : EditFile(v)
    BY <1>3, EditFileInv
  <1>4. CASE Reset
    BY <1>4, ResetInv
  <1>5. CASE UNCHANGED vars
    BY <1>5, StutterInv
  <1> QED
    BY <1>1, <1>2, <1>3, <1>4, <1>5 DEF Next

LEMMA Invariance == Spec => []IInv
  BY InitInv, NextInv, PTL DEF Spec

-----------------------------------------------------------------------------
(* The theorems. *)

\* Whatever the commands chain, whenever they die and however often they are
\* started, tables and processes keep their types: no step of a bootstrap is
\* reached without the run, and none opens a case without the alert, it needs.
THEOREM TypeCorrect == Spec => []TypeOK
  BY Invariance, PTL DEF IInv

\* Any number of commands may apply any number of migrations at once and die
\* anywhere (cmd_apply, run_migrations.py:237): each file is applied once, and
\* in order.
THEOREM AppliedOnceInOrderAlways == Spec => []AppliedOnceInOrder
  BY Invariance, PTL DEF IInv

\* After any deaths and restarts of the bootstrap, and whatever transactions of
\* users overlap its own, there is one run per scenario, and bootstraps have
\* added at most one cycle per run and engine, one alert per run and one case.
\* The cycle that is not found (runner.py:412-418, 726-731) may be there twice
\* when the cycle is added, but then the other is a user's.
THEOREM NothingTwiceAlways == Spec => []NothingTwice
  BY Invariance, PTL DEF IInv

\* No migration is put on top of one whose file has changed since it was
\* applied, whichever command applied it (run_migrations.py:241).
THEOREM NothingOnModifiedAlways == Spec => NothingOnModified
  <1> DEFINE Faithful == \A i \in 1..Len(history) : history[i].checksum = files[i]
             Step == history' # history /\ history' # None /\ history # None => Faithful
  <1>1. ASSUME IInv, [Next]_vars, history' # history, history' # None, history # None
        PROVE  Faithful
    <2>1. CASE \E c \in Commands : Run(c)
      <3>1. PICK c \in Commands : Run(c)
        BY <2>1
      <3>2. ApplyMigration(c)
        BY <1>1, <3>1, RunTables DEF TablesStep, IInv, Sound
      <3> QED
        BY <1>1, <3>2, NextInHistory DEF IInv
    <2>2. CASE \E u \in Users : User(u)
      BY <1>1, <2>2, UserSteps DEF UserEffect
    <2>3. CASE ~(\E c \in Commands : Run(c)) /\ ~(\E u \in Users : User(u))
      BY <1>1, <2>3 DEF Next, Start, Die, EditFile, Reset, vars, tables
    <2> QED
      BY <2>1, <2>2, <2>3
  <1>2. IInv /\ [Next]_vars => [Step]_vars
    BY <1>1
  <1> QED
    BY Invariance, <1>2, PTL DEF Spec, NothingOnModified

-----------------------------------------------------------------------------
(* What a command that ends well leaves behind. *)

\* Every bootstrap is given the same outlet; compose and the operators take the
\* default of --outlet-id (bootstrap_demo.py:340).
OneOutlet ==
  \A c, d \in Commands : Bootstraps(c) /\ Bootstraps(d) => OutletOf[c] = OutletOf[d]

Full(c) == Script[c] = FullScript

\* With one outlet, everything in the tables is of that outlet.
AtOneOutlet ==
  \A c \in Commands : Bootstraps(c) =>
    /\ \A n \in 1..Len(runs) : runs[n].outlet = OutletOf[c]
    /\ \A n \in 1..Len(runs) : \A e \in Engines : \A row \in Cycles(n, e) : row.outlet = OutletOf[c]
    /\ \A a \in alerts : a.outlet = OutletOf[c]

\* Alerts are committed with the cycles they were published from.
PublishedWithCycles ==
  \A a \in alerts : \A e \in Engines : a.run \in 1..Len(runs) /\ Cycles(a.run, e) # {}

PublishSteps == {"alerts", "publish", "flags", "dedup", "insert", "published"}
CheckSteps == {"liquidity", "project", "projected", "anomaly", "detect", "detected"}
CaseSteps == {"case", "alert", "open", "opening"}

\* What the migrate container has brought about by the step it is at: the
\* subcommands before, the scenarios before, the checks of the scenario before.
Progress(c) ==
  /\ pc[c] \in {"table", "read", "apply"} => todo[c] = FullScript
  /\ pc[c] \in {"seed", "corpus"} => todo[c] = <<"seed", "bootstrap">>
  /\ pc[c] \in BootstrapSteps => todo[c] = <<"bootstrap">>
  /\ pc[c] \in {"seed", "corpus"} \cup BootstrapSteps => HasTables(LastVersion)
  /\ pc[c] \in {"corpus"} \cup BootstrapSteps => reference
  /\ pc[c] \in BootstrapSteps =>
       corpus /\ \A i \in 1..4 : i < at[c] => Prepared(i, OutletOf[c])
  /\ pc[c] \in CaseSteps => at[c] = 5
  /\ pc[c] \in RunSteps => runs[run[c]].scenario = at[c]
  /\ pc[c] \in PublishSteps => Scenario(c).publish
  /\ pc[c] \in {"dedup", "insert"} => at[c] \in Alerting
  /\ pc[c] = "published" => (at[c] \in Alerting => AlertThere(run[c], OutletOf[c]))
  /\ pc[c] \in CheckSteps => ~Scenario(c).publish
  /\ pc[c] \in {"liquidity", "project", "projected"} => Scenario(c).liquidity
  /\ pc[c] \in {"anomaly", "detect", "detected"} =>
       (Scenario(c).liquidity => Cycles(run[c], "liquidity") # {})

\* What the way a command ended promises.
Ended(c) ==
  /\ exit[c] # "analytics"
  /\ Full(c) => exit[c] \notin {"no table", "no row"} /\ (exit[c] = "ok" => Deployed(c))

Promises ==
  /\ AtOneOutlet
  /\ PublishedWithCycles
  /\ \A c \in Commands : Full(c) => Progress(c)
  /\ \A c \in Commands : Ended(c)

LEMMA PromisesGiveProperties == IInv /\ Promises => OkMeansDeployed /\ RerunsSucceed
  <1> SUFFICES ASSUME IInv, Promises PROVE OkMeansDeployed /\ RerunsSucceed
    OBVIOUS
  <1>1. OkMeansDeployed
    BY DEF Promises, Ended, Full, OkMeansDeployed
  <1>2. ASSUME NEW c \in Commands
        PROVE  /\ exit[c] # "analytics"
               /\ Script[c] = FullScript => exit[c] \notin {"no table", "no row"}
    BY DEF Promises, Ended, Full
  <1>3. ASSUME NEW c \in Commands
        PROVE  /\ pc[c] = "insert" => \A a \in alerts : a.run = run[c] => a.by \in Users
               /\ pc[c] = "opening" => \A k \in cases : k.alert = alert[c] => k.by \in Users
    BY DEF IInv, Sound, Publishing, Opening
  <1> QED
    BY <1>1, <1>2, <1>3 DEF RerunsSucceed

-----------------------------------------------------------------------------
(* What is there stays there while commands and users add to it. *)

RowsStay ==
  /\ Grow
  /\ \A n \in 1..Len(runs) : \A e \in Engines : Cycles(n, e) # {} => Cycles(n, e)' # {}
  /\ alerts \subseteq alerts'
  /\ cases # {} => cases' # {}
  /\ reference => reference'
  /\ corpus => corpus'

LEMMA SubsetLength ==
  ASSUME NEW n \in Nat, NEW m \in Nat, 1..n \subseteq 1..m
  PROVE  n <= m
  <1>1. CASE n = 0
    BY <1>1
  <1>2. CASE n # 0
    <2>1. n \in 1..n
      BY <1>2
    <2> QED
      BY <2>1
  <1> QED
    BY <1>1, <1>2

LEMMA TablesStay ==
  ASSUME TypeOK, TypeOK', RowsStay, HasTables(LastVersion)
  PROVE  HasTables(LastVersion)'
  <1>1. /\ history # None /\ history' # None /\ LastVersion <= Len(history)
        /\ 1..Len(history) \subseteq 1..Len(history')
    BY DEF HasTables, RowsStay, Grow
  <1>2. Len(history) \in Nat /\ Len(history') \in Nat
    BY <1>1 DEF TypeOK
  <1>3. Len(history) <= Len(history')
    BY <1>1, <1>2, SubsetLength
  <1>4. LastVersion <= Len(history')
    BY <1>1, <1>2, <1>3, LastVersionAssumption
  <1> QED
    BY <1>1, <1>4 DEF HasTables

LEMMA CyclesStay ==
  ASSUME RowsStay, NEW n \in 1..Len(runs), NEW e \in Engines, Cycles(n, e) # {}
  PROVE  Cycles(n, e)' # {}
  BY DEF RowsStay

LEMMA AlertStays ==
  ASSUME RowsStay, NEW n, NEW o, AlertThere(n, o)
  PROVE  AlertThere(n, o)'
  BY DEF RowsStay, AlertThere

LEMMA PreparedStays ==
  ASSUME RowsStay, NEW i, NEW o, Prepared(i, o)
  PROVE  Prepared(i, o)'
  <1>1. PICK n \in 1..Len(runs) :
          /\ runs[n].scenario = i
          /\ Scenarios[i].liquidity => Cycles(n, "liquidity") # {}
          /\ Scenarios[i].anomaly => Cycles(n, "anomaly") # {}
          /\ Scenarios[i].publish /\ i \in Alerting => AlertThere(n, o)
    BY DEF Prepared
  <1>2. n \in 1..Len(runs') /\ runs'[n] = runs[n]
    BY DEF RowsStay, Grow
  <1>3. /\ Scenarios[i].liquidity => Cycles(n, "liquidity")' # {}
        /\ Scenarios[i].anomaly => Cycles(n, "anomaly")' # {}
        /\ Scenarios[i].publish /\ i \in Alerting => AlertThere(n, o)'
    BY <1>1, CyclesStay, AlertStays DEF Engines
  <1> QED
    BY <1>1, <1>2, <1>3 DEF Prepared

LEMMA DeployedStays ==
  ASSUME TypeOK, TypeOK', RowsStay, NEW c \in Commands, Deployed(c)
  PROVE  Deployed(c)'
  <1>1. HasTables(LastVersion)'
    BY TablesStay DEF Deployed
  <1>2. \A i \in 1..4 : Prepared(i, OutletOf[c])'
    BY PreparedStays DEF Deployed
  <1> QED
    BY <1>1, <1>2 DEF Deployed, RowsStay

\* A command that another one's step leaves alone keeps its progress and its end.
LEMMA ProgressStays ==
  ASSUME IInv, TypeOK', RowsStay, NEW c \in Commands,
         pc'[c] = pc[c], todo'[c] = todo[c], at'[c] = at[c], run'[c] = run[c], Progress(c)
  PROVE  Progress(c)'
  <1>1. HasTables(LastVersion) => HasTables(LastVersion)'
    BY TablesStay DEF IInv
  <1>2. \A i : Prepared(i, OutletOf[c]) => Prepared(i, OutletOf[c])'
    BY PreparedStays
  <1>3. pc[c] \in RunSteps => runs'[run'[c]] = runs[run[c]]
    BY DEF IInv, Sound, Placed, RowsStay, Grow
  <1>4. Scenario(c)' = Scenario(c)
    BY DEF Scenario
  <1>5. ASSUME pc[c] \in RunSteps, Cycles(run[c], "liquidity") # {}
        PROVE  Cycles(run[c], "liquidity")' # {}
    <2>1. PICK n : n = run[c] /\ n \in 1..Len(runs)
      BY <1>5 DEF IInv, Sound, Placed
    <2>2. Cycles(n, "liquidity")' # {}
      BY <1>5, <2>1, CyclesStay DEF Engines
    <2>3. Cycles(run[c], "liquidity")' = Cycles(n, "liquidity")'
      BY <2>1 DEF Cycles
    <2> QED
      BY <2>2, <2>3
  <1>6. AlertThere(run[c], OutletOf[c]) => AlertThere(run[c], OutletOf[c])'
    BY DEF AlertThere, RowsStay
  <1>7. pc[c] \in {"anomaly", "detect", "detected"} => pc[c] \in RunSteps
    BY DEF RunSteps, TxSteps
  <1> QED
    BY <1>1, <1>2, <1>3, <1>4, <1>5, <1>6, <1>7 DEF Progress, RowsStay

LEMMA EndStays ==
  ASSUME IInv, TypeOK', RowsStay, NEW c \in Commands, exit'[c] = exit[c], Ended(c)
  PROVE  Ended(c)'
  BY DeployedStays DEF Ended, Full, IInv

\* Steps of commands and users only add rows; none is taken away but by reset.
LEMMA RunKeepsRows ==
  ASSUME IInv, NEW c \in Commands, Run(c)
  PROVE  RowsStay /\ TablesStep(c)
  <1>1. TypeOK /\ Matched /\ Placed(c) /\ TablesStep(c)
    BY RunTables DEF IInv, Sound
  <1>2. Grow
    BY <1>1, TablesGrow
  <1>3. \A n \in 1..Len(runs) : \A e \in Engines : Cycles(n, e) # {} => Cycles(n, e)' # {}
    BY <1>1, CyclesStep
  <1>4. alerts \subseteq alerts' /\ (cases # {} => cases' # {})
    BY <1>1 DEF TablesStep
  <1>5. (reference => reference') /\ (corpus => corpus')
    <2>1. reference' \in {reference, TRUE} /\ corpus' \in {corpus, TRUE}
      BY <1>1 DEF TablesStep
    <2>2. (reference' = reference \/ reference' = TRUE) /\ (corpus' = corpus \/ corpus' = TRUE)
      BY <2>1
    <2>3. reference' = TRUE => reference'
      OBVIOUS
    <2>4. corpus' = TRUE => corpus'
      OBVIOUS
    <2>5. reference' = reference => (reference => reference')
      OBVIOUS
    <2>6. corpus' = corpus => (corpus => corpus')
      OBVIOUS
    <2> QED
      BY <2>2, <2>3, <2>4, <2>5, <2>6
  <1> QED
    BY <1>1, <1>2, <1>3, <1>4, <1>5 DEF RowsStay

LEMMA UserKeepsRows ==
  ASSUME IInv, NEW u \in Users, UserEffect(u)
  PROVE  RowsStay
  <1>1. CyclesWithUsers(u) /\ Matched
    BY UserCycles DEF IInv
  <1>2. \A n \in 1..Len(runs) : \A e \in Engines : Cycles(n, e) # {} => Cycles(n, e)' # {}
    BY <1>1 DEF CyclesWithUsers, Matched
  <1>3. alerts \subseteq alerts' /\ (cases # {} => cases' # {})
    BY DEF UserEffect
  <1>4. Grow /\ reference' = reference /\ corpus' = corpus
    BY DEF UserEffect, Grow
  <1> QED
    BY <1>2, <1>3, <1>4 DEF RowsStay

\* With one outlet, no bootstrap meets a cycle of another outlet.
LEMMA OneOutletLooks ==
  ASSUME AtOneOutlet, NEW c \in Commands, Bootstraps(c), run[c] \in 1..Len(runs),
         NEW engine \in Engines, NEW step, LookedUp(c, engine, step)
  PROVE  Looked(c, engine, step)
  BY DEF AtOneOutlet, LookedUp

-----------------------------------------------------------------------------
(* A step of the migrate container makes the progress it stands for. *)

LEMMA FullIsBootstrap ==
  ASSUME NEW c \in Commands, Full(c)
  PROVE  Bootstraps(c)
  BY DEF Full, FullScript, Bootstraps

LEMMA FullSuffixes ==
  /\ Len(FullScript) = 3 /\ FullScript[1] = "apply" /\ FullScript[2] = "seed"
  /\ Tail(FullScript) = <<"seed", "bootstrap">>
  /\ Len(<<"seed", "bootstrap">>) = 2 /\ <<"seed", "bootstrap">>[2] = "bootstrap"
  /\ Tail(<<"seed", "bootstrap">>) = <<"bootstrap">>
  /\ Len(<<"bootstrap">>) = 1
  BY DEF FullScript

\* A command that has failed, been refused or died promises nothing.
LEMMA EndedBadly ==
  ASSUME TypeOK, NEW c \in Commands, NEW how \in {"died", "modified", "conflict", "refused"}, Exit(c, how)
  PROVE  Progress(c)' /\ Ended(c)'
  <1>1. pc'[c] = "idle" /\ exit'[c] = how
    BY ExitEffect DEF Exits
  <1> QED
    BY <1>1 DEF Progress, Ended, RunSteps, TxSteps, ScenarioSteps, BootstrapSteps, PublishSteps, CheckSteps, CaseSteps

\* A subcommand that is not the last one starts the next.
LEMMA NextSubcommandStarts ==
  ASSUME TypeOK, NEW c \in Commands, todo[c] # <<>>, NextSubcommand(c), Len(todo[c]) # 1
  PROVE  /\ todo'[c] = Tail(todo[c]) /\ exit'[c] = exit[c] /\ at'[c] = 1
         /\ pc'[c] = FirstStep(todo[c][2])
  BY NextSubcommandEffect

\* The migrations are through, and the seeds begin.
LEMMA MigratedProgress ==
  ASSUME TypeOK, TypeOK', NEW c \in Commands, Full(c), Ended(c), RowsStay,
         todo[c] = FullScript, NextSubcommand(c), HasTables(LastVersion)'
  PROVE  Progress(c)' /\ Ended(c)'
  <1>1. todo[c] # <<>> /\ Len(todo[c]) # 1
    BY FullSuffixes DEF FullScript
  <1>2. /\ todo'[c] = <<"seed", "bootstrap">> /\ exit'[c] = exit[c]
        /\ pc'[c] = FirstStep("seed")
    BY <1>1, FullSuffixes, NextSubcommandStarts, Zenon
  <1>3. pc'[c] = "seed"
    BY <1>2 DEF FirstStep
  <1>4. Progress(c)'
    BY <1>2, <1>3 DEF Progress, RunSteps, TxSteps, ScenarioSteps, BootstrapSteps, PublishSteps, CheckSteps, CaseSteps
  <1>5. Ended(c)'
    BY <1>2, DeployedStays DEF Ended, Full
  <1> QED
    BY <1>4, <1>5

\* The corpus is there, and the scenarios begin.
LEMMA SeededProgress ==
  ASSUME TypeOK, TypeOK', NEW c \in Commands, Full(c), Ended(c), RowsStay,
         todo[c] = <<"seed", "bootstrap">>, NextSubcommand(c), HasTables(LastVersion)',
         reference', corpus'
  PROVE  Progress(c)' /\ Ended(c)'
  <1>1. todo[c] # <<>> /\ Len(todo[c]) # 1
    BY FullSuffixes
  <1>2. /\ todo'[c] = <<"bootstrap">> /\ exit'[c] = exit[c] /\ at'[c] = 1
        /\ pc'[c] = FirstStep("bootstrap")
    BY <1>1, FullSuffixes, NextSubcommandStarts, Zenon
  <1>3. pc'[c] = "run"
    BY <1>2 DEF FirstStep
  <1>4. \A i \in 1..4 : ~(i < at'[c])
    BY <1>2
  <1>5. Progress(c)'
    BY <1>2, <1>3, <1>4
       DEF Progress, RunSteps, TxSteps, ScenarioSteps, BootstrapSteps, PublishSteps, CheckSteps, CaseSteps
  <1>6. Ended(c)'
    BY <1>2, DeployedStays DEF Ended, Full
  <1> QED
    BY <1>5, <1>6

\* The bootstrap is through, and with it the command.
LEMMA BootstrappedProgress ==
  ASSUME TypeOK, TypeOK', NEW c \in Commands, todo[c] = <<"bootstrap">>, NextSubcommand(c),
         Deployed(c)'
  PROVE  Progress(c)' /\ Ended(c)'
  <1>1. todo[c] # <<>> /\ Len(todo[c]) = 1
    BY FullSuffixes
  <1>2. pc'[c] = "idle" /\ exit'[c] = "ok"
    BY <1>1, ExitEffect DEF NextSubcommand, Exits
  <1> QED
    BY <1>2 DEF Progress, Ended, RunSteps, TxSteps, ScenarioSteps, BootstrapSteps, PublishSteps, CheckSteps, CaseSteps

\* A scenario whose checks are through is prepared, and the next one begins.
LEMMA PreparedProgress ==
  ASSUME IInv, TypeOK', NEW c \in Commands, Full(c), Progress(c), Ended(c), RowsStay,
         pc[c] \in RunSteps, NextScenario(c),
         NEW s \in 1..4, s = at[c], Prepared(s, OutletOf[c])'
  PROVE  Progress(c)' /\ Ended(c)'
  <1>1. /\ TypeOK /\ pc[c] \in BootstrapSteps /\ at[c] \in 1..4 /\ at \in [Commands -> Nat]
    BY DEF IInv, TypeOK, Sound, Placed, ScenarioSteps, BootstrapSteps
  <1>2. Len(Scenarios) = 4
    BY DEF Scenarios
  <1>3. /\ pc'[c] = (IF at[c] < 4 THEN "run" ELSE "case")
        /\ todo' = todo /\ exit' = exit /\ at'[c] = at[c] + 1
    BY <1>1, <1>2 DEF NextScenario, Goto, TypeOK
  <1>4. /\ todo[c] = <<"bootstrap">> /\ HasTables(LastVersion) /\ reference /\ corpus
        /\ \A i \in 1..4 : i < at[c] => Prepared(i, OutletOf[c])
    BY <1>1 DEF Progress
  <1>5. HasTables(LastVersion)' /\ reference' /\ corpus'
    BY <1>1, <1>4, TablesStay DEF RowsStay
  <1>6. \A i \in 1..4 : i < at[c] => Prepared(i, OutletOf[c])'
    BY <1>4, PreparedStays
  <1>7. \A i \in 1..4 : i < at[c] + 1 => i < at[c] \/ i = s
    BY <1>1
  <1>8. \A i \in 1..4 : i < at'[c] => Prepared(i, OutletOf[c])'
    BY <1>3, <1>6, <1>7
  <1>9. at[c] < 4 \/ at'[c] = 5
    BY <1>1, <1>3
  <1>10. Progress(c)'
    BY <1>3, <1>4, <1>5, <1>8, <1>9
       DEF Progress, RunSteps, TxSteps, ScenarioSteps, BootstrapSteps, PublishSteps, CheckSteps, CaseSteps
  <1>11. Ended(c)'
    BY <1>1, <1>3, DeployedStays DEF Ended, Full
  <1> QED
    BY <1>10, <1>11

\* From one check of a scenario to the next.
LEMMA CheckingProgress ==
  ASSUME IInv, TypeOK', NEW c \in Commands, Full(c), Progress(c), Ended(c), RowsStay,
         pc[c] \in ScenarioSteps, NEW step \in RunSteps, Goto(c, step), UNCHANGED at,
         NEW n \in 1..Len(runs'), run'[c] = n, runs'[n].scenario = at[c],
         step \in PublishSteps => Scenario(c).publish,
         step \in {"dedup", "insert"} => at[c] \in Alerting,
         step = "published" => (at[c] \in Alerting => AlertThere(n, OutletOf[c])'),
         step \in CheckSteps => ~Scenario(c).publish,
         step \in {"liquidity", "project", "projected"} => Scenario(c).liquidity,
         step \in {"anomaly", "detect", "detected"} =>
           (Scenario(c).liquidity => Cycles(n, "liquidity")' # {})
  PROVE  Progress(c)' /\ Ended(c)'
  <1>1. /\ TypeOK /\ pc[c] \in BootstrapSteps
    BY DEF IInv, BootstrapSteps
  <1>2. pc'[c] = step /\ todo' = todo /\ exit' = exit /\ at'[c] = at[c]
    BY <1>1 DEF Goto, TypeOK
  <1>3. /\ todo[c] = <<"bootstrap">> /\ HasTables(LastVersion) /\ reference /\ corpus
        /\ \A i \in 1..4 : i < at[c] => Prepared(i, OutletOf[c])
    BY <1>1 DEF Progress
  <1>4. HasTables(LastVersion)' /\ reference' /\ corpus'
    BY <1>1, <1>3, TablesStay DEF RowsStay
  <1>5. \A i \in 1..4 : i < at'[c] => Prepared(i, OutletOf[c])'
    BY <1>2, <1>3, PreparedStays
  <1>6. Scenario(c)' = Scenario(c)
    BY DEF Scenario
  <1>7. /\ Cycles(run[c], "liquidity")' = Cycles(n, "liquidity")'
        /\ AlertThere(run[c], OutletOf[c])' <=> AlertThere(n, OutletOf[c])'
    BY DEF Cycles, AlertThere
  <1>8. Progress(c)'
    BY <1>2, <1>3, <1>4, <1>5, <1>6, <1>7
       DEF Progress, RunSteps, TxSteps, ScenarioSteps, BootstrapSteps, PublishSteps, CheckSteps, CaseSteps
  <1>9. Ended(c)'
    BY <1>1, <1>2, DeployedStays DEF Ended, Full
  <1> QED
    BY <1>8, <1>9

LEMMA ApplyingProgress ==
  ASSUME IInv, TypeOK', NEW c \in Commands, Full(c), Progress(c), Ended(c), RowsStay,
         EnsureHistoryTable(c) \/ ReadHistory(c) \/ SkipApplied(c) \/ RefuseModified(c)
           \/ ApplyMigration(c) \/ RefuseTaken(c) \/ AllApplied(c)
  PROVE  Progress(c)' /\ Ended(c)'
  <1>1. TypeOK /\ pc[c] \in {"table", "read", "apply"} /\ todo[c] = FullScript
    BY DEF IInv, Progress, EnsureHistoryTable, ReadHistory, SkipApplied, RefuseModified,
           ApplyMigration, RefuseTaken, AllApplied
  <1>2. CASE RefuseModified(c) \/ RefuseTaken(c)
    BY <1>1, <1>2, EndedBadly DEF RefuseModified, RefuseTaken, Fail
  <1>3. CASE AllApplied(c)
    <2>1. /\ pc[c] = "apply" /\ at[c] \notin Versions /\ NextSubcommand(c) /\ history' = history
      BY <1>3 DEF AllApplied, tables
    <2>2. history # None /\ at[c] - 1 <= Len(history) /\ at[c] \in 1..(LastVersion + 1)
      BY <2>1 DEF IInv, Sound, Placed, Applying
    <2>3. at[c] = LastVersion + 1
      BY <2>1, <2>2, LastVersionAssumption DEF Versions
    <2>4. history \in Seq(Migration) /\ LastVersion \in Nat
      BY <1>1, <2>2, LastVersionAssumption DEF TypeOK
    <2>5. LastVersion <= Len(history)
      BY <2>2, <2>3, <2>4
    <2>6. HasTables(LastVersion)'
      BY <2>1, <2>2, <2>5 DEF HasTables
    <2> QED
      BY <1>1, <2>1, <2>6, MigratedProgress
  <1>4. CASE EnsureHistoryTable(c) \/ ReadHistory(c) \/ SkipApplied(c) \/ ApplyMigration(c)
    <2>1. todo[c][1] = "apply"
      BY <1>1, FullSuffixes
    <2>2. pc'[c] \in {"read", "apply"} /\ todo' = todo /\ exit' = exit
      BY <1>1, <1>4, <2>1
         DEF EnsureHistoryTable, ReadHistory, SkipApplied, ApplyMigration, Goto, TypeOK
    <2>3. Progress(c)'
      BY <1>1, <2>2 DEF Progress, RunSteps, TxSteps, ScenarioSteps, BootstrapSteps, PublishSteps, CheckSteps, CaseSteps
    <2>4. Ended(c)'
      BY <2>2, EndStays
    <2> QED
      BY <2>3, <2>4
  <1> QED
    BY <1>2, <1>3, <1>4

\* Tables a subcommand needs are tables of the last migration or before.
LEMMA NeededTables ==
  ASSUME TypeOK, HasTables(LastVersion), NEW s \in {"seed", "corpus", "bootstrap"}
  PROVE  HasTables(NeededBy[s])
  <1>1. history # None /\ LastVersion <= Len(history)
    BY DEF HasTables
  <1>2. history \in Seq(Migration)
    BY <1>1 DEF TypeOK
  <1>3. Len(history) \in Nat /\ LastVersion \in Nat /\ NeededBy[s] \in 0..LastVersion
    BY <1>2, LastVersionAssumption, NeededAssumption
  <1>4. NeededBy[s] <= Len(history)
    BY <1>1, <1>3
  <1> QED
    BY <1>1, <1>4 DEF HasTables

LEMMA SeedingProgress ==
  ASSUME IInv, TypeOK', NEW c \in Commands, Full(c), Progress(c), Ended(c), RowsStay,
         SeedReference(c) \/ SeedCorpus(c)
  PROVE  Progress(c)' /\ Ended(c)'
  <1>1. TypeOK /\ pc[c] \in {"seed", "corpus"}
    BY DEF IInv, SeedReference, SeedCorpus
  <1>2. /\ todo[c] = <<"seed", "bootstrap">> /\ HasTables(LastVersion)
        /\ pc[c] = "corpus" => reference
    BY <1>1 DEF Progress
  <1>3. HasTables(LastVersion)'
    BY <1>1, <1>2, TablesStay
  <1>4. HasTables(NeededBy["seed"]) /\ HasTables(NeededBy["corpus"])
    BY <1>1, <1>2, NeededTables
  <1>5. CASE SeedReference(c)
    <2>1. reference' = TRUE /\ pc'[c] = "corpus" /\ todo' = todo /\ exit' = exit
      BY <1>1, <1>4, <1>5 DEF SeedReference, Goto, TypeOK
    <2>2. Progress(c)'
      BY <1>2, <1>3, <2>1
         DEF Progress, RunSteps, TxSteps, ScenarioSteps, BootstrapSteps, PublishSteps, CheckSteps, CaseSteps
    <2>3. Ended(c)'
      BY <2>1, EndStays
    <2> QED
      BY <2>2, <2>3
  <1>6. CASE SeedCorpus(c)
    <2>1. reference /\ reference' = reference /\ corpus' = TRUE /\ NextSubcommand(c)
      BY <1>2, <1>4, <1>6 DEF SeedCorpus
    <2> QED
      BY <1>1, <1>2, <1>3, <2>1, SeededProgress
  <1> QED
    BY <1>5, <1>6

LEMMA RunningProgress ==
  ASSUME IInv, TypeOK', NEW c \in Commands, Full(c), Progress(c), Ended(c), RowsStay,
         LookUpRun(c) \/ CreateRun(c)
  PROVE  Progress(c)' /\ Ended(c)'
  <1>1. TypeOK /\ pc[c] \in {"run", "create"} /\ pc[c] \in ScenarioSteps /\ Placed(c)
    BY DEF IInv, Sound, LookUpRun, CreateRun, ScenarioSteps
  <1>2. /\ todo[c] = <<"bootstrap">> /\ HasTables(LastVersion) /\ reference
        /\ at[c] \in 1..4
    BY <1>1 DEF Progress, Placed, BootstrapSteps
  <1>3. HasTables(NeededBy["bootstrap"])
    BY <1>1, <1>2, NeededTables
  <1>4. /\ FirstCheck(Scenario(c)) \in {"alerts", "liquidity", "anomaly"}
        /\ FirstCheck(Scenario(c)) = "alerts" <=> Scenario(c).publish
        /\ FirstCheck(Scenario(c)) = "liquidity" => Scenario(c).liquidity
        /\ FirstCheck(Scenario(c)) = "anomaly" => ~Scenario(c).liquidity
    BY DEF FirstCheck
  <1> DEFINE step == FirstCheck(Scenario(c))
  <1>5. /\ step \in RunSteps
        /\ step \notin {"dedup", "insert", "published"}
        /\ step \in PublishSteps => Scenario(c).publish
        /\ step \in CheckSteps => ~Scenario(c).publish
        /\ step \in {"liquidity", "project", "projected"} => Scenario(c).liquidity
        /\ step \in {"anomaly", "detect", "detected"} => ~Scenario(c).liquidity
    BY <1>4 DEF RunSteps, PublishSteps, CheckSteps
  <1> HIDE DEF step
  <1>6. ASSUME NEW n \in 1..Len(runs'), run'[c] = n, runs'[n].scenario = at[c],
               Goto(c, step), at' = at
        PROVE  Progress(c)' /\ Ended(c)'
    BY <1>1, <1>5, <1>6, CheckingProgress
  <1>7. CASE LookUpRun(c)
    <2>1. CASE RunsOfScenario(c) = {}
      <3>1. pc'[c] = "create" /\ todo' = todo /\ exit' = exit /\ at' = at
        BY <1>1, <1>3, <1>7, <2>1 DEF LookUpRun, Goto, TypeOK
      <3>2. /\ HasTables(LastVersion)' /\ reference' /\ corpus'
            /\ \A i \in 1..4 : i < at[c] => Prepared(i, OutletOf[c])'
        BY <1>1, <1>2, TablesStay, PreparedStays DEF Progress, BootstrapSteps, RowsStay
      <3>3. Progress(c)'
        BY <1>2, <3>1, <3>2
           DEF Progress, RunSteps, TxSteps, ScenarioSteps, BootstrapSteps, PublishSteps, CheckSteps, CaseSteps
      <3> QED
        BY <3>1, <3>3, EndStays
    <2>2. CASE RunsOfScenario(c) # {}
      <3>1. PICK n \in RunsOfScenario(c) : run' = [run EXCEPT ![c] = n]
        BY <1>3, <1>7, <2>2 DEF LookUpRun
      <3>2. Goto(c, step) /\ at' = at /\ runs' = runs
        BY <1>3, <1>7, <2>2 DEF LookUpRun, tables, step
      <3>3. n \in 1..Len(runs') /\ runs'[n].scenario = at[c] /\ run'[c] = n
        BY <1>1, <3>1, <3>2 DEF RunsOfScenario, TypeOK
      <3> QED
        BY <1>6, <3>2, <3>3
    <2> QED
      BY <2>1, <2>2
  <1>8. CASE CreateRun(c)
    <2>1. /\ runs' = Append(runs, NewRun(c)) /\ NewRun(c).scenario = at[c]
          /\ run' = [run EXCEPT ![c] = Len(runs) + 1]
          /\ Goto(c, step) /\ at' = at /\ pc[c] = "create"
      BY <1>2, <1>8 DEF CreateRun, step, NewRun
    <2>2. /\ Len(runs') = Len(runs) + 1 /\ Len(runs) \in Nat
          /\ runs'[Len(runs) + 1] = NewRun(c)
      BY <1>1, <2>1, RunsGrow
    <2>3. /\ Len(runs) + 1 \in 1..Len(runs') /\ runs'[Len(runs) + 1].scenario = at[c]
          /\ run'[c] = Len(runs) + 1
      BY <1>1, <2>1, <2>2 DEF TypeOK
    <2> QED
      BY <1>6, <2>1, <2>3
  <1> QED
    BY <1>7, <1>8

\* The engines a transaction covers have cycles when it commits.
LEMMA CoveredIsThere ==
  ASSUME IInv, NEW c \in Commands, TablesStep(c), CyclesCommitted(c), NEW n, n = run[c],
         NEW e \in Engines, Covers(fresh[c], run[c], e)
  PROVE  Cycles(n, e)' # {}
  <1>1. TypeOK /\ Matched /\ Placed(c)
    BY DEF IInv, Sound
  <1>2. \A m : m = run[c] => \A f \in Engines : Covers(fresh[c], m, f) => Cycles(m, f)' # {}
    BY <1>1, CyclesStep
  <1> QED
    BY <1>2

LEMMA Commits ==
  ASSUME NEW c \in Commands, CommitCycles(c)
  PROVE  CyclesCommitted(c)
  BY DEF CommitCycles, CyclesCommitted, CommitSteps

\* What the checks of a scenario have to bring about.
LEMMA ScenarioPrepared ==
  ASSUME IInv, RowsStay, NEW c \in Commands, pc[c] \in RunSteps, Progress(c), NEW n, n = run[c],
         NEW s, s = at[c],
         Scenario(c).liquidity => Cycles(n, "liquidity")' # {},
         Scenario(c).anomaly => Cycles(n, "anomaly")' # {},
         Scenario(c).publish /\ s \in Alerting => AlertThere(n, OutletOf[c])'
  PROVE  Prepared(s, OutletOf[c])'
  <1>1. n \in 1..Len(runs') /\ runs'[n].scenario = s
    BY DEF IInv, Sound, Placed, RowsStay, Grow, Progress
  <1> QED
    BY <1>1 DEF Prepared, Scenario

\* What is known of a command at a step of a scenario that has its run.
LEMMA AtRunStep ==
  ASSUME IInv, NEW c \in Commands, pc[c] \in RunSteps, Progress(c), RowsStay,
         NEW n, n = run[c], NEW s, s = at[c]
  PROVE  /\ TypeOK /\ Matched /\ Placed(c) /\ Fresh(c)
         /\ pc[c] \in ScenarioSteps /\ s \in 1..4 /\ n \in 1..Len(runs) /\ n \in 1..Len(runs')
         /\ runs'[n].scenario = s
  BY DEF IInv, Sound, Placed, ScenarioSteps, Progress, RowsStay, Grow

LEMMA CheckAlertsProgress ==
  ASSUME IInv, TypeOK', AtOneOutlet, PublishedWithCycles,
         NEW c \in Commands, Full(c), Bootstraps(c), Progress(c), Ended(c), RowsStay,
         CheckAlerts(c)
  PROVE  Progress(c)' /\ Ended(c)'
  <1>1. PICK n, s : n = run[c] /\ s = at[c]
    OBVIOUS
  <1>2. pc[c] = "alerts" /\ pc[c] \in RunSteps /\ pc[c] \in PublishSteps
    BY DEF CheckAlerts, RunSteps, PublishSteps
  <1>3. /\ TypeOK /\ pc[c] \in ScenarioSteps /\ s \in 1..4 /\ n \in 1..Len(runs)
        /\ n \in 1..Len(runs') /\ runs'[n].scenario = s
    BY <1>1, <1>2, AtRunStep
  <1>4. Scenario(c).publish
    BY <1>2 DEF Progress
  <1>5. CASE \E a \in alerts : a.run = run[c]
    <2>1. PICK a \in alerts : a.run = n
      BY <1>1, <1>5
    <2>2. AlertThere(n, OutletOf[c])
      BY <2>1 DEF AtOneOutlet, AlertThere
    <2>3. \A e \in Engines : Cycles(n, e) # {}
      BY <2>1 DEF PublishedWithCycles
    <2>4. AlertThere(n, OutletOf[c])' /\ \A e \in Engines : Cycles(n, e)' # {}
      BY <1>3, <2>2, <2>3, AlertStays, CyclesStay
    <2>5. NextScenario(c)
      BY <1>5 DEF CheckAlerts
    <2>6. Prepared(s, OutletOf[c])'
      BY <1>1, <1>2, <2>4, ScenarioPrepared DEF Engines
    <2> QED
      BY <1>1, <1>2, <1>3, <2>5, <2>6, PreparedProgress
  <1>6. CASE ~\E a \in alerts : a.run = run[c]
    <2>1. Goto(c, "publish") /\ at' = at /\ run'[c] = n
      BY <1>1, <1>6 DEF CheckAlerts
    <2>2. "publish" \in RunSteps /\ "publish" \notin CheckSteps
      BY DEF RunSteps, CheckSteps
    <2> QED
      BY <1>1, <1>3, <1>4, <2>1, <2>2, CheckingProgress
  <1> QED
    BY <1>5, <1>6

\* Within a publication: each engine's cycles are looked up.
LEMMA PublishEnginesProgress ==
  ASSUME IInv, TypeOK', AtOneOutlet,
         NEW c \in Commands, Full(c), Bootstraps(c), Progress(c), Ended(c), RowsStay,
         PublishLiquidity(c) \/ PublishAnomalies(c)
  PROVE  Progress(c)' /\ Ended(c)'
  <1>1. PICK n, s : n = run[c] /\ s = at[c]
    OBVIOUS
  <1>2. pc[c] \in {"publish", "flags"} /\ pc[c] \in RunSteps /\ pc[c] \in PublishSteps
    BY DEF PublishLiquidity, PublishAnomalies, RunSteps, TxSteps, PublishSteps
  <1>3. /\ TypeOK /\ Matched /\ Placed(c) /\ pc[c] \in ScenarioSteps /\ s \in 1..4
        /\ n \in 1..Len(runs) /\ n \in 1..Len(runs') /\ runs'[n].scenario = s
    BY <1>1, <1>2, AtRunStep
  <1>4. Scenario(c).publish
    BY <1>2 DEF Progress
  <1>5. \E e \in Engines : \E step \in {"flags", "dedup", "published"} :
          /\ LookedUp(c, e, step)
          /\ step = "dedup" => at[c] \in Alerting
          /\ step = "published" => at[c] \notin Alerting
    <2>1. CASE PublishLiquidity(c)
      BY <1>3, <2>1, LookUps DEF Engines
    <2>2. CASE PublishAnomalies(c)
      <3>1. PICK step \in {"dedup", "published"} :
              LookedUp(c, "anomaly", step) /\ (step = "dedup" <=> at[c] \in Alerting)
        BY <1>3, <2>2, LookUps
      <3> QED
        BY <3>1 DEF Engines
    <2> QED
      BY <2>1, <2>2
  <1>6. PICK e \in Engines, step \in {"flags", "dedup", "published"} :
          /\ LookedUp(c, e, step)
          /\ step = "dedup" => at[c] \in Alerting
          /\ step = "published" => at[c] \notin Alerting
    BY <1>5
  <1>7. Looked(c, e, step)
    BY <1>1, <1>3, <1>6, OneOutletLooks
  <1>8. Goto(c, step) /\ at' = at /\ run'[c] = n
    BY <1>1, <1>7 DEF Looked
  <1>9. step \in RunSteps /\ step \notin CheckSteps
    BY DEF RunSteps, TxSteps, CheckSteps
  <1> QED
    BY <1>1, <1>3, <1>4, <1>6, <1>8, <1>9, CheckingProgress

LEMMA LookUpAlertProgress ==
  ASSUME IInv, TypeOK', NEW c \in Commands, Full(c), Progress(c), Ended(c), RowsStay,
         LookUpAlert(c)
  PROVE  Progress(c)' /\ Ended(c)'
  <1>1. PICK n, s : n = run[c] /\ s = at[c]
    OBVIOUS
  <1>2. pc[c] = "dedup" /\ pc[c] \in RunSteps /\ pc[c] \in PublishSteps
    BY DEF LookUpAlert, RunSteps, TxSteps, PublishSteps
  <1>3. /\ pc[c] \in ScenarioSteps /\ s \in 1..4 /\ n \in 1..Len(runs') /\ runs'[n].scenario = s
    BY <1>1, <1>2, AtRunStep
  <1>4. Scenario(c).publish /\ at[c] \in Alerting
    BY <1>2 DEF Progress
  <1>5. at' = at /\ run'[c] = n
    BY <1>1 DEF LookUpAlert
  <1>6. \E step \in {"published", "insert"} :
          Goto(c, step) /\ (step = "published" => AlertThere(n, OutletOf[c]))
    BY <1>1 DEF LookUpAlert
  <1>7. PICK step \in {"published", "insert"} :
          Goto(c, step) /\ (step = "published" => AlertThere(n, OutletOf[c]))
    BY <1>6
  <1>8. step = "published" => AlertThere(n, OutletOf[c])'
    BY <1>7, AlertStays
  <1>9. step \in RunSteps /\ step \notin CheckSteps
    BY DEF RunSteps, TxSteps, CheckSteps
  <1> QED
    BY <1>1, <1>3, <1>4, <1>5, <1>7, <1>8, <1>9, CheckingProgress

\* The alert is committed with both engines' cycles, or refused.
LEMMA InsertAlertProgress ==
  ASSUME IInv, TypeOK', NEW c \in Commands, Full(c), Progress(c), Ended(c), RowsStay,
         TablesStep(c), InsertAlert(c)
  PROVE  Progress(c)' /\ Ended(c)'
  <1>1. PICK n, s : n = run[c] /\ s = at[c]
    OBVIOUS
  <1>2. pc[c] = "insert" /\ pc[c] \in RunSteps
    BY DEF InsertAlert, RunSteps, TxSteps
  <1>3. TypeOK /\ Fresh(c) /\ s \in 1..4
    BY <1>1, <1>2, AtRunStep
  <1>4. CASE AlertThere(run[c], OutletOf[c])
    BY <1>3, <1>4, EndedBadly DEF InsertAlert, Fail
  <1>5. CASE ~AlertThere(run[c], OutletOf[c])
    <2>1. CyclesCommitted(c) /\ NextScenario(c)
      BY <1>5 DEF InsertAlert, CyclesCommitted, CommitSteps
    <2>2. \A e \in Engines : Covers(fresh[c], run[c], e)
      BY <1>2, <1>3 DEF Fresh, Engines
    <2>3. \A e \in Engines : Cycles(n, e)' # {}
      BY <1>1, <2>1, <2>2, CoveredIsThere
    <2>4. alerts' = alerts \cup {NewAlert(c)}
      BY <1>5 DEF InsertAlert, NewAlert
    <2>5. AlertThere(n, OutletOf[c])'
      <3>1. NewAlert(c) \in alerts' /\ NewAlert(c).run = n /\ NewAlert(c).outlet = OutletOf[c]
        BY <1>1, <2>4 DEF NewAlert
      <3>2. \E a \in alerts' : a.run = n /\ a.outlet = OutletOf[c]
        BY <3>1
      <3> QED
        BY <3>2 DEF AlertThere
    <2>6. Prepared(s, OutletOf[c])'
      BY <1>1, <1>2, <2>3, <2>5, ScenarioPrepared DEF Engines
    <2> QED
      BY <1>1, <1>2, <1>3, <2>1, <2>6, PreparedProgress
  <1> QED
    BY <1>4, <1>5

\* The liquidity check is through.
LEMMA AfterLiquidityProgress ==
  ASSUME IInv, TypeOK', NEW c \in Commands, Full(c), Progress(c), Ended(c), RowsStay,
         pc[c] \in {"liquidity", "projected"}, NEW n, n = run[c], Cycles(n, "liquidity")' # {},
         AfterLiquidity(c), run' = run
  PROVE  Progress(c)' /\ Ended(c)'
  <1>1. PICK s : s = at[c]
    OBVIOUS
  <1>2. pc[c] \in RunSteps /\ pc[c] \in CheckSteps
    BY DEF RunSteps, TxSteps, CheckSteps
  <1>3. /\ TypeOK /\ pc[c] \in ScenarioSteps /\ s \in 1..4 /\ n \in 1..Len(runs)
        /\ n \in 1..Len(runs') /\ runs'[n].scenario = at[c]
    BY <1>1, <1>2, AtRunStep
  <1>4. ~Scenario(c).publish
    BY <1>2 DEF Progress
  <1>5. CASE Scenario(c).anomaly
    <2>1. Goto(c, "anomaly") /\ at' = at /\ run'[c] = n
      BY <1>5 DEF AfterLiquidity
    <2>2. "anomaly" \in RunSteps /\ "anomaly" \notin PublishSteps
      BY DEF RunSteps, PublishSteps
    <2> QED
      BY <1>3, <1>4, <2>1, <2>2, CheckingProgress
  <1>6. CASE ~Scenario(c).anomaly
    <2>1. NextScenario(c)
      BY <1>6 DEF AfterLiquidity
    <2>2. Prepared(s, OutletOf[c])'
      BY <1>1, <1>2, <1>4, <1>6, ScenarioPrepared
    <2> QED
      BY <1>1, <1>2, <1>3, <2>1, <2>2, PreparedProgress
  <1> QED
    BY <1>5, <1>6

\* Transactions that insert no alert are committed.
LEMMA CommitCyclesProgress ==
  ASSUME IInv, TypeOK', NEW c \in Commands, Full(c), Progress(c), Ended(c), RowsStay,
         TablesStep(c), CommitCycles(c)
  PROVE  Progress(c)' /\ Ended(c)'
  <1>1. PICK n, s : n = run[c] /\ s = at[c]
    OBVIOUS
  <1>2. pc[c] \in {"published", "projected", "detected"} /\ pc[c] \in RunSteps
    BY DEF CommitCycles, RunSteps, TxSteps
  <1>3. TypeOK /\ Fresh(c) /\ s \in 1..4 /\ n \in 1..Len(runs)
    BY <1>1, <1>2, AtRunStep
  <1>4. CyclesCommitted(c) /\ run' = run
    BY Commits DEF CommitCycles
  <1>5. "liquidity" \in Engines /\ "anomaly" \in Engines
    BY DEF Engines
  <1>6. pc[c] \in {"published", "projected"} => Cycles(n, "liquidity")' # {}
    BY <1>1, <1>3, <1>4, <1>5, CoveredIsThere DEF Fresh
  <1>7. pc[c] \in {"published", "detected"} => Cycles(n, "anomaly")' # {}
    BY <1>1, <1>3, <1>4, <1>5, CoveredIsThere DEF Fresh
  <1>8. CASE pc[c] = "projected"
    <2>1. AfterLiquidity(c)
      BY <1>8 DEF CommitCycles
    <2> QED
      BY <1>1, <1>4, <1>6, <1>8, <2>1, AfterLiquidityProgress
  <1>9. CASE pc[c] = "published"
    <2>1. NextScenario(c)
      BY <1>9 DEF CommitCycles
    <2>2. s \in Alerting => AlertThere(n, OutletOf[c])
      BY <1>1, <1>9 DEF Progress
    <2>3. s \in Alerting => AlertThere(n, OutletOf[c])'
      BY <2>2, AlertStays
    <2>4. Prepared(s, OutletOf[c])'
      BY <1>1, <1>2, <1>6, <1>7, <1>9, <2>3, ScenarioPrepared
    <2> QED
      BY <1>1, <1>2, <1>3, <2>1, <2>4, PreparedProgress
  <1>10. CASE pc[c] = "detected"
    <2>1. NextScenario(c)
      BY <1>10 DEF CommitCycles
    <2>2. ~Scenario(c).publish /\ (Scenario(c).liquidity => Cycles(n, "liquidity") # {})
      BY <1>1, <1>10 DEF Progress, CheckSteps
    <2>3. Scenario(c).liquidity => Cycles(n, "liquidity")' # {}
      BY <1>3, <1>5, <2>2, CyclesStay
    <2>4. Prepared(s, OutletOf[c])'
      BY <1>1, <1>2, <1>7, <1>10, <2>2, <2>3, ScenarioPrepared
    <2> QED
      BY <1>1, <1>2, <1>3, <2>1, <2>4, PreparedProgress
  <1> QED
    BY <1>2, <1>8, <1>9, <1>10

LEMMA ProjectingProgress ==
  ASSUME IInv, TypeOK', AtOneOutlet,
         NEW c \in Commands, Full(c), Bootstraps(c), Progress(c), Ended(c), RowsStay,
         CheckLiquidity(c) \/ RunLiquidity(c)
  PROVE  Progress(c)' /\ Ended(c)'
  <1>1. PICK n, s : n = run[c] /\ s = at[c]
    OBVIOUS
  <1>2. pc[c] \in {"liquidity", "project"} /\ pc[c] \in RunSteps /\ pc[c] \in CheckSteps
    BY DEF CheckLiquidity, RunLiquidity, RunSteps, CheckSteps
  <1>3. /\ TypeOK /\ Matched /\ Placed(c) /\ pc[c] \in ScenarioSteps
        /\ n \in 1..Len(runs) /\ n \in 1..Len(runs') /\ runs'[n].scenario = at[c]
    BY <1>1, <1>2, AtRunStep
  <1>4. ~Scenario(c).publish /\ Scenario(c).liquidity
    BY <1>2 DEF Progress
  <1>5. "liquidity" \in Engines
    BY DEF Engines
  <1>6. ASSUME NEW step \in {"project", "projected"}, Goto(c, step), at' = at, run' = run
        PROVE  Progress(c)' /\ Ended(c)'
    <2>1. step \in RunSteps /\ step \notin PublishSteps /\ run'[c] = n
      BY <1>1, <1>6 DEF RunSteps, TxSteps, PublishSteps
    <2> QED
      BY <1>3, <1>4, <1>6, <2>1, CheckingProgress
  <1>7. CASE CheckLiquidity(c)
    <2>1. CASE HasCycleAt(run[c], "liquidity", OutletOf[c])
      <3>1. Cycles(n, "liquidity") # {}
        BY <1>1, <2>1 DEF HasCycleAt
      <3>2. Cycles(n, "liquidity")' # {}
        BY <1>3, <1>5, <3>1, CyclesStay
      <3>3. AfterLiquidity(c) /\ run' = run /\ pc[c] = "liquidity"
        BY <1>7, <2>1 DEF CheckLiquidity
      <3> QED
        BY <1>1, <3>2, <3>3, AfterLiquidityProgress
    <2>2. CASE ~HasCycleAt(run[c], "liquidity", OutletOf[c])
      BY <1>6, <1>7, <2>2 DEF CheckLiquidity
    <2> QED
      BY <2>1, <2>2
  <1>8. CASE RunLiquidity(c)
    <2>1. LookedUp(c, "liquidity", "projected")
      BY <1>3, <1>8, LookUps
    <2>2. Looked(c, "liquidity", "projected")
      BY <1>1, <1>3, <1>5, <2>1, OneOutletLooks
    <2> QED
      BY <1>6, <2>2 DEF Looked
  <1> QED
    BY <1>7, <1>8

LEMMA DetectingProgress ==
  ASSUME IInv, TypeOK', AtOneOutlet,
         NEW c \in Commands, Full(c), Bootstraps(c), Progress(c), Ended(c), RowsStay,
         CheckAnomaly(c) \/ RunAnomalies(c)
  PROVE  Progress(c)' /\ Ended(c)'
  <1>1. PICK n, s : n = run[c] /\ s = at[c]
    OBVIOUS
  <1>2. pc[c] \in {"anomaly", "detect"} /\ pc[c] \in RunSteps /\ pc[c] \in CheckSteps
    BY DEF CheckAnomaly, RunAnomalies, RunSteps, CheckSteps
  <1>3. /\ TypeOK /\ Matched /\ Placed(c) /\ pc[c] \in ScenarioSteps /\ s \in 1..4
        /\ n \in 1..Len(runs) /\ n \in 1..Len(runs') /\ runs'[n].scenario = at[c]
    BY <1>1, <1>2, AtRunStep
  <1>4. ~Scenario(c).publish /\ (Scenario(c).liquidity => Cycles(n, "liquidity") # {})
    BY <1>1, <1>2 DEF Progress
  <1>5. "liquidity" \in Engines /\ "anomaly" \in Engines
    BY DEF Engines
  <1>6. Scenario(c).liquidity => Cycles(n, "liquidity")' # {}
    BY <1>3, <1>4, <1>5, CyclesStay
  <1>7. ASSUME NEW step \in {"detect", "detected"}, Goto(c, step), at' = at, run' = run
        PROVE  Progress(c)' /\ Ended(c)'
    <2>1. step \in RunSteps /\ step \notin PublishSteps /\ run'[c] = n
      BY <1>1, <1>7 DEF RunSteps, TxSteps, PublishSteps
    <2> QED
      BY <1>3, <1>4, <1>6, <1>7, <2>1, CheckingProgress
  <1>8. CASE CheckAnomaly(c)
    <2>1. CASE HasCycleAt(run[c], "anomaly", OutletOf[c]) /\ at[c] \in Flagging
      <3>1. Cycles(n, "anomaly") # {}
        BY <1>1, <2>1 DEF HasCycleAt
      <3>2. Cycles(n, "anomaly")' # {}
        BY <1>3, <1>5, <3>1, CyclesStay
      <3>3. NextScenario(c)
        BY <1>8, <2>1 DEF CheckAnomaly
      <3>4. Prepared(s, OutletOf[c])'
        BY <1>1, <1>2, <1>4, <1>6, <3>2, ScenarioPrepared
      <3> QED
        BY <1>1, <1>2, <1>3, <3>3, <3>4, PreparedProgress
    <2>2. CASE ~(HasCycleAt(run[c], "anomaly", OutletOf[c]) /\ at[c] \in Flagging)
      BY <1>7, <1>8, <2>2 DEF CheckAnomaly
    <2> QED
      BY <2>1, <2>2
  <1>9. CASE RunAnomalies(c)
    <2>1. LookedUp(c, "anomaly", "detected")
      BY <1>3, <1>9, LookUps
    <2>2. Looked(c, "anomaly", "detected")
      BY <1>1, <1>3, <1>5, <2>1, OneOutletLooks
    <2> QED
      BY <1>7, <2>2 DEF Looked
  <1> QED
    BY <1>8, <1>9

LEMMA CaseProgress ==
  ASSUME IInv, TypeOK', NEW c \in Commands, Full(c), Progress(c), Ended(c), RowsStay,
         CheckCase(c) \/ FindAlert(c) \/ OpenCase(c) \/ InsertCase(c)
  PROVE  Progress(c)' /\ Ended(c)'
  <1>1. TypeOK /\ pc[c] \in CaseSteps /\ pc[c] \in BootstrapSteps
    BY DEF IInv, CheckCase, FindAlert, OpenCase, InsertCase, CaseSteps, BootstrapSteps
  <1>2. /\ todo[c] = <<"bootstrap">> /\ at[c] = 5 /\ HasTables(LastVersion)
        /\ reference /\ corpus
        /\ \A i \in 1..4 : i < at[c] => Prepared(i, OutletOf[c])
    BY <1>1 DEF Progress
  <1>3. \A i \in 1..4 : Prepared(i, OutletOf[c])
    BY <1>2
  <1>4. /\ HasTables(LastVersion)' /\ reference' /\ corpus'
        /\ \A i \in 1..4 : Prepared(i, OutletOf[c])'
    BY <1>1, <1>2, <1>3, TablesStay, PreparedStays DEF RowsStay
  <1>5. ASSUME NextSubcommand(c), (\E i \in Alerting : Scenarios[i].publish) => cases' # {}
        PROVE  Progress(c)' /\ Ended(c)'
    <2>1. Deployed(c)'
      BY <1>4, <1>5 DEF Deployed
    <2> QED
      BY <1>1, <1>2, <1>5, <2>1, BootstrappedProgress
  <1>6. ASSUME NEW step \in {"alert", "open", "opening"}, Goto(c, step), at' = at
        PROVE  Progress(c)' /\ Ended(c)'
    <2>1. pc'[c] = step /\ todo' = todo /\ exit' = exit
      BY <1>1, <1>6 DEF Goto, TypeOK
    <2>2. Progress(c)'
      BY <1>2, <1>4, <1>6, <2>1
         DEF Progress, RunSteps, TxSteps, ScenarioSteps, BootstrapSteps, PublishSteps, CheckSteps, CaseSteps
    <2> QED
      BY <2>1, <2>2, EndStays
  <1>7. CASE CheckCase(c)
    <2>1. CASE CaseThere
      BY <1>5, <1>7, <2>1 DEF CheckCase, CaseThere, tables
    <2>2. CASE ~CaseThere
      BY <1>6, <1>7, <2>2 DEF CheckCase
    <2> QED
      BY <2>1, <2>2
  <1>8. CASE FindAlert(c)
    <2>1. CASE Candidates(c) = {}
      <3>1. ASSUME NEW i \in Alerting, Scenarios[i].publish PROVE FALSE
        <4>1. i \in 1..4
          BY YieldAssumption
        <4>2. PICK n \in 1..Len(runs) : AlertThere(n, OutletOf[c])
          BY <1>3, <3>1, <4>1 DEF Prepared
        <4> QED
          BY <2>1, <4>2 DEF Candidates, AlertThere
      <3> QED
        BY <1>5, <1>8, <2>1, <3>1 DEF FindAlert
    <2>2. CASE Candidates(c) # {}
      BY <1>6, <1>8, <2>2 DEF FindAlert
    <2> QED
      BY <2>1, <2>2
  <1>9. CASE OpenCase(c)
    <2>1. CASE CaseOn(alert[c]) # {}
      BY <1>5, <1>9, <2>1 DEF OpenCase, CaseOn, tables
    <2>2. CASE CaseOn(alert[c]) = {}
      BY <1>6, <1>9, <2>2 DEF OpenCase
    <2> QED
      BY <2>1, <2>2
  <1>10. CASE InsertCase(c)
    <2>1. CASE CaseOn(alert[c]) # {}
      BY <1>1, <1>10, <2>1, EndedBadly DEF InsertCase, Fail
    <2>2. CASE CaseOn(alert[c]) = {}
      BY <1>5, <1>10, <2>2 DEF InsertCase
    <2> QED
      BY <2>1, <2>2
  <1> QED
    BY <1>7, <1>8, <1>9, <1>10

\* Whatever the migrate container does next, its progress is what it claims.
LEMMA FullProgress ==
  ASSUME IInv, TypeOK', AtOneOutlet, PublishedWithCycles,
         NEW c \in Commands, Full(c), Progress(c), Ended(c), Run(c)
  PROVE  Progress(c)' /\ Ended(c)'
  <1>1. RowsStay /\ TablesStep(c) /\ Bootstraps(c)
    BY RunKeepsRows, FullIsBootstrap
  <1>2. CASE EnsureHistoryTable(c) \/ ReadHistory(c) \/ SkipApplied(c) \/ RefuseModified(c)
               \/ ApplyMigration(c) \/ RefuseTaken(c) \/ AllApplied(c)
    BY <1>1, <1>2, ApplyingProgress
  <1>3. CASE SeedReference(c) \/ SeedCorpus(c) \/ LookUpRun(c) \/ CreateRun(c)
    BY <1>1, <1>3, SeedingProgress, RunningProgress
  <1>4. CASE CheckAlerts(c) \/ PublishLiquidity(c) \/ PublishAnomalies(c) \/ LookUpAlert(c)
               \/ InsertAlert(c)
    BY <1>1, <1>4, CheckAlertsProgress, PublishEnginesProgress, LookUpAlertProgress,
       InsertAlertProgress
  <1>5. CASE CommitCycles(c)
    BY <1>1, <1>5, CommitCyclesProgress
  <1>6. CASE CheckLiquidity(c) \/ RunLiquidity(c)
    BY <1>1, <1>6, ProjectingProgress
  <1>7. CASE CheckAnomaly(c) \/ RunAnomalies(c)
    BY <1>1, <1>7, DetectingProgress
  <1>8. CASE CheckCase(c) \/ FindAlert(c) \/ OpenCase(c) \/ InsertCase(c)
    BY <1>1, <1>8, CaseProgress
  <1> QED
    BY <1>2, <1>3, <1>4, <1>5, <1>6, <1>7, <1>8, Zenon DEF Run

\* With one outlet no command ends on the analytics of another.
LEMMA NoForeignCycles ==
  ASSUME IInv, AtOneOutlet, NEW c \in Commands, exit[c] # "analytics", Run(c)
  PROVE  exit'[c] # "analytics"
  <1>0. TypeOK /\ Matched /\ Sound(c) /\ Placed(c)
    BY DEF IInv, Sound
  <1>1. TypeOK /\ Sound(c) /\ pc[c] \in Steps
    BY <1>0, RunTables
  <1>2. todo[c] # <<>>
    BY <1>1 DEF Sound, Placed, InFlight, Steps
  <1>3. NextSubcommand(c) => exit'[c] # "analytics"
    BY <1>1, <1>2, NextSubcommandEffect
  <1>4. \A how \in Exits : Exit(c, how) => exit'[c] = how
    BY <1>1, ExitEffect
  <1>5. \A step : Goto(c, step) => exit'[c] # "analytics"
    BY DEF Goto
  <1>6. ASSUME PublishLiquidity(c) \/ PublishAnomalies(c) \/ RunLiquidity(c) \/ RunAnomalies(c)
        PROVE  exit'[c] # "analytics"
    <2>1. Matched /\ Placed(c) /\ Scripted(c)
      BY DEF IInv, Sound
    <2>2. pc[c] \in RunSteps /\ \E e \in Engines : \E step : LookedUp(c, e, step)
      BY <1>1, <1>6, <2>1, LookUps DEF RunSteps, TxSteps, Engines
    <2>3. Bootstraps(c) /\ run[c] \in 1..Len(runs)
      BY <2>1, <2>2 DEF Placed, Scripted, ScenarioSteps, BootstrapSteps
    <2>4. \E e \in Engines : \E step : Looked(c, e, step)
      BY <2>2, <2>3, OneOutletLooks
    <2> QED
      BY <1>5, <2>4 DEF Looked
  <1> USE DEF Fail, Exits
  <1>7. CASE EnsureHistoryTable(c) \/ ReadHistory(c) \/ SkipApplied(c) \/ RefuseModified(c)
    BY <1>3, <1>4, <1>5, <1>7
       DEF EnsureHistoryTable, ReadHistory, SkipApplied, RefuseModified
  <1>8. CASE ApplyMigration(c) \/ RefuseTaken(c) \/ AllApplied(c)
    BY <1>3, <1>4, <1>5, <1>8 DEF ApplyMigration, RefuseTaken, AllApplied
  <1>9. CASE SeedReference(c) \/ SeedCorpus(c)
    BY <1>3, <1>4, <1>5, <1>9 DEF SeedReference, SeedCorpus
  <1>10. CASE LookUpRun(c) \/ CreateRun(c)
    BY <1>4, <1>5, <1>10 DEF LookUpRun, CreateRun
  <1>11. CASE CheckAlerts(c) \/ LookUpAlert(c) \/ InsertAlert(c) \/ CommitCycles(c)
    BY <1>4, <1>5, <1>11
       DEF CheckAlerts, LookUpAlert, InsertAlert, CommitCycles, AfterLiquidity, NextScenario
  <1>12. CASE CheckLiquidity(c) \/ CheckAnomaly(c)
    BY <1>5, <1>12 DEF CheckLiquidity, CheckAnomaly, AfterLiquidity, NextScenario
  <1>13. CASE CheckCase(c) \/ FindAlert(c) \/ OpenCase(c) \/ InsertCase(c)
    BY <1>3, <1>4, <1>5, <1>13 DEF CheckCase, FindAlert, OpenCase, InsertCase
  <1> QED
    BY <1>6, <1>7, <1>8, <1>9, <1>10, <1>11, <1>12, <1>13, Zenon DEF Run

-----------------------------------------------------------------------------
(* The tables stay at one outlet, and alerts have their cycles. *)

LEMMA RunAtOneOutlet ==
  ASSUME OneOutlet, IInv, AtOneOutlet, NEW c \in Commands, Run(c)
  PROVE  AtOneOutlet'
  <1>1. TypeOK /\ Matched /\ Sound(c) /\ Placed(c) /\ TablesStep(c)
    BY RunTables DEF IInv, Sound
  <1>2. pc[c] \in BootstrapSteps => Bootstraps(c)
    BY <1>1 DEF Sound, Scripted
  <1> SUFFICES ASSUME NEW d \in Commands, Bootstraps(d)
               PROVE  /\ \A n \in 1..Len(runs') : runs'[n].outlet = OutletOf[d]
                      /\ \A n \in 1..Len(runs') : \A e \in Engines : \A row \in Cycles(n, e)' :
                           row.outlet = OutletOf[d]
                      /\ \A a \in alerts' : a.outlet = OutletOf[d]
    BY DEF AtOneOutlet, Bootstraps
  <1>3. pc[c] \in BootstrapSteps => OutletOf[c] = OutletOf[d]
    BY <1>2 DEF OneOutlet
  <1>4. \A n \in 1..Len(runs') : runs'[n].outlet = OutletOf[d]
    <2>1. CASE runs' = runs
      BY <2>1 DEF AtOneOutlet
    <2>2. CASE runs' # runs
      <3>1. pc[c] = "create" /\ pc[c] \in BootstrapSteps /\ runs' = Append(runs, NewRun(c))
        BY <1>1, <2>2 DEF TablesStep, CyclesCommitted, BootstrapSteps, ScenarioSteps
      <3>2. /\ runs'[Len(runs) + 1] = NewRun(c)
            /\ \A i \in 1..Len(runs) : runs'[i] = runs[i]
            /\ \A i \in 1..Len(runs') : i \in 1..Len(runs) \/ i = Len(runs) + 1
        BY <1>1, <3>1, RunsGrow
      <3>3. runs'[Len(runs) + 1].outlet = OutletOf[d]
        BY <1>3, <3>1, <3>2 DEF NewRun
      <3> QED
        BY <3>2, <3>3 DEF AtOneOutlet
    <2> QED
      BY <2>1, <2>2
  <1>5. pc[c] \in RunSteps => pc[c] \in BootstrapSteps
    BY DEF BootstrapSteps, ScenarioSteps
  <1>6. CyclesCommitted(c) => pc[c] \in RunSteps
    BY DEF CyclesCommitted, CommitSteps, RunSteps, TxSteps
  <1>7. ASSUME NEW n \in 1..Len(runs'), NEW e \in Engines, NEW row \in Cycles(n, e)'
        PROVE  row.outlet = OutletOf[d]
    <2>1. CASE n \in 1..Len(runs)
      <3>1. \/ Cycles(n, e)' = Cycles(n, e)
            \/ CyclesCommitted(c) /\ Cycles(n, e)' = Cycles(n, e) \cup {Cycle(c)}
        BY <1>1, <2>1, CyclesStep
      <3>2. row \in Cycles(n, e) \/ (CyclesCommitted(c) /\ row = Cycle(c))
        BY <1>7, <3>1
      <3> QED
        BY <1>3, <1>5, <1>6, <2>1, <3>2 DEF AtOneOutlet, Cycle
    <2>2. CASE n \notin 1..Len(runs)
      <3>1. analytics'[n][e] = <<>>
        BY <1>1, <2>2, CyclesStep
      <3>2. Cycles(n, e)' = {}
        BY <3>1 DEF Cycles
      <3> QED
        BY <1>7, <3>2
    <2> QED
      BY <2>1, <2>2
  <1>8. \A a \in alerts' : a.outlet = OutletOf[d]
    <2>1. \A a \in alerts' : a \in alerts \/ (CyclesCommitted(c) /\ a = NewAlert(c))
      BY <1>1 DEF TablesStep
    <2> QED
      BY <1>3, <1>5, <1>6, <2>1 DEF AtOneOutlet, NewAlert
  <1> QED
    BY <1>4, <1>7, <1>8

LEMMA RunPublishedWithCycles ==
  ASSUME IInv, PublishedWithCycles, NEW c \in Commands, Run(c)
  PROVE  PublishedWithCycles'
  <1>1. RowsStay /\ TablesStep(c) /\ Fresh(c) /\ Placed(c)
    BY RunKeepsRows DEF IInv, Sound
  <1> SUFFICES ASSUME NEW a \in alerts', NEW e \in Engines
               PROVE  a.run \in 1..Len(runs') /\ Cycles(a.run, e)' # {}
    BY DEF PublishedWithCycles
  <1>2. PICK n : n = a.run
    OBVIOUS
  <1>3. n \in 1..Len(runs) => n \in 1..Len(runs')
    BY <1>1 DEF RowsStay, Grow
  <1>4. CASE a \in alerts
    <2>1. n \in 1..Len(runs) /\ Cycles(n, e) # {}
      BY <1>2, <1>4 DEF PublishedWithCycles
    <2>2. Cycles(n, e)' # {}
      BY <1>1, <2>1, CyclesStay
    <2> QED
      BY <1>2, <1>3, <2>1, <2>2
  <1>5. CASE a \notin alerts
    <2>1. pc[c] = "insert" /\ CyclesCommitted(c) /\ a = NewAlert(c)
      BY <1>1, <1>5 DEF TablesStep
    <2>2. n = run[c] /\ n \in 1..Len(runs)
      BY <1>1, <1>2, <2>1 DEF NewAlert, Placed, RunSteps, TxSteps
    <2>3. Covers(fresh[c], run[c], e)
      BY <1>1, <2>1 DEF Fresh, Engines
    <2>4. Cycles(n, e)' # {}
      BY <1>1, <2>1, <2>2, <2>3, CoveredIsThere
    <2> QED
      BY <1>2, <1>3, <2>2, <2>4
  <1> QED
    BY <1>4, <1>5

LEMMA UserAtOneOutlet ==
  ASSUME IInv, AtOneOutlet, NEW u \in Users, UserEffect(u)
  PROVE  AtOneOutlet'
  <1>1. CyclesWithUsers(u) /\ Matched /\ runs' = runs
    BY UserCycles DEF IInv, UserEffect
  <1> SUFFICES ASSUME NEW d \in Commands, Bootstraps(d)
               PROVE  /\ \A n \in 1..Len(runs) : \A e \in Engines : \A row \in Cycles(n, e)' :
                           row.outlet = OutletOf[d]
                      /\ \A a \in alerts' : a.outlet = OutletOf[d]
    BY <1>1 DEF AtOneOutlet, Bootstraps
  <1>2. ASSUME NEW n \in 1..Len(runs), NEW e \in Engines, NEW row \in Cycles(n, e)'
        PROVE  row.outlet = OutletOf[d]
    <2>1. row \in Cycles(n, e) \/ row.outlet = runs[n].outlet
      BY <1>1, <1>2 DEF CyclesWithUsers, Matched
    <2> QED
      BY <2>1 DEF AtOneOutlet
  <1>3. \A a \in alerts' : a \in alerts \/ \E n \in 1..Len(runs) : a.outlet = runs[n].outlet
    BY DEF UserEffect
  <1> QED
    BY <1>2, <1>3 DEF AtOneOutlet

LEMMA UserPublishedWithCycles ==
  ASSUME IInv, PublishedWithCycles, NEW u \in Users, UserEffect(u)
  PROVE  PublishedWithCycles'
  <1>1. RowsStay /\ runs' = runs
    BY UserKeepsRows DEF UserEffect
  <1> SUFFICES ASSUME NEW a \in alerts', NEW e \in Engines
               PROVE  a.run \in 1..Len(runs) /\ Cycles(a.run, e)' # {}
    BY <1>1 DEF PublishedWithCycles
  <1>2. PICK n : n = a.run
    OBVIOUS
  <1>3. CASE a \in alerts
    <2>1. n \in 1..Len(runs) /\ Cycles(n, e) # {}
      BY <1>2, <1>3 DEF PublishedWithCycles
    <2> QED
      BY <1>1, <1>2, <2>1, CyclesStay
  <1>4. CASE a \notin alerts
    <2>1. PICK m \in 1..Len(runs) :
            /\ alerts' = alerts \cup {[run |-> m, outlet |-> runs[m].outlet, by |-> u]}
            /\ \A f \in Engines : Cycles(m, f)' # {}
      BY <1>4 DEF UserEffect
    <2>2. n = m
      BY <1>2, <1>4, <2>1
    <2> QED
      BY <1>2, <2>1, <2>2
  <1> QED
    BY <1>3, <1>4

-----------------------------------------------------------------------------
(* Every step keeps the promises. *)

LEMMA InitPromises == Init => Promises
  <1> SUFFICES ASSUME Init PROVE Promises
    OBVIOUS
  <1>1. /\ runs = <<>> /\ alerts = {}
        /\ \A c \in Commands : pc[c] = "idle" /\ exit[c] = "none"
    BY DEF Init, NoRows
  <1>2. AtOneOutlet /\ PublishedWithCycles
    BY <1>1 DEF AtOneOutlet, PublishedWithCycles
  <1>3. \A c \in Commands : Progress(c) /\ Ended(c)
    BY <1>1 DEF Progress, Ended, RunSteps, TxSteps, ScenarioSteps, BootstrapSteps, PublishSteps,
                CheckSteps, CaseSteps
  <1> QED
    BY <1>2, <1>3 DEF Promises

LEMMA RunPromises ==
  ASSUME OneOutlet, IInv, TypeOK', Promises, NEW c \in Commands, Run(c)
  PROVE  Promises'
  <1>1. AtOneOutlet' /\ PublishedWithCycles' /\ RowsStay
    BY RunAtOneOutlet, RunPublishedWithCycles, RunKeepsRows DEF Promises
  <1>2. Full(c) => Progress(c)' /\ Ended(c)'
    BY FullProgress DEF Promises
  <1>3. ~Full(c) => Ended(c)'
    BY NoForeignCycles DEF Promises, Ended, Full
  <1>4. ASSUME NEW d \in Commands \ {c} PROVE (Full(d) => Progress(d)') /\ Ended(d)'
    <2>1. OthersStay(c)
      BY RunLocal DEF IInv, Sound
    <2> QED
      BY <1>1, <2>1, ProgressStays, EndStays DEF Promises, OthersStay
  <1>5. \A d \in Commands : (Full(d) => Progress(d)') /\ Ended(d)'
    BY <1>2, <1>3, <1>4
  <1> QED
    BY <1>1, <1>5 DEF Promises, Full

LEMMA SameTables ==
  ASSUME Promises, UNCHANGED tables
  PROVE  RowsStay /\ AtOneOutlet' /\ PublishedWithCycles'
  <1>1. \A n, e : Cycles(n, e)' = Cycles(n, e)
    BY DEF Cycles, tables
  <1>2. RowsStay
    BY <1>1 DEF RowsStay, Grow, tables
  <1>3. AtOneOutlet'
    BY <1>1 DEF Promises, AtOneOutlet, tables, Bootstraps
  <1>4. PublishedWithCycles'
    <2> SUFFICES ASSUME NEW a \in alerts, NEW e \in Engines
                 PROVE  a.run \in 1..Len(runs) /\ Cycles(a.run, e)' # {}
      BY DEF PublishedWithCycles, tables
    <2>1. a.run \in 1..Len(runs) /\ Cycles(a.run, e) # {}
      BY DEF Promises, PublishedWithCycles
    <2>2. Cycles(a.run, e)' = Cycles(a.run, e)
      BY DEF Cycles, tables
    <2> QED
      BY <2>1, <2>2
  <1> QED
    BY <1>2, <1>3, <1>4

LEMMA StartPromises ==
  ASSUME IInv, TypeOK', Promises, NEW c \in Commands, Start(c)
  PROVE  Promises'
  <1>1. /\ TypeOK /\ UNCHANGED <<tables, at, run>>
        /\ todo'[c] = Script[c] /\ pc'[c] = FirstStep(Script[c][1]) /\ exit'[c] = "none"
        /\ \A d \in Commands \ {c} :
             pc'[d] = pc[d] /\ todo'[d] = todo[d] /\ exit'[d] = exit[d]
    BY DEF Start, IInv, TypeOK
  <1>2. RowsStay /\ AtOneOutlet' /\ PublishedWithCycles'
    BY <1>1, SameTables
  <1>3. ASSUME Full(c) PROVE Progress(c)'
    <2>1. todo'[c] = FullScript /\ pc'[c] = "table"
      BY <1>1, <1>3, FullSuffixes DEF Full, FirstStep
    <2> QED
      BY <2>1 DEF Progress, RunSteps, TxSteps, ScenarioSteps, BootstrapSteps, PublishSteps,
                  CheckSteps, CaseSteps
  <1>4. Ended(c)'
    BY <1>1 DEF Ended
  <1>5. \A d \in Commands \ {c} : (Full(d) => Progress(d)') /\ Ended(d)'
    BY <1>1, <1>2, ProgressStays, EndStays DEF Promises
  <1> QED
    BY <1>2, <1>3, <1>4, <1>5 DEF Promises, Full

LEMMA DiePromises ==
  ASSUME IInv, TypeOK', Promises, NEW c \in Commands, Die(c)
  PROVE  Promises'
  <1>1. TypeOK /\ Exit(c, "died") /\ UNCHANGED tables
    BY DEF Die, IInv
  <1>2. RowsStay /\ AtOneOutlet' /\ PublishedWithCycles'
    BY <1>1, SameTables
  <1>3. Progress(c)' /\ Ended(c)'
    BY <1>1, EndedBadly
  <1>4. OthersStay(c)
    BY <1>1, ExitLocal DEF Exits
  <1>5. \A d \in Commands \ {c} : (Full(d) => Progress(d)') /\ Ended(d)'
    BY <1>2, <1>4, ProgressStays, EndStays DEF Promises, OthersStay
  <1> QED
    BY <1>2, <1>3, <1>5 DEF Promises, Full

\* What others add leaves every command where it was.
LEMMA OthersPromises ==
  ASSUME IInv, TypeOK', Promises, RowsStay, AtOneOutlet', PublishedWithCycles', UNCHANGED local
  PROVE  Promises'
  <1>1. \A c \in Commands : (Full(c) => Progress(c)') /\ Ended(c)'
    BY ProgressStays, EndStays DEF Promises, local
  <1> QED
    BY <1>1 DEF Promises, Full

LEMMA UserPromises ==
  ASSUME IInv, TypeOK', Promises, NEW u \in Users, User(u)
  PROVE  Promises'
  <1>1. UserEffect(u) /\ UNCHANGED local
    BY UserSteps DEF UserEffect
  <1>2. RowsStay /\ AtOneOutlet' /\ PublishedWithCycles'
    BY <1>1, UserKeepsRows, UserAtOneOutlet, UserPublishedWithCycles DEF Promises
  <1> QED
    BY <1>1, <1>2, OthersPromises

LEMMA ResetPromises == ASSUME IInv, Promises, Reset PROVE Promises'
  <1>1. /\ runs' = <<>> /\ alerts' = {}
        /\ \A c \in Commands : pc'[c] = "idle" /\ exit'[c] = "none"
    BY DEF Reset, InFlight
  <1>2. AtOneOutlet' /\ PublishedWithCycles'
    BY <1>1 DEF AtOneOutlet, PublishedWithCycles
  <1>3. \A c \in Commands : Progress(c)' /\ Ended(c)'
    BY <1>1 DEF Progress, Ended, RunSteps, TxSteps, ScenarioSteps, BootstrapSteps, PublishSteps,
                CheckSteps, CaseSteps
  <1> QED
    BY <1>2, <1>3 DEF Promises

LEMMA NextPromises ==
  ASSUME OneOutlet, IInv, IInv', Promises, [Next]_vars
  PROVE  Promises'
  <1>0. TypeOK'
    BY DEF IInv
  <1>1. CASE \E c \in Commands : Start(c) \/ Run(c) \/ Die(c)
    BY <1>0, <1>1, StartPromises, RunPromises, DiePromises
  <1>2. CASE \E u \in Users : User(u)
    BY <1>0, <1>2, UserPromises
  <1>3. CASE (\E v \in Versions : EditFile(v)) \/ UNCHANGED vars
    <2>1. UNCHANGED tables /\ UNCHANGED local
      BY <1>3 DEF EditFile, vars
    <2> QED
      BY <1>0, <2>1, SameTables, OthersPromises
  <1>4. CASE Reset
    BY <1>4, ResetPromises
  <1> QED
    BY <1>1, <1>2, <1>3, <1>4 DEF Next

\* The promises hold of every deployment whose bootstraps name one outlet.
LEMMA PromisesKept == OneOutlet => (Spec => []Promises)
  <1> SUFFICES ASSUME OneOutlet PROVE Spec => []Promises
    OBVIOUS
  <1>1. IInv /\ IInv' /\ Promises /\ [Next]_vars => Promises'
    BY NextPromises
  <1> QED
    BY <1>1, InitPromises, Invariance, PTL DEF Spec

\* When the migrate container ends well (docker-compose.yml:28-45), everything
\* the backend relies on is in the database: all migrations, the seeds, and of
\* every scenario the run, its analytics, its alerts, and the demo case -
\* whatever died before, whoever migrated or published at the same time.
THEOREM OkMeansDeployedAlways == OneOutlet => (Spec => []OkMeansDeployed)
  BY PromisesKept, Invariance, PromisesGiveProperties, PTL

\* Nothing an earlier attempt left behind stops a later one (bootstrap_demo.py:5),
\* when all are given one outlet: no bootstrap meets analytics it cannot read, the
\* migrate container always finds the tables and the rows its steps need, and the
\* alert or the case that refuses a bootstrap's insert is a user's, never the
\* work of another bootstrap.
THEOREM RerunsSucceedAlways == OneOutlet => (Spec => []RerunsSucceed)
  BY PromisesKept, Invariance, PromisesGiveProperties, PTL

=============================================================================
