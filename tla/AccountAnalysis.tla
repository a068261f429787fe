--------------------------- MODULE AccountAnalysis ---------------------------
(***************************************************************************)
(* One provider account through a simulation run.  An honest provider      *)
(* publishes each trade with the balance after it, as the generator does   *)
(* (services/synthetic/generator.py), and a fault may publish a second     *)
(* balance for the closing moment (services/ingestion/fault_effects.py).   *)
(* Events are ingested in any order, rejected, or never arrive.  In every  *)
(* state the engines may be run on the rows there are                      *)
(* (services/analytics/runner.py): AccountEngines says what they find, and *)
(* the properties compare it with what the provider's books say.           *)
(***************************************************************************)
EXTENDS AccountEngines, Sequences

CONSTANTS
  Opening,    \* opening balance
  Trades,     \* kinds and amounts of trades, and minutes since the entry before
  ClosesAfter,\* minutes from the last trade to the closing balance
  Ahead,      \* how far the newest row of the outlet's other feeds may be ahead
  Delta,      \* what the conflicting balance is off by
  MaxTrades,  \* bound: trades of the account
  MaxRejected \* bound: events that are rejected

ASSUME TradesAssumption ==
  /\ Opening \in Nat
  /\ Trades \subseteq [kind : {"cash_out", "cash_in"}, amount : Nat \ {0}, after : Nat \ {0}]
  /\ ClosesAfter \in Nat \ {0} /\ Ahead \subseteq Nat
  /\ Delta \in Nat \ {0} /\ MaxTrades \in Nat /\ MaxRejected \in Nat

VARIABLES
  books,     \* what happened at the provider, the opening first
  accepted,  \* events with a row in the ledger
  rejected,  \* events that failed normalization
  elsewhere  \* newest row of the outlet's other accounts and its cash

vars == <<books, accepted, rejected, elsewhere>>

Init ==
  /\ books = <<[at |-> 0, kind |-> "opening", amount |-> 0, balance |-> Opening]>>
  /\ accepted = {} /\ rejected = {}
  /\ elsewhere = 0

IsTrade(n) == books[n].kind \in {"cash_out", "cash_in"}

\* Events the provider's feed holds for an entry.
EventsOf(n) ==
  {[entry |-> n, what |-> "balance"]}
    \cup (IF IsTrade(n) THEN {[entry |-> n, what |-> "transaction"]} ELSE {})
    \cup (IF books[n].kind = "closing" THEN {[entry |-> n, what |-> "conflict"]} ELSE {})

Published == UNION {EventsOf(n) : n \in 1..Len(books)}

-----------------------------------------------------------------------------
(* The rows of the run, as the runner reads them. *)

SnapshotOf(e) ==
  [at |-> books[e.entry].at, twin |-> e.what = "conflict",
   balance |-> books[e.entry].balance + (IF e.what = "conflict" THEN Delta ELSE 0)]
TransactionOf(e) ==
  [n |-> e.entry, at |-> books[e.entry].at, kind |-> books[e.entry].kind,
   amount |-> books[e.entry].amount]

Snapshots == {SnapshotOf(e) : e \in {f \in accepted : f.what # "transaction"}}
Transactions == {TransactionOf(e) : e \in {f \in accepted : f.what = "transaction"}}

\* The newest row of the outlet, whatever account it belongs to.
AsOf == Max({elsewhere} \cup Times(Snapshots) \cup Times(Transactions))

AccountQuality == Quality(Snapshots, Transactions, Cardinality(rejected), AsOf)
AccountForecasts == Forecasts(Snapshots, AccountQuality)
AccountDetections == Detections(Snapshots, Transactions, AccountQuality, AsOf)

-----------------------------------------------------------------------------
(* What happens. *)

LastEntry == books[Len(books)]

\* The customer sends e-money and is paid cash, or the other way round; an
\* account does not go below zero.
BalanceAfter(balance, trade) ==
  IF trade.kind = "cash_out" THEN balance + trade.amount
  ELSE IF trade.amount <= balance THEN balance - trade.amount
  ELSE 0

Trade(trade) ==
  /\ LastEntry.kind # "closing"
  /\ Len(books) <= MaxTrades
  /\ books' = Append(books, [at |-> LastEntry.at + trade.after, kind |-> trade.kind,
                             amount |-> trade.amount,
                             balance |-> BalanceAfter(LastEntry.balance, trade)])
  /\ UNCHANGED <<accepted, rejected, elsewhere>>

Close ==
  /\ LastEntry.kind # "closing"
  /\ books' = Append(books, [at |-> LastEntry.at + ClosesAfter, kind |-> "closing", amount |-> 0,
                             balance |-> LastEntry.balance])
  /\ UNCHANGED <<accepted, rejected, elsewhere>>

Accept(e) ==
  /\ e \notin accepted \cup rejected
  /\ accepted' = accepted \cup {e}
  /\ UNCHANGED <<books, rejected, elsewhere>>

Reject(e) ==
  /\ e \notin accepted \cup rejected
  /\ Cardinality(rejected) < MaxRejected
  /\ rejected' = rejected \cup {e}
  /\ UNCHANGED <<books, accepted, elsewhere>>

\* A row of another account or of the cash drawer; one is enough to let this
\* feed fall behind.
OtherFeed(ahead) ==
  /\ elsewhere = 0
  /\ elsewhere' = LastEntry.at + ahead
  /\ UNCHANGED <<books, accepted, rejected>>

Next ==
  \/ \E trade \in Trades : Trade(trade)
  \/ Close
  \/ \E e \in Published : Accept(e) \/ Reject(e)
  \/ \E ahead \in Ahead : OtherFeed(ahead)

Spec == Init /\ [][Next]_vars

-----------------------------------------------------------------------------
(* Properties. *)

\* Near-identical means: amounts within the tolerance of the smallest, times
\* within the window.
NearIdentical(rows) ==
  \A s, t \in rows :
    /\ t.amount * 100 <= s.amount * (100 + ClusterRule.tolerance)
    /\ t.at - s.at <= ClusterRule.window

\* The sliding window finds a largest near-identical set, and what it finds is
\* one.
ClusterIsMaximal ==
  /\ \A c \in Clusters(Transactions) : NearIdentical(c)
  /\ \A rows \in SUBSET Transactions :
       NearIdentical(rows) => Cardinality(rows) <= BestCount(Transactions)

\* No transaction of a spike is in a window the spike is measured against.
BaselineExcludesSpike ==
  \A end \in BaselineEnds(Transactions, AsOf) :
    InWindow(Transactions, end - VelocityRule.window, end)
      \cap Spike(Transactions, AsOf) = {}

\* The provider is honest: an entry whose trade the ledger does not have, or has
\* from after the reported balance, or which the floor at zero cut short.
Unreconcilable(from, to) ==
  \E n \in 1..Len(books) :
    /\ IsTrade(n) /\ from < books[n].at
    /\ LET known == [entry |-> n, what |-> "transaction"] \in accepted IN
       \/ books[n].at <= to /\ ~known
       \/ books[n].at > to /\ known
       \/ books[n].at <= to /\ books[n].balance # books[n - 1].balance
                                  + BalanceDelta(books[n])

\* An honest feed is found inconsistent only for a reason: balances that
\* contradict each other, a conflicting balance that arrived alone, or trades
\* between the anchor and now the rows do not account for.
MismatchHasACause ==
  BalanceInconsistency(Snapshots, Transactions, AccountQuality, AsOf) # "none" =>
    \/ \E s \in Snapshots : s.twin
    \/ \E s \in ReconciliationAnchor(Snapshots), r \in Reported(Snapshots) :
         Unreconcilable(s.at, r.at)

\* "recompute the (deterministic) response" (runner.py:410): two computations from
\* the same rows agree unless the feed contradicts itself.
OneForecastUnlessConflicting ==
  AccountQuality.status # "conflicting" => Cardinality(AccountForecasts) = 1

\* "Missing/conflicting input produces a suppressed result or an inconclusive
\* cold-start result, not a high-confidence alert" (docs/architecture.md:65).
DoubtIsNeverConfident ==
  AccountQuality.status \in {"missing", "conflicting"} =>
    /\ AnomalyCandidates(AccountDetections) = {}
    /\ \A f \in LiquidityCandidates(AccountForecasts) : f.level \in {"low", "unavailable"}

\* The balance called trusted is what the books say of its moment, unless all
\* that arrived of that moment is the conflicting balance.
TrustedIsTrue ==
  \A s \in LastTrusted(Snapshots) :
    \E n \in 1..Len(books) :
      /\ books[n].at = s.at
      /\ \/ books[n].balance = s.balance
         \/ [entry |-> n, what |-> "balance"] \notin accepted

\* "degraded data never raises confidence" (docs/phase-by-phase-implementation-
\* prompts.md:997): neither a rejected event nor other feeds going on without
\* this one make it more trusted.
NothingDegradedRaises ==
  [][accepted' = accepted => AccountQuality'.modifier <= AccountQuality.modifier]_vars
=============================================================================
