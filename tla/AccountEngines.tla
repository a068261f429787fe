--------------------------- MODULE AccountEngines ---------------------------
(***************************************************************************)
(* What the analytics engines make of the rows one provider account has in *)
(* one simulation run: its quality (services/quality/engine.py), the       *)
(* forecast of its reserve (services/liquidity/engine.py), the patterns in *)
(* its transactions (services/anomaly/engine.py), and which of these are   *)
(* put forward as alerts (services/alert_candidate_adapter.py).            *)
(*                                                                         *)
(* Times are minutes, scores are ten-thousandths (numeric(5,4)).           *)
(* A snapshot is [at, balance, twin]; twin tells two rows of one moment    *)
(* apart.  A transaction is [n, at, kind, amount], n being its number, 1   *)
(* or more and its own; all of them are completed.                         *)
(***************************************************************************)
EXTENDS Integers, FiniteSets, FiniteSetsExt

CONSTANTS
  ClusterRule,    \* configuration of near_identical_amounts_v1
  VelocityRule,   \* configuration of velocity_spike_v1
  BalanceRule,    \* configuration of balance_inconsistency_v1
  BehavioralRule  \* configuration of behavioral_embedding_v1

ASSUME RuleAssumption ==
  /\ ClusterRule \in [window : Nat, tolerance : Nat, minimum : Nat \ {0}]
  /\ VelocityRule \in [window : Nat, deviations : Nat, windows : Nat \ {0}, minimum : Nat]
  /\ BalanceRule \in [amount : Nat, permille : Nat]
  /\ BehavioralRule \in [window : Nat, history : Nat]

HalfUp(n, d) == (2 * n + d) \div (2 * d)
AbsDiff(a, b) == IF a >= b THEN a - b ELSE b - a
Magnitude(a) == AbsDiff(a, 0)

Times(rows) == {r.at : r \in rows}
RowsAt(rows, t) == {r \in rows : r.at = t}
Newest(rows) == {r \in rows : \A s \in rows : s.at <= r.at}
Oldest(rows) == {r \in rows : \A s \in rows : r.at <= s.at}

-----------------------------------------------------------------------------
(* Quality *)

QualityMinSamples == 2
StaleAfter == 240
BaseModifier == [fresh |-> 10000, stale |-> 6000, conflicting |-> 4000, missing |-> 0]
RejectionFloor == [num |-> 3, den |-> 10]

\* Moments for which the provider gave two balances.
Conflicts(snapshots) ==
  {t \in Times(snapshots) : \E a, b \in RowsAt(snapshots, t) : a.balance # b.balance}

\* Snapshots of a moment with one balance.
Unambiguous(snapshots) == {s \in snapshots : s.at \notin Conflicts(snapshots)}

\* Mutant: the newest snapshot is trusted whatever else was said of its moment.
NewestIsTrusted(snapshots) == Newest(snapshots)

LastTrusted(snapshots) == Newest(Unambiguous(snapshots))

IsStale(snapshots, asOf) ==
  snapshots # {} /\ asOf - Max(Times(snapshots)) > StaleAfter

\* Mutant: stale comes before conflicting.
StaleComesFirst(snapshots, transactions, asOf) ==
  IF snapshots = {} /\ transactions = {} THEN "missing"
  ELSE IF IsStale(snapshots, asOf) THEN "stale"
  ELSE IF Conflicts(snapshots) # {} THEN "conflicting"
  ELSE "fresh"

\* Missing before conflicting before stale before fresh.
FeedStatus(snapshots, transactions, asOf) ==
  IF snapshots = {} /\ transactions = {} THEN "missing"
  ELSE IF Conflicts(snapshots) # {} THEN "conflicting"
  ELSE IF IsStale(snapshots, asOf) THEN "stale"
  ELSE "fresh"

\* 1 - rejected / (samples + rejected), but not less than the floor.
RejectionPenalty(samples, rejected) ==
  IF rejected = 0 THEN [num |-> 1, den |-> 1]
  ELSE IF samples * RejectionFloor.den >= RejectionFloor.num * (samples + rejected)
  THEN [num |-> samples, den |-> samples + rejected]
  ELSE RejectionFloor

SampleAdequacy(samples, enough) == IF samples < enough THEN samples ELSE enough

FixedModifier(status, samples, rejected) ==
  LET penalty == RejectionPenalty(samples, rejected) IN
  HalfUp(BaseModifier[status] * SampleAdequacy(samples, QualityMinSamples) * penalty.num,
         QualityMinSamples * penalty.den)

\* Mutant: rejected events count as samples.
QualityOfAllEvents(snapshots, transactions, rejected, asOf) ==
  LET status == FeedStatus(snapshots, transactions, asOf)
      samples == Cardinality(snapshots) + Cardinality(transactions) + rejected
  IN [status |-> status, samples |-> samples,
      modifier |-> FixedModifier(status, samples, rejected)]

Quality(snapshots, transactions, rejected, asOf) ==
  LET status == FeedStatus(snapshots, transactions, asOf)
      samples == Cardinality(snapshots) + Cardinality(transactions)
  IN [status |-> status, samples |-> samples,
      modifier |-> FixedModifier(status, samples, rejected)]

-----------------------------------------------------------------------------
(* Liquidity *)

LiquidityMinSamples == 2
BurnWindow == 180
TargetSamples == 3
NonActionableModifier == 2000

ConfidenceLevel(score) ==
  IF score >= 7500 THEN "high"
  ELSE IF score >= 5000 THEN "medium"
  ELSE IF score >= 2500 THEN "low"
  ELSE "unavailable"

NoBurn == [fall |-> 0, minutes |-> 0]

Withheld(reason, balance, confidence) ==
  [actionable |-> FALSE, reason |-> reason, balance |-> balance, burn |-> NoBurn,
   confidence |-> confidence, level |-> "unavailable"]

\* Mutant: the quality of the feed does not count.
AdequacyOnly(samples, modifier) ==
  HalfUp(SampleAdequacy(samples, TargetSamples) * 10000, TargetSamples)

ForecastConfidence(samples, modifier) ==
  HalfUp(SampleAdequacy(samples, TargetSamples) * modifier, TargetSamples)

\* Rows of the burn window before the newest, or all when that leaves too few.
BurnRows(snapshots) ==
  LET recent == {s \in snapshots : s.at >= Max(Times(snapshots)) - BurnWindow}
  IN IF Cardinality(recent) < 2 THEN snapshots ELSE recent

\* Balances that fall as time passes, or no depletion.
Burn(first, last) ==
  IF first.at < last.at /\ last.balance < first.balance
  THEN [fall |-> first.balance - last.balance, minutes |-> last.at - first.at]
  ELSE NoBurn

\* The forecast from the first and the last row.
Forecast(first, last, samples, quality) ==
  LET confidence == ForecastConfidence(samples, quality.modifier) IN
  IF quality.status = "missing" \/ quality.modifier <= NonActionableModifier
  THEN Withheld("degraded_data_quality", last.balance, confidence)
  ELSE [actionable |-> TRUE, reason |-> "none", balance |-> last.balance,
        burn |-> Burn(first, last), confidence |-> confidence,
        level |-> ConfidenceLevel(confidence)]

\* The rows come ordered by time alone: which of two rows of one moment is the
\* first, or the last, is up to the database.
Forecasts(snapshots, quality) ==
  LET samples == Cardinality(snapshots)
      ends == {e \in Oldest(BurnRows(snapshots)) \X Newest(snapshots) : e[1] # e[2]}
  IN IF samples = 0 THEN {Withheld("insufficient_samples", 0, 0)}
     ELSE IF samples < LiquidityMinSamples
     THEN {Withheld("insufficient_samples", s.balance, 0) : s \in snapshots}
     ELSE {Forecast(e[1], e[2], samples, quality) : e \in ends}

-----------------------------------------------------------------------------
(* Anomaly *)

SuppressionModifier == 5000

IsDegradedQuality(quality) ==
  quality.status \in {"missing", "conflicting"} \/ quality.modifier <= SuppressionModifier

\* What becomes of a pattern that is there.
Disposition(quality) ==
  IF IsDegradedQuality(quality) THEN "suppressed_data_quality" ELSE "requires_review"

InWindow(rows, start, end) == {r \in rows : start <= r.at /\ r.at <= end}

\* Amounts from the anchor's up to the tolerance above it, within one window that
\* ends at a transaction.
ClusterAt(transactions, anchor, end) ==
  InWindow({t \in transactions : /\ anchor <= t.amount
                                 /\ t.amount * 100 <= anchor * (100 + ClusterRule.tolerance)},
           end - ClusterRule.window, end)

\* Mutant: only windows that end at a transaction of the anchor's amount.
ClustersEndingAtAnchor(transactions) ==
  {ClusterAt(transactions, t.amount, t.at) : t \in transactions}

Clusters(transactions) ==
  {ClusterAt(transactions, t.amount, u.at) : t, u \in transactions}

BestCount(transactions) ==
  IF transactions = {} THEN 0 ELSE Max({Cardinality(c) : c \in Clusters(transactions)})

\* Whose money it is does not matter: minimum_distinct_parties is 1.
NearIdenticalAmounts(transactions, quality) ==
  IF BestCount(transactions) >= ClusterRule.minimum THEN Disposition(quality) ELSE "none"

SpikeStart(asOf) == asOf - VelocityRule.window
Hour(t) == (t \div 60) % 24

\* Mutant: the window before the spike may end where the spike begins.
BaselineEndsTouching(transactions, asOf) ==
  {t \in Times(transactions) : Hour(t) = Hour(asOf) /\ t <= SpikeStart(asOf)}

\* Ends of the windows the spike is compared with: of the same hour of the day,
\* before the spike or after it.
BaselineEnds(transactions, asOf) ==
  {t \in Times(transactions) :
     /\ Hour(t) = Hour(asOf)
     /\ t < SpikeStart(asOf) \/ t - VelocityRule.window > asOf}

BaselineCount(transactions, end) ==
  Cardinality(InWindow(transactions, end - VelocityRule.window, end))

Spike(transactions, asOf) == InWindow(transactions, SpikeStart(asOf), asOf)

\* (count - mean) / pstdev >= deviations, without the fractions.
StandsOut(count, ends, transactions) ==
  LET n == Cardinality(ends)
      excess == n * count - MapThenSumSet(LAMBDA e : BaselineCount(transactions, e), ends)
      spread == n * MapThenSumSet(LAMBDA e : BaselineCount(transactions, e) ^ 2, ends)
                  - MapThenSumSet(LAMBDA e : BaselineCount(transactions, e), ends) ^ 2
  IN IF spread = 0 THEN excess >= n * VelocityRule.deviations
     ELSE excess >= 0 /\ excess ^ 2 >= VelocityRule.deviations ^ 2 * spread

VelocitySpike(transactions, quality, asOf) ==
  LET ends == BaselineEnds(transactions, asOf)
      count == Cardinality(Spike(transactions, asOf))
  IN IF /\ Cardinality(ends) >= VelocityRule.windows
        /\ count >= VelocityRule.minimum
        /\ StandsOut(count, ends, transactions)
     THEN Disposition(quality) ELSE "none"

\* The agent pays out cash for e-money, or takes cash in for it.
BalanceDelta(transaction) ==
  IF transaction.kind = "cash_out" THEN transaction.amount ELSE - transaction.amount

\* The newest snapshot, when its moment has one balance.
Reported(snapshots) == Newest(snapshots) \cap Unambiguous(snapshots)

\* What the reported balance is reconciled with.
ReconciliationAnchor(snapshots) ==
  IF Reported(snapshots) = {} THEN LastTrusted(snapshots)
  ELSE Newest(Unambiguous(snapshots) \ Newest(snapshots))

\* What the transaction of a number adds to a balance, if there is one.
DeltaOf(rows, n) ==
  IF \E t \in rows : t.n = n THEN BalanceDelta(CHOOSE t \in rows : t.n = n) ELSE 0

LastNumber(rows) == IF rows = {} THEN 0 ELSE Max({t.n : t \in rows})

\* A balance after the transactions, one by one.
BalanceOver(balance, rows) ==
  LET last == LastNumber(rows)
      after[n \in 0..last] == IF n = 0 THEN balance ELSE after[n - 1] + DeltaOf(rows, n)
  IN after[last]

\* Mutant: a transaction of the anchor's own moment counts once more.
ExpectedFromAnchorOn(anchor, transactions, asOf) ==
  BalanceOver(anchor.balance, InWindow(transactions, anchor.at, asOf))

ExpectedBalance(anchor, transactions, asOf) ==
  BalanceOver(anchor.balance, InWindow(transactions, anchor.at + 1, asOf))

Exceeds(a, b) ==
  LET base == Max({Magnitude(a), Magnitude(b), 1}) IN
  /\ AbsDiff(a, b) >= BalanceRule.amount
  /\ AbsDiff(a, b) * 1000 >= BalanceRule.permille * base

\* Two balances of the newest moment that has two, or the expected balance and
\* the reported one.
Discrepancies(snapshots, transactions, asOf) ==
  LET conflicts == Conflicts(snapshots) IN
  IF conflicts # {}
  THEN LET balances == {s.balance : s \in RowsAt(snapshots, Max(conflicts))}
       IN {<<Min(balances), Max(balances)>>}
  ELSE {<<ExpectedBalance(anchor, transactions, asOf), reported.balance>> :
          anchor \in ReconciliationAnchor(snapshots), reported \in Reported(snapshots)}

BalanceInconsistency(snapshots, transactions, quality, asOf) ==
  IF \E d \in Discrepancies(snapshots, transactions, asOf) : Exceeds(d[1], d[2])
  THEN Disposition(quality) ELSE "none"

\* The outcomes possible when how far a transaction is from its neighbours is
\* left open.  A cold start is persisted as inconclusive.
BehavioralOutcomes(transactions, quality, asOf) ==
  LET candidates == InWindow(transactions, asOf - BehavioralRule.window, asOf)
      History(c) == {t \in transactions : t.at < c.at}
      scored == {c \in candidates : Cardinality(History(c)) >= BehavioralRule.history}
  IN IF candidates = {} THEN {"none"}
     ELSE IF scored = {} THEN {"inconclusive"}
     ELSE {"none", Disposition(quality)}

Patterns == {"near_identical_amounts", "velocity_spike", "balance_inconsistency",
             "behavioral_embedding"}

\* What each detector may say of the account.
Detections(snapshots, transactions, quality, asOf) ==
  [p \in Patterns |->
     CASE p = "near_identical_amounts" -> {NearIdenticalAmounts(transactions, quality)}
       [] p = "velocity_spike" -> {VelocitySpike(transactions, quality, asOf)}
       [] p = "balance_inconsistency" ->
            {BalanceInconsistency(snapshots, transactions, quality, asOf)}
       [] p = "behavioral_embedding" -> BehavioralOutcomes(transactions, quality, asOf)]

-----------------------------------------------------------------------------
(* Alerts *)

\* Forecasts and detections that are put forward as alerts.
LiquidityCandidates(forecasts) == {f \in forecasts : f.actionable /\ f.burn # NoBurn}
AnomalyCandidates(detections) == {p \in Patterns : "requires_review" \in detections[p]}
=============================================================================
