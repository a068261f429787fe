SPECIFICATION Spec
CONSTANTS
  ClusterRule <- MCClusterRule
  VelocityRule <- MCVelocityRule
  BalanceRule <- MCBalanceRule
  BehavioralRule <- MCBehavioralRule
  Opening = 1000
  Trades <- MCTrades
  ClosesAfter = 10
  Ahead = {250}
  Delta = 700
  MaxTrades = 3
  MaxRejected = 1
CHECK_DEADLOCK FALSE
INVARIANTS
  ClusterIsMaximal
  BaselineExcludesSpike
  MismatchHasACause
  OneForecastUnlessConflicting
  DoubtIsNeverConfident
  TrustedIsTrue
PROPERTY NothingDegradedRaises
