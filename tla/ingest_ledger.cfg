SPECIFICATION FairSpec
CONSTANTS
  None = None
  run1 = run1
  run2 = run2
  seed = seed
  feed1 = feed1
  feed2 = feed2
  malformed = malformed
  k1 = k1
  k2 = k2
  e1 = e1
  e2 = e2
  e3 = e3
  Requests = {r1, r2}
  Runs = {run1, run2}
  Loaded = {run1}
  SeedOf <- MCSeedOf
  Faults = {malformed}
  Generated <- MCGenerated
  Feeds = {feed1, feed2}
  EventRefs = {e1, e2, e3}
  Keys = {k1, k2}
  Calls <- IngestMenu
INVARIANTS
  CountsMatchEvidence
  RunsArriveWhole
  AnswersMatchEvidence
  GeneratedRunsDoNotDeadlock
PROPERTIES ImplementsLedger
  EveryCallAnswered
