SPECIFICATION Spec
CONSTANTS
  None = None
  run1 = run1
  run2 = run2
  outlet1 = outlet1
  outlet2 = outlet2
  cash1 = cash1
  bkash1 = bkash1
  cash2 = cash2
  bkash2 = bkash2
  velocity1 = velocity1
  amounts1 = amounts1
  velocity2 = velocity2
  cash = cash
  velocity = velocity
  amounts = amounts
  Requests = {r1, r2, r3}
  Runs = {run1}
  Outlets = {outlet1, outlet2}
  Calls <- GrowingMenu
  Reserves = {cash1, bkash1, cash2, bkash2}
  Detectors = {velocity1, amounts1, velocity2}
  Position <- MCPosition
  OutletOf <- MCOutletOf
  LookupOf <- MCLookupOf
  MaxLedger = 2
  WindowEnd <- MCWindowEnd
  Verdict <- MCVerdict
SYMMETRY Symm
INVARIANTS
  OneActivePerKey
  AlertsCiteTheirRun
  AnswersAccountForCandidates
