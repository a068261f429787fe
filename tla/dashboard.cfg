SPECIFICATION Spec
CONSTANTS
  long = long
  short = short
  bkash = bkash
  nagad = nagad
  worker = worker
  other = other
  Runs = {long, short}
  Cash = Cash
  Order <- MCOrder
  Callers = {worker, other}
  Calls <- MCCalls
  MaxOpen = 2
  None = None
CHECK_DEADLOCK FALSE
INVARIANTS
  DoubtIsShown
  AnalysedRunFillsPanels
  ViewsAgreeWithEngine
  HistoryCutsOnlyItsEnd
PROPERTY CurrentStateMovesForward
