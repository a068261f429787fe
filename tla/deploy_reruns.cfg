SPECIFICATION FairSpec
CONSTANTS
  None = None
  migrate = migrate
  byHand = byHand
  outlet1 = outlet1
  Commands = {migrate, byHand}
  Outlets = {outlet1}
  user1 = user1
  Users = {user1}
  LastVersion = 2
  Flagging = {3}
  Alerting = {3}
  Script <- MCScript
  OutletOf <- MCOutletOf
  NeededBy <- MCNeededBy
  MaxStarts <- MCMaxStarts
  MaxCalls <- MCMaxCalls
INVARIANTS
  OkMeansDeployed
  NothingTwice
  RerunsSucceed
PROPERTIES
  CommandsEnd
