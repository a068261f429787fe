SPECIFICATION Spec
CONSTANTS
  None = None
  alert = alert
  cashAlert = cashAlert
  ops = ops
  risk = risk
  stranger = stranger
  both = both
  bkash = bkash
  nagad = nagad
  market = market
  port = port
  Requests = {r1, r2, r3, r4}
  Alerts = {alert, cashAlert}
  Users = {ops, risk, stranger, both}
  Roles = {"provider_ops", "field_officer", "area_manager", "risk_analyst"}
  Keys = {key}
  Calls <- LifecycleMenu
  MayPerform <- Performing
  InScope <- Scoped
  ProviderScoped <- AboutProvider
  RoutedTo <- Routed
  ScopesOf <- MCScopesOf
  Outlet <- MCOutlet
  AboutWhat <- MCAboutWhat
  RuleRows <- MCRuleRows
  IndexFaults = {"python", "database"}
  OverlappingRetries = FALSE
SYMMETRY Symm
INVARIANTS
  HistoryExplainsStatus
  VersionCountsWrites
  AuditMatchesTables
  OwnerIsLastAssignee
  RoutedByPrecedence
  OfferedIsAdmitted
PROPERTY ImplementsLifecycle
