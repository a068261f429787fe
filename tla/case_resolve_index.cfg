SPECIFICATION Spec
CONSTANTS
  None = None
  alert = alert
  otherAlert = otherAlert
  ops = ops
  risk = risk
  stranger = stranger
  key = key
  freshKey = freshKey
  fieldOfficer = fieldOfficer
  riskAnalyst = riskAnalyst
  Requests = {r1, r2, r3}
  Alerts = {alert}
  Users = {ops, risk, stranger}
  Roles = {fieldOfficer, riskAnalyst}
  Keys = {key, freshKey}
  Calls <- EveryActionMenu
  MayPerform <- MCMayPerform
  InScope <- MCInScope
  ProviderScoped = {alert}
  RoutedTo <- MCRoutedTo
  IndexFaults = {"python", "database"}
  OverlappingRetries = TRUE
SYMMETRY Symm
INVARIANT OkAnswersAreDurable
