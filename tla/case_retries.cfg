SPECIFICATION FairSpec
CONSTANTS
  None = None
  alert = alert
  otherAlert = otherAlert
  ops = ops
  risk = risk
  stranger = stranger
  key = key
  freshKey = freshKey
  fieldOfficer = fieldOfficer
  riskAnalyst = riskAnalyst
  Requests = {r1, r2, r3}
  Alerts = {alert, otherAlert}
  Users = {ops, risk, stranger}
  Roles = {fieldOfficer, riskAnalyst}
  Keys = {key, freshKey}
  Calls <- ClientMenu
  MayPerform <- MCMayPerform
  InScope <- MCInScope
  ProviderScoped = {alert}
  RoutedTo <- MCRoutedTo
  IndexFaults = {"python"}
  OverlappingRetries = FALSE
INVARIANTS
  AtMostOncePerKey
  ReplaysOriginalAnswer
  OkAnswersAreDurable
PROPERTY EveryCallAnswered
