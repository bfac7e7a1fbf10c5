\* One worker, operators on a stale page.
SPECIFICATION Spec
CONSTANTS
  pressure = pressure
  moisture = moisture
  http = http
  kafka = kafka
  operator = operator
  technologist = technologist
  NoUser = NoUser
  Parameters = {pressure}
  Workers = {kafka}
  Handles <- OneConsumer
  Users = {operator, technologist}
  Resolvers = {technologist}
  MaxReadings = 3
INVARIANTS
  NoDuplicateOpenAlerts
CHECK_DEADLOCK FALSE
