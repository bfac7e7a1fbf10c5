\* Two workers on one parameter, nobody at the panel: the find-then-create race.
SPECIFICATION Spec
CONSTANTS
  pressure = pressure
  moisture = moisture
  http = http
  kafka = kafka
  operator = operator
  technologist = technologist
  NoUser = NoUser
  Parameters = {pressure}
  Workers = {http, kafka}
  Handles <- SharedParameters
  Users = {}
  Resolvers = {}
  MaxReadings = 2
INVARIANTS
  NoDuplicateOpenAlerts
CHECK_DEADLOCK FALSE
