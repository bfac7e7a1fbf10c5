\* Two workers that never share a parameter, an operator and a technologist.
SPECIFICATION Spec
CONSTANTS
  pressure = pressure
  moisture = moisture
  http = http
  kafka = kafka
  operator = operator
  technologist = technologist
  Parameters = {pressure, moisture}
  Workers = {http, kafka}
  Handles <- SplitParameters
  Users = {operator, technologist}
  Resolvers = {technologist}
  NoUser = NoUser
  MaxReadings = 3
INVARIANTS
  TypeOK
  AtMostOneUnresolved
  UnresolvedShowsNewestReading
  AlertsInvariant
PROPERTIES
  ImplementsAlarmPanel
CHECK_DEADLOCK FALSE
