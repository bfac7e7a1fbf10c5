\* Who confirmed an alert.
SPECIFICATION Spec
CONSTANTS
  pressure = pressure
  moisture = moisture
  http = http
  kafka = kafka
  operator = operator
  technologist = technologist
  NoUser = NoUser
  Parameters = {pressure}
  Workers = {kafka}
  Handles <- OneConsumer
  Users = {operator, technologist}
  Resolvers = {technologist}
  MaxReadings = 3
INVARIANTS
  AcknowledgedByIsStored
CHECK_DEADLOCK FALSE
