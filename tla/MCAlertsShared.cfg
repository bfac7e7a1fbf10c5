\* The Kafka consumer and an HTTP request process the same parameter.
SPECIFICATION FairSpec
CONSTANTS
  pressure = pressure
  moisture = moisture
  http = http
  kafka = kafka
  operator = operator
  technologist = technologist
  NoUser = NoUser
  Parameters = {pressure}
  Workers = {http, kafka}
  Handles <- SharedParameters
  Users = {operator, technologist}
  Resolvers = {technologist}
  MaxReadings = 3
PROPERTIES
  ResolvedAlertKeepsItsReading
  SuccessfulCallIsRecorded
  EveryCallEnds
CHECK_DEADLOCK FALSE
