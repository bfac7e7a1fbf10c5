\* One consumer, a technologist, a failing statement, a fresh database.
SPECIFICATION ProcessSpec
CONSTANTS
  kafka = kafka
  http = http
  technologist = technologist
  NoUser = NoUser
  Parameters = {"pressure", "moisture", "drive_load"}
  Workers = {kafka}
  Handles <- OneConsumer
  Users = {technologist}
  Resolvers = {technologist}
  MaxReadings = 3
  KnownParameters <- FreshDatabase
  Values <- FewerValues
  Recorded <- CalmLine
  MaxNewer = 0
  Setpoints <- SeededSetpoints
  Weights <- SeededWeights
  MaxUpdates = 0
  MaxFailures = 1
INVARIANTS
  ProcessTypeOK
  EventsFollowMeasurements
  AtMostOneOpenAnomaly
CHECK_DEADLOCK FALSE
