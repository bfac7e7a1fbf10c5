\* A database that never stored a combined risk before migration 006.
SPECIFICATION ProcessSpec
CONSTANTS
  kafka = kafka
  http = http
  technologist = technologist
  NoUser = NoUser
  Parameters = {"pressure", "moisture", "drive_load"}
  Workers = {kafka}
  Handles <- OneConsumer
  Users = {technologist}
  Resolvers = {technologist}
  MaxReadings = 3
  KnownParameters <- FreshDatabase
  Values <- SomeValues
  Recorded <- CalmLine
  MaxNewer = 0
  Setpoints <- SeededSetpoints
  Weights <- SeededWeights
  MaxUpdates = 0
  MaxFailures = 0
PROPERTIES
  CombinedRiskIsRecorded
CHECK_DEADLOCK FALSE
