\* One consumer, late readings, a change of a setpoint or a weight.
SPECIFICATION ProcessSpec
CONSTANTS
  kafka = kafka
  http = http
  technologist = technologist
  NoUser = NoUser
  Parameters = {"pressure", "moisture", "drive_load"}
  Workers = {kafka}
  Handles <- OneConsumer
  Users = {}
  Resolvers = {}
  MaxReadings = 3
  KnownParameters <- MigratedDatabase
  Values <- SomeValues
  Recorded <- CalmLine
  MaxNewer = 1
  Setpoints <- SeededSetpoints
  Weights <- SeededWeights
  MaxUpdates = 1
  MaxFailures = 0
INVARIANTS
  IndexStaysOnScale
  CombinedRiskNeedsDrifts
PROPERTIES
  IndexReflectsEvents
CHECK_DEADLOCK FALSE
