\* Two workers with parameters of their own, meeting on the combined risk.
SPECIFICATION ProcessSpec
CONSTANTS
  kafka = kafka
  http = http
  technologist = technologist
  NoUser = NoUser
  Parameters = {"pressure", "moisture", "drive_load"}
  Workers = {http, kafka}
  Handles <- SplitParameters
  Users = {}
  Resolvers = {}
  MaxReadings = 3
  KnownParameters <- MigratedDatabase
  Values <- SomeValues
  Recorded <- UnnoticedRisk
  MaxNewer = 0
  Setpoints <- NarrowedSetpoints
  Weights <- SeededWeights
  MaxUpdates = 0
  MaxFailures = 1
INVARIANTS
  EventsFollowMeasurements
  OpenAnomaliesAreBounded
  OwnEventsAreCounted
PROPERTIES
  IndexReflectsEvents
  CallsMakeProgress
CHECK_DEADLOCK FALSE
