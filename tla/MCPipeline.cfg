\* Two messages, two faults, a restart or a rebalance.
SPECIFICATION FairSpec
CONSTANTS
  Partitions = {0}
  Payloads = {"reading", "refused", "malformed"}
  MaxMessages = 2
  MaxFaults = 2
  NoPartition = NoPartition
  MaxRebalances = 1
  MaxStarts = 2
INVARIANTS
  TypeOK
  NothingIsSkippedUnseen
  RowsPerStart
  NewestReadingStands
PROPERTIES
  ImplementsDelivery
  EveryMessageIsTried
CHECK_DEADLOCK FALSE
