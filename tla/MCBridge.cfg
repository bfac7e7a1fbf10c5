\* Four messages, two partitions, three faults.
SPECIFICATION BridgeSpec
CONSTANTS
  Partitions = {0, 1}
  Payloads = {"reading", "empty"}
  MaxMessages = 4
  MaxFaults = 3
  NoPartition = NoPartition
INVARIANTS
  BridgeTypeOK
  BridgeKeepsOrder
PROPERTIES
  LinkRecovers
CHECK_DEADLOCK FALSE
