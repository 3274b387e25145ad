SPECIFICATION ReaderSpec
CONSTANTS
  Files <- MCFiles
  Methods = {"NoFallbackScan", "AllowFallbackScan", "ForceScan"}
  Options <- MCOptions
  MinBucket = 2
INVARIANTS
  DeliveredInOrder
  DeliversAll
\* a reading ends
CHECK_DEADLOCK FALSE
