SPECIFICATION FairSpec
CONSTANTS
  MaxPairs = 2
  MaxSeq = 4
  MaxRecords = 2
  QueueSize = 3
INVARIANTS TypeOK InStep StoredIsAccepted
PROPERTIES Contract OpenAuthenticated PairingKept CallRunsOut CallEnds
