SPECIFICATION Spec
CONSTANTS
  MaxPairs = 2
  MaxSeq = 2
  MaxRecords = 1
  QueueSize = 1
INVARIANT PairedOnce
