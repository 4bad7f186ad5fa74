SPECIFICATION FairSpec
CONSTANTS
  MaxChunk = 8
  ChunksMax = 2
  CmdLens = {1, 16, 17}
  AnsLens = {3, 8, 11}
  Budgets = {0, 8, 11, 17}
  MaxRetries = 1
  QueueSize = 2
INVARIANTS TypeOK Assembled ReplyFresh PlanIsPrototypes
PROPERTIES Contract CutByBudget TransfersRunOut CommandEnds
