SPECIFICATION Spec
CONSTANTS
  Ids = {i1}
  Zero = zero
  FullCoverage = 2
  EnrollStages = 1
  MaxAttempts = 2
  EmptyReplies = TRUE
INVARIANTS IInv
