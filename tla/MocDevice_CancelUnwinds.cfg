SPECIFICATION Spec
CONSTANTS
  Ids = {i1, i2}
  Zero = zero
  FullCoverage = 2
  EnrollStages = 1
  MaxAttempts = 2
  EmptyReplies = FALSE
PROPERTY CancelUnwinds
