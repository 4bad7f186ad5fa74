SPECIFICATION Spec
CONSTANTS
  SeqMod = 4
  LogSize = 2
  Batch = 2
  IntrSize = 2
  MaxDrained = 1
  RefusesConfig = FALSE
  CutsReads = FALSE
PROPERTY FreshPress
