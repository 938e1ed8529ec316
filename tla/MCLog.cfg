SPECIFICATION LogSpec
CONSTANTS
  NHarts = 1
  Program <- MCProgram
  Reset = "a"
  Handler = "h"
  NoPc = "none"
  INTERLEAVE = 12
  CycleMod = 24
  MCycleWrites = {}
  MaxEra = 0
INVARIANT LogIsComplete
CHECK_DEADLOCK FALSE
