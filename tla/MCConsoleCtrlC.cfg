SPECIFICATION Spec
CONSTANTS
  NHarts = 2
  Program <- MCProgram
  Reset = "b"
  Handler = "h"
  NoPc = "none"
  INTERLEAVE = 2
  CycleMod = 3
  MCycleWrites = {}
  MaxEra = 0
  Counts = {0, 1, 2, 5}
  Goals = {}
  NoGoal = NoGoal
  MaxRuns = 3
INVARIANT CtrlCStopsRun
CHECK_DEADLOCK FALSE
