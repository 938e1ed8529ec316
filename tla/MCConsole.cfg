SPECIFICATION Spec
CONSTANTS
  NHarts = 2
  Program <- MCProgram
  Reset = "b"
  Handler = "h"
  NoPc = "none"
  INTERLEAVE = 2
  CycleMod = 3
  MCycleWrites = {}
  MaxEra = 0
  Counts = {0, 1, 2, 5}
  Goals <- MCGoals
  NoGoal = NoGoal
  MaxRuns = 2
INVARIANTS TypeOK CountIsKept GoalIsMet
PROPERTIES IsMachine CtrlCStopsChunks
CHECK_DEADLOCK FALSE
