SPECIFICATION Spec
CONSTANTS
  NHarts = 1
  Program <- MCProgram
  Reset = "a"
  Handler = "h"
  NoPc = "none"
  INTERLEAVE = 2
  CycleMod = 5
  MCycleWrites = {2}
  MaxEra = 1
  Counts = {4}
  Goals = {}
  NoGoal = NoGoal
  MaxRuns = 3
INVARIANTS CyclesAdvance NoneSerialized
PROPERTY IsMachine
CHECK_DEADLOCK FALSE
