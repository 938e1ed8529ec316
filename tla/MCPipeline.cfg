SPECIFICATION PipelineSpec
CONSTANTS
  Addr = {"m1", "m2", "m3", "m4", "f1", "f2", "f3", "f4", "g1", "g2", "g3", "k1", "t1", "t2", "b1"}
  Name = {"main", "f", "g", "k", "trap"}
  MainLike = {"main"}
  NoLabel = NoLabel
  Listing <- Compiled
  Traces = {}
  MaxInt = 950
  Entry = {"b1", "m1", "m2"}
  TrapEntry = {"t1"}
  NoPc = NoPc
  MaxTrace = 10
  MaxSession = 2
INVARIANTS TimeIsInclusive CalledIsEntries EdgesAreCalls TidyPercentages TidyOpeningEnds
CHECK_DEADLOCK FALSE
