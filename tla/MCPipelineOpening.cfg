SPECIFICATION PipelineSpec
CONSTANTS
  Addr = {"s1","s2","s3","c1","c2","p1","x1","t1","t2"}
  Name = {"main","start","check","check2","pass","fail","trap"}
  MainLike = {"main"}
  NoLabel = NoLabel
  Listing <- Assembly
  Traces = {}
  MaxInt = 1050
  Entry = {"s1"}
  TrapEntry = {"t1"}
  NoPc = NoPc
  MaxTrace = 8
  MaxSession = 1
INVARIANT OpeningEnds
CHECK_DEADLOCK FALSE
