SPECIFICATION Spec
CONSTANTS
  Addr = {"rom", "m1", "m2", "m3", "f1", "x1", "g1", "g2"}
  Name = {"main", "main.part", "f", "alias", "g", "outside"}
  MainLike = {"main", "main.part"}
  NoLabel = NoLabel
  Listing <- MCListing
  Traces <- MCTraces
  MaxLen = 4
  MaxInt = 700
INVARIANTS TypeOK CallsAreConserved EveryCountIsDrawn TableIsEntered FailsOnlyOnUntraced
CHECK_DEADLOCK FALSE
