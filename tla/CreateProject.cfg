SPECIFICATION Spec
CONSTANTS
  File = {f1, f2}
  NoProject = NoProject
  MaxChosen = 4
INVARIANT SaveReadsExistingPaths
PROPERTY DeadEnd
