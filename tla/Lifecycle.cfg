SPECIFICATION Spec
CONSTANTS
  File = {f1, f2}
  NoFile = NoFile
INVARIANTS PanelsAreThere EnabledWhenAlone SaveWritesWhatWasOpen
PROPERTY WaitingEnds
CHECK_DEADLOCK FALSE
