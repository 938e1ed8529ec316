SPECIFICATION SettingsSpec
CONSTANTS
  File = {f1}
  NoFile = NoFile
  Setting = {"Trace", "Interface"}
  PanelSetting = {"Trace"}
  Value = {9, 12}
  NoValue = 0
  Missing = Missing
  Torn = Torn
  Default <- MCDefault
  MaxPosted = 2
INVARIANTS SettingsType NothingTypedIsLost PanelsShowSettings StartsOnceSaved
PROPERTIES SaveTakesEffect OthersUntouched
CHECK_DEADLOCK FALSE
