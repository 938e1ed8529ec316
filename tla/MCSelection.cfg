SPECIFICATION Spec
CONSTANTS
  Func = {"f", "g", "h", "k"}
  NoFunc = ""
  Prompt = "Choose function..."
  NoEntries = "<No entries>"
  Lines <- MCLines
  Rows = {"f", "g"}
  Orders <- MCOrders
  CodeFunc = {"f", "h", "k"}
INVARIANTS TypeOK NoDivisionByZero ShownOccurrenceExists DropdownNamesSelection PanelsAgree
PROPERTY NotificationsEnd
