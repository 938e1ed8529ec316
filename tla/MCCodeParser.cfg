SPECIFICATION Spec
CONSTANTS
  Plain = {"lbrace", "rbrace", "lparen", "rparen", "semicolon", "blank", "f", "g", "i", "x", "a", "=", "+"}
  Function = {"f", "g"}
  Items <- CItems
  MaxItems = 5
INVARIANTS CodeIsKept FoundIsDefinition DefinitionIsFound
PROPERTY FoundWhereRead
CHECK_DEADLOCK FALSE
