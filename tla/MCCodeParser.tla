---------------------------- MODULE MCCodeParser ----------------------------
(***************************************************************************)
(* The items C sources are made of here.  Two functions, f and g.          *)
(***************************************************************************)
EXTENDS CodeParser

None == [f \in {} |-> 0]
Item(chars, names) ==
  [chars |-> chars, names |-> names, defines |-> None, opens |-> 0, closes |-> FALSE,
   odd |-> {}, top |-> TRUE, inner |-> TRUE]
Top(item)   == [item EXCEPT !.inner = FALSE]
Inner(item) == [item EXCEPT !.top = FALSE]
Odd(item)   == [item EXCEPT !.odd = item.names]
Defines(item, f, at) == [item EXCEPT !.defines = [g \in {f} |-> at], !.opens = 1, !.inner = FALSE]

Definitions == {
  Defines(Item(<<"newline", "f", "lparen", "rparen", "lbrace">>, {"f"}), "f", 1),
  Defines(Item(<<"i", "blank", "g", "lparen", "i", "rparen", "newline", "lbrace">>, {"g"}), "g", 2),
  Defines(Item(<<"blank", "f", "lparen", "a", "rparen", "i", "semicolon", "lbrace">>, {"f"}), "f", 1),
  \* char *f() {
  Odd(Defines(Item(<<"blank", "star", "f", "lparen", "rparen", "lbrace">>, {"f"}), "f", 2)),
  \* a function whose name begins with f
  [Odd(Top(Item(<<"blank", "f", "x", "lparen", "rparen", "lbrace">>, {"f"}))) EXCEPT !.opens = 1] }

Declarations == {
  Top(Item(<<"blank", "f", "lparen", "rparen", "semicolon">>, {"f"})),
  \* a prototype with an attribute
  Odd(Top(Item(<<"blank", "g", "lparen", "rparen", "a", "semicolon">>, {"g"}))),
  [Top(Item(<<"x", "=", "lbrace", "blank", "g", "rbrace", "semicolon">>, {"g"})) EXCEPT !.closes = TRUE] }

Statements == {
  Inner(Item(<<"blank", "f", "lparen", "rparen", "semicolon">>, {"f"})),
  Odd(Inner(Item(<<"=", "blank", "g", "+", "semicolon">>, {"g"}))),
  [Inner(Item(<<"i", "lparen", "blank", "f", "lparen", "rparen", "rparen", "lbrace">>, {"f"}))
     EXCEPT !.opens = 1],
  [Inner(Item(<<"rbrace">>, {})) EXCEPT !.opens = -1, !.closes = TRUE],
  Inner(Item(<<"tick", "rbrace", "tick">>, {})),
  Inner(Item(<<"quote", "f", "lbrace", "escape", "quote", "quote">>, {})),
  Inner(Item(<<"quote", "lbrace", "escape", "escape", "quote">>, {})),
  Inner(Item(<<"quote", "hash", "quote">>, {})) }

Anywhere == {
  Item(<<"newline">>, {}),
  Item(<<"slash", "slash", "f", "lparen", "rparen", "lbrace", "newline">>, {}),
  Item(<<"slash", "star", "hash", "quote", "blank", "f", "lbrace", "rbrace", "star", "slash", "newline">>, {}),
  Item(<<"slash", "slash", "star", "f", "newline">>, {}),
  Item(<<"newline", "hash", "x", "f", "lbrace", "slash", "star", "rbrace", "newline", "star", "slash",
         "newline">>, {}) }

CItems == Definitions \cup Declarations \cup Statements \cup Anywhere
=============================================================================
