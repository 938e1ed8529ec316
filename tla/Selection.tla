----------------------------- MODULE Selection -----------------------------
(***************************************************************************)
(* The selected function in the four places that show it: the trace panel  *)
(* (function, occurrence, highlighted line), its dropdown, the profile     *)
(* table and the code panel.  Each is changed by the user and then tells   *)
(* the others, synchronously except for the dropdown, whose change handler *)
(* runs from the message queue and reads the dropdown's text only then.    *)
(***************************************************************************)
EXTENDS Integers, Sequences, FiniteSets, Functions

CONSTANTS
  Func,     \* functions
  NoFunc,   \* the empty name
  Prompt,   \* FunctionsDropdownText
  NoEntries, \* the text of a dropdown asked for an unknown function
  Lines,    \* the marked trace
  Rows,     \* functions with a row in the profile
  Orders,   \* the orders the header can sort the rows into
  CodeFunc  \* functions found in the source files

Text == Func \cup {NoFunc, Prompt, NoEntries}
Line == [func : Func \cup {NoFunc}, first : BOOLEAN]

EntryLines(f) == {k \in DOMAIN Lines : Lines[k].func = f /\ Lines[k].first}
Traced == {Lines[k].func : k \in DOMAIN Lines} \ {NoFunc}
Count(f) == IF f = NoFunc THEN 0 ELSE Cardinality(EntryLines(f))

\* A row is only ever offered for a function the trace enters (ProfileIsEntered
\* in AnalyzerProofs).
ASSUME SelectionAssumption ==
  /\ NoFunc \notin Func /\ Prompt \notin Func \cup {NoFunc}
  /\ NoEntries \notin Func \cup {NoFunc, Prompt}
  /\ Lines \in Seq(Line)
  /\ Rows \subseteq Func
  /\ \A f \in Rows : EntryLines(f) # {}
  /\ Orders # {} /\ \A o \in Orders : o \in Seq(Rows) /\ Range(o) = Rows /\ IsInjective(o)
  /\ CodeFunc \subseteq Func

VARIABLES
  panel,  \* AsSubComponent with its dropdown, occurrence panel and trace
  table,  \* ProfileTable: rows in order, selected row (0: none), selectedFunc
  code    \* the function highlighted in the source, or NoFunc

vars == <<panel, table, code>>

\* The constructor of AsSubComponent, whose first setText queues a change.
Init ==
  /\ panel = [func |-> NoFunc, occ |-> -1, line |-> 0, num |-> -1, enabled |-> TRUE,
              text |-> Prompt, pending |-> TRUE]
  /\ \E o \in Orders : table = [order |-> o, row |-> 0, func |-> NoFunc]
  /\ code = NoFunc

----------------------------------------------------------------------------
\* getFuncOccuranceNumber.
Number(f) == IF f \in Traced THEN Count(f) ELSE -1

\* The n-th entry of f, counted from 0.
Occurrence(f, n) ==
  CHOOSE k \in EntryLines(f) : Cardinality({j \in EntryLines(f) : j < k}) = n

\* Mutants: the buttons stay enabled without entries; no modulus.
ShowNumbers_NotOne(p, n, max) ==
  [p EXCEPT !.num = IF max <= 0 THEN -1 ELSE n, !.enabled = max # 1]
Wrap_Plain(n, f) == n

\* setPanelNumbers.
ShowNumbers(p, n, max) ==
  [p EXCEPT !.num = IF max <= 0 THEN -1 ELSE n, !.enabled = max > 1]

\* The C++ remainder by Number(f); by -1 it is 0.
Wrap(n, f) == IF Number(f) = -1 THEN 0 ELSE n % Number(f)

Thrown == -1

\* ScrollableWindow::scrollToFunc; its test lets n = Count(f) through to at().
ScrollToFunc(p, f, n) ==
  LET index == IF n \in 0..Count(f) THEN n ELSE 0
  IN  IF Count(f) = 0 THEN p
      ELSE [p EXCEPT !.line = IF index < Count(f) THEN Occurrence(f, index) ELSE Thrown]

GoTo(p, n) == ShowNumbers(ScrollToFunc([p EXCEPT !.occ = n], p.func, n), n, Count(p.func))

\* ComboBox::setSelectedId or setText, with notification.
SetText(p, t) == [p EXCEPT !.text = t, !.pending = @ \/ p.text # t]

\* A mutant of Select: the dropdown is not told.
Select_NoText(p, f) == GoTo([p EXCEPT !.func = f], 0)

\* AsSubComponent::setSelectedFunc.  For an unknown function setSelectedId(0)
\* empties the text before setText, so a change is always queued.
Select(p, f) ==
  IF f \in Traced THEN GoTo([p EXCEPT !.func = f, !.text = f], 0)
  ELSE ShowNumbers([p EXCEPT !.func = NoFunc, !.line = 0,
                             !.text = NoEntries, !.pending = TRUE], 0, 0)

\* CodeSubComponent::selectFunc.
InCode(t) == IF t \in CodeFunc THEN t ELSE NoFunc

RowOf(f) == CHOOSE k \in DOMAIN table.order : table.order[k] = f

\* A mutant: setSelectedFunc called as by the table (callerID 3), so that the
\* trace panel is told of its own request.
AskPanel_AnyCaller(p, t) == Select(p, t)

\* MainComponent::setSelectedFunc for callerID 1: if the table has a row for t,
\* selecting it calls setSelectedFunc again, now for the trace panel.
AskPanel(p, t) == IF t \in Rows THEN Select(p, t) ELSE p
AskTable(t) == IF t \in Rows THEN [table EXCEPT !.row = RowOf(t), !.func = t] ELSE table

----------------------------------------------------------------------------
\* A mouse click on a row: selectRow, then cellClicked.
Click(f) ==
  /\ table' = [table EXCEPT !.row = RowOf(f), !.func = f]
  /\ panel' = Select(panel, f)
  /\ code' = InCode(f)

\* Arrow, page, home and end keys: the ListBox moves its selection, and the
\* selectedFunc of the table stays as it was.
Key(k) ==
  /\ k # table.row
  /\ table' = [table EXCEPT !.row = k]
  /\ panel' = Select(panel, table.order[k])
  /\ code' = InCode(table.order[k])

\* A mutant: the rows are sorted and the row index stays.
Sorted_Only(o) == [table EXCEPT !.order = o]

\* sortOrderChanged sorts the rows and selects selectedFunc again.
Sorted(o) ==
  [table EXCEPT !.order = o,
     !.row = IF table.func = NoFunc THEN @ ELSE CHOOSE k \in DOMAIN o : o[k] = table.func]

Sort(o) ==
  /\ table' = Sorted(o)
  /\ panel' = AskPanel(panel, table.func)
  /\ code' = IF table.func \in Rows THEN InCode(table.func) ELSE code

\* The user picks an item of the dropdown.
Pick(f) == panel' = SetText(panel, f) /\ UNCHANGED <<table, code>>

\* onChange, from the message queue.
Deliver ==
  /\ panel.pending
  /\ LET t == panel.text
         asked == AskPanel([panel EXCEPT !.pending = FALSE, !.func = t], t)
     IN  /\ panel' = GoTo(asked, 0)
         /\ table' = AskTable(t)
         /\ code' = InCode(t)

\* returnPressed in the search field.
Search(t) ==
  /\ panel' = AskPanel(panel, t)
  /\ table' = AskTable(t)
  /\ code' = InCode(t)

NextOccurrence ==
  /\ panel.enabled
  /\ panel' = GoTo(panel, Wrap(panel.occ + 1, panel.func))
  /\ UNCHANGED <<table, code>>

PrevOccurrence ==
  /\ panel.enabled
  /\ panel' = GoTo(panel, Wrap(panel.occ - 1 + Number(panel.func), panel.func))
  /\ UNCHANGED <<table, code>>

\* scrollBarMoved.
Scroll(k) ==
  /\ panel' = IF Lines[k].func = NoFunc THEN panel ELSE [panel EXCEPT !.line = k]
  /\ UNCHANGED <<table, code>>

\* Saving the settings sets the font sizes, which resets the dropdown.
SetFontSize == panel' = SetText(panel, Prompt) /\ UNCHANGED <<table, code>>

Next ==
  \/ \E f \in Rows : Click(f)
  \/ \E k \in DOMAIN table.order : Key(k)
  \/ \E o \in Orders : Sort(o)
  \/ \E f \in Traced : Pick(f)
  \/ \E f \in Func : Search(f)
  \/ \E k \in DOMAIN Lines : Scroll(k)
  \/ NextOccurrence \/ PrevOccurrence
  \/ SetFontSize \/ Deliver

Spec == Init /\ [][Next]_vars /\ WF_vars(Deliver)

----------------------------------------------------------------------------
Panel == [func : Text, occ : Nat \cup {-1}, line : 0..Len(Lines), num : Nat \cup {-1},
          enabled : BOOLEAN, text : Text, pending : BOOLEAN]

\* Types; every line scrolled to is a line of the trace (none was Thrown).
TypeOK ==
  /\ panel \in Panel
  /\ table.order \in Orders
  /\ table = [order |-> table.order, row |-> table.row, func |-> table.func]
  /\ table.row \in 0..Len(table.order)
  /\ table.func \in Rows \cup {NoFunc}
  /\ code \in CodeFunc \cup {NoFunc}

\* The buttons compute a remainder by the number of entries of the selected
\* function, which lives in one map while another one enables them: a click
\* never divides by zero.
NoDivisionByZero == panel.enabled => Number(panel.func) # 0

\* An occurrence that is shown exists: scrollToFunc would let through the one
\* number past the last, for which at() throws.
ShownOccurrenceExists == panel.num # -1 => panel.num = panel.occ /\ panel.num < Count(panel.func)

\* With no change queued, the dropdown names the function the buttons work on.
DropdownNamesSelection == ~panel.pending => panel.text = panel.func

\* The places agree about every function with a row, once the table has been
\* told of one (before that, sorting moves rows under a selection made by keys).
PanelsAgree ==
  /\ code \in Rows => panel.func = code
  /\ table.func # NoFunc /\ panel.func \in Rows =>
       table.row # 0 /\ table.order[table.row] = panel.func

\* The panels notify each other in a circle; the circle ends.
NotificationsEnd == panel.pending ~> ~panel.pending

============================================================================
