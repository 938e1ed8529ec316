-------------------------- MODULE SelectionProofs --------------------------
(***************************************************************************)
(* For every trace, profile and order of rows: the occurrence buttons      *)
(* never divide by zero nor scroll to a missing occurrence, and the panels *)
(* agree about what is selected.                                           *)
(***************************************************************************)
EXTENDS Selection, FiniteSetTheorems, WellFoundedInduction, TLAPS

----------------------------------------------------------------------------
\* The occurrences of a function, counted and found by number.

\* Every set of naturals that is not empty has a least element.
LEMMA LeastExists ==
  ASSUME NEW S, S \subseteq Nat, S # {}
  PROVE  \E x \in S : \A y \in S : x <= y
<1> DEFINE Less == {p \in Nat \X Nat : p[1] < p[2]}
<1>1. IsWellFoundedOn(Less, Nat)
  BY NatLessThanWellFounded DEF OpToRel
<1>2. PICK x \in S : \A y \in S : ~ (<<y, x>> \in Less)
  <2> HIDE DEF Less
  <2> QED BY <1>1, WFMin
<1>3. ASSUME NEW y \in S PROVE x <= y
  <2>1. x \in Nat /\ y \in Nat /\ ~ (<<y, x>> \in Less)
    BY <1>2
  <2>2. QED
    BY <2>1
<1>4. QED
  BY <1>3

\* The lines on which a function is entered are a finite set of numbers.
LEMMA EntryLinesType ==
  ASSUME NEW f
  PROVE  /\ EntryLines(f) \subseteq 1..Len(Lines)
         /\ IsFiniteSet(EntryLines(f))
         /\ Cardinality(EntryLines(f)) \in Nat
<1>1. Lines \in Seq(Line) /\ Len(Lines) \in Nat /\ DOMAIN Lines = 1..Len(Lines)
  BY SelectionAssumption
<1>2. EntryLines(f) \in SUBSET (1..Len(Lines))
  BY <1>1 DEF EntryLines
<1>3. IsFiniteSet(1..Len(Lines))
  BY <1>1, FS_Interval
<1>4. QED
  BY <1>2, <1>3, FS_Subset, FS_CardinalityType

\* The vector built by push_back holds an n-th line for every n below its size.
LEMMA OccurrenceExists ==
  ASSUME NEW f, NEW n \in Nat, n < Cardinality(EntryLines(f))
  PROVE  Occurrence(f, n) \in EntryLines(f)
<1> DEFINE E == EntryLines(f)
           Below(k) == {j \in E : j < k}
           Nth(m) == \E k \in E : Cardinality(Below(k)) = m
           Bad == {m \in Nat : m < Cardinality(E) /\ ~Nth(m)}
<1>1. E \subseteq 1..Len(Lines) /\ E \subseteq Nat /\ IsFiniteSet(E) /\ Cardinality(E) \in Nat
  BY EntryLinesType, SelectionAssumption
<1>2. \A k : IsFiniteSet(Below(k))
  <2>1. \A k : Below(k) \in SUBSET E
    OBVIOUS
  <2>2. QED
    BY <1>1, <2>1, FS_Subset
<1>3. Bad = {}
  <2>1. SUFFICES ASSUME Bad # {} PROVE FALSE
    OBVIOUS
  <2>2. PICK m \in Bad : \A x \in Bad : m <= x
    <3>1. Bad \subseteq Nat
      OBVIOUS
    <3>2. QED
      <4> HIDE DEF Bad
      <4> QED BY <2>1, <3>1, LeastExists
  <2>3. m \in Nat /\ m < Cardinality(E) /\ ~Nth(m)
    BY <2>2
  <2>4. CASE m = 0
    <3>1. E # {}
      BY <1>1, <2>3, <2>4, FS_EmptySet
    <3>2. PICK k \in E : \A j \in E : k <= j
      BY <1>1, <3>1, LeastExists
    <3>3. Below(k) = {}
      BY <1>1, <3>2
    <3>4. Cardinality(Below(k)) = 0
      BY <3>3, FS_EmptySet
    <3>5. QED
      BY <2>3, <2>4, <3>4
  <2>5. CASE m # 0
    <3>1. m - 1 \in Nat /\ m - 1 < Cardinality(E) /\ m - 1 \notin Bad
      <4>1. m - 1 \in Nat /\ m - 1 < m /\ m - 1 < Cardinality(E)
        <5> HIDE DEF E
        <5> QED BY <1>1, <2>3, <2>5
      <4>2. m - 1 \notin Bad
        <5> HIDE DEF Bad
        <5> QED BY <2>2, <2>3, <4>1
      <4>3. QED
        BY <4>1, <4>2
    <3>2. PICK k \in E : Cardinality(Below(k)) = m - 1
      BY <3>1
    <3> DEFINE Upto == Below(k) \cup {k}
               Rest == E \ Upto
    <3>3. k \notin Below(k) /\ k \in Nat
      BY <1>1, <3>2
    <3>4. Cardinality(Upto) = m
      <4>1. Cardinality(Below(k) \cup {k}) = Cardinality(Below(k)) + 1
        <5> DEFINE B == Below(k)
        <5>1. IsFiniteSet(B) /\ k \notin B
          BY <1>2, <3>3
        <5> HIDE DEF B
        <5>2. Cardinality(B \cup {k}) = Cardinality(B) + 1
          BY <5>1, FS_AddElement
        <5>3. QED
          BY <5>2 DEF B
      <4>2. QED
        BY <2>3, <3>2, <4>1
    <3>5. Rest # {}
      <4>1. SUFFICES ASSUME Rest = {} PROVE FALSE
        OBVIOUS
      <4>2. Upto = E
        BY <3>2, <4>1
      <4>3. QED
        <5> HIDE DEF Upto, E
        <5> QED BY <1>1, <2>3, <3>4, <4>2
    <3>6. PICK q \in Rest : \A j \in Rest : q <= j
      <4>1. Rest \subseteq Nat
        BY <1>1
      <4>2. QED
        <5> HIDE DEF Rest
        <5> QED BY <3>5, <4>1, LeastExists
    <3>7. Below(q) = Upto
      <4>1. \A j \in E : j \in Upto <=> j <= k
        BY <1>1, <3>3
      <4>2. q \in E /\ k < q /\ q \in Nat
        BY <1>1, <3>3, <3>6, <4>1
      <4>3. \A j \in E : j > k => q <= j
        BY <1>1, <3>3, <3>6, <4>1
      <4>4. \A j \in E : j < q <=> j <= k
        BY <1>1, <3>3, <4>2, <4>3
      <4>5. QED
        BY <3>2, <4>1, <4>4
    <3>8. QED
      BY <2>3, <3>4, <3>6, <3>7
  <2>6. QED
    BY <2>4, <2>5
<1>4. \E k \in E : Cardinality({j \in E : j < k}) = n
  BY <1>3
<1>5. QED
  BY <1>4 DEF Occurrence

\* The counts the buttons use and the counts the occurrence panel uses: the
\* functions of rows are traced and have entries.
LEMMA CountType ==
  ASSUME NEW f
  PROVE  /\ Count(f) \in Nat
         /\ Count(f) > 0 => Number(f) = Count(f)
         /\ f \in Traced => f \in Func /\ Number(f) = Count(f)
         /\ f \in Rows => f \in Traced /\ f \in Func /\ f # NoFunc /\ Count(f) > 0
<1>1. Lines \in Seq(Line) /\ Len(Lines) \in Nat /\ DOMAIN Lines = 1..Len(Lines)
  BY SelectionAssumption
<1>2. \A k \in DOMAIN Lines : Lines[k].func \in Func \cup {NoFunc}
  <2>1. \A k \in DOMAIN Lines : Lines[k] \in Line
    BY <1>1
  <2>2. \A l \in Line : l.func \in Func \cup {NoFunc}
    BY DEF Line
  <2>3. QED
    BY <2>1, <2>2
<1>3. IsFiniteSet(EntryLines(f)) /\ Cardinality(EntryLines(f)) \in Nat
  BY EntryLinesType
<1>4. Count(f) \in Nat
  BY <1>3 DEF Count
<1>5. f \in Traced => f \in Func /\ Number(f) = Count(f)
  BY <1>2 DEF Traced, Number
<1>6. Count(f) > 0 => f \in Traced
  <2>1. SUFFICES ASSUME Count(f) > 0 PROVE f \in Traced
    OBVIOUS
  <2>2. f # NoFunc /\ Cardinality(EntryLines(f)) > 0
    BY <2>1 DEF Count
  <2>3. EntryLines(f) # {}
    BY <2>2, FS_EmptySet
  <2>4. QED
    BY <2>2, <2>3 DEF EntryLines, Traced
<1>7. f \in Rows => f \in Func /\ f # NoFunc /\ Count(f) > 0
  <2>1. SUFFICES ASSUME f \in Rows PROVE f \in Func /\ f # NoFunc /\ Count(f) > 0
    OBVIOUS
  <2>2. f \in Func /\ f # NoFunc /\ EntryLines(f) # {}
    BY <2>1, SelectionAssumption
  <2>3. Cardinality(EntryLines(f)) # 0
    BY <1>3, <2>2, FS_EmptySet
  <2>4. QED
    BY <1>3, <2>2, <2>3 DEF Count
<1>8. QED
  BY <1>4, <1>5, <1>6, <1>7

----------------------------------------------------------------------------
\* What the helpers do to the trace panel.

Sound(p) ==
  /\ p.enabled => Number(p.func) # 0
  /\ p.num # -1 => p.num = p.occ /\ p.num < Count(p.func)

\* Scrolling to an occurrence that exists leaves a sound panel.
LEMMA GoToSound ==
  ASSUME NEW p \in Panel, NEW n \in Nat, n = 0 \/ n < Count(p.func)
  PROVE  /\ GoTo(p, n) \in Panel
         /\ GoTo(p, n).func = p.func /\ GoTo(p, n).text = p.text
         /\ GoTo(p, n).pending = p.pending
         /\ Sound(GoTo(p, n))
<1> DEFINE c == Count(p.func)
           q == [p EXCEPT !.occ = n]
           s == ScrollToFunc(q, p.func, n)
<1>1. c \in Nat /\ (c > 0 => Number(p.func) = c)
  BY CountType
<1>2. q \in Panel /\ q.func = p.func /\ q.text = p.text /\ q.pending = p.pending /\ q.occ = n
  BY DEF Panel
<1>3. /\ s \in Panel /\ s.func = p.func /\ s.text = p.text
      /\ s.pending = p.pending /\ s.occ = n
  <2>1. CASE c = 0
    BY <1>2, <2>1 DEF ScrollToFunc
  <2>2. CASE c # 0
    <3>1. n < c /\ n \in 0..c
      BY <1>1, <2>2
    <3>2. s = [q EXCEPT !.line = Occurrence(p.func, n)]
      BY <2>2, <3>1 DEF ScrollToFunc
    <3>3. Occurrence(p.func, n) \in 1..Len(Lines)
      <4>1. n < Cardinality(EntryLines(p.func))
        BY <2>2, <3>1 DEF Count
      <4>2. QED
        BY <4>1, OccurrenceExists, EntryLinesType
    <3>4. Occurrence(p.func, n) \in 0..Len(Lines)
      BY <3>3, SelectionAssumption
    <3> DEFINE o == Occurrence(p.func, n)
    <3>5. [q EXCEPT !.line = o] \in Panel
      <4> HIDE DEF o, q
      <4> QED BY <1>2, <3>4 DEF o, Panel
    <3>6. QED
      <4> HIDE DEF q
      <4> QED BY <1>2, <3>2, <3>5 DEF Panel
  <2>3. QED
    BY <2>1, <2>2
<1>4. GoTo(p, n) = ShowNumbers(s, n, c)
  BY <1>2 DEF GoTo
<1> HIDE DEF c, q, s
<1>5. GoTo(p, n) = [s EXCEPT !.num = IF c <= 0 THEN -1 ELSE n, !.enabled = c > 1]
  BY <1>4 DEF ShowNumbers
<1>6. /\ GoTo(p, n) \in Panel
      /\ GoTo(p, n).func = p.func /\ GoTo(p, n).text = p.text
      /\ GoTo(p, n).pending = p.pending /\ GoTo(p, n).occ = n
      /\ GoTo(p, n).num = (IF c <= 0 THEN -1 ELSE n) /\ GoTo(p, n).enabled = (c > 1)
  <2> DEFINE shown == IF c <= 0 THEN -1 ELSE n
             many == c > 1
  <2>1. shown \in Nat \cup {-1} /\ many \in BOOLEAN
    BY <1>1
  <2>2. GoTo(p, n) = [s EXCEPT !.num = shown, !.enabled = many]
    BY <1>5
  <2> HIDE DEF shown, many
  <2>3. /\ GoTo(p, n) \in Panel
        /\ GoTo(p, n).func = p.func /\ GoTo(p, n).text = p.text
        /\ GoTo(p, n).pending = p.pending /\ GoTo(p, n).occ = n
        /\ GoTo(p, n).num = shown /\ GoTo(p, n).enabled = many
    BY <1>3, <2>1, <2>2 DEF Panel
  <2>4. QED
    BY <2>3 DEF shown, many
<1>7. Sound(GoTo(p, n))
  <2>1. (c > 1) => Number(p.func) # 0
    BY <1>1
  <2>2. (IF c <= 0 THEN -1 ELSE n) # -1 => n < c
    BY <1>1 DEF c
  <2>3. QED
    BY <1>6, <2>1, <2>2 DEF Sound, c
<1>8. QED
  BY <1>6, <1>7

\* Selecting a traced function, from whatever state.
LEMMA SelectSound ==
  ASSUME NEW p \in Panel, NEW f \in Traced
  PROVE  /\ Select(p, f) \in Panel
         /\ Select(p, f).func = f /\ Select(p, f).text = f
         /\ Select(p, f).pending = p.pending
         /\ Sound(Select(p, f))
<1> DEFINE q == [p EXCEPT !.func = f, !.text = f]
<1>1. f \in Func
  BY CountType
<1>2. q \in Panel /\ q.func = f /\ q.text = f /\ q.pending = p.pending
  BY <1>1 DEF Panel, Text
<1>3. Select(p, f) = GoTo(q, 0)
  BY DEF Select
<1> HIDE DEF q
<1>4. QED
  BY <1>2, <1>3, GoToSound

\* Asking for a text: a row's function is selected, anything else is ignored.
LEMMA AskSound ==
  ASSUME NEW p \in Panel, NEW t, Sound(p)
  PROVE  /\ AskPanel(p, t) \in Panel /\ Sound(AskPanel(p, t))
         /\ AskPanel(p, t).pending = p.pending
         /\ t \in Rows => AskPanel(p, t).func = t /\ AskPanel(p, t).text = t
         /\ t \notin Rows => AskPanel(p, t) = p
<1>1. CASE t \in Rows
  BY <1>1, CountType, SelectSound DEF AskPanel
<1>2. CASE t \notin Rows
  BY <1>2 DEF AskPanel
<1>3. QED
  BY <1>1, <1>2

\* Every order holds every row, so a function with a row has a position.
LEMMA OrderType ==
  ASSUME NEW o \in Orders
  PROVE  /\ o \in Seq(Rows) /\ DOMAIN o = 1..Len(o) /\ Len(o) \in Nat
         /\ \A f \in Rows : (CHOOSE k \in DOMAIN o : o[k] = f) \in DOMAIN o
         /\ \A f \in Rows : o[CHOOSE k \in DOMAIN o : o[k] = f] = f
<1>1. o \in Seq(Rows) /\ Range(o) = Rows
  BY SelectionAssumption
<1>2. \A f \in Rows : \E k \in DOMAIN o : o[k] = f
  BY <1>1 DEF Range
<1>3. DOMAIN o = 1..Len(o) /\ Len(o) \in Nat
  BY <1>1
<1>4. QED
  BY <1>1, <1>2, <1>3

\* Two orders of the rows have the same length: sorting keeps every row index.
LEMMA OrderLength ==
  ASSUME NEW o \in Orders
  PROVE  Len(o) = Cardinality(Rows)
<1>1. o \in Seq(Rows) /\ Range(o) = Rows /\ IsInjective(o)
  BY SelectionAssumption
<1>2. Len(o) \in Nat /\ DOMAIN o = 1..Len(o) /\ o \in [1..Len(o) -> Rows]
  BY <1>1
<1>3. o \in Bijection(1..Len(o), Rows)
  BY <1>1, <1>2 DEF Bijection, Injection, Surjection, Range, IsInjective
<1>4. ExistsBijection(1..Len(o), Rows)
  BY <1>3 DEF ExistsBijection
<1>5. IsFiniteSet(1..Len(o)) /\ Cardinality(1..Len(o)) = Len(o)
  BY <1>2, FS_Interval
<1>6. QED
  BY <1>4, <1>5, FS_Bijection

----------------------------------------------------------------------------
\* The inductive invariant: the properties hold together, each step needs the
\* soundness of the panel it starts from.
Inv ==
  /\ TypeOK
  /\ Sound(panel)
  /\ DropdownNamesSelection
  /\ PanelsAgree

\* The parts of the invariant, established one by one for the state after.
TypeParts(p, t, c) ==
  /\ p \in Panel
  /\ t.order \in Orders
  /\ t = [order |-> t.order, row |-> t.row, func |-> t.func]
  /\ t.row \in 0..Len(t.order)
  /\ t.func \in Rows \cup {NoFunc}
  /\ c \in CodeFunc \cup {NoFunc}

Agree(p, t, c) ==
  /\ c \in Rows => p.func = c
  /\ t.func # NoFunc /\ p.func \in Rows => t.row # 0 /\ t.order[t.row] = p.func

\* The parts of the invariant an action reads, in the current state.
LEMMA InvParts ==
  Inv <=> /\ TypeParts(panel, table, code) /\ Sound(panel)
          /\ (~panel.pending => panel.text = panel.func) /\ Agree(panel, table, code)
BY DEF Inv, TypeParts, Agree, TypeOK, DropdownNamesSelection, PanelsAgree

\* The parts from which the invariant of the next state follows.
LEMMA InvPartsNext ==
  Inv' <=> /\ TypeParts(panel', table', code') /\ Sound(panel')
           /\ (~panel'.pending => panel'.text = panel'.func) /\ Agree(panel', table', code')
BY DEF Inv, TypeParts, Agree, TypeOK, DropdownNamesSelection, PanelsAgree, Sound

\* What the code panel shows is the function asked for, or nothing.
LEMMA InCodeType ==
  ASSUME NEW t
  PROVE  InCode(t) \in CodeFunc \cup {NoFunc} /\ (InCode(t) \in Rows => InCode(t) = t)
<1>1. NoFunc \notin Rows
  BY SelectionAssumption
<1>2. QED
  BY <1>1 DEF InCode

\* A row is selected together with the trace panel (Click, Key).
LEMMA RowSelected ==
  ASSUME Inv, NEW f \in Rows, NEW k \in DOMAIN table.order, table.order[k] = f,
         NEW g \in Rows \cup {NoFunc},
         table' = [table EXCEPT !.row = k, !.func = g],
         panel' = Select(panel, f), code' = InCode(f)
  PROVE  Inv'
<1>1. TypeParts(panel, table, code)
  BY InvParts
<1>2. /\ panel' \in Panel /\ panel'.func = f /\ panel'.text = f /\ Sound(panel')
  BY <1>1, CountType, SelectSound DEF TypeParts
<1>3. k \in 1..Len(table.order) /\ Len(table.order) \in Nat
  BY <1>1, OrderType DEF TypeParts
<1>4. table'.order = table.order /\ table'.row = k /\ table'.func = g
      /\ table' = [order |-> table'.order, row |-> table'.row, func |-> table'.func]
  BY <1>1 DEF TypeParts
<1>5. TypeParts(panel', table', code')
  BY <1>1, <1>2, <1>3, <1>4, InCodeType DEF TypeParts
<1>6. Agree(panel', table', code')
  BY <1>2, <1>3, <1>4, InCodeType DEF Agree
<1>7. QED
  BY <1>2, <1>5, <1>6, InvPartsNext

\* A text is asked for by the search field or the dropdown: p is the panel
\* before, whose function may be the text itself.
LEMMA TextAsked ==
  ASSUME Inv, NEW t \in Text, NEW p \in Panel, p.func = panel.func \/ p.func = t,
         panel' \in Panel, Sound(panel'),
         ~panel'.pending => panel'.text = panel'.func,
         t \in Rows => panel'.func = t,
         t \notin Rows => panel'.func = p.func,
         table' = AskTable(t), code' = InCode(t)
  PROVE  Inv'
<1>1. TypeParts(panel, table, code) /\ Agree(panel, table, code)
  BY InvParts
<1>2. table.order \in Orders /\ Len(table.order) \in Nat /\ NoFunc \notin Rows
      /\ DOMAIN table.order = 1..Len(table.order)
  BY <1>1, OrderType, SelectionAssumption DEF TypeParts
<1>3. CASE t \in Rows
  <2>1. table' = [table EXCEPT !.row = RowOf(t), !.func = t]
    BY <1>3 DEF AskTable
  <2>2. RowOf(t) \in 1..Len(table.order) /\ table.order[RowOf(t)] = t
    BY <1>2, <1>3, OrderType DEF RowOf
  <2>3. table'.order = table.order /\ table'.row = RowOf(t) /\ table'.func = t
        /\ table' = [order |-> table'.order, row |-> table'.row, func |-> table'.func]
    BY <1>1, <2>1 DEF TypeParts
  <2>4. TypeParts(panel', table', code')
    BY <1>1, <1>2, <1>3, <2>2, <2>3, InCodeType DEF TypeParts
  <2>5. Agree(panel', table', code')
    BY <1>2, <1>3, <2>2, <2>3, InCodeType DEF Agree
  <2>6. QED
    BY <2>4, <2>5, InvPartsNext
<1>4. CASE t \notin Rows
  <2>1. table' = table
    BY <1>4 DEF AskTable
  <2>2. code' \in CodeFunc \cup {NoFunc} /\ code' \notin Rows
    BY <1>4, InCodeType
  <2>3. TypeParts(panel', table', code')
    BY <1>1, <2>1, <2>2 DEF TypeParts
  <2>4. panel'.func \in Rows => panel'.func = panel.func
    BY <1>4
  <2>5. Agree(panel', table', code')
    BY <1>1, <2>1, <2>2, <2>4 DEF Agree
  <2>6. QED
    BY <2>3, <2>5, InvPartsNext
<1>5. QED
  BY <1>3, <1>4

\* The panel changes and the function selected in it does not (buttons, scroll
\* bar, a text put into the dropdown).
LEMMA SameFunction ==
  ASSUME Inv, panel' \in Panel, panel'.func = panel.func, Sound(panel'),
         ~panel'.pending => panel'.text = panel'.func,
         UNCHANGED <<table, code>>
  PROVE  Inv'
<1>1. TypeParts(panel, table, code) /\ Agree(panel, table, code)
  BY InvParts
<1>2. TypeParts(panel', table', code') /\ Agree(panel', table', code')
  BY <1>1 DEF TypeParts, Agree
<1>3. QED
  BY <1>2, InvPartsNext

\* A text is put into the dropdown: a change is queued when it differs.
LEMMA TextPut ==
  ASSUME Inv, NEW t \in Text,
         panel' = [panel EXCEPT !.text = t, !.pending = panel.pending \/ panel.text # t],
         UNCHANGED <<table, code>>
  PROVE  Inv'
<1>1. /\ panel \in Panel /\ Sound(panel) /\ (~panel.pending => panel.text = panel.func)
  BY InvParts DEF TypeParts
<1> DEFINE queued == panel.pending \/ panel.text # t
<1>2. queued \in BOOLEAN
  BY <1>1 DEF Panel
<1>3. ~queued => t = panel.func
  BY <1>1
<1>4. panel' = [panel EXCEPT !.text = t, !.pending = queued]
  OBVIOUS
<1> HIDE DEF queued
<1>5. /\ panel' \in Panel /\ panel'.func = panel.func /\ panel'.text = t
      /\ panel'.pending = queued /\ panel'.occ = panel.occ
      /\ panel'.num = panel.num /\ panel'.enabled = panel.enabled
  BY <1>1, <1>2, <1>4 DEF Panel
<1>6. Sound(panel')
  BY <1>1, <1>5 DEF Sound
<1>7. QED
  BY <1>3, <1>5, <1>6, SameFunction

----------------------------------------------------------------------------
\* The remainder is a number that exists, whatever is divided.
LEMMA WrapInRange ==
  ASSUME NEW n \in Int, NEW f, Number(f) # 0
  PROVE  Wrap(n, f) \in Nat /\ (Wrap(n, f) = 0 \/ Wrap(n, f) < Count(f))
<1>1. CASE Number(f) = -1
  BY <1>1 DEF Wrap
<1>2. CASE Number(f) # -1
  <2>1. Number(f) = Count(f) /\ Count(f) \in Nat
    BY <1>2, CountType DEF Number
  <2>2. Count(f) \in Nat \ {0}
    BY <2>1
  <2>3. Wrap(n, f) = n % Count(f)
    BY <1>2, <2>1 DEF Wrap
  <2> DEFINE c == Count(f)
  <2> HIDE DEF c
  <2>4. c \in Nat \ {0} => n % c \in 0..(c - 1)
    OBVIOUS
  <2>5. QED
    BY <2>2, <2>3, <2>4 DEF c
<1>3. QED
  BY <1>1, <1>2

\* The constructors leave a sound panel: no function is selected, so a button
\* divides by -1.
LEMMA InitInv ==
  Init => Inv
<1>1. SUFFICES ASSUME Init PROVE Inv
  OBVIOUS
<1>2. PICK o \in Orders : table = [order |-> o, row |-> 0, func |-> NoFunc]
  BY <1>1 DEF Init
<1>3. o \in Seq(Rows) /\ Len(o) \in Nat
  BY OrderType
<1>4. Number(NoFunc) = -1 /\ NoFunc \notin Rows /\ Len(Lines) \in Nat
  BY SelectionAssumption DEF Number, Traced
<1>5. panel = [func |-> NoFunc, occ |-> -1, line |-> 0, num |-> -1, enabled |-> TRUE,
               text |-> Prompt, pending |-> TRUE] /\ code = NoFunc
  BY <1>1 DEF Init
<1>6. panel \in Panel
  BY <1>4, <1>5 DEF Panel, Text
<1>7. TypeParts(panel, table, code) /\ Agree(panel, table, code)
  BY <1>2, <1>3, <1>4, <1>5, <1>6 DEF TypeParts, Agree
<1>8. Sound(panel) /\ (~panel.pending => panel.text = panel.func)
  BY <1>4, <1>5 DEF Sound
<1>9. QED
  BY <1>7, <1>8, InvParts

\* Rows are sorted: the function of the table is selected again, in its new row.
LEMMA SortInv ==
  ASSUME Inv, NEW o \in Orders, Sort(o)
  PROVE  Inv'
<1> DEFINE f == table.func
<1>1. TypeParts(panel, table, code) /\ Agree(panel, table, code) /\ Sound(panel)
      /\ (~panel.pending => panel.text = panel.func)
  BY InvParts
<1>2. table.order \in Orders /\ f \in Rows \cup {NoFunc} /\ NoFunc \notin Rows
  BY <1>1, SelectionAssumption DEF TypeParts
<1>3. DOMAIN o = 1..Len(o) /\ Len(o) = Cardinality(Rows)
      /\ Len(table.order) = Cardinality(Rows) /\ Len(o) \in Nat
  BY <1>2, OrderLength, OrderType
<1>4. CASE f = NoFunc
  <2>1. panel' = panel /\ code' = code
    BY <1>2, <1>4 DEF Sort, AskPanel
  <2>2. table'.order = o /\ table'.row = table.row /\ table'.func = f
        /\ table' = [order |-> table'.order, row |-> table'.row, func |-> table'.func]
    BY <1>1, <1>4 DEF Sort, Sorted, TypeParts
  <2>3. TypeParts(panel', table', code')
    BY <1>1, <1>3, <2>1, <2>2 DEF TypeParts
  <2>4. Agree(panel', table', code')
    BY <1>1, <1>4, <2>1, <2>2 DEF Agree
  <2>5. QED
    BY <1>1, <2>1, <2>3, <2>4, InvPartsNext
<1>5. CASE f \in Rows
  <2> DEFINE k == CHOOSE j \in DOMAIN o : o[j] = f
  <2>1. k \in 1..Len(o) /\ o[k] = f
    BY <1>5, OrderType
  <2>2. table'.order = o /\ table'.row = k /\ table'.func = f
        /\ table' = [order |-> table'.order, row |-> table'.row, func |-> table'.func]
    BY <1>1, <1>2, <1>5 DEF Sort, Sorted, TypeParts
  <2>3. /\ panel' \in Panel /\ Sound(panel')
        /\ panel'.func = f /\ panel'.text = f
    BY <1>1, <1>5, AskSound DEF Sort, TypeParts
  <2>4. code' = InCode(f)
    BY <1>5 DEF Sort
  <2> HIDE DEF k
  <2>5. TypeParts(panel', table', code')
    BY <1>1, <1>3, <1>5, <2>1, <2>2, <2>3, <2>4, InCodeType DEF TypeParts
  <2>6. Agree(panel', table', code')
    BY <1>3, <2>1, <2>2, <2>3, <2>4, InCodeType DEF Agree
  <2>7. QED
    BY <2>3, <2>5, <2>6, InvPartsNext
<1>6. QED
  BY <1>2, <1>4, <1>5

\* The queued change of the dropdown is delivered.
LEMMA DeliverInv ==
  ASSUME Inv, Deliver
  PROVE  Inv'
<1> DEFINE t == panel.text
           p == [panel EXCEPT !.pending = FALSE, !.func = t]
           asked == AskPanel(p, t)
<1>1. TypeParts(panel, table, code) /\ Sound(panel)
  BY InvParts
<1>2. panel \in Panel /\ t \in Text
  BY <1>1 DEF TypeParts, Panel
<1>3. p \in Panel /\ p.func = t /\ p.text = t /\ p.pending = FALSE
  BY <1>2 DEF Panel
<1>4. panel' = GoTo(asked, 0) /\ table' = AskTable(t) /\ code' = InCode(t)
  BY DEF Deliver
<1> HIDE DEF p, t
<1>5. /\ asked \in Panel /\ asked.func = t /\ asked.text = t
  <2>1. CASE t \in Rows
    BY <1>3, <2>1, CountType, SelectSound DEF AskPanel
  <2>2. CASE t \notin Rows
    BY <1>3, <2>2 DEF AskPanel
  <2>3. QED
    BY <2>1, <2>2
<1> HIDE DEF asked
<1>6. panel' \in Panel /\ panel'.func = t /\ panel'.text = t /\ Sound(panel')
  BY <1>4, <1>5, GoToSound
<1>7. QED
  BY <1>2, <1>3, <1>4, <1>6, TextAsked

----------------------------------------------------------------------------
\* Every step keeps the invariant: one step of the proof per action.
LEMMA NextInv ==
  ASSUME Inv, [Next]_vars
  PROVE  Inv'
<1>1. /\ TypeParts(panel, table, code) /\ Sound(panel)
      /\ (~panel.pending => panel.text = panel.func)
  BY InvParts
<1>2. /\ panel \in Panel /\ panel.func \in Text /\ panel.text \in Text
      /\ panel.occ \in Int /\ table.order \in Orders
  BY <1>1 DEF TypeParts, Panel
<1>3. ASSUME NEW f \in Rows, Click(f) PROVE Inv'
  <2>1. RowOf(f) \in DOMAIN table.order /\ table.order[RowOf(f)] = f
    BY <1>2, OrderType DEF RowOf
  <2>2. QED
    BY <1>3, <2>1, RowSelected DEF Click
<1>4. ASSUME NEW k \in DOMAIN table.order, Key(k) PROVE Inv'
  <2>1. table.order[k] \in Rows
    BY <1>2, OrderType
  <2>2. table' = [table EXCEPT !.row = k, !.func = table.func]
    <3>1. table = [order |-> table.order, row |-> table.row, func |-> table.func]
      BY <1>1 DEF TypeParts
    <3>2. table' = [table EXCEPT !.row = k]
      BY <1>4 DEF Key
    <3>3. QED
      BY <3>1, <3>2
  <2>3. table.func \in Rows \cup {NoFunc}
    BY <1>1 DEF TypeParts
  <2>4. QED
    BY <1>4, <2>1, <2>2, <2>3, RowSelected DEF Key
<1>5. ASSUME NEW f \in Traced, Pick(f) PROVE Inv'
  <2>1. f \in Text
    BY CountType DEF Text
  <2>2. panel' = [panel EXCEPT !.text = f, !.pending = panel.pending \/ panel.text # f]
    BY <1>5 DEF Pick, SetText
  <2>3. QED
    BY <1>1, <1>2, <1>5, <2>1, <2>2, TextPut DEF Pick
<1>6. CASE SetFontSize
  <2>1. Prompt \in Text
    BY DEF Text
  <2>2. panel' = [panel EXCEPT !.text = Prompt, !.pending = panel.pending \/ panel.text # Prompt]
    BY <1>6 DEF SetFontSize, SetText
  <2>3. QED
    BY <1>1, <1>2, <1>6, <2>1, <2>2, TextPut DEF SetFontSize
<1>7. ASSUME NEW t \in Func, Search(t) PROVE Inv'
  <2>1. panel' = AskPanel(panel, t) /\ table' = AskTable(t) /\ code' = InCode(t)
    BY <1>7 DEF Search
  <2>2. /\ panel' \in Panel /\ Sound(panel') /\ panel'.pending = panel.pending
        /\ t \in Rows => panel'.func = t /\ panel'.text = t
        /\ t \notin Rows => panel' = panel
    BY <1>1, <1>2, <2>1, AskSound
  <2>3. ~panel'.pending => panel'.text = panel'.func
    BY <1>1, <2>2
  <2>4. t \in Text
    BY DEF Text
  <2>5. QED
    BY <1>2, <2>1, <2>2, <2>3, <2>4, TextAsked
<1>8. ASSUME NEW k \in DOMAIN Lines, Scroll(k) PROVE Inv'
  <2>1. k \in 0..Len(Lines)
    BY SelectionAssumption
  <2>2. panel' = panel \/ panel' = [panel EXCEPT !.line = k]
    BY <1>8 DEF Scroll
  <2>3. /\ panel' \in Panel /\ panel'.func = panel.func /\ panel'.text = panel.text
        /\ panel'.pending = panel.pending /\ panel'.occ = panel.occ
        /\ panel'.num = panel.num /\ panel'.enabled = panel.enabled
    BY <1>2, <2>1, <2>2 DEF Panel
  <2>4. QED
    BY <1>1, <1>8, <2>3, SameFunction DEF Scroll, Sound
<1>9. ASSUME NEW n \in Int, panel.enabled, panel' = GoTo(panel, Wrap(n, panel.func)),
             UNCHANGED <<table, code>>
      PROVE  Inv'
  <2>1. Number(panel.func) # 0
    BY <1>1, <1>9 DEF Sound
  <2>2. /\ panel' \in Panel /\ panel'.func = panel.func /\ panel'.text = panel.text
        /\ panel'.pending = panel.pending /\ Sound(panel')
    BY <1>2, <1>9, <2>1, WrapInRange, GoToSound
  <2>3. QED
    BY <1>1, <1>9, <2>2, SameFunction
<1>10. CASE NextOccurrence
  BY <1>2, <1>9, <1>10 DEF NextOccurrence
<1>11. CASE PrevOccurrence
  <2>1. Number(panel.func) \in Int
    BY CountType DEF Number
  <2>2. panel.occ - 1 + Number(panel.func) \in Int
    BY <1>2, <2>1
  <2>3. QED
    BY <1>9, <1>11, <2>2 DEF PrevOccurrence
<1>12. CASE UNCHANGED vars
  BY <1>1, <1>2, <1>12, SameFunction DEF vars
<1>13. QED
  BY <1>3, <1>4, <1>5, <1>6, <1>7, <1>8, <1>10, <1>11, <1>12, SortInv, DeliverInv DEF Next

\* The invariant holds of every behaviour.
LEMMA Invariance ==
  Spec => []Inv
BY InitInv, NextInv, PTL DEF Spec

\* Every line the trace panel is scrolled to is a line of the trace: at() in
\* ScrollableWindow::scrollToFunc never throws.
THEOREM TypeCorrect ==
  Spec => []TypeOK
<1>1. Inv => TypeOK
  BY DEF Inv
<1>2. QED
  BY <1>1, Invariance, PTL

\* The buttons < and > never divide by zero: they are enabled only while the
\* selected function has entries, or is no function at all.
THEOREM ButtonsAreSafe ==
  Spec => []NoDivisionByZero
<1>1. Inv => NoDivisionByZero
  BY DEF Inv, Sound, NoDivisionByZero
<1>2. QED
  BY <1>1, Invariance, PTL

\* The number in the occurrence panel is that of an occurrence of the function
\* selected in the trace panel.
THEOREM OccurrencesAreReal ==
  Spec => []ShownOccurrenceExists
<1>1. Inv => ShownOccurrenceExists
  BY DEF Inv, Sound, ShownOccurrenceExists
<1>2. QED
  BY <1>1, Invariance, PTL

\* Trace panel, table and code panel agree, although they are told of a selection one
\* after the other.
THEOREM SelectionIsShared ==
  Spec => []PanelsAgree
<1>1. Inv => PanelsAgree
  BY DEF Inv
<1>2. QED
  BY <1>1, Invariance, PTL

\* The dropdown, which answers later from the message queue, names the selected
\* function whenever it has answered.
THEOREM DropdownFollows ==
  Spec => []DropdownNamesSelection
<1>1. Inv => DropdownNamesSelection
  BY DEF Inv
<1>2. QED
  BY <1>1, Invariance, PTL

----------------------------------------------------------------------------
(***************************************************************************)
(* What there is to prove of NotificationsEnd without fairness: the answer *)
(* to a notification queues no other one, and nothing but a new text in    *)
(* the dropdown queues one.  The circle of setSelectedFunc is left through *)
(* the callers' identifiers and through dontSendNotification.              *)
(***************************************************************************)

\* A step is an answer, a text put into the dropdown, or queues nothing.
Answered ==
  /\ Deliver => ~panel'.pending
  /\ ~panel.pending /\ panel'.pending => SetFontSize \/ \E f \in Traced : Pick(f)

\* The dropdown's change handler asks the table, which asks the trace panel, which
\* shows the function in the dropdown: without queueing the change once more.
LEMMA AnswerQueuesNothing ==
  ASSUME Inv, Deliver
  PROVE  ~panel'.pending
<1> DEFINE t == panel.text
           p == [panel EXCEPT !.pending = FALSE, !.func = t]
           asked == AskPanel(p, t)
<1>1. panel \in Panel
  BY InvParts DEF TypeParts
<1>2. p \in Panel /\ p.func = t /\ p.pending = FALSE
  BY <1>1 DEF Panel
<1>3. panel' = GoTo(asked, 0)
  BY DEF Deliver
<1> HIDE DEF p, t
<1>4. asked \in Panel /\ asked.pending = FALSE
  <2>1. CASE t \in Rows
    BY <1>2, <2>1, CountType, SelectSound DEF AskPanel
  <2>2. CASE t \notin Rows
    BY <1>2, <2>2 DEF AskPanel
  <2>3. QED
    BY <2>1, <2>2
<1> HIDE DEF asked
<1>5. QED
  BY <1>3, <1>4, GoToSound

\* Rows, the search field, buttons and the scroll bar select in the trace panel: the
\* dropdown's text is set for it, and no change is queued.
LEMMA OthersQueueNothing ==
  ASSUME Inv,
         \/ \E f \in Rows : Click(f)
         \/ \E k \in DOMAIN table.order : Key(k)
         \/ \E o \in Orders : Sort(o)
         \/ \E f \in Func : Search(f)
         \/ \E k \in DOMAIN Lines : Scroll(k)
         \/ NextOccurrence \/ PrevOccurrence
  PROVE  panel'.pending = panel.pending
<1>1. panel \in Panel /\ Sound(panel) /\ table.order \in Orders /\ panel.occ \in Int
  BY InvParts DEF TypeParts, Panel
<1>2. ASSUME NEW f \in Rows, panel' = Select(panel, f)
      PROVE  panel'.pending = panel.pending
  BY <1>1, <1>2, CountType, SelectSound
<1>3. ASSUME NEW t, panel' = AskPanel(panel, t)
      PROVE  panel'.pending = panel.pending
  BY <1>1, <1>3, AskSound
<1>4. ASSUME NEW n \in Int, panel.enabled, panel' = GoTo(panel, Wrap(n, panel.func))
      PROVE  panel'.pending = panel.pending
  BY <1>1, <1>4, WrapInRange, GoToSound DEF Sound
<1>5. CASE \E f \in Rows : Click(f)
  BY <1>2, <1>5 DEF Click
<1>6. CASE \E k \in DOMAIN table.order : Key(k)
  BY <1>1, <1>2, <1>6, OrderType DEF Key
<1>7. CASE (\E o \in Orders : Sort(o)) \/ \E f \in Func : Search(f)
  BY <1>3, <1>7 DEF Sort, Search
<1>8. CASE \E k \in DOMAIN Lines : Scroll(k)
  BY <1>1, <1>8 DEF Scroll, Panel
<1>9. CASE NextOccurrence
  BY <1>1, <1>4, <1>9 DEF NextOccurrence
<1>10. CASE PrevOccurrence
  <2>1. panel.occ - 1 + Number(panel.func) \in Int
    BY <1>1, CountType DEF Number
  <2>2. QED
    BY <1>4, <1>10, <2>1 DEF PrevOccurrence
<1>11. QED
  BY <1>5, <1>6, <1>7, <1>8, <1>9, <1>10

\* The panels tell each other of a selection in a circle. It is gone around at most once
\* for each text the user, or a new font size, puts into the dropdown.
THEOREM CircleIsBroken ==
  Spec => [][Answered]_vars
<1>1. Inv /\ [Next]_vars => [Answered]_vars
  <2> SUFFICES ASSUME Inv, [Next]_vars, vars' # vars
               PROVE  Answered
    OBVIOUS
  <2>1. Next
    OBVIOUS
  <2>2. ASSUME ~panel.pending, panel'.pending
        PROVE  SetFontSize \/ \E f \in Traced : Pick(f)
    <3>1. ~Deliver
      BY <2>2 DEF Deliver
    <3>2. QED
      BY <2>1, <2>2, <3>1, OthersQueueNothing DEF Next
  <2>3. QED
    BY <2>2, AnswerQueuesNothing DEF Answered
<1>2. QED
  BY <1>1, Invariance, PTL DEF Spec
=============================================================================
