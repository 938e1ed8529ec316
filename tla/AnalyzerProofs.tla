--------------------------- MODULE AnalyzerProofs ---------------------------
(***************************************************************************)
(* For every listing and every trace: the analyzer's tables have their     *)
(* types, a function is in the profile only if its first line is in the    *)
(* trace, the graph draws every counted call, and building it fails only   *)
(* for a function the trace never enters.                                  *)
(***************************************************************************)
EXTENDS AnalyzerLaws, SequenceTheorems, FunctionTheorems, FiniteSetTheorems, WellFoundedInduction,
        TLAPS

----------------------------------------------------------------------------
\* Lines of a listing are chosen by CHOOSE: what Earliest and Latest return.

\* A set of line numbers has a least element.
LEMMA LeastExists ==
  ASSUME NEW S, S \subseteq Nat, S # {}
  PROVE  \E x \in S : \A y \in S : x <= y
<1> DEFINE R == {ss \in Nat \X Nat : ss[1] < ss[2]}
<1>1. IsWellFoundedOn(R, Nat)
  BY NatLessThanWellFounded DEF OpToRel
<1>2. \E x \in S : \A y \in S : ~ (<<y, x>> \in R)
  <2> HIDE DEF R
  <2> QED BY <1>1, WFMin
<1>3. PICK x \in S : \A y \in S : ~ (<<y, x>> \in R)
  BY <1>2
<1>4. ASSUME NEW y \in S PROVE x <= y
  <2>1. x \in Nat /\ y \in Nat
    OBVIOUS
  <2>2. ~ (<<y, x>> \in R)
    BY <1>3
  <2>3. <<y, x>> \in Nat \X Nat /\ ~ (y < x)
    BY <2>1, <2>2
  <2>4. QED
    BY <2>1, <2>3
<1>5. QED
  BY <1>4

\* map::insert keeps the first line of a key: there is one.
LEMMA EarliestIn ==
  ASSUME NEW S, S \subseteq Nat, S # {}
  PROVE  Earliest(S) \in S
BY LeastExists DEF Earliest

\* The header above a line: there is a last one.
LEMMA LatestIn ==
  ASSUME NEW S, NEW N \in Nat, S \subseteq 0..N, S # {}
  PROVE  Latest(S) \in S
<1> DEFINE T == {N - n : n \in S}
<1>1. T \subseteq Nat /\ T # {}
  <2>1. \A n \in S : n \in 0..N
    OBVIOUS
  <2>2. \A n \in S : N - n \in Nat
    BY <2>1
  <2>3. PICK n \in S : TRUE
    OBVIOUS
  <2>4. N - n \in T
    OBVIOUS
  <2>5. QED
    BY <2>2, <2>4
<1>2. \E t \in T : \A u \in T : t <= u
  <2> HIDE DEF T
  <2> QED BY <1>1, LeastExists
<1>3. PICK x \in S : \A y \in S : N - x <= N - y
  BY <1>2
<1>4. \A y \in S : y <= x
  BY <1>3
<1>5. QED
  BY <1>4 DEF Latest

----------------------------------------------------------------------------
\* The listing and the tables the parser makes of it.

\* Headers and instructions of the listing have the types of their records.
LEMMA ListingType ==
  /\ Len(Listing) \in Nat
  /\ Lines = 1..Len(Listing)
  /\ \A n \in Lines : Listing[n] \in Header \cup Insn
  /\ \A n \in Headers : Listing[n] \in Header
  /\ \A n \in Insns : Listing[n] \in Insn
  /\ Headers \subseteq Nat /\ Insns \subseteq Nat
<1>1. Listing \in Seq(Header \cup Insn)
  BY ObjdumpAssumption
<1>2. /\ Len(Listing) \in Nat
      /\ Lines = 1..Len(Listing)
      /\ \A n \in Lines : Listing[n] \in Header \cup Insn
  BY <1>1 DEF Lines
<1>3. QED
  BY <1>2 DEF Headers, Insns, Header, Insn

\* parseFuncName yields a symbol of the program or nothing.
LEMMA FuncNameType ==
  ASSUME NEW label \in Label
  PROVE  ParseFuncName(label) \in Name \cup {NoFunc}
BY ObjdumpAssumption DEF ParseFuncName, Label

\* What a reference of an instruction names is a symbol, or nothing.
LEMMA RefType ==
  ASSUME NEW n \in Headers \cup Insns
  PROVE  RefOf(n) \in Name \cup {NoFunc} /\ AddrOf(n) \in Addr
<1>1. Listing[n] \in Header \cup Insn
  BY ListingType
<1>2. Listing[n].label \in Label /\ Listing[n].addr \in Addr
  BY <1>1 DEF Header, Insn
<1>3. QED
  BY <1>2, FuncNameType DEF RefOf, AddrOf

\* Every function that owns code is a symbol with a header.
LEMMA CodeFuncsType == CodeFuncs \subseteq Name
<1> SUFFICES ASSUME NEW n \in Owned PROVE CurFuncName(n) \in Name
  BY DEF CodeFuncs
<1> DEFINE above == {h \in Headers : h < n}
<1>1. above # {}
  BY DEF Owned, CurFuncName
<1>2. above \subseteq 0..Len(Listing)
  BY ListingType DEF Headers
<1>3. Latest(above) \in above
  <2> HIDE DEF above
  <2> QED BY <1>1, <1>2, LatestIn, ListingType
<1>4. CurFuncName(n) = RefOf(Latest(above))
  BY <1>1 DEF CurFuncName
<1>5. RefOf(Latest(above)) \in Name \cup {NoFunc}
  BY <1>3, RefType
<1>6. QED
  BY <1>4, <1>5 DEF Owned

\* addFuncAddresses gives a line a function that owns code, or none.
LEMMA FuncAtType == \A a : FuncAt(a) \in CodeFuncs \cup {NoFunc}
<1> SUFFICES ASSUME NEW a, a \in DOMAIN AddrFuncMap PROVE AddrFuncMap[a] \in CodeFuncs
  BY DEF FuncAt
<1> DEFINE S == {n \in Owned : AddrOf(n) = a}
<1>1. S # {} /\ S \subseteq Nat
  BY ListingType DEF AddrFuncMap, Insert, Owned
<1>2. Earliest(S) \in S
  <2> HIDE DEF S
  <2> QED BY <1>1, EarliestIn
<1>3. AddrFuncMap[a] = CurFuncName(Earliest(S))
  BY DEF AddrFuncMap, Insert
<1>4. QED
  BY <1>2, <1>3 DEF CodeFuncs

\* A call site of the disassembly is a pair of its calling map.
LEMMA SitesOfListing ==
  ASSUME NEW a \in DOMAIN AddrCallerCalled
  PROVE  /\ AddrCallerCalled[a] \in Caller \X Called
         /\ \E f \in DOMAIN CallingMap :
              AddrCallerCalled[a][1] = f /\ AddrCallerCalled[a][2] \in CallingMap[f]
<1> DEFINE T == {n \in Refs : RefOf(n) \in FuncNames}
<1> DEFINE S == {n \in T : AddrOf(n) = a}
<1>1. S # {} /\ S \subseteq Nat
  BY ListingType DEF AddrCallerCalled, Insert, Refs, Owned
<1>2. Earliest(S) \in S
  <2> HIDE DEF S
  <2> QED BY <1>1, EarliestIn
<1>3. AddrCallerCalled[a] = CallerCalled(Earliest(S))
  BY DEF AddrCallerCalled, Insert
<1>4. PICK n \in Refs : AddrCallerCalled[a] = <<CurFuncName(n), RefOf(n)>>
  BY <1>2, <1>3 DEF CallerCalled
<1>5. n \in Owned /\ n \in Insns
  BY DEF Refs, Owned
<1>6. CurFuncName(n) \in Caller /\ RefOf(n) \in Called
  BY <1>5, RefType DEF Caller, Called, CodeFuncs
<1>7. CurFuncName(n) \in DOMAIN CallingMap /\ RefOf(n) \in CallingMap[CurFuncName(n)]
  BY DEF CallingMap
<1>8. QED
  BY <1>4, <1>6, <1>7

----------------------------------------------------------------------------
\* What openProjectFile hands to the analyzer.

\* Callers own code, so they are symbols too; what is called may own none.
LEMMA CalledType == CodeFuncs \subseteq Name /\ Caller \subseteq Called
BY CodeFuncsType DEF Caller, Called

\* The marked trace is a sequence of trace lines.
LEMMA MarkedType ==
  ASSUME NEW trace \in Seq(Addr)
  PROVE  Marked(trace) \in Seq(TraceLine) /\ Len(Marked(trace)) = Len(trace)
<1>1. DOMAIN trace = 1..Len(trace) /\ Len(trace) \in Nat /\ \A k \in 1..Len(trace) : trace[k] \in Addr
  OBVIOUS
<1>2. \A k \in 1..Len(trace) : Mark(trace[k]) \in TraceLine
  <2> TAKE k \in 1..Len(trace)
  <2>1. FuncAt(trace[k]) \in CodeFuncs \cup {NoFunc}
    BY FuncAtType
  <2>2. IsFirst(trace[k]) \in BOOLEAN /\ IsLast(trace[k]) \in BOOLEAN
    BY DEF IsFirst, IsLast
  <2>3. QED
    BY <1>1, <2>1, <2>2 DEF Mark, TraceLine
<1>3. Marked(trace) = [k \in 1..Len(trace) |-> Mark(trace[k])]
  BY <1>1 DEF Marked
<1>4. QED
  BY <1>1, <1>2, <1>3

\* Every call site that the trace adds is a pair the trace adds to callingMap.
LEMMA SitesType ==
  ASSUME NEW trace \in Seq(Addr), NEW a \in DOMAIN CallSites(trace)
  PROVE  CallSites(trace)[a] \in Calls(trace) /\ CallSites(trace)[a] \in Caller \X Called
<1> DEFINE S == {k \in CallLines(trace) : trace[k] = a}
<1>1. CASE a \in DOMAIN AddrCallerCalled
  <2>1. CallSites(trace)[a] = AddrCallerCalled[a]
    BY <1>1 DEF CallSites
  <2>2. /\ AddrCallerCalled[a] \in Caller \X Called
        /\ \E f \in DOMAIN CallingMap :
             AddrCallerCalled[a][1] = f /\ AddrCallerCalled[a][2] \in CallingMap[f]
    BY <1>1, SitesOfListing
  <2>3. PICK f \in DOMAIN CallingMap :
          AddrCallerCalled[a][1] = f /\ AddrCallerCalled[a][2] \in CallingMap[f]
    BY <2>2
  <2>4. AddrCallerCalled[a] = <<AddrCallerCalled[a][1], AddrCallerCalled[a][2]>>
    BY <2>2
  <2>5. AddrCallerCalled[a] \in {f} \X CallingMap[f]
    BY <2>3, <2>4
  <2>6. AddrCallerCalled[a] \in ListedCalls
    BY <2>5, Zenon DEF ListedCalls
  <2>7. QED
    BY <2>1, <2>2, <2>6 DEF Calls
<1>2. CASE a \notin DOMAIN AddrCallerCalled
  <2>1. S # {} /\ S \subseteq Nat
    BY <1>2 DEF CallSites, CallLines
  <2>2. Earliest(S) \in S
    <3> HIDE DEF S
    <3> QED BY <2>1, EarliestIn
  <2>3. CallSites(trace)[a] = Transfer(trace, Earliest(S))
    BY <1>2 DEF CallSites
  <2>4. PICK k \in CallLines(trace) : CallSites(trace)[a] = Transfer(trace, k)
    BY <2>2, <2>3
  <2>5. Transfer(trace, k) \in Caller \X Called
    BY FuncAtType, CalledType DEF Transfer, Caller
  <2>6. Transfer(trace, k) \in {Transfer(trace, m) : m \in CallLines(trace)}
    OBVIOUS
  <2>7. QED
    BY <2>4, <2>5, <2>6, Zenon DEF Calls, TracedCalls
<1>3. QED
  BY <1>1, <1>2

\* Calls, as the graph reads them, are pairs of known functions.
LEMMA CallsType ==
  ASSUME NEW trace \in Seq(Addr)
  PROVE  Calls(trace) \subseteq Caller \X Called
<1>1. ASSUME NEW f \in DOMAIN CallingMap PROVE {f} \X CallingMap[f] \subseteq Caller \X Called
  <2>1. f \in CodeFuncs
    BY DEF CallingMap, Refs, CodeFuncs
  <2>2. CallingMap[f] \subseteq Called
    BY RefType DEF CallingMap, Refs, Owned, Called
  <2>3. QED
    BY <2>1, <2>2 DEF Caller
<1>2. \A k \in CallLines(trace) : Transfer(trace, k) \in Caller \X Called
  BY FuncAtType, CalledType DEF Transfer, Caller
<1>3. ListedCalls \subseteq Caller \X Called
  BY <1>1, Zenon DEF ListedCalls
<1>4. TracedCalls(trace) \subseteq Caller \X Called
  BY <1>2, Zenon DEF TracedCalls
<1>5. QED
  BY <1>3, <1>4 DEF Calls

----------------------------------------------------------------------------
\* The inductive invariant.

\* The passes stay inside the trace, and nothing is counted before one is open.
Position ==
  /\ i \in 1..(Len(lines) + 1)
  /\ stage = "idle" => /\ i = 1
                       /\ table = {}
                       /\ \A p \in Caller \X Called : timesCalledByMap[p] = 0

\* The self time says whether the lines seen include one of the function.
SelfInv ==
  \A f \in CodeFuncs :
    execTimeMapTotalSelf[f] > 0 <=> \E k \in 1..Seen("self") : lines[k].func = f

\* Time runs for a function only after one of its first lines.
EnteredInv ==
  \A f \in CodeFuncs :
    timeMultipliers[f] > 0 \/ execTimeMapTotal[f] > 0 =>
      \E k \in 1..Seen("total") : lines[k].func = f /\ lines[k].first

\* Every site, and so every counted pair, is in callingMap.
SitesInv   == \A a \in DOMAIN sites : sites[a] \in calls
CountedInv == Counted \subseteq calls

Inv ==
  /\ TypeOK /\ Position
  /\ SelfInv /\ EnteredInv /\ SitesInv /\ CountedInv
  /\ TableIsEntered /\ EveryCountIsDrawn /\ FailsOnlyOnUntraced

\* The analyzer before a project is opened.
LEMMA InitInv == Init => Inv
<1> SUFFICES ASSUME Init PROVE Inv
  OBVIOUS
<1>1. lines \in Seq(TraceLine) /\ Len(lines) = 0 /\ i = 1
  BY EmptySeq DEF Init
<1>2. Seen("self") = 0 /\ Seen("total") = 0
  BY DEF Init, Seen, Before
<1>3. TypeOK
  BY <1>1 DEF Init, TypeOK, Stages, Zero, Caller
<1>4. Position
  BY <1>1 DEF Init, Position, Zero
<1>5. SelfInv
  BY <1>2 DEF Init, SelfInv, Zero
<1>6. EnteredInv
  BY <1>2 DEF Init, EnteredInv, Zero
<1>7. SitesInv /\ CountedInv
  BY DEF Init, SitesInv, CountedInv, Counted, Zero
<1>8. TableIsEntered /\ EveryCountIsDrawn /\ FailsOnlyOnUntraced
  BY DEF Init, TableIsEntered, EveryCountIsDrawn, FailsOnlyOnUntraced
<1>9. QED
  BY <1>3, <1>4, <1>5, <1>6, <1>7, <1>8 DEF Inv

\* openProjectFile resets every counter before the first pass.
LEMMA LoadInv ==
  ASSUME Inv, NEW trace \in Seq(Addr), Load(trace)
  PROVE  Inv'
<1>1. trace \in Seq(Addr)
  OBVIOUS
<1>2. lines' \in Seq(TraceLine) /\ Len(lines') \in Nat
  BY <1>1, MarkedType DEF Load
<1>3. i' = 1 /\ i' = i
  BY DEF Load, Inv, Position
<1>4. Seen("self") = 0 /\ Seen("total") = 0 /\ Seen("self")' = 0 /\ Seen("total")' = 0
  BY <1>3 DEF Load, Seen, Before
<1>5. SitesInv' /\ \A a \in DOMAIN sites' : sites'[a] \in Caller \X Called
  BY <1>1, SitesType DEF Load, SitesInv
<1>6. calls' \subseteq Caller \X Called
  BY <1>1, CallsType DEF Load
<1>7. TypeOK'
  BY <1>2, <1>5, <1>6 DEF Inv, TypeOK, Load, Stages, pass1, pass3
<1>8. Position'
  BY <1>2, <1>3 DEF Position, Load
<1>9. SelfInv'
  BY <1>4 DEF Inv, SelfInv, Load, pass3
<1>10. EnteredInv'
  BY <1>4 DEF Inv, EnteredInv, Load, pass1
<1>11. CountedInv'
  BY DEF Inv, Position, CountedInv, Counted, Load
<1>12. TableIsEntered' /\ EveryCountIsDrawn' /\ FailsOnlyOnUntraced'
  BY DEF Inv, Position, Load, TableIsEntered, EveryCountIsDrawn, FailsOnlyOnUntraced, output
<1>13. QED
  BY <1>5, <1>7, <1>8, <1>9, <1>10, <1>11, <1>12 DEF Inv

\* An iteration of a pass looks at a line of the trace.
LEMMA LineType ==
  ASSUME TypeOK, NEW k \in 1..Len(lines)
  PROVE  /\ lines[k] \in TraceLine
         /\ lines[k].func \in Caller /\ lines[k].first \in BOOLEAN /\ lines[k].last \in BOOLEAN
<1>1. lines[k] \in TraceLine
  BY DEF TypeOK
<1>2. QED
  BY <1>1 DEF TraceLine, Caller

\* The end of a pass moves to the next and to its first line.
LEMMA EndPassInv ==
  ASSUME Inv, NEW s \in {"total", "by", "self"}, NEW t \in {"by", "self", "table"},
         <<s, t>> \in {<<"total", "by">>, <<"by", "self">>, <<"self", "table">>},
         EndPass(s, t)
  PROVE  Inv'
<1>1. Len(lines) \in Nat /\ Len(lines') = Len(lines) /\ lines' = lines
  BY DEF Inv, TypeOK, EndPass, input
<1>2. i = Len(lines) + 1
  BY <1>1 DEF Inv, Position, EndPass
<1>3. Seen("self")' = Seen("self") /\ Seen("total")' = Seen("total")
  BY <1>1, <1>2 DEF EndPass, Seen, Before
<1>4. TypeOK'
  BY <1>1 DEF Inv, TypeOK, EndPass, Stages, input, pass1, pass3
<1>5. Position'
  BY <1>1 DEF Position, EndPass
<1>6. SelfInv' /\ EnteredInv'
  BY <1>1, <1>3 DEF Inv, SelfInv, EnteredInv, EndPass, pass1, pass3
<1>7. SitesInv' /\ CountedInv'
  BY DEF Inv, SitesInv, CountedInv, Counted, EndPass, input
<1>8. TableIsEntered' /\ EveryCountIsDrawn' /\ FailsOnlyOnUntraced'
  BY <1>1 DEF Inv, TableIsEntered, EveryCountIsDrawn, FailsOnlyOnUntraced, EndPass, output
<1>9. QED
  BY <1>4, <1>5, <1>6, <1>7, <1>8 DEF Inv

\* What an iteration leaves alone.
LEMMA SameTraceInv ==
  ASSUME Inv, UNCHANGED <<stage, input, output>>, stage \in {"total", "by", "self"},
         i <= Len(lines), i' = i + 1
  PROVE  /\ Position' /\ SitesInv'
         /\ TableIsEntered' /\ EveryCountIsDrawn' /\ FailsOnlyOnUntraced'
         /\ Len(lines) \in Nat /\ lines' = lines /\ i \in 1..Len(lines)
<1>1. Len(lines) \in Nat /\ lines' = lines
  BY DEF Inv, TypeOK, input
<1>2. Position'
  BY <1>1 DEF Inv, Position
<1>3. SitesInv'
  BY DEF Inv, SitesInv, input
<1>4. TableIsEntered' /\ EveryCountIsDrawn' /\ FailsOnlyOnUntraced'
  BY <1>1 DEF Inv, TableIsEntered, EveryCountIsDrawn, FailsOnlyOnUntraced, output
<1>5. QED
  BY <1>1, <1>2, <1>3, <1>4 DEF Inv, Position

\* An iteration of calculateTotalExecTime: the multiplier stays a count.
LEMMA TotalStepInv ==
  ASSUME Inv, TotalStep
  PROVE  Inv'
<1> DEFINE l  == lines[i]
           up == IF Entered(l) THEN Bump(timeMultipliers, l.func) ELSE timeMultipliers
<1>1. UNCHANGED <<stage, input, output>> /\ stage = "total" /\ i <= Len(lines) /\ i' = i + 1
  BY DEF TotalStep, AtLine
<1>2. /\ Position' /\ SitesInv'
      /\ TableIsEntered' /\ EveryCountIsDrawn' /\ FailsOnlyOnUntraced'
      /\ Len(lines) \in Nat /\ lines' = lines /\ i \in 1..Len(lines)
  BY <1>1, SameTraceInv
<1>3. l.func \in Caller /\ l.first \in BOOLEAN /\ l.last \in BOOLEAN
  BY <1>2, LineType DEF Inv
<1>4. Seen("total") = i - 1 /\ Seen("total")' = i /\ Seen("self") = 0 /\ Seen("self")' = 0
  BY <1>1, <1>2 DEF Seen, Before
<1>5. CASE l.func = NoFunc
  <2>1. UNCHANGED pass1 /\ UNCHANGED <<timesCalledByMap, pass3>>
    BY <1>5 DEF TotalStep
  <2>2. TypeOK'
    BY <1>1, <1>2, <2>1 DEF Inv, TypeOK, input, pass1, pass3
  <2>3. SelfInv' /\ EnteredInv' /\ CountedInv'
    BY <1>1, <1>2, <1>4, <2>1
    DEF Inv, SelfInv, EnteredInv, CountedInv, Counted, pass1, pass3, input
  <2>4. QED
    BY <1>2, <2>2, <2>3 DEF Inv
<1>6. CASE l.func # NoFunc
  <2>1. /\ execTimeMapTotal' = [f \in CodeFuncs |-> execTimeMapTotal[f] + up[f]]
        /\ timeMultipliers' = IF Left(l, up) THEN [up EXCEPT ![l.func] = @ - 1] ELSE up
        /\ lastFunc' = l.func
        /\ UNCHANGED <<timesCalledByMap, pass3>>
    BY <1>6 DEF TotalStep
  <2>2. l.func \in CodeFuncs
    BY <1>3, <1>6 DEF Caller
  <2>3. /\ up \in [CodeFuncs -> Nat]
        /\ \A f \in CodeFuncs : up[f] > 0 => timeMultipliers[f] > 0 \/ (f = l.func /\ l.first)
    BY <2>2 DEF Inv, TypeOK, Entered, Bump
  <2>4. /\ timeMultipliers' \in [CodeFuncs -> Nat]
        /\ \A f \in CodeFuncs : timeMultipliers'[f] > 0 => up[f] > 0
    <3> HIDE DEF up
    <3> QED BY <2>1, <2>2, <2>3 DEF Left
  <2>5. /\ execTimeMapTotal' \in [CodeFuncs -> Nat]
        /\ \A f \in CodeFuncs : execTimeMapTotal'[f] > 0 => execTimeMapTotal[f] > 0 \/ up[f] > 0
    <3> HIDE DEF up
    <3> QED BY <2>1, <2>3 DEF Inv, TypeOK
  <2>6. TypeOK'
    <3>1. lastFunc' \in Caller
      BY <1>3, <2>1
    <3>2. stage' \in Stages /\ i' \in Nat \ {0} /\ UNCHANGED <<lines, sites, calls>>
      BY <1>1, <1>2 DEF Inv, TypeOK, input
    <3>3. UNCHANGED <<timesCalledByMap, timesCalledMap, execTimeMapTotalSelf>>
      BY <2>1 DEF pass3
    <3> HIDE DEF up, l
    <3>4. QED
      BY <2>4, <2>5, <3>1, <3>2, <3>3 DEF Inv, TypeOK
  <2>7. EnteredInv'
    <3> SUFFICES ASSUME NEW f \in CodeFuncs, timeMultipliers'[f] > 0 \/ execTimeMapTotal'[f] > 0
                 PROVE  \E k \in 1..i : lines[k].func = f /\ lines[k].first
      BY <1>2, <1>4 DEF EnteredInv
    <3>1. timeMultipliers[f] > 0 \/ execTimeMapTotal[f] > 0 \/ (f = l.func /\ l.first)
      BY <2>3, <2>4, <2>5
    <3>2. QED
      BY <1>2, <1>4, <3>1 DEF Inv, EnteredInv
  <2>8. SelfInv' /\ CountedInv'
    BY <1>1, <1>2, <1>4, <2>1 DEF Inv, SelfInv, CountedInv, Counted, pass3, input
  <2>9. QED
    BY <1>2, <2>6, <2>7, <2>8 DEF Inv
<1>7. QED
  BY <1>5, <1>6

\* An iteration of the pass over the entries: times stay those of functions.
LEMMA ByStepInv ==
  ASSUME Inv, ByStep
  PROVE  Inv'
<1>1. UNCHANGED <<stage, input, output>> /\ stage = "by" /\ i <= Len(lines) /\ i' = i + 1
  BY DEF ByStep, AtLine
<1>2. /\ Position' /\ SitesInv'
      /\ TableIsEntered' /\ EveryCountIsDrawn' /\ FailsOnlyOnUntraced'
      /\ Len(lines) \in Nat /\ lines' = lines /\ i \in 1..Len(lines)
  BY <1>1, SameTraceInv
<1>3. UNCHANGED <<pass1, pass3>>
  BY DEF ByStep
<1>4. Seen("total")' = Seen("total") /\ Seen("self")' = Seen("self")
  BY <1>1, <1>2 DEF Seen, Before
<1>5. SelfInv' /\ EnteredInv'
  BY <1>2, <1>3, <1>4 DEF Inv, SelfInv, EnteredInv, pass1, pass3
<1>6. TypeOK' /\ CountedInv'
  <2>1. CASE IsCall(i)
    <3> DEFINE p == sites[lines[i].addr]
    <3>1. p \in calls /\ p \in Caller \X Called
      BY <2>1 DEF IsCall, Inv, TypeOK, SitesInv
    <3>2. timesCalledByMap' = [timesCalledByMap EXCEPT ![p] = @ + 1]
      BY <2>1 DEF ByStep, Bump
    <3> HIDE DEF p
    <3>3. timesCalledByMap' \in [Caller \X Called -> Nat]
      BY <3>1, <3>2 DEF Inv, TypeOK
    <3>4. TypeOK'
      BY <1>1, <1>2, <1>3, <3>3 DEF Inv, TypeOK, input, pass1, pass3
    <3>5. \A q \in Caller \X Called : timesCalledByMap'[q] > 0 => timesCalledByMap[q] > 0 \/ q = p
      BY <3>1, <3>2 DEF Inv, TypeOK
    <3>6. CountedInv'
      BY <1>1, <3>1, <3>5 DEF Inv, CountedInv, Counted, input
    <3>7. QED
      BY <3>4, <3>6
  <2>2. CASE ~IsCall(i)
    <3>1. timesCalledByMap' = timesCalledByMap
      BY <2>2 DEF ByStep
    <3>2. QED
      BY <1>1, <1>2, <1>3, <3>1 DEF Inv, TypeOK, CountedInv, Counted, input, pass1, pass3
  <2>3. QED
    BY <2>1, <2>2
<1>7. QED
  BY <1>2, <1>5, <1>6 DEF Inv

\* An iteration of the pass over call sites: each count gets its site.
LEMMA SelfStepInv ==
  ASSUME Inv, SelfStep
  PROVE  Inv'
<1> DEFINE l == lines[i]
<1>1. UNCHANGED <<stage, input, output>> /\ stage = "self" /\ i <= Len(lines) /\ i' = i + 1
  BY DEF SelfStep, AtLine
<1>2. /\ Position' /\ SitesInv'
      /\ TableIsEntered' /\ EveryCountIsDrawn' /\ FailsOnlyOnUntraced'
      /\ Len(lines) \in Nat /\ lines' = lines /\ i \in 1..Len(lines)
  BY <1>1, SameTraceInv
<1>3. UNCHANGED <<pass1, timesCalledByMap>>
  BY DEF SelfStep
<1>4. l.func \in Caller /\ l.first \in BOOLEAN
  BY <1>2, LineType DEF Inv
<1>5. Seen("total")' = Seen("total") /\ Seen("self") = i - 1 /\ Seen("self")' = i
  BY <1>1, <1>2 DEF Seen, Before
<1>6. timesCalledMap' \in [Caller -> Nat]
  BY <1>4 DEF SelfStep, IsCalled, Bump, Inv, TypeOK
<1>7. /\ execTimeMapTotalSelf' \in [CodeFuncs -> Nat]
      /\ \A f \in CodeFuncs :
           execTimeMapTotalSelf'[f] > 0 <=> execTimeMapTotalSelf[f] > 0 \/ f = l.func
  <2>1. CASE l.func = NoFunc
    BY <2>1, CodeFuncsType, ObjdumpAssumption DEF SelfStep, IsOwn, Inv, TypeOK
  <2>2. CASE l.func # NoFunc
    <3> DEFINE g == l.func
    <3>1. g \in CodeFuncs
      BY <1>4, <2>2 DEF Caller
    <3>2. execTimeMapTotalSelf' = [execTimeMapTotalSelf EXCEPT ![g] = @ + 1]
      BY <2>2 DEF SelfStep, IsOwn, Bump
    <3>3. execTimeMapTotalSelf \in [CodeFuncs -> Nat]
      BY DEF Inv, TypeOK
    <3> HIDE DEF g
    <3>4. /\ execTimeMapTotalSelf' \in [CodeFuncs -> Nat]
          /\ \A f \in CodeFuncs :
               execTimeMapTotalSelf'[f] > 0 <=> execTimeMapTotalSelf[f] > 0 \/ f = g
      BY <3>1, <3>2, <3>3
    <3>5. QED
      BY <3>4 DEF g
  <2>3. QED
    BY <2>1, <2>2
<1>8. TypeOK'
  BY <1>1, <1>2, <1>3, <1>6, <1>7 DEF Inv, TypeOK, input, pass1
<1>9. SelfInv'
  <2> SUFFICES ASSUME NEW f \in CodeFuncs
               PROVE  execTimeMapTotalSelf'[f] > 0 <=> \E k \in 1..i : lines[k].func = f
    BY <1>2, <1>5 DEF SelfInv
  <2>1. execTimeMapTotalSelf[f] > 0 <=> \E k \in 1..(i - 1) : lines[k].func = f
    BY <1>5 DEF Inv, SelfInv
  <2>2. (\E k \in 1..i : lines[k].func = f)
          <=> (\E k \in 1..(i - 1) : lines[k].func = f) \/ f = l.func
    BY <1>2
  <2>3. QED
    BY <1>7, <2>1, <2>2
<1>10. EnteredInv' /\ CountedInv'
  BY <1>1, <1>2, <1>3, <1>5 DEF Inv, EnteredInv, CountedInv, Counted, pass1, input
<1>11. QED
  BY <1>2, <1>8, <1>9, <1>10 DEF Inv

\* A row needs a total that is not 0, an int that wraps around included.
LEMMA BuildTableInv ==
  ASSUME Inv, BuildTable
  PROVE  Inv'
<1>1. UNCHANGED <<i, input, pass1, timesCalledByMap, pass3, graph>>
  BY DEF BuildTable
<1>2. stage = "table" /\ stage' = "graph" /\ Len(lines) \in Nat /\ lines' = lines
  BY DEF BuildTable, Inv, TypeOK, input
<1>3. /\ Seen("self")' = Seen("self") /\ Seen("total")' = Seen("total")
      /\ Seen("total") = Len(lines)
  BY <1>2 DEF Seen, Before
<1>4. TypeOK' /\ Position'
  BY <1>1, <1>2 DEF Inv, TypeOK, Position, input, pass1, pass3, Stages
<1>5. SelfInv' /\ EnteredInv' /\ SitesInv' /\ CountedInv'
  BY <1>1, <1>2, <1>3
  DEF Inv, SelfInv, EnteredInv, SitesInv, CountedInv, Counted, input, pass1, pass3
<1>6. EveryCountIsDrawn' /\ FailsOnlyOnUntraced'
  BY <1>2 DEF EveryCountIsDrawn, FailsOnlyOnUntraced
<1>7. TableIsEntered'
  <2>1. Int32(0) = 0
    BY AnalyzerAssumption DEF Int32
  <2>2. table' = {Row(f) : f \in {g \in CodeFuncs : Int32(execTimeMapTotal[g]) # 0}}
    BY DEF BuildTable
  <2>3. ASSUME NEW r \in table'
        PROVE  \E k \in 1..Len(lines) : lines[k].func = r.name /\ lines[k].first
    <3>1. PICK f \in CodeFuncs : Int32(execTimeMapTotal[f]) # 0 /\ r.name = f
      BY <2>2 DEF Row
    <3>2. execTimeMapTotal[f] > 0
      BY <2>1, <3>1 DEF Inv, TypeOK
    <3>3. QED
      BY <1>3, <3>1, <3>2 DEF Inv, EnteredInv
  <2>4. DOMAIN lines = 1..Len(lines)
    BY DEF Inv, TypeOK
  <2>5. QED
    BY <1>2, <2>3, <2>4 DEF TableIsEntered
<1>8. QED
  BY <1>4, <1>5, <1>6, <1>7 DEF Inv

\* The graph takes in every count, or the at() of a label throws.
LEMMA BuildGraphInv ==
  ASSUME Inv, BuildGraph
  PROVE  Inv'
<1>1. UNCHANGED <<i, input, pass1, timesCalledByMap, pass3, table>>
  BY DEF BuildGraph
<1>2. stage = "graph" /\ stage' \in {"done", "out_of_range"} /\ Len(lines) \in Nat /\ lines' = lines
  BY DEF BuildGraph, Inv, TypeOK, input
<1>3. /\ Seen("self")' = Seen("self") /\ Seen("total")' = Seen("total")
      /\ Seen("self") = Len(lines)
  BY <1>2 DEF Seen, Before
<1>4. TypeOK' /\ Position'
  BY <1>1, <1>2 DEF Inv, TypeOK, Position, input, pass1, pass3, Stages
<1>5. SelfInv' /\ EnteredInv' /\ SitesInv' /\ CountedInv'
  BY <1>1, <1>2, <1>3
  DEF Inv, SelfInv, EnteredInv, SitesInv, CountedInv, Counted, input, pass1, pass3
<1>6. TableIsEntered'
  BY <1>1, <1>2 DEF Inv, TableIsEntered
<1>7. Counted' = Counted /\ Nodes' = Nodes
  BY <1>1 DEF Counted, Nodes
<1>8. EveryCountIsDrawn'
  <2> SUFFICES ASSUME stage' = "done", NEW p \in Counted, {p[1], p[2]} \subseteq CodeFuncs
               PROVE  <<p, timesCalledByMap[p]>> \in graph'.edges
    BY <1>1, <1>7 DEF EveryCountIsDrawn
  <2>1. graph'.edges = {<<q, timesCalledByMap[q]>> :
                          q \in {r \in calls \cap Counted : {r[1], r[2]} \subseteq Nodes}}
    BY DEF BuildGraph
  <2>2. p \in calls
    BY DEF Inv, CountedInv
  <2>3. {p[1], p[2]} \subseteq Nodes
    BY DEF Nodes
  <2>4. QED
    BY <2>1, <2>2, <2>3
<1>9. FailsOnlyOnUntraced'
  <2> SUFFICES ASSUME stage' = "out_of_range"
               PROVE  \E f \in Nodes : \A k \in DOMAIN lines : lines[k].func # f
    BY <1>2, <1>7 DEF FailsOnlyOnUntraced
  <2>1. PICK f \in Nodes : ~ (execTimeMapTotalSelf[f] > 0)
    BY DEF BuildGraph
  <2>2. f \in CodeFuncs /\ DOMAIN lines = 1..Len(lines)
    BY DEF Nodes, Inv, TypeOK
  <2>3. QED
    BY <1>3, <2>1, <2>2 DEF Inv, SelfInv
<1>10. QED
  BY <1>4, <1>5, <1>6, <1>8, <1>9 DEF Inv

\* A step that leaves the analyzer alone.
LEMMA StutterInv ==
  ASSUME Inv, UNCHANGED vars
  PROVE  Inv'
<1>1. UNCHANGED <<stage, i, input, pass1, timesCalledByMap, pass3, output>>
  BY DEF vars
<1>2. Len(lines') = Len(lines)
  BY <1>1 DEF input
<1>3. Seen("self")' = Seen("self") /\ Seen("total")' = Seen("total")
  BY <1>1, <1>2 DEF Seen, Before
<1>4. TypeOK' /\ Position'
  BY <1>1, <1>2 DEF Inv, TypeOK, Position, input, pass1, pass3, output
<1>5. SelfInv' /\ EnteredInv' /\ SitesInv' /\ CountedInv'
  BY <1>1, <1>3
  DEF Inv, SelfInv, EnteredInv, SitesInv, CountedInv, Counted, input, pass1, pass3
<1>6. TableIsEntered' /\ EveryCountIsDrawn' /\ FailsOnlyOnUntraced'
  BY <1>1
  DEF Inv, TableIsEntered, EveryCountIsDrawn, FailsOnlyOnUntraced, Counted, Nodes, input, pass3, output
<1>7. QED
  BY <1>4, <1>5, <1>6 DEF Inv

\* Every iteration and every end of a pass keeps the invariant.
LEMMA StepInv ==
  ASSUME Inv, Step
  PROVE  Inv'
<1>1. CASE TotalStep
  BY <1>1, TotalStepInv
<1>2. CASE ByStep
  BY <1>2, ByStepInv
<1>3. CASE SelfStep
  BY <1>3, SelfStepInv
<1>4. CASE EndPass("total", "by") \/ EndPass("by", "self") \/ EndPass("self", "table")
  BY <1>4, EndPassInv
<1>5. CASE BuildTable
  BY <1>5, BuildTableInv
<1>6. CASE BuildGraph
  BY <1>6, BuildGraphInv
<1>7. QED
  BY <1>1, <1>2, <1>3, <1>4, <1>5, <1>6 DEF Step

\* Every step of the analyzer keeps the invariant.
LEMMA NextInv == Inv /\ [Next]_vars => Inv'
<1> SUFFICES ASSUME Inv, [Next]_vars PROVE Inv'
  OBVIOUS
<1>1. ASSUME NEW trace \in Traces, Load(trace) PROVE Inv'
  <2>1. trace \in Seq(Addr)
    BY AnalyzerAssumption
  <2>2. QED
    BY <1>1, <2>1, LoadInv
<1>2. QED
  BY <1>1, StepInv, StutterInv DEF Next

----------------------------------------------------------------------------
\* What the counters of the last two passes count: lines of the trace.

\* The lines of a function, its first lines, and the calls of a pair, up to line n.
OwnLines(f, n)    == {k \in 1..n : lines[k].func = f}
CalledLines(f, n) == {k \in 1..n : lines[k].first /\ lines[k].func = f}
CallsOf(p, n)     == {k \in 1..n : IsCall(k) /\ sites[lines[k].addr] = p}

SelfCounted ==
  \A f \in CodeFuncs : execTimeMapTotalSelf[f] = Cardinality(OwnLines(f, Seen("self")))
CalledCounted ==
  \A f \in Caller : timesCalledMap[f] = Cardinality(CalledLines(f, Seen("self")))
ByCounted ==
  \A p \in Caller \X Called : timesCalledByMap[p] = Cardinality(CallsOf(p, Seen("by")))
Counts == SelfCounted /\ CalledCounted /\ ByCounted

\* A count of lines grows by one when the next line is one of them.
LEMMA CountNext ==
  ASSUME NEW n \in Nat, NEW S, S \subseteq 1..n
  PROVE  /\ IsFiniteSet(S) /\ Cardinality(S) \in Nat
         /\ Cardinality(S \ {n}) \in Nat
         /\ Cardinality(S) = Cardinality(S \ {n}) + IF n \in S THEN 1 ELSE 0
<1>1. IsFiniteSet(1..n)
  BY FS_Interval
<1>2. IsFiniteSet(S)
  BY <1>1, FS_Subset
<1>3. Cardinality(S) \in Nat
  BY <1>2, FS_CardinalityType
<1>4. /\ IsFiniteSet(S \ {n})
      /\ Cardinality(S \ {n}) = IF n \in S THEN Cardinality(S) - 1 ELSE Cardinality(S)
  BY <1>2, FS_RemoveElement
<1>5. Cardinality(S \ {n}) \in Nat
  BY <1>4, FS_CardinalityType
<1>6. QED
  BY <1>2, <1>3, <1>4, <1>5

\* As many lines follow the lines of S as S has.
LEMMA Shifted ==
  ASSUME NEW n \in Nat, NEW S, NEW T, S \subseteq 1..n, T \subseteq 1..n,
         \A k \in S : k + 1 \in T, \A k \in T : k - 1 \in S
  PROVE  Cardinality(S) = Cardinality(T)
<1> DEFINE F == [k \in S |-> k + 1]
<1>1. F \in [S -> T]
  OBVIOUS
<1>2. \A j, k \in S : F[j] = F[k] => j = k
  OBVIOUS
<1>3. \A t \in T : \E k \in S : F[k] = t
  <2> TAKE t \in T
  <2>1. t - 1 \in S /\ F[t - 1] = t
    OBVIOUS
  <2>2. QED
    BY <2>1
<1>4. IsFiniteSet(S)
  <2>1. IsFiniteSet(1..n) /\ S \in SUBSET (1..n)
    BY FS_Interval
  <2>2. QED
    BY <2>1, FS_Subset
<1> HIDE DEF F
<1>5. F \in Bijection(S, T)
  BY <1>1, <1>2, <1>3, Fun_IsBij
<1>6. ExistsBijection(S, T)
  BY <1>5, Fun_ExistsBij
<1>7. QED
  BY <1>4, <1>6, FS_Bijection

\* Before a pass nothing is counted.
LEMMA CountNone ==
  /\ \A f : OwnLines(f, 0) = {} /\ CalledLines(f, 0) = {}
  /\ \A p : CallsOf(p, 0) = {}
  /\ Cardinality({}) = 0
BY FS_EmptySet DEF OwnLines, CalledLines, CallsOf

LEMMA InitCounts == Init => Counts
<1> SUFFICES ASSUME Init PROVE Counts
  OBVIOUS
<1>1. Seen("self") = 0 /\ Seen("by") = 0
  BY DEF Init, Seen, Before
<1>2. QED
  BY <1>1, CountNone DEF Init, Zero, Counts, SelfCounted, CalledCounted, ByCounted

\* Nothing has been counted when a project is opened.
LEMMA LoadCounts ==
  ASSUME Inv, Counts, NEW trace, Load(trace)
  PROVE  Counts'
<1>1. i = 1 /\ stage = "idle" /\ stage' = "total" /\ i' = i
  BY DEF Load, Inv, Position
<1>2. Seen("self") = 0 /\ Seen("by") = 0 /\ Seen("self")' = 0 /\ Seen("by")' = 0
  BY <1>1 DEF Seen, Before
<1>3. /\ \A f : OwnLines(f, 0)' = {} /\ CalledLines(f, 0)' = {}
      /\ \A p : CallsOf(p, 0)' = {}
  BY DEF OwnLines, CalledLines, CallsOf
<1>4. UNCHANGED <<timesCalledByMap, timesCalledMap, execTimeMapTotalSelf>>
  BY DEF Load, pass3
<1>5. \A f \in CodeFuncs : execTimeMapTotalSelf[f] = 0
  BY <1>2, CountNone DEF Counts, SelfCounted
<1>6. \A f \in Caller : timesCalledMap[f] = 0
  BY <1>2, CountNone DEF Counts, CalledCounted
<1>7. \A p \in Caller \X Called : timesCalledByMap[p] = 0
  BY <1>2, CountNone DEF Counts, ByCounted
<1>8. QED
  BY <1>2, <1>3, <1>4, <1>5, <1>6, <1>7, CountNone
  DEF Counts, SelfCounted, CalledCounted, ByCounted

\* A step that sees no new line of the last two passes.
LEMMA SameCounts ==
  ASSUME Counts, UNCHANGED <<input, timesCalledByMap, pass3>>,
         Seen("self")' = Seen("self"), Seen("by")' = Seen("by")
  PROVE  Counts'
<1>1. UNCHANGED <<lines, sites, timesCalledByMap, timesCalledMap, execTimeMapTotalSelf>>
  BY DEF input, pass3
<1>2. /\ \A f, n : OwnLines(f, n)' = OwnLines(f, n) /\ CalledLines(f, n)' = CalledLines(f, n)
      /\ \A p, n : CallsOf(p, n)' = CallsOf(p, n)
  BY <1>1 DEF OwnLines, CalledLines, CallsOf, IsCall
<1>3. SelfCounted'
  BY <1>1, <1>2 DEF Counts, SelfCounted
<1>4. CalledCounted'
  BY <1>1, <1>2 DEF Counts, CalledCounted
<1>5. ByCounted'
  BY <1>1, <1>2 DEF Counts, ByCounted
<1>6. QED
  BY <1>3, <1>4, <1>5 DEF Counts

\* An iteration of the second pass: the pair of the site gets the line if it is a call.
LEMMA ByStepCounts ==
  ASSUME Inv, Counts, ByStep
  PROVE  Counts'
<1>1. /\ UNCHANGED <<stage, input, pass3>> /\ stage = "by" /\ i' = i + 1
      /\ i \in Nat \ {0} /\ Len(lines) \in Nat /\ lines' = lines /\ sites' = sites
  BY DEF ByStep, AtLine, Inv, TypeOK, input
<1>2. Seen("self") = 0 /\ Seen("self")' = 0 /\ Seen("by") = i - 1 /\ Seen("by")' = i
  BY <1>1 DEF Seen, Before
<1>3. SelfCounted' /\ CalledCounted'
  <2>1. \A f, n : OwnLines(f, n)' = OwnLines(f, n) /\ CalledLines(f, n)' = CalledLines(f, n)
    BY <1>1 DEF OwnLines, CalledLines
  <2>2. QED
    BY <1>1, <1>2, <2>1 DEF Counts, SelfCounted, CalledCounted, pass3
<1>4. ASSUME NEW p \in Caller \X Called
      PROVE  timesCalledByMap'[p] = Cardinality(CallsOf(p, i))
  <2> DEFINE S == CallsOf(p, i)
             isCall == IsCall(i) /\ sites[lines[i].addr] = p
  <2>2. S \subseteq 1..i /\ S \ {i} = CallsOf(p, i - 1) /\ (i \in S <=> isCall)
    BY <1>1 DEF CallsOf
  <2>3. timesCalledByMap[p] = Cardinality(CallsOf(p, i - 1))
    BY <1>2 DEF Counts, ByCounted
  <2>4. timesCalledByMap'[p] = timesCalledByMap[p] + IF isCall THEN 1 ELSE 0
    <3>1. timesCalledByMap \in [Caller \X Called -> Nat]
      BY DEF Inv, TypeOK
    <3>2. CASE IsCall(i)
      <4>1. timesCalledByMap' = [timesCalledByMap EXCEPT ![sites[lines[i].addr]] = @ + 1]
        BY <3>2 DEF ByStep, Bump
      <4>2. QED
        BY <3>1, <3>2, <4>1
    <3>3. CASE ~IsCall(i)
      BY <3>1, <3>3 DEF ByStep
    <3>4. QED
      BY <3>2, <3>3
  <2> HIDE DEF S, isCall
  <2>5. Cardinality(S) = Cardinality(S \ {i}) + IF i \in S THEN 1 ELSE 0
    BY <1>1, <2>2, CountNext
  <2>6. QED
    BY <2>2, <2>3, <2>4, <2>5 DEF S
<1>5. \A p, n : CallsOf(p, n)' = CallsOf(p, n)
  BY <1>1 DEF CallsOf, IsCall
<1>6. ByCounted'
  BY <1>2, <1>4, <1>5 DEF ByCounted
<1>7. QED
  BY <1>3, <1>6 DEF Counts

\* An iteration of the third pass: the function gets the line, and its first lines as calls.
LEMMA SelfStepCounts ==
  ASSUME Inv, Counts, SelfStep
  PROVE  Counts'
<1> DEFINE l == lines[i]
<1>1. /\ UNCHANGED <<stage, input, timesCalledByMap>> /\ stage = "self" /\ i' = i + 1
      /\ i \in Nat /\ i \in 1..Len(lines) /\ Len(lines) \in Nat /\ lines' = lines /\ sites' = sites
  BY DEF SelfStep, AtLine, Inv, TypeOK, Position, input
<1>2. Seen("by")' = Seen("by") /\ Seen("self") = i - 1 /\ Seen("self")' = i
  BY <1>1 DEF Seen, Before
<1>3. /\ \A f, n : OwnLines(f, n)' = OwnLines(f, n) /\ CalledLines(f, n)' = CalledLines(f, n)
      /\ \A p, n : CallsOf(p, n)' = CallsOf(p, n)
  BY <1>1 DEF OwnLines, CalledLines, CallsOf, IsCall
<1>4. l.func \in Caller /\ l.first \in BOOLEAN
  BY <1>1, LineType DEF Inv
<1>5. ByCounted'
  BY <1>1, <1>2, <1>3 DEF Counts, ByCounted
<1>6. ASSUME NEW f \in Caller
      PROVE  timesCalledMap'[f] = Cardinality(CalledLines(f, i))
  <2> DEFINE S == CalledLines(f, i)
             isCalled == l.first /\ l.func = f
  <2>1. S \subseteq 1..i /\ S \ {i} = CalledLines(f, i - 1) /\ (i \in S <=> isCalled)
    BY <1>1 DEF CalledLines
  <2>2. timesCalledMap[f] = Cardinality(CalledLines(f, i - 1))
    BY <1>2 DEF Counts, CalledCounted
  <2>3. timesCalledMap'[f] = timesCalledMap[f] + IF isCalled THEN 1 ELSE 0
    <3>1. timesCalledMap \in [Caller -> Nat]
      BY DEF Inv, TypeOK
    <3>2. timesCalledMap' = IF l.first THEN [timesCalledMap EXCEPT ![l.func] = @ + 1] ELSE timesCalledMap
      BY DEF SelfStep, IsCalled, Bump
    <3> HIDE DEF l
    <3>3. QED
      BY <1>4, <3>1, <3>2
  <2> HIDE DEF S, isCalled
  <2>4. Cardinality(S) = Cardinality(S \ {i}) + IF i \in S THEN 1 ELSE 0
    BY <1>1, <2>1, CountNext
  <2>5. QED
    BY <2>1, <2>2, <2>3, <2>4 DEF S
<1>7. ASSUME NEW f \in CodeFuncs
      PROVE  execTimeMapTotalSelf'[f] = Cardinality(OwnLines(f, i))
  <2> DEFINE S == OwnLines(f, i)
             own == l.func = f
  <2>1. S \subseteq 1..i /\ S \ {i} = OwnLines(f, i - 1) /\ (i \in S <=> own)
    BY <1>1 DEF OwnLines
  <2>2. execTimeMapTotalSelf[f] = Cardinality(OwnLines(f, i - 1))
    BY <1>2 DEF Counts, SelfCounted
  <2>3. execTimeMapTotalSelf'[f] = execTimeMapTotalSelf[f] + IF own THEN 1 ELSE 0
    <3>1. execTimeMapTotalSelf \in [CodeFuncs -> Nat]
      BY DEF Inv, TypeOK
    <3>2. execTimeMapTotalSelf' = IF l.func # NoFunc THEN [execTimeMapTotalSelf EXCEPT ![l.func] = @ + 1]
                                  ELSE execTimeMapTotalSelf
      BY DEF SelfStep, IsOwn, Bump
    <3>3. f # NoFunc
      BY CodeFuncsType, ObjdumpAssumption
    <3> HIDE DEF l
    <3>4. QED
      BY <1>4, <3>1, <3>2, <3>3 DEF Caller
  <2> HIDE DEF S, own
  <2>4. Cardinality(S) = Cardinality(S \ {i}) + IF i \in S THEN 1 ELSE 0
    BY <1>1, <2>1, CountNext
  <2>5. QED
    BY <2>1, <2>2, <2>3, <2>4 DEF S
<1>8. SelfCounted' /\ CalledCounted'
  BY <1>2, <1>3, <1>6, <1>7 DEF SelfCounted, CalledCounted
<1>9. QED
  BY <1>5, <1>8 DEF Counts

\* The other steps see no new line of the last two passes.
LEMMA OtherSteps ==
  ASSUME Inv, Step, ~ByStep, ~SelfStep
  PROVE  /\ UNCHANGED <<input, timesCalledByMap, pass3>>
         /\ Seen("self")' = Seen("self") /\ Seen("by")' = Seen("by")
<1>1. CASE TotalStep \/ BuildTable \/ BuildGraph
  <2>1. UNCHANGED <<input, timesCalledByMap, pass3>> /\ lines' = lines
    BY <1>1 DEF TotalStep, BuildTable, BuildGraph, input
  <2>2. Seen("self")' = Seen("self") /\ Seen("by")' = Seen("by")
    BY <1>1, <2>1 DEF TotalStep, AtLine, BuildTable, BuildGraph, Seen, Before
  <2>3. QED
    BY <2>1, <2>2
<1>2. CASE EndPass("total", "by") \/ EndPass("by", "self") \/ EndPass("self", "table")
  <2>1. UNCHANGED <<input, timesCalledByMap, pass3>> /\ lines' = lines
    BY <1>2 DEF EndPass, input
  <2>2. i = Len(lines) + 1 /\ Len(lines) \in Nat /\ i' = 1
    BY <1>2 DEF EndPass, Inv, TypeOK, Position
  <2>3. Seen("self")' = Seen("self") /\ Seen("by")' = Seen("by")
    BY <1>2, <2>1, <2>2 DEF EndPass, Seen, Before
  <2>4. QED
    BY <2>1, <2>3
<1>3. QED
  BY <1>1, <1>2 DEF Step

\* Every step of the analyzer keeps the counts.
LEMMA StepCounts ==
  ASSUME Inv, Counts, Step
  PROVE  Counts'
<1>1. CASE ByStep
  BY <1>1, ByStepCounts
<1>2. CASE SelfStep
  BY <1>2, SelfStepCounts
<1>3. CASE ~ByStep /\ ~SelfStep
  BY <1>3, OtherSteps, SameCounts
<1>4. QED
  BY <1>1, <1>2, <1>3

\* A step that leaves the analyzer alone.
LEMMA StutterCounts ==
  ASSUME Counts, UNCHANGED vars
  PROVE  Counts'
<1>1. UNCHANGED <<stage, i, input, timesCalledByMap, pass3>> /\ lines' = lines
  BY DEF vars, input
<1>2. Seen("self")' = Seen("self") /\ Seen("by")' = Seen("by")
  BY <1>1 DEF Seen, Before
<1>3. QED
  BY <1>1, <1>2, SameCounts

----------------------------------------------------------------------------
\* Sums over finite sets: what MapThenSumSet computes, element by element.

\* The element a fold takes next, and the equation of the fold.
Chosen(s)     == CHOOSE x \in s : TRUE
Others(s)     == s \ {Chosen(s)}
Sums(f, S, g) == g = [s \in SUBSET S |-> IF s = {} THEN 0 ELSE f[Chosen(s)] + g[Others(s)]]
SumOf(f, S)   == (CHOOSE g : Sums(f, S, g))[S]

\* A subset without its chosen element is smaller.
LEMMA OthersSmaller ==
  ASSUME NEW S, IsFiniteSet(S), NEW s \in SUBSET S, s # {}
  PROVE  /\ Chosen(s) \in s /\ Others(s) \in SUBSET S
         /\ Cardinality(s) \in Nat /\ Cardinality(Others(s)) = Cardinality(s) - 1
<1>1. Chosen(s) \in s
  BY DEF Chosen
<1>2. IsFiniteSet(s)
  BY FS_Subset
<1>3. Cardinality(s) \in Nat /\ Cardinality(s \ {Chosen(s)}) = Cardinality(s) - 1
  BY <1>1, <1>2, FS_CardinalityType, FS_RemoveElement
<1>4. QED
  BY <1>1, <1>3 DEF Others

\* What holds of the empty set, and of a set when it holds without the chosen element,
\* holds of all subsets: there is no smallest bad one.
LEMMA NoBadSubset ==
  ASSUME NEW S, IsFiniteSet(S), NEW B, B \subseteq SUBSET S, {} \notin B,
         \A s \in B : s # {} => Others(s) \in B
  PROVE  B = {}
<1> SUFFICES ASSUME B # {} PROVE FALSE
  OBVIOUS
<1> DEFINE N == {Cardinality(s) : s \in B}
<1>1. \A s \in B : Cardinality(s) \in Nat
  BY FS_Subset, FS_CardinalityType
<1>2. N \subseteq Nat /\ N # {}
  BY <1>1
<1>3. PICK n \in N : \A m \in N : n <= m
  <2> HIDE DEF N
  <2> QED BY <1>2, LeastExists
<1>4. PICK s \in B : Cardinality(s) = n
  OBVIOUS
<1>5. Others(s) \in B /\ Cardinality(Others(s)) = Cardinality(s) - 1 /\ Cardinality(s) \in Nat
  BY <1>4, OthersSmaller
<1>6. Cardinality(Others(s)) \in N
  BY <1>5
<1>7. n <= Cardinality(Others(s))
  BY <1>3, <1>6
<1>8. QED
  BY <1>4, <1>5, <1>7

\* The equation has a solution: one for the subsets of up to n elements gives one for
\* those of up to n + 1.
LEMMA SumExists ==
  ASSUME NEW S, IsFiniteSet(S), NEW f
  PROVE  \E g : Sums(f, S, g)
<1> DEFINE D(n)    == {s \in SUBSET S : Cardinality(s) <= n}
           Term(g, s) == IF s = {} THEN 0 ELSE f[Chosen(s)] + g[Others(s)]
           Some(n) == \E g : g = [s \in D(n) |-> Term(g, s)]
           Bad     == {n \in Nat : ~Some(n)}
<1>1. \A s \in SUBSET S : Cardinality(s) \in Nat /\ (Cardinality(s) = 0 <=> s = {})
  BY FS_Subset, FS_CardinalityType, FS_EmptySet
<1>2. Some(0)
  <2> DEFINE g == [s \in D(0) |-> 0]
  <2>1. \A s \in D(0) : s = {}
    BY <1>1
  <2>2. g = [s \in D(0) |-> Term(g, s)]
    BY <2>1
  <2>3. QED
    BY <2>2
<1>3. ASSUME NEW n \in Nat, Some(n) PROVE Some(n + 1)
  <2>1. PICK g : g = [s \in D(n) |-> Term(g, s)]
    BY <1>3
  <2> DEFINE h == [s \in D(n + 1) |-> Term(g, s)]
  <2>2. ASSUME NEW s \in D(n + 1), s # {} PROVE h[Others(s)] = g[Others(s)]
    <3>1. Others(s) \in SUBSET S /\ Cardinality(Others(s)) = Cardinality(s) - 1 /\ Cardinality(s) \in Nat
      BY <2>2, OthersSmaller
    <3>2. Others(s) \in D(n) /\ Others(s) \in D(n + 1)
      BY <3>1
    <3>3. g[Others(s)] = Term(g, Others(s)) /\ h[Others(s)] = Term(g, Others(s))
      <4> HIDE DEF D, Term
      <4> QED BY <2>1, <3>2
    <3>4. QED
      BY <3>3
  <2>3. \A s \in D(n + 1) : Term(g, s) = Term(h, s)
    <3> HIDE DEF h, D
    <3> QED BY <2>2
  <2>4. h = [s \in D(n + 1) |-> Term(h, s)]
    <3>1. PICK k : k = h
      OBVIOUS
    <3>2. \A s \in D(n + 1) : Term(g, s) = Term(k, s)
      BY <2>3, <3>1
    <3>3. k = [s \in D(n + 1) |-> Term(g, s)]
      BY <3>1
    <3> HIDE DEF h, D, Term
    <3>4. k = [s \in D(n + 1) |-> Term(k, s)]
      BY <3>2, <3>3
    <3>5. QED
      BY <3>1, <3>4
  <2> HIDE DEF h, D, Term
  <2>5. QED
    BY <2>4
<1>4. Bad = {}
  <2> SUFFICES ASSUME Bad # {} PROVE FALSE
    OBVIOUS
  <2>1. PICK n \in Bad : \A m \in Bad : n <= m
    <3>1. Bad \subseteq Nat
      OBVIOUS
    <3> HIDE DEF Bad
    <3>2. QED
      BY <3>1, LeastExists
  <2> HIDE DEF Some
  <2>2. n \in Nat /\ ~Some(n)
    OBVIOUS
  <2>3. n # 0
    BY <1>2, <2>2
  <2>4. n - 1 \in Nat /\ (n - 1) + 1 = n
    BY <2>2, <2>3
  <2>5. n - 1 \notin Bad
    BY <2>1, <2>4
  <2>6. Some(n - 1)
    BY <2>4, <2>5
  <2>7. Some((n - 1) + 1)
    BY <1>3, <2>4, <2>6
  <2>8. QED
    BY <2>2, <2>4, <2>7
<1>5. PICK n \in Nat : n = Cardinality(S)
  BY FS_CardinalityType
<1>6. D(n) = SUBSET S
  BY <1>5, FS_Subset
<1>7. Some(n)
  <2> HIDE DEF Some
  <2> QED BY <1>4, <1>5
<1>8. QED
  BY <1>6, <1>7 DEF Sums

\* The sums of the subsets of S.
AddsUp(f, S, g) ==
  /\ g \in [SUBSET S -> Nat]
  /\ SumOf(f, S) = g[S] /\ g[{}] = 0
  /\ \A s \in SUBSET S : s # {} => g[s] = f[Chosen(s)] + g[Others(s)]

LEMMA SumSteps ==
  ASSUME NEW S, IsFiniteSet(S), NEW f \in [S -> Nat]
  PROVE  \E g : AddsUp(f, S, g)
<1> DEFINE g == CHOOSE h : Sums(f, S, h)
<1>1. Sums(f, S, g)
  BY SumExists
<1>2. g = [s \in SUBSET S |-> IF s = {} THEN 0 ELSE f[Chosen(s)] + g[Others(s)]]
  <2> HIDE DEF g
  <2> QED BY <1>1 DEF Sums
<1>3. SumOf(f, S) = g[S]
  BY DEF SumOf
<1> HIDE DEF g
<1>4. g[{}] = 0 /\ \A s \in SUBSET S : s # {} => g[s] = f[Chosen(s)] + g[Others(s)]
  BY <1>2
<1> DEFINE B == {s \in SUBSET S : g[s] \notin Nat}
<1>5. B = {}
  <2>1. {} \notin B
    BY <1>4
  <2>2. ASSUME NEW s \in B, s # {} PROVE Others(s) \in B
    <3>1. Chosen(s) \in s /\ Others(s) \in SUBSET S
      BY <2>2, OthersSmaller
    <3>2. f[Chosen(s)] \in Nat /\ g[s] = f[Chosen(s)] + g[Others(s)] /\ g[s] \notin Nat
      BY <1>4, <2>2, <3>1
    <3>3. g[Others(s)] \notin Nat
      BY <3>2
    <3>4. QED
      BY <3>1, <3>3
  <2>3. B \subseteq SUBSET S
    OBVIOUS
  <2> HIDE DEF B
  <2>4. QED
    BY <2>1, <2>2, <2>3, NoBadSubset
<1>6. g \in [SUBSET S -> Nat]
  BY <1>2, <1>5
<1>7. AddsUp(f, S, g)
  BY <1>3, <1>4, <1>6 DEF AddsUp
<1>8. QED
  BY <1>7

\* A map that counts nothing adds up to 0.
LEMMA SumZero ==
  ASSUME NEW S, IsFiniteSet(S), NEW f \in [S -> Nat], \A x \in S : f[x] = 0
  PROVE  SumOf(f, S) = 0
<1>1. PICK g : AddsUp(f, S, g)
  BY SumSteps
<1> USE DEF AddsUp
<1> DEFINE B == {s \in SUBSET S : g[s] # 0}
<1>2. ASSUME NEW s \in B, s # {} PROVE Others(s) \in B
  <2>1. Chosen(s) \in s /\ Others(s) \in SUBSET S
    BY <1>2, OthersSmaller
  <2>2. f[Chosen(s)] = 0 /\ g[s] = f[Chosen(s)] + g[Others(s)] /\ g[s] # 0 /\ g[Others(s)] \in Nat
    BY <1>1, <1>2, <2>1
  <2>3. QED
    BY <2>1, <2>2
<1>3. {} \notin B /\ B \subseteq SUBSET S
  BY <1>1
<1>4. B = {}
  <2> HIDE DEF B
  <2> QED BY <1>2, <1>3, NoBadSubset
<1>5. QED
  BY <1>1, <1>4

\* One more at x is one more in the sum.
LEMMA SumBump ==
  ASSUME NEW S, IsFiniteSet(S), NEW f \in [S -> Nat], NEW x \in S
  PROVE  /\ SumOf(f, S) \in Nat
         /\ SumOf([f EXCEPT ![x] = @ + 1], S) = SumOf(f, S) + 1
<1>1. PICK e : e = [f EXCEPT ![x] = @ + 1]
  OBVIOUS
<1>2. e \in [S -> Nat] /\ \A y \in S : e[y] = f[y] + IF y = x THEN 1 ELSE 0
  BY <1>1
<1>3. PICK g : AddsUp(f, S, g)
  BY SumSteps
<1>4. PICK h : AddsUp(e, S, h)
  BY <1>2, SumSteps
<1> USE DEF AddsUp
<1> DEFINE B == {s \in SUBSET S : h[s] # g[s] + IF x \in s THEN 1 ELSE 0}
<1>5. ASSUME NEW s \in B, s # {} PROVE Others(s) \in B
  <2>1. Chosen(s) \in s /\ Others(s) \in SUBSET S /\ Chosen(s) \in S
    BY <1>5, OthersSmaller
  <2>2. /\ g[s] = f[Chosen(s)] + g[Others(s)] /\ h[s] = e[Chosen(s)] + h[Others(s)]
        /\ e[Chosen(s)] = f[Chosen(s)] + IF Chosen(s) = x THEN 1 ELSE 0
        /\ h[s] # g[s] + IF x \in s THEN 1 ELSE 0
        /\ g[s] \in Nat /\ h[s] \in Nat /\ g[Others(s)] \in Nat /\ h[Others(s)] \in Nat
        /\ f[Chosen(s)] \in Nat
    BY <1>2, <1>3, <1>4, <1>5, <2>1
  <2>3. x \in Others(s) <=> x \in s /\ Chosen(s) # x
    BY DEF Others
  <2>4. h[Others(s)] # g[Others(s)] + IF x \in Others(s) THEN 1 ELSE 0
    BY <2>1, <2>2, <2>3
  <2>5. QED
    BY <2>1, <2>4
<1>6. {} \notin B /\ B \subseteq SUBSET S
  BY <1>3, <1>4
<1>7. B = {}
  <2> HIDE DEF B
  <2> QED BY <1>5, <1>6, NoBadSubset
<1>8. h[S] = g[S] + 1
  BY <1>7
<1>9. SumOf(f, S) \in Nat /\ SumOf(e, S) = SumOf(f, S) + 1
  BY <1>3, <1>4, <1>8
<1>10. QED
  BY <1>1, <1>9, Zenon

\* The calls of the second pass and the first lines of the third, up to line n.
AllCalls(n) == {k \in 1..n : IsCall(k)}
AllFirst(n) == {k \in 1..n : lines[k].first}

\* A line that a first line follows is a call site.
SitesCover ==
  \A k \in 1..(Len(lines) - 1) : lines[k + 1].first => lines[k].addr \in DOMAIN sites

\* Each pass counts every call once.
SumsInv ==
  /\ SumOf(timesCalledByMap, Caller \X Called) = Cardinality(AllCalls(Seen("by")))
  /\ SumOf(timesCalledMap, Caller) = Cardinality(AllFirst(Seen("self")))

\* A program has finitely many functions.
LEMMA CallerFinite == IsFiniteSet(Caller) /\ IsFiniteSet(Caller \X Called)
<1>1. IsFiniteSet(Name)
  BY ObjdumpAssumption
<1>2. IsFiniteSet(CodeFuncs)
  BY <1>1, CodeFuncsType, FS_Subset
<1>3. IsFiniteSet(Caller) /\ IsFiniteSet(Called)
  BY <1>1, <1>2, FS_AddElement DEF Caller, Called
<1>4. QED
  BY <1>3, FS_Product

LEMMA InitSums == Init => SumsInv /\ SitesCover
<1> SUFFICES ASSUME Init PROVE SumsInv /\ SitesCover
  OBVIOUS
<1>1. Seen("self") = 0 /\ Seen("by") = 0
  BY DEF Init, Seen, Before
<1>2. AllCalls(0) = {} /\ AllFirst(0) = {} /\ Cardinality({}) = 0
  BY FS_EmptySet DEF AllCalls, AllFirst
<1>3. /\ timesCalledByMap \in [Caller \X Called -> Nat]
      /\ \A p \in Caller \X Called : timesCalledByMap[p] = 0
      /\ timesCalledMap \in [Caller -> Nat] /\ \A f \in Caller : timesCalledMap[f] = 0
  BY DEF Init, Zero
<1>4. SumOf(timesCalledByMap, Caller \X Called) = 0 /\ SumOf(timesCalledMap, Caller) = 0
  BY <1>3, CallerFinite, SumZero
<1>5. SitesCover
  <2>1. Len(lines) = 0
    BY DEF Init
  <2>2. QED
    BY <2>1 DEF SitesCover
<1>6. QED
  BY <1>1, <1>2, <1>4, <1>5 DEF SumsInv

\* A step that sees no new line of the last two passes.
LEMMA SameSums ==
  ASSUME SumsInv, SitesCover, UNCHANGED <<input, timesCalledByMap, pass3>>,
         Seen("self")' = Seen("self"), Seen("by")' = Seen("by")
  PROVE  SumsInv' /\ SitesCover'
<1>1. UNCHANGED <<lines, sites, timesCalledByMap, timesCalledMap>>
  BY DEF input, pass3
<1>2. \A n : AllCalls(n)' = AllCalls(n) /\ AllFirst(n)' = AllFirst(n)
  BY <1>1 DEF AllCalls, AllFirst, IsCall
<1>3. SitesCover'
  BY <1>1 DEF SitesCover
<1>4. QED
  BY <1>1, <1>2, <1>3 DEF SumsInv

\* markCallLines makes a call site of every line that a first line follows.
LEMMA LoadSums ==
  ASSUME Inv, SumsInv, NEW trace \in Seq(Addr), Load(trace)
  PROVE  SumsInv' /\ SitesCover'
<1>1. i = 1 /\ stage = "idle" /\ stage' = "total" /\ i' = i
  BY DEF Load, Inv, Position
<1>2. Seen("self") = 0 /\ Seen("by") = 0 /\ Seen("self")' = 0 /\ Seen("by")' = 0
  BY <1>1 DEF Seen, Before
<1>3. AllCalls(0) = {} /\ AllFirst(0) = {} /\ AllCalls(0)' = {} /\ AllFirst(0)' = {}
  BY DEF AllCalls, AllFirst
<1>4. UNCHANGED <<timesCalledByMap, timesCalledMap>>
  BY DEF Load, pass3
<1>5. SumsInv'
  BY <1>2, <1>3, <1>4 DEF SumsInv
<1>6. Len(lines') = Len(trace) /\ lines' = Marked(trace) /\ sites' = CallSites(trace)
  BY MarkedType DEF Load
<1>7. DOMAIN trace = 1..Len(trace) /\ Len(trace) \in Nat
  OBVIOUS
<1>8. ASSUME NEW k \in 1..(Len(trace) - 1), lines'[k + 1].first
      PROVE  lines'[k].addr \in DOMAIN sites'
  <2>1. k \in DOMAIN trace /\ k + 1 \in DOMAIN trace
    BY <1>7
  <2>2. lines'[k].addr = trace[k] /\ lines'[k + 1].first = IsFirst(trace[k + 1])
    BY <1>6, <2>1 DEF Marked, Mark
  <2>3. k \in CallLines(trace)
    BY <1>8, <2>1, <2>2 DEF CallLines
  <2>4. QED
    BY <1>6, <2>2, <2>3 DEF CallSites
<1>9. SitesCover'
  BY <1>6, <1>8 DEF SitesCover
<1>10. QED
  BY <1>5, <1>9

\* An iteration of the second pass adds a call to one pair.
LEMMA ByStepSums ==
  ASSUME Inv, SumsInv, SitesCover, ByStep
  PROVE  SumsInv' /\ SitesCover'
<1>1. /\ UNCHANGED <<stage, input, pass3>> /\ stage = "by" /\ i' = i + 1
      /\ i \in Nat \ {0} /\ Len(lines) \in Nat /\ lines' = lines /\ sites' = sites
  BY DEF ByStep, AtLine, Inv, TypeOK, input
<1>2. Seen("self") = 0 /\ Seen("self")' = 0 /\ Seen("by") = i - 1 /\ Seen("by")' = i
  BY <1>1 DEF Seen, Before
<1>3. \A n : AllCalls(n)' = AllCalls(n) /\ AllFirst(n)' = AllFirst(n)
  BY <1>1 DEF AllCalls, AllFirst, IsCall
<1> DEFINE S == AllCalls(i)
           P == Caller \X Called
<1>4. S \subseteq 1..i /\ S \ {i} = AllCalls(i - 1) /\ (i \in S <=> IsCall(i))
  BY <1>1 DEF AllCalls
<1>5. Cardinality(S) = Cardinality(AllCalls(i - 1)) + (IF IsCall(i) THEN 1 ELSE 0)
      /\ Cardinality(AllCalls(i - 1)) \in Nat
  <2> HIDE DEF S
  <2>1. PICK n \in Nat : n = i
    BY <1>1
  <2>2. /\ Cardinality(S \ {n}) \in Nat
        /\ Cardinality(S) = Cardinality(S \ {n}) + IF n \in S THEN 1 ELSE 0
    BY <1>4, <2>1, CountNext
  <2>3. QED
    BY <1>4, <2>1, <2>2
<1>6. timesCalledByMap \in [P -> Nat] /\ SumOf(timesCalledByMap, P) = Cardinality(AllCalls(i - 1))
  BY <1>2 DEF Inv, TypeOK, SumsInv
<1>7. SumOf(timesCalledByMap', P) = Cardinality(S)
  <2>1. CASE IsCall(i)
    <3>1. sites[lines[i].addr] \in P
      BY <2>1 DEF IsCall, Inv, TypeOK
    <3>2. timesCalledByMap' = [timesCalledByMap EXCEPT ![sites[lines[i].addr]] = @ + 1]
      BY <2>1 DEF ByStep, Bump
    <3>3. PICK p \in P : p = sites[lines[i].addr]
      BY <3>1
    <3> HIDE DEF P
    <3>4. SumOf([timesCalledByMap EXCEPT ![p] = @ + 1], P) = SumOf(timesCalledByMap, P) + 1
      <4>1. IsFiniteSet(P)
        BY CallerFinite DEF P
      <4>2. QED
        BY <1>6, <4>1, SumBump
    <3>5. QED
      BY <1>5, <1>6, <2>1, <3>2, <3>3, <3>4
  <2>2. CASE ~IsCall(i)
    BY <1>5, <1>6, <2>2 DEF ByStep
  <2>3. QED
    BY <2>1, <2>2
<1>8. UNCHANGED timesCalledMap
  BY <1>1 DEF pass3
<1>9. SitesCover'
  BY <1>1 DEF SitesCover
<1>10. QED
  BY <1>2, <1>3, <1>7, <1>8, <1>9 DEF SumsInv

\* An iteration of the third pass adds a first line to one function.
LEMMA SelfStepSums ==
  ASSUME Inv, SumsInv, SitesCover, SelfStep
  PROVE  SumsInv' /\ SitesCover'
<1> DEFINE l == lines[i]
<1>1. /\ UNCHANGED <<stage, input, timesCalledByMap>> /\ stage = "self" /\ i' = i + 1
      /\ i \in Nat /\ i \in 1..Len(lines) /\ Len(lines) \in Nat /\ lines' = lines /\ sites' = sites
  BY DEF SelfStep, AtLine, Inv, TypeOK, Position, input
<1>2. Seen("by")' = Seen("by") /\ Seen("self") = i - 1 /\ Seen("self")' = i
  BY <1>1 DEF Seen, Before
<1>3. \A n : AllCalls(n)' = AllCalls(n) /\ AllFirst(n)' = AllFirst(n)
  BY <1>1 DEF AllCalls, AllFirst, IsCall
<1>4. l.func \in Caller /\ l.first \in BOOLEAN
  BY <1>1, LineType DEF Inv
<1> DEFINE S == AllFirst(i)
<1>5. S \subseteq 1..i /\ S \ {i} = AllFirst(i - 1) /\ (i \in S <=> l.first)
  BY <1>1 DEF AllFirst
<1>6. Cardinality(S) = Cardinality(AllFirst(i - 1)) + (IF l.first THEN 1 ELSE 0)
      /\ Cardinality(AllFirst(i - 1)) \in Nat
  <2> HIDE DEF S, l
  <2>1. PICK n \in Nat : n = i
    BY <1>1
  <2>2. /\ Cardinality(S \ {n}) \in Nat
        /\ Cardinality(S) = Cardinality(S \ {n}) + IF n \in S THEN 1 ELSE 0
    BY <1>5, <2>1, CountNext
  <2>3. QED
    BY <1>5, <2>1, <2>2
<1>7. timesCalledMap \in [Caller -> Nat] /\ SumOf(timesCalledMap, Caller) = Cardinality(AllFirst(i - 1))
  BY <1>2 DEF Inv, TypeOK, SumsInv
<1>8. SumOf(timesCalledMap', Caller) = Cardinality(S)
  <2>1. timesCalledMap' = IF l.first THEN [timesCalledMap EXCEPT ![l.func] = @ + 1] ELSE timesCalledMap
    BY DEF SelfStep, IsCalled, Bump
  <2> HIDE DEF l, S
  <2>2. SumOf([timesCalledMap EXCEPT ![l.func] = @ + 1], Caller) = SumOf(timesCalledMap, Caller) + 1
    BY <1>4, <1>7, CallerFinite, SumBump
  <2>3. QED
    BY <1>4, <1>6, <1>7, <2>1, <2>2
<1>9. SitesCover'
  BY <1>1 DEF SitesCover
<1>10. QED
  BY <1>1, <1>2, <1>3, <1>8, <1>9 DEF SumsInv

\* Every step of the analyzer keeps the sums.
LEMMA StepSums ==
  ASSUME Inv, SumsInv, SitesCover, Step
  PROVE  SumsInv' /\ SitesCover'
<1>1. CASE ByStep
  BY <1>1, ByStepSums
<1>2. CASE SelfStep
  BY <1>2, SelfStepSums
<1>3. CASE Step /\ ~ByStep /\ ~SelfStep
  BY <1>3, OtherSteps, SameSums
<1>4. QED
  BY <1>1, <1>2, <1>3

----------------------------------------------------------------------------
\* The table has the rows of the functions whose time is not 0.

TableRows == {Row(f) : f \in {g \in CodeFuncs : Int32(execTimeMapTotal[g]) # 0}}
RowsInv   == table = IF stage \in {"graph", "done", "out_of_range"} THEN TableRows ELSE {}

\* The rows change only with the tables they are made of.
LEMMA SameRows ==
  ASSUME RowsInv, UNCHANGED <<input, pass1, pass3, table>>,
         stage' \in {"graph", "done", "out_of_range"} <=> stage \in {"graph", "done", "out_of_range"}
  PROVE  RowsInv'
<1>1. UNCHANGED <<lines, execTimeMapTotal, timesCalledMap, execTimeMapTotalSelf>>
  BY DEF input, pass1, pass3
<1>2. \A f : Row(f)' = Row(f)
  BY <1>1 DEF Row, Percent
<1>3. TableRows' = TableRows
  BY <1>1, <1>2 DEF TableRows
<1>4. QED
  BY <1>3 DEF RowsInv

\* Every step of the analyzer keeps the rows.
LEMMA StepRows ==
  ASSUME RowsInv, Step
  PROVE  RowsInv'
<1>1. CASE TotalStep \/ ByStep \/ SelfStep
  BY <1>1 DEF TotalStep, ByStep, SelfStep, AtLine, RowsInv, output
<1>2. CASE EndPass("total", "by") \/ EndPass("by", "self") \/ EndPass("self", "table")
  BY <1>2 DEF EndPass, RowsInv, output
<1>3. CASE BuildTable
  <2>1. UNCHANGED <<input, pass1, pass3>> /\ stage' = "graph" /\ table' = TableRows
    BY <1>3 DEF BuildTable, TableRows
  <2>2. UNCHANGED <<lines, execTimeMapTotal, timesCalledMap, execTimeMapTotalSelf>>
    BY <2>1 DEF input, pass1, pass3
  <2>3. \A f : Row(f)' = Row(f)
    BY <2>2 DEF Row, Percent
  <2>4. TableRows' = TableRows
    BY <2>2, <2>3 DEF TableRows
  <2>5. QED
    BY <2>1, <2>4 DEF RowsInv
<1>4. CASE BuildGraph
  <2>1. UNCHANGED <<input, pass1, pass3, table>> /\ stage = "graph" /\ stage' \in {"done", "out_of_range"}
    BY <1>4 DEF BuildGraph
  <2>2. QED
    BY <2>1, SameRows
<1>5. QED
  BY <1>1, <1>2, <1>3, <1>4 DEF Step

----------------------------------------------------------------------------
\* The invariant holds in every reachable state.
LEMMA Invariance == Spec => []Inv
BY InitInv, NextInv, PTL DEF Spec

\* The tables keep their types: no multiplier, count or time goes below 0,
\* whatever the trace returns from (the test of MainComponent.cpp:133).
THEOREM TypeCorrect == Spec => []TypeOK
BY Invariance, PTL DEF Inv

\* Every function the profile lists has a first line in the trace, so that the
\* panel of the listing can scroll to one (funcLines in ScrollableWindow).
THEOREM ProfileIsEntered == Spec => []TableIsEntered
BY Invariance, PTL DEF Inv

\* The graph leaves out no counted call, although edges and weights come from
\* maps that the parsers fill separately (getGraphCode).
THEOREM GraphIsComplete == Spec => []EveryCountIsDrawn
BY Invariance, PTL DEF Inv

\* The at() of a node's label throws only when the graph has a function that
\* the trace never executes: opening any other project ends.
THEOREM OpeningFailsOnlyOnUntraced == Spec => []FailsOnlyOnUntraced
BY Invariance, PTL DEF Inv

\* The called column is the number of first lines of the function, the self time
\* the number of its lines, and the weight of an edge the number of lines at its
\* sites that a first line follows, whatever wrote the trace.
THEOREM CountsAreLines == Spec => []Counts
<1>1. Counts /\ Inv /\ [Next]_vars => Counts'
  <2> SUFFICES ASSUME Counts, Inv, [Next]_vars PROVE Counts'
    OBVIOUS
  <2> QED
    BY LoadCounts, StepCounts, StutterCounts DEF Next
<1>2. QED
  BY InitCounts, Invariance, <1>1, PTL DEF Spec

\* Calls are conserved between two passes that count them separately
\* (calculateTotalCalledBy and calculateSelfExecTime), whatever wrote the trace: each
\* adds one for every first line but one that opens the trace.
THEOREM CallsAreKept == Spec => []CallsAreConserved
<1>1. ASSUME Inv, SumsInv, SitesCover, stage \in {"table", "graph", "done", "out_of_range"}
      PROVE  SumOf(timesCalledByMap, Caller \X Called)
               = SumOf(timesCalledMap, Caller) - IF lines # <<>> /\ lines[1].first THEN 1 ELSE 0
  <2> DEFINE L == Len(lines)
             S == AllCalls(L)
             T == AllFirst(L)
             opens == lines # <<>> /\ lines[1].first
  <2>1. lines \in Seq(TraceLine) /\ L \in Nat /\ (lines # <<>> <=> L # 0)
    BY <1>1 DEF Inv, TypeOK
  <2>2. /\ SumOf(timesCalledByMap, Caller \X Called) = Cardinality(S)
        /\ SumOf(timesCalledMap, Caller) = Cardinality(T)
    BY <1>1 DEF SumsInv, Seen, Before
  <2>3. S \subseteq 1..L /\ T \subseteq 1..L
    BY DEF AllCalls, AllFirst
  <2>4. \A k \in S : k + 1 \in T \ {1}
    BY <2>1 DEF AllCalls, AllFirst, IsCall
  <2>5. \A k \in T \ {1} : k - 1 \in S
    <3> TAKE k \in T \ {1}
    <3>1. PICK m \in 1..(L - 1) : k = m + 1 /\ k - 1 = m
      BY <2>1, <2>3
    <3>2. lines[m + 1].first
      BY <3>1 DEF AllFirst
    <3>3. lines[m].addr \in DOMAIN sites
      BY <1>1, <3>1, <3>2 DEF SitesCover
    <3>4. IsCall(m)
      BY <2>1, <3>1, <3>2, <3>3 DEF IsCall
    <3>5. QED
      BY <2>1, <3>1, <3>4 DEF AllCalls
  <2>6. 1 \in T <=> opens
    BY <2>1 DEF AllFirst
  <2>7. IsFiniteSet(T) /\ Cardinality(T) \in Nat
    BY <2>1, <2>3, CountNext
  <2> HIDE DEF S, T, L, opens
  <2>8. Cardinality(T \ {1}) = Cardinality(T) - IF opens THEN 1 ELSE 0
    <3>1. Cardinality(T \ {1}) = IF 1 \in T THEN Cardinality(T) - 1 ELSE Cardinality(T)
      BY <2>7, FS_RemoveElement
    <3>2. QED
      BY <2>6, <2>7, <3>1
  <2>9. Cardinality(S) = Cardinality(T \ {1})
    BY <2>1, <2>3, <2>4, <2>5, Shifted
  <2>10. QED
    BY <2>2, <2>8, <2>9 DEF opens
<1>2. /\ MapThenSumSet(LAMBDA p : timesCalledByMap[p], Caller \X Called)
           = SumOf(timesCalledByMap, Caller \X Called)
      /\ MapThenSumSet(LAMBDA f : timesCalledMap[f], Caller) = SumOf(timesCalledMap, Caller)
  BY DEF MapThenSumSet, MapThenFoldSet, SumOf, Sums, Chosen, Others
<1>3. Inv /\ SumsInv /\ SitesCover => CallsAreConserved
  BY <1>1, <1>2 DEF CallsAreConserved
<1>4. Inv /\ SumsInv /\ SitesCover /\ [Next]_vars => SumsInv' /\ SitesCover'
  <2> SUFFICES ASSUME Inv, SumsInv, SitesCover, [Next]_vars PROVE SumsInv' /\ SitesCover'
    OBVIOUS
  <2>1. CASE UNCHANGED vars
    <3>1. UNCHANGED <<stage, i, input, timesCalledByMap, pass3>> /\ lines' = lines
      BY <2>1 DEF vars, input
    <3>2. QED
      BY <3>1, SameSums DEF Seen, Before
  <2>2. ASSUME NEW trace \in Traces, Load(trace) PROVE SumsInv' /\ SitesCover'
    <3>1. trace \in Seq(Addr)
      BY AnalyzerAssumption
    <3>2. QED
      BY <2>2, <3>1, LoadSums
  <2>3. QED
    BY <2>1, <2>2, StepSums DEF Next
<1>5. QED
  BY InitSums, Invariance, <1>3, <1>4, PTL DEF Spec
=============================================================================
