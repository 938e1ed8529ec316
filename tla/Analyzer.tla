------------------------------ MODULE Analyzer ------------------------------
(***************************************************************************)
(* The PerformanceAnalyzer constructor: three passes over the marked trace *)
(* (inclusive times, calls per caller and callee, calls and self times),   *)
(* then the table of the profile and the call graph.  One step is one      *)
(* iteration of a pass.                                                    *)
(***************************************************************************)
EXTENDS TraceMarks, Integers

CONSTANTS
  Traces,   \* the trace files that may be opened
  MaxInt    \* the largest int; a long never overflows

ASSUME AnalyzerAssumption == Traces \subseteq Seq(Addr) /\ MaxInt \in Nat

VARIABLES
  stage,          \* which part of the constructor runs next
  lines,          \* the marked trace
  sites,          \* addrCallingCalledMap
  calls,          \* callingMap, as pairs
  i,              \* the line the current pass is at
  lastFunc,
  timeMultipliers,
  execTimeMapTotal,
  timesCalledByMap,
  timesCalledMap,
  execTimeMapTotalSelf,
  table,          \* the rows of the profile
  graph           \* nodes and weighted edges

input  == <<lines, sites, calls>>
pass1  == <<lastFunc, timeMultipliers, execTimeMapTotal>>
pass3  == <<timesCalledMap, execTimeMapTotalSelf>>
output == <<table, graph>>
vars   == <<stage, i, input, pass1, timesCalledByMap, pass3, output>>

Caller == CodeFuncs \cup {NoFunc}
Called == Name \cup {NoFunc}
NoGraph == [nodes |-> {}, edges |-> {}]

\* A map whose missing keys are read as 0.
Zero(S) == [x \in S |-> 0]

Init ==
  /\ stage = "idle"
  /\ lines = <<>> /\ sites = <<>> /\ calls = {}
  /\ i = 1
  /\ lastFunc = NoFunc
  /\ timeMultipliers = Zero(CodeFuncs)
  /\ execTimeMapTotal = Zero(CodeFuncs)
  /\ timesCalledByMap = Zero(Caller \X Called)
  /\ timesCalledMap = Zero(Caller)
  /\ execTimeMapTotalSelf = Zero(CodeFuncs)
  /\ table = {} /\ graph = NoGraph

\* openProjectFile up to the construction of the analyzer.
Load(trace) ==
  /\ stage = "idle"
  /\ stage' = "total"
  /\ lines' = Marked(trace)
  /\ sites' = CallSites(trace)
  /\ calls' = Calls(trace)
  /\ UNCHANGED <<i, pass1, timesCalledByMap, pass3, output>>

----------------------------------------------------------------------------
AtLine(s) == stage = s /\ i <= Len(lines)

EndPass(s, t) ==
  /\ stage = s /\ i > Len(lines)
  /\ stage' = t
  /\ i' = 1
  /\ UNCHANGED <<input, pass1, timesCalledByMap, pass3, output>>

Bump(m, x) == [m EXCEPT ![x] = @ + 1]

\* Mutants of Entered and Left: every visit of a first line enters; any line
\* of another function enters; a return that nothing opened is counted.
Entered_Always(l) == l.first
Entered_OnChange(l) == lastFunc # l.func
Left_Unguarded(l, m) == l.last

\* A first line opens an activation unless the line before was in the same
\* function (a loop back to the first instruction).
Entered(l) == l.first /\ lastFunc # l.func
Left(l, m) == l.last /\ m[l.func] > 0

TotalStep ==
  /\ AtLine("total")
  /\ i' = i + 1
  /\ LET l  == lines[i]
         up == IF Entered(l) THEN Bump(timeMultipliers, l.func) ELSE timeMultipliers
     IN  IF l.func = NoFunc THEN UNCHANGED pass1
         ELSE /\ execTimeMapTotal' = [f \in CodeFuncs |-> execTimeMapTotal[f] + up[f]]
              /\ timeMultipliers' =
                   IF Left(l, up) THEN [up EXCEPT ![l.func] = @ - 1] ELSE up
              /\ lastFunc' = l.func
  /\ UNCHANGED <<stage, input, timesCalledByMap, pass3, output>>

\* A mutant of IsCall: it does not matter which line comes next.
IsCall_AnyNext(k) == lines[k].addr \in DOMAIN sites /\ k < Len(lines)

\* A line at a call site followed by a first line is a call of the site's pair.
IsCall(k) == lines[k].addr \in DOMAIN sites /\ k < Len(lines) /\ lines[k + 1].first

ByStep ==
  /\ AtLine("by")
  /\ i' = i + 1
  /\ timesCalledByMap' = IF IsCall(i) THEN Bump(timesCalledByMap, sites[lines[i].addr])
                         ELSE timesCalledByMap
  /\ UNCHANGED <<stage, input, pass1, pass3, output>>

\* A mutant of IsOwn: first lines counted as calls only.
IsOwn_Else(l) == l.func # NoFunc /\ ~l.first
IsOwn(l) == l.func # NoFunc

\* A mutant of IsCalled: the test of the first pass, whose lastFunc is stale.
IsCalled_Entered(l) == Entered(l)
IsCalled(l) == l.first

SelfStep ==
  /\ AtLine("self")
  /\ i' = i + 1
  /\ LET l == lines[i]
     IN  /\ timesCalledMap' = IF IsCalled(l) THEN Bump(timesCalledMap, l.func) ELSE timesCalledMap
         /\ execTimeMapTotalSelf' =
              IF IsOwn(l) THEN Bump(execTimeMapTotalSelf, l.func)
              ELSE execTimeMapTotalSelf
  /\ UNCHANGED <<stage, input, pass1, timesCalledByMap, output>>

----------------------------------------------------------------------------
\* C++ integer division, and an int that wraps around.
Quot(n, d) == IF n < 0 THEN -((-n) \div d) ELSE n \div d
Int32(n) == ((n + MaxInt + 1) % (2 * (MaxInt + 1))) - (MaxInt + 1)
Percent(n) == Quot(n, Len(lines))

\* A mutant of Row: the operands of children (%) swapped.
Row_Swapped(f) ==
  [name |-> f, time |-> execTimeMapTotal[f],
   percent |-> Percent(Int32(Int32(execTimeMapTotal[f]) * 100)),
   called |-> timesCalledMap[f],
   children |-> Percent((execTimeMapTotalSelf[f] - execTimeMapTotal[f]) * 100),
   self |-> Percent(execTimeMapTotalSelf[f] * 100)]

\* The columns time, time (%), called, children (%) and self (%).  Only the
\* product of time (%) is computed in an int.
Row(f) ==
  LET total == Int32(execTimeMapTotal[f])
      self  == execTimeMapTotalSelf[f]
  IN  [name |-> f, time |-> total, percent |-> Percent(Int32(total * 100)),
       called |-> timesCalledMap[f],
       children |-> Percent((total - self) * 100), self |-> Percent(self * 100)]

BuildTable ==
  /\ stage = "table"
  /\ stage' = "graph"
  /\ table' = {Row(f) : f \in {g \in CodeFuncs : Int32(execTimeMapTotal[g]) # 0}}
  /\ UNCHANGED <<i, input, pass1, timesCalledByMap, pass3, graph>>

Counted == {p \in Caller \X Called : timesCalledByMap[p] > 0}
Nodes   == {f \in CodeFuncs : \E p \in Counted : f \in {p[1], p[2]}}

\* getGraphCode: the label of a node reads execTimeMapTotalSelf->at(func).
BuildGraph ==
  /\ stage = "graph"
  /\ IF \A f \in Nodes : execTimeMapTotalSelf[f] > 0
     THEN /\ stage' = "done"
          /\ graph' = [nodes |-> Nodes,
                       edges |-> {<<p, timesCalledByMap[p]>> :
                                  p \in {q \in calls \cap Counted : {q[1], q[2]} \subseteq Nodes}}]
     ELSE stage' = "out_of_range" /\ UNCHANGED graph
  /\ UNCHANGED <<i, input, pass1, timesCalledByMap, pass3, table>>

Step ==
  \/ TotalStep \/ EndPass("total", "by")
  \/ ByStep    \/ EndPass("by", "self")
  \/ SelfStep  \/ EndPass("self", "table")
  \/ BuildTable \/ BuildGraph

Next == (\E trace \in Traces : Load(trace)) \/ Step

Spec == Init /\ [][Next]_vars /\ WF_vars(Step)

----------------------------------------------------------------------------
Stages == {"idle", "total", "by", "self", "table", "graph", "done", "out_of_range"}

TypeOK ==
  /\ stage \in Stages
  /\ lines \in Seq(TraceLine)
  /\ \A a \in DOMAIN sites : sites[a] \in Caller \X Called
  /\ calls \subseteq Caller \X Called
  /\ i \in Nat \ {0}
  /\ lastFunc \in Caller
  /\ timeMultipliers \in [CodeFuncs -> Nat]
  /\ execTimeMapTotal \in [CodeFuncs -> Nat]
  /\ timesCalledByMap \in [Caller \X Called -> Nat]
  /\ timesCalledMap \in [Caller -> Nat]
  /\ execTimeMapTotalSelf \in [CodeFuncs -> Nat]

Before(s) == CASE s = "total" -> {"idle"}
               [] s = "by" -> {"idle", "total"}
               [] s = "self" -> {"idle", "total", "by"}

\* The lines a pass has been over.
Seen(s) == IF stage \in Before(s) THEN 0 ELSE IF stage = s THEN i - 1 ELSE Len(lines)

============================================================================
