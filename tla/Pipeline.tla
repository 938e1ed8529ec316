------------------------------ MODULE Pipeline ------------------------------
(***************************************************************************)
(* From the running program to the profile: Execution writes the trace,    *)
(* the user opens it, the analyzer turns it into table and graph.  The     *)
(* properties compare what the analyzer reconstructs from bare addresses   *)
(* with what really happened.                                              *)
(***************************************************************************)
EXTENDS Analyzer, Execution, FiniteSets

PipelineVars == <<vars, execVars>>
PipelineInit == Init /\ ExecInit
Analyse      == Load(Trace) /\ UNCHANGED execVars
PipelineNext ==
  \/ stage = "idle" /\ ExecNext /\ UNCHANGED vars
  \/ Analyse
  \/ Step /\ UNCHANGED execVars
PipelineSpec == PipelineInit /\ [][PipelineNext]_PipelineVars /\ WF_PipelineVars(Step)

----------------------------------------------------------------------------
\* What happened, by definition.
Func(k)      == FuncAt(log[k].addr)
Active(f, k) == \E d \in DOMAIN log[k].stack : log[k].stack[d] = f
Inclusive(f, n) == Cardinality({k \in 1..n : Active(f, k)})
Entries(f, n) == Cardinality({k \in 1..n : log[k].via \in {"entry", "call", "trap"} /\ Func(k) = f})
\* The function that the first call from the place of call k went to.
FirstCallee(k) ==
  Func(Earliest({j \in DOMAIN log \ {1} : log[j].via = "call" /\ log[j - 1].addr = log[k - 1].addr}))
\* The calls f made, each at a place whose first call went to g.
CallsFromTo(f, g) ==
  Cardinality({k \in DOMAIN log \ {1} :
    LET s == log[k].stack
    IN  log[k].via = "call" /\ s[Len(s) - 1] = f /\ FirstCallee(k) = g})

\* The functions that stay active from the line before: all but the one the line enters.
Stays(k) == LET s == log[k].stack IN IF log[k].via \in {"call", "trap"} THEN Callers(s) ELSE s

\* Line k begins a session.
Begins(k) == k = 1 \/ log[k - 1].session # log[k].session

\* Control is in the function on top, enters functions by calls and traps at their first
\* line and leaves them by ret and mret; no function is active twice; from one line to
\* the next at most one is left and then at most one entered.  Only a session's first
\* lines are in no function: the boot ROM, whose jump to the program is a call here.
Orderly ==
  \A k \in DOMAIN log :
    LET s == log[k].stack
    IN  /\ Func(k) = s[Len(s)]
        /\ \A d, e \in DOMAIN s : s[d] = s[e] => d = e
        /\ Func(k) = NoFunc => Len(s) = 1 /\ (~Begins(k) => Func(k - 1) = NoFunc)
        /\ log[k].via \in {"entry", "call", "trap"} => IsFirst(log[k].addr) \/ Func(k) = NoFunc
        /\ log[k].via \in {"ret", "mret"} => ~IsFirst(log[k].addr)
        /\ IF Begins(k) THEN log[k].via = "entry"
           ELSE Stays(k) \in {log[k - 1].stack, Callers(log[k - 1].stack)}
OneSession == \A j, k \in DOMAIN log : log[j].session = log[k].session
\* No loop goes back to the first line of its function.
NoRestart == \A k \in DOMAIN log : log[k].via = "flow" => ~IsFirst(log[k].addr)
\* A label that names a function is true of the first line that comes next.
LabelsTell ==
  \A k \in DOMAIN log \ {1} :
    LET a == log[k - 1].addr
    IN  IsFirst(log[k].addr) /\ a \in DOMAIN AddrCallerCalled => AddrCallerCalled[a][2] = Func(k)
Tidy == Orderly /\ OneSession /\ LabelsTell /\ handlers = {}

\* The products of the percent column fit an int.
Fits == Len(lines) * 100 <= MaxInt

\* The time column is the time the function was on the stack, after every line
\* of the pass: multipliers rebuild the stack from two marks per address.  Handlers,
\* whose mret closes nothing, do not disturb the time of the others.
TimeIsInclusive ==
  Orderly /\ OneSession =>
    \A f \in CodeFuncs \ handlers : execTimeMapTotal[f] = Inclusive(f, Seen("total"))

\* The called column counts the calls that were made, also when traps came between and
\* when the file holds several sessions, each cut off anywhere.
CalledIsEntries ==
  Orderly /\ NoRestart =>
    \A f \in CodeFuncs : timesCalledMap[f] = Entries(f, Seen("self"))

\* The weight of an edge counts the calls that were made at its places, although an
\* indirect call is known from the trace only: insert keeps the first pair of an
\* address, so that a place's later calls of other functions count for the first one.
EdgesAreCalls ==
  Tidy /\ NoRestart /\ stage \in {"table", "graph", "done"} =>
    \A f, g \in CodeFuncs : timesCalledByMap[<<f, g>>] = CallsFromTo(f, g)

\* The columns headed "(%)" are percentages (the titles in TextResources.h).
PercentagesInRange ==
  \A r \in table : r.percent \in 0..100 /\ r.children \in 0..100 /\ r.self \in 0..100

\* They are, for the programs the profiler can follow.
TidyPercentages == Tidy /\ Fits => PercentagesInRange

\* "Open created project file": the analyzer ends with a table and a graph.
OpeningEnds == stage # "out_of_range"

\* It does, for the programs the profiler can follow.
TidyOpeningEnds == Tidy => OpeningEnds

============================================================================
