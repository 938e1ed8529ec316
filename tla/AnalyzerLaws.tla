---------------------------- MODULE AnalyzerLaws ----------------------------
(***************************************************************************)
(* What the analyzer guarantees for any trace at all, whatever program or  *)
(* simulator wrote it: relations between the tables the passes build.      *)
(***************************************************************************)
EXTENDS Analyzer, FiniteSets, FiniteSetsExt

\* Calls are conserved between two passes that count them separately: when
\* both are over, the calls of all pairs (edges) are the calls of all
\* functions (called column), except a first line that opens the trace.
CallsAreConserved ==
  stage \in {"table", "graph", "done", "out_of_range"} =>
    MapThenSumSet(LAMBDA p : timesCalledByMap[p], Caller \X Called)
      = MapThenSumSet(LAMBDA f : timesCalledMap[f], Caller)
          - IF lines # <<>> /\ lines[1].first THEN 1 ELSE 0

\* The graph draws from callingMap and counts from timesCalledByMap, filled by
\* three different loops: no counted call between two functions is left out.
EveryCountIsDrawn ==
  stage = "done" =>
    \A p \in Counted :
      {p[1], p[2]} \subseteq CodeFuncs => <<p, timesCalledByMap[p]>> \in graph.edges

\* A function reaches the profile only through its first line: the other
\* panels can jump to an occurrence of every function the table offers.
TableIsEntered ==
  \A r \in table : \E k \in DOMAIN lines : lines[k].func = r.name /\ lines[k].first

\* Opening a project fails in at() only for a function that the edges name and
\* no line of the trace belongs to.
FailsOnlyOnUntraced ==
  stage = "out_of_range" =>
    \E f \in Nodes : \A k \in DOMAIN lines : lines[k].func # f

============================================================================
