----------------------------- MODULE TraceMarks -----------------------------
(***************************************************************************)
(* What openProjectFile makes of a trace before it is analysed: each line  *)
(* gets its function and its first/last/call marks, and the passes that    *)
(* mark calls also extend two of the disassembly's tables (TraceParser).   *)
(***************************************************************************)
EXTENDS Objdump

TraceLine == [addr : Addr, func : CodeFuncs \cup {NoFunc},
              first : BOOLEAN, last : BOOLEAN]

IsFirst(a) == a \in DOMAIN FirstFuncAddrMap
IsLast(a)  == FuncAt(a) \in DOMAIN RetFuncAddrMap /\ a \in RetFuncAddrMap[FuncAt(a)]

\* addFuncAddresses, markFirstLines and markLastLines.
Mark(a) == [addr |-> a, func |-> FuncAt(a), first |-> IsFirst(a), last |-> IsLast(a)]
Marked(trace) == [k \in DOMAIN trace |-> Mark(trace[k])]

\* A mutant: the passes in the other order, so that a last line is no call.
CallLines_AfterLast(trace) ==
  {k \in DOMAIN trace : k + 1 \in DOMAIN trace /\ IsFirst(trace[k + 1]) /\ ~IsLast(trace[k])}

\* markCallLines runs before markLastLines, so its test of isLastLine always
\* succeeds: every line that a first line follows is a call line.
CallLines(trace) ==
  {k \in DOMAIN trace : k + 1 \in DOMAIN trace /\ IsFirst(trace[k + 1])}

Transfer(trace, k) == <<FuncAt(trace[k]), FuncAt(trace[k + 1])>>


\* A mutant: markCallLines assigns, so that an address keeps the last transfer seen.
CallSites_Last(trace) ==
  LET seen(a) == {k \in CallLines(trace) : trace[k] = a}
  IN  [a \in DOMAIN AddrCallerCalled \cup {trace[k] : k \in CallLines(trace)} |->
         IF a \in DOMAIN AddrCallerCalled THEN AddrCallerCalled[a]
         ELSE Transfer(trace, Latest(seen(a)))]

\* addrCallerCalled.insert: a site the disassembly explains keeps its entry,
\* any other keeps the first transfer seen.
CallSites(trace) ==
  LET seen(a) == {k \in CallLines(trace) : trace[k] = a}
  IN  [a \in DOMAIN AddrCallerCalled \cup {trace[k] : k \in CallLines(trace)} |->
         IF a \in DOMAIN AddrCallerCalled THEN AddrCallerCalled[a]
         ELSE Transfer(trace, Earliest(seen(a)))]

ListedCalls        == UNION {{f} \X CallingMap[f] : f \in DOMAIN CallingMap}
TracedCalls(trace) == {Transfer(trace, k) : k \in CallLines(trace)}

\* A mutant: markCallLines leaves callingMap as the disassembly gave it.
Calls_OfListing(trace) == ListedCalls

\* callingMap with the transfers of the trace added.
Calls(trace) == ListedCalls \cup TracedCalls(trace)

============================================================================
