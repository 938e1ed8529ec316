------------------------------ MODULE Objdump ------------------------------
(***************************************************************************)
(* The disassembly listing and the tables TObjdumpParser::parseFile builds *)
(* from it.  A listing is the sequence of the lines the parser reacts to:  *)
(* headers ("addr <label>:") and instructions.  The fields op, to and next *)
(* say what the instruction does when it runs; the parser never sees them, *)
(* only Execution does.                                                    *)
(***************************************************************************)
EXTENDS Naturals, Sequences, FiniteSets

CONSTANTS
  Addr,      \* addresses, in the form both files print them
  Name,      \* the symbol names of the program
  MainLike,  \* the names that begin with "main"
  NoLabel,   \* a line without <...>
  Listing    \* the disassembly

NoFunc == ""
Op     == {"plain", "jump", "call", "ret", "ecall", "mret"}
Label  == [base : Name, offset : BOOLEAN] \cup {NoLabel}
Header == [kind : {"header"}, addr : Addr, label : Label]
Insn   == [kind : {"insn"}, addr : Addr, label : Label,
           op : Op, to : SUBSET Addr, next : Addr]

ASSUME ObjdumpAssumption ==
  /\ NoFunc \notin Name /\ IsFiniteSet(Name)
  /\ "main" \in MainLike
  /\ MainLike \subseteq Name
  /\ Listing \in Seq(Header \cup Insn)

----------------------------------------------------------------------------
\* parseFuncName: every name that starts with "main" is main, even when an
\* offset follows; any other name with an offset is no function.
ParseFuncName(label) ==
  CASE label = NoLabel -> NoFunc
    [] label # NoLabel /\ label.base \in MainLike -> "main"
    [] OTHER -> IF label.offset THEN NoFunc ELSE label.base

Lines   == DOMAIN Listing
Headers == {n \in Lines : Listing[n].kind = "header"}
Insns   == {n \in Lines : Listing[n].kind = "insn"}

Earliest(S) == CHOOSE n \in S : \A m \in S : n <= m
Latest(S)   == CHOOSE n \in S : \A m \in S : m <= n

\* map::insert: the first line that has the key decides.
Insert(S, key(_), val(_)) ==
  [k \in {key(n) : n \in S} |-> val(Earliest({n \in S : key(n) = k}))]

AddrOf(n)  == Listing[n].addr
RefOf(n)   == ParseFuncName(Listing[n].label)

\* First pass over the file: the headers.
FirstFuncAddrMap == Insert(Headers, AddrOf, RefOf)
FuncNames        == {RefOf(n) : n \in Headers}

\* Second pass: curFuncName at line n is the name in the last header above it.
CurFuncName(n) ==
  LET above == {h \in Headers : h < n}
  IN  IF above = {} THEN NoFunc ELSE RefOf(Latest(above))

Owned == {n \in Insns : CurFuncName(n) # NoFunc}

AddrFuncMap   == Insert(Owned, AddrOf, CurFuncName)
CodeFuncs     == {CurFuncName(n) : n \in Owned}
RetFuncAddrMap ==
  LET rets == {n \in Owned : Listing[n].op = "ret"}
  IN  [f \in {CurFuncName(n) : n \in rets} |->
         {AddrOf(n) : n \in {m \in rets : CurFuncName(m) = f}}]

\* An instruction whose label names a function counts as a call of it.
Refs == {n \in Owned : RefOf(n) # NoFunc}
CallingMap ==
  [f \in {CurFuncName(n) : n \in Refs} |->
     {RefOf(n) : n \in {m \in Refs : CurFuncName(m) = f}}]
CallerCalled(n) == <<CurFuncName(n), RefOf(n)>>
AddrCallerCalled ==
  Insert({n \in Refs : RefOf(n) \in FuncNames}, AddrOf, CallerCalled)

FuncAt(a) == IF a \in DOMAIN AddrFuncMap THEN AddrFuncMap[a] ELSE NoFunc

============================================================================
