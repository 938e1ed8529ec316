----------------------------- MODULE Execution -----------------------------
(***************************************************************************)
(* The profiled program running under the simulator, as far as the trace   *)
(* shows it: control moves through the listing and every decoded           *)
(* instruction is logged unless its pc is that of the one before           *)
(* (processor_t::disasm).  A simulator that is started again, however the  *)
(* one before ended, appends to the same file.  The log also keeps what    *)
(* the trace file does not: how the line was reached and the functions     *)
(* that were active; handlers remembers which of them the marks of the     *)
(* analyzer do not delimit.                                                *)
(***************************************************************************)
EXTENDS TraceMarks

CONSTANTS
  Entry,     \* where the trace may begin
  TrapEntry, \* interrupt handlers, {} when interrupts are off
  NoPc,      \* last_pc of a new processor
  MaxTrace,  \* bound: lines of the trace
  MaxSession \* bound: how often the simulator is started

Code == {AddrOf(n) : n \in Insns}

\* The disassembly has every instruction that runs, once.
ASSUME ExecutionAssumption ==
  /\ Entry \subseteq Code /\ TrapEntry \subseteq Code
  /\ NoPc \notin Addr
  /\ {MaxTrace, MaxSession} \subseteq Nat
  /\ \A m, n \in Insns : AddrOf(m) = AddrOf(n) => m = n
  /\ \A n \in Insns :
       /\ Listing[n].to \subseteq Code
       /\ Listing[n].op \in {"call", "ecall"} => Listing[n].next \in Code

VARIABLES
  pc, via, frames, last_pc, session, log,
  handlers   \* history: the functions a trap entered or an mret left
execVars == <<pc, via, frames, last_pc, session, log, handlers>>

InsnAt(a) == Listing[CHOOSE k \in Insns : AddrOf(k) = a]
Frame(a, ret) == [func |-> FuncAt(a), ret |-> ret]
Callers(s) == SubSeq(s, 1, Len(s) - 1)
Top == frames[Len(frames)]
Stack == [k \in DOMAIN frames |-> frames[k].func]

ExecInit ==
  /\ pc \in Entry
  /\ via = "entry"
  /\ frames = <<Frame(pc, pc)>>
  /\ last_pc = NoPc /\ session = 1
  /\ log = <<>> /\ handlers = {}

\* disasm: nothing is written while the same instruction repeats.
Disasm ==
  /\ last_pc' = pc
  /\ IF last_pc = pc THEN UNCHANGED log
     ELSE log' = Append(log, [addr |-> pc, via |-> via, stack |-> Stack,
                           session |-> session])

Move(a, how, newFrames) ==
  /\ pc' = a /\ via' = how /\ frames' = newFrames
  /\ handlers' = handlers \cup {f \in {FuncAt(a)} : how = "trap"} \cup {f \in {FuncAt(pc)} : how = "mret"}

Execute ==
  /\ Len(log) < MaxTrace
  /\ Disasm
  /\ LET insn == InsnAt(pc)
         callers == Callers(frames)
     IN  \/ /\ insn.op \in {"plain", "jump"}
            /\ \E a \in insn.to : Move(a, "flow", frames)
         \/ /\ insn.op = "call"
            /\ \E a \in insn.to : Move(a, "call", Append(frames, Frame(a, insn.next)))
         \/ /\ insn.op = "ecall"
            /\ \E h \in TrapEntry : Move(h, "trap", Append(frames, Frame(h, insn.next)))
         \/ /\ insn.op = "ret" /\ callers # <<>>
            /\ Move(Top.ret, "ret", callers)
         \/ /\ insn.op = "mret" /\ callers # <<>>
            /\ Move(Top.ret, "mret", callers)
  /\ UNCHANGED session

\* take_pending_interrupt, before the next instruction is decoded; a handler
\* runs with interrupts disabled.
Interrupt ==
  /\ Len(log) < MaxTrace
  /\ \E h \in TrapEntry :
       /\ FuncAt(h) \notin {Stack[k] : k \in DOMAIN Stack}
       /\ Move(h, "trap", Append(frames, Frame(h, pc)))
  /\ UNCHANGED <<last_pc, session, log>>

\* A new simulator with its program, after an end or a kill of the last.
Restart ==
  /\ Len(log) < MaxTrace /\ session < MaxSession
  /\ session' = session + 1
  /\ \E a \in Entry : Move(a, "entry", <<Frame(a, a)>>)
  /\ last_pc' = NoPc
  /\ UNCHANGED log

ExecNext == Execute \/ Interrupt \/ Restart

Trace == [k \in DOMAIN log |-> log[k].addr]

============================================================================
