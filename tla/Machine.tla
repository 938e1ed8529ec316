------------------------------ MODULE Machine ------------------------------
(***************************************************************************)
(* What the trace of a session means, without any of the ways the          *)
(* simulator has to produce it: harts that execute one whole instruction   *)
(* at a time, look for interrupts before each, and note it in a log while  *)
(* noisy, one entry for a run of equal ones of a hart.  There are no       *)
(* counters, no chunks, no attempts and no prompt.                         *)
(***************************************************************************)
EXTENDS Naturals, Sequences

CONSTANTS NHarts, Program, Reset, Handler, NoPc

VARIABLES
  state,   \* what software can see of each hart, and whether it waits
  pending, \* the harts with an interrupt pending
  noisy,   \* instructions are noted
  log,     \* the instructions noted, with their hart
  last     \* the instruction each hart noted last

machineVars == <<state, pending, noisy, log, last>>
Harts == 0..NHarts - 1

Init ==
  /\ state = [h \in Harts |-> [pc |-> Reset, epc |-> Reset, mie |-> FALSE, mpie |-> FALSE,
                               wfi |-> FALSE]]
  /\ pending = {}
  /\ noisy \in BOOLEAN
  /\ log = <<>>
  /\ last = [h \in Harts |-> NoPc]

\* Devices raise interrupts by themselves.
Fires(p) == \E fired \in SUBSET Harts : pending' = p \cup fired
\* A store to the CLINT raises or clears one of any hart, a CSR access one of its own.
Stored(h, op) ==
  {pending} \cup UNION {{pending \cup {g}, pending \ {g}} :
                         g \in {g \in Harts : op = "clint" \/ (op = "csr" /\ g = h)}}

Trapped(s) == [s EXCEPT !.pc = Handler, !.epc = s.pc, !.mpie = s.mie, !.mie = FALSE, !.wfi = FALSE]
Goes(s, to) == {[s EXCEPT !.pc = a, !.wfi = FALSE] : a \in to}
MStatusWritten(s) == UNION {{[s EXCEPT !.mie = b, !.mpie = d] : b \in BOOLEAN} : d \in BOOLEAN}
Written(s) == MStatusWritten(s) \cup {[s EXCEPT !.epc = a] : a \in Program[s.epc].to}

\* What an instruction makes of a hart.
After(s) ==
  LET insn == Program[s.pc]
  IN  CASE insn.op \in {"plain", "clint"} -> Goes(s, insn.to)
        [] insn.op = "csr" -> UNION {Goes(c, insn.to) : c \in Written(s)}
        [] insn.op = "wfi" -> {[s EXCEPT !.pc = a, !.wfi = TRUE] : a \in insn.to}
        [] insn.op = "mret" -> {[s EXCEPT !.pc = s.epc, !.mie = s.mpie, !.mpie = TRUE, !.wfi = FALSE]}
        [] OTHER -> {Trapped(s)}

Note(h) ==
  IF noisy /\ last[h] # state[h].pc
  THEN /\ log' = Append(log, [hart |-> h, pc |-> state[h].pc])
       /\ last' = [last EXCEPT ![h] = state[h].pc]
  ELSE UNCHANGED <<log, last>>

Becomes(h, s) == state' = [state EXCEPT ![h] = s]
Interruptible(h) == h \in pending /\ state[h].mie
Runnable(h) == ~Interruptible(h) /\ (state[h].wfi => h \in pending)

Interrupt(h) ==
  /\ Interruptible(h)
  /\ Becomes(h, Trapped(state[h]))
  /\ Fires(pending) /\ UNCHANGED <<noisy, log, last>>

\* A fetch that fails notes nothing.
Fetch(h) ==
  /\ Runnable(h) /\ Program[state[h].pc].op = "hole"
  /\ Becomes(h, Trapped(state[h]))
  /\ Fires(pending) /\ UNCHANGED <<noisy, log, last>>

Execute(h) ==
  /\ Runnable(h) /\ Program[state[h].pc].op # "hole"
  /\ \E s \in After(state[h]) : Becomes(h, s)
  /\ Note(h)
  /\ \E p \in Stored(h, Program[state[h].pc].op) : Fires(p)
  /\ UNCHANGED noisy

Wake(h) ==
  /\ Runnable(h) /\ state[h].wfi
  /\ Becomes(h, [state[h] EXCEPT !.wfi = FALSE])
  /\ UNCHANGED <<pending, noisy, log, last>>

Devices == Fires(pending) /\ UNCHANGED <<state, noisy, log, last>>
Switch  == noisy' \in BOOLEAN /\ UNCHANGED <<state, pending, log, last>>

Next ==
  \/ \E h \in Harts : Interrupt(h) \/ Fetch(h) \/ Execute(h) \/ Wake(h)
  \/ Devices \/ Switch

Spec == Init /\ [][Next]_machineVars
============================================================================
