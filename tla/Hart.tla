-------------------------------- MODULE Hart --------------------------------
(***************************************************************************)
(* The simulated harts and the lines they write to the trace file:         *)
(* processor_t::step, the handling of traps, sim_t::step, which takes the  *)
(* harts in turn, and processor_t::disasm, to which the project added the  *)
(* trace.  A call of step runs an outer loop, which looks for interrupts,  *)
(* around an inner one, which executes instructions and counts them only   *)
(* when it ends.  One action is one iteration of the inner loop, or of the *)
(* outer one when the inner does not begin.  Harts run in M-mode.          *)
(***************************************************************************)
EXTENDS Naturals, Sequences

CONSTANTS
  NHarts,     \* procs.size()
  Program,    \* what is at an address: the instruction and where it may lead
  Reset,      \* the address execution starts at
  Handler,    \* mtvec
  NoPc,       \* last_pc of a new processor
  INTERLEAVE,
  CycleMod,     \* 2^64, modulo which mcycle counts
  MCycleWrites, \* what the program writes to mcycle
  MaxEra        \* bound: how often mcycle of a hart is written or wraps

CsrOp == {"csr", "badcsr"}
Op == {"plain", "clint", "wfi", "trap", "mret", "hole"} \cup CsrOp
Pc == DOMAIN Program

ASSUME HartAssumption ==
  /\ NHarts \in Nat \ {0} /\ INTERLEAVE \in Nat \ {0}
  /\ CycleMod \in Nat /\ CycleMod > INTERLEAVE
  /\ MCycleWrites \subseteq 0..CycleMod - 1 /\ MaxEra \in Nat
  /\ \A a \in Pc : Program[a].op \in Op /\ Program[a].to \subseteq Pc
  /\ Reset \in Pc /\ Handler \in Pc /\ NoPc \notin Pc

Harts == 0..NHarts - 1

VARIABLES
  core,    \* state_t of every hart, in_wfi and last_pc; ghost era: writes and wraps of mcycle
  pending, \* the harts with an interrupt pending
  cur,     \* current_proc
  currentStep,
  call,    \* the call of processor_t::step in progress and its locals
  debug,   \* processor_t::debug, the same in all harts
  file,    \* the trace file; ghost era of a line: that of its hart
  executed     \* ghost: the instruction each hart executed last while debug was set

hartVars == <<core, pending, cur, currentStep, call, debug, file, executed>>

NoCall == [steps |-> 0, n |-> 0, instret |-> 0, inner |-> FALSE]

HartInit ==
  /\ core = [h \in Harts |-> [pc |-> Reset, epc |-> Reset, mie |-> FALSE, mpie |-> FALSE,
                              wfi |-> FALSE, serialized |-> FALSE, lastPc |-> NoPc, mcycle |-> 0, era |-> 0]]
  /\ pending = {}
  /\ cur = 0 /\ currentStep = 0
  /\ call = NoCall
  /\ file = <<>>
  /\ executed = [h \in Harts |-> NoPc]

----------------------------------------------------------------------------
\* The beginning of sim_t::step.  It makes one call of processor_t::step: it is
\* asked for 1 step, or for INTERLEAVE of them when currentStep is 0.
StartStep(steps) ==
  call' = [steps |-> steps, n |-> steps, instret |-> 0, inner |-> FALSE]

\* A mutant: current_proc is not set to 0 again.
NextHart_Beyond == cur + 1
NextHart == (cur + 1) % NHarts

\* Its end: after INTERLEAVE steps the next hart is taken, and after the last
\* one the devices tick, so that timers may fire.
EndStep(p) ==
  /\ call' = NoCall
  /\ currentStep' = (currentStep + call.steps) % INTERLEAVE
  /\ cur' = IF currentStep' = 0 THEN NextHart ELSE cur
  /\ IF currentStep' = 0 /\ cur' = 0 THEN \E fired \in SUBSET Harts : pending' = p \cup fired
     ELSE pending' = p

Busy == call.n > 0 /\ core[cur].era <= MaxEra
This == core[cur]
At == Program[This.pc]

\* wide_counter_csr_t::bump, of an unsigned number.
Bump(c, howmuch) ==
  IF c.mcycle + howmuch < CycleMod THEN [c EXCEPT !.mcycle = @ + howmuch]
  ELSE [c EXCEPT !.mcycle = @ + howmuch - CycleMod, !.era = @ + 1]

\* The inner loop ends with the hart in state c, having counted instret steps of
\* n: the counters are bumped, and the outer loop ends if that was all.
EndInner(c, p, instret, n) ==
  /\ core' = [core EXCEPT ![cur] = Bump(c, instret)]
  /\ IF instret < n
     THEN /\ call' = [call EXCEPT !.n = n - instret, !.instret = 0, !.inner = FALSE]
          /\ pending' = p
          /\ UNCHANGED <<cur, currentStep>>
     ELSE EndStep(p)

\* The inner loop goes on unless all of n is counted.
Advance(c, p) ==
  IF call.instret + 1 < call.n
  THEN /\ core' = [core EXCEPT ![cur] = c]
       /\ call' = [call EXCEPT !.instret = @ + 1, !.inner = TRUE]
       /\ pending' = p
       /\ UNCHANGED <<cur, currentStep>>
  ELSE EndInner(c, p, call.instret + 1, call.n)

Trapped(c) == [c EXCEPT !.pc = Handler, !.epc = c.pc, !.mpie = c.mie, !.mie = FALSE]

----------------------------------------------------------------------------
\* take_pending_interrupt is called by the outer loop only.
Interrupted == ~call.inner /\ cur \in pending /\ This.mie
\* A pending interrupt ends waiting even when interrupts are disabled.
Waiting == This.wfi /\ (call.inner \/ cur \notin pending)
Runs(op) == Busy /\ ~Interrupted /\ ~Waiting /\ At.op = op

TakeInterrupt ==
  /\ Busy /\ Interrupted
  /\ EndInner([Trapped(This) EXCEPT !.wfi = FALSE], pending, 0, 0)
  /\ UNCHANGED <<debug, file, executed>>

\* wait_for_interrupt_t: a step of waiting counts as one and ends the call.
Wait ==
  /\ Busy /\ ~Interrupted /\ Waiting
  /\ EndInner(This, pending, call.instret + 1, call.instret + 1)
  /\ UNCHANGED <<debug, file, executed>>

\* load_insn traps: nothing was decoded.
FetchFault ==
  /\ Runs("hole")
  /\ EndInner([Trapped(This) EXCEPT !.wfi = FALSE], pending, call.instret, call.instret)
  /\ UNCHANGED <<debug, file, executed>>

Decodes == debug /\ ~This.serialized
\* disasm: equal consecutive instructions of a hart are written once.
Disasm ==
  file' = IF Decodes /\ This.lastPc # This.pc
          THEN Append(file, [hart |-> cur, cycle |-> This.mcycle, era |-> This.era,
                            pc |-> This.pc]) ELSE file
\* The hart after in_wfi = false and disasm.
Decoded == [This EXCEPT !.wfi = FALSE, !.lastPc = IF Decodes THEN This.pc ELSE @]

Issue == executed' = IF debug THEN [executed EXCEPT ![cur] = This.pc] ELSE executed
Executes(op) == Runs(op) /\ Disasm /\ Issue /\ UNCHANGED debug

Plain ==
  /\ Executes("plain")
  /\ \E a \in At.to : Advance([Decoded EXCEPT !.pc = a], pending)

\* A store to the CLINT: an interrupt appears or goes away, for any hart.
Clint ==
  /\ Executes("clint")
  /\ \E a \in At.to, h \in Harts : \E p \in {pending \cup {h}, pending \ {h}} :
       Advance([Decoded EXCEPT !.pc = a], p)

\* validate_csr, first time: the instruction is to be tried again by a new
\* inner loop (PC_SERIALIZE_BEFORE).
SerializeBefore ==
  /\ \E op \in CsrOp : Runs(op)
  /\ ~This.serialized
  /\ Disasm
  /\ EndInner([Decoded EXCEPT !.serialized = TRUE], pending, call.instret, call.n)
  /\ UNCHANGED <<debug, executed>>

\* wide_counter_csr_t::unlogged_write: one less, for the bump that follows.
WriteMCycle(c, val) ==
  [c EXCEPT !.mcycle = IF val = 0 THEN CycleMod - 1 ELSE val - 1, !.era = @ + 1]

\* What may be written to mstatus, mepc and mcycle.
MStatusWrites(c) == UNION {{[c EXCEPT !.mie = b, !.mpie = d] : b \in BOOLEAN} : d \in BOOLEAN}
MEpcWrites(c)    == {[c EXCEPT !.epc = a] : a \in Program[c.epc].to}
CsrWrites(c) ==
  MStatusWrites(c) \cup MEpcWrites(c) \cup {WriteMCycle(c, val) : val \in MCycleWrites}
\* A write to mie or mip is one more way for an interrupt to appear or go away.
CsrPending == {pending, pending \cup {cur}, pending \ {cur}}

\* Mutants of Validated and Retired: serialized is not reset; the instruction
\* that serializes is not counted.
Validated_Kept(c) == c
Retired_NotSerial == call.instret
Validated(c) == [c EXCEPT !.serialized = FALSE]
Retired == call.instret + 1

\* Second time: it executes, and ends the inner loop (PC_SERIALIZE_AFTER).
Csr ==
  /\ Executes("csr") /\ This.serialized
  /\ \E a \in At.to, p \in CsrPending : \E c \in CsrWrites(Validated(Decoded)) :
       EndInner([c EXCEPT !.pc = a], p, Retired, call.n)

\* Or get_csr traps, because the register may not be accessed.
CsrFault ==
  /\ Executes("badcsr") /\ This.serialized
  /\ EndInner(Trapped(Validated(Decoded)), pending, call.instret, call.instret)

Wfi ==
  /\ Executes("wfi")
  /\ \E a \in At.to :
       EndInner([Decoded EXCEPT !.pc = a, !.wfi = TRUE], pending,
                call.instret + 1, call.instret + 1)

\* ecall, or an instruction that faults: it is decoded but not counted.
TrapInsn ==
  /\ Executes("trap")
  /\ EndInner(Trapped(Decoded), pending, call.instret, call.instret)

Mret ==
  /\ Executes("mret")
  /\ EndInner([Decoded EXCEPT !.pc = This.epc, !.mie = This.mpie, !.mpie = TRUE],
              pending, Retired, call.n)

HartNext ==
  \/ TakeInterrupt \/ Wait \/ FetchFault
  \/ Plain \/ Clint \/ SerializeBefore \/ Csr \/ CsrFault \/ Wfi \/ TrapInsn \/ Mret

----------------------------------------------------------------------------
\* Option -l: idle() calls step(INTERLEAVE), run() has set debug.
LogNext ==
  \/ HartNext
  \/ call = NoCall /\ StartStep(INTERLEAVE)
     /\ UNCHANGED <<core, pending, cur, currentStep, debug, file, executed>>
LogSpec == HartInit /\ debug = TRUE /\ [][LogNext]_hartVars

----------------------------------------------------------------------------
Core == [pc : Pc, epc : Pc, mie : BOOLEAN, mpie : BOOLEAN, wfi : BOOLEAN,
         serialized : BOOLEAN, lastPc : Pc \cup {NoPc}, mcycle : 0..CycleMod - 1, era : Nat]
CallType == [steps : 0..INTERLEAVE, n : 0..INTERLEAVE, instret : 0..INTERLEAVE, inner : BOOLEAN]

\* Types; current_proc is always the index of a hart.
HartTypeOK ==
  /\ core \in [Harts -> Core]
  /\ pending \subseteq Harts
  /\ cur \in Harts /\ currentStep \in 0..INTERLEAVE - 1
  /\ call \in CallType
  /\ debug \in BOOLEAN
  /\ file \in Seq([hart : Harts, cycle : 0..CycleMod - 1, era : Nat, pc : Pc])
  /\ executed \in [Harts -> Pc \cup {NoPc}]

----------------------------------------------------------------------------
\* The machine of which the file is the log: the first attempt of a CSR access
\* may have written a line for an instruction that is still to be executed.
Seen(c) == [pc |-> c.pc, epc |-> c.epc, mie |-> c.mie, mpie |-> c.mpie, wfi |-> c.wfi]
State == [h \in Harts |-> Seen(core[h])]
Unfinished == This.serialized /\ debug /\ executed[cur] # This.pc
Finished == IF Unfinished THEN Len(file) - 1 ELSE Len(file)
Log == [k \in 1..Finished |-> [hart |-> file[k].hart, pc |-> file[k].pc]]

M == INSTANCE Machine WITH state <- State, noisy <- debug, log <- Log, last <- executed

\* The trace is what was executed: line after line it is the log of harts that
\* execute an instruction at a time, although a CSR access is executed in two
\* attempts, equal lines are suppressed by a register that silent steps, traps
\* and other harts do not touch, and a run is cut into chunks.
IsMachine == M!Spec

\* "Generate a log of execution" (option -l): what a hart executed last is the
\* last thing it wrote.
LogIsComplete == \A h \in Harts : executed[h] # NoPc => core[h].lastPc = executed[h]

\* The first column tells time for as long as the program does not write mcycle: two
\* lines of a hart without a write between them, or 2^64 cycles, have the same mcycle
\* only when the first is an instruction that trapped.
CyclesAdvance ==
  \A j, k \in DOMAIN file :
    j < k /\ file[j].hart = file[k].hart /\ file[j].era = file[k].era =>
      \/ file[j].cycle < file[k].cycle
      \/ file[j].cycle = file[k].cycle /\ Program[file[j].pc].op \in {"trap", "badcsr"}

\* No hart is left between the two attempts of a CSR access, where nothing it
\* executes is written to the trace.
NoneSerialized == call = NoCall => \A h \in Harts : ~core[h].serialized
============================================================================
