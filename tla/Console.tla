------------------------------ MODULE Console ------------------------------
(***************************************************************************)
(* Interactive mode (option -d) of the simulator: sim_t::idle, the prompt, *)
(* and the commands that run the harts.  A long run is cut in chunks of    *)
(* INTERLEAVE steps, the rest being left in next_interactive_action, so    *)
(* that the loop in htif_t::run gets its turn; so is one that goes on      *)
(* until (or while) a hart is at an address.  CTRL+C sets a flag at any    *)
(* moment.                                                                 *)
(***************************************************************************)
EXTENDS Hart

CONSTANTS Counts,  \* the counts the user types; one beyond the bounds of Hart is never reached
          Goals,   \* the conditions the user types
          NoGoal,  \* of a run with a count
          MaxRuns  \* bound: commands typed

\* The pc of a hart is, or is no longer, an address.
Goal == [hart : Harts, pc : Pc, is : BOOLEAN]

ASSUME ConsoleAssumption ==
  /\ Counts \subseteq Nat /\ MaxRuns \in Nat
  /\ Goals \subseteq Goal /\ NoGoal \notin Goal

VARIABLES
  at,      \* htif's loop, the prompt, interactive_run or _until, the Enter key, or exited
  ctrlc,   \* ctrlc_pressed
  next,    \* next_interactive_action: how to go on with a run
  frame,   \* the arguments and locals of interactive_run or interactive_until
  typed,   \* it was called for a command, not by next
  ran,     \* ghost: the steps of the command typed last
  asked,   \* ghost: its count or condition
  pressed, \* ghost: CTRL+C was pressed since it was typed
  stale,   \* ghost: CTRL+C had been pressed before it was typed
  runs     \* ghost: the number of commands typed

console == <<at, ctrlc, next, frame, typed>>
ghosts  == <<ran, asked, pressed, stale, runs>>
vars    == <<hartVars, console, ghosts>>
idleHarts == <<core, pending, cur, currentStep, file, executed>>

Run(noisy, steps)  == [noisy |-> noisy, steps |-> steps, goal |-> NoGoal]
Until(noisy, goal) == [noisy |-> noisy, steps |-> 0, goal |-> goal]
NoRun == Run(FALSE, 0)
NoFrame == [run |-> NoRun, i |-> 0]

Init ==
  /\ HartInit /\ debug = FALSE
  /\ at = "idle" /\ ctrlc = FALSE
  /\ next = NoRun /\ frame = NoFrame /\ typed = FALSE
  /\ ran = 0 /\ asked = NoRun /\ pressed = FALSE /\ stale = FALSE /\ runs = 0

Smaller(a, b) == IF a < b THEN a ELSE b

\* interactive_run or interactive_until begins; the second sets debug later.
Call(run) ==
  /\ frame' = [run |-> run, i |-> 0]
  /\ IF run.goal = NoGoal THEN at' = "run" /\ debug' = run.noisy
     ELSE at' = "until" /\ UNCHANGED debug

\* idle calls interactive: CTRL+C drops the rest of a run, otherwise it goes on.
Interactive ==
  /\ at = "idle"
  /\ next' = NoRun /\ ctrlc' = FALSE
  /\ IF ~ctrlc /\ next # NoRun
     THEN Call(next) /\ typed' = FALSE
     ELSE at' = "prompt" /\ UNCHANGED <<frame, typed, debug>>
  /\ UNCHANGED <<idleHarts, call, ghosts>>

Typed(run) ==
  /\ runs < MaxRuns /\ runs' = runs + 1
  /\ asked' = run
  /\ pressed' = FALSE /\ stale' = ctrlc

\* The commands run, rs, until, untiln and while.
Command(run) ==
  /\ at = "prompt"
  /\ Call(run) /\ typed' = TRUE
  /\ Typed(run) /\ ran' = 0
  /\ UNCHANGED <<idleHarts, call, ctrlc, next>>

\* An empty command is one noisy step.
Enter ==
  /\ at = "prompt"
  /\ at' = "enter"
  /\ Typed(Run(TRUE, 1)) /\ ran' = 1
  /\ StartStep(1) /\ debug' = TRUE
  /\ UNCHANGED <<idleHarts, ctrlc, next, frame, typed>>
EnterEnds ==
  /\ at = "enter" /\ call = NoCall
  /\ at' = "idle" /\ ctrlc' = FALSE
  /\ UNCHANGED <<hartVars, next, frame, typed, ghosts>>

\* A mutant: std::min is missing.
ActualSteps_Chunk == INTERLEAVE
ActualSteps == Smaller(INTERLEAVE, frame.run.steps)
Loops == frame.i < ActualSteps /\ ~ctrlc

RunStep ==
  /\ at = "run" /\ call = NoCall /\ Loops
  /\ frame' = [frame EXCEPT !.i = @ + 1]
  /\ ran' = ran + 1
  /\ StartStep(1)
  /\ UNCHANGED <<idleHarts, debug, at, ctrlc, next, typed, asked, pressed, stale, runs>>

\* A mutant: the flag is reset after every chunk.
Return_Resets(more, run) ==
  /\ next' = IF more THEN run ELSE next
  /\ at' = IF typed /\ ~more THEN "prompt" ELSE "idle"
  /\ ctrlc' = FALSE
  /\ frame' = NoFrame /\ typed' = FALSE
\* Back to the prompt's loop, which ends and resets the flag if something is left
\* to run, or through interactive to idle.
Return(more, run) ==
  /\ next' = IF more THEN run ELSE next
  /\ at' = IF typed /\ ~more THEN "prompt" ELSE "idle"
  /\ ctrlc' = IF typed /\ more THEN FALSE ELSE ctrlc
  /\ frame' = NoFrame /\ typed' = FALSE

\* The steps of later chunks, whether or not this one was completed.
Rest == frame.run.steps - ActualSteps

RunEnds ==
  /\ at = "run" /\ call = NoCall /\ ~Loops
  /\ Return(ActualSteps < frame.run.steps, Run(frame.run.noisy, Rest))
  /\ UNCHANGED <<hartVars, ghosts>>

\* A mutant: while is taken for until.
Reached_Until(goal) == core[goal.hart].pc = goal.pc
\* cmd_until == (current == val), with get_pc.
Reached(goal) == goal.is <=> core[goal.hart].pc = goal.pc

UntilStep ==
  /\ at = "until" /\ call = NoCall
  /\ frame.i < INTERLEAVE /\ ~Reached(frame.run.goal) /\ ~ctrlc
  /\ frame' = [frame EXCEPT !.i = @ + 1]
  /\ debug' = frame.run.noisy
  /\ ran' = ran + 1
  /\ StartStep(1)
  /\ UNCHANGED <<idleHarts, at, ctrlc, next, typed, asked, pressed, stale, runs>>

\* The condition and the flag are not looked at after the last step of a chunk.
UntilEnds ==
  /\ at = "until" /\ call = NoCall
  /\ LET more == frame.i = INTERLEAVE
     IN  (more \/ Reached(frame.run.goal) \/ ctrlc) /\ Return(more, frame.run)
  /\ UNCHANGED <<hartVars, ghosts>>

\* handle_signal; the second time it exits.
CtrlC ==
  /\ at # "exited"
  /\ IF ctrlc THEN at' = "exited" /\ UNCHANGED ctrlc ELSE ctrlc' = TRUE /\ UNCHANGED at
  /\ pressed' = TRUE
  /\ UNCHANGED <<hartVars, next, frame, typed, ran, asked, stale, runs>>

Quit ==
  /\ at = "prompt"
  /\ at' = "exited"
  /\ UNCHANGED <<hartVars, ctrlc, next, frame, typed, ghosts>>

\* There is no noisy while.
Hits == {goal \in Goals : goal.is}
Commands ==
  {Run(noisy, n) : noisy \in BOOLEAN, n \in Counts} \cup
  {Until(FALSE, goal) : goal \in Goals} \cup {Until(TRUE, goal) : goal \in Hits}

Next ==
  \/ Interactive \/ Enter \/ EnterEnds \/ CtrlC \/ Quit
  \/ RunStep \/ RunEnds \/ UntilStep \/ UntilEnds
  \/ \E run \in Commands : Command(run)
  \/ at # "exited" /\ HartNext /\ UNCHANGED <<console, ghosts>>

Spec == Init /\ [][Next]_vars

----------------------------------------------------------------------------
RunType == [noisy : BOOLEAN, steps : Nat, goal : Goal \cup {NoGoal}]

\* Types.
TypeOK ==
  /\ HartTypeOK
  /\ at \in {"idle", "prompt", "run", "until", "enter", "exited"}
  /\ ctrlc \in BOOLEAN
  /\ next \in RunType /\ frame \in [run : RunType, i : Nat]
  /\ typed \in BOOLEAN
  /\ ran \in Nat /\ asked \in RunType
  /\ pressed \in BOOLEAN /\ stale \in BOOLEAN
  /\ runs \in 0..MaxRuns

\* Back at the prompt: no call, no chunk, nothing left to run.
Settled == at = "prompt" /\ runs > 0

\* "[count] insns": a run of several chunks takes as many steps as were asked
\* for, unless CTRL+C was pressed.
CountIsKept ==
  Settled /\ ~pressed /\ ~stale /\ asked.goal = NoGoal => ran = asked.steps

\* "Stop when PC in <core> hits <val>", "Run while PC in <core> is <val>": a run
\* of several chunks ends where the condition says.
GoalIsMet ==
  Settled /\ ~pressed /\ ~stale /\ asked.goal # NoGoal =>
    (asked.goal.is <=> core[asked.goal.hart].pc = asked.goal.pc)

\* "until CTRL+C": once it was pressed, what is left to run will not be run
\* (the flag is still there to drop it).
CtrlCStopsRun == pressed /\ next # NoRun => ctrlc

\* In the later chunks of a run CTRL+C is never forgotten: the rest is left to
\* idle, with the flag that drops it.
CtrlCStopsChunks ==
  [][ctrlc /\ ~ctrlc' => next' = NoRun \/ typed]_vars
============================================================================
