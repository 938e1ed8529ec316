--------------------------- MODULE ConsoleProofs ---------------------------
(***************************************************************************)
(* Of interactive mode, for any program, any number of harts and any       *)
(* chunk: a run takes the steps that were asked for or ends where its      *)
(* condition says, and between two calls of processor_t::step no hart is   *)
(* left in the middle of a CSR access, where the trace would miss what it  *)
(* executes.  The trace file is the log of harts that execute one whole    *)
(* instruction at a time, and its first column advances.                   *)
(***************************************************************************)
EXTENDS Console, SequenceTheorems, TLAPS

\* What the proof needs of the types.
Shape ==
  /\ core \in [Harts -> Core]
  /\ cur \in Harts
  /\ call \in [steps : Nat, n : Nat, instret : Nat, inner : BOOLEAN]
  /\ at \in {"idle", "prompt", "run", "until", "enter", "exited"}
  /\ next \in RunType /\ frame \in [run : RunType, i : Nat]
  /\ ran \in Nat /\ asked \in RunType
  /\ ctrlc \in BOOLEAN /\ typed \in BOOLEAN

\* Interactive mode only ever asks for one step, so an inner loop never begins
\* again within a call except for the second attempt of a CSR access.
OneStep ==
  call # NoCall => call.steps = 1 /\ call.n = 1 /\ call.instret = 0 /\ call.inner = FALSE

\* Commands are read, and next is looked at, between calls.
BetweenCalls == at \in {"idle", "prompt"} => call = NoCall

\* Between the attempts the hart can do nothing but the second one.
OnlyRetry ==
  \A h \in Harts : core[h].serialized =>
    /\ h = cur /\ call # NoCall
    /\ Program[core[h].pc].op \in CsrOp
    /\ core[h].wfi = FALSE
    /\ ~(h \in pending /\ core[h].mie)

\* Where the steps that were asked for are: taken, or left in frame or in next.
Undisturbed == ~pressed /\ ~stale
StepsAreSomewhere ==
  Undisturbed /\ asked.goal = NoGoal =>
    /\ at = "run" =>
         frame.i <= ActualSteps /\ ran + (frame.run.steps - frame.i) = asked.steps
    /\ at = "idle" /\ next # NoRun => ran + next.steps = asked.steps
    /\ (at = "idle" /\ next = NoRun) \/ at \in {"enter", "prompt"} => ran = asked.steps

\* A condition is dropped only where it holds.
GoalIsSomewhere ==
  Undisturbed /\ asked.goal # NoGoal =>
    /\ at = "until" => frame.run.goal = asked.goal
    /\ at = "idle" /\ next # NoRun => next.goal = asked.goal
    /\ (at = "idle" /\ next = NoRun) \/ at = "prompt" => Reached(asked.goal)

\* What is run is what was asked for.
Kinds ==
  /\ Undisturbed => ~ctrlc
  /\ at = "enter" => asked.goal = NoGoal
  /\ at = "run" => frame.run.goal = NoGoal /\ asked.goal = NoGoal
  /\ at = "until" => frame.run.goal # NoGoal /\ asked.goal # NoGoal
  /\ next # NoRun => (next.goal = NoGoal <=> asked.goal = NoGoal)

\* next is taken before anything else is done.
NothingElse == at \notin {"idle", "exited"} => next = NoRun

Inv ==
  /\ Shape /\ OneStep /\ BetweenCalls /\ OnlyRetry /\ NothingElse
  /\ Kinds /\ StepsAreSomewhere /\ GoalIsSomewhere

\* The simulator as it is started.
LEMMA InitInv == Init => Inv
<1> SUFFICES ASSUME Init PROVE Inv
  OBVIOUS
<1>1. Shape
  <2>1. core \in [Harts -> Core]
    BY HartAssumption DEF Init, HartInit, Core
  <2>2. cur \in Harts
    BY HartAssumption DEF Init, HartInit, Harts
  <2>3. call \in [steps : Nat, n : Nat, instret : Nat, inner : BOOLEAN]
    BY DEF Init, HartInit, NoCall
  <2>4. QED
    BY <2>1, <2>2, <2>3 DEF Init, Shape, NoRun, Run, NoFrame, RunType
<1>2. QED
  BY <1>1 DEF Init, HartInit, Inv, OneStep, BetweenCalls, OnlyRetry, NothingElse, Kinds,
    StepsAreSomewhere, GoalIsSomewhere, Undisturbed, NoRun, Run

\* The hart that runs, and the next one, are harts.
LEMMA NextHartIsHart ==
  ASSUME cur \in Harts PROVE NextHart \in Harts
BY HartAssumption DEF NextHart, Harts

\* The counter of d is beyond that of c, or as far: its era or its value.
Ahead(d, c) == d.era > c.era \/ (d.era = c.era /\ d.mcycle > c.mcycle)
Level(d, c) == d.era = c.era /\ d.mcycle = c.mcycle

\* An instruction that is counted moves the counter on, one that is not does not.
LEMMA Bumped ==
  ASSUME NEW c \in Core, NEW n \in {0, 1}
  PROVE  LET d == Bump(c, n)
         IN  /\ d \in Core /\ d.serialized = c.serialized /\ d.pc = c.pc /\ d.epc = c.epc
             /\ d.mie = c.mie /\ d.mpie = c.mpie /\ d.wfi = c.wfi /\ d.lastPc = c.lastPc
             /\ n = 0 => Level(d, c)
             /\ n = 1 => Ahead(d, c)
<1> DEFINE d == Bump(c, n)
<1>1. CycleMod \in Nat /\ CycleMod >= 2
  BY HartAssumption
<1>2. c.mcycle \in 0..CycleMod - 1 /\ c.era \in Nat
  BY DEF Core
<1>3. CASE c.mcycle + n < CycleMod
  <2>1. c.mcycle + n \in 0..CycleMod - 1 /\ d = [c EXCEPT !.mcycle = c.mcycle + n]
    BY <1>1, <1>2, <1>3 DEF Bump
  <2>2. d.mcycle = c.mcycle + n /\ d.era = c.era
    BY <2>1 DEF Core
  <2>3. (n = 0 => Level(d, c)) /\ (n = 1 => Ahead(d, c))
    BY <1>2, <2>2 DEF Level, Ahead
  <2>4. QED
    BY <2>1, <2>3 DEF Core
<1>4. CASE ~(c.mcycle + n < CycleMod)
  <2>1. n = 1 /\ c.mcycle + n - CycleMod = 0
    BY <1>1, <1>2, <1>4
  <2>2. d = [c EXCEPT !.mcycle = 0, !.era = c.era + 1]
    BY <1>4, <2>1 DEF Bump
  <2>3. 0 \in 0..CycleMod - 1 /\ c.era + 1 \in Nat /\ c.era + 1 > c.era
    BY <1>1, <1>2
  <2>4. d.era = c.era + 1
    BY <2>2 DEF Core
  <2>5. Ahead(d, c)
    BY <2>3, <2>4 DEF Ahead
  <2>6. /\ d \in Core /\ d.serialized = c.serialized /\ d.pc = c.pc /\ d.epc = c.epc
        /\ d.mie = c.mie /\ d.mpie = c.mpie /\ d.wfi = c.wfi /\ d.lastPc = c.lastPc
    <3>1. PICK e \in Nat : e = c.era + 1
      BY <2>3
    <3>2. d = [c EXCEPT !.mcycle = 0, !.era = e]
      BY <2>2, <3>1
    <3> HIDE DEF d
    <3>3. QED
      BY <2>3, <3>2 DEF Core
  <2> HIDE DEF d
  <2>7. QED
    BY <2>1, <2>5, <2>6 DEF d
<1>5. QED
  BY <1>3, <1>4

\* What a CSR instruction may write.
LEMMA Writes ==
  ASSUME NEW c \in Core, NEW w \in CsrWrites(c)
  PROVE  /\ w \in Core /\ w.serialized = c.serialized /\ w.pc = c.pc /\ w.wfi = c.wfi
         /\ w.lastPc = c.lastPc
         /\ \/ w.epc = c.epc
            \/ w.epc \in Program[c.epc].to /\ w.mie = c.mie /\ w.mpie = c.mpie
         /\ Ahead(w, c) \/ Level(w, c)
<1>1. CASE w \in MStatusWrites(c)
  <2>1. PICK d \in BOOLEAN : w \in {[c EXCEPT !.mie = b, !.mpie = d] : b \in BOOLEAN}
    BY <1>1 DEF MStatusWrites
  <2>2. PICK b \in BOOLEAN : w = [c EXCEPT !.mie = b, !.mpie = d]
    BY <2>1
  <2>3. QED
    BY <2>2 DEF Core, Level
<1>2. CASE w \in MEpcWrites(c)
  <2>1. Program[c.epc].to \subseteq Pc
    BY HartAssumption DEF Core
  <2>2. QED
    BY <1>2, <2>1 DEF MEpcWrites, Core, Level
<1>3. CASE w \in {WriteMCycle(c, val) : val \in MCycleWrites}
  <2>1. PICK val \in MCycleWrites : w = WriteMCycle(c, val)
    BY <1>3
  <2>2. PICK m \in 0..CycleMod - 1 : m = IF val = 0 THEN CycleMod - 1 ELSE val - 1
    BY HartAssumption
  <2>3. w = [c EXCEPT !.mcycle = m, !.era = @ + 1]
    BY <2>1, <2>2 DEF WriteMCycle
  <2>4. PICK e \in Nat : e = c.era + 1 /\ e > c.era
    BY DEF Core
  <2>5. w = [c EXCEPT !.mcycle = m, !.era = e]
    BY <2>3, <2>4
  <2>6. w \in Core /\ w.era = e
    BY <2>5 DEF Core
  <2>7. Ahead(w, c)
    BY <2>4, <2>6 DEF Ahead
  <2>8. QED
    BY <2>5, <2>6, <2>7 DEF Core
<1>4. QED
  BY <1>1, <1>2, <1>3 DEF CsrWrites

\* What an inner loop that ends leaves behind, if its hart is still a hart and
\* had no attempt under way, or goes on with the same call to the next attempt.
LEMMA InnerEnds ==
  ASSUME Inv, call # NoCall, NEW c \in Core, NEW p, NEW instret \in {0, 1}, NEW n \in {0, 1},
         EndInner(c, p, instret, n), ~c.serialized, instret >= n
  PROVE  /\ core' \in [Harts -> Core] /\ cur' \in Harts
         /\ call' = NoCall
         /\ \A h \in Harts : ~core'[h].serialized
<1>1. core' = [core EXCEPT ![cur] = Bump(c, instret)] /\ EndStep(p)
  BY DEF EndInner
<1>2. Bump(c, instret) \in Core /\ ~Bump(c, instret).serialized
  BY Bumped
<1>3. cur' \in Harts
  BY <1>1, NextHartIsHart DEF EndStep, Inv, Shape
<1>4. ASSUME NEW h \in Harts PROVE ~core'[h].serialized
  <2>1. CASE h = cur
    BY <1>1, <1>2, <2>1 DEF Inv, Shape
  <2>2. CASE h # cur
    BY <1>1, <2>2 DEF Inv, Shape, OnlyRetry
  <2>3. QED
    BY <2>1, <2>2
<1>5. QED
  BY <1>1, <1>2, <1>3, <1>4 DEF EndStep, Inv, Shape

\* In one step of a hart, an instruction that does not serialize ends the call.
LEMMA AdvanceEnds ==
  ASSUME Inv, call # NoCall, NEW c \in Core, NEW p, Advance(c, p), ~c.serialized
  PROVE  /\ core' \in [Harts -> Core] /\ cur' \in Harts
         /\ call' = NoCall
         /\ \A h \in Harts : ~core'[h].serialized
<1>1. call.instret = 0 /\ call.n = 1
  BY DEF Inv, OneStep
<1>2. EndInner(c, p, 1, 1)
  BY <1>1 DEF Advance
<1>3. QED
  BY <1>2, InnerEnds

\* What is left between the attempts: nothing the program does is lost, and only
\* the second attempt can follow.
LEMMA HartInv ==
  ASSUME Inv, HartNext, UNCHANGED <<console, ghosts>>
  PROVE  Inv'
<1>1. call # NoCall /\ call.n = 1 /\ call.instret = 0 /\ ~call.inner
  <2>1. Busy
    BY DEF HartNext, TakeInterrupt, Wait, FetchFault, Plain, Clint, SerializeBefore,
      Csr, CsrFault, Wfi, TrapInsn, Mret, Executes, Runs
  <2>2. call # NoCall
    BY <2>1 DEF Busy, NoCall
  <2>3. QED
    BY <2>2 DEF Inv, OneStep
<1>2. at \notin {"idle", "prompt"}
  BY <1>1 DEF Inv, BetweenCalls
<1>3. ASSUME core' \in [Harts -> Core], cur' \in Harts, call' = NoCall,
             \A h \in Harts : ~core'[h].serialized
      PROVE  Inv'
  <2>1. Shape'
    BY <1>3 DEF Inv, Shape, NoCall, console, ghosts
  <2>2. StepsAreSomewhere' /\ GoalIsSomewhere' /\ Kinds'
    BY <1>2 DEF Inv, Kinds, StepsAreSomewhere, GoalIsSomewhere, Undisturbed, ActualSteps,
      console, ghosts
  <2>3. QED
    BY <1>3, <2>1, <2>2 DEF Inv, OneStep, BetweenCalls, OnlyRetry, NothingElse, console
<1>4. This \in Core /\ cur \in Harts
  BY DEF Inv, Shape, This
<1>5. Decoded \in Core /\ Decoded.serialized = This.serialized /\ Decoded.pc = This.pc
      /\ Decoded.wfi = FALSE /\ Decoded.mie = This.mie
  BY <1>4 DEF Decoded, Core
<1>6. ASSUME NEW op \in Op, Runs(op), op \notin CsrOp PROVE ~This.serialized
  BY <1>4, <1>6 DEF Inv, OnlyRetry, Runs, At, This
<1>7. \A a \in Pc : Program[a].to \subseteq Pc
  BY HartAssumption
<1>8. At.to \subseteq Pc
  BY <1>4, <1>7 DEF At, Core
<1>9. ASSUME NEW c \in Core PROVE Trapped(c) \in Core /\ Trapped(c).serialized = c.serialized
  BY HartAssumption DEF Trapped, Core
<1>10. CASE TakeInterrupt
  <2> DEFINE c == [Trapped(This) EXCEPT !.wfi = FALSE]
  <2>1. ~This.serialized
    BY <1>4, <1>10 DEF TakeInterrupt, Interrupted, Inv, OnlyRetry, This
  <2>2. c \in Core /\ ~c.serialized
    BY <1>4, <1>9, <2>1 DEF Core
  <2>3. EndInner(c, pending, 0, 0)
    BY <1>10 DEF TakeInterrupt
  <2> HIDE DEF c
  <2>4. QED
    BY <1>1, <1>3, <2>2, <2>3, InnerEnds
<1>11. CASE Wait
  <2>1. ~This.serialized
    BY <1>4, <1>11 DEF Wait, Waiting, Inv, OnlyRetry, This
  <2>2. EndInner(This, pending, 1, 1)
    BY <1>1, <1>11 DEF Wait
  <2>3. QED
    BY <1>1, <1>3, <1>4, <2>1, <2>2, InnerEnds
<1>12. CASE FetchFault
  <2> DEFINE c == [Trapped(This) EXCEPT !.wfi = FALSE]
  <2>1. ~This.serialized
    BY <1>6, <1>12 DEF FetchFault, Op, CsrOp
  <2>2. c \in Core /\ ~c.serialized
    BY <1>4, <1>9, <2>1 DEF Core
  <2>3. EndInner(c, pending, 0, 0)
    BY <1>1, <1>12 DEF FetchFault
  <2> HIDE DEF c
  <2>4. QED
    BY <1>1, <1>3, <2>2, <2>3, InnerEnds
<1>13. CASE Plain
  <2>1. PICK a \in At.to : Advance([Decoded EXCEPT !.pc = a], pending)
    BY <1>13 DEF Plain
  <2>2. ~This.serialized
    BY <1>6, <1>13 DEF Plain, Executes, Op, CsrOp
  <2>3. [Decoded EXCEPT !.pc = a] \in Core /\ ~[Decoded EXCEPT !.pc = a].serialized
    BY <1>5, <1>8, <2>2 DEF Core
  <2>4. QED
    BY <1>1, <1>3, <2>1, <2>3, AdvanceEnds
<1>14. CASE Clint
  <2>1. PICK a \in At.to, h \in Harts : \E p \in {pending \cup {h}, pending \ {h}} :
          Advance([Decoded EXCEPT !.pc = a], p)
    BY <1>14 DEF Clint
  <2>2. ~This.serialized
    BY <1>6, <1>14 DEF Clint, Executes, Op, CsrOp
  <2>3. [Decoded EXCEPT !.pc = a] \in Core /\ ~[Decoded EXCEPT !.pc = a].serialized
    BY <1>5, <1>8, <2>2 DEF Core
  <2>4. PICK p \in {pending \cup {h}, pending \ {h}} : Advance([Decoded EXCEPT !.pc = a], p)
    BY <2>1
  <2> DEFINE c == [Decoded EXCEPT !.pc = a]
  <2>5. c \in Core /\ ~c.serialized /\ Advance(c, p)
    BY <2>3, <2>4
  <2> HIDE DEF c
  <2>6. QED
    BY <1>1, <1>3, <2>5, AdvanceEnds
<1>15. CASE SerializeBefore
  <2> DEFINE c == [Decoded EXCEPT !.serialized = TRUE]
  <2>1. c \in Core /\ c.pc = This.pc /\ ~c.wfi /\ c.mie = This.mie
    BY <1>5 DEF Core
  <2>2. /\ core' = [core EXCEPT ![cur] = Bump(c, 0)]
        /\ call' = [call EXCEPT !.n = 1, !.instret = 0, !.inner = FALSE]
        /\ pending' = pending /\ cur' = cur
    BY <1>1, <1>15 DEF SerializeBefore, EndInner
  <2> HIDE DEF c
  <2>3. /\ Bump(c, 0) \in Core /\ Bump(c, 0).pc = c.pc /\ Bump(c, 0).wfi = c.wfi
        /\ Bump(c, 0).mie = c.mie
    BY <2>1, Bumped
  <2>4. core' \in [Harts -> Core]
    BY <2>2, <2>3 DEF Inv, Shape
  <2>5. call' # NoCall /\ call'.steps = 1 /\ call'.n = 1 /\ call'.instret = 0
        /\ call'.inner = FALSE
        /\ call' \in [steps : Nat, n : Nat, instret : Nat, inner : BOOLEAN]
    BY <1>1, <2>2 DEF Inv, Shape, OneStep, NoCall
  <2>6. ASSUME NEW h \in Harts, core'[h].serialized
        PROVE  /\ h = cur' /\ Program[core'[h].pc].op \in CsrOp /\ core'[h].wfi = FALSE
               /\ ~(h \in pending' /\ core'[h].mie)
    <3>1. CASE h = cur
      <4>1. core'[h].pc = This.pc /\ core'[h].wfi = FALSE /\ core'[h].mie = This.mie
        BY <2>1, <2>2, <2>3, <3>1, <1>4 DEF Inv, Shape
      <4>2. At.op \in CsrOp /\ ~Interrupted
        BY <1>15 DEF SerializeBefore, Runs
      <4>3. QED
        BY <1>1, <2>2, <3>1, <4>1, <4>2 DEF At, Interrupted
    <3>2. CASE h # cur
      BY <2>2, <2>6, <3>2 DEF Inv, Shape, OnlyRetry
    <3>3. QED
      BY <3>1, <3>2
  <2>7. Shape'
    BY <2>2, <2>4, <2>5, <1>4 DEF Inv, Shape, console, ghosts
  <2>8. StepsAreSomewhere' /\ GoalIsSomewhere' /\ Kinds'
    BY <1>2 DEF Inv, Kinds, StepsAreSomewhere, GoalIsSomewhere, Undisturbed, ActualSteps,
      console, ghosts
  <2>9. QED
    BY <1>2, <2>5, <2>6, <2>7, <2>8 DEF Inv, OneStep, BetweenCalls, OnlyRetry, NothingElse,
      console
<1>16. CASE Csr
  <2>1. PICK a \in At.to, p \in CsrPending, c \in CsrWrites(Validated(Decoded)) :
          EndInner([c EXCEPT !.pc = a], p, Retired, call.n)
    BY <1>16 DEF Csr
  <2>2. Validated(Decoded) \in Core /\ ~Validated(Decoded).serialized
    BY <1>5 DEF Validated, Core
  <2>3. c \in Core /\ ~c.serialized
    BY <2>1, <2>2, Writes
  <2>4. [c EXCEPT !.pc = a] \in Core /\ ~[c EXCEPT !.pc = a].serialized
    BY <1>8, <2>1, <2>3 DEF Core
  <2>5. EndInner([c EXCEPT !.pc = a], p, 1, 1)
    BY <1>1, <2>1 DEF Retired
  <2> DEFINE d == [c EXCEPT !.pc = a]
  <2>6. d \in Core /\ ~d.serialized /\ EndInner(d, p, 1, 1)
    BY <2>4, <2>5
  <2> HIDE DEF d
  <2>7. QED
    BY <1>1, <1>3, <2>6, InnerEnds
<1>17. CASE CsrFault
  <2>1. Validated(Decoded) \in Core /\ ~Validated(Decoded).serialized
    BY <1>5 DEF Validated, Core
  <2> DEFINE c == Trapped(Validated(Decoded))
  <2>2. c \in Core /\ ~c.serialized
    BY <1>9, <2>1
  <2>3. EndInner(c, pending, 0, 0)
    BY <1>1, <1>17 DEF CsrFault
  <2> HIDE DEF c
  <2>4. QED
    BY <1>1, <1>3, <2>2, <2>3, InnerEnds
<1>18. CASE Wfi
  <2>1. PICK a \in At.to : EndInner([Decoded EXCEPT !.pc = a, !.wfi = TRUE], pending,
                                    call.instret + 1, call.instret + 1)
    BY <1>18 DEF Wfi
  <2> DEFINE c == [Decoded EXCEPT !.pc = a, !.wfi = TRUE]
  <2>2. ~This.serialized
    BY <1>6, <1>18 DEF Wfi, Executes, Op, CsrOp
  <2>3. c \in Core /\ ~c.serialized
    BY <1>5, <1>8, <2>2 DEF Core
  <2>4. EndInner(c, pending, 1, 1)
    BY <1>1, <2>1
  <2> HIDE DEF c
  <2>5. QED
    BY <1>1, <1>3, <2>3, <2>4, InnerEnds
<1>19. CASE TrapInsn
  <2>1. ~This.serialized
    BY <1>6, <1>19 DEF TrapInsn, Executes, Op, CsrOp
  <2>2. EndInner(Trapped(Decoded), pending, 0, 0)
    BY <1>1, <1>19 DEF TrapInsn
  <2>3. Trapped(Decoded) \in Core /\ ~Trapped(Decoded).serialized
    BY <1>5, <1>9, <2>1
  <2>4. QED
    BY <1>1, <1>3, <2>2, <2>3, InnerEnds
<1>20. CASE Mret
  <2> DEFINE c == [Decoded EXCEPT !.pc = This.epc, !.mie = This.mpie, !.mpie = TRUE]
  <2>1. ~This.serialized
    BY <1>6, <1>20 DEF Mret, Executes, Op, CsrOp
  <2>2. c \in Core /\ ~c.serialized
    BY <1>4, <1>5, <2>1 DEF Core
  <2>3. EndInner(c, pending, 1, 1)
    BY <1>1, <1>20 DEF Mret, Retired
  <2> HIDE DEF c
  <2>4. QED
    BY <1>1, <1>3, <2>2, <2>3, InnerEnds
<1>21. QED
  BY <1>10, <1>11, <1>12, <1>13, <1>14, <1>15, <1>16, <1>17, <1>18, <1>19, <1>20 DEF HartNext

\* A run begins, with what was asked for.
LEMMA CallInv ==
  ASSUME Inv, NEW run \in RunType, Call(run), call = NoCall, UNCHANGED <<idleHarts, call>>,
         next' = NoRun, ctrlc' \in BOOLEAN, typed' \in BOOLEAN, ran' \in Nat, asked' \in RunType,
         run.goal = NoGoal <=> asked'.goal = NoGoal,
         Undisturbed' => ~ctrlc' /\ run.goal = asked'.goal,
         Undisturbed' /\ run.goal = NoGoal => ran' + run.steps = asked'.steps
  PROVE  Inv'
<1>1. INTERLEAVE \in Nat
  BY HartAssumption
<1>2. /\ frame' = [run |-> run, i |-> 0]
      /\ at' = IF run.goal = NoGoal THEN "run" ELSE "until"
  BY DEF Call
<1>3. Shape' /\ OnlyRetry'
  <2>1. frame' \in [run : RunType, i : Nat] /\ at' \in {"run", "until"}
    BY <1>2
  <2>2. NoRun \in RunType
    BY DEF NoRun, Run, RunType
  <2>3. UNCHANGED <<core, pending, cur, call>>
    BY DEF idleHarts
  <2>4. QED
    BY <2>1, <2>2, <2>3 DEF Inv, Shape, OnlyRetry
<1>4. ActualSteps' \in Nat
  BY <1>1, <1>2 DEF ActualSteps, Smaller, RunType
<1>5. StepsAreSomewhere' /\ GoalIsSomewhere' /\ Kinds'
  BY <1>2, <1>4 DEF StepsAreSomewhere, GoalIsSomewhere, Kinds, RunType
<1>6. QED
  BY <1>2, <1>3, <1>5 DEF Inv, OneStep, BetweenCalls, NothingElse

\* A chunk ends, with the rest in next or with what was asked for.
LEMMA ReturnInv ==
  ASSUME Inv, NEW more \in BOOLEAN, NEW run \in RunType, Return(more, run),
         at \in {"run", "until"}, call = NoCall, UNCHANGED <<hartVars, ghosts>>,
         more => run # NoRun, run.goal = NoGoal <=> asked.goal = NoGoal,
         more /\ Undisturbed => run.goal = asked.goal,
         more /\ Undisturbed /\ asked.goal = NoGoal => ran + run.steps = asked.steps,
         ~more /\ Undisturbed =>
           IF asked.goal = NoGoal THEN ran = asked.steps ELSE Reached(asked.goal)
  PROVE  Inv'
<1>1. next = NoRun
  BY DEF Inv, NothingElse
<1>2. /\ next' = IF more THEN run ELSE NoRun
      /\ at' = IF typed /\ ~more THEN "prompt" ELSE "idle"
      /\ ctrlc' = IF typed /\ more THEN FALSE ELSE ctrlc
      /\ frame' = NoFrame /\ typed' = FALSE
  BY <1>1 DEF Return
<1>3. Shape' /\ OnlyRetry'
  <2>1. NoRun \in RunType
    BY DEF NoRun, Run, RunType
  <2>2. QED
    BY <1>2, <2>1 DEF Inv, Shape, OnlyRetry, hartVars, ghosts, NoFrame
<1>4. Kinds'
  BY <1>2 DEF Inv, Kinds, Undisturbed, ghosts
<1>5. UNCHANGED <<asked, ran, pressed, stale>> /\ (Reached(asked.goal) => Reached(asked.goal)')
  BY DEF ghosts, hartVars, Reached
<1>6. StepsAreSomewhere' /\ GoalIsSomewhere'
  BY <1>2, <1>5 DEF StepsAreSomewhere, GoalIsSomewhere, Undisturbed
<1>7. QED
  BY <1>2, <1>3, <1>4, <1>6 DEF Inv, OneStep, BetweenCalls, NothingElse, hartVars

\* A step of a run is asked for.
LEMMA StartInv ==
  ASSUME Inv, call = NoCall, StartStep(1), UNCHANGED idleHarts,
         at' \in {"run", "until", "enter"}, next = NoRun, UNCHANGED <<next, ctrlc, typed>>,
         frame' \in [run : RunType, i : Nat], ran' \in Nat, asked' \in RunType,
         Kinds', StepsAreSomewhere', GoalIsSomewhere'
  PROVE  Inv'
<1>1. call' = [steps |-> 1, n |-> 1, instret |-> 0, inner |-> FALSE] /\ call' # NoCall
  BY DEF StartStep, NoCall
<1>2. Shape'
  BY <1>1 DEF Inv, Shape, idleHarts
<1>3. OnlyRetry'
  BY DEF Inv, OnlyRetry, idleHarts
<1>4. QED
  BY <1>1, <1>2, <1>3 DEF Inv, OneStep, BetweenCalls, NothingElse

\* What the user can type is a run.
LEMMA CommandTypes == Commands \subseteq RunType
<1>1. ASSUME NEW noisy \in BOOLEAN, NEW n \in Counts PROVE Run(noisy, n) \in RunType
  BY ConsoleAssumption DEF Run, RunType
<1>2. ASSUME NEW noisy \in BOOLEAN, NEW goal \in Goals PROVE Until(noisy, goal) \in RunType
  BY ConsoleAssumption DEF Until, RunType
<1>3. Hits \subseteq Goals
  BY DEF Hits
<1>4. ASSUME NEW run \in Commands PROVE run \in RunType
  <2>1. \/ \E noisy \in BOOLEAN, n \in Counts : run = Run(noisy, n)
        \/ \E goal \in Goals : run = Until(FALSE, goal)
        \/ \E goal \in Hits : run = Until(TRUE, goal)
    BY <1>4 DEF Commands, Run, Until
  <2>2. QED
    BY <1>1, <1>2, <1>3, <2>1
<1>5. QED
  BY <1>4

\* The commands, the chunks of a run and CTRL+C.
LEMMA NextInv == Inv /\ [Next]_vars => Inv'
<1> SUFFICES ASSUME Inv, [Next]_vars PROVE Inv'
  OBVIOUS
<1>1. INTERLEAVE \in Nat /\ Counts \subseteq Nat /\ Goals \subseteq Goal /\ NoGoal \notin Goal
  BY HartAssumption, ConsoleAssumption
<1>2. CASE Interactive
  <2>0. UNCHANGED <<idleHarts, call, ghosts>> /\ at = "idle" /\ ctrlc' = FALSE /\ next' = NoRun
    BY <1>2 DEF Interactive
  <2>1. call = NoCall /\ next \in RunType
    BY <2>0 DEF Inv, BetweenCalls, Shape
  <2>2. CASE ~ctrlc /\ next # NoRun
    <3>1. Call(next) /\ typed' = FALSE
      BY <1>2, <2>2 DEF Interactive
    <3>2. next.goal = NoGoal <=> asked'.goal = NoGoal
      BY <2>0, <2>2 DEF Inv, Kinds, ghosts
    <3>3. ASSUME Undisturbed'
          PROVE  /\ next.goal = asked'.goal
                 /\ next.goal = NoGoal => ran' + next.steps = asked'.steps
      BY <2>0, <2>2, <3>2, <3>3 DEF Inv, StepsAreSomewhere, GoalIsSomewhere, Undisturbed, ghosts
    <3>4. asked' \in RunType /\ ran' \in Nat
      BY <2>0 DEF Inv, Shape, ghosts
    <3>5. QED
      BY <2>0, <2>1, <3>1, <3>2, <3>3, <3>4, CallInv
  <2>3. CASE ~(~ctrlc /\ next # NoRun)
    <3>1. at' = "prompt" /\ UNCHANGED <<frame, typed, debug>>
      BY <1>2, <2>3 DEF Interactive
    <3>2. Shape' /\ OnlyRetry'
      BY <2>0, <3>1 DEF Inv, Shape, OnlyRetry, NoRun, Run, RunType, idleHarts, ghosts
    <3>3. Undisturbed => next = NoRun
      BY <2>3 DEF Inv, Kinds
    <3>4. UNCHANGED <<asked, ran, pressed, stale>> /\ (Reached(asked.goal) => Reached(asked.goal)')
      BY <2>0 DEF ghosts, idleHarts, Reached
    <3>5. StepsAreSomewhere' /\ GoalIsSomewhere' /\ Kinds'
      BY <2>0, <3>1, <3>3, <3>4 DEF Inv, StepsAreSomewhere, GoalIsSomewhere, Kinds, Undisturbed
    <3>6. QED
      BY <2>0, <2>1, <3>1, <3>2, <3>5 DEF Inv, OneStep, BetweenCalls, NothingElse
  <2>4. QED
    BY <2>2, <2>3
<1>3. ASSUME NEW run \in Commands, Command(run) PROVE Inv'
  <2>1. run \in RunType
    BY <1>3, CommandTypes
  <2>2. /\ at = "prompt" /\ Call(run) /\ typed' = TRUE /\ ran' = 0 /\ asked' = run /\ stale' = ctrlc
        /\ UNCHANGED <<idleHarts, call, ctrlc, next>>
    BY <1>3 DEF Command, Typed
  <2>3. next' = NoRun /\ call = NoCall /\ ctrlc' \in BOOLEAN
    BY <2>2 DEF Inv, NothingElse, BetweenCalls, Shape
  <2>4. ran' + run.steps = asked'.steps
    BY <2>1, <2>2 DEF RunType
  <2>5. Undisturbed' => ~ctrlc'
    BY <2>2 DEF Undisturbed
  <2>6. QED
    BY <2>1, <2>2, <2>3, <2>4, <2>5, CallInv
<1>4. CASE Enter
  <2>1. /\ at = "prompt" /\ at' = "enter" /\ asked' = Run(TRUE, 1) /\ stale' = ctrlc /\ ran' = 1
        /\ StartStep(1) /\ UNCHANGED <<idleHarts, ctrlc, next, frame, typed>>
    BY <1>4 DEF Enter, Typed
  <2>2. next = NoRun /\ call = NoCall
    BY <2>1 DEF Inv, NothingElse, BetweenCalls
  <2>3. asked' \in RunType /\ asked'.goal = NoGoal /\ asked'.steps = 1
    BY <2>1 DEF Run, RunType
  <2>4. Kinds' /\ StepsAreSomewhere' /\ GoalIsSomewhere'
    BY <2>1, <2>2, <2>3 DEF Inv, Kinds, StepsAreSomewhere, GoalIsSomewhere, Undisturbed
  <2>5. frame' \in [run : RunType, i : Nat]
    BY <2>1 DEF Inv, Shape
  <2>6. QED
    BY <2>1, <2>2, <2>3, <2>4, <2>5, StartInv
<1>5. CASE EnterEnds
  <2>1. /\ at = "enter" /\ call = NoCall /\ at' = "idle" /\ ctrlc' = FALSE
        /\ UNCHANGED <<hartVars, next, frame, typed, ghosts>>
    BY <1>5 DEF EnterEnds
  <2>2. Shape' /\ OnlyRetry'
    BY <2>1 DEF Inv, Shape, OnlyRetry, hartVars, ghosts
  <2>3. next = NoRun /\ asked.goal = NoGoal
    BY <2>1 DEF Inv, NothingElse, Kinds
  <2>4. Kinds' /\ StepsAreSomewhere' /\ GoalIsSomewhere'
    BY <2>1, <2>3 DEF Inv, Kinds, StepsAreSomewhere, GoalIsSomewhere, Undisturbed, ghosts
  <2>5. QED
    BY <2>1, <2>2, <2>3, <2>4 DEF Inv, OneStep, BetweenCalls, NothingElse, hartVars
<1>6. CASE RunStep
  <2>1. /\ at = "run" /\ call = NoCall /\ frame.i < ActualSteps
        /\ frame' = [frame EXCEPT !.i = @ + 1] /\ ran' = ran + 1 /\ StartStep(1)
        /\ UNCHANGED <<idleHarts, debug, at, ctrlc, next, typed, asked, pressed, stale, runs>>
    BY <1>6 DEF RunStep, Loops
  <2>2. /\ next = NoRun /\ asked.goal = NoGoal /\ frame.run.goal = NoGoal
        /\ frame \in [run : RunType, i : Nat] /\ ran \in Nat
    BY <2>1 DEF Inv, NothingElse, Kinds, Shape
  <2>3. frame' \in [run : RunType, i : Nat] /\ frame'.i = frame.i + 1 /\ frame'.run = frame.run
    BY <2>1, <2>2
  <2>4. ActualSteps' = ActualSteps /\ ActualSteps \in Nat
    BY <1>1, <2>2, <2>3 DEF ActualSteps, Smaller, RunType
  <2>5. Kinds' /\ GoalIsSomewhere'
    BY <2>1, <2>2, <2>3 DEF Inv, Kinds, GoalIsSomewhere, Undisturbed
  <2>6. StepsAreSomewhere'
    BY <2>1, <2>2, <2>3, <2>4 DEF Inv, Shape, RunType, StepsAreSomewhere, Undisturbed
  <2>7. ran' \in Nat /\ asked' \in RunType
    BY <2>1, <2>2 DEF Inv, Shape
  <2>8. QED
    BY <2>1, <2>2, <2>3, <2>5, <2>6, <2>7, StartInv
<1>7. CASE RunEnds
  <2>1. /\ at = "run" /\ call = NoCall /\ ~Loops /\ UNCHANGED <<hartVars, ghosts>>
        /\ Return(ActualSteps < frame.run.steps, Run(frame.run.noisy, Rest))
    BY <1>7 DEF RunEnds
  <2>2. frame \in [run : RunType, i : Nat] /\ ran \in Nat /\ asked \in RunType
    BY DEF Inv, Shape
  <2>3. asked.goal = NoGoal
    BY <2>1 DEF Inv, Kinds
  <2>4. ActualSteps \in Nat /\ ActualSteps <= frame.run.steps /\ Rest \in Nat
        /\ frame.run.steps \in Nat /\ frame.i \in Nat
        /\ (ActualSteps < frame.run.steps => Rest > 0)
    BY <1>1, <2>2 DEF ActualSteps, Smaller, Rest, RunType
  <2>5. ASSUME Undisturbed PROVE ran + Rest = asked.steps
    <3>1. frame.i = ActualSteps
      BY <2>1, <2>2, <2>3, <2>4, <2>5 DEF Inv, Kinds, StepsAreSomewhere, Loops
    <3>2. ran + (frame.run.steps - frame.i) = asked.steps
      BY <2>1, <2>3, <2>5 DEF Inv, StepsAreSomewhere
    <3>3. QED
      BY <3>1, <3>2 DEF Rest
  <2> DEFINE run == Run(frame.run.noisy, Rest)
             more == ActualSteps < frame.run.steps
  <2>6. run \in RunType /\ run.goal = NoGoal /\ run.steps = Rest /\ (more => run # NoRun)
    BY <2>2, <2>4 DEF Run, NoRun, RunType
  <2>7. ~more /\ Undisturbed => ran = asked.steps
    BY <2>2, <2>4, <2>5 DEF Rest, RunType
  <2>8. Return(more, run) /\ more \in BOOLEAN
    BY <2>1
  <2> HIDE DEF run, more
  <2>9. QED
    BY <2>1, <2>3, <2>5, <2>6, <2>7, <2>8, ReturnInv
<1>8. CASE UntilStep
  <2>1. /\ at = "until" /\ call = NoCall
        /\ frame' = [frame EXCEPT !.i = @ + 1] /\ ran' = ran + 1 /\ StartStep(1)
        /\ UNCHANGED <<idleHarts, at, ctrlc, next, typed, asked, pressed, stale, runs>>
    BY <1>8 DEF UntilStep
  <2>2. /\ next = NoRun /\ asked.goal # NoGoal
        /\ frame \in [run : RunType, i : Nat] /\ ran \in Nat
    BY <2>1 DEF Inv, NothingElse, Kinds, Shape
  <2>3. frame' \in [run : RunType, i : Nat] /\ frame'.run = frame.run
    BY <2>1, <2>2
  <2>4. Kinds' /\ GoalIsSomewhere' /\ StepsAreSomewhere'
    BY <2>1, <2>2, <2>3 DEF Inv, Kinds, GoalIsSomewhere, StepsAreSomewhere, Undisturbed
  <2>5. ran' \in Nat /\ asked' \in RunType
    BY <2>1, <2>2 DEF Inv, Shape
  <2>6. QED
    BY <2>1, <2>2, <2>3, <2>4, <2>5, StartInv
<1>9. CASE UntilEnds
  <2> DEFINE more == frame.i = INTERLEAVE
  <2>1. /\ at = "until" /\ call = NoCall /\ UNCHANGED <<hartVars, ghosts>>
        /\ more \/ Reached(frame.run.goal) \/ ctrlc
        /\ Return(more, frame.run) /\ more \in BOOLEAN
    BY <1>9 DEF UntilEnds
  <2>2. frame.run \in RunType
    BY DEF Inv, Shape
  <2>3. asked.goal # NoGoal /\ frame.run.goal # NoGoal
    BY <2>1 DEF Inv, Kinds
  <2>4. ASSUME Undisturbed PROVE frame.run.goal = asked.goal /\ ~ctrlc
    BY <2>1, <2>3, <2>4 DEF Inv, Kinds, GoalIsSomewhere
  <2>5. frame.run # NoRun
    BY <2>3 DEF NoRun, Run
  <2> HIDE DEF more
  <2>6. QED
    BY <2>1, <2>2, <2>3, <2>4, <2>5, ReturnInv
<1>10. CASE CtrlC
  <2>1. /\ UNCHANGED <<hartVars, next, frame, typed, ran, asked, stale, runs>> /\ pressed'
        /\ (at' = at \/ at' = "exited") /\ ctrlc' \in BOOLEAN
    BY <1>10 DEF CtrlC, Inv, Shape
  <2>2. Shape' /\ OnlyRetry'
    BY <2>1 DEF Inv, Shape, OnlyRetry, hartVars
  <2>3. Kinds' /\ StepsAreSomewhere' /\ GoalIsSomewhere'
    BY <2>1 DEF Inv, Kinds, StepsAreSomewhere, GoalIsSomewhere, Undisturbed
  <2>4. QED
    BY <2>1, <2>2, <2>3 DEF Inv, OneStep, BetweenCalls, NothingElse, hartVars
<1>11. CASE Quit
  <2>1. /\ at = "prompt" /\ at' = "exited"
        /\ UNCHANGED <<hartVars, ctrlc, next, frame, typed, ghosts>>
    BY <1>11 DEF Quit
  <2>2. Shape' /\ OnlyRetry'
    BY <2>1 DEF Inv, Shape, OnlyRetry, hartVars, ghosts
  <2>3. Kinds' /\ StepsAreSomewhere' /\ GoalIsSomewhere'
    BY <2>1 DEF Inv, Kinds, StepsAreSomewhere, GoalIsSomewhere, Undisturbed, ghosts
  <2>4. QED
    BY <2>1, <2>2, <2>3 DEF Inv, OneStep, BetweenCalls, NothingElse, hartVars
<1>12. CASE HartNext /\ UNCHANGED <<console, ghosts>>
  BY <1>12, HartInv
<1>13. CASE UNCHANGED vars
  BY <1>13 DEF vars, hartVars, console, ghosts, ActualSteps, Inv, Shape, OneStep, BetweenCalls,
    OnlyRetry, NothingElse, Kinds, StepsAreSomewhere, GoalIsSomewhere, Undisturbed, Reached
<1>14. CASE \E run \in Commands : Command(run)
  BY <1>3, <1>14
<1>15. QED
  BY <1>2, <1>14, <1>4, <1>5, <1>6, <1>7, <1>8, <1>9, <1>10, <1>11, <1>12, <1>13 DEF Next

\* The invariant holds in every reachable state.
LEMMA Invariance == Spec => []Inv
BY InitInv, NextInv, PTL DEF Spec

\* Between calls of processor_t::step, serialized is never set: `debug &&
\* !state.serialized` lets every instruction that is executed noisily be written.
THEOREM CsrAccessesEnd == Spec => []NoneSerialized
<1>1. Inv => NoneSerialized
  BY DEF Inv, OnlyRetry, NoneSerialized
<1>2. QED
  BY <1>1, Invariance, PTL

\* A run cut into chunks of INTERLEAVE (interactive_run) takes the steps that
\* were asked for, for every count.
THEOREM RunsAreCounted == Spec => []CountIsKept
<1>1. Inv => CountIsKept
  BY DEF Inv, StepsAreSomewhere, Undisturbed, CountIsKept, Settled
<1>2. QED
  BY <1>1, Invariance, PTL

\* A run until (or while) a hart is at an address (interactive_until), cut into
\* chunks the same way, comes back to the prompt only where it is so (is not).
THEOREM RunsReachTheirGoal == Spec => []GoalIsMet
<1>1. Inv => GoalIsMet
  BY DEF Inv, GoalIsSomewhere, Undisturbed, GoalIsMet, Settled, Reached
<1>2. QED
  BY <1>1, Invariance, PTL

\* CTRL+C in the later chunks of a run is not forgotten: interactive resets the
\* flag only together with what is left to run.
THEOREM CtrlCIsKept == Spec => CtrlCStopsChunks
<1>1. Inv /\ [Next]_vars => [ctrlc /\ ~ctrlc' => next' = NoRun \/ typed]_vars
  BY DEF Inv, NothingElse, Next, Interactive, Command, Enter, EnterEnds, RunStep, RunEnds,
    UntilStep, UntilEnds, Return, CtrlC, Quit, console
<1>2. QED
  BY <1>1, Invariance, PTL DEF Spec, CtrlCStopsChunks

----------------------------------------------------------------------------
\* The trace file of a session in interactive mode.


LastOf(s) == s[Len(s)]

\* last_pc is the instruction executed last; between the attempts of a CSR
\* access it is ahead of it, and a line may have been written already.
LastLine ==
  \A h \in Harts :
    IF core[h].serialized /\ debug
    THEN /\ core[h].lastPc = core[h].pc
         /\ executed[h] # core[h].pc =>
              file # <<>> /\ LastOf(file).hart = h /\ LastOf(file).pc = core[h].pc
    ELSE executed[h] = core[h].lastPc

Traps(a) == Program[a].op \in {"trap", "badcsr"}

\* Of a line and a hart: the counter of the hart was before, or is still, as in the line.
Past(l, c) == l.era < c.era \/ (l.era = c.era /\ l.cycle < c.mcycle)
Same(l, c) == l.era = c.era /\ l.cycle = c.mcycle

\* No line is ahead of its hart, and one that is as far is not counted yet.
CycleBound ==
  \A k \in DOMAIN file :
    LET c == core[file[k].hart]
    IN  \/ Past(file[k], c)
        \/ Same(file[k], c) /\ (Traps(file[k].pc) \/ (c.serialized /\ c.pc = file[k].pc))

TraceInv == TypeOK /\ LastLine /\ CycleBound /\ CyclesAdvance

\* What the last iteration of an inner loop leaves behind.
Leaves(d, p) ==
  /\ d \in Core /\ ~d.serialized
  /\ core' = [core EXCEPT ![cur] = d]
  /\ \A h \in Harts : ~core'[h].serialized
  /\ cur' \in Harts /\ call' = NoCall /\ currentStep' \in 0..INTERLEAVE - 1
  /\ \E fired \in SUBSET Harts : pending' = p \cup fired

LEMMA InnerLeaves ==
  ASSUME Inv, TraceInv, call # NoCall, NEW c \in Core, NEW p, NEW instret \in {0, 1}, NEW n \in {0, 1},
         EndInner(c, p, instret, n), ~c.serialized, instret >= n
  PROVE  Leaves(Bump(c, instret), p)
<1> DEFINE d == Bump(c, instret)
<1>1. core' = [core EXCEPT ![cur] = d] /\ EndStep(p)
  BY DEF EndInner
<1>2. d \in Core /\ ~d.serialized
  BY Bumped
<1>3. cur' \in Harts /\ call' = NoCall /\ \A h \in Harts : ~core'[h].serialized
  BY InnerEnds
<1>4. currentStep' \in 0..INTERLEAVE - 1
  <2>1. call.steps = 1 /\ currentStep \in 0..INTERLEAVE - 1 /\ INTERLEAVE \in Nat \ {0}
    BY HartAssumption DEF Inv, OneStep, TraceInv, TypeOK, HartTypeOK
  <2>2. currentStep' = (currentStep + 1) % INTERLEAVE
    BY <1>1, <2>1 DEF EndStep
  <2>3. QED
    BY <2>1, <2>2
<1>5. \E fired \in SUBSET Harts : pending' = p \cup fired
  <2>1. CASE \E fired \in SUBSET Harts : pending' = p \cup fired
    BY <2>1
  <2>2. CASE pending' = p
    <3>1. {} \in SUBSET Harts /\ pending' = p \cup {}
      BY <2>2
    <3>2. QED
      BY <3>1
  <2>3. QED
    BY <1>1, <2>1, <2>2 DEF EndStep
<1> HIDE DEF d
<1>6. QED
  BY <1>1, <1>2, <1>3, <1>4, <1>5 DEF Leaves, d

LEMMA CountedLeaves ==
  ASSUME Inv, TraceInv, call # NoCall, NEW c \in Core, NEW p, EndInner(c, p, 1, 1), ~c.serialized
  PROVE  Leaves(Bump(c, 1), p)
<1>1. 1 \in {0, 1} /\ 1 >= 1
  OBVIOUS
<1>2. QED
  BY <1>1, InnerLeaves

LEMMA UncountedLeaves ==
  ASSUME Inv, TraceInv, call # NoCall, NEW c \in Core, NEW p, EndInner(c, p, 0, 0), ~c.serialized
  PROVE  Leaves(Bump(c, 0), p)
<1>1. 0 \in {0, 1} /\ 0 >= 0
  OBVIOUS
<1>2. QED
  BY <1>1, InnerLeaves

LEMMA AdvanceLeaves ==
  ASSUME Inv, TraceInv, call # NoCall, NEW c \in Core, NEW p, Advance(c, p), ~c.serialized
  PROVE  Leaves(Bump(c, 1), p)
<1>1. call.instret = 0 /\ call.n = 1
  BY DEF Inv, OneStep
<1>2. EndInner(c, p, 1, 1)
  BY <1>1 DEF Advance
<1>3. QED
  BY <1>2, CountedLeaves

Line  == [hart : Harts, cycle : 0..CycleMod - 1, era : Nat, pc : Pc]
Entry == [hart : Harts, pc : Pc]

\* The projection of a file to its first n lines.
Lines(f, n) == [k \in 1..n |-> [hart |-> f[k].hart, pc |-> f[k].pc]]

LEMMA LinesType ==
  ASSUME NEW f \in Seq(Line), NEW n \in 0..Len(f)
  PROVE  Lines(f, n) \in Seq(Entry) /\ Len(Lines(f, n)) = n
<1>1. Len(f) \in Nat /\ n \in Nat
  BY LenProperties
<1>2. \A k \in 1..n : f[k] \in Line
  BY <1>1, ElementOfSeq
<1>3. Lines(f, n) \in [1..n -> Entry]
  BY <1>2 DEF Lines, Line, Entry
<1>4. Lines(f, n) \in Seq(Entry)
  BY <1>1, <1>3, SeqDef
<1>5. QED
  BY <1>1, <1>3, <1>4, LenProperties

\* The last line of a file is the last entry of its projection.
LEMMA LinesOfFile ==
  ASSUME NEW f \in Seq(Line), f # <<>>
  PROVE  Lines(f, Len(f)) =
           Append(Lines(f, Len(f) - 1), [hart |-> LastOf(f).hart, pc |-> LastOf(f).pc])
<1> DEFINE n == Len(f) - 1
           l == [hart |-> LastOf(f).hart, pc |-> LastOf(f).pc]
           s == Lines(f, n)
<1>1. n \in Nat /\ n + 1 = Len(f) /\ n \in 0..Len(f) /\ n + 1 \in 0..Len(f) /\ Len(f) \in 1..Len(f)
  BY EmptySeq
<1>2. LastOf(f) \in Line
  BY <1>1, ElementOfSeq DEF LastOf
<1>3. l \in Entry /\ l = [hart |-> f[n + 1].hart, pc |-> f[n + 1].pc]
  BY <1>1, <1>2 DEF Line, Entry, LastOf
<1>4. s = Lines(f, n)
  OBVIOUS
<1> HIDE DEF n, l, s
<1>5. s \in Seq(Entry) /\ Len(s) = n
  BY <1>1, <1>4, LinesType
<1>6. Lines(f, n + 1) \in Seq(Entry) /\ Len(Lines(f, n + 1)) = n + 1
  BY <1>1, LinesType
<1>7. /\ Append(s, l) \in Seq(Entry) /\ Len(Append(s, l)) = n + 1
      /\ \A k \in 1..n : Append(s, l)[k] = s[k]
      /\ Append(s, l)[n + 1] = l
  BY <1>3, <1>5, AppendProperties
<1>8. ASSUME NEW k \in 1..n + 1 PROVE Lines(f, n + 1)[k] = Append(s, l)[k]
  <2>1. CASE k = n + 1
    BY <1>1, <1>3, <1>7, <2>1 DEF Lines
  <2>2. CASE k # n + 1
    <3>1. k \in 1..n
      BY <1>1, <2>2
    <3>2. s[k] = [hart |-> f[k].hart, pc |-> f[k].pc]
      BY <1>4, <3>1 DEF Lines
    <3>3. Lines(f, n + 1)[k] = [hart |-> f[k].hart, pc |-> f[k].pc]
      BY <1>8 DEF Lines
    <3>4. QED
      BY <1>7, <3>1, <3>2, <3>3
  <2>3. QED
    BY <2>1, <2>2
<1>9. Lines(f, n + 1) = Append(s, l)
  BY <1>6, <1>7, <1>8, SeqEqual
<1>10. QED
  BY <1>1, <1>9 DEF n, l, s

\* A line that is appended leaves the ones before it.
LEMMA LinesOfPrefix ==
  ASSUME NEW f \in Seq(Line), NEW e \in Line
  PROVE  /\ Append(f, e) \in Seq(Line) /\ Append(f, e) # <<>>
         /\ Len(f) \in Nat /\ Len(Append(f, e)) = Len(f) + 1 /\ LastOf(Append(f, e)) = e
         /\ DOMAIN f = 1..Len(f) /\ DOMAIN Append(f, e) = 1..Len(f) + 1
         /\ \A k \in 1..Len(f) : Append(f, e)[k] = f[k]
         /\ Lines(Append(f, e), Len(f)) = Lines(f, Len(f))
<1>1. Append(f, e) \in Seq(Line) /\ Len(f) \in Nat /\ DOMAIN f = 1..Len(f)
  BY AppendProperties, LenProperties
<1>2. /\ Len(Append(f, e)) = Len(f) + 1 /\ Append(f, e)[Len(f) + 1] = e
      /\ \A k \in 1..Len(f) : Append(f, e)[k] = f[k]
  BY AppendProperties
<1>3. DOMAIN Append(f, e) = 1..Len(f) + 1
  BY <1>1, <1>2, LenProperties
<1>4. Append(f, e) # <<>>
  BY <1>1, <1>2, EmptySeq
<1>5. Lines(Append(f, e), Len(f)) = Lines(f, Len(f))
  BY <1>2 DEF Lines
<1>6. QED
  BY <1>1, <1>2, <1>3, <1>4, <1>5 DEF LastOf

\* When no hart is between the attempts of a CSR access, the log is the file.
LEMMA LogIsFile == ASSUME ~This.serialized PROVE Log = Lines(file, Len(file))
BY DEF Log, Finished, Unfinished, Lines

ThisLine == [hart |-> cur, cycle |-> This.mcycle, era |-> This.era, pc |-> This.pc]

LEMMA ThisTypes ==
  ASSUME TraceInv
  PROVE  /\ core \in [Harts -> Core] /\ cur \in Harts /\ This \in Core /\ This = core[cur]
         /\ ThisLine \in Line /\ file \in Seq(Line)
         /\ DOMAIN file = 1..Len(file) /\ Len(file) \in Nat
         /\ \A k \in DOMAIN file : file[k] \in Line
         /\ pending \subseteq Harts /\ executed \in [Harts -> Pc \cup {NoPc}]
<1>1. core \in [Harts -> Core] /\ cur \in Harts /\ file \in Seq(Line)
      /\ pending \subseteq Harts /\ executed \in [Harts -> Pc \cup {NoPc}]
  BY DEF TraceInv, TypeOK, HartTypeOK, Line
<1>2. This \in Core /\ ThisLine \in Line
  BY <1>1 DEF This, ThisLine, Line, Core
<1>3. QED
  BY <1>1, <1>2, LenProperties, ElementOfSeq DEF This

\* A step that writes nothing keeps the order of the lines.
LEMMA CyclesUnwritten ==
  ASSUME TraceInv, NEW d \in Core, core' = [core EXCEPT ![cur] = d], file' = file,
         \/ Ahead(d, This)
         \/ Level(d, This) /\ (~This.serialized \/ Traps(This.pc))
  PROVE  CycleBound' /\ CyclesAdvance'
<1>1. CyclesAdvance'
  BY DEF TraceInv, CyclesAdvance
<1>2. ASSUME NEW k \in DOMAIN file
      PROVE  LET c == core'[file[k].hart]
             IN  \/ Past(file[k], c)
                 \/ Same(file[k], c) /\ (Traps(file[k].pc) \/ (c.serialized /\ c.pc = file[k].pc))
  <2>1. file[k].hart \in Harts /\ file[k].cycle \in Nat /\ file[k].era \in Nat
    BY <1>2, ThisTypes DEF Line
  <2>2. CASE file[k].hart = cur
    <3>1. core'[cur] = d
      BY ThisTypes
    <3>2. {d.mcycle, This.mcycle, d.era, This.era} \subseteq Nat
      BY ThisTypes DEF Core
    <3>3. \/ Past(file[k], This)
          \/ Same(file[k], This)
             /\ (Traps(file[k].pc) \/ (This.serialized /\ This.pc = file[k].pc))
      BY <2>2, <1>2, ThisTypes DEF TraceInv, CycleBound
    <3>4. Past(file[k], d) \/ (Same(file[k], d) /\ Traps(file[k].pc))
      BY <3>2, <3>3, <2>1 DEF Past, Same, Ahead, Level
    <3>5. QED
      BY <2>2, <3>1, <3>4
  <2>3. CASE file[k].hart # cur
    <3>1. core'[file[k].hart] = core[file[k].hart]
      BY <2>1, <2>3, ThisTypes
    <3>2. QED
      BY <3>1, <1>2 DEF TraceInv, CycleBound
  <2>4. QED
    BY <2>2, <2>3
<1>3. QED
  BY <1>1, <1>2 DEF CycleBound

\* So does one that writes the line of the instruction, if that is counted, or
\* traps, or is to be tried again.
LEMMA CyclesWritten ==
  ASSUME TraceInv, NEW d \in Core, core' = [core EXCEPT ![cur] = d],
         file' = Append(file, ThisLine), ~This.serialized,
         \/ Ahead(d, This)
         \/ Level(d, This) /\ (Traps(This.pc) \/ (d.serialized /\ d.pc = This.pc))
  PROVE  CycleBound' /\ CyclesAdvance'
<1> DEFINE n == Len(file)
<1>1. /\ n \in Nat /\ DOMAIN file = 1..n /\ DOMAIN file' = 1..n + 1 /\ file'[n + 1] = ThisLine
      /\ \A k \in 1..n : file'[k] = file[k]
  BY ThisTypes, LinesOfPrefix DEF LastOf
<1> HIDE DEF n
<1>2. core'[cur] = d /\ {d.mcycle, This.mcycle, d.era, This.era} \subseteq Nat
  BY ThisTypes DEF Core
<1>3. ASSUME NEW k \in 1..n, file[k].hart = cur
      PROVE  \/ Past(file[k], This)
             \/ Same(file[k], This) /\ Traps(file[k].pc)
  BY <1>1, <1>3, ThisTypes DEF TraceInv, CycleBound
<1>4. CyclesAdvance'
  <2> SUFFICES ASSUME NEW j \in 1..n + 1, NEW k \in 1..n + 1, j < k,
                      file'[j].hart = file'[k].hart, file'[j].era = file'[k].era
               PROVE  \/ file'[j].cycle < file'[k].cycle
                      \/ file'[j].cycle = file'[k].cycle /\ Program[file'[j].pc].op \in {"trap", "badcsr"}
    BY <1>1 DEF CyclesAdvance
  <2>1. j \in 1..n /\ file'[j] = file[j]
    BY <1>1
  <2>2. CASE k = n + 1
    <3>1. file[j].hart = cur /\ file[j].era = This.era /\ file'[k].cycle = This.mcycle
      BY <1>1, <2>1, <2>2 DEF ThisLine
    <3>2. \/ Past(file[j], This)
          \/ Same(file[j], This) /\ Traps(file[j].pc)
      BY <1>3, <2>1, <3>1
    <3>3. file[j].cycle < This.mcycle \/ (file[j].cycle = This.mcycle /\ Traps(file[j].pc))
      BY <1>2, <3>1, <3>2 DEF Past, Same
    <3>4. QED
      BY <2>1, <3>1, <3>3 DEF Traps
  <2>3. CASE k # n + 1
    <3>1. k \in 1..n /\ file'[k] = file[k]
      BY <1>1, <2>3
    <3>2. QED
      BY <1>1, <2>1, <3>1 DEF TraceInv, CyclesAdvance
  <2>4. QED
    BY <2>2, <2>3
<1>5. ASSUME NEW k \in 1..n + 1
      PROVE  LET c == core'[file'[k].hart]
             IN  \/ Past(file'[k], c)
                 \/ Same(file'[k], c)
                    /\ (Traps(file'[k].pc) \/ (c.serialized /\ c.pc = file'[k].pc))
  <2>1. CASE k = n + 1
    BY <1>1, <1>2, <2>1 DEF ThisLine, Past, Same, Ahead, Level
  <2>2. CASE k # n + 1
    <3>1. /\ k \in 1..n /\ file'[k] = file[k] /\ file[k].hart \in Harts
          /\ file[k].cycle \in Nat /\ file[k].era \in Nat
      BY <1>1, <2>2, ThisTypes DEF Line
    <3>2. CASE file[k].hart = cur
      BY <1>2, <1>3, <3>1, <3>2 DEF Past, Same, Ahead, Level
    <3>3. CASE file[k].hart # cur
      <4>1. core'[file[k].hart] = core[file[k].hart]
        BY <3>1, <3>3, ThisTypes
      <4>2. QED
        BY <1>1, <3>1, <4>1 DEF TraceInv, CycleBound
    <3>4. QED
      BY <3>2, <3>3
  <2>3. QED
    BY <2>1, <2>2
<1>6. QED
  BY <1>1, <1>4, <1>5 DEF CycleBound

\* Types after an iteration, given those of the file and of the ghost.
LEMMA LeavesTypes ==
  ASSUME Inv, TraceInv, NEW d, NEW p \in SUBSET Harts, Leaves(d, p), UNCHANGED <<debug, console, ghosts>>,
         file' \in Seq(Line), executed' \in [Harts -> Pc \cup {NoPc}]
  PROVE  TypeOK'
<1>1. core' \in [Harts -> Core]
  BY ThisTypes DEF Leaves
<1>2. pending' \subseteq Harts
  BY DEF Leaves
<1>3. call' \in CallType
  BY HartAssumption DEF Leaves, NoCall, CallType
<1>4. HartTypeOK'
  BY <1>1, <1>2, <1>3 DEF Leaves, HartTypeOK, TraceInv, TypeOK, Line
<1>5. QED
  BY <1>4 DEF TraceInv, TypeOK, console, ghosts

\* An interrupt, a failed fetch or a step of waiting leaves the log alone.
LEMMA QuietTrace ==
  ASSUME Inv, TraceInv, NEW d, NEW p \in SUBSET Harts, Leaves(d, p), ~This.serialized,
         d.lastPc = This.lastPc, Ahead(d, This) \/ Level(d, This),
         UNCHANGED <<debug, file, executed, console, ghosts>>
  PROVE  TraceInv' /\ Log' = Log
<1>1. d \in Core /\ core' = [core EXCEPT ![cur] = d]
  BY DEF Leaves
<1>2. TypeOK'
  <2>1. UNCHANGED <<debug, console, ghosts>> /\ file' \in Seq(Line)
        /\ executed' \in [Harts -> Pc \cup {NoPc}]
    BY ThisTypes
  <2>2. QED
    BY <2>1, LeavesTypes
<1>3. CycleBound' /\ CyclesAdvance'
  BY <1>1, CyclesUnwritten
<1>4. LastLine'
  <2> SUFFICES ASSUME NEW h \in Harts PROVE executed'[h] = core'[h].lastPc
    BY DEF LastLine, Leaves
  <2>1. ~core[h].serialized
    <3>1. CASE h = cur
      BY <3>1, ThisTypes
    <3>2. CASE h # cur
      BY <3>2 DEF Inv, OnlyRetry
    <3>3. QED
      BY <3>1, <3>2
  <2>2. executed[h] = core[h].lastPc
    BY <2>1 DEF TraceInv, LastLine
  <2>3. QED
    BY <1>1, <2>2, ThisTypes
<1>5. Log' = Log
  <2>1. ~This'.serialized
    BY DEF This, Leaves
  <2>2. Log' = Lines(file, Len(file))'
    BY <2>1 DEF Log, Finished, Unfinished, Lines
  <2>3. QED
    BY <2>2, LogIsFile
<1>6. QED
  BY <1>2, <1>3, <1>4, <1>5 DEF TraceInv

\* An instruction that executes is noted.
LEMMA ExecutedTrace ==
  ASSUME Inv, TraceInv, NEW d, NEW p \in SUBSET Harts, Leaves(d, p), Disasm, Issue,
         d.lastPc = Decoded.lastPc,
         Ahead(d, This) \/ (Level(d, This) /\ Traps(This.pc)),
         UNCHANGED <<debug, console, ghosts>>
  PROVE  /\ TraceInv'
         /\ IF debug /\ executed[cur] # This.pc
            THEN /\ Log' = Append(Log, [hart |-> cur, pc |-> This.pc])
                 /\ executed' = [executed EXCEPT ![cur] = This.pc]
            ELSE UNCHANGED <<Log, executed>>
<1>1. d \in Core /\ core' = [core EXCEPT ![cur] = d] /\ This.pc \in Pc
  BY ThisTypes DEF Leaves, Core
<1>2. Log' = Lines(file', Len(file'))
  <2>1. ~This'.serialized
    BY DEF This, Leaves
  <2>2. QED
    BY <2>1 DEF Log, Finished, Unfinished, Lines
<1>3. executed' \in [Harts -> Pc \cup {NoPc}] /\ executed'[cur] = (IF debug THEN This.pc ELSE executed[cur])
      /\ \A h \in Harts : h # cur => executed'[h] = executed[h]
  BY <1>1, ThisTypes DEF Issue
<1>4. ASSUME file' \in Seq(Line), CycleBound' /\ CyclesAdvance',
             debug => d.lastPc = This.pc, ~debug => executed[cur] = d.lastPc
      PROVE  TraceInv'
  <2>1. LastLine'
    <3> SUFFICES ASSUME NEW h \in Harts PROVE executed'[h] = core'[h].lastPc
      BY DEF LastLine, Leaves
    <3>1. CASE h = cur
      BY <1>1, <1>3, <1>4, <3>1, ThisTypes
    <3>2. CASE h # cur
      <4>1. executed[h] = core[h].lastPc
        BY <3>2 DEF TraceInv, LastLine, Inv, OnlyRetry
      <4>2. QED
        BY <1>1, <1>3, <3>2, <4>1, ThisTypes
    <3>3. QED
      BY <3>1, <3>2
  <2>2. TypeOK'
    BY <1>3, <1>4, LeavesTypes
  <2>3. QED
    BY <1>4, <2>1, <2>2 DEF TraceInv
<1>5. ASSUME executed[cur] = This.pc \/ ~debug PROVE UNCHANGED executed
  BY <1>1, <1>5, ThisTypes DEF Issue
<1>6. CASE Decodes /\ This.lastPc # This.pc
  <2>1. debug /\ ~This.serialized /\ file' = Append(file, ThisLine) /\ d.lastPc = This.pc
    BY <1>1, <1>6, ThisTypes DEF Disasm, Decodes, Decoded, ThisLine, Core
  <2>2. executed[cur] = This.lastPc
    BY <2>1, ThisTypes DEF TraceInv, LastLine
  <2>3. CycleBound' /\ CyclesAdvance'
    BY <1>1, <2>1, CyclesWritten
  <2>4. /\ file' \in Seq(Line) /\ file' # <<>> /\ Len(file') = Len(file) + 1 /\ LastOf(file') = ThisLine
        /\ Len(file) \in Nat /\ Lines(file', Len(file)) = Lines(file, Len(file))
    BY <2>1, LinesOfPrefix, ThisTypes
  <2>5. Lines(file', Len(file')) =
          Append(Lines(file', Len(file') - 1), [hart |-> LastOf(file').hart, pc |-> LastOf(file').pc])
    BY <2>4, LinesOfFile
  <2>6. Len(file') - 1 = Len(file)
    BY <2>4
  <2>7. Log' = Append(Log, [hart |-> cur, pc |-> This.pc])
    BY <1>2, <2>1, <2>4, <2>5, <2>6, LogIsFile DEF ThisLine
  <2>8. TraceInv'
    BY <1>4, <2>1, <2>3, <2>4
  <2>9. executed' = [executed EXCEPT ![cur] = This.pc]
    BY <2>1 DEF Issue
  <2>10. QED
    BY <1>6, <2>1, <2>2, <2>7, <2>8, <2>9
<1>7. CASE ~(Decodes /\ This.lastPc # This.pc)
  <2>1. file' = file
    BY <1>7 DEF Disasm
  <2>2. CycleBound' /\ CyclesAdvance'
    BY <1>1, <2>1, CyclesUnwritten
  <2>3. d.lastPc = This.lastPc \/ d.lastPc = This.pc
    BY ThisTypes DEF Decoded, Core
  <2>4. debug => d.lastPc = This.pc
    <3>1. CASE debug /\ This.serialized
      <4>1. This.lastPc = This.pc
        BY <3>1, ThisTypes DEF TraceInv, LastLine
      <4>2. QED
        BY <2>3, <4>1
    <3>2. CASE debug /\ ~This.serialized
      BY <1>7, <2>3, <3>2 DEF Decodes
    <3>3. QED
      BY <3>1, <3>2
  <2>5. ~debug => executed[cur] = d.lastPc
    <3>1. ~debug => d.lastPc = This.lastPc
      BY ThisTypes DEF Decoded, Decodes, Core
    <3>2. QED
      BY <3>1, ThisTypes DEF TraceInv, LastLine
  <2>6. TraceInv'
    BY <1>4, <2>1, <2>2, <2>4, <2>5, ThisTypes
  <2>7. CASE ~This.serialized
    <3>1. UNCHANGED Log
      BY <1>2, <2>1, <2>7, LogIsFile
    <3>2. debug => executed[cur] = This.pc
      BY <1>7, <2>7, ThisTypes DEF Decodes, TraceInv, LastLine
    <3>3. QED
      BY <1>5, <2>6, <3>1, <3>2
  <2>8. CASE This.serialized /\ ~(debug /\ executed[cur] # This.pc)
    <3>1. UNCHANGED Log
      BY <1>2, <2>1, <2>8 DEF Log, Finished, Unfinished, Lines
    <3>2. QED
      BY <1>5, <2>6, <2>8, <3>1
  <2>9. CASE This.serialized /\ debug /\ executed[cur] # This.pc
    <3>1. file # <<>> /\ LastOf(file).hart = cur /\ LastOf(file).pc = This.pc
      BY <2>9, ThisTypes DEF TraceInv, LastLine
    <3>2. Log = Lines(file, Len(file) - 1)
      BY <2>9 DEF Log, Finished, Unfinished, Lines
    <3>3. Log' = Append(Log, [hart |-> cur, pc |-> This.pc])
      BY <1>2, <2>1, <3>1, <3>2, LinesOfFile, ThisTypes
    <3>4. QED
      BY <2>6, <2>9, <3>3 DEF Issue
  <2>10. QED
    BY <2>7, <2>8, <2>9
<1>8. QED
  BY <1>6, <1>7

LEMMA SeenAwake ==
  ASSUME NEW a \in Core, NEW b \in Core, b.pc = a.pc, b.epc = a.epc, b.mie = a.mie, b.mpie = a.mpie,
         ~b.wfi
  PROVE  Seen(b) = [Seen(a) EXCEPT !.wfi = FALSE]
<1> DEFINE S == [pc : Pc, epc : Pc, mie : BOOLEAN, mpie : BOOLEAN, wfi : BOOLEAN]
<1>1. /\ Seen(a) \in S /\ Seen(b) \in S /\ Seen(b).wfi = FALSE /\ Seen(b).pc = Seen(a).pc
      /\ Seen(b).epc = Seen(a).epc /\ Seen(b).mie = Seen(a).mie /\ Seen(b).mpie = Seen(a).mpie
  BY DEF Seen, Core
<1>2. QED
  BY <1>1

\* The first attempt of a CSR access wakes the hart, and its line is not part of
\* the log yet.
LEMMA AttemptTrace ==
  ASSUME Inv, TraceInv, SerializeBefore, call # NoCall, UNCHANGED <<console, ghosts>>
  PROVE  /\ TraceInv' /\ Log' = Log
         /\ UNCHANGED <<pending, debug, executed>>
         /\ State' = [State EXCEPT ![cur] = [Seen(This) EXCEPT !.wfi = FALSE]]
<1> DEFINE c == [Decoded EXCEPT !.serialized = TRUE]
           d == Bump(c, 0)
<1>1. call.n = 1 /\ call.instret = 0 /\ call.steps = 1 /\ call.inner = FALSE
  BY DEF Inv, OneStep
<1>2. /\ core' = [core EXCEPT ![cur] = d]
      /\ call' = [call EXCEPT !.n = 1, !.instret = 0, !.inner = FALSE]
      /\ UNCHANGED <<pending, cur, currentStep, debug, executed>>
      /\ Disasm /\ ~This.serialized
  BY <1>1 DEF SerializeBefore, EndInner
<1>3. /\ d \in Core /\ d.serialized /\ d.pc = This.pc /\ Level(d, This) /\ ~d.wfi
      /\ d.lastPc = (IF Decodes THEN This.pc ELSE This.lastPc)
      /\ d.epc = This.epc /\ d.mie = This.mie /\ d.mpie = This.mpie
      /\ Seen(d) = [Seen(This) EXCEPT !.wfi = FALSE]
  <2>1. /\ Decoded \in Core /\ Decoded.pc = This.pc /\ Level(Decoded, This) /\ ~Decoded.wfi
        /\ Decoded.lastPc = (IF Decodes THEN This.pc ELSE This.lastPc)
        /\ Decoded.epc = This.epc /\ Decoded.mie = This.mie /\ Decoded.mpie = This.mpie
    BY ThisTypes DEF Core, Decoded, Level
  <2>2. /\ d \in Core /\ d.serialized /\ d.pc = This.pc /\ Level(d, This) /\ ~d.wfi
        /\ d.lastPc = Decoded.lastPc
        /\ d.epc = This.epc /\ d.mie = This.mie /\ d.mpie = This.mpie
    <3>1. /\ c \in Core /\ c.serialized /\ c.pc = This.pc /\ Level(c, This) /\ ~c.wfi
          /\ c.lastPc = Decoded.lastPc
          /\ c.epc = This.epc /\ c.mie = This.mie /\ c.mpie = This.mpie
      BY <2>1 DEF Core, Level
    <3> HIDE DEF c
    <3>2. /\ d \in Core /\ d.serialized = c.serialized /\ d.pc = c.pc /\ d.epc = c.epc
          /\ d.mie = c.mie /\ d.mpie = c.mpie /\ d.wfi = c.wfi /\ d.lastPc = c.lastPc
          /\ Level(d, c)
      BY <3>1, Bumped
    <3>3. QED
      BY <3>1, <3>2 DEF Level
  <2> HIDE DEF d
  <2>4. Seen(d) = [Seen(This) EXCEPT !.wfi = FALSE]
    BY <2>2, SeenAwake, ThisTypes
  <2>5. QED
    BY <2>1, <2>2, <2>4
<1> HIDE DEF d
<1>4. core' \in [Harts -> Core] /\ core'[cur] = d /\ \A h \in Harts : h # cur => core'[h] = core[h]
  BY <1>2, <1>3, ThisTypes
<1>5. file' \in Seq(Line) /\ CycleBound' /\ CyclesAdvance'
  <2>1. CASE file' = file
    <3>1. Level(d, This) /\ ~This.serialized
      BY <1>2, <1>3
    <3>2. QED
      BY <1>2, <1>3, <2>1, <3>1, CyclesUnwritten, ThisTypes
  <2>2. CASE file' = Append(file, ThisLine)
    <3>1. Level(d, This) /\ d.serialized /\ d.pc = This.pc
      BY <1>3
    <3>2. QED
      BY <1>2, <1>3, <2>2, <3>1, CyclesWritten, ThisTypes, LinesOfPrefix
  <2>3. QED
    BY <1>2, <2>1, <2>2 DEF Disasm, ThisLine
<1>6. TypeOK'
  <2>1. call' \in CallType
    BY <1>1, <1>2 DEF TraceInv, TypeOK, HartTypeOK, CallType
  <2>2. HartTypeOK'
    BY <1>2, <1>4, <1>5, <2>1 DEF TraceInv, TypeOK, HartTypeOK, Line
  <2>3. QED
    BY <2>2 DEF TraceInv, TypeOK, console, ghosts
<1>7. \A h \in Harts : executed[h] = core[h].lastPc
  BY <1>2, ThisTypes DEF TraceInv, LastLine, Inv, OnlyRetry
<1>8. IF debug /\ executed[cur] # This.pc
      THEN /\ file' = Append(file, ThisLine) /\ file' # <<>> /\ LastOf(file') = ThisLine
           /\ Len(file') = Len(file) + 1 /\ Len(file) \in Nat
           /\ Lines(file', Len(file)) = Lines(file, Len(file))
      ELSE file' = file
  <2>1. IF debug /\ executed[cur] # This.pc THEN file' = Append(file, ThisLine) ELSE file' = file
    BY <1>2, <1>7, ThisTypes DEF Disasm, Decodes, ThisLine
  <2>2. QED
    BY <2>1, ThisTypes, LinesOfPrefix
<1>9. LastLine'
  <2> SUFFICES ASSUME NEW h \in Harts
               PROVE  IF core'[h].serialized /\ debug
                      THEN /\ core'[h].lastPc = core'[h].pc
                           /\ executed[h] # core'[h].pc =>
                                file' # <<>> /\ LastOf(file').hart = h /\ LastOf(file').pc = core'[h].pc
                      ELSE executed[h] = core'[h].lastPc
    BY <1>2 DEF LastLine
  <2>1. CASE h = cur
    BY <1>2, <1>3, <1>4, <1>7, <1>8, <2>1, ThisTypes DEF Decodes, ThisLine
  <2>2. CASE h # cur
    BY <1>2, <1>4, <1>7, <2>2 DEF Inv, OnlyRetry
  <2>3. QED
    BY <2>1, <2>2
<1>10. Log' = Log
  <2>1. This' = d
    BY <1>2, <1>4, ThisTypes DEF This
  <2>2. Log = Lines(file, Len(file))
    BY <1>2, LogIsFile
  <2>3. CASE debug /\ executed[cur] # This.pc
    <3>1. Unfinished'
      BY <1>2, <1>3, <2>1, <2>3 DEF Unfinished
    <3>2. Len(file') - 1 = Len(file)
      BY <1>8, <2>3
    <3>3. Log' = Lines(file', Len(file))
      BY <3>1, <3>2 DEF Log, Finished, Lines
    <3>4. QED
      BY <1>8, <2>2, <2>3, <3>3
  <2>4. CASE ~(debug /\ executed[cur] # This.pc)
    <3>1. ~Unfinished'
      BY <1>2, <1>3, <2>1, <2>4 DEF Unfinished
    <3>2. Log' = Lines(file', Len(file'))
      BY <3>1 DEF Log, Finished, Lines
    <3>3. QED
      BY <1>8, <2>2, <2>4, <3>2
  <2>5. QED
    BY <2>3, <2>4
<1>11. State' = [State EXCEPT ![cur] = [Seen(This) EXCEPT !.wfi = FALSE]]
  BY <1>2, <1>3, <1>4, ThisTypes DEF State
<1>12. QED
  BY <1>2, <1>5, <1>6, <1>9, <1>10, <1>11 DEF TraceInv

\* Only the hart that runs changes.
LEMMA StateLeaves ==
  ASSUME TraceInv, NEW d, NEW p, Leaves(d, p)
  PROVE  State' = [State EXCEPT ![cur] = Seen(d)] /\ State[cur] = Seen(This)
BY ThisTypes DEF Leaves, State

\* An instruction that executes is a step of the machine.
LEMMA ExecuteMaps ==
  ASSUME Inv, TraceInv, NEW op \in Op, NEW d, NEW p \in M!Stored(cur, op), p \in SUBSET Harts,
         Executes(op), op # "hole", Leaves(d, p), ~call.inner,
         Seen(d) \in M!After(Seen(This)), d.lastPc = Decoded.lastPc,
         Ahead(d, This) \/ (Level(d, This) /\ Traps(This.pc)),
         UNCHANGED <<console, ghosts>>
  PROVE  TraceInv' /\ M!Next
<1>1. Disasm /\ Issue /\ UNCHANGED debug /\ ~Interrupted /\ ~Waiting /\ At.op = op
  BY DEF Executes, Runs
<1>2. /\ TraceInv'
      /\ IF debug /\ executed[cur] # This.pc
         THEN /\ Log' = Append(Log, [hart |-> cur, pc |-> This.pc])
              /\ executed' = [executed EXCEPT ![cur] = This.pc]
         ELSE UNCHANGED <<Log, executed>>
  <2>1. UNCHANGED <<debug, console, ghosts>>
    BY <1>1
  <2>2. QED
    BY <1>1, <2>1, ExecutedTrace
<1>3. State' = [State EXCEPT ![cur] = Seen(d)] /\ State[cur] = Seen(This)
  BY StateLeaves
<1>4. /\ Seen(This).pc = This.pc /\ Seen(This).mie = This.mie /\ Seen(This).wfi = This.wfi
      /\ Program[This.pc].op = op /\ cur \in M!Harts
  BY <1>1, ThisTypes DEF Seen, At, M!Harts, Harts
<1>5. M!Runnable(cur)
  BY <1>1, <1>3, <1>4 DEF M!Runnable, M!Interruptible, Interrupted, Waiting
<1>6. M!Note(cur)
  BY <1>2, <1>3, <1>4 DEF M!Note
<1>7. \E q \in M!Stored(cur, op) : M!Fires(q)
  BY DEF Leaves, M!Fires, M!Harts, Harts
<1>8. \E s \in M!After(State[cur]) : M!Becomes(cur, s)
  BY <1>3 DEF M!Becomes
<1>9. M!Execute(cur)
  BY <1>1, <1>3, <1>4, <1>5, <1>6, <1>7, <1>8 DEF M!Execute
<1>10. QED
  BY <1>2, <1>4, <1>9 DEF M!Next

\* What an instruction makes of a hart, by kinds of instructions.
MState == [pc : Pc, epc : Pc, mie : BOOLEAN, mpie : BOOLEAN, wfi : BOOLEAN]

LEMMA SeenFields ==
  ASSUME NEW c \in Core
  PROVE  /\ Seen(c) \in MState /\ Seen(c).pc = c.pc /\ Seen(c).epc = c.epc /\ Seen(c).mie = c.mie
         /\ Seen(c).mpie = c.mpie /\ Seen(c).wfi = c.wfi
BY DEF Seen, MState, Core

LEMMA AfterGoes ==
  ASSUME NEW c \in Core, NEW d \in Core, Program[c.pc].op \in {"plain", "clint"},
         d.pc \in Program[c.pc].to, d.epc = c.epc, d.mie = c.mie, d.mpie = c.mpie, ~d.wfi
  PROVE  Seen(d) \in M!After(Seen(c))
<1>0. /\ Seen(c) \in MState /\ Seen(c).pc = c.pc /\ Seen(c).epc = c.epc /\ Seen(c).mie = c.mie
      /\ Seen(c).mpie = c.mpie /\ Seen(c).wfi = c.wfi
      /\ Seen(d) \in MState /\ Seen(d).pc = d.pc /\ Seen(d).epc = d.epc /\ Seen(d).mie = d.mie
      /\ Seen(d).mpie = d.mpie /\ Seen(d).wfi = d.wfi
  BY SeenFields
<1>1. Seen(d) = [Seen(c) EXCEPT !.pc = d.pc, !.wfi = FALSE]
  BY <1>0 DEF MState
<1>2. M!After(Seen(c)) = M!Goes(Seen(c), Program[c.pc].to)
  BY <1>0 DEF M!After
<1>3. QED
  BY <1>1, <1>2 DEF M!Goes

LEMMA AfterWfi ==
  ASSUME NEW c \in Core, NEW d \in Core, Program[c.pc].op = "wfi",
         d.pc \in Program[c.pc].to, d.epc = c.epc, d.mie = c.mie, d.mpie = c.mpie, d.wfi
  PROVE  Seen(d) \in M!After(Seen(c))
<1>0. /\ Seen(c) \in MState /\ Seen(c).pc = c.pc /\ Seen(c).epc = c.epc /\ Seen(c).mie = c.mie
      /\ Seen(c).mpie = c.mpie /\ Seen(c).wfi = c.wfi
      /\ Seen(d) \in MState /\ Seen(d).pc = d.pc /\ Seen(d).epc = d.epc /\ Seen(d).mie = d.mie
      /\ Seen(d).mpie = d.mpie /\ Seen(d).wfi = d.wfi
  BY SeenFields
<1>1. Seen(d) = [Seen(c) EXCEPT !.pc = d.pc, !.wfi = TRUE]
  <2> DEFINE s == [Seen(c) EXCEPT !.pc = d.pc, !.wfi = TRUE]
  <2>1. /\ s \in MState /\ s.pc = d.pc /\ s.epc = c.epc /\ s.mie = c.mie /\ s.mpie = c.mpie
        /\ s.wfi = TRUE
    BY <1>0 DEF MState
  <2>2. Seen(d).wfi = TRUE
    BY <1>0 DEF MState
  <2> HIDE DEF s
  <2>3. Seen(d).wfi = s.wfi
    BY <2>1, <2>2, Zenon
  <2>4. Seen(d) = s
    BY <1>0, <2>1, <2>3 DEF MState
  <2>5. QED
    BY <2>4 DEF s
<1>2. M!After(Seen(c)) = {[Seen(c) EXCEPT !.pc = a, !.wfi = TRUE] : a \in Program[c.pc].to}
  BY <1>0 DEF M!After
<1>3. QED
  BY <1>1, <1>2

LEMMA AfterMret ==
  ASSUME NEW c \in Core, NEW d \in Core, Program[c.pc].op = "mret",
         d.pc = c.epc, d.epc = c.epc, d.mie = c.mpie, d.mpie, ~d.wfi
  PROVE  Seen(d) \in M!After(Seen(c))
<1>0. /\ Seen(c) \in MState /\ Seen(c).pc = c.pc /\ Seen(c).epc = c.epc /\ Seen(c).mie = c.mie
      /\ Seen(c).mpie = c.mpie /\ Seen(c).wfi = c.wfi
      /\ Seen(d) \in MState /\ Seen(d).pc = d.pc /\ Seen(d).epc = d.epc /\ Seen(d).mie = d.mie
      /\ Seen(d).mpie = d.mpie /\ Seen(d).wfi = d.wfi
  BY SeenFields
<1>1. Seen(d) = [Seen(c) EXCEPT !.pc = c.epc, !.mie = c.mpie, !.mpie = TRUE, !.wfi = FALSE]
  BY <1>0 DEF MState
<1>2. M!After(Seen(c)) = {[Seen(c) EXCEPT !.pc = c.epc, !.mie = c.mpie, !.mpie = TRUE, !.wfi = FALSE]}
  BY <1>0 DEF M!After
<1>3. QED
  BY <1>1, <1>2

LEMMA SeenTrapped ==
  ASSUME NEW c \in Core, NEW d \in Core,
         d.pc = Handler, d.epc = c.pc, ~d.mie, d.mpie = c.mie, ~d.wfi
  PROVE  Seen(d) = M!Trapped(Seen(c))
<1>0. /\ Seen(c) \in MState /\ Seen(c).pc = c.pc /\ Seen(c).epc = c.epc /\ Seen(c).mie = c.mie
      /\ Seen(c).mpie = c.mpie /\ Seen(c).wfi = c.wfi
      /\ Seen(d) \in MState /\ Seen(d).pc = d.pc /\ Seen(d).epc = d.epc /\ Seen(d).mie = d.mie
      /\ Seen(d).mpie = d.mpie /\ Seen(d).wfi = d.wfi
  BY SeenFields
<1>1. M!Trapped(Seen(c)) = [Seen(c) EXCEPT !.pc = Handler, !.epc = c.pc, !.mpie = c.mie, !.mie = FALSE, !.wfi = FALSE]
  BY <1>0 DEF M!Trapped
<1>2. d.mie = FALSE /\ d.wfi = FALSE
  BY DEF Core
<1>3. QED
  BY <1>0, <1>1, <1>2 DEF MState

LEMMA AfterTrap ==
  ASSUME NEW c \in Core, NEW d \in Core, Program[c.pc].op \in {"trap", "badcsr"},
         d.pc = Handler, d.epc = c.pc, ~d.mie, d.mpie = c.mie, ~d.wfi
  PROVE  Seen(d) \in M!After(Seen(c))
<1>0. /\ Seen(c) \in MState /\ Seen(c).pc = c.pc /\ Seen(c).epc = c.epc /\ Seen(c).mie = c.mie
      /\ Seen(c).mpie = c.mpie /\ Seen(c).wfi = c.wfi
      /\ Seen(d) \in MState /\ Seen(d).pc = d.pc /\ Seen(d).epc = d.epc /\ Seen(d).mie = d.mie
      /\ Seen(d).mpie = d.mpie /\ Seen(d).wfi = d.wfi
  BY SeenFields
<1>1. M!After(Seen(c)) = {M!Trapped(Seen(c))}
  BY <1>0 DEF M!After
<1>2. QED
  BY <1>1, SeenTrapped

LEMMA AfterCsr ==
  ASSUME NEW c \in Core, NEW d \in Core, Program[c.pc].op = "csr",
         d.pc \in Program[c.pc].to, ~d.wfi,
         \/ d.epc = c.epc
         \/ d.epc \in Program[c.epc].to /\ d.mie = c.mie /\ d.mpie = c.mpie
  PROVE  Seen(d) \in M!After(Seen(c))
<1>0. /\ Seen(c) \in MState /\ Seen(c).pc = c.pc /\ Seen(c).epc = c.epc /\ Seen(c).mie = c.mie
      /\ Seen(c).mpie = c.mpie /\ Seen(c).wfi = c.wfi
      /\ Seen(d) \in MState /\ Seen(d).pc = d.pc /\ Seen(d).epc = d.epc /\ Seen(d).mie = d.mie
      /\ Seen(d).mpie = d.mpie /\ Seen(d).wfi = d.wfi
  BY SeenFields
<1>1. Program[Seen(c).pc] = Program[c.pc]
  BY SeenFields
<1>2. M!After(Seen(c)) = UNION {M!Goes(s, Program[c.pc].to) : s \in M!Written(Seen(c))}
  BY <1>1 DEF M!After
<1>3. ASSUME NEW s \in M!Written(Seen(c)), Seen(d) = [s EXCEPT !.pc = d.pc, !.wfi = FALSE]
      PROVE  Seen(d) \in M!After(Seen(c))
  <2>1. Seen(d) \in M!Goes(s, Program[c.pc].to)
    BY <1>3 DEF M!Goes
  <2>2. QED
    BY <1>2, <2>1
<1>4. CASE d.epc = c.epc
  <2> DEFINE s == [Seen(c) EXCEPT !.mie = d.mie, !.mpie = d.mpie]
  <2>1. d.mie \in BOOLEAN /\ d.mpie \in BOOLEAN
    BY DEF Core
  <2>2. s \in M!Written(Seen(c))
    <3> DEFINE T(m) == {[Seen(c) EXCEPT !.mie = b, !.mpie = m] : b \in BOOLEAN}
    <3>1. s \in T(d.mpie)
      BY <2>1
    <3>2. M!MStatusWritten(Seen(c)) = UNION {T(m) : m \in BOOLEAN}
      BY DEF M!MStatusWritten
    <3> HIDE DEF T, s
    <3>3. s \in M!MStatusWritten(Seen(c))
      BY <2>1, <3>1, <3>2
    <3>4. QED
      BY <3>3 DEF M!Written
  <2>3. /\ s \in MState /\ s.pc = c.pc /\ s.epc = c.epc /\ s.mie = d.mie
        /\ s.mpie = d.mpie /\ s.wfi = c.wfi
    BY <2>1, <1>0 DEF MState
  <2> HIDE DEF s
  <2>4. Seen(d) = [s EXCEPT !.pc = d.pc, !.wfi = FALSE]
    BY <1>4, <2>3, <1>0 DEF MState
  <2>5. QED
    BY <1>3, <2>2, <2>4
<1>5. CASE d.epc \in Program[c.epc].to /\ d.mie = c.mie /\ d.mpie = c.mpie
  <2> DEFINE s == [Seen(c) EXCEPT !.epc = d.epc]
  <2>1. s \in M!Written(Seen(c))
    BY <1>5, SeenFields DEF M!Written
  <2>2. /\ s \in MState /\ s.pc = c.pc /\ s.epc = d.epc /\ s.mie = c.mie
        /\ s.mpie = c.mpie /\ s.wfi = c.wfi
    BY <1>0 DEF MState, Core
  <2> HIDE DEF s
  <2>3. Seen(d) = [s EXCEPT !.pc = d.pc, !.wfi = FALSE]
    BY <1>5, <2>2, <1>0 DEF MState
  <2>4. QED
    BY <1>3, <2>1, <2>3
<1>6. QED
  BY <1>4, <1>5

\* Every iteration of the loops of processor_t::step is a step of the machine, or
\* none.
LEMMA HartTrace ==
  ASSUME Inv, TraceInv, HartNext, UNCHANGED <<console, ghosts>>
  PROVE  TraceInv' /\ [M!Next]_(M!machineVars)
<1>1. call # NoCall /\ call.n = 1 /\ call.instret = 0 /\ ~call.inner
  <2>1. Busy
    BY DEF HartNext, TakeInterrupt, Wait, FetchFault, Plain, Clint, SerializeBefore,
      Csr, CsrFault, Wfi, TrapInsn, Mret, Executes, Runs
  <2>2. call # NoCall
    BY <2>1 DEF Busy, NoCall
  <2>3. QED
    BY <2>2 DEF Inv, OneStep
<1>2. This \in Core /\ cur \in Harts /\ pending \in SUBSET Harts /\ Harts = M!Harts
  BY ThisTypes DEF M!Harts, Harts
<1>3. /\ Decoded \in Core /\ Decoded.serialized = This.serialized /\ Decoded.pc = This.pc
      /\ ~Decoded.wfi /\ Decoded.mie = This.mie /\ Decoded.mpie = This.mpie
      /\ Decoded.epc = This.epc /\ Level(Decoded, This)
  BY <1>2 DEF Decoded, Core, Level
<1>4. ASSUME NEW op \in Op, Runs(op), op \notin CsrOp PROVE ~This.serialized
  BY <1>2, <1>4 DEF Inv, OnlyRetry, Runs, At, This
<1>5. At.to \subseteq Pc /\ At = Program[This.pc]
  BY <1>2, HartAssumption DEF At, Core
<1>6. ASSUME NEW c \in Core
      PROVE  /\ Trapped(c) \in Core /\ Trapped(c).serialized = c.serialized /\ Trapped(c).pc = Handler
             /\ Trapped(c).epc = c.pc /\ ~Trapped(c).mie /\ Trapped(c).mpie = c.mie
             /\ Trapped(c).wfi = c.wfi /\ Trapped(c).lastPc = c.lastPc
             /\ Level(c, This) => Level(Trapped(c), This)
  BY HartAssumption DEF Trapped, Core, Level
<1>7. ASSUME NEW c \in Core, NEW n \in {0, 1}, Level(c, This)
      PROVE  LET d == Bump(c, n)
             IN  /\ d \in Core /\ d.pc = c.pc /\ d.epc = c.epc /\ d.mie = c.mie
                 /\ d.mpie = c.mpie /\ d.wfi = c.wfi /\ d.lastPc = c.lastPc
                 /\ (n = 0 => Level(d, This)) /\ (n = 1 => Ahead(d, This))
  <2> DEFINE d == Bump(c, n)
  <2>1. /\ d \in Core /\ d.pc = c.pc /\ d.epc = c.epc /\ d.mie = c.mie
        /\ d.mpie = c.mpie /\ d.wfi = c.wfi /\ d.lastPc = c.lastPc
        /\ (n = 0 => Level(d, c)) /\ (n = 1 => Ahead(d, c))
    BY Bumped
  <2> HIDE DEF d
  <2>2. (n = 0 => Level(d, This)) /\ (n = 1 => Ahead(d, This))
    BY <1>7, <2>1 DEF Level, Ahead
  <2>3. QED
    BY <2>1, <2>2 DEF d
<1>8. State[cur] = Seen(This) /\ Seen(This).mie = This.mie /\ Seen(This).wfi = This.wfi
      /\ Seen(This).pc = This.pc
  BY <1>2, SeenFields DEF State, This
<1>9. {"plain", "clint", "wfi", "trap", "mret", "hole", "csr", "badcsr"} = Op
      /\ CsrOp = {"csr", "badcsr"}
  BY DEF Op, CsrOp
<1>10. \A op \in Op : pending \in M!Stored(cur, op)
  BY DEF M!Stored
<1>11. CASE TakeInterrupt
  <2> DEFINE c == [Trapped(This) EXCEPT !.wfi = FALSE]
             d == Bump(c, 0)
  <2>1. ~This.serialized /\ cur \in pending /\ This.mie /\ UNCHANGED <<debug, file, executed>>
    BY <1>2, <1>11 DEF TakeInterrupt, Interrupted, Inv, OnlyRetry, This
  <2>2. /\ c \in Core /\ ~c.serialized /\ c.pc = Handler /\ c.epc = This.pc /\ ~c.mie /\ c.mpie = This.mie
        /\ ~c.wfi /\ c.lastPc = This.lastPc /\ Level(c, This)
    <3>1. /\ Level(This, This) /\ Trapped(This).serialized = This.serialized
          /\ Trapped(This) \in Core
      BY <1>2, <1>6 DEF Level
    <3>2. QED
      BY <1>2, <1>6, <2>1, <3>1 DEF Core, Level
  <2>3. EndInner(c, pending, 0, 0)
    BY <1>11 DEF TakeInterrupt
  <2> HIDE DEF c
  <2>4. Leaves(d, pending)
    BY <1>1, <2>2, <2>3, UncountedLeaves
  <2>5. /\ d \in Core /\ Level(d, This) /\ d.pc = Handler /\ d.epc = This.pc /\ ~d.mie
        /\ d.mpie = This.mie /\ ~d.wfi /\ d.lastPc = This.lastPc
    BY <1>2, <1>7, <2>2 DEF Core, Level
  <2> HIDE DEF d
  <2>6. TraceInv' /\ Log' = Log
    BY <1>2, <2>1, <2>4, <2>5, QuietTrace
  <2>7. State' = [State EXCEPT ![cur] = M!Trapped(State[cur])]
    BY <1>2, <1>8, <2>4, <2>5, StateLeaves, SeenTrapped
  <2>8. M!Interrupt(cur)
    BY <1>2, <1>8, <2>1, <2>4, <2>6, <2>7
      DEF Leaves, M!Interrupt, M!Interruptible, M!Becomes, M!Fires
  <2>9. QED
    BY <1>2, <2>6, <2>8 DEF M!Next
<1>12. CASE Wait
  <2> DEFINE c == This
             d == Bump(c, 1)
  <2>1. ~This.serialized /\ UNCHANGED <<debug, file, executed>>
    BY <1>2, <1>12 DEF Wait, Waiting, Inv, OnlyRetry, This
  <2>2. EndInner(c, pending, 1, 1)
    BY <1>1, <1>12 DEF Wait
  <2>3. c \in Core /\ ~c.serialized /\ Level(c, This)
    BY <1>2, <2>1 DEF Level
  <2>4. /\ d \in Core /\ Ahead(d, This) /\ d.lastPc = This.lastPc
        /\ d.pc = This.pc /\ d.epc = This.epc /\ d.mie = This.mie /\ d.mpie = This.mpie
        /\ d.wfi = This.wfi
    BY <1>2, <1>7, <2>3
  <2> HIDE DEF c
  <2>5. Leaves(d, pending)
    BY <1>1, <2>2, <2>3, CountedLeaves
  <2> HIDE DEF d
  <2>6. TraceInv' /\ Log' = Log
    BY <1>2, <2>1, <2>5, <2>4, QuietTrace
  <2>7. State' = State
    <3>1. Seen(d) = Seen(This)
      BY <2>4 DEF Seen
    <3>2. State' = [State EXCEPT ![cur] = State[cur]]
      BY <1>8, <2>5, <3>1, StateLeaves
    <3>3. QED
      BY <3>2 DEF State
  <2>8. M!Devices
    BY <1>2, <2>1, <2>5, <2>6, <2>7 DEF Leaves, M!Devices, M!Fires
  <2>9. QED
    BY <2>6, <2>8 DEF M!Next
<1>13. CASE FetchFault
  <2> DEFINE c == [Trapped(This) EXCEPT !.wfi = FALSE]
             d == Bump(c, 0)
  <2>1. Runs("hole") /\ UNCHANGED <<debug, file, executed>>
    BY <1>13 DEF FetchFault
  <2>2. ~This.serialized
    BY <1>4, <1>9, <2>1
  <2>3. /\ c \in Core /\ ~c.serialized /\ c.pc = Handler /\ c.epc = This.pc /\ ~c.mie /\ c.mpie = This.mie
        /\ ~c.wfi /\ c.lastPc = This.lastPc /\ Level(c, This)
    BY <1>2, <1>6, <2>2 DEF Core, Level
  <2>4. EndInner(c, pending, 0, 0)
    BY <1>1, <1>13 DEF FetchFault
  <2> HIDE DEF c
  <2>5. Leaves(d, pending)
    BY <1>1, <2>3, <2>4, UncountedLeaves
  <2>6. /\ d \in Core /\ Level(d, This) /\ d.pc = Handler /\ d.epc = This.pc /\ ~d.mie
        /\ d.mpie = This.mie /\ ~d.wfi /\ d.lastPc = This.lastPc
    BY <1>2, <1>7, <2>3 DEF Core, Level
  <2> HIDE DEF d
  <2>7. TraceInv' /\ Log' = Log
    BY <1>2, <2>1, <2>2, <2>5, <2>6, QuietTrace
  <2>8. State' = [State EXCEPT ![cur] = M!Trapped(State[cur])]
    BY <1>2, <1>8, <2>5, <2>6, StateLeaves, SeenTrapped
  <2>9. M!Runnable(cur) /\ Program[State[cur].pc].op = "hole"
    BY <1>1, <1>5, <1>8, <2>1 DEF Runs, M!Runnable, M!Interruptible, Interrupted, Waiting
  <2>10. M!Fetch(cur)
    BY <1>2, <2>1, <2>5, <2>7, <2>8, <2>9 DEF Leaves, M!Fetch, M!Becomes, M!Fires
  <2>11. QED
    BY <1>2, <2>7, <2>10 DEF M!Next
<1>14. CASE Plain
  <2>1. PICK a \in At.to : Advance([Decoded EXCEPT !.pc = a], pending)
    BY <1>14 DEF Plain
  <2> DEFINE c == [Decoded EXCEPT !.pc = a]
             d == Bump(c, 1)
  <2>2. Executes("plain") /\ Runs("plain") /\ At.op = "plain"
    BY <1>14 DEF Plain, Executes, Runs
  <2>3. ~This.serialized
    BY <1>4, <1>9, <2>2
  <2>4. /\ c \in Core /\ ~c.serialized /\ c.pc = a /\ c.epc = This.epc /\ c.mie = This.mie
        /\ c.mpie = This.mpie /\ ~c.wfi /\ c.lastPc = Decoded.lastPc /\ Level(c, This)
    BY <1>3, <1>5, <2>1, <2>3 DEF Core, Level
  <2>5. Advance(c, pending)
    BY <2>1
  <2> HIDE DEF c
  <2>6. Leaves(d, pending)
    BY <1>1, <2>4, <2>5, AdvanceLeaves
  <2>7. /\ d \in Core /\ Ahead(d, This) /\ d.pc = a /\ d.epc = This.epc /\ d.mie = This.mie
        /\ d.mpie = This.mpie /\ ~d.wfi /\ d.lastPc = Decoded.lastPc
    BY <1>7, <2>4
  <2> HIDE DEF d
  <2>8. Seen(d) \in M!After(Seen(This))
    BY <1>2, <1>5, <2>1, <2>2, <2>7, AfterGoes
  <2>9. QED
    BY <1>1, <1>2, <1>9, <1>10, <2>2, <2>6, <2>7, <2>8, ExecuteMaps
<1>15. CASE Clint
  <2>1. PICK a \in At.to, h \in Harts : \E p \in {pending \cup {h}, pending \ {h}} :
          Advance([Decoded EXCEPT !.pc = a], p)
    BY <1>15 DEF Clint
  <2>2. PICK p \in {pending \cup {h}, pending \ {h}} : Advance([Decoded EXCEPT !.pc = a], p)
    BY <2>1
  <2> DEFINE c == [Decoded EXCEPT !.pc = a]
             d == Bump(c, 1)
  <2>3. Executes("clint") /\ Runs("clint") /\ At.op = "clint"
    BY <1>15 DEF Clint, Executes, Runs
  <2>4. ~This.serialized
    BY <1>4, <1>9, <2>3
  <2>5. /\ c \in Core /\ ~c.serialized /\ c.pc = a /\ c.epc = This.epc /\ c.mie = This.mie
        /\ c.mpie = This.mpie /\ ~c.wfi /\ c.lastPc = Decoded.lastPc /\ Level(c, This)
    BY <1>3, <1>5, <2>1, <2>4 DEF Core, Level
  <2>6. Advance(c, p)
    BY <2>2
  <2> HIDE DEF c
  <2>7. Leaves(d, p)
    BY <1>1, <2>5, <2>6, AdvanceLeaves
  <2>8. /\ d \in Core /\ Ahead(d, This) /\ d.pc = a /\ d.epc = This.epc /\ d.mie = This.mie
        /\ d.mpie = This.mpie /\ ~d.wfi /\ d.lastPc = Decoded.lastPc
    BY <1>7, <2>5
  <2> HIDE DEF d
  <2>9. Seen(d) \in M!After(Seen(This))
    BY <1>2, <1>5, <2>1, <2>3, <2>8, AfterGoes
  <2>10. p \in SUBSET Harts /\ p \in M!Stored(cur, "clint")
    BY <1>2, <2>1, <2>2 DEF M!Stored
  <2>11. QED
    BY <1>1, <1>9, <2>3, <2>7, <2>8, <2>9, <2>10, ExecuteMaps
<1>16. CASE SerializeBefore
  <2>1. /\ TraceInv' /\ Log' = Log /\ UNCHANGED <<pending, debug, executed>>
        /\ State' = [State EXCEPT ![cur] = [Seen(This) EXCEPT !.wfi = FALSE]]
    BY <1>1, <1>16, AttemptTrace
  <2>2. ~Interrupted /\ ~Waiting
    BY <1>16 DEF SerializeBefore, Runs
  <2>3. CASE This.wfi
    <3>1. M!Wake(cur)
      BY <1>1, <1>2, <1>8, <2>1, <2>2, <2>3
        DEF M!Wake, M!Runnable, M!Interruptible, M!Becomes, Interrupted, Waiting
    <3>2. QED
      BY <1>2, <2>1, <3>1 DEF M!Next
  <2>4. CASE ~This.wfi
    <3>1. Seen(This) = [Seen(This) EXCEPT !.wfi = FALSE]
      BY <1>2, <2>4, SeenAwake
    <3>2. State' = [State EXCEPT ![cur] = State[cur]]
      BY <1>8, <2>1, <3>1
    <3>3. State' = State
      BY <3>2 DEF State
    <3>4. QED
      BY <2>1, <3>3 DEF M!machineVars
  <2>5. QED
    BY <2>3, <2>4
<1>17. CASE Csr
  <2>1. PICK a \in At.to, p \in CsrPending, c \in CsrWrites(Validated(Decoded)) :
          EndInner([c EXCEPT !.pc = a], p, Retired, call.n)
    BY <1>17 DEF Csr
  <2>2. Executes("csr") /\ At.op = "csr"
    BY <1>17 DEF Csr, Executes, Runs
  <2> DEFINE v == Validated(Decoded)
  <2>3. /\ v \in Core /\ ~v.serialized /\ v.epc = This.epc /\ v.mie = This.mie
        /\ v.mpie = This.mpie /\ ~v.wfi /\ v.lastPc = Decoded.lastPc /\ Level(v, This)
    BY <1>3 DEF Validated, Core, Level
  <2>4. c \in CsrWrites(v)
    BY <2>1
  <2> HIDE DEF v
  <2>5. /\ c \in Core /\ ~c.serialized /\ ~c.wfi /\ c.lastPc = Decoded.lastPc
        /\ \/ c.epc = This.epc
           \/ c.epc \in Program[This.epc].to /\ c.mie = This.mie /\ c.mpie = This.mpie
        /\ Ahead(c, This) \/ Level(c, This)
    BY <2>3, <2>4, Writes DEF Ahead, Level
  <2> DEFINE e == [c EXCEPT !.pc = a]
             d == Bump(e, 1)
  <2>6. /\ e \in Core /\ ~e.serialized /\ ~e.wfi /\ e.pc = a /\ e.lastPc = Decoded.lastPc
        /\ \/ e.epc = This.epc
           \/ e.epc \in Program[This.epc].to /\ e.mie = This.mie /\ e.mpie = This.mpie
        /\ Ahead(e, This) \/ Level(e, This)
    BY <1>5, <2>1, <2>5 DEF Core, Ahead, Level
  <2>7. EndInner(e, p, 1, 1)
    BY <1>1, <2>1 DEF Retired
  <2> HIDE DEF e
  <2>8. Leaves(d, p)
    BY <1>1, <2>6, <2>7, CountedLeaves
  <2>9. /\ d \in Core /\ ~d.wfi /\ d.pc = a /\ d.lastPc = Decoded.lastPc
        /\ \/ d.epc = This.epc
           \/ d.epc \in Program[This.epc].to /\ d.mie = This.mie /\ d.mpie = This.mpie
        /\ Ahead(d, This)
    <3>1. /\ d \in Core /\ d.pc = e.pc /\ d.epc = e.epc /\ d.mie = e.mie /\ d.mpie = e.mpie
          /\ d.wfi = e.wfi /\ d.lastPc = e.lastPc /\ Ahead(d, e)
      BY <2>6, Bumped
    <3> HIDE DEF d
    <3>2. Ahead(d, This)
      BY <1>2, <2>6, <3>1 DEF Ahead, Level, Core
    <3>3. QED
      BY <2>6, <3>1, <3>2
  <2> HIDE DEF d
  <2>10. Seen(d) \in M!After(Seen(This))
    BY <1>2, <1>5, <2>1, <2>2, <2>9, AfterCsr
  <2>11. p \in SUBSET Harts /\ p \in M!Stored(cur, "csr")
    BY <1>2, <2>1 DEF CsrPending, M!Stored
  <2>12. QED
    BY <1>1, <1>9, <2>2, <2>8, <2>9, <2>10, <2>11, ExecuteMaps
<1>18. CASE CsrFault
  <2> DEFINE v == Validated(Decoded)
             c == Trapped(v)
             d == Bump(c, 0)
  <2>1. Executes("badcsr") /\ At.op = "badcsr"
    BY <1>18 DEF CsrFault, Executes, Runs
  <2>2. /\ v \in Core /\ ~v.serialized /\ v.pc = This.pc /\ v.mie = This.mie
        /\ ~v.wfi /\ v.lastPc = Decoded.lastPc /\ Level(v, This)
    BY <1>3 DEF Validated, Core, Level
  <2>3. EndInner(c, pending, 0, 0)
    BY <1>1, <1>18 DEF CsrFault
  <2> HIDE DEF v
  <2>4. /\ c \in Core /\ ~c.serialized /\ c.pc = Handler /\ c.epc = This.pc /\ ~c.mie /\ c.mpie = This.mie
        /\ ~c.wfi /\ c.lastPc = Decoded.lastPc /\ Level(c, This)
    BY <1>6, <2>2
  <2> HIDE DEF c
  <2>5. Leaves(d, pending)
    BY <1>1, <2>3, <2>4, UncountedLeaves
  <2>6. /\ d \in Core /\ Level(d, This) /\ d.pc = Handler /\ d.epc = This.pc /\ ~d.mie
        /\ d.mpie = This.mie /\ ~d.wfi /\ d.lastPc = Decoded.lastPc
    BY <1>2, <1>7, <2>4 DEF Core
  <2> HIDE DEF d
  <2>7. Seen(d) \in M!After(Seen(This)) /\ Traps(This.pc)
    BY <1>2, <1>5, <2>1, <2>6, AfterTrap DEF Traps
  <2>8. QED
    BY <1>1, <1>2, <1>9, <1>10, <2>1, <2>5, <2>6, <2>7, ExecuteMaps
<1>19. CASE Wfi
  <2>1. PICK a \in At.to : EndInner([Decoded EXCEPT !.pc = a, !.wfi = TRUE], pending,
                                    call.instret + 1, call.instret + 1)
    BY <1>19 DEF Wfi
  <2> DEFINE c == [Decoded EXCEPT !.pc = a, !.wfi = TRUE]
             d == Bump(c, 1)
  <2>2. Executes("wfi") /\ Runs("wfi") /\ At.op = "wfi"
    BY <1>19 DEF Wfi, Executes, Runs
  <2>3. ~This.serialized
    BY <1>4, <1>9, <2>2
  <2>4. /\ c \in Core /\ ~c.serialized /\ c.pc = a /\ c.epc = This.epc /\ c.mie = This.mie
        /\ c.mpie = This.mpie /\ c.wfi /\ c.lastPc = Decoded.lastPc /\ Level(c, This)
    BY <1>3, <1>5, <2>1, <2>3 DEF Core, Level
  <2>5. EndInner(c, pending, 1, 1)
    BY <1>1, <2>1
  <2> HIDE DEF c
  <2>6. Leaves(d, pending)
    BY <1>1, <2>4, <2>5, CountedLeaves
  <2>7. /\ d \in Core /\ Ahead(d, This) /\ d.pc = a /\ d.epc = This.epc /\ d.mie = This.mie
        /\ d.mpie = This.mpie /\ d.wfi /\ d.lastPc = Decoded.lastPc
    BY <1>7, <2>4
  <2> HIDE DEF d
  <2>8. Seen(d) \in M!After(Seen(This))
    BY <1>2, <1>5, <2>1, <2>2, <2>7, AfterWfi
  <2>9. QED
    BY <1>1, <1>2, <1>9, <1>10, <2>2, <2>6, <2>7, <2>8, ExecuteMaps
<1>20. CASE TrapInsn
  <2> DEFINE c == Trapped(Decoded)
             d == Bump(c, 0)
  <2>1. Executes("trap") /\ Runs("trap") /\ At.op = "trap"
    BY <1>20 DEF TrapInsn, Executes, Runs
  <2>2. ~This.serialized
    BY <1>4, <1>9, <2>1
  <2>3. EndInner(c, pending, 0, 0)
    BY <1>1, <1>20 DEF TrapInsn
  <2>4. /\ c \in Core /\ ~c.serialized /\ c.pc = Handler /\ c.epc = This.pc /\ ~c.mie /\ c.mpie = This.mie
        /\ ~c.wfi /\ c.lastPc = Decoded.lastPc /\ Level(c, This)
    BY <1>3, <1>6, <2>2
  <2> HIDE DEF c
  <2>5. Leaves(d, pending)
    BY <1>1, <2>3, <2>4, UncountedLeaves
  <2>6. /\ d \in Core /\ Level(d, This) /\ d.pc = Handler /\ d.epc = This.pc /\ ~d.mie
        /\ d.mpie = This.mie /\ ~d.wfi /\ d.lastPc = Decoded.lastPc
    BY <1>2, <1>7, <2>4 DEF Core
  <2> HIDE DEF d
  <2>7. Seen(d) \in M!After(Seen(This)) /\ Traps(This.pc)
    BY <1>2, <1>5, <2>1, <2>6, AfterTrap DEF Traps
  <2>8. QED
    BY <1>1, <1>2, <1>9, <1>10, <2>1, <2>5, <2>6, <2>7, ExecuteMaps
<1>21. CASE Mret
  <2> DEFINE c == [Decoded EXCEPT !.pc = This.epc, !.mie = This.mpie, !.mpie = TRUE]
             d == Bump(c, 1)
  <2>1. Executes("mret") /\ Runs("mret") /\ At.op = "mret"
    BY <1>21 DEF Mret, Executes, Runs
  <2>2. ~This.serialized
    BY <1>4, <1>9, <2>1
  <2>3. /\ c \in Core /\ ~c.serialized /\ c.pc = This.epc /\ c.epc = This.epc /\ c.mie = This.mpie
        /\ c.mpie /\ ~c.wfi /\ c.lastPc = Decoded.lastPc /\ Level(c, This)
    BY <1>2, <1>3, <2>2 DEF Core, Level
  <2>4. EndInner(c, pending, 1, 1)
    BY <1>1, <1>21 DEF Mret, Retired
  <2> HIDE DEF c
  <2>5. Leaves(d, pending)
    BY <1>1, <2>3, <2>4, CountedLeaves
  <2>6. /\ d \in Core /\ Ahead(d, This) /\ d.pc = This.epc /\ d.epc = This.epc
        /\ d.mie = This.mpie /\ d.mpie /\ ~d.wfi /\ d.lastPc = Decoded.lastPc
    BY <1>7, <2>3
  <2> HIDE DEF d
  <2>7. Seen(d) \in M!After(Seen(This))
    BY <1>2, <1>5, <2>1, <2>6, AfterMret
  <2>8. QED
    BY <1>1, <1>2, <1>9, <1>10, <2>1, <2>5, <2>6, <2>7, ExecuteMaps
<1>22. QED
  BY <1>11, <1>12, <1>13, <1>14, <1>15, <1>16, <1>17, <1>18, <1>19, <1>20, <1>21 DEF HartNext

\* Between the calls the log is the file, and the machine only changes its switch.
LEMMA ConsoleTrace ==
  ASSUME Inv, TraceInv, call = NoCall, UNCHANGED idleHarts, TypeOK'
  PROVE  TraceInv' /\ [M!Next]_(M!machineVars)
<1>1. UNCHANGED <<core, pending, cur, file, executed>>
  BY DEF idleHarts
<1>2. \A h \in Harts : ~core[h].serialized
  BY DEF Inv, OnlyRetry
<1>3. TraceInv'
  BY <1>1, <1>2 DEF TraceInv, LastLine, CycleBound, CyclesAdvance
<1>4. Log' = Log /\ State' = State
  <2>1. ~This.serialized /\ This' = This
    BY <1>1, <1>2, ThisTypes DEF This
  <2>2. QED
    BY <1>1, <2>1 DEF Log, Finished, Unfinished, State
<1>5. M!Switch
  BY <1>1, <1>4 DEF M!Switch, TypeOK, HartTypeOK
<1>6. QED
  BY <1>3, <1>5 DEF M!Next

\* Nothing of the harts changes.
LEMMA StillTrace ==
  ASSUME TraceInv, UNCHANGED hartVars, TypeOK'
  PROVE  TraceInv' /\ [M!Next]_(M!machineVars)
<1>1. UNCHANGED <<core, pending, cur, debug, file, executed>>
  BY DEF hartVars
<1>2. TraceInv'
  BY <1>1 DEF TraceInv, LastLine, CycleBound, CyclesAdvance
<1>3. UNCHANGED <<State, pending, debug, Log, executed>>
  BY <1>1 DEF State, Log, Finished, Unfinished, This
<1>4. QED
  BY <1>2, <1>3 DEF M!machineVars

LEMMA InitTrace == Init => TraceInv /\ M!Init
<1> SUFFICES ASSUME Init PROVE TraceInv /\ M!Init
  OBVIOUS
<1>1. core \in [Harts -> Core] /\ \A h \in Harts : ~core[h].serialized /\ core[h].lastPc = NoPc
  BY HartAssumption DEF Init, HartInit, Core
<1>2. file = <<>> /\ file \in Seq(Line) /\ Len(file) = 0 /\ DOMAIN file = {}
  BY EmptySeq DEF Init, HartInit
<1>3. HartTypeOK
  <2>1. cur \in Harts /\ currentStep \in 0..INTERLEAVE - 1 /\ call \in CallType
    BY HartAssumption DEF Init, HartInit, Harts, CallType, NoCall
  <2>2. QED
    BY <1>1, <1>2, <2>1 DEF Init, HartInit, HartTypeOK, Line
<1>4. TypeOK
  <2>1. NoRun \in RunType /\ MaxRuns \in Nat
    BY ConsoleAssumption DEF NoRun, Run, RunType
  <2>2. next \in RunType /\ frame \in [run : RunType, i : Nat] /\ asked \in RunType
    BY <2>1 DEF Init, NoFrame
  <2>3. /\ at = "idle" /\ ctrlc \in BOOLEAN /\ typed \in BOOLEAN /\ pressed \in BOOLEAN /\ stale \in BOOLEAN
        /\ ran = 0 /\ runs = 0
    BY DEF Init
  <2>4. runs \in 0..MaxRuns
    BY <2>1, <2>3
  <2>5. QED
    BY <1>3, <2>2, <2>3, <2>4 DEF TypeOK
<1>5. LastLine /\ CycleBound /\ CyclesAdvance
  BY <1>1, <1>2 DEF Init, HartInit, LastLine, CycleBound, CyclesAdvance
<1>6. State = [h \in M!Harts |-> [pc |-> Reset, epc |-> Reset, mie |-> FALSE, mpie |-> FALSE,
                                 wfi |-> FALSE]]
  BY DEF Init, HartInit, State, Seen, M!Harts, Harts
<1>7. Log = <<>>
  <2>1. ~This.serialized
    BY <1>1, <1>3 DEF This, HartTypeOK
  <2>2. Log = Lines(file, 0)
    BY <1>2, <2>1, LogIsFile
  <2>3. Lines(file, 0) \in Seq(Entry) /\ Len(Lines(file, 0)) = 0
    <3>1. 0 \in 0..Len(file)
      BY <1>2
    <3>2. QED
      BY <1>2, <3>1, LinesType
  <2>4. QED
    BY <2>2, <2>3, EmptySeq
<1>8. M!Init
  BY <1>6, <1>7 DEF M!Init, Init, HartInit, M!Harts, Harts
<1>9. QED
  BY <1>4, <1>5, <1>8 DEF TraceInv

\* The types of the prompt's variables, and of the call it makes.
LEMMA ConsoleTypes ==
  ASSUME Inv, Inv', TraceInv, Next, ~(HartNext /\ UNCHANGED <<console, ghosts>>)
  PROVE  TypeOK' /\ (UNCHANGED hartVars \/ (call = NoCall /\ UNCHANGED idleHarts))
<1> USE DEF Next, Interactive, Enter, EnterEnds, CtrlC, Quit, RunStep, RunEnds, UntilStep, UntilEnds,
      Command, Typed, Call, Return
<1>1. UNCHANGED hartVars \/ (call = NoCall /\ UNCHANGED idleHarts)
  BY DEF Inv, BetweenCalls
<1>2. UNCHANGED <<core, pending, cur, currentStep, file, executed>>
  BY DEF hartVars, idleHarts
<1>3. call' = call \/ StartStep(1)
  BY DEF hartVars
<1>4. Commands \subseteq RunType
  BY CommandTypes
<1>5. debug' \in BOOLEAN
  BY <1>4 DEF Inv, Shape, RunType, TraceInv, TypeOK, HartTypeOK, hartVars
<1>6. runs' = runs \/ (runs < MaxRuns /\ runs' = runs + 1)
  BY DEF ghosts
<1>7. pressed' \in {pressed, TRUE, FALSE} /\ stale' \in {stale, ctrlc}
  BY DEF ghosts
<1> QED
  <2> HIDE DEF Next, Interactive, Enter, EnterEnds, CtrlC, Quit, RunStep, RunEnds, UntilStep, UntilEnds,
        Command, Typed, Call, Return
  <2>1. call' \in CallType
    <3>1. 0 \in 0..INTERLEAVE /\ 1 \in 0..INTERLEAVE
      BY HartAssumption
    <3>2. StartStep(1) => call' \in CallType
      BY <3>1 DEF StartStep, CallType
    <3>3. call \in CallType
      BY DEF TraceInv, TypeOK, HartTypeOK
    <3>4. QED
      BY <1>3, <3>2, <3>3
  <2>2. HartTypeOK'
    BY <1>2, <1>5, <2>1 DEF TraceInv, TypeOK, HartTypeOK
  <2>3. pressed' \in BOOLEAN /\ stale' \in BOOLEAN
    BY <1>7 DEF TraceInv, TypeOK
  <2>4. runs' \in 0..MaxRuns
    <3>1. MaxRuns \in Nat /\ runs \in 0..MaxRuns
      BY ConsoleAssumption DEF TraceInv, TypeOK
    <3>2. QED
      BY <1>6, <3>1
  <2>5. Shape'
    BY DEF Inv
  <2>6. TypeOK'
    BY <2>2, <2>3, <2>4, <2>5 DEF Shape, TypeOK
  <2>7. QED
    BY <1>1, <2>6

LEMMA NextTrace ==
  ASSUME Inv, Inv', TraceInv, [Next]_vars
  PROVE  TraceInv' /\ [M!Next]_(M!machineVars)
<1>1. CASE HartNext /\ UNCHANGED <<console, ghosts>>
  BY <1>1, HartTrace
<1>2. CASE Next /\ ~(HartNext /\ UNCHANGED <<console, ghosts>>)
  BY <1>2, ConsoleTypes, ConsoleTrace, StillTrace
<1>3. CASE UNCHANGED vars
  <2>1. UNCHANGED hartVars /\ TypeOK'
    BY <1>3 DEF vars, hartVars, console, ghosts, TraceInv, TypeOK, HartTypeOK
  <2>2. QED
    BY <2>1, StillTrace
<1>4. QED
  BY <1>1, <1>2, <1>3

LEMMA TraceInvariance == Spec => [](Inv /\ TraceInv)
<1>1. Inv /\ TraceInv /\ [Next]_vars => (Inv /\ TraceInv)'
  BY NextInv, NextTrace
<1>2. QED
  BY <1>1, InitInv, InitTrace, PTL DEF Spec

\* The types of the harts, the file and the prompt.
THEOREM TypeCorrect == Spec => []TypeOK
<1>1. TraceInv => TypeOK
  BY DEF TraceInv
<1>2. QED
  BY <1>1, TraceInvariance, PTL

\* The first column of the trace (disasm prints mcycle, which is bumped only when
\* an inner loop ends) grows from line to line of a hart, from one write of mcycle by
\* the program (wide_counter_csr_t::unlogged_write) to the next.
THEOREM TraceAdvances == Spec => []CyclesAdvance
<1>1. TraceInv => CyclesAdvance
  BY DEF TraceInv
<1>2. QED
  BY <1>1, TraceInvariance, PTL

\* In interactive mode the trace file is the log of harts that execute one whole
\* instruction at a time (disasm with `debug && !state.serialized` and last_pc).
THEOREM TraceIsLog == Spec => IsMachine
<1>1. Init => M!Init
  BY InitTrace
<1>2. Inv /\ Inv' /\ TraceInv /\ [Next]_vars => [M!Next]_(M!machineVars)
  BY NextTrace
<1>3. QED
  BY <1>1, <1>2, TraceInvariance, PTL DEF Spec, IsMachine, M!Spec
============================================================================
