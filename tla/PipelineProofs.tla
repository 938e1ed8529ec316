--------------------------- MODULE PipelineProofs ---------------------------
(***************************************************************************)
(* What the analyzer reconstructs of an execution, for every listing and   *)
(* every execution of it: what two consecutive lines of the trace have to  *)
(* do with each other, and from that the columns of the profile and the    *)
(* weights of the graph.                                                   *)
(***************************************************************************)
EXTENDS Pipeline, AnalyzerProofs

----------------------------------------------------------------------------
\* The execution: what one line of the log has to do with the next.

Via   == {"entry", "flow", "call", "trap", "ret", "mret"}
OpAt(a) == InsnAt(a).op

\* The functions that were active before the one a line enters.
Kept(l) == IF l.via \in {"call", "trap"} THEN Len(l.stack) - 1 ELSE Len(l.stack)

\* The line that would be logged now.
Now == [addr |-> pc, via |-> via, stack |-> Stack, session |-> session]

\* How line l can come after line p of its session: everything that ran in between is
\* the instruction of p, repeated without a line of its own, and interrupts.  H are
\* the handlers so far.
Follows(p, l, H) ==
  /\ l.via # "entry"
  /\ l.via = "call" => OpAt(p.addr) = "call"
  /\ l.via = "flow" => OpAt(p.addr) \notin {"ret", "mret"}
  /\ l.via = "trap" => FuncAt(l.addr) \in H
  /\ OpAt(p.addr) \notin {"ret", "mret"} => Kept(l) >= Len(p.stack)
  /\ OpAt(p.addr) = "ret" /\ Len(l.stack) >= Len(p.stack) => l.stack[Len(p.stack)] \in H
  /\ OpAt(p.addr) = "mret" => FuncAt(p.addr) \in H

FrameSet == [func : Caller, ret : Code]
LogLine  == [addr : Code, via : Via, stack : Seq(Caller), session : Nat]

ExecType ==
  /\ pc \in Code /\ via \in Via /\ session \in Nat /\ handlers \subseteq Caller
  /\ last_pc \in Code \cup {NoPc}
  /\ frames \in Seq(FrameSet) /\ Len(frames) >= 1
  /\ log \in Seq(LogLine)
  /\ \A k \in DOMAIN log : Len(log[k].stack) >= 1 /\ log[k].session <= session

\* A session begins with an empty stack; any other line follows the one before.
LogInv ==
  \A k \in DOMAIN log :
    IF Begins(k) THEN log[k].via = "entry" => Len(log[k].stack) = 1
    ELSE Follows(log[k - 1], log[k], handlers)

\* What is logged next will begin the session or follow the last line.
NowInv ==
  IF last_pc = NoPc
  THEN /\ via = "entry" => Len(frames) = 1
       /\ \A k \in DOMAIN log : log[k].session < session
  ELSE /\ log # <<>>
       /\ log[Len(log)].session = session
       /\ log[Len(log)].addr = last_pc
       /\ Follows(log[Len(log)], Now, handlers)

ExecInv == ExecType /\ LogInv /\ NowInv

\* The listing has the instruction at an address that runs, once.
LEMMA InsnAtType ==
  ASSUME NEW a \in Code
  PROVE  /\ InsnAt(a) \in Insn
         /\ InsnAt(a).to \subseteq Code
         /\ InsnAt(a).op \in {"call", "ecall"} => InsnAt(a).next \in Code
         /\ \A n \in Insns : AddrOf(n) = a => InsnAt(a) = Listing[n]
<1>1. PICK n \in Insns : AddrOf(n) = a
  BY DEF Code
<1>2. (CHOOSE k \in Insns : AddrOf(k) = a) = n
  BY <1>1, ExecutionAssumption
<1>3. InsnAt(a) = Listing[n]
  BY <1>2 DEF InsnAt
<1>4. Listing[n] \in Insn
  BY ListingType
<1>5. \A m \in Insns : AddrOf(m) = a => m = n
  BY <1>1, ExecutionAssumption
<1>6. QED
  BY <1>3, <1>4, <1>5, ExecutionAssumption

\* What runs has an address, and NoPc is none.
LEMMA CodeType == Code \subseteq Addr /\ NoPc \notin Code
BY RefType, ExecutionAssumption DEF Code

\* The stack is as deep as the frames.
LEMMA StackType ==
  ASSUME ExecType
  PROVE  /\ Len(frames) \in Nat /\ DOMAIN frames = 1..Len(frames)
         /\ Stack \in Seq(Caller) /\ Len(Stack) = Len(frames)
         /\ \A d \in 1..Len(frames) : Stack[d] = frames[d].func /\ frames[d] \in FrameSet
<1>1. frames \in Seq(FrameSet)
  BY DEF ExecType
<1>2. Len(frames) \in Nat /\ DOMAIN frames = 1..Len(frames)
      /\ \A d \in 1..Len(frames) : frames[d] \in FrameSet
  BY <1>1
<1>3. Stack = [d \in 1..Len(frames) |-> frames[d].func]
  BY <1>2 DEF Stack
<1>4. \A d \in 1..Len(frames) : frames[d].func \in Caller
  BY <1>2 DEF FrameSet
<1>5. QED
  BY <1>2, <1>3, <1>4

\* A frame holds a function and where to go back to.
LEMMA FrameType ==
  ASSUME NEW a, NEW ret \in Code
  PROVE  Frame(a, ret) \in FrameSet
BY FuncAtType DEF Frame, FrameSet, Caller

\* A move keeps the types and remembers the handlers.
LEMMA MoveType ==
  ASSUME ExecType, NEW a \in Code, NEW how \in Via, NEW fr \in Seq(FrameSet), Len(fr) >= 1,
         Move(a, how, fr)
  PROVE  /\ pc' \in Code /\ via' \in Via /\ frames' \in Seq(FrameSet) /\ Len(frames') >= 1
         /\ pc' = a /\ via' = how /\ frames' = fr
         /\ handlers' \subseteq Caller /\ handlers \subseteq handlers'
         /\ how = "trap" => FuncAt(a) \in handlers'
         /\ how = "mret" => FuncAt(pc) \in handlers'
BY FuncAtType DEF Move, ExecType, Caller

\* Entering pushes a frame.
LEMMA Push ==
  ASSUME ExecType, NEW fr \in FrameSet
  PROVE  /\ Append(frames, fr) \in Seq(FrameSet)
         /\ Len(Append(frames, fr)) = Len(frames) + 1
         /\ Append(frames, fr)[Len(frames) + 1] = fr
         /\ \A d \in 1..Len(frames) : Append(frames, fr)[d] = frames[d]
BY DEF ExecType

\* Leaving takes the top frame off.
LEMMA Pop ==
  ASSUME ExecType
  PROVE  /\ Callers(frames) \in Seq(FrameSet)
         /\ Len(Callers(frames)) = Len(frames) - 1
         /\ \A d \in 1..(Len(frames) - 1) : Callers(frames)[d] = frames[d]
<1>1. frames \in Seq(FrameSet) /\ Len(frames) \in Nat /\ Len(frames) >= 1
  BY DEF ExecType
<1>2. \A d \in 1..(Len(frames) - 1) : frames[d] \in FrameSet
  BY <1>1
<1> DEFINE n == Len(frames) - 1
           s == SubSeq(frames, 1, n)
<1>3. n \in Int /\ 1 \in Int /\ n >= 0
  BY <1>1
<1>4. /\ s \in Seq(FrameSet) /\ Len(s) = IF 1 <= n THEN n - 1 + 1 ELSE 0
      /\ \A d \in 1..(n - 1 + 1) : s[d] = frames[1 + d - 1]
  <2> HIDE DEF n
  <2> QED BY <1>2, <1>3, SubSeqProperties DEF n
<1>5. Len(s) = n /\ \A d \in 1..n : s[d] = frames[d]
  <2> HIDE DEF n, s
  <2> QED BY <1>3, <1>4
<1>6. QED
  BY <1>4, <1>5 DEF Callers

\* What an instruction does to the stack.
LEMMA ExecuteMoves ==
  ASSUME ExecType, Execute
  PROVE  \E a \in Code, how \in Via, fr \in Seq(FrameSet) :
           /\ Move(a, how, fr) /\ Len(fr) >= 1 /\ how # "entry"
           /\ how = "call" => OpAt(pc) = "call"
           /\ how = "flow" => OpAt(pc) \notin {"ret", "mret"}
           /\ OpAt(pc) \notin {"ret", "mret"} =>
                Len(fr) = Len(frames) + IF how \in {"call", "trap"} THEN 1 ELSE 0
           /\ OpAt(pc) = "ret" =>
                /\ Len(fr) = Len(frames) - 1
                /\ \A d \in 1..Len(fr) : fr[d] = frames[d]
           /\ OpAt(pc) = "mret" => how = "mret"
<1> DEFINE insn == InsnAt(pc)
           Fine(a, how, fr) ==
             /\ Move(a, how, fr) /\ Len(fr) >= 1 /\ how # "entry"
             /\ how = "call" => OpAt(pc) = "call"
             /\ how = "flow" => OpAt(pc) \notin {"ret", "mret"}
             /\ OpAt(pc) \notin {"ret", "mret"} =>
                  Len(fr) = Len(frames) + IF how \in {"call", "trap"} THEN 1 ELSE 0
             /\ OpAt(pc) = "ret" =>
                  /\ Len(fr) = Len(frames) - 1
                  /\ \A d \in 1..Len(fr) : fr[d] = frames[d]
             /\ OpAt(pc) = "mret" => how = "mret"
<1>1. /\ insn.to \subseteq Code
      /\ insn.op \in {"call", "ecall"} => insn.next \in Code
      /\ insn.op = OpAt(pc)
  BY InsnAtType DEF ExecType, OpAt
<1>2. frames \in Seq(FrameSet) /\ Len(frames) \in Nat /\ Len(frames) >= 1
  BY StackType DEF ExecType
<1>3. CASE insn.op \in {"plain", "jump"} /\ \E a \in insn.to : Move(a, "flow", frames)
  <2>1. PICK a \in insn.to : Move(a, "flow", frames)
    BY <1>3
  <2>2. Fine(a, "flow", frames)
    BY <1>1, <1>2, <1>3, <2>1
  <2>3. a \in Code /\ "flow" \in Via
    BY <1>1 DEF Via
  <2> HIDE DEF Fine
  <2>4. \E b \in Code, how \in Via, fr \in Seq(FrameSet) : Fine(b, how, fr)
    BY <1>2, <2>2, <2>3
  <2>5. QED
    BY <2>4 DEF Fine
<1>4. CASE insn.op = "call" /\ \E a \in insn.to : Move(a, "call", Append(frames, Frame(a, insn.next)))
  <2>1. PICK a \in insn.to : Move(a, "call", Append(frames, Frame(a, insn.next)))
    BY <1>4
  <2>2. Frame(a, insn.next) \in FrameSet
    BY <1>1, <1>4, FrameType
  <2> DEFINE fr == Append(frames, Frame(a, insn.next))
  <2>3. fr \in Seq(FrameSet) /\ Len(fr) = Len(frames) + 1
    BY <2>2, Push
  <2>4. Fine(a, "call", fr)
    BY <1>1, <1>2, <1>4, <2>1, <2>3
  <2>5. a \in Code /\ "call" \in Via
    BY <1>1 DEF Via
  <2> HIDE DEF Fine, fr
  <2>6. \E b \in Code, how \in Via, g \in Seq(FrameSet) : Fine(b, how, g)
    BY <2>3, <2>4, <2>5
  <2>7. QED
    BY <2>6 DEF Fine
<1>5. CASE insn.op = "ecall" /\ \E h \in TrapEntry : Move(h, "trap", Append(frames, Frame(h, insn.next)))
  <2>1. PICK h \in TrapEntry : Move(h, "trap", Append(frames, Frame(h, insn.next)))
    BY <1>5
  <2>2. Frame(h, insn.next) \in FrameSet
    BY <1>1, <1>5, FrameType
  <2> DEFINE fr == Append(frames, Frame(h, insn.next))
  <2>3. fr \in Seq(FrameSet) /\ Len(fr) = Len(frames) + 1
    BY <2>2, Push
  <2>4. Fine(h, "trap", fr)
    BY <1>1, <1>2, <1>5, <2>1, <2>3
  <2>5. h \in Code /\ "trap" \in Via
    BY ExecutionAssumption DEF Via
  <2> HIDE DEF Fine, fr
  <2>6. \E b \in Code, how \in Via, g \in Seq(FrameSet) : Fine(b, how, g)
    BY <2>3, <2>4, <2>5
  <2>7. QED
    BY <2>6 DEF Fine
<1>6. ASSUME NEW how \in {"ret", "mret"}, insn.op = how, Callers(frames) # <<>>,
             Move(Top.ret, how, Callers(frames))
      PROVE  \E b \in Code, h \in Via, g \in Seq(FrameSet) : Fine(b, h, g)
  <2> DEFINE fr == Callers(frames)
  <2>1. /\ fr \in Seq(FrameSet) /\ Len(fr) = Len(frames) - 1
        /\ \A d \in 1..(Len(frames) - 1) : fr[d] = frames[d]
    BY Pop
  <2>2. Len(fr) >= 1
    <3>1. Len(fr) # 0
      <4> HIDE DEF fr
      <4> QED BY <1>6, <2>1, EmptySeq DEF fr
    <3>2. QED
      BY <1>2, <2>1, <3>1
  <2>3. Top.ret \in Code
    BY <1>2, StackType DEF Top, FrameSet
  <2>4. Fine(Top.ret, how, fr)
    BY <1>1, <1>2, <1>6, <2>1, <2>2
  <2>5. how \in Via
    BY DEF Via
  <2> HIDE DEF Fine, fr
  <2>6. QED
    BY <2>1, <2>3, <2>4, <2>5
<1>7. CASE \E how \in {"ret", "mret"} :
             insn.op = how /\ Callers(frames) # <<>> /\ Move(Top.ret, how, Callers(frames))
  <2>1. \E b \in Code, h \in Via, g \in Seq(FrameSet) : Fine(b, h, g)
    <3> HIDE DEF Fine, insn
    <3> QED BY <1>6, <1>7
  <2>2. QED
    BY <2>1
<1>8. QED
  BY <1>3, <1>4, <1>5, <1>7 DEF Execute

\* More handlers change nothing about two lines.
LEMMA FollowsMore ==
  ASSUME NEW p, NEW l, NEW H, NEW G, H \subseteq G, Follows(p, l, H)
  PROVE  Follows(p, l, G)
BY DEF Follows

\* The lines there are stay as they are.
LEMMA SameLog ==
  ASSUME LogInv, UNCHANGED log, handlers \subseteq handlers'
  PROVE  LogInv'
<1> SUFFICES ASSUME NEW k \in DOMAIN log
             PROVE  IF Begins(k) THEN log[k].via = "entry" => Len(log[k].stack) = 1
                    ELSE Follows(log[k - 1], log[k], handlers')
  BY DEF LogInv, Begins
<1>1. IF Begins(k) THEN log[k].via = "entry" => Len(log[k].stack) = 1
      ELSE Follows(log[k - 1], log[k], handlers)
  BY DEF LogInv
<1>2. QED
  BY <1>1, FollowsMore

\* After the instruction of line p, which may have run before.
LEMMA FollowsNow ==
  ASSUME ExecType, Execute, NEW p, p.addr = pc, Len(p.stack) \in Nat, Len(p.stack) >= 1,
         OpAt(pc) \notin {"ret", "mret"} => Len(frames) >= Len(p.stack),
         OpAt(pc) = "ret" /\ Len(frames) - 1 >= Len(p.stack) => Stack[Len(p.stack)] \in handlers
  PROVE  /\ Follows(p, Now', handlers')
         /\ pc' \in Code /\ via' \in Via /\ frames' \in Seq(FrameSet) /\ Len(frames') >= 1
         /\ handlers' \subseteq Caller /\ handlers \subseteq handlers'
<1>1. PICK a \in Code, how \in Via, fr \in Seq(FrameSet) :
        /\ Move(a, how, fr) /\ Len(fr) >= 1 /\ how # "entry"
        /\ how = "call" => OpAt(pc) = "call"
        /\ how = "flow" => OpAt(pc) \notin {"ret", "mret"}
        /\ OpAt(pc) \notin {"ret", "mret"} =>
             Len(fr) = Len(frames) + IF how \in {"call", "trap"} THEN 1 ELSE 0
        /\ OpAt(pc) = "ret" =>
             /\ Len(fr) = Len(frames) - 1
             /\ \A d \in 1..Len(fr) : fr[d] = frames[d]
        /\ OpAt(pc) = "mret" => how = "mret"
  BY ExecuteMoves
<1>2. /\ pc' \in Code /\ via' \in Via /\ frames' \in Seq(FrameSet) /\ Len(frames') >= 1
      /\ pc' = a /\ via' = how /\ frames' = fr
      /\ handlers' \subseteq Caller /\ handlers \subseteq handlers'
      /\ how = "trap" => FuncAt(a) \in handlers'
      /\ how = "mret" => FuncAt(pc) \in handlers'
  BY <1>1, MoveType
<1>3. Len(frames) \in Nat /\ \A d \in 1..Len(frames) : Stack[d] = frames[d].func
  BY StackType
<1>4. Len(fr) \in Nat /\ Len(Stack') = Len(fr) /\ \A d \in 1..Len(fr) : Stack'[d] = fr[d].func
  BY <1>2 DEF Stack
<1>5. Now'.addr = a /\ Now'.via = how /\ Now'.stack = Stack'
  BY <1>2 DEF Now
<1>6. OpAt(pc) \notin {"ret", "mret"} => Kept(Now') >= Len(p.stack)
  BY <1>1, <1>3, <1>4, <1>5 DEF Kept
<1>7. ASSUME OpAt(pc) = "ret", Len(Stack') >= Len(p.stack)
      PROVE  Stack'[Len(p.stack)] \in handlers'
  BY <1>1, <1>2, <1>3, <1>4, <1>7
<1>8. Follows(p, Now', handlers')
  BY <1>1, <1>2, <1>5, <1>6, <1>7 DEF Follows
<1>9. QED
  BY <1>2, <1>8

\* A line that begins a session or follows the last one keeps the log.
LEMMA AddLine ==
  ASSUME ExecInv, log' = Append(log, Now), handlers \subseteq handlers', last_pc # pc
  PROVE  /\ LogInv'
         /\ log' \in Seq(LogLine) /\ Len(log') = Len(log) + 1 /\ Len(log) \in Nat
         /\ log'[Len(log')] = Now
         /\ \A k \in DOMAIN log' : Len(log'[k].stack) >= 1 /\ log'[k].session <= session
<1>0. PICK n \in Nat : n = Len(log)
  BY DEF ExecInv, ExecType
<1>1. /\ log \in Seq(LogLine) /\ n \in Nat /\ DOMAIN log = 1..n
      /\ session \in Nat
  BY <1>0 DEF ExecInv, ExecType
<1>2. Now \in LogLine /\ Len(Now.stack) >= 1 /\ Now.session = session
  BY StackType DEF ExecInv, ExecType, Now, LogLine
<1>3. /\ log' \in Seq(LogLine) /\ Len(log') = n + 1 /\ DOMAIN log' = 1..(n + 1)
      /\ log'[n + 1] = Now /\ \A k \in 1..n : log'[k] = log[k]
  BY <1>0, <1>1, <1>2
<1>4. \A k \in 1..n : Len(log[k].stack) >= 1 /\ log[k].session <= session
  BY <1>1 DEF ExecInv, ExecType
<1>5. \A k \in 1..(n + 1) : Len(log'[k].stack) >= 1 /\ log'[k].session <= session
  BY <1>1, <1>2, <1>3, <1>4
<1>6. ASSUME NEW k \in 1..n
      PROVE  IF Begins(k)' THEN log'[k].via = "entry" => Len(log'[k].stack) = 1
             ELSE Follows(log'[k - 1], log'[k], handlers')
  <2>1. log'[k] = log[k] /\ (k # 1 => log'[k - 1] = log[k - 1])
    BY <1>1, <1>3
  <2>2. Begins(k)' <=> Begins(k)
    BY <2>1 DEF Begins
  <2>3. IF Begins(k) THEN log[k].via = "entry" => Len(log[k].stack) = 1
        ELSE Follows(log[k - 1], log[k], handlers)
    BY <1>1 DEF ExecInv, LogInv
  <2>4. ~Begins(k) => k # 1
    BY DEF Begins
  <2>5. QED
    BY <2>1, <2>2, <2>3, <2>4, FollowsMore
<1>7. IF Begins(n + 1)' THEN Now.via = "entry" => Len(Now.stack) = 1
      ELSE Follows(log'[n], Now, handlers')
  <2>1. CASE last_pc = NoPc
    <3>1. Now.via = "entry" => Len(Now.stack) = 1
      BY <2>1, StackType DEF ExecInv, NowInv, Now
    <3>2. Begins(n + 1)'
      <4>1. CASE n = 0
        BY <4>1 DEF Begins
      <4>2. CASE n # 0
        <5>0. n \in DOMAIN log /\ log[n] \in LogLine
          BY <1>1, <4>2
        <5>1. log[n].session < session /\ log[n].session \in Nat
          BY <2>1, <5>0 DEF ExecInv, NowInv, LogLine
        <5>2. log'[n] = log[n] /\ log'[n + 1].session = session /\ (n + 1) - 1 = n
          BY <1>1, <1>2, <1>3, <4>2
        <5>3. QED
          BY <1>1, <5>1, <5>2 DEF Begins
      <4>3. QED
        BY <4>1, <4>2
    <3>3. QED
      BY <3>1, <3>2
  <2>2. CASE last_pc # NoPc
    <3>1. /\ n # 0 /\ log[n].session = session
          /\ Follows(log[n], Now, handlers)
      BY <1>0, <1>1, <2>2 DEF ExecInv, NowInv
    <3>2. log'[n] = log[n] /\ log'[n + 1] = Now /\ (n + 1) - 1 = n /\ n + 1 # 1
      BY <1>1, <1>3, <3>1
    <3>3. ~Begins(n + 1)'
      BY <1>2, <3>1, <3>2 DEF Begins
    <3>4. Follows(log'[n], Now, handlers')
      BY <3>1, <3>2, FollowsMore
    <3>5. QED
      BY <3>3, <3>4
  <2>3. QED
    BY <2>1, <2>2
<1>8. LogInv'
  <2> SUFFICES ASSUME NEW k \in 1..(n + 1)
               PROVE  IF Begins(k)' THEN log'[k].via = "entry" => Len(log'[k].stack) = 1
                      ELSE Follows(log'[k - 1], log'[k], handlers')
    BY <1>3 DEF LogInv
  <2>1. CASE k \in 1..n
    BY <2>1, <1>6 DEF Begins
  <2>2. CASE k = n + 1
    <3>1. k - 1 = n
      BY <1>1, <2>2
    <3>2. IF Begins(n + 1)' THEN log'[n + 1].via = "entry" => Len(log'[n + 1].stack) = 1
          ELSE Follows(log'[n], log'[n + 1], handlers')
      BY <1>3, <1>7
    <3>3. QED
      BY <2>2, <3>1, <3>2 DEF Begins
  <2>3. k \in 1..n \/ k = n + 1
    BY <1>1
  <2>4. QED
    BY <2>1, <2>2, <2>3, Zenon
<1>9. QED
  BY <1>0, <1>1, <1>3, <1>5, <1>8

\* An instruction that repeats is not written again; any other line is.
LEMMA ExecuteInv ==
  ASSUME ExecInv, Execute
  PROVE  ExecInv'
<1>1. ExecType /\ LogInv /\ session' = session /\ last_pc' = pc /\ session \in Nat /\ pc \in Code
  BY DEF ExecInv, ExecType, Execute, Disasm
<1>2. pc # NoPc
  BY <1>1, CodeType
<1>3. Len(frames) \in Nat /\ Len(frames) >= 1 /\ Len(Stack) = Len(frames)
  BY StackType DEF ExecInv, ExecType
<1>4. CASE last_pc = pc
  <2>1. log' = log
    BY <1>4 DEF Execute, Disasm
  <2>2. log \in Seq(LogLine) /\ log # <<>> /\ log[Len(log)].session = session
        /\ log[Len(log)].addr = pc /\ Follows(log[Len(log)], Now, handlers)
    BY <1>2, <1>4 DEF ExecInv, NowInv, ExecType
  <2>3. PICK p : p = log[Len(log)]
    OBVIOUS
  <2>4. Len(p.stack) \in Nat /\ Len(p.stack) >= 1
    <3>1. Len(log) \in DOMAIN log /\ log[Len(log)] \in LogLine
      BY <2>2
    <3>2. p.stack \in Seq(Caller)
      BY <2>3, <3>1 DEF LogLine
    <3>3. QED
      BY <1>1, <2>3, <3>1, <3>2 DEF ExecType
  <2>5. Now.stack = Stack /\ Now.via = via
    BY DEF Now
  <2>6. OpAt(pc) \notin {"ret", "mret"} => Len(frames) >= Len(p.stack)
    BY <1>3, <2>2, <2>3, <2>4, <2>5 DEF Follows, Kept
  <2>7. OpAt(pc) = "ret" /\ Len(frames) - 1 >= Len(p.stack) => Stack[Len(p.stack)] \in handlers
    BY <1>3, <2>2, <2>3, <2>4, <2>5 DEF Follows
  <2>8. /\ Follows(p, Now', handlers')
        /\ pc' \in Code /\ via' \in Via /\ frames' \in Seq(FrameSet) /\ Len(frames') >= 1
        /\ handlers' \subseteq Caller /\ handlers \subseteq handlers'
    BY <1>1, <2>2, <2>3, <2>4, <2>6, <2>7, FollowsNow
  <2>9. LogInv'
    BY <1>1, <2>1, <2>8, SameLog
  <2>10. ExecType'
    BY <1>1, <2>1, <2>8 DEF ExecType
  <2>11. NowInv'
    BY <1>1, <1>2, <2>1, <2>2, <2>3, <2>8 DEF NowInv
  <2>12. QED
    BY <2>9, <2>10, <2>11 DEF ExecInv
<1>5. CASE last_pc # pc
  <2>1. log' = Append(log, Now)
    BY <1>5 DEF Execute, Disasm, Now
  <2>2. PICK p : p = Now
    OBVIOUS
  <2>3. p.addr = pc /\ p.stack = Stack /\ p.session = session
    BY <2>2 DEF Now
  <2>4. /\ Follows(p, Now', handlers')
        /\ pc' \in Code /\ via' \in Via /\ frames' \in Seq(FrameSet) /\ Len(frames') >= 1
        /\ handlers' \subseteq Caller /\ handlers \subseteq handlers'
    BY <1>1, <1>3, <2>3, FollowsNow
  <2>5. /\ LogInv'
        /\ log' \in Seq(LogLine) /\ Len(log') = Len(log) + 1 /\ Len(log) \in Nat
        /\ log'[Len(log')] = p
        /\ \A k \in DOMAIN log' : Len(log'[k].stack) >= 1 /\ log'[k].session <= session
    BY <1>5, <2>1, <2>2, <2>4, AddLine
  <2>6. ExecType'
    BY <1>1, <2>4, <2>5 DEF ExecType
  <2>7. log' # <<>>
    BY <2>5
  <2>8. NowInv'
    BY <1>1, <1>2, <2>3, <2>4, <2>5, <2>7 DEF NowInv
  <2>9. QED
    BY <2>5, <2>6, <2>8 DEF ExecInv
<1>6. QED
  BY <1>4, <1>5

\* An interrupt adds the frame of a handler.
LEMMA InterruptInv ==
  ASSUME ExecInv, Interrupt
  PROVE  ExecInv'
<1>1. ExecType /\ LogInv /\ pc \in Code /\ UNCHANGED <<last_pc, session, log>>
  BY DEF ExecInv, ExecType, Interrupt
<1>2. PICK h \in TrapEntry : Move(h, "trap", Append(frames, Frame(h, pc)))
  BY DEF Interrupt
<1>3. Frame(h, pc) \in FrameSet /\ Frame(h, pc).func = FuncAt(h)
  BY <1>1, FrameType DEF Frame
<1>4. PICK fr : fr = Append(frames, Frame(h, pc))
  OBVIOUS
<1>5. /\ fr \in Seq(FrameSet) /\ Len(fr) = Len(frames) + 1
      /\ fr[Len(frames) + 1] = Frame(h, pc)
      /\ \A d \in 1..Len(frames) : fr[d] = frames[d]
  BY <1>1, <1>3, <1>4, Push
<1>6. Len(frames) \in Nat /\ Len(frames) >= 1 /\ Len(Stack) = Len(frames)
      /\ \A d \in 1..Len(frames) : Stack[d] = frames[d].func
  BY <1>1, StackType DEF ExecType
<1>7. h \in Code /\ "trap" \in Via
  BY ExecutionAssumption DEF Via
<1>8. /\ pc' \in Code /\ via' \in Via /\ frames' \in Seq(FrameSet) /\ Len(frames') >= 1
      /\ pc' = h /\ via' = "trap" /\ frames' = fr
      /\ handlers' \subseteq Caller /\ handlers \subseteq handlers' /\ FuncAt(h) \in handlers'
  <2>1. Len(fr) >= 1
    BY <1>5, <1>6
  <2>2. QED
    BY <1>1, <1>2, <1>4, <1>5, <1>7, <2>1, MoveType
<1>9. ExecType' /\ LogInv'
  BY <1>1, <1>8, SameLog DEF ExecType
<1>10. NowInv'
  <2>1. CASE last_pc = NoPc
    BY <1>1, <1>8, <2>1 DEF ExecInv, NowInv
  <2>2. CASE last_pc # NoPc
    <3>1. /\ log # <<>> /\ log[Len(log)].session = session /\ log[Len(log)].addr = last_pc
          /\ Follows(log[Len(log)], Now, handlers)
      BY <2>2 DEF ExecInv, NowInv
    <3>2. PICK p : p = log[Len(log)]
      OBVIOUS
    <3>3. Len(p.stack) \in Nat /\ Len(p.stack) >= 1
      <4>1. Len(log) \in DOMAIN log /\ log[Len(log)] \in LogLine
        BY <1>1, <3>1 DEF ExecType
      <4>2. p.stack \in Seq(Caller)
        BY <3>2, <4>1 DEF LogLine
      <4>3. QED
        BY <1>1, <3>2, <4>1, <4>2 DEF ExecType
    <3>4. /\ Len(Stack') = Len(frames) + 1
          /\ Stack'[Len(frames) + 1] = FuncAt(h)
          /\ \A d \in 1..Len(frames) : Stack'[d] = Stack[d]
      BY <1>3, <1>5, <1>6, <1>8 DEF Stack
    <3>5. /\ Now'.addr = h /\ Now'.via = "trap" /\ Now'.stack = Stack'
          /\ Now.via = via /\ Now.stack = Stack
      BY <1>8 DEF Now
    <3>6. Kept(Now') = Len(frames) /\ Kept(Now) <= Len(frames)
      BY <1>6, <3>4, <3>5 DEF Kept
    <3>7. OpAt(p.addr) \notin {"ret", "mret"} => Kept(Now') >= Len(p.stack)
      BY <1>6, <3>1, <3>2, <3>3, <3>5, <3>6 DEF Follows, Kept
    <3>8. ASSUME OpAt(p.addr) = "ret", Len(Stack') >= Len(p.stack)
          PROVE  Stack'[Len(p.stack)] \in handlers'
      <4>1. CASE Len(Stack) >= Len(p.stack)
        <5>1. Stack[Len(p.stack)] \in handlers
          BY <3>1, <3>2, <3>5, <3>8, <4>1 DEF Follows
        <5>2. QED
          BY <1>6, <1>8, <3>3, <3>4, <4>1, <5>1
      <4>2. CASE ~(Len(Stack) >= Len(p.stack))
        <5>1. Len(p.stack) = Len(frames) + 1
          BY <1>6, <3>3, <3>4, <3>8, <4>2
        <5>2. QED
          BY <1>8, <3>4, <5>1
      <4>3. QED
        BY <4>1, <4>2
    <3>9. OpAt(p.addr) = "mret" => FuncAt(p.addr) \in handlers'
      BY <1>8, <3>1, <3>2 DEF Follows
    <3>10. Follows(p, Now', handlers')
      BY <1>8, <3>5, <3>7, <3>8, <3>9 DEF Follows
    <3>11. QED
      BY <1>1, <2>2, <3>1, <3>2, <3>10 DEF NowInv
  <2>3. QED
    BY <2>1, <2>2
<1>11. QED
  BY <1>9, <1>10 DEF ExecInv

\* A new simulator begins a session.
LEMMA RestartInv ==
  ASSUME ExecInv, Restart
  PROVE  ExecInv'
<1>1. ExecType /\ LogInv /\ log' = log /\ session' = session + 1 /\ last_pc' = NoPc /\ session \in Nat
  BY DEF ExecInv, ExecType, Restart
<1>2. PICK a \in Entry : Move(a, "entry", <<Frame(a, a)>>)
  BY DEF Restart
<1>3. a \in Code /\ "entry" \in Via
  BY ExecutionAssumption DEF Via
<1>4. PICK fr : fr = <<Frame(a, a)>>
  OBVIOUS
<1>5. fr \in Seq(FrameSet) /\ Len(fr) = 1
  <2>1. Frame(a, a) \in FrameSet
    BY <1>3, FrameType
  <2>2. QED
    BY <1>4, <2>1
<1>6. /\ pc' \in Code /\ via' \in Via /\ frames' \in Seq(FrameSet) /\ Len(frames') = 1
      /\ handlers' \subseteq Caller /\ handlers \subseteq handlers'
  <2>1. Move(a, "entry", fr) /\ Len(fr) >= 1
    BY <1>2, <1>4, <1>5
  <2>2. QED
    BY <1>1, <1>3, <1>5, <2>1, MoveType
<1>7. \A k \in DOMAIN log : log[k].session < session' /\ log[k].session <= session'
  <2> TAKE k \in DOMAIN log
  <2>1. log[k] \in LogLine /\ log[k].session <= session
    BY <1>1 DEF ExecType
  <2>2. log[k].session \in Nat
    BY <2>1 DEF LogLine
  <2>3. QED
    BY <1>1, <2>1, <2>2
<1>8. ExecType'
  BY <1>1, <1>6, <1>7 DEF ExecType
<1>9. LogInv' /\ NowInv'
  BY <1>1, <1>6, <1>7, SameLog DEF NowInv
<1>10. QED
  BY <1>8, <1>9 DEF ExecInv

LEMMA ExecInitInv == ExecInit => ExecInv
<1> SUFFICES ASSUME ExecInit PROVE ExecInv
  OBVIOUS
<1>1. pc \in Code /\ via \in Via /\ session \in Nat /\ handlers \subseteq Caller
  BY ExecutionAssumption DEF ExecInit, Via
<1>2. frames \in Seq(FrameSet) /\ Len(frames) = 1
  <2>1. Frame(pc, pc) \in FrameSet
    BY <1>1, FrameType
  <2>2. QED
    BY <2>1 DEF ExecInit
<1>3. log \in Seq(LogLine) /\ DOMAIN log = {} /\ last_pc = NoPc
  BY DEF ExecInit
<1>4. QED
  BY <1>1, <1>2, <1>3 DEF ExecInv, ExecType, LogInv, NowInv

\* Every step of the program and of the simulator keeps the invariant.
LEMMA ExecNextInv == ExecInv /\ [ExecNext]_execVars => ExecInv'
<1> SUFFICES ASSUME ExecInv, [ExecNext]_execVars PROVE ExecInv'
  OBVIOUS
<1>1. CASE UNCHANGED execVars
  <2>1. UNCHANGED <<pc, via, frames, last_pc, session, log, handlers>>
    BY <1>1 DEF execVars
  <2>2. Now' = Now
    BY <2>1 DEF Now, Stack
  <2>3. QED
    BY <2>1, <2>2 DEF ExecInv, ExecType, LogInv, NowInv, Begins
<1>2. QED
  BY <1>1, ExecuteInv, InterruptInv, RestartInv DEF ExecNext

----------------------------------------------------------------------------
\* The stacks of two consecutive lines of an orderly execution.

In(f, s) == \E d \in DOMAIN s : s[d] = f

\* The function of the line before; there is none before the first.
LastFunc(n) == IF n = 0 THEN NoFunc ELSE Func(n)

\* Function f is still active after line n.
Open(f, n) == n # 0 /\ Active(f, n) /\ ~(Func(n) = f /\ IsLast(log[n].addr))

\* The instruction at an address of a function is the one the parser gave to it.
LEMMA OwnerOf ==
  ASSUME NEW a \in Code, FuncAt(a) # NoFunc
  PROVE  \E n \in Owned : AddrOf(n) = a /\ CurFuncName(n) = FuncAt(a) /\ InsnAt(a) = Listing[n]
<1> DEFINE S == {m \in Owned : AddrOf(m) = a}
<1>1. a \in DOMAIN AddrFuncMap /\ FuncAt(a) = AddrFuncMap[a]
  BY DEF FuncAt
<1>2. S # {} /\ S \subseteq Nat
  BY <1>1, ListingType DEF AddrFuncMap, Insert, Owned
<1>3. Earliest(S) \in S
  <2> HIDE DEF S
  <2> QED BY <1>2, EarliestIn
<1>4. FuncAt(a) = CurFuncName(Earliest(S))
  BY <1>1 DEF AddrFuncMap, Insert
<1>5. PICK n \in Owned : AddrOf(n) = a /\ CurFuncName(n) = FuncAt(a)
  BY <1>3, <1>4
<1>6. InsnAt(a) = Listing[n]
  BY <1>5, InsnAtType DEF Owned
<1>7. QED
  BY <1>5, <1>6

\* The last lines the parser finds are the returns.
LEMMA LastIsRet ==
  ASSUME NEW a \in Code, FuncAt(a) # NoFunc
  PROVE  IsLast(a) <=> OpAt(a) = "ret"
<1> DEFINE rets == {n \in Owned : Listing[n].op = "ret"}
           f == FuncAt(a)
<1>1. PICK n \in Owned : AddrOf(n) = a /\ CurFuncName(n) = f /\ InsnAt(a) = Listing[n]
  BY OwnerOf
<1>2. /\ DOMAIN RetFuncAddrMap = {CurFuncName(m) : m \in rets}
      /\ \A g \in DOMAIN RetFuncAddrMap :
           RetFuncAddrMap[g] = {AddrOf(m) : m \in {r \in rets : CurFuncName(r) = g}}
  BY DEF RetFuncAddrMap
<1>3. ASSUME IsLast(a) PROVE OpAt(a) = "ret"
  <2>1. PICK m \in rets : AddrOf(m) = a
    BY <1>2, <1>3 DEF IsLast
  <2>2. m \in Insns /\ Listing[m].op = "ret"
    BY DEF Owned
  <2>3. QED
    BY <2>1, <2>2, InsnAtType DEF OpAt
<1>4. ASSUME OpAt(a) = "ret" PROVE IsLast(a)
  <2>1. n \in rets
    BY <1>1, <1>4 DEF OpAt
  <2>2. QED
    BY <1>1, <1>2, <2>1 DEF IsLast
<1>5. QED
  BY <1>3, <1>4

\* A line of the log.
LEMMA LogLineType ==
  ASSUME ExecInv, NEW k \in DOMAIN log
  PROVE  /\ k \in Nat /\ k # 0 /\ log[k].addr \in Code /\ log[k].via \in Via
         /\ log[k].stack \in Seq(Caller) /\ Len(log[k].stack) \in Nat /\ Len(log[k].stack) >= 1
         /\ DOMAIN log[k].stack = 1..Len(log[k].stack)
         /\ Func(k) \in Caller
<1>1. log \in Seq(LogLine) /\ Len(log[k].stack) >= 1
  BY DEF ExecInv, ExecType
<1>2. log[k] \in LogLine /\ k \in Nat /\ k # 0
  BY <1>1
<1>3. log[k].addr \in Code /\ log[k].via \in Via /\ log[k].stack \in Seq(Caller)
  BY <1>2 DEF LogLine
<1>4. QED
  BY <1>1, <1>2, <1>3, FuncAtType DEF Func, Caller

\* The callers of a stack are all but its top.
LEMMA CallersType ==
  ASSUME NEW s \in Seq(Caller), Len(s) >= 1
  PROVE  /\ Callers(s) \in Seq(Caller) /\ Len(Callers(s)) = Len(s) - 1
         /\ DOMAIN Callers(s) = 1..(Len(s) - 1)
         /\ \A d \in 1..(Len(s) - 1) : Callers(s)[d] = s[d]
<1>1. \A d \in 1..(Len(s) - 1) : s[d] \in Caller
  OBVIOUS
<1> DEFINE n == Len(s) - 1
           c == SubSeq(s, 1, n)
<1>2. n \in Int /\ 1 \in Int /\ n >= 0
  OBVIOUS
<1>3. /\ c \in Seq(Caller) /\ Len(c) = IF 1 <= n THEN n - 1 + 1 ELSE 0
      /\ \A d \in 1..(n - 1 + 1) : c[d] = s[1 + d - 1]
  <2> HIDE DEF n
  <2> QED BY <1>1, <1>2, SubSeqProperties DEF n
<1>4. Len(c) = n /\ \A d \in 1..n : c[d] = s[d]
  <2> HIDE DEF n, c
  <2> QED BY <1>2, <1>3
<1>5. DOMAIN c = 1..n
  <2> HIDE DEF n, c
  <2> QED BY <1>3, <1>4
<1>6. QED
  BY <1>3, <1>4, <1>5 DEF Callers

\* On a stack without duplicates the top is in no other place.
LEMMA CallersIn ==
  ASSUME NEW s \in Seq(Caller), Len(s) >= 1, \A d, e \in DOMAIN s : s[d] = s[e] => d = e, NEW f
  PROVE  /\ In(f, s) <=> In(f, Callers(s)) \/ f = s[Len(s)]
         /\ In(f, Callers(s)) => f # s[Len(s)]
<1>1. /\ DOMAIN Callers(s) = 1..(Len(s) - 1) /\ DOMAIN s = 1..Len(s)
      /\ \A d \in 1..(Len(s) - 1) : Callers(s)[d] = s[d]
      /\ Len(s) \in Nat
  BY CallersType
<1>2. QED
  BY <1>1 DEF In

\* What is known of two consecutive lines.
LEMMA TwoLines ==
  ASSUME ExecInv, Orderly, OneSession, NEW n \in Nat, n # 0, n + 1 \in DOMAIN log
  PROVE  /\ n \in DOMAIN log /\ ~Begins(n + 1)
         /\ Stays(n + 1) \in {log[n].stack, Callers(log[n].stack)}
         /\ Follows(log[n], log[n + 1], handlers)
         /\ \A k \in {n, n + 1} :
              LET s == log[k].stack
              IN  Func(k) = s[Len(s)] /\ \A d, e \in DOMAIN s : s[d] = s[e] => d = e
<1>1. n \in DOMAIN log /\ (n + 1) - 1 = n /\ n + 1 # 1
  BY DEF ExecInv, ExecType
<1>2. ~Begins(n + 1)
  BY <1>1 DEF Begins, OneSession
<1>3. Follows(log[n], log[n + 1], handlers)
  BY <1>1, <1>2 DEF ExecInv, LogInv
<1>4. QED
  BY <1>1, <1>2, <1>3 DEF Orderly

\* The lines of a stack that stays, and how many.
LEMMA StaysType ==
  ASSUME ExecInv, NEW k \in DOMAIN log
  PROVE  LET s == log[k].stack
         IN  /\ Stays(k) \in Seq(Caller) /\ Len(Stays(k)) = Kept(log[k])
             /\ Len(Stays(k)) <= Len(s)
             /\ \A d \in 1..Len(Stays(k)) : Stays(k)[d] = s[d]
             /\ log[k].via \notin {"call", "trap"} => Stays(k) = s
             /\ log[k].via \in {"call", "trap"} => Stays(k) = Callers(s)
<1>1. log[k].stack \in Seq(Caller) /\ Len(log[k].stack) \in Nat /\ Len(log[k].stack) >= 1
  BY LogLineType
<1>2. CASE log[k].via \in {"call", "trap"}
  <2>1. Stays(k) = Callers(log[k].stack)
    BY <1>2 DEF Stays
  <2>2. Kept(log[k]) = Len(log[k].stack) - 1
    BY <1>2 DEF Kept
  <2>3. /\ Stays(k) \in Seq(Caller) /\ Len(Stays(k)) = Len(log[k].stack) - 1
        /\ \A d \in 1..(Len(log[k].stack) - 1) : Stays(k)[d] = log[k].stack[d]
    BY <1>1, <2>1, CallersType
  <2>4. QED
    BY <1>1, <1>2, <2>1, <2>2, <2>3
<1>3. CASE log[k].via \notin {"call", "trap"}
  BY <1>1, <1>3 DEF Stays, Kept
<1>4. QED
  BY <1>2, <1>3

\* Only handlers stay on the stack when their last line is over.
LEMMA StaysOpen ==
  ASSUME ExecInv, Orderly, OneSession, NEW n \in Nat, n # 0, n + 1 \in DOMAIN log,
         NEW f \in CodeFuncs \ handlers
  PROVE  In(f, Stays(n + 1)) <=> Open(f, n)
<1> DEFINE p == log[n].stack
           s == log[n + 1].stack
<1>1. /\ n \in DOMAIN log
      /\ Stays(n + 1) \in {p, Callers(p)}
      /\ Follows(log[n], log[n + 1], handlers)
      /\ Func(n) = p[Len(p)] /\ \A d, e \in DOMAIN p : p[d] = p[e] => d = e
  BY TwoLines
<1>2. /\ p \in Seq(Caller) /\ Len(p) \in Nat /\ Len(p) >= 1 /\ DOMAIN p = 1..Len(p)
      /\ log[n].addr \in Code
  BY <1>1, LogLineType
<1>3. /\ Len(Stays(n + 1)) = Kept(log[n + 1]) /\ Len(Stays(n + 1)) <= Len(s)
      /\ \A d \in 1..Len(Stays(n + 1)) : Stays(n + 1)[d] = s[d]
      /\ Len(s) \in Nat
  BY StaysType, LogLineType
<1>4. f # NoFunc
  BY CodeFuncsType, ObjdumpAssumption
<1>5. Func(n) = f => (IsLast(log[n].addr) <=> OpAt(log[n].addr) = "ret")
  BY <1>2, <1>4, LastIsRet DEF Func
<1>6. Active(f, n) <=> In(f, p)
  BY DEF Active, In
<1>7. CASE Stays(n + 1) = p
  <2>1. ASSUME Func(n) = f, IsLast(log[n].addr) PROVE FALSE
    <3>1. OpAt(log[n].addr) = "ret"
      BY <1>5, <2>1
    <3>2. Len(s) >= Len(p) /\ s[Len(p)] = p[Len(p)]
      BY <1>2, <1>3, <1>7
    <3>3. s[Len(p)] \in handlers
      BY <1>1, <3>1, <3>2 DEF Follows
    <3>4. QED
      BY <1>1, <2>1, <3>2, <3>3
  <2>2. QED
    BY <1>6, <1>7, <2>1 DEF Open
<1>8. CASE Stays(n + 1) = Callers(p)
  <2>1. Len(Callers(p)) = Len(p) - 1
    BY <1>2, CallersType
  <2>2. OpAt(log[n].addr) \in {"ret", "mret"}
    BY <1>1, <1>2, <1>3, <1>8, <2>1 DEF Follows
  <2>3. OpAt(log[n].addr) = "mret" => Func(n) # f
    BY <1>1 DEF Follows, Func
  <2>4. Func(n) = f => IsLast(log[n].addr)
    BY <1>5, <2>2, <2>3
  <2>5. (In(f, p) <=> In(f, Callers(p)) \/ f = Func(n)) /\ (In(f, Callers(p)) => f # Func(n))
    BY <1>1, <1>2, CallersIn
  <2>6. QED
    BY <1>6, <1>8, <2>4, <2>5 DEF Open
<1>9. QED
  BY <1>1, <1>7, <1>8

\* Line n + 1 is one where the analyzer opens an activation of its function.
Enters(n) == IsFirst(log[n + 1].addr) /\ LastFunc(n) # Func(n + 1)

\* A line finds active what the line before left open and what it enters.
LEMMA Turn ==
  ASSUME ExecInv, Orderly, OneSession, NEW n \in Nat, n + 1 \in DOMAIN log,
         Func(n + 1) # NoFunc, NEW f \in CodeFuncs \ handlers
  PROVE  /\ Active(f, n + 1) <=> Open(f, n) \/ (f = Func(n + 1) /\ Enters(n))
         /\ Open(f, n) => ~(f = Func(n + 1) /\ Enters(n))
<1> DEFINE l == log[n + 1]
           s == l.stack
<1>1. /\ s \in Seq(Caller) /\ Len(s) \in Nat /\ Len(s) >= 1 /\ DOMAIN s = 1..Len(s)
      /\ l.via \in Via
  BY LogLineType
<1>2. /\ Func(n + 1) = s[Len(s)] /\ \A d, e \in DOMAIN s : s[d] = s[e] => d = e
      /\ l.via \in {"entry", "call", "trap"} => IsFirst(l.addr)
      /\ l.via \in {"ret", "mret"} => ~IsFirst(l.addr)
  BY DEF Orderly
<1>3. Active(f, n + 1) <=> In(f, s)
  BY DEF Active, In
<1>4. CASE n = 0
  <2>1. Begins(n + 1)
    BY <1>4 DEF Begins
  <2>2. l.via = "entry"
    BY <2>1 DEF Orderly
  <2>3. Len(s) = 1
    BY <2>1, <2>2 DEF ExecInv, LogInv
  <2>4. In(f, s) <=> f = Func(n + 1)
    BY <1>1, <1>2, <2>3 DEF In
  <2>5. Enters(n) /\ ~Open(f, n)
    BY <1>2, <1>4, <2>2 DEF Enters, LastFunc, Open
  <2>6. QED
    BY <1>3, <2>4, <2>5
<1>5. CASE n # 0
  <2> DEFINE p == log[n].stack
  <2>1. /\ n \in DOMAIN log
        /\ Stays(n + 1) \in {p, Callers(p)}
        /\ Follows(log[n], l, handlers)
        /\ Func(n) = p[Len(p)]
    BY <1>5, TwoLines
  <2>2. p \in Seq(Caller) /\ Len(p) \in Nat /\ Len(p) >= 1 /\ DOMAIN p = 1..Len(p)
    BY <2>1, LogLineType
  <2>3. In(f, Stays(n + 1)) <=> Open(f, n)
    BY <1>5, StaysOpen
  <2>4. LastFunc(n) = Func(n)
    BY <1>5 DEF LastFunc
  <2>5. Len(Callers(p)) = Len(p) - 1
    BY <2>2, CallersType
  <2>6. Len(Stays(n + 1)) = Kept(l)
    BY StaysType
  <2>7. ASSUME OpAt(log[n].addr) \notin {"ret", "mret"} PROVE Stays(n + 1) = p
    BY <2>1, <2>2, <2>5, <2>6, <2>7 DEF Follows
  <2>8. CASE l.via \in {"call", "trap"}
    <3>1. Stays(n + 1) = Callers(s)
      BY <2>8, StaysType
    <3>2. \A g : /\ In(g, s) <=> In(g, Callers(s)) \/ g = Func(n + 1)
                 /\ In(g, Callers(s)) => g # Func(n + 1)
      BY <1>1, <1>2, CallersIn
    <3>3. ASSUME f = Func(n + 1) PROVE Enters(n)
      <4>1. l.via # "trap"
        BY <2>1, <3>3 DEF Follows, Func
      <4>2. Stays(n + 1) = p
        BY <2>1, <2>7, <2>8, <4>1 DEF Follows
      <4>3. In(Func(n), Callers(s))
        BY <2>1, <2>2, <3>1, <4>2 DEF In
      <4>4. QED
        BY <1>2, <2>4, <2>8, <3>2, <4>3 DEF Enters
    <3>4. QED
      BY <1>3, <2>3, <3>1, <3>2, <3>3
  <2>9. CASE l.via \notin {"call", "trap"}
    <3>1. Stays(n + 1) = s
      BY <2>9, StaysType
    <3>2. l.via \in {"flow", "ret", "mret"}
      BY <1>1, <2>1, <2>9 DEF Via, Follows
    <3>3. ~Enters(n)
      <4>1. CASE l.via \in {"ret", "mret"}
        BY <1>2, <4>1 DEF Enters
      <4>2. CASE l.via = "flow"
        <5>1. s = p
          BY <2>1, <2>7, <3>1, <4>2 DEF Follows
        <5>2. QED
          BY <1>2, <2>1, <2>4, <5>1 DEF Enters
      <4>3. QED
        BY <3>2, <4>1, <4>2
    <3>4. QED
      BY <1>3, <2>3, <3>1, <3>3
  <2>10. QED
    BY <2>8, <2>9
<1>6. QED
  BY <1>4, <1>5

\* In the boot ROM no function is active.
LEMMA BootLine ==
  ASSUME ExecInv, Orderly, OneSession, NEW n \in Nat, n + 1 \in DOMAIN log, Func(n + 1) = NoFunc
  PROVE  /\ LastFunc(n) = NoFunc
         /\ \A f \in CodeFuncs : ~Active(f, n + 1) /\ ~Open(f, n)
<1>1. NoFunc \notin CodeFuncs
  BY CodeFuncsType, ObjdumpAssumption
<1>2. ASSUME NEW k \in DOMAIN log, Func(k) = NoFunc, NEW f \in CodeFuncs PROVE ~Active(f, k)
  <2> DEFINE s == log[k].stack
  <2>1. s[Len(s)] = NoFunc /\ Len(s) = 1
    BY <1>2 DEF Orderly
  <2>2. DOMAIN s = 1..Len(s)
    BY LogLineType
  <2>3. QED
    BY <1>1, <2>1, <2>2 DEF Active
<1>3. CASE n = 0
  BY <1>2, <1>3 DEF LastFunc, Open
<1>4. CASE n # 0
  <2>1. n \in DOMAIN log /\ ~Begins(n + 1) /\ (n + 1) - 1 = n
    BY <1>4, TwoLines
  <2>2. Func(n) = NoFunc
    BY <2>1 DEF Orderly
  <2>3. QED
    BY <1>2, <1>4, <2>1, <2>2 DEF LastFunc, Open
<1>5. QED
  BY <1>3, <1>4

----------------------------------------------------------------------------
\* The analyzer at work on the trace of an execution.

\* The trace that was opened is the one of the log, which grows no longer.
Frozen == stage # "idle" => lines = Marked(Trace) /\ sites = CallSites(Trace)

\* After every line of the first pass the multipliers are the stack.
TimeInv ==
  Orderly /\ OneSession =>
    /\ lastFunc = LastFunc(Seen("total"))
    /\ \A f \in CodeFuncs \ handlers :
         /\ execTimeMapTotal[f] = Inclusive(f, Seen("total"))
         /\ timeMultipliers[f] = IF Open(f, Seen("total")) THEN 1 ELSE 0

\* In an analyzer without a project the first pass has not begun.
Fresh ==
  stage = "idle" =>
    /\ lastFunc = NoFunc
    /\ \A f \in CodeFuncs : timeMultipliers[f] = 0 /\ execTimeMapTotal[f] = 0

PipelineInv == Inv /\ Counts /\ RowsInv /\ ExecInv /\ Frozen /\ Fresh /\ TimeInv

\* The addresses of the log are a trace.
LEMMA TraceType ==
  ASSUME ExecInv
  PROVE  /\ Trace \in Seq(Addr) /\ Len(Trace) = Len(log) /\ Len(log) \in Nat
         /\ DOMAIN log = 1..Len(log) /\ DOMAIN Trace = 1..Len(log)
         /\ \A k \in 1..Len(log) : Trace[k] = log[k].addr
<1>1. Len(log) \in Nat /\ DOMAIN log = 1..Len(log)
  BY DEF ExecInv, ExecType
<1>2. \A k \in 1..Len(log) : log[k].addr \in Addr
  BY <1>1, LogLineType, CodeType
<1>3. Trace = [k \in 1..Len(log) |-> log[k].addr]
  BY <1>1 DEF Trace
<1>4. QED
  BY <1>1, <1>2, <1>3

\* The lines the analyzer works on are those of the log.
LEMMA MarkedLines ==
  ASSUME ExecInv, Frozen, stage # "idle"
  PROVE  /\ Len(lines) = Len(log) /\ Len(log) \in Nat /\ DOMAIN log = 1..Len(log)
         /\ \A k \in 1..Len(log) :
              /\ lines[k].addr = log[k].addr /\ lines[k].func = Func(k)
              /\ lines[k].first = IsFirst(log[k].addr) /\ lines[k].last = IsLast(log[k].addr)
<1>1. lines = Marked(Trace)
  BY DEF Frozen
<1>2. /\ Trace \in Seq(Addr) /\ Len(Trace) = Len(log) /\ Len(log) \in Nat
      /\ DOMAIN log = 1..Len(log) /\ DOMAIN Trace = 1..Len(log)
      /\ \A k \in 1..Len(log) : Trace[k] = log[k].addr
  BY TraceType
<1>3. Len(lines) = Len(log)
  BY <1>1, <1>2, MarkedType
<1>4. \A k \in 1..Len(log) : lines[k] = Mark(log[k].addr)
  BY <1>1, <1>2 DEF Marked
<1>5. \A k \in 1..Len(log) :
        /\ lines[k].addr = log[k].addr /\ lines[k].func = FuncAt(log[k].addr)
        /\ lines[k].first = IsFirst(log[k].addr) /\ lines[k].last = IsLast(log[k].addr)
  <2> TAKE k \in 1..Len(log)
  <2>1. lines[k] = Mark(log[k].addr)
    BY <1>4
  <2>2. \A a : /\ Mark(a).addr = a /\ Mark(a).func = FuncAt(a)
              /\ Mark(a).first = IsFirst(a) /\ Mark(a).last = IsLast(a)
    BY DEF Mark
  <2>3. QED
    BY <2>1, <2>2
<1>6. QED
  BY <1>2, <1>3, <1>5 DEF Func

\* What happened does not change while the analyzer works.
LEMMA SameExecution ==
  ASSUME UNCHANGED execVars
  PROVE  /\ UNCHANGED <<log, handlers, Trace, Orderly, OneSession>>
         /\ ExecInv => ExecInv'
         /\ \A f, n : /\ Active(f, n)' <=> Active(f, n)
                      /\ Open(f, n)' <=> Open(f, n)
                      /\ Inclusive(f, n)' = Inclusive(f, n)
                      /\ LastFunc(n)' = LastFunc(n)
<1>1. UNCHANGED <<pc, via, frames, last_pc, session, log, handlers>>
  BY DEF execVars
<1>2. UNCHANGED Trace
  BY <1>1 DEF Trace
<1>3. Orderly' <=> Orderly
  BY <1>1 DEF Orderly, Func, Begins, Stays
<1>4. OneSession' <=> OneSession
  BY <1>1 DEF OneSession
<1>5. ExecInv => ExecInv'
  BY ExecNextInv
<1>6. \A f, n : Active(f, n)' <=> Active(f, n)
  BY <1>1 DEF Active
<1>7. \A n : LastFunc(n)' = LastFunc(n)
  BY <1>1 DEF LastFunc, Func
<1>8. \A f, n : Open(f, n)' <=> Open(f, n)
  BY <1>1 DEF Open, Active, Func
<1>9. \A f, n : Inclusive(f, n)' = Inclusive(f, n)
  BY <1>1 DEF Inclusive, Active
<1>10. QED
  BY <1>1, <1>2, <1>3, <1>4, <1>5, <1>6, <1>7, <1>8, <1>9

\* The time of a function grows with every line at which it is active.
LEMMA InclusiveNext ==
  ASSUME NEW f, NEW n \in Nat
  PROVE  /\ Inclusive(f, n) \in 0..n
         /\ Inclusive(f, n + 1) = Inclusive(f, n) + IF Active(f, n + 1) THEN 1 ELSE 0
         /\ Inclusive(f, 0) = 0
<1> DEFINE S(m) == {k \in 1..m : Active(f, k)}
<1>1. S(n) \subseteq 1..n /\ S(n + 1) \subseteq 1..(n + 1)
  OBVIOUS
<1>2. S(n + 1) \ {n + 1} = S(n) /\ (n + 1 \in S(n + 1) <=> Active(f, n + 1))
  OBVIOUS
<1>3. S(0) = {}
  OBVIOUS
<1> HIDE DEF S
<1>4. Cardinality(S(n + 1)) = Cardinality(S(n)) + IF Active(f, n + 1) THEN 1 ELSE 0
  BY <1>1, <1>2, CountNext
<1>5. Cardinality(S(n)) \in Nat /\ Cardinality(S(n)) <= n
  <2>1. IsFiniteSet(1..n) /\ Cardinality(1..n) = n
    BY FS_Interval
  <2>2. QED
    BY <1>1, <2>1, FS_Subset, FS_CardinalityType
<1>6. QED
  BY <1>3, <1>4, <1>5, FS_EmptySet DEF S, Inclusive

\* An iteration of calculateTotalExecTime: what Turn says of the stacks.
LEMMA TotalStepTime ==
  ASSUME PipelineInv, TotalStep, UNCHANGED execVars
  PROVE  TimeInv'
<1> SUFFICES ASSUME Orderly', OneSession'
             PROVE  /\ lastFunc' = LastFunc(Seen("total"))'
                    /\ \A f \in CodeFuncs \ handlers :
                         /\ execTimeMapTotal'[f] = Inclusive(f, Seen("total"))'
                         /\ timeMultipliers'[f] = IF Open(f, Seen("total"))' THEN 1 ELSE 0
  BY SameExecution DEF TimeInv
<1>1. Orderly /\ OneSession /\ ExecInv
  BY SameExecution DEF PipelineInv
<1>2. /\ UNCHANGED <<stage, input, output>> /\ stage = "total" /\ i' = i + 1
      /\ i \in Nat /\ i \in 1..Len(lines) /\ Len(lines) \in Nat
  BY DEF PipelineInv, TotalStep, AtLine, Inv, TypeOK, Position
<1>3. PICK n \in Nat : n = i - 1
  BY <1>2
<1>4. Seen("total") = n /\ Seen("total")' = n + 1 /\ i = n + 1
  BY <1>2, <1>3 DEF Seen, Before
<1>5. /\ n + 1 \in DOMAIN log
      /\ lines[i].func = Func(n + 1)
      /\ lines[i].first = IsFirst(log[n + 1].addr) /\ lines[i].last = IsLast(log[n + 1].addr)
  BY <1>2, <1>4, MarkedLines DEF PipelineInv
<1>6. /\ lastFunc = LastFunc(n)
      /\ \A f \in CodeFuncs \ handlers :
           /\ execTimeMapTotal[f] = Inclusive(f, n)
           /\ timeMultipliers[f] = IF Open(f, n) THEN 1 ELSE 0
  BY <1>1, <1>4 DEF PipelineInv, TimeInv
<1>7. LastFunc(n + 1) = Func(n + 1)
  BY <1>3 DEF LastFunc
<1>8. \A f : /\ Inclusive(f, Seen("total"))' = Inclusive(f, n + 1)
             /\ Open(f, Seen("total"))' <=> Open(f, n + 1)
             /\ LastFunc(Seen("total"))' = LastFunc(n + 1)
  BY <1>4, SameExecution
<1>9. \A f : Inclusive(f, n + 1) = Inclusive(f, n) + IF Active(f, n + 1) THEN 1 ELSE 0
  BY InclusiveNext
<1>10. \A f : Inclusive(f, n) \in Nat
  BY InclusiveNext
<1>11. CASE Func(n + 1) = NoFunc
  <2>1. UNCHANGED pass1
    BY <1>5, <1>11 DEF TotalStep
  <2>2. LastFunc(n) = NoFunc /\ \A f \in CodeFuncs : ~Active(f, n + 1) /\ ~Open(f, n)
    BY <1>1, <1>5, <1>11, BootLine
  <2>3. \A f \in CodeFuncs : ~Open(f, n + 1) /\ Inclusive(f, n + 1) = Inclusive(f, n)
    BY <1>9, <1>10, <2>2 DEF Open
  <2>4. QED
    BY <1>6, <1>7, <1>8, <1>11, <2>1, <2>2, <2>3 DEF pass1
<1>12. CASE Func(n + 1) # NoFunc
  <2> DEFINE l == lines[i]
             up == IF Entered(l) THEN Bump(timeMultipliers, l.func) ELSE timeMultipliers
  <2>1. /\ execTimeMapTotal' = [f \in CodeFuncs |-> execTimeMapTotal[f] + up[f]]
        /\ timeMultipliers' = IF Left(l, up) THEN [up EXCEPT ![l.func] = @ - 1] ELSE up
        /\ lastFunc' = l.func
    BY <1>5, <1>12 DEF TotalStep
  <2>2. timeMultipliers \in [CodeFuncs -> Nat] /\ l.func \in CodeFuncs
    BY <1>5, <1>12, FuncAtType DEF PipelineInv, Inv, TypeOK, Func
  <2>3. Entered(l) <=> Enters(n)
    BY <1>5, <1>6 DEF Entered, Enters
  <2>4. ASSUME NEW f \in CodeFuncs \ handlers
        PROVE  up[f] = IF Active(f, n + 1) THEN 1 ELSE 0
    <3>1. /\ Active(f, n + 1) <=> Open(f, n) \/ (f = Func(n + 1) /\ Enters(n))
          /\ Open(f, n) => ~(f = Func(n + 1) /\ Enters(n))
      BY <1>1, <1>5, <1>12, Turn
    <3>2. up[f] = timeMultipliers[f] + IF Entered(l) /\ f = l.func THEN 1 ELSE 0
      <4> HIDE DEF l
      <4> QED BY <2>2 DEF Bump
    <3>3. timeMultipliers[f] = IF Open(f, n) THEN 1 ELSE 0
      BY <1>6
    <3>4. QED
      BY <1>5, <2>3, <3>1, <3>2, <3>3
  <2>5. up \in [CodeFuncs -> Nat]
    <3> HIDE DEF l
    <3> QED BY <2>2 DEF Bump
  <2>6. ASSUME NEW f \in CodeFuncs \ handlers
        PROVE  /\ execTimeMapTotal'[f] = Inclusive(f, n + 1)
               /\ timeMultipliers'[f] = IF Open(f, n + 1) THEN 1 ELSE 0
    <3>1. up[f] = IF Active(f, n + 1) THEN 1 ELSE 0
      BY <2>4
    <3>2. execTimeMapTotal'[f] = Inclusive(f, n + 1)
      <4> HIDE DEF up
      <4> QED BY <1>6, <1>9, <1>10, <2>1, <3>1
    <3>3. f = Func(n + 1) => Active(f, n + 1)
      <4>1. /\ Len(log[n + 1].stack) \in DOMAIN log[n + 1].stack
            /\ Func(n + 1) = log[n + 1].stack[Len(log[n + 1].stack)]
        BY <1>1, <1>5, LogLineType DEF Orderly
      <4>2. QED
        BY <4>1 DEF Active
    <3>4. Open(f, n + 1) <=> Active(f, n + 1) /\ ~(f = l.func /\ l.last)
      BY <1>3, <1>5 DEF Open
    <3>5. timeMultipliers'[f] = IF l.last /\ f = l.func /\ up[f] > 0 THEN up[f] - 1 ELSE up[f]
      <4> HIDE DEF up, l
      <4> QED BY <2>1, <2>2, <2>5 DEF Left
    <3> HIDE DEF up, l
    <3>6. QED
      BY <3>1, <3>2, <3>4, <3>5
  <2>7. QED
    BY <1>5, <1>7, <1>8, <2>1, <2>6
<1>13. QED
  BY <1>11, <1>12

\* A step of the analyzer that sees no new line of the first pass.
LEMMA SameTime ==
  ASSUME TimeInv, UNCHANGED <<pass1, execVars>>, Seen("total")' = Seen("total")
  PROVE  TimeInv'
<1>1. UNCHANGED <<lastFunc, timeMultipliers, execTimeMapTotal>>
  BY DEF pass1
<1>2. PICK n : n = Seen("total")
  OBVIOUS
<1>3. Seen("total")' = n
  BY <1>2
<1>4. QED
  BY <1>1, <1>2, <1>3, SameExecution DEF TimeInv

\* Before the first pass no time has passed, whatever the log is.
LEMMA NoTime ==
  ASSUME Seen("total") = 0, lastFunc = NoFunc,
         \A f \in CodeFuncs : timeMultipliers[f] = 0 /\ execTimeMapTotal[f] = 0
  PROVE  TimeInv
BY InclusiveNext DEF TimeInv, LastFunc, Open

\* The program runs on while no project is open.
LEMMA RunInv ==
  ASSUME PipelineInv, stage = "idle", ExecNext, UNCHANGED vars
  PROVE  PipelineInv'
<1>1. UNCHANGED <<stage, i, lines, lastFunc, timeMultipliers, execTimeMapTotal>>
  BY DEF vars, input, pass1
<1>2. Inv' /\ Counts' /\ RowsInv'
  <2>1. UNCHANGED <<input, pass1, pass3, table>>
    BY DEF vars, output
  <2>2. QED
    BY <1>1, <2>1, StutterInv, StutterCounts, SameRows DEF PipelineInv
<1>3. ExecInv'
  BY ExecNextInv DEF PipelineInv
<1>4. Frozen' /\ Fresh'
  BY <1>1 DEF PipelineInv, Frozen, Fresh
<1>5. Seen("total")' = 0
  BY <1>1 DEF Seen, Before
<1>6. TimeInv'
  <2>1. lastFunc' = NoFunc /\ \A f \in CodeFuncs : timeMultipliers'[f] = 0 /\ execTimeMapTotal'[f] = 0
    BY <1>1 DEF PipelineInv, Fresh
  <2>2. \A f : Inclusive(f, 0)' = 0
    BY FS_EmptySet DEF Inclusive
  <2>3. QED
    BY <1>5, <2>1, <2>2 DEF TimeInv, LastFunc, Open
<1>7. QED
  BY <1>2, <1>3, <1>4, <1>6 DEF PipelineInv

\* Opening the project takes the trace as it is.
LEMMA AnalyseInv ==
  ASSUME PipelineInv, Analyse
  PROVE  PipelineInv'
<1>1. /\ Load(Trace) /\ UNCHANGED execVars /\ stage = "idle" /\ stage' = "total"
      /\ UNCHANGED <<i, pass1>> /\ i = 1
  BY DEF Analyse, Load, PipelineInv, Inv, Position
<1>2. Trace \in Seq(Addr) /\ Inv /\ Counts
  BY TraceType DEF PipelineInv
<1>3. Inv' /\ Counts'
  <2> DEFINE t == Trace
  <2>1. t \in Seq(Addr) /\ Load(t)
    BY <1>1, <1>2
  <2> HIDE DEF t
  <2>2. QED
    BY <1>2, <2>1, LoadInv, LoadCounts
<1>4. RowsInv'
  BY <1>1 DEF Load, PipelineInv, RowsInv, output
<1>5. ExecInv' /\ UNCHANGED Trace
  BY <1>1, SameExecution DEF PipelineInv
<1>6. Frozen' /\ Fresh'
  BY <1>1, <1>5 DEF Load, Frozen, Fresh
<1>7. Seen("total") = 0 /\ Seen("total")' = 0
  BY <1>1 DEF Seen, Before
<1>8. TimeInv'
  BY <1>1, <1>7, SameTime DEF PipelineInv
<1>9. QED
  BY <1>3, <1>4, <1>5, <1>6, <1>8 DEF PipelineInv

\* The analyzer steps, the program no longer runs.
LEMMA AnalyzerStepInv ==
  ASSUME PipelineInv, Step, UNCHANGED execVars
  PROVE  PipelineInv'
<1>1. Inv' /\ Counts' /\ RowsInv'
  BY StepInv, StepCounts, StepRows DEF PipelineInv
<1>2. ExecInv' /\ UNCHANGED Trace
  BY SameExecution DEF PipelineInv
<1>3. stage # "idle" /\ stage' # "idle" /\ UNCHANGED <<lines, sites>>
  BY DEF Step, TotalStep, ByStep, SelfStep, BuildTable, BuildGraph, EndPass, AtLine, input
<1>4. Frozen' /\ Fresh'
  BY <1>2, <1>3 DEF PipelineInv, Frozen, Fresh
<1>5. TimeInv'
  <2>1. CASE TotalStep
    BY <2>1, TotalStepTime
  <2>2. CASE Step /\ ~TotalStep
    <3>1. UNCHANGED pass1
      BY <2>2 DEF Step, ByStep, SelfStep, BuildTable, BuildGraph, EndPass
    <3>2. Seen("total")' = Seen("total")
      <4>1. Len(lines) \in Nat /\ i \in Nat /\ i <= Len(lines) + 1
        BY DEF PipelineInv, Inv, TypeOK, Position
      <4>2. QED
        BY <1>3, <2>2, <4>1
        DEF Step, ByStep, SelfStep, BuildTable, BuildGraph, EndPass, AtLine, Seen, Before
    <3>3. QED
      BY <3>1, <3>2, SameTime DEF PipelineInv
  <2>3. QED
    BY <2>1, <2>2
<1>6. QED
  BY <1>1, <1>2, <1>4, <1>5 DEF PipelineInv

\* The invariant of the pipeline.
LEMMA PipelineInvariance == PipelineSpec => []PipelineInv
<1>1. PipelineInit => PipelineInv
  <2> SUFFICES ASSUME Init, ExecInit PROVE PipelineInv
    BY DEF PipelineInit
  <2>1. Inv /\ Counts /\ RowsInv /\ ExecInv
    BY InitInv, InitCounts, ExecInitInv DEF Init, RowsInv
  <2>2. Frozen /\ Fresh /\ Seen("total") = 0
    BY DEF Init, Frozen, Fresh, Zero, Seen, Before
  <2>3. TimeInv
    BY <2>2, NoTime DEF Fresh, Init
  <2>4. QED
    BY <2>1, <2>2, <2>3 DEF PipelineInv
<1>2. PipelineInv /\ [PipelineNext]_PipelineVars => PipelineInv'
  <2> SUFFICES ASSUME PipelineInv, [PipelineNext]_PipelineVars PROVE PipelineInv'
    OBVIOUS
  <2>1. CASE UNCHANGED PipelineVars
    <3>1. UNCHANGED <<vars, execVars>>
      BY <2>1 DEF PipelineVars
    <3>2. UNCHANGED <<stage, i, lines, sites, input, pass1, pass3, table>>
      BY <3>1 DEF vars, input, output
    <3>3. Inv' /\ Counts' /\ RowsInv' /\ ExecInv' /\ UNCHANGED Trace
      BY <3>1, <3>2, StutterInv, StutterCounts, SameRows, SameExecution DEF PipelineInv
    <3>4. Frozen' /\ Fresh'
      BY <3>2, <3>3 DEF PipelineInv, Frozen, Fresh, pass1
    <3>5. TimeInv'
      BY <3>1, <3>2, SameTime DEF PipelineInv, Seen, Before
    <3>6. QED
      BY <3>3, <3>4, <3>5 DEF PipelineInv
  <2>2. QED
    BY <2>1, RunInv, AnalyseInv, AnalyzerStepInv DEF PipelineNext
<1>3. QED
  BY <1>1, <1>2, PTL DEF PipelineSpec

----------------------------------------------------------------------------
\* Calls: a line that enters, and the site that the analyzer looks up for it.

\* After the first pass, as many lines are seen as there are.
LEMMA SeenLines ==
  ASSUME PipelineInv
  PROVE  \A s \in {"total", "by", "self"} :
           /\ Seen(s) \in 0..Len(log)
           /\ stage \in {"table", "graph", "done", "out_of_range"} => Seen(s) = Len(log)
           /\ Seen(s) # 0 => stage # "idle"
<1>1. /\ stage \in Stages /\ i \in Nat /\ i # 0 /\ i <= Len(lines) + 1 /\ Len(lines) \in Nat
  BY DEF PipelineInv, Inv, TypeOK, Position
<1>2. stage # "idle" => Len(lines) = Len(log)
  BY MarkedLines DEF PipelineInv
<1>3. Len(log) \in Nat
  BY TraceType DEF PipelineInv
<1>4. QED
  BY <1>1, <1>2, <1>3 DEF Stages, Seen, Before

\* The first lines of a session's functions are the ones it enters.
LEMMA FirstIsEntered ==
  ASSUME ExecInv, Orderly, NoRestart, NEW k \in DOMAIN log
  PROVE  /\ IsFirst(log[k].addr) => log[k].via \in {"entry", "call", "trap"}
         /\ log[k].via \in {"entry", "call", "trap"} /\ Func(k) # NoFunc => IsFirst(log[k].addr)
<1>1. log[k].via \in {"entry", "flow", "call", "trap", "ret", "mret"}
  BY LogLineType DEF Via
<1>2. QED
  BY <1>1 DEF Orderly, NoRestart

\* A call stays on the stack of its caller.
LEMMA CallStack ==
  ASSUME ExecInv, Orderly, OneSession, NEW n \in Nat, n # 0, n + 1 \in DOMAIN log,
         log[n + 1].via = "call"
  PROVE  LET s == log[n + 1].stack
         IN  s[Len(s) - 1] = Func(n) /\ s[Len(s)] = Func(n + 1)
<1> DEFINE p == log[n].stack
           s == log[n + 1].stack
<1>1. /\ n \in DOMAIN log
      /\ Stays(n + 1) \in {p, Callers(p)}
      /\ Follows(log[n], log[n + 1], handlers)
      /\ Func(n) = p[Len(p)] /\ Func(n + 1) = s[Len(s)]
  BY TwoLines
<1>2. p \in Seq(Caller) /\ Len(p) \in Nat /\ Len(p) >= 1 /\ Len(s) \in Nat /\ Len(s) >= 1
      /\ s \in Seq(Caller)
  BY <1>1, LogLineType
<1>3. Len(Callers(p)) = Len(p) - 1 /\ Len(Callers(s)) = Len(s) - 1
      /\ \A d \in 1..(Len(s) - 1) : Callers(s)[d] = s[d]
  BY <1>2, CallersType
<1>4. Stays(n + 1) = Callers(s) /\ Kept(log[n + 1]) = Len(s) - 1
  BY DEF Stays, Kept
<1>5. Len(s) - 1 >= Len(p)
  BY <1>1, <1>4 DEF Follows
<1>6. p = Callers(s)
  BY <1>1, <1>2, <1>3, <1>4, <1>5
<1>7. Len(s) - 1 = Len(p) /\ p[Len(p)] = s[Len(s) - 1]
  BY <1>2, <1>3, <1>6
<1>8. QED
  BY <1>1, <1>7

\* The call sites of the disassembly are those of the function at the address.
LEMMA SiteCaller ==
  ASSUME NEW a \in DOMAIN AddrCallerCalled
  PROVE  AddrCallerCalled[a][1] = FuncAt(a)
<1> DEFINE T == {n \in Refs : RefOf(n) \in FuncNames}
           S == {n \in T : AddrOf(n) = a}
           R == {n \in Owned : AddrOf(n) = a}
<1>1. S # {} /\ S \subseteq R /\ R \subseteq Insns /\ Insns \subseteq Nat
  BY ListingType DEF AddrCallerCalled, Insert, Refs, Owned
<1>2. Earliest(S) \in S /\ Earliest(R) \in R
  <2> HIDE DEF S, R
  <2> QED BY <1>1, EarliestIn
<1>3. Earliest(S) = Earliest(R)
  <2>1. \A m, n \in R : m = n
    BY <1>1, ExecutionAssumption
  <2> HIDE DEF S, R
  <2>2. QED
    BY <1>1, <1>2, <2>1
<1>4. AddrCallerCalled[a] = CallerCalled(Earliest(S))
  BY DEF AddrCallerCalled, Insert
<1>5. a \in DOMAIN AddrFuncMap
  BY <1>2 DEF AddrFuncMap, Insert
<1>6. FuncAt(a) = CurFuncName(Earliest(R))
  BY <1>5 DEF FuncAt, AddrFuncMap, Insert
<1>7. QED
  BY <1>3, <1>4, <1>6 DEF CallerCalled

\* The lines at an address that a first line follows.
SiteLines(a) ==
  {m \in DOMAIN log : m + 1 \in DOMAIN log /\ log[m].addr = a /\ IsFirst(log[m + 1].addr)}

\* A line at a call site gives the call to the function of the line, and the trace
\* shows both ends unless the disassembly names the callee.
LEMMA SitePair ==
  ASSUME ExecInv, NEW k \in DOMAIN log, log[k].addr \in DOMAIN CallSites(Trace)
  PROVE  LET a == log[k].addr
             p == CallSites(Trace)[a]
         IN  /\ a \in DOMAIN AddrCallerCalled => p = AddrCallerCalled[a] /\ p = <<Func(k), p[2]>>
             /\ a \notin DOMAIN AddrCallerCalled =>
                  \E m \in SiteLines(a) :
                    p = <<Func(k), Func(m + 1)>> /\ \A j \in SiteLines(a) : m <= j
<1> DEFINE a == log[k].addr
           S == {m \in CallLines(Trace) : Trace[m] = a}
<1>1. /\ Len(log) \in Nat /\ DOMAIN log = 1..Len(log) /\ DOMAIN Trace = 1..Len(log)
      /\ \A m \in 1..Len(log) : Trace[m] = log[m].addr
  BY TraceType
<1>2. CASE a \in DOMAIN AddrCallerCalled
  <2>1. CallSites(Trace)[a] = AddrCallerCalled[a]
    BY <1>2 DEF CallSites
  <2>2. AddrCallerCalled[a][1] = Func(k)
    BY <1>2, SiteCaller DEF Func
  <2>3. AddrCallerCalled[a] \in Caller \X Called
    BY <1>2, SitesOfListing
  <2>4. AddrCallerCalled[a] = <<AddrCallerCalled[a][1], AddrCallerCalled[a][2]>>
    BY <2>3
  <2>5. QED
    BY <1>2, <2>1, <2>2, <2>4
<1>3. CASE a \notin DOMAIN AddrCallerCalled
  <2>1. CallSites(Trace)[a] = Transfer(Trace, Earliest(S))
    BY <1>3 DEF CallSites
  <2>2. S # {} /\ S \subseteq Nat
    BY <1>1, <1>3 DEF CallSites, CallLines
  <2>3. Earliest(S) \in S /\ \A j \in S : Earliest(S) <= j
    <3> HIDE DEF S
    <3> QED BY <2>2, LeastExists DEF Earliest
  <2>4. PICK m \in S : CallSites(Trace)[a] = Transfer(Trace, m) /\ \A j \in S : m <= j
    BY <2>1, <2>2, <2>3
  <2>5. S = SiteLines(a)
    BY <1>1 DEF CallLines, SiteLines
  <2>6. Transfer(Trace, m) = <<Func(k), Func(m + 1)>>
    BY <1>1, <2>5 DEF Transfer, Func, SiteLines
  <2>7. QED
    BY <1>3, <2>4, <2>5, <2>6
<1>4. QED
  BY <1>2, <1>3

\* In a tidy execution the trace shows both ends of every call.
LEMMA TidyCall ==
  ASSUME ExecInv, Frozen, stage # "idle", Tidy, NEW k \in 1..(Len(log) - 1), IsCall(k)
  PROVE  LET p == sites[lines[k].addr]
         IN  /\ p[1] = Func(k)
             /\ \E j \in DOMAIN log \ {1} :
                  /\ p = <<Func(k), Func(j)>> /\ IsFirst(log[j].addr)
                  /\ log[j - 1].addr = log[k].addr
<1> DEFINE a == log[k].addr
           p == CallSites(Trace)[a]
<1>1. /\ Len(lines) = Len(log) /\ Len(log) \in Nat /\ DOMAIN log = 1..Len(log)
      /\ lines[k].addr = a /\ lines[k + 1].first = IsFirst(log[k + 1].addr)
  BY MarkedLines
<1>2. k \in DOMAIN log /\ k + 1 \in DOMAIN log /\ (k + 1) - 1 = k /\ k + 1 # 1 /\ k \in Nat
  BY <1>1
<1>3. a \in DOMAIN CallSites(Trace) /\ IsFirst(log[k + 1].addr) /\ sites[lines[k].addr] = p
  BY <1>1 DEF IsCall, Frozen
<1>4. CASE a \in DOMAIN AddrCallerCalled
  <2>1. p = AddrCallerCalled[a] /\ p = <<Func(k), p[2]>>
    BY <1>2, <1>3, <1>4, SitePair
  <2>2. AddrCallerCalled[a][2] = Func(k + 1)
    BY <1>2, <1>3, <1>4 DEF Tidy, LabelsTell
  <2> HIDE DEF p
  <2>3. QED
    BY <1>2, <1>3, <2>1, <2>2
<1>5. CASE a \notin DOMAIN AddrCallerCalled
  <2>1. PICK m \in SiteLines(a) : p = <<Func(k), Func(m + 1)>>
    BY <1>2, <1>3, <1>5, SitePair
  <2>2. /\ m + 1 \in DOMAIN log /\ log[m].addr = a /\ IsFirst(log[m + 1].addr)
        /\ (m + 1) - 1 = m /\ m + 1 # 1
    BY <1>1, <2>1 DEF SiteLines
  <2> HIDE DEF p
  <2>3. QED
    BY <1>3, <2>1, <2>2
<1>6. QED
  BY <1>4, <1>5

\* Only calls enter a function after the first line of a tidy execution.
LEMMA TidyEntered ==
  ASSUME ExecInv, Tidy, NoRestart, NEW n \in Nat, n # 0, n + 1 \in DOMAIN log
  PROVE  /\ IsFirst(log[n + 1].addr) => log[n + 1].via = "call"
         /\ log[n + 1].via = "call" /\ Func(n + 1) # NoFunc => IsFirst(log[n + 1].addr)
<1>1. Orderly /\ OneSession /\ handlers = {}
  BY DEF Tidy
<1>2. Follows(log[n], log[n + 1], handlers)
  BY <1>1, TwoLines
<1>3. log[n + 1].via \notin {"entry", "trap"}
  BY <1>1, <1>2 DEF Follows
<1>4. QED
  BY <1>1, <1>3, FirstIsEntered

\* What a function of the code calls is a function of the code.
LEMMA CalleeIsFirst ==
  ASSUME ExecInv, Tidy, NoRestart, NEW n \in Nat, n # 0, n + 1 \in DOMAIN log,
         log[n + 1].via = "call", Func(n) # NoFunc
  PROVE  IsFirst(log[n + 1].addr)
<1>1. ~Begins(n + 1) /\ (n + 1) - 1 = n
  BY TwoLines DEF Tidy
<1>2. Func(n + 1) # NoFunc
  BY <1>1 DEF Tidy, Orderly
<1>3. QED
  BY <1>2, TidyEntered

\* The edge of a call leads to the function that was called there first.
LEMMA FirstOfSite ==
  ASSUME ExecInv, Frozen, stage # "idle", Tidy, NoRestart, NEW k \in 1..(Len(log) - 1),
         IsCall(k), Func(k) # NoFunc
  PROVE  sites[lines[k].addr] = <<Func(k), FirstCallee(k + 1)>>
<1> DEFINE a == log[k].addr
           p == CallSites(Trace)[a]
           J == {j \in DOMAIN log \ {1} : log[j].via = "call" /\ log[j - 1].addr = log[(k + 1) - 1].addr}
<1>1. /\ Len(log) \in Nat /\ DOMAIN log = 1..Len(log)
      /\ lines[k].addr = a /\ lines[k + 1].first = IsFirst(log[k + 1].addr)
  BY MarkedLines
<1>2. k \in DOMAIN log /\ k + 1 \in DOMAIN log /\ (k + 1) - 1 = k /\ k + 1 # 1 /\ k \in Nat /\ k # 0
  BY <1>1
<1>3. a \in DOMAIN CallSites(Trace) /\ IsFirst(log[k + 1].addr) /\ sites[lines[k].addr] = p
  BY <1>1 DEF IsCall, Frozen
<1>4. \A j \in J : j - 1 \in SiteLines(a) /\ (j - 1) + 1 = j
  <2>1. SUFFICES ASSUME NEW j \in J PROVE j - 1 \in SiteLines(a) /\ (j - 1) + 1 = j
    OBVIOUS
  <2>2. PICK m \in Nat : m = j - 1 /\ m # 0 /\ m + 1 = j
    BY <1>1
  <2>3. m \in DOMAIN log /\ log[m].addr = a /\ log[m + 1].via = "call" /\ m + 1 \in DOMAIN log
    BY <1>1, <1>2, <2>2
  <2>4. Func(m) # NoFunc
    BY <2>3 DEF Func
  <2>5. QED
    BY <2>2, <2>3, <2>4, CalleeIsFirst DEF SiteLines
<1>5. \A m \in SiteLines(a) : m + 1 \in J
  <2>1. SUFFICES ASSUME NEW m \in SiteLines(a) PROVE m + 1 \in J
    OBVIOUS
  <2>2. /\ m \in Nat /\ m # 0 /\ m + 1 \in DOMAIN log \ {1} /\ (m + 1) - 1 = m
        /\ log[m].addr = a /\ IsFirst(log[m + 1].addr)
    BY <1>1 DEF SiteLines
  <2>3. QED
    BY <1>2, <2>2, TidyEntered
<1>6. k + 1 \in J
  BY <1>2, <1>3, <1>5 DEF SiteLines
<1>7. Earliest(J) \in J /\ \A j \in J : Earliest(J) <= j
  <2>1. J \subseteq Nat /\ J # {}
    BY <1>1, <1>6
  <2> HIDE DEF J
  <2>2. QED
    BY <2>1, LeastExists DEF Earliest
<1>8. FirstCallee(k + 1) = Func(Earliest(J))
  BY DEF FirstCallee
<1> HIDE DEF J
<1>9. PICK e \in J : e = Earliest(J) /\ \A j \in J : e <= j
  BY <1>7
<1>10. e - 1 \in SiteLines(a) /\ (e - 1) + 1 = e /\ e \in DOMAIN log \ {1} /\ e \in Nat
  BY <1>1, <1>4, <1>9 DEF J
<1>11. CASE a \in DOMAIN AddrCallerCalled
  <2>1. p = AddrCallerCalled[a] /\ p = <<Func(k), p[2]>>
    BY <1>2, <1>3, <1>11, SitePair
  <2>2. AddrCallerCalled[a][2] = Func(e)
    BY <1>10, <1>11 DEF Tidy, LabelsTell, SiteLines
  <2> HIDE DEF p
  <2>3. QED
    BY <1>3, <1>8, <1>9, <2>1, <2>2
<1>12. CASE a \notin DOMAIN AddrCallerCalled
  <2>1. PICK m \in SiteLines(a) :
          p = <<Func(k), Func(m + 1)>> /\ \A j \in SiteLines(a) : m <= j
    BY <1>2, <1>3, <1>12, SitePair
  <2>2. m + 1 \in J /\ m <= e - 1 /\ m \in Nat
    BY <1>1, <1>5, <1>10, <2>1 DEF SiteLines
  <2>3. e <= m + 1
    BY <1>9, <2>2
  <2>4. e = m + 1
    BY <1>10, <2>2, <2>3
  <2> HIDE DEF p
  <2>5. QED
    BY <1>3, <1>8, <1>9, <2>1, <2>4
<1>13. QED
  BY <1>11, <1>12

----------------------------------------------------------------------------
\* For every listing and every execution of it.

\* The time column is the time the function was on the stack, after every line of
\* the first pass: a stack is rebuilt from addresses that only say "first line" and
\* "last line" (calculateTotalExecTime), and handlers do not disturb the others.
THEOREM TimeIsRebuilt == PipelineSpec => []TimeIsInclusive
<1>1. PipelineInv => TimeIsInclusive
  BY DEF PipelineInv, TimeInv, TimeIsInclusive
<1>2. QED
  BY <1>1, PipelineInvariance, PTL

\* The called column is the number of times the function was entered, traps and
\* cut off sessions included (calculateSelfExecTime's use of the first lines).
THEOREM CalledIsRebuilt == PipelineSpec => []CalledIsEntries
<1>1. ASSUME PipelineInv, Orderly, NoRestart, NEW f \in CodeFuncs
      PROVE  timesCalledMap[f] = Entries(f, Seen("self"))
  <2>1. PICK n : n = Seen("self")
    OBVIOUS
  <2>2. n \in 0..Len(log) /\ (n # 0 => stage # "idle")
    BY <1>1, <2>1, SeenLines
  <2>3. timesCalledMap[f] = Cardinality(CalledLines(f, n))
    BY <1>1, <2>1 DEF PipelineInv, Counts, CalledCounted, Caller
  <2>4. CalledLines(f, n) = {k \in 1..n : log[k].via \in {"entry", "call", "trap"} /\ Func(k) = f}
    <3>1. ASSUME NEW k \in 1..n
          PROVE  lines[k].first /\ lines[k].func = f
                   <=> log[k].via \in {"entry", "call", "trap"} /\ Func(k) = f
      <4>1. Len(log) \in Nat /\ DOMAIN log = 1..Len(log) /\ k \in 1..Len(log) /\ stage # "idle"
        BY <1>1, <2>2, TraceType DEF PipelineInv
      <4>2. lines[k].func = Func(k) /\ lines[k].first = IsFirst(log[k].addr)
        BY <1>1, <4>1, MarkedLines DEF PipelineInv
      <4>3. f # NoFunc
        BY CodeFuncsType, ObjdumpAssumption
      <4>4. /\ IsFirst(log[k].addr) => log[k].via \in {"entry", "call", "trap"}
            /\ log[k].via \in {"entry", "call", "trap"} /\ Func(k) # NoFunc => IsFirst(log[k].addr)
        BY <1>1, <4>1, FirstIsEntered DEF PipelineInv
      <4>5. QED
        BY <4>2, <4>3, <4>4
    <3>2. QED
      BY <3>1 DEF CalledLines
  <2>5. QED
    BY <2>1, <2>3, <2>4 DEF Entries
<1>2. PipelineInv => CalledIsEntries
  BY <1>1 DEF CalledIsEntries
<1>3. QED
  BY <1>2, PipelineInvariance, PTL

\* Opening a project ends with a table and a graph when the labels of the
\* disassembly tell the truth: both functions of a counted pair have lines, so the
\* at() of a label finds them (getGraphCode).
THEOREM TidyOpens == PipelineSpec => []TidyOpeningEnds
<1>1. ASSUME PipelineInv, Tidy, stage = "out_of_range" PROVE FALSE
  <2>1. PICK f \in Nodes : \A k \in DOMAIN lines : lines[k].func # f
    BY <1>1 DEF PipelineInv, Inv, FailsOnlyOnUntraced
  <2>2. PICK p \in Caller \X Called : timesCalledByMap[p] > 0 /\ f \in {p[1], p[2]}
    BY <2>1 DEF Nodes, Counted
  <2>3. timesCalledByMap[p] = Cardinality(CallsOf(p, Len(log)))
    BY <1>1, SeenLines DEF PipelineInv, Counts, ByCounted
  <2>4. CallsOf(p, Len(log)) # {}
    <3>1. PICK S : S = CallsOf(p, Len(log))
      OBVIOUS
    <3>2. Cardinality(S) > 0
      BY <2>2, <2>3, <3>1
    <3>3. S # {}
      BY <3>2, FS_EmptySet
    <3>4. QED
      BY <3>1, <3>3
  <2>5. PICK k \in 1..Len(log) : IsCall(k) /\ sites[lines[k].addr] = p
    BY <2>4 DEF CallsOf
  <2>6. /\ ExecInv /\ Frozen /\ stage # "idle"
        /\ Len(lines) = Len(log) /\ Len(log) \in Nat /\ DOMAIN log = 1..Len(log)
        /\ \A j \in 1..Len(log) : lines[j].func = Func(j)
    BY <1>1, MarkedLines DEF PipelineInv
  <2>7. k \in 1..(Len(log) - 1)
    BY <2>5, <2>6 DEF IsCall
  <2>8. PICK j \in DOMAIN log : p = <<Func(k), Func(j)>>
    BY <1>1, <2>5, <2>6, <2>7, TidyCall
  <2>9. f = Func(k) \/ f = Func(j)
    BY <2>2, <2>8
  <2>10. DOMAIN lines = 1..Len(lines)
    BY <1>1 DEF PipelineInv, Inv, TypeOK
  <2>11. QED
    BY <2>1, <2>5, <2>6, <2>8, <2>9, <2>10
<1>2. PipelineInv => TidyOpeningEnds
  BY <1>1 DEF TidyOpeningEnds, OpeningEnds
<1>3. QED
  BY <1>2, PipelineInvariance, PTL

\* The weight of an edge is the number of calls at its places, an indirect call's too,
\* which the trace alone explains and which keeps the first function it was seen to
\* call (markCallLines, calculateTotalCalledBy).
THEOREM EdgesAreRebuilt == PipelineSpec => []EdgesAreCalls
<1>1. ASSUME PipelineInv, Tidy, NoRestart, stage \in {"table", "graph", "done"},
             NEW f \in CodeFuncs, NEW g \in CodeFuncs
      PROVE  timesCalledByMap[<<f, g>>] = CallsFromTo(f, g)
  <2> DEFINE S == CallsOf(<<f, g>>, Len(log))
             T == {k \in DOMAIN log \ {1} :
                     LET s == log[k].stack
                     IN  log[k].via = "call" /\ s[Len(s) - 1] = f /\ FirstCallee(k) = g}
  <2>1. /\ ExecInv /\ Frozen /\ stage # "idle" /\ Orderly /\ OneSession
        /\ Len(lines) = Len(log) /\ Len(log) \in Nat /\ DOMAIN log = 1..Len(log)
        /\ \A j \in 1..Len(log) : lines[j].addr = log[j].addr /\ lines[j].first = IsFirst(log[j].addr)
    BY <1>1, MarkedLines DEF PipelineInv, Tidy
  <2>2. timesCalledByMap[<<f, g>>] = Cardinality(S)
    <3>1. <<f, g>> \in Caller \X Called
      BY CodeFuncsType DEF Caller, Called
    <3>2. Seen("by") = Len(log)
      BY <1>1, SeenLines
    <3>3. QED
      BY <1>1, <3>1, <3>2 DEF PipelineInv, Counts, ByCounted
  <2>3. f # NoFunc
    BY CodeFuncsType, ObjdumpAssumption
  <2>4. ASSUME NEW k \in S PROVE k + 1 \in T
    <3>1. k \in 1..(Len(log) - 1) /\ IsCall(k) /\ sites[lines[k].addr] = <<f, g>>
      BY <2>1 DEF CallsOf, IsCall
    <3>2. k \in Nat /\ k # 0 /\ k + 1 \in DOMAIN log \ {1} /\ IsFirst(log[k + 1].addr)
      BY <2>1, <3>1 DEF IsCall
    <3>3. Func(k) = f
      BY <1>1, <2>1, <3>1, TidyCall
    <3>4. FirstCallee(k + 1) = g
      BY <1>1, <2>1, <2>3, <3>1, <3>3, FirstOfSite
    <3>5. log[k + 1].via = "call"
      BY <1>1, <2>1, <3>2, TidyEntered
    <3>6. QED
      BY <2>1, <3>2, <3>3, <3>4, <3>5, CallStack
  <2>5. ASSUME NEW j \in T PROVE j - 1 \in S
    <3>1. j \in DOMAIN log /\ j # 1 /\ log[j].via = "call" /\ FirstCallee(j) = g
      OBVIOUS
    <3>2. PICK k \in Nat : k = j - 1 /\ k # 0 /\ k + 1 = j /\ k \in 1..(Len(log) - 1)
      BY <2>1, <3>1
    <3>3. Func(k) = f
      <4>1. LET s == log[j].stack IN s[Len(s) - 1] = f
        OBVIOUS
      <4>2. LET s == log[k + 1].stack IN s[Len(s) - 1] = Func(k)
        BY <2>1, <3>1, <3>2, CallStack
      <4>3. QED
        BY <3>2, <4>1, <4>2
    <3>4. IsFirst(log[k + 1].addr)
      BY <1>1, <2>1, <2>3, <3>1, <3>2, <3>3, CalleeIsFirst
    <3>5. IsCall(k)
      <4>1. /\ DOMAIN Trace = 1..Len(log) /\ \A m \in 1..Len(log) : Trace[m] = log[m].addr
        BY <2>1, TraceType
      <4>2. k \in CallLines(Trace)
        BY <2>1, <3>2, <3>4, <4>1 DEF CallLines
      <4>3. log[k].addr \in DOMAIN CallSites(Trace)
        BY <2>1, <3>2, <4>1, <4>2 DEF CallSites
      <4>4. QED
        BY <2>1, <3>2, <3>4, <4>3 DEF IsCall, Frozen
    <3>6. sites[lines[k].addr] = <<f, g>>
      BY <1>1, <2>1, <2>3, <3>1, <3>2, <3>3, <3>5, FirstOfSite
    <3>7. QED
      BY <2>1, <3>2, <3>5, <3>6 DEF CallsOf
  <2>6. S \subseteq 1..Len(log) /\ T \subseteq 1..Len(log)
    BY <2>1 DEF CallsOf
  <2> HIDE DEF S, T
  <2>7. Cardinality(S) = Cardinality(T)
    BY <2>1, <2>4, <2>5, <2>6, Shifted
  <2>8. QED
    BY <2>2, <2>7 DEF T, CallsFromTo
<1>2. PipelineInv => EdgesAreCalls
  BY <1>1 DEF EdgesAreCalls
<1>3. QED
  BY <1>2, PipelineInvariance, PTL

\* An int holds every number up to MaxInt.
LEMMA Int32Small ==
  ASSUME NEW n \in 0..MaxInt
  PROVE  Int32(n) = n
<1> DEFINE w == MaxInt + 1
<1>1. w \in Nat /\ n + w \in Nat /\ n + w < 2 * w
  BY AnalyzerAssumption
<1>2. (n + w) % (2 * w) = n + w
  <2>1. \A x, y \in Nat : x < y => x % y = x
    OBVIOUS
  <2> HIDE DEF w
  <2>2. QED
    BY <1>1, <2>1
<1>3. QED
  BY <1>2, AnalyzerAssumption DEF Int32

\* A part of the lines is at most 100 percent of them.
LEMMA PercentRange ==
  ASSUME NEW d \in Nat, d # 0, NEW n \in 0..d
  PROVE  Quot(n * 100, d) \in 0..100
<1>1. n * 100 \in 0..(100 * d)
  OBVIOUS
<1>2. PICK m \in Nat : m = n * 100
  BY <1>1
<1>3. m \div d \in Nat /\ d * (m \div d) <= m
  OBVIOUS
<1>4. PICK q \in Nat : q = m \div d
  BY <1>3
<1>5. d * q <= 100 * d
  BY <1>1, <1>2, <1>3, <1>4
<1>6. q <= 100
  <2>1. ASSUME q >= 101 PROVE d * q >= d * 101
    BY <2>1
  <2>2. QED
    BY <1>5, <2>1
<1>7. QED
  BY <1>2, <1>4, <1>6 DEF Quot

\* The columns headed "(%)" are percentages when the stack can be rebuilt: the self
\* time is then a part of the time, and the time a part of the lines, so that no
\* product wraps around in the int of the percent column.
THEOREM TidyTableIsSane == PipelineSpec => []TidyPercentages
<1>1. ASSUME PipelineInv, Tidy, Fits, NEW r \in table
      PROVE  r.percent \in 0..100 /\ r.children \in 0..100 /\ r.self \in 0..100
  <2> DEFINE L == Len(lines)
  <2>1. stage \in {"graph", "done", "out_of_range"} /\ r \in TableRows
    BY <1>1 DEF PipelineInv, RowsInv
  <2>2. /\ ExecInv /\ Orderly /\ OneSession /\ handlers = {}
        /\ L = Len(log) /\ L \in Nat /\ DOMAIN log = 1..L
        /\ \A k \in 1..L : lines[k].func = Func(k)
    BY <1>1, <2>1, MarkedLines DEF PipelineInv, Tidy
  <2>3. PICK f \in CodeFuncs : Int32(execTimeMapTotal[f]) # 0 /\ r = Row(f)
    BY <2>1 DEF TableRows
  <2>4. Seen("total") = L /\ Seen("self") = L
    BY <1>1, <2>1, <2>2, SeenLines
  <2>5. PICK total : total = execTimeMapTotal[f]
    OBVIOUS
  <2>6. PICK self : self = execTimeMapTotalSelf[f]
    OBVIOUS
  <2>7. total = Inclusive(f, L) /\ total \in 0..L
    BY <1>1, <2>2, <2>4, <2>5, InclusiveNext DEF PipelineInv, TimeInv
  <2>8. self = Cardinality(OwnLines(f, L))
    BY <1>1, <2>4, <2>6 DEF PipelineInv, Counts, SelfCounted
  <2>9. self \in 0..total
    <3> DEFINE A == {k \in 1..L : Active(f, k)}
    <3>1. ASSUME NEW k \in 1..L, lines[k].func = f PROVE Active(f, k)
      <4>1. k \in DOMAIN log /\ Func(k) = f
        BY <2>2, <3>1
      <4>2. /\ Len(log[k].stack) \in DOMAIN log[k].stack
            /\ Func(k) = log[k].stack[Len(log[k].stack)]
        BY <2>2, <4>1, LogLineType DEF Orderly
      <4>3. QED
        BY <4>1, <4>2 DEF Active
    <3>2. OwnLines(f, L) \subseteq A
      BY <3>1 DEF OwnLines
    <3>3. IsFiniteSet(1..L) /\ A \in SUBSET (1..L)
      BY <2>2, FS_Interval
    <3>4. IsFiniteSet(A)
      BY <3>3, FS_Subset
    <3>5. PICK O : O = OwnLines(f, L)
      OBVIOUS
    <3>6. O \in SUBSET A
      BY <3>2, <3>5
    <3>7. Cardinality(O) <= Cardinality(A) /\ Cardinality(O) \in Nat
      BY <3>4, <3>6, FS_Subset, FS_CardinalityType
    <3>8. Cardinality(A) = total
      BY <2>7 DEF Inclusive
    <3>9. QED
      BY <2>7, <2>8, <3>5, <3>7, <3>8
  <2>10. total * 100 \in 0..MaxInt /\ total \in 0..MaxInt
    BY <1>1, <2>2, <2>7, AnalyzerAssumption DEF Fits
  <2>11. Int32(total) = total /\ Int32(total * 100) = total * 100
    BY <2>10, Int32Small
  <2>12. L # 0
    BY <2>2, <2>3, <2>5, <2>7, <2>11
  <2>13. /\ r.percent = Quot(total * 100, L)
         /\ r.children = Quot((total - self) * 100, L)
         /\ r.self = Quot(self * 100, L)
    BY <2>3, <2>5, <2>6, <2>11 DEF Row, Percent
  <2>14. total - self \in 0..L /\ self \in 0..L
    BY <2>2, <2>7, <2>9
  <2>15. QED
    BY <2>2, <2>7, <2>12, <2>13, <2>14, PercentRange
<1>2. PipelineInv => TidyPercentages
  BY <1>1 DEF TidyPercentages, PercentagesInRange
<1>3. QED
  BY <1>2, PipelineInvariance, PTL
=============================================================================
