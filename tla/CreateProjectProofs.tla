------------------------ MODULE CreateProjectProofs ------------------------
(***************************************************************************)
(* Proofs about the "New project" window.  The button never being disabled *)
(* is harmless only because the lists of paths grow while it is enabled    *)
(* and are emptied together with it: that is the inductive invariant.      *)
(***************************************************************************)
EXTENDS CreateProject, SequenceTheorems, TLAPS

\* Types, an enabled button has a path in every field, and the chooser of Save
\* is open only while the button is enabled.
Inv ==
  /\ TypeOK
  /\ saveEnabled => \A p \in Field : Len(chosen[p]) > 0
  /\ saveChooser => saveEnabled

\* The window before it is opened (constructor of CreateProjectPanel).
LEMMA InitInv == Init => Inv
<1>1. NoPaths \in [Field -> Seq(File)]
  BY EmptySeq DEF NoPaths
<1>2. QED
  BY <1>1 DEF Init, Inv, TypeOK

\* Every handler of the window, and every result of a chooser, keeps it.
LEMMA NextInv == Inv /\ [Next]_vars => Inv'
<1> SUFFICES ASSUME Inv, [Next]_vars PROVE Inv'
  OBVIOUS
<1> USE DEF Inv
<1>1. CASE OpenWindow
  <2>1. NoPaths \in [Field -> Seq(File)]
    BY EmptySeq DEF NoPaths
  <2>2. QED
    BY <1>1, <2>1 DEF OpenWindow, TypeOK
<1>2. CASE CloseWindow
  BY <1>2 DEF CloseWindow, TypeOK
<1>3. CASE ClickSave
  BY <1>3 DEF ClickSave, TypeOK
<1>4. CASE SaveCancelled
  BY <1>4 DEF SaveCancelled, TypeOK
<1>5. CASE SaveReturns
  <2>1. Project(chosen) \in ProjectType
    BY <1>5 DEF SaveReturns, TypeOK, Project, ProjectType, Field
  <2>2. QED
    BY <1>5, <2>1 DEF SaveReturns, TypeOK
<1>6. CASE DismissCongrats
  BY <1>6 DEF DismissCongrats, TypeOK
<1>7. ASSUME NEW p \in Field, ClickChoose(p) PROVE Inv'
  BY <1>7 DEF ClickChoose, TypeOK
<1>8. ASSUME NEW p \in Field, ChooserReturns(p) PROVE Inv'
  <2>1. PICK fs \in Results(p) : AddPaths(p, fs)
    BY <1>8 DEF ChooserReturns
  <2>2. fs \in Seq(File)
    BY DEF Results
  <2>3. chosen' \in [Field -> Seq(File)]
    BY <2>1, <2>2 DEF AddPaths, TypeOK
  <2>4. \A q \in Field : Len(chosen'[q]) >= Len(chosen[q])
    BY <2>1, <2>2 DEF AddPaths, TypeOK
  <2>5. Ready(chosen') => \A q \in Field : Len(chosen'[q]) > 0
    BY DEF Ready
  <2>6. QED
    BY <1>8, <2>1, <2>3, <2>4, <2>5 DEF ChooserReturns, AddPaths, TypeOK
<1>9. CASE UNCHANGED vars
  BY <1>9 DEF vars, TypeOK
<1>10. QED
  BY <1>1, <1>2, <1>3, <1>4, <1>5, <1>6, <1>7, <1>8, <1>9 DEF Next

\* The fields, the choosers and what was saved have their types in every
\* reachable state.
THEOREM TypeCorrect == Spec => []TypeOK
<1>1. Inv => TypeOK
  BY DEF Inv
<1>2. QED
  BY <1>1, InitInv, NextInv, PTL DEF Spec

\* However late the chooser of Save returns, saveProject reads a path that was
\* collected: tracePath[0], objdumpPath[0] and at least one code path exist.
THEOREM SaveSafe == Spec => []SaveReadsExistingPaths
<1>1. Inv => SaveReadsExistingPaths
  BY DEF Inv, SaveReadsExistingPaths
<1>2. QED
  BY <1>1, InitInv, NextInv, PTL DEF Spec

\* A window with two traces or two listings stays without Save, whatever choosers
\* return: refresh asks for exactly one of each, and nothing takes a path back.
THEOREM TwoPathsAreFinal == Spec => DeadEnd
<1>1. ASSUME Inv, [Next]_vars, ~saveEnabled, chosen' # NoPaths,
             NEW p \in Field \ {"code"}, Len(chosen[p]) > 1
      PROVE  ~saveEnabled'
  <2>1. CASE \E q \in Field : ChooserReturns(q)
    <3>1. PICK q \in Field : ChooserReturns(q)
      BY <2>1
    <3>2. PICK fs \in Results(q) : AddPaths(q, fs)
      BY <3>1 DEF ChooserReturns
    <3>3. fs \in Seq(File) /\ chosen \in [Field -> Seq(File)]
      <4>1. fs \in Seq(File)
        BY DEF Results
      <4>2. QED
        BY <1>1, <4>1 DEF Inv, TypeOK
    <3>4. Len(chosen'[p]) >= Len(chosen[p])
      BY <3>2, <3>3 DEF AddPaths
    <3>5. Len(chosen[p]) \in Nat /\ Len(chosen'[p]) \in Nat
      BY <3>2, <3>3 DEF AddPaths
    <3>6. p \in Field /\ p # "code" /\ Len(chosen'[p]) # 1
      <4>1. PICK m, n : m = Len(chosen[p]) /\ n = Len(chosen'[p])
        OBVIOUS
      <4>2. m \in Nat /\ n \in Nat /\ n >= m /\ m > 1
        BY <1>1, <3>4, <3>5, <4>1, Zenon
      <4>3. n # 1
        BY <4>2
      <4>4. QED
        BY <4>1, <4>3
    <3>7. ~Ready(chosen')
      BY <3>6 DEF Ready
    <3>8. QED
      BY <1>1, <3>2, <3>7 DEF AddPaths
  <2>2. CASE ~\E q \in Field : ChooserReturns(q)
    BY <1>1, <2>2 DEF Next, OpenWindow, CloseWindow, ClickSave, SaveCancelled, SaveReturns,
      DismissCongrats, ClickChoose, vars
  <2>3. QED
    BY <2>1, <2>2
<1>2. Inv /\ [Next]_vars =>
        [~saveEnabled /\ (\E p \in Field \ {"code"} : Len(chosen[p]) > 1) /\ chosen' # NoPaths
           => ~saveEnabled']_vars
  BY <1>1
<1>3. QED
  BY <1>2, InitInv, NextInv, PTL DEF Spec, DeadEnd
============================================================================
