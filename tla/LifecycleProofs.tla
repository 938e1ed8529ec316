-------------------------- MODULE LifecycleProofs --------------------------
(***************************************************************************)
(* Proofs about the main window.  What it shows and what it asks the user  *)
(* are tied together by the message queue: while a lambda is pending its   *)
(* waiting window blocks the menus, so no dialog can be started whose      *)
(* result the lambda would invalidate.                                     *)
(***************************************************************************)
EXTENDS Lifecycle, SequenceTheorems, TLAPS

\* The panels of an open project exist while the program runs.
OpenHasPanels ==
  status = "running" => (projectOpened => panels = Panels /\ project # NoFile)

\* One waiting window for each pending lambda.
OneWindowPerTask == status = "running" => loading = Len(queue)

\* At most one chooser is awaited: there is one `chooser` member.
OneChooser == choosers \in {{}, {"open"}, {"save"}}

\* While the chooser of Save is open no pending lambda reads a project.
NothingToOpen == "save" \in choosers => \A k \in DOMAIN queue : queue[k].do = "close"

\* At most one child window is on screen.
OneWindow == shown = {} \/ \E w \in Windows : shown = {w}

Inv ==
  /\ TypeOK
  /\ PanelsAreThere
  /\ EnabledWhenAlone
  /\ SaveWritesWhatWasOpen
  /\ OpenHasPanels
  /\ OneWindowPerTask
  /\ OneChooser
  /\ NothingToOpen
  /\ OneWindow

\* MainComponent as constructed: nothing open, nothing pending.
LEMMA InitInv == Init => Inv
<1> SUFFICES ASSUME Init PROVE Inv
  OBVIOUS
<1>1. <<>> \in Seq(Task) /\ Len(<<>>) = 0
  BY EmptySeq
<1>2. TypeOK
  BY <1>1 DEF Init, TypeOK
<1>3. QED
  BY <1>1, <1>2 DEF Init, Inv, PanelsAreThere, EnabledWhenAlone, SaveWritesWhatWasOpen,
    OpenHasPanels, OneWindowPerTask, OneChooser, NothingToOpen, OneWindow

\* Posting a lambda to the message queue lengthens it by that lambda.
LEMMA PostSound ==
  ASSUME Inv, status = "running", NEW task \in Task, Post(task)
  PROVE  /\ queue' \in Seq(Task)
         /\ loading' \in Nat
         /\ loading' = Len(queue')
         /\ \A k \in DOMAIN queue' : queue'[k] = task \/ (k \in DOMAIN queue /\ queue'[k] = queue[k])
<1>1. queue \in Seq(Task) /\ loading \in Nat /\ loading = Len(queue)
  BY DEF Inv, TypeOK, OneWindowPerTask
<1>2. queue' = Append(queue, task) /\ loading' = loading + 1
  BY DEF Post
<1>3. queue' \in Seq(Task) /\ Len(queue') = Len(queue) + 1
  BY <1>1, <1>2, AppendProperties
<1>4. \A k \in DOMAIN queue' : queue'[k] = task \/ (k \in DOMAIN queue /\ queue'[k] = queue[k])
  BY <1>1, <1>2, <1>3, AppendProperties
<1>5. QED
  BY <1>1, <1>2, <1>3, <1>4

\* The menus are usable only with no lambda pending and no window on screen.
LEMMA MenuMeansIdle ==
  ASSUME Inv, MenuUsable
  PROVE  status = "running" /\ queue = <<>> /\ shown = {}
BY EmptySeq DEF Inv, TypeOK, MenuUsable, Blocked, OneWindowPerTask, EnabledWhenAlone

\* The choosers of the menu, and their results, keep the invariant.
LEMMA ChooserInv ==
  ASSUME Inv, ChooseProjectFile \/ SaveProject \/ ChooserCancelled \/ SaveReturns
  PROVE  Inv'
<1> USE DEF Inv, TypeOK, PanelsAreThere, EnabledWhenAlone, SaveWritesWhatWasOpen,
            OpenHasPanels, OneWindowPerTask, OneChooser, NothingToOpen, OneWindow,
            opened, work, window, dialog
<1>1. CASE ChooseProjectFile
  BY <1>1 DEF ChooseProjectFile, Launch
<1>2. CASE SaveProject
  BY <1>2, MenuMeansIdle DEF SaveProject, Launch
<1>3. CASE ChooserCancelled
  BY <1>3 DEF ChooserCancelled
<1>4. CASE SaveReturns
  BY <1>4 DEF SaveReturns
<1>5. QED
  BY <1>1, <1>2, <1>3, <1>4

\* Asking for a file, or for the project to be closed, posts one lambda.
LEMMA PostInv ==
  ASSUME Inv, CloseProjectFile \/ \E f \in File : OpenReturns(f)
  PROVE  Inv'
<1> USE DEF Inv, TypeOK, PanelsAreThere, EnabledWhenAlone, SaveWritesWhatWasOpen,
            OpenHasPanels, OneWindowPerTask, OneChooser, NothingToOpen, OneWindow,
            opened, window, dialog
<1>1. CASE CloseProjectFile
  <2>1. [do |-> "close", file |-> NoFile] \in Task
    BY DEF Task
  <2>2. QED
    BY <1>1, <2>1, PostSound, MenuMeansIdle DEF CloseProjectFile
<1>2. ASSUME NEW f \in File, OpenReturns(f) PROVE Inv'
  <2>1. [do |-> "open", file |-> f] \in Task
    BY DEF Task
  <2>2. choosers' = {}
    BY <1>2 DEF OpenReturns
  <2>3. /\ queue' \in Seq(Task)
        /\ loading' \in Nat
        /\ loading' = Len(queue')
    BY <1>2, <2>1, PostSound DEF OpenReturns
  <2>4. QED
    BY <1>2, <2>2, <2>3 DEF OpenReturns
<1>3. QED
  BY <1>1, <1>2

\* The lambda of openProjectFile or closeProjectFile keeps the invariant: it
\* replaces the project only when no chooser of Save is waiting.
LEMMA RunTaskInv == Inv /\ RunTask => Inv'
<1> SUFFICES ASSUME Inv, RunTask PROVE Inv'
  OBVIOUS
<1> USE DEF Inv, TypeOK
<1> DEFINE task == Head(queue)
<1>1. /\ Len(queue) > 0 /\ task \in Task /\ task = queue[1]
      /\ queue' \in Seq(Task) /\ Len(queue') = Len(queue) - 1
      /\ \A k \in DOMAIN queue' : k + 1 \in DOMAIN queue /\ queue'[k] = queue[k + 1]
  BY EmptySeq DEF RunTask
<1>2. /\ status = "running" /\ loading = Len(queue) /\ loading > 0
  BY <1>1 DEF RunTask, OneWindowPerTask
<1>3. /\ UNCHANGED <<currentProjectFile, choosers, saving, shown, enabled>>
      /\ loading' \in Nat
      /\ status' = "running" => loading' = loading - 1
  BY <1>1, <1>2 DEF RunTask, Done, dialog, window
<1>4. CASE task.do = "open"
  <2>1. Opened(task.file) /\ task.file \in File
    BY <1>1, <1>4 DEF RunTask, Task
  <2>2. "save" \notin choosers
    BY <1>1, <1>4 DEF NothingToOpen
  <2>3. task.file # NoFile
    BY <2>1, LifecycleAssumption
  <2>4. /\ status' \in {"running", "parse_error", "uncaught"}
        /\ projectOpened' \in BOOLEAN /\ panels' \subseteq Panels
        /\ project' \in File \cup {NoFile} /\ alert' \in BOOLEAN
        /\ OpenHasPanels'
    <3>1. CASE projectOpened' = TRUE /\ panels' = Panels /\ project' = task.file
               /\ UNCHANGED <<status, alert>>
      BY <1>2, <2>1, <2>3, <3>1 DEF OpenHasPanels
    <3>2. CASE alert' = TRUE /\ UNCHANGED <<status, opened>>
      BY <1>2, <3>2 DEF OpenHasPanels, opened
    <3>3. CASE status' = "parse_error" /\ UNCHANGED <<opened, alert>>
      BY <3>3 DEF OpenHasPanels, opened
    <3>4. CASE /\ status' = "uncaught" /\ panels' = {} /\ project' = task.file
               /\ UNCHANGED <<projectOpened, alert>>
      BY <2>1, <3>4 DEF OpenHasPanels
    <3>5. QED
      BY <2>1, <3>1, <3>2, <3>3, <3>4 DEF Opened, Built, Refused, Threw
  <2>5. QED
    BY <1>1, <1>2, <1>3, <2>2, <2>4
    DEF PanelsAreThere, EnabledWhenAlone, SaveWritesWhatWasOpen,
        OneWindowPerTask, OneChooser, NothingToOpen, OneWindow
<1>5. CASE task.do # "open"
  <2>1. Closed
    BY <1>5 DEF RunTask
  <2>2. QED
    BY <1>1, <1>2, <1>3, <2>1
    DEF Closed, PanelsAreThere, EnabledWhenAlone, SaveWritesWhatWasOpen, OpenHasPanels,
        OneWindowPerTask, OneChooser, NothingToOpen, OneWindow
<1>6. QED
  BY <1>4, <1>5

\* The windows, and the calls that go through the panels, keep it.
LEMMA WindowInv ==
  ASSUME Inv,
         DismissAlert \/ SaveSettings \/ Resized \/ \E w \in Windows : Show(w) \/ CloseWindow(w)
  PROVE  Inv'
<1> USE DEF Inv, TypeOK, PanelsAreThere, EnabledWhenAlone, SaveWritesWhatWasOpen,
            OpenHasPanels, OneWindowPerTask, OneChooser, NothingToOpen, OneWindow,
            opened, work, window, dialog
<1>1. CASE DismissAlert
  BY <1>1 DEF DismissAlert
<1>2. CASE SaveSettings
  <2>1. status' = "running"
    BY <1>2 DEF SaveSettings, UsePanels
  <2>2. shown' = {} /\ enabled'
    BY <1>2 DEF SaveSettings, Hide, Windows
  <2>3. QED
    BY <1>2, <2>1, <2>2 DEF SaveSettings
<1>3. CASE Resized
  <2>1. status' = "running"
    BY <1>3 DEF Resized, UsePanels
  <2>2. QED
    BY <1>3, <2>1 DEF Resized
<1>4. ASSUME NEW w \in Windows, Show(w) PROVE Inv'
  <2>1. shown' = {w} /\ ~enabled'
    BY <1>4, MenuMeansIdle DEF Show
  <2>2. QED
    BY <1>4, <2>1 DEF Show
<1>5. ASSUME NEW w \in Windows, CloseWindow(w) PROVE Inv'
  <2>1. shown' = {} /\ enabled'
    BY <1>5 DEF CloseWindow, Hide
  <2>2. QED
    BY <1>5, <2>1 DEF CloseWindow
<1>6. QED
  BY <1>1, <1>2, <1>3, <1>4, <1>5

\* Every step of the program keeps the invariant.
LEMMA NextInv == Inv /\ [Next]_vars => Inv'
<1> SUFFICES ASSUME Inv, [Next]_vars PROVE Inv'
  OBVIOUS
<1>1. CASE Next
  BY <1>1, ChooserInv, PostInv, RunTaskInv, WindowInv DEF Next
<1>2. CASE UNCHANGED vars
  BY <1>2 DEF vars, opened, dialog, work, window, Inv, TypeOK, PanelsAreThere,
    EnabledWhenAlone, SaveWritesWhatWasOpen, OpenHasPanels, OneWindowPerTask,
    OneChooser, NothingToOpen, OneWindow
<1>3. QED
  BY <1>1, <1>2

\* The invariant holds in every reachable state.
LEMMA Invariance == Spec => []Inv
BY InitInv, NextInv, PTL DEF Spec

\* The members of MainComponent have their types, and no waiting window is taken
\* down twice.
THEOREM TypeCorrect == Spec => []TypeOK
<1>1. Inv => TypeOK
  BY DEF Inv
<1>2. QED
  BY <1>1, Invariance, PTL

\* resizeRealSections and setFontSizes never call through a null panel, for all
\* that closeProjectFile deletes the panels from a posted lambda.
THEOREM PanelsNeverMissing == Spec => []PanelsAreThere
<1>1. Inv => PanelsAreThere
  BY DEF Inv
<1>2. QED
  BY <1>1, Invariance, PTL

\* The flag set by componentVisibilityChanged tells whether a window is shown,
\* although it does not count the windows.
THEOREM EnabledIsRight == Spec => []EnabledWhenAlone
<1>1. Inv => EnabledWhenAlone
  BY DEF Inv
<1>2. QED
  BY <1>1, Invariance, PTL

\* The lambda of saveProject reads the member `project` when the chooser returns:
\* it is still the project for which Save was chosen.
THEOREM SaveIsRight == Spec => []SaveWritesWhatWasOpen
<1>1. Inv => SaveWritesWhatWasOpen
  BY DEF Inv
<1>2. QED
  BY <1>1, Invariance, PTL

----------------------------------------------------------------------------
(***************************************************************************)
(* What there is to prove of WaitingEnds without fairness: while a waiting *)
(* window is up there is a lambda to run, each one that runs brings the    *)
(* end nearer, and nothing that happens meanwhile puts it off.             *)
(***************************************************************************)
Waiting == status = "running" /\ loading > 0

\* The lambdas that may still run before the menus are usable: those posted, and the
\* one that the result of an awaited chooser posts (weighed 2: it leaves a lambda).
Left == Len(queue) + IF "open" \in choosers THEN 2 ELSE 0

\* The main window is never blocked by "Please, wait" with nothing left to run.
WaitingHasWork == Waiting => queue # <<>> /\ Left > 0

\* A step of the program that leaves it waiting.
Nearer == Waiting /\ status' = "running" => Left' <= Left /\ (RunTask => Left' < Left)

\* A lambda takes itself from the queue and posts no other.
LEMMA TaskIsNearer ==
  ASSUME Inv, RunTask
  PROVE  Left' < Left
<1>1. queue \in Seq(Task) /\ queue # <<>> /\ queue' = Tail(queue) /\ choosers' = choosers
  BY DEF Inv, TypeOK, RunTask, dialog
<1>2. Len(queue) \in Nat /\ Len(queue') = Len(queue) - 1
  BY <1>1, EmptySeq, HeadTailProperties
<1>3. QED
  BY <1>1, <1>2 DEF Left

\* While the user is asked to wait the menus are not usable: no chooser is launched and
\* no project closed. The chooser that is already there may return, once.
LEMMA OtherIsNoFarther ==
  ASSUME Inv, Waiting, Next, ~RunTask
  PROVE  Left' <= Left
<1>1. ~MenuUsable
  BY DEF MenuUsable, Blocked, Waiting
<1>2. queue \in Seq(Task) /\ Len(queue) \in Nat
  BY LenProperties DEF Inv, TypeOK
<1>3. CASE ChooserCancelled \/ SaveReturns
  BY <1>2, <1>3 DEF ChooserCancelled, SaveReturns, Left, work
<1>4. CASE DismissAlert \/ SaveSettings \/ Resized \/ \E w \in Windows : CloseWindow(w)
  BY <1>2, <1>4 DEF DismissAlert, SaveSettings, Resized, CloseWindow, Left, work, dialog
<1>5. ASSUME NEW f \in File, OpenReturns(f) PROVE Left' <= Left
  <2>1. [do |-> "open", file |-> f] \in Task
    BY DEF Task
  <2>2. queue' = Append(queue, [do |-> "open", file |-> f])
    BY <1>5 DEF OpenReturns, Post
  <2>3. Len(queue') = Len(queue) + 1
    BY <1>2, <2>1, <2>2, AppendProperties
  <2>4. "open" \in choosers /\ "open" \notin choosers'
    BY <1>5 DEF OpenReturns
  <2>5. QED
    BY <1>2, <2>3, <2>4 DEF Left
<1>6. ~ChooseProjectFile /\ ~SaveProject /\ ~CloseProjectFile /\ \A w \in Windows : ~Show(w)
  BY <1>1 DEF ChooseProjectFile, SaveProject, CloseProjectFile, Show
<1>7. QED
  BY <1>3, <1>4, <1>5, <1>6 DEF Next

\* openProjectFile and closeProjectFile put up a waiting window only together with the
\* lambda that takes it down: the user never waits for nothing.
THEOREM WaitingIsForALambda == Spec => []WaitingHasWork
<1>1. Inv => WaitingHasWork
  <2> SUFFICES ASSUME Inv, Waiting PROVE queue # <<>> /\ Left > 0
    BY DEF WaitingHasWork
  <2>1. Len(queue) \in Nat /\ Len(queue) > 0
    BY LenProperties DEF Inv, TypeOK, OneWindowPerTask, Waiting
  <2>2. QED
    BY <2>1, EmptySeq DEF Left
<1>2. QED
  BY <1>1, Invariance, PTL

\* While the user waits, whatever the choosers, the window manager and the user do, the
\* work that is left does not grow, and each lambda that runs makes it less. That the
\* message loop runs lambdas at all is the fairness of Spec, and left to the runs.
THEOREM WaitingComesToItsEnd == Spec => [][Nearer]_vars
<1>1. Inv /\ [Next]_vars => [Nearer]_vars
  <2> SUFFICES ASSUME Inv, [Next]_vars, Waiting, vars' # vars
               PROVE  Left' <= Left /\ (RunTask => Left' < Left)
    BY DEF Nearer
  <2>1. Left \in Int /\ Left' \in Int
    <3>1. Inv'
      BY NextInv
    <3>2. queue \in Seq(Task) /\ queue' \in Seq(Task)
      BY <3>1 DEF Inv, TypeOK
    <3>3. QED
      BY <3>2, LenProperties DEF Left
  <2>2. CASE RunTask
    BY <2>1, <2>2, TaskIsNearer
  <2>3. CASE ~RunTask
    BY <2>3, OtherIsNoFarther
  <2>4. QED
    BY <2>2, <2>3
<1>2. QED
  BY <1>1, Invariance, PTL DEF Spec
=============================================================================
