--------------------------- MODULE CreateProject ---------------------------
(***************************************************************************)
(* The "New project" window: three fields that collect paths, a Save       *)
(* button that is enabled once and never disabled, and file choosers whose *)
(* results arrive later, whatever happened to the window in between.       *)
(***************************************************************************)
EXTENDS Naturals, Sequences

CONSTANTS File,      \* the files a chooser can return
          NoProject, \* the content of the project file before the first save
          MaxChosen  \* bound: paths collected by one window

ASSUME CreateProjectAssumption == MaxChosen \in Nat

Field == {"trace", "objdump", "code"}

VARIABLES
  visible,      \* the window is on screen
  chosen,       \* tracePath, objdumpPath and codePaths
  choosing,     \* fields whose chooser is open
  saveEnabled,  \* saveProjectButton
  saveChooser,  \* the chooser of saveProject is open
  saved,        \* what the last successful save wrote
  congrats      \* the alert of showCongratsWindow is on screen

vars == <<visible, chosen, choosing, saveEnabled, saveChooser, saved, congrats>>

NoPaths == [p \in Field |-> <<>>]

Init ==
  /\ visible = FALSE
  /\ chosen = NoPaths
  /\ choosing = {}
  /\ saveEnabled = FALSE
  /\ saveChooser = FALSE
  /\ saved = NoProject
  /\ congrats = FALSE

----------------------------------------------------------------------------
\* A mutant: refresh without the objdump field.
Ready_NoObjdump(c) == \A p \in Field \ {"objdump"} : Len(c[p]) > 0

\* The condition of refresh(): exactly one trace and one objdump path.
Ready(c) == \A p \in Field : Len(c[p]) > 0 /\ (p # "code" => Len(c[p]) = 1)

\* What a chooser hands over: one file, or several for the code field;
\* nothing when the user cancels.
Results(p) == UNION {[1..n -> File] : n \in 0..(IF p = "code" THEN 2 ELSE 1)}

PathCount(c) == Len(c["trace"]) + Len(c["objdump"]) + Len(c["code"])

OpenWindow ==
  /\ ~visible /\ ~congrats
  /\ visible' = TRUE
  /\ chosen' = NoPaths
  /\ choosing' = {}
  /\ saveEnabled' = FALSE
  /\ saveChooser' = FALSE
  /\ UNCHANGED <<saved, congrats>>

CloseWindow ==
  /\ visible
  /\ visible' = FALSE
  /\ UNCHANGED <<chosen, choosing, saveEnabled, saveChooser, saved, congrats>>

ClickChoose(p) ==
  /\ visible
  /\ choosing' = choosing \cup {p}
  /\ UNCHANGED <<visible, chosen, saveEnabled, saveChooser, saved, congrats>>

\* addPath appends and calls refresh, which only ever enables the button.
AddPaths(p, fs) ==
  /\ chosen' = [chosen EXCEPT ![p] = @ \o fs]
  /\ saveEnabled' = (saveEnabled \/ (fs # <<>> /\ Ready(chosen')))

ChooserReturns(p) ==
  /\ p \in choosing
  /\ choosing' = choosing \ {p}
  /\ \E fs \in Results(p) :
       /\ PathCount(chosen) + Len(fs) <= MaxChosen
       /\ AddPaths(p, fs)
  /\ UNCHANGED <<visible, saveChooser, saved, congrats>>

ClickSave ==
  /\ visible
  /\ saveEnabled
  /\ saveChooser' = TRUE
  /\ UNCHANGED <<visible, chosen, choosing, saveEnabled, saved, congrats>>

SaveCancelled ==
  /\ saveChooser
  /\ saveChooser' = FALSE
  /\ UNCHANGED <<visible, chosen, choosing, saveEnabled, saved, congrats>>

Project(c) == [trace |-> c["trace"][1], objdump |-> c["objdump"][1], code |-> c["code"]]

\* The result of saveProjectToFile is dropped: the alert appears either way.
SaveReturns ==
  /\ saveChooser
  /\ saveChooser' = FALSE
  /\ \E writable \in BOOLEAN : saved' = IF writable THEN Project(chosen) ELSE saved
  /\ congrats' = TRUE
  /\ visible' = FALSE
  /\ UNCHANGED <<chosen, choosing, saveEnabled>>

DismissCongrats ==
  /\ congrats
  /\ congrats' = FALSE
  /\ UNCHANGED <<visible, chosen, choosing, saveEnabled, saveChooser, saved>>

Next ==
  \/ OpenWindow \/ CloseWindow \/ ClickSave
  \/ SaveCancelled \/ SaveReturns \/ DismissCongrats
  \/ \E p \in Field : ClickChoose(p) \/ ChooserReturns(p)

Spec == Init /\ [][Next]_vars

----------------------------------------------------------------------------
ProjectType == [trace : File, objdump : File, code : Seq(File) \ {<<>>}]

\* Types: the fields are lists of files, everything else a flag.
TypeOK ==
  /\ visible \in BOOLEAN
  /\ chosen \in [Field -> Seq(File)]
  /\ choosing \subseteq Field
  /\ saveEnabled \in BOOLEAN
  /\ saveChooser \in BOOLEAN
  /\ saved \in ProjectType \cup {NoProject}
  /\ congrats \in BOOLEAN

\* saveProject reads at(0) of two vectors when its chooser returns, long after
\* the click: while a save is under way no field may be empty.
SaveReadsExistingPaths ==
  saveChooser => \A p \in Field : Len(chosen[p]) > 0

\* A field that received a second trace or objdump path before Save was ever
\* enabled leaves a window that can never save: only a new window can.
DeadEnd ==
  [][~saveEnabled /\ (\E p \in Field \ {"code"} : Len(chosen[p]) > 1) /\ chosen' # NoPaths
       => ~saveEnabled']_vars

============================================================================
