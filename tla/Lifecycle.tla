----------------------------- MODULE Lifecycle -----------------------------
(***************************************************************************)
(* MainComponent: which project is open, the dialogs and windows around    *)
(* it, and the work posted to the message queue while a modal window asks  *)
(* the user to wait.  File choosers are not modal on Linux: their results  *)
(* arrive whatever else was done in the meantime.                          *)
(***************************************************************************)
EXTENDS Naturals, Sequences, FiniteSets

CONSTANTS File,   \* project files
          NoFile

ASSUME LifecycleAssumption == NoFile \notin File

Panels == {"as", "code", "analyzer"}
Windows == {"create", "settings", "about", "usage", "info"}

VARIABLES
  status,             \* running, or the exception that ended the program
  projectOpened,
  panels,             \* asPanel, codePanel, analyzerPanel that are not null
  project,            \* the project read last
  currentProjectFile, \* the file asked for last
  choosers,           \* file choosers whose result is awaited
  saving,             \* the project that was open when Save was chosen
  queue,              \* lambdas given to MessageManager::callAsync
  loading,            \* modal "please, wait" windows
  alert,              \* the alert of showAlertWindow
  shown,              \* child windows on screen
  enabled             \* of the main window

opened == <<projectOpened, panels, project>>
dialog == <<choosers, saving>>
work   == <<queue, loading>>
window == <<shown, enabled>>
vars == <<status, opened, currentProjectFile, dialog, work, alert, window>>

Init ==
  /\ status = "running"
  /\ projectOpened = FALSE /\ panels = {} /\ project = NoFile
  /\ currentProjectFile = NoFile
  /\ choosers = {} /\ saving = NoFile
  /\ queue = <<>> /\ loading = 0
  /\ alert = FALSE
  /\ shown = {} /\ enabled = TRUE

----------------------------------------------------------------------------
\* Modal windows take all input, a disabled main window has empty menus.
Blocked == loading > 0 \/ alert
\* A mutant: menus that do not ask isEnabled.
MenuUsable_Always == status = "running" /\ ~Blocked
MenuUsable == status = "running" /\ ~Blocked /\ enabled

\* A mutant: one chooser object per menu item.
Launch_Own(kind) == choosers' = choosers \cup {kind}
\* The one chooser is replaced, which drops the callback of the one before.
Launch(kind) == choosers' = {kind}

ChooseProjectFile ==
  /\ MenuUsable
  /\ Launch("open")
  /\ UNCHANGED <<status, opened, currentProjectFile, saving, work, alert, window>>

SaveProject ==
  /\ MenuUsable /\ projectOpened
  /\ Launch("save")
  /\ saving' = project
  /\ UNCHANGED <<status, opened, currentProjectFile, work, alert, window>>

ChooserCancelled ==
  /\ status = "running"
  /\ \E kind \in choosers : choosers' = choosers \ {kind}
  /\ UNCHANGED <<status, opened, currentProjectFile, saving, work, alert, window>>

\* The result of saveProjectToFile(project, ...) is not looked at.
SaveReturns ==
  /\ status = "running" /\ "save" \in choosers
  /\ choosers' = choosers \ {"save"}
  /\ UNCHANGED <<status, opened, currentProjectFile, saving, work, alert, window>>

Post(task) == queue' = Append(queue, task) /\ loading' = loading + 1

OpenReturns(f) ==
  /\ status = "running" /\ "open" \in choosers
  /\ choosers' = choosers \ {"open"}
  /\ currentProjectFile' = f
  /\ Post([do |-> "open", file |-> f])
  /\ UNCHANGED <<status, opened, saving, alert, window>>

CloseProjectFile ==
  /\ MenuUsable /\ projectOpened
  /\ Post([do |-> "close", file |-> NoFile])
  /\ UNCHANGED <<status, opened, currentProjectFile, dialog, alert, window>>

\* The file is read only when the lambda runs.  An incomplete project is
\* reported; text that is not JSON, or a value of another type, throws in the
\* parser; listing or trace of a good project may throw later.
Built(f) ==
  /\ projectOpened' = TRUE /\ panels' = Panels /\ project' = f
  /\ UNCHANGED <<status, alert>>
Refused == alert' = TRUE /\ UNCHANGED <<status, opened>>
Threw(f) ==
  \/ status' = "parse_error" /\ UNCHANGED <<opened, alert>>
  \/ /\ status' = "uncaught"
     /\ panels' = {} /\ project' = f
     /\ UNCHANGED <<projectOpened, alert>>
Opened(f) == Built(f) \/ Refused \/ Threw(f)

\* A mutant: the flag is not reset.
Closed_StillOpen == panels' = {} /\ UNCHANGED <<status, projectOpened, project, alert>>
Closed == panels' = {} /\ projectOpened' = FALSE /\ UNCHANGED <<status, project, alert>>

\* A mutant: the waiting window stays when opening did not succeed.
Done_OnSuccess == loading' = IF projectOpened' THEN loading - 1 ELSE loading
\* processWnd->exitModalState(), unless an exception left the lambda.
Done == loading' = loading - 1

RunTask ==
  /\ status = "running" /\ queue # <<>>
  /\ queue' = Tail(queue)
  /\ IF Head(queue).do = "open" THEN Opened(Head(queue).file) ELSE Closed
  /\ IF status' = "running" THEN Done ELSE UNCHANGED loading
  /\ UNCHANGED <<currentProjectFile, dialog, window>>

DismissAlert ==
  /\ status = "running" /\ alert
  /\ alert' = FALSE
  /\ UNCHANGED <<status, opened, currentProjectFile, dialog, work, window>>

\* componentVisibilityChanged of a child window disables the main window and
\* enables it again.
Show(w) ==
  /\ MenuUsable
  /\ w = "info" => projectOpened
  /\ shown' = shown \cup {w} /\ enabled' = FALSE
  /\ UNCHANGED <<status, opened, currentProjectFile, dialog, work, alert>>

Hide(w) == shown' = shown \ {w} /\ enabled' = TRUE

CloseWindow(w) ==
  /\ status = "running" /\ ~Blocked
  /\ w \in shown
  /\ Hide(w)
  /\ UNCHANGED <<status, opened, currentProjectFile, dialog, work, alert>>

\* Calls through a panel's pointer, all three in turn.
UsePanels == status' = IF panels = Panels THEN status ELSE "null_pointer"

\* The button of the settings window: new font sizes for an open project.
SaveSettings ==
  /\ status = "running" /\ ~Blocked
  /\ "settings" \in shown
  /\ Hide("settings")
  /\ IF projectOpened THEN UsePanels ELSE UNCHANGED status
  /\ UNCHANGED <<opened, currentProjectFile, dialog, work, alert>>

\* resized, whenever the window manager wants it.
Resized ==
  /\ status = "running"
  /\ IF projectOpened THEN UsePanels ELSE UNCHANGED status
  /\ UNCHANGED <<opened, currentProjectFile, dialog, work, alert, window>>

Next ==
  \/ ChooseProjectFile \/ SaveProject \/ ChooserCancelled \/ SaveReturns
  \/ CloseProjectFile \/ RunTask \/ DismissAlert \/ SaveSettings \/ Resized
  \/ \E f \in File : OpenReturns(f)
  \/ \E w \in Windows : Show(w) \/ CloseWindow(w)

Spec == Init /\ [][Next]_vars /\ WF_vars(RunTask)

----------------------------------------------------------------------------
Task == [do : {"open"}, file : File] \cup [do : {"close"}, file : {NoFile}]

\* Types.
TypeOK ==
  /\ status \in {"running", "parse_error", "uncaught", "null_pointer"}
  /\ projectOpened \in BOOLEAN /\ panels \subseteq Panels
  /\ project \in File \cup {NoFile} /\ currentProjectFile \in File \cup {NoFile}
  /\ choosers \subseteq {"open", "save"} /\ saving \in File \cup {NoFile}
  /\ queue \in Seq(Task) /\ loading \in Nat
  /\ alert \in BOOLEAN
  /\ shown \subseteq Windows /\ enabled \in BOOLEAN

\* Whenever the window is resized or the settings are saved, the panels of an
\* open project are there to be called.
PanelsAreThere == status # "null_pointer"

\* The main window is enabled exactly while no child window is on screen: one
\* flag set by whichever window appeared or disappeared last.
EnabledWhenAlone == enabled <=> shown = {}

\* What Save writes when its chooser returns is the project that was open when
\* Save was chosen, even if it has been closed or another one asked for since.
SaveWritesWhatWasOpen == "save" \in choosers => saving # NoFile /\ saving = project

\* "Please, wait" is over some time: every waiting window goes away.
WaitingEnds == loading > 0 ~> (loading = 0 \/ status # "running")

============================================================================
