------------------------------ MODULE Settings ------------------------------
(***************************************************************************)
(* The settings beside the main window: config.JSON, MainComponent's copy  *)
(* of it, the copy of the settings window with its editors, and the sizes  *)
(* the panels of an open project show.  An editor posts a message when its *)
(* text changes; when that is served the text of then is taken, if it is a *)
(* size, and all of the window's copy is written to the file at once.  The *)
(* Save button makes the main window read the file again; closing the      *)
(* window hides it, and messages that are queued are still served.  The    *)
(* program may be killed and started at any time, and the file may not get *)
(* what is written.                                                        *)
(***************************************************************************)
EXTENDS Lifecycle

CONSTANTS
  Setting,      \* the keys of config.JSON
  PanelSetting, \* those that setFontSizes gives to the panels
  Value,        \* sizes from 1 to 99, the languages
  NoValue,      \* what an editor may also hold: no digits, or zeros
  Missing,      \* config.JSON does not exist, or a key is missing
  Torn,         \* config.JSON is cut off
  MaxPosted     \* bound: changes whose message is queued

Complete == [Setting -> Value]

CONSTANT Default \* of struct Settings

ASSUME SettingsAssumption ==
  /\ PanelSetting \subseteq Setting /\ NoValue \notin Value
  /\ Default \in Complete /\ {Missing, Torn} \cap Complete = {} /\ Missing # Torn
  /\ MaxPosted \in Nat

VARIABLES
  config,   \* config.JSON
  main,     \* MainComponent::currentSettings
  applied,  \* the sizes in the panels
  exists,   \* settingsWindow is not null
  panel,    \* SettingsPanel::currentSettings
  text,     \* the editors of the window
  posted,   \* the editors whose change message is queued
  failed,   \* ghost: the file could not be written the last time
  editing   \* ghost: the window was opened, and nothing has read the file again since

store == <<config, failed>>
editor == <<exists, panel, text, posted>>
settingsVars == <<store, main, applied, editor, editing>>
allVars == <<vars, settingsVars>>

----------------------------------------------------------------------------
\* A mutant: a file that misses keys gives no others.
Loaded_Partly(c) == IF c \in Complete THEN c ELSE [f \in {} |-> NoValue]
\* getSettingsFromFile: the defaults, all of them, for a file that misses a key; the
\* JSON parser throws for one that is cut off.
Readable(c) == c # Torn
Loaded(c) == IF c \in Complete THEN c ELSE Default

\* A mutant: the messages of the window's editors outlive it.
NoWindow_Queued == exists' = FALSE /\ UNCHANGED <<panel, text, posted>>
NoWindow == exists' = FALSE /\ posted' = <<>> /\ UNCHANGED <<panel, text>>

SettingsInit ==
  /\ Init
  /\ config \in Complete \cup {Missing} /\ failed = FALSE /\ editing = FALSE
  /\ main = Loaded(config)
  /\ applied = [f \in PanelSetting |-> Default[f]]
  /\ exists = FALSE /\ panel = Default /\ text = Default /\ posted = <<>>

\* The program is started again: Init of the main window, unless loadSettings throws.
Start ==
  /\ status \notin {"running", "no_start"}
  /\ projectOpened' = FALSE /\ panels' = {} /\ project' = NoFile
  /\ currentProjectFile' = NoFile
  /\ choosers' = {} /\ saving' = NoFile
  /\ queue' = <<>> /\ loading' = 0 /\ alert' = FALSE
  /\ shown' = {} /\ enabled' = TRUE
  /\ IF Readable(config) THEN status' = "running" /\ main' = Loaded(config) /\ editing' = FALSE
     ELSE status' = "no_start" /\ UNCHANGED <<main, editing>>
  /\ NoWindow
  /\ UNCHANGED <<store, applied>>

Ends(how) ==
  status' = how /\ UNCHANGED <<opened, currentProjectFile, dialog, work, alert, window>>

Kill ==
  /\ status = "running"
  /\ Ends("killed")
  /\ UNCHANGED settingsVars

----------------------------------------------------------------------------
\* A mutant: the window starts with the main window's copy.
Takes_Main(settings) == panel' = main /\ text' = main
\* The new panel and its editors take what is in the file.
Takes(settings) == panel' = settings /\ text' = settings

\* openSettingsWindow: the window there was is deleted, with its messages.
OpenSettings ==
  /\ Show("settings") /\ Readable(config)
  /\ Takes(Loaded(config))
  /\ exists' = TRUE /\ posted' = <<>> /\ editing' = TRUE
  /\ UNCHANGED <<store, main, applied>>

\* The parser throws in the new panel's constructor, when the old window is gone.
OpenSettingsThrows ==
  /\ MenuUsable /\ ~Readable(config)
  /\ Ends("parse_error")
  /\ NoWindow
  /\ UNCHANGED <<store, main, applied, editing>>

Type(f, t) ==
  /\ status = "running" /\ ~Blocked /\ "settings" \in shown
  /\ t # text[f]
  /\ Len(posted) < MaxPosted
  /\ text' = [text EXCEPT ![f] = t]
  /\ posted' = Append(posted, f)
  /\ UNCHANGED <<vars, store, main, applied, exists, panel, editing>>

\* saveSettingsToFile.  Nobody looks at its result, nor it at what << did: the file is
\* written, or cannot be opened; or it is emptied by opening it and then the writing
\* fails (a full disk) and the program goes on, or the program is killed.
SavedAs(settings) ==
  \/ config' = settings /\ failed' = FALSE /\ UNCHANGED vars
  \/ failed' = TRUE /\ UNCHANGED <<config, vars>>
  \/ config' = Torn /\ failed' = TRUE /\ UNCHANGED vars
  \/ config' = Torn /\ UNCHANGED failed /\ Ends("killed")

\* A mutant: the file is written before the value is taken.
Taken_SavedFirst(f) == panel' = [panel EXCEPT ![f] = text[f]] /\ SavedAs(panel)
\* textEditorTextChanged, for a value; onChange of the language.
Taken(f) == panel' = [panel EXCEPT ![f] = text[f]] /\ SavedAs(panel')

TextChanged ==
  /\ status = "running" /\ posted # <<>>
  /\ posted' = Tail(posted)
  /\ IF text[Head(posted)] \in Value THEN Taken(Head(posted)) ELSE UNCHANGED <<panel, store, vars>>
  /\ UNCHANGED <<main, applied, exists, text, editing>>

\* setFontSizes.
Sizes(settings) == applied' = [f \in PanelSetting |-> settings[f]]

\* A mutant: open panels keep their sizes.
UpdateCurrentSettings_NoPanels == UNCHANGED applied
UpdateCurrentSettings == IF projectOpened THEN Sizes(main') ELSE UNCHANGED applied

\* A mutant: the main window keeps its copy.
LoadSettings_Not == UNCHANGED main
LoadSettings == main' = Loaded(config)

\* The Save button: the file is read again, fonts are set, the window is deleted.
SaveButton ==
  /\ SaveSettings /\ Readable(config)
  /\ LoadSettings /\ UpdateCurrentSettings
  /\ NoWindow /\ editing' = FALSE
  /\ UNCHANGED store

\* loadSettings comes first: it throws before anything is changed.
SaveButtonThrows ==
  /\ status = "running" /\ ~Blocked /\ "settings" \in shown
  /\ ~Readable(config)
  /\ Ends("parse_error")
  /\ UNCHANGED settingsVars

\* The lambda that opens a project sets the sizes of the panels it makes.
RunTaskSized ==
  /\ RunTask
  /\ LET task == Head(queue)
     IN  \/ task.do = "open" /\ Built(task.file) /\ Sizes(main)
         \/ (task.do = "close" \/ Refused \/ Threw(task.file)) /\ UNCHANGED applied
  /\ UNCHANGED <<store, main, editor, editing>>

Others ==
  /\ \/ ChooseProjectFile \/ SaveProject \/ ChooserCancelled \/ SaveReturns
     \/ CloseProjectFile \/ DismissAlert \/ Resized
     \/ \E f \in File : OpenReturns(f)
     \/ \E w \in Windows \ {"settings"} : Show(w)
     \/ \E w \in Windows : CloseWindow(w)
  /\ UNCHANGED settingsVars

SettingsNext ==
  \/ Start \/ Kill \/ OpenSettings \/ OpenSettingsThrows \/ TextChanged
  \/ SaveButton \/ SaveButtonThrows \/ RunTaskSized \/ Others
  \/ \E f \in Setting, t \in Value \cup {NoValue} : Type(f, t)

SettingsSpec == SettingsInit /\ [][SettingsNext]_allVars

----------------------------------------------------------------------------
\* Types.
SettingsType ==
  /\ config \in Complete \cup {Missing, Torn} /\ failed \in BOOLEAN /\ editing \in BOOLEAN
  /\ main \in Complete /\ applied \in [PanelSetting -> Value]
  /\ exists \in BOOLEAN /\ panel \in Complete
  /\ text \in [Setting -> Value \cup {NoValue}]
  /\ posted \in Seq(Setting)

Served(f) == \A k \in DOMAIN posted : posted[k] # f

\* Saving at every change (textEditorTextChanged): a value in the window whose message
\* has been served is in the window's copy, which the next save writes whatever became
\* of the last one, and in the file, unless the file could not be written.
NothingTypedIsLost ==
  status = "running" /\ exists =>
    \A f \in Setting : Served(f) /\ text[f] \in Value =>
      /\ panel[f] = text[f]
      /\ config \in Complete /\ ~failed => config[f] = text[f]

\* The Save button reads the file and not the window (buttonClicked): all the same
\* the program goes on with what the window showed, once its messages were served.
Saves == status = "running" /\ exists /\ ~exists'
SaveTakesEffect ==
  [][Saves /\ posted = <<>> /\ ~failed /\ config \in Complete =>
       \A f \in Setting : text[f] \in Value => main'[f] = text[f]]_allVars

\* The whole copy of the window is written for one change (saveSettings): that changes
\* no other setting, although file, window and main window have each a copy.
Changed == {f \in Setting : config'[f] # config[f]}
OthersUntouched ==
  [][~failed /\ {config, config'} \subseteq Complete =>
       \A f \in Changed, g \in Changed : f = g]_allVars

\* The panels show the sizes of the main window, whichever of Save button and opening
\* a project came last (setFontSizes).
PanelsShowSettings ==
  status = "running" /\ projectOpened => \A f \in PanelSetting : applied[f] = main[f]

\* A file that is cut off, by a kill or a full disk, keeps the program from starting.
\* But once Save has returned, or the program has started, and the window was not opened
\* since, the next start succeeds, however the program ended: a save posted by that
\* window cannot come later (buttonClicked, openSettingsWindow).
StartsOnceSaved == status = "no_start" => editing

=============================================================================
