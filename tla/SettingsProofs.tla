--------------------------- MODULE SettingsProofs ---------------------------
(***************************************************************************)
(* The properties of Settings for every set of keys and values, and any    *)
(* number of queued messages.  What makes them inductive: the window's     *)
(* copy has every value that was typed and whose message was served, and   *)
(* the file is that copy unless it could not be written.  The main window  *)
(* keeps its own guarantees through kills and starts: a program that runs  *)
(* has made steps of Lifecycle since it was started.                       *)
(***************************************************************************)
EXTENDS Settings, LifecycleProofs

\* What has been taken from the editors.
PanelHasText ==
  exists => \A f \in Setting : Served(f) /\ text[f] \in Value => panel[f] = text[f]
FileIsPanel ==
  status = "running" /\ exists /\ config \in Complete /\ ~failed => config = panel
MessagesHaveWindow == posted # <<>> => exists
ShownExists == status = "running" /\ "settings" \in shown => exists
TornByWindow == config = Torn => editing
EditingWindow == exists => editing

SettingsInv ==
  /\ SettingsType
  /\ PanelHasText /\ FileIsPanel /\ MessagesHaveWindow /\ ShownExists
  /\ TornByWindow /\ EditingWindow /\ StartsOnceSaved
  /\ PanelsShowSettings

USE SettingsAssumption

LEMMA NoMessages == <<>> \in Seq(Setting)
OBVIOUS

LEMMA LoadedIsComplete ==
  ASSUME NEW c PROVE Loaded(c) \in Complete /\ (c \in Complete => Loaded(c) = c)
BY DEF Loaded

LEMMA SettingsInitInv == SettingsInit => SettingsInv
<1> SUFFICES ASSUME SettingsInit PROVE SettingsInv
  OBVIOUS
<1>1. Default \in Complete /\ main \in Complete
  BY LoadedIsComplete DEF SettingsInit
<1>2. SettingsType
  <2>1. posted \in Seq(Setting)
    BY NoMessages DEF SettingsInit
  <2>2. text \in [Setting -> Value \cup {NoValue}] /\ panel \in Complete
    BY <1>1 DEF SettingsInit, Complete
  <2>3. applied \in [PanelSetting -> Value]
    BY <1>1 DEF SettingsInit, Complete
  <2>4. QED
    BY <1>1, <2>1, <2>2, <2>3 DEF SettingsInit, SettingsType
<1>3. Torn \notin Complete /\ Torn # Missing
  OBVIOUS
<1>4. /\ PanelHasText /\ FileIsPanel /\ MessagesHaveWindow /\ ShownExists
      /\ TornByWindow /\ EditingWindow /\ StartsOnceSaved /\ PanelsShowSettings
  BY <1>3 DEF SettingsInit, Init, PanelHasText, FileIsPanel, MessagesHaveWindow, ShownExists,
              TornByWindow, EditingWindow, StartsOnceSaved, PanelsShowSettings
<1>5. QED
  BY <1>2, <1>4 DEF SettingsInv

\* The other windows and menus leave the settings alone, and no project is opened by them.
LEMMA OthersKeep ==
  ASSUME Others
  PROVE  /\ UNCHANGED settingsVars /\ UNCHANGED projectOpened
         /\ status' = "running" => status = "running"
         /\ status' = "no_start" => status = "no_start"
         /\ "settings" \in shown' => "settings" \in shown
<1> USE DEF Others, opened, window
<1>1. CASE ChooseProjectFile \/ SaveProject \/ ChooserCancelled \/ SaveReturns
           \/ CloseProjectFile \/ DismissAlert
  BY <1>1 DEF ChooseProjectFile, SaveProject, ChooserCancelled, SaveReturns,
              CloseProjectFile, DismissAlert
<1>2. CASE Resized
  BY <1>2 DEF Resized, UsePanels
<1>3. CASE \E f \in File : OpenReturns(f)
  BY <1>3 DEF OpenReturns
<1>4. CASE \E w \in Windows \ {"settings"} : Show(w)
  BY <1>4 DEF Show
<1>5. CASE \E w \in Windows : CloseWindow(w)
  BY <1>5 DEF CloseWindow, Hide
<1>6. QED
  BY <1>1, <1>2, <1>3, <1>4, <1>5

\* Steps that leave the settings and their copies alone keep the invariant.
LEMMA KeptInv ==
  ASSUME SettingsInv, UNCHANGED settingsVars, UNCHANGED projectOpened,
         status' = "running" => status = "running",
         status' = "no_start" => status = "no_start",
         "settings" \in shown' => "settings" \in shown
  PROVE  SettingsInv'
BY DEF SettingsInv, SettingsType, PanelHasText, FileIsPanel, MessagesHaveWindow, ShownExists, TornByWindow, EditingWindow,
       StartsOnceSaved, PanelsShowSettings, Served, settingsVars, store, editor

LEMMA StartInv == ASSUME SettingsInv, Start PROVE SettingsInv'
<1> USE DEF SettingsInv
<1>1. /\ exists' = FALSE /\ posted' = <<>> /\ projectOpened' = FALSE /\ shown' = {}
      /\ UNCHANGED <<panel, text, config, failed, applied>>
      /\ editing' = FALSE \/ UNCHANGED editing
  BY DEF Start, NoWindow, store
<1>2. main' \in Complete
  BY LoadedIsComplete DEF Start, SettingsType
<1>3. IF config = Torn THEN editing' /\ editing' = editing ELSE status' = "running" /\ editing' = FALSE
  BY DEF Start, Readable, TornByWindow
<1>4. SettingsType'
  BY <1>1, <1>2, NoMessages DEF SettingsType
<1>5. QED
  BY <1>1, <1>3, <1>4
  DEF PanelHasText, FileIsPanel, MessagesHaveWindow, ShownExists, TornByWindow, EditingWindow,
      StartsOnceSaved, PanelsShowSettings

LEMMA OpenSettingsInv == ASSUME SettingsInv, OpenSettings PROVE SettingsInv'
<1> USE DEF SettingsInv
<1>1. /\ exists' = TRUE /\ posted' = <<>>
      /\ panel' = Loaded(config) /\ text' = Loaded(config)
      /\ UNCHANGED <<status, projectOpened, config, failed, main, applied>>
      /\ editing' = TRUE
  BY DEF OpenSettings, Takes, Show, opened, store
<1>2. Loaded(config) \in Complete /\ (config \in Complete => Loaded(config) = config)
  BY LoadedIsComplete
<1>3. SettingsType'
  BY <1>1, <1>2 DEF SettingsType, Complete
<1>4. QED
  BY <1>1, <1>2, <1>3
  DEF SettingsType, PanelHasText, FileIsPanel, MessagesHaveWindow, ShownExists, TornByWindow, EditingWindow,
      StartsOnceSaved, PanelsShowSettings

LEMMA TypeInv ==
  ASSUME SettingsInv, NEW f \in Setting, NEW t \in Value \cup {NoValue}, Type(f, t)
  PROVE  SettingsInv'
<1> USE DEF SettingsInv
<1>1. /\ text' = [text EXCEPT ![f] = t] /\ posted' = Append(posted, f)
      /\ UNCHANGED <<status, projectOpened, config, failed, main, applied, exists, panel, editing>>
  BY DEF Type, vars, opened, store
<1>2. text' \in [Setting -> Value \cup {NoValue}] /\ posted' \in Seq(Setting)
  BY <1>1 DEF SettingsType
<1>3. SettingsType'
  BY <1>1, <1>2 DEF SettingsType
<1>4. ASSUME NEW g \in Setting, Served(g)' PROVE Served(g) /\ g # f
  <2>1. /\ Len(posted') = Len(posted) + 1 /\ posted'[Len(posted) + 1] = f
        /\ \A k \in 1 .. Len(posted) : posted'[k] = posted[k]
    BY <1>1, AppendProperties DEF SettingsType
  <2>2. DOMAIN posted = 1 .. Len(posted) /\ DOMAIN posted' = 1 .. Len(posted') /\ Len(posted) \in Nat
    BY <1>2, LenProperties DEF SettingsType
  <2>3. QED
    BY <1>4, <2>1, <2>2 DEF Served
<1>5. PanelHasText'
  BY <1>1, <1>4 DEF PanelHasText, SettingsType
<1>6. MessagesHaveWindow'
  BY <1>1 DEF MessagesHaveWindow, ShownExists, Type
<1>7. QED
  BY <1>1, <1>3, <1>5, <1>6
  DEF FileIsPanel, ShownExists, Type, vars, window, TornByWindow, EditingWindow, StartsOnceSaved, PanelsShowSettings

\* What a served message does: whatever comes of the file, the window has the text.
LEMMA SavedKeeps ==
  ASSUME NEW f \in Setting, SettingsType, status = "running", Taken(f), text[f] \in Value
  PROVE  /\ UNCHANGED <<projectOpened, shown>>
         /\ panel' = [panel EXCEPT ![f] = text[f]] /\ panel' \in Complete
         /\ status' \in {"running", "killed"}
         /\ config' \in {panel', config, Torn}
         /\ status' = "running" => config' = panel' \/ failed'
         /\ failed' \in BOOLEAN
<1>1. panel' \in Complete /\ Torn \notin Complete
  BY DEF Taken, SettingsType, Complete
<1>2. panel' = [panel EXCEPT ![f] = text[f]] /\ SavedAs(panel')
  BY DEF Taken
<1>3. CASE config' = panel' /\ failed' = FALSE /\ UNCHANGED vars
  BY <1>1, <1>2, <1>3 DEF SettingsType, vars, opened, window
<1>4. CASE failed' = TRUE /\ config' \in {config, Torn} /\ UNCHANGED vars
  BY <1>1, <1>2, <1>4 DEF SettingsType, vars, opened, window
<1>5. CASE config' = Torn /\ UNCHANGED failed /\ Ends("killed")
  BY <1>1, <1>2, <1>5 DEF SettingsType, Ends, opened, window
<1>6. QED
  BY <1>2, <1>3, <1>4, <1>5 DEF SavedAs

LEMMA TextChangedInv == ASSUME SettingsInv, TextChanged PROVE SettingsInv'
<1> USE DEF SettingsInv
<1> DEFINE f == Head(posted)
<1>1. /\ f \in Setting /\ posted' = Tail(posted) /\ posted' \in Seq(Setting)
      /\ \A g \in Setting : g # f /\ Served(g)' => Served(g)
  <2>1. posted \in Seq(Setting) /\ posted # <<>> /\ posted' = Tail(posted)
    BY DEF TextChanged, SettingsType
  <2>2. /\ f \in Setting /\ Tail(posted) \in Seq(Setting) /\ f = posted[1]
        /\ Len(posted) \in Nat /\ Len(posted) > 0 /\ Len(Tail(posted)) = Len(posted) - 1
        /\ \A k \in 1 .. Len(Tail(posted)) : Tail(posted)[k] = posted[k + 1]
    BY <2>1, HeadTailProperties, LenProperties, EmptySeq
  <2>3. DOMAIN posted = 1 .. Len(posted) /\ DOMAIN posted' = 1 .. Len(Tail(posted))
    BY <2>1, <2>2, LenProperties
  <2>4. ASSUME NEW g \in Setting, g # f, Served(g)', NEW k \in DOMAIN posted PROVE posted[k] # g
    <3>1. CASE k = 1
      BY <2>2, <2>4, <3>1
    <3>2. CASE k # 1
      <4>1. k - 1 \in DOMAIN posted' /\ posted'[k - 1] = posted[k]
        BY <2>1, <2>2, <2>3, <2>4, <3>2
      <4>2. QED
        BY <2>4, <4>1 DEF Served
    <3>3. QED
      BY <3>1, <3>2
  <2>5. QED
    BY <2>1, <2>2, <2>4 DEF Served
<1>2. /\ status = "running" /\ exists /\ UNCHANGED <<main, applied, exists, text, editing>> /\ editing
  BY DEF TextChanged, MessagesHaveWindow, EditingWindow
<1> HIDE DEF f
<1>3. CASE text[f] \in Value
  <2>1. Taken(f)
    BY <1>3 DEF TextChanged, f
  <2>2. /\ UNCHANGED <<projectOpened, shown>>
        /\ panel' = [panel EXCEPT ![f] = text[f]] /\ panel' \in Complete
        /\ status' \in {"running", "killed"}
        /\ config' \in {panel', config, Torn}
        /\ status' = "running" => config' = panel' \/ failed'
        /\ failed' \in BOOLEAN
    BY <1>1, <1>2, <1>3, <2>1, SavedKeeps
  <2>3. SettingsType'
    BY <1>1, <1>2, <2>2 DEF SettingsType
  <2>4. PanelHasText'
    BY <1>1, <1>2, <2>2 DEF PanelHasText, SettingsType, Complete
  <2>5. QED
    BY <1>2, <2>2, <2>3, <2>4
    DEF FileIsPanel, MessagesHaveWindow, ShownExists, TornByWindow, EditingWindow, StartsOnceSaved,
        PanelsShowSettings
<1>4. CASE text[f] \notin Value
  <2>1. UNCHANGED <<panel, store, vars>>
    BY <1>4 DEF TextChanged, f
  <2>2. SettingsType' /\ UNCHANGED <<panel, config, failed, status, projectOpened, shown>>
    BY <1>1, <1>2, <2>1 DEF SettingsType, store, vars, opened, window
  <2>3. PanelHasText'
    BY <1>1, <1>2, <1>4, <2>2 DEF PanelHasText
  <2>4. QED
    BY <1>2, <2>2, <2>3
    DEF FileIsPanel, MessagesHaveWindow, ShownExists, TornByWindow, EditingWindow, StartsOnceSaved,
        PanelsShowSettings
<1>5. QED
  BY <1>3, <1>4

LEMMA SaveButtonInv == ASSUME SettingsInv, SaveButton PROVE SettingsInv'
<1> USE DEF SettingsInv
<1>1. /\ exists' = FALSE /\ posted' = <<>> /\ main' = Loaded(config) /\ main' \in Complete
      /\ UNCHANGED <<panel, text, config, failed, projectOpened>> /\ config # Torn /\ editing' = FALSE
      /\ "settings" \notin shown' /\ status = "running" /\ status' # "no_start"
  BY LoadedIsComplete
  DEF SaveButton, SaveSettings, UsePanels, Hide, LoadSettings, NoWindow, store, opened, Readable
<1>2. applied' = IF projectOpened THEN [f \in PanelSetting |-> main'[f]] ELSE applied
  BY DEF SaveButton, UpdateCurrentSettings, Sizes
<1>3. applied' \in [PanelSetting -> Value]
  BY <1>1, <1>2 DEF SettingsType, Complete
<1>4. SettingsType'
  BY <1>1, <1>3, NoMessages DEF SettingsType
<1>5. PanelsShowSettings'
  BY <1>1, <1>2 DEF PanelsShowSettings
<1>6. QED
  BY <1>1, <1>4, <1>5
  DEF PanelHasText, FileIsPanel, MessagesHaveWindow, ShownExists, TornByWindow, EditingWindow, StartsOnceSaved

LEMMA RunTaskSizedInv == ASSUME SettingsInv, RunTaskSized PROVE SettingsInv'
<1> USE DEF SettingsInv
<1>1. /\ UNCHANGED <<main, exists, panel, text, posted, config, failed, shown, editing>>
      /\ status = "running"
  BY DEF RunTaskSized, RunTask, store, editor, window
<1>2. status' # "no_start" /\ applied' \in [PanelSetting -> Value] /\ PanelsShowSettings'
  <2> DEFINE task == Head(queue)
  <2>1. CASE task.do = "open" /\ Built(task.file) /\ Sizes(main)
    BY <1>1, <2>1 DEF Built, Sizes, PanelsShowSettings, SettingsType, Complete
  <2>2. CASE task.do = "close" /\ UNCHANGED applied
    BY <1>1, <2>2 DEF RunTaskSized, RunTask, Closed, PanelsShowSettings, SettingsType
  <2>3. CASE (Refused \/ Threw(task.file)) /\ UNCHANGED applied
    BY <1>1, <2>3 DEF Refused, Threw, PanelsShowSettings, SettingsType, opened
  <2>4. QED
    BY <2>1, <2>2, <2>3 DEF RunTaskSized
<1>3. SettingsType'
  BY <1>1, <1>2 DEF SettingsType
<1>4. QED
  BY <1>1, <1>2, <1>3
  DEF PanelHasText, FileIsPanel, MessagesHaveWindow, ShownExists, TornByWindow, EditingWindow, StartsOnceSaved,
      Served

\* The program ends by an exception of the parser.
LEMMA ThrowsInv == ASSUME SettingsInv, OpenSettingsThrows \/ SaveButtonThrows PROVE SettingsInv'
<1> USE DEF SettingsInv
<1>1. /\ UNCHANGED <<main, applied, config, failed, editing, panel, text, projectOpened, shown>>
      /\ status' = "parse_error"
      /\ (exists' = FALSE /\ posted' = <<>>) \/ UNCHANGED <<exists, posted>>
  BY DEF OpenSettingsThrows, SaveButtonThrows, Ends, NoWindow, opened, window, store, settingsVars, editor
<1>2. SettingsType'
  BY <1>1, NoMessages DEF SettingsType
<1>3. PanelHasText'
  BY <1>1 DEF PanelHasText, Served
<1>4. QED
  BY <1>1, <1>2, <1>3
  DEF FileIsPanel, MessagesHaveWindow, ShownExists, TornByWindow, EditingWindow, StartsOnceSaved,
      PanelsShowSettings

LEMMA SettingsNextInv == ASSUME SettingsInv, [SettingsNext]_allVars PROVE SettingsInv'
<1>1. CASE Kill
  BY <1>1, KeptInv DEF Kill, Ends, opened, window
<1>2. CASE Others
  BY <1>2, OthersKeep, KeptInv
<1>3. CASE UNCHANGED allVars
  BY <1>3, KeptInv DEF allVars, vars, opened, window
<1>4. CASE \/ Start \/ OpenSettings \/ OpenSettingsThrows \/ TextChanged
          \/ SaveButton \/ SaveButtonThrows \/ RunTaskSized
  BY <1>4, StartInv, OpenSettingsInv, ThrowsInv, TextChangedInv, SaveButtonInv, RunTaskSizedInv
<1>5. CASE \E f \in Setting, t \in Value \cup {NoValue} : Type(f, t)
  BY <1>5, TypeInv
<1>6. QED
  BY <1>1, <1>2, <1>3, <1>4, <1>5 DEF SettingsNext

LEMMA SettingsInvHolds == SettingsSpec => []SettingsInv
BY SettingsInitInv, SettingsNextInv, PTL DEF SettingsSpec

----------------------------------------------------------------------------
\* Types, as the run checks them.
THEOREM SettingsTyped == SettingsSpec => []SettingsType
<1>1. SettingsInv => SettingsType
  BY DEF SettingsInv
<1>2. QED
  BY <1>1, SettingsInvHolds, PTL

\* What was typed and served is in the window's copy, and in the file
\* (textEditorTextChanged, saveSettings) unless it could not be written the last time.
THEOREM TypedIsSaved == SettingsSpec => []NothingTypedIsLost
<1>1. SettingsInv => NothingTypedIsLost
  BY DEF SettingsInv, NothingTypedIsLost, PanelHasText, FileIsPanel
<1>2. QED
  BY <1>1, SettingsInvHolds, PTL

\* An open project has the sizes of the main window's settings (setFontSizes).
THEOREM PanelsFollow == SettingsSpec => []PanelsShowSettings
<1>1. SettingsInv => PanelsShowSettings
  BY DEF SettingsInv
<1>2. QED
  BY <1>1, SettingsInvHolds, PTL

\* A start fails in getSettingsFromFile only if the settings window was opened and the
\* file was not read again since: the window is what may leave it cut off, and neither
\* the Save button nor a start goes on with such a file.
THEOREM SavedStarts == SettingsSpec => []StartsOnceSaved
<1>1. SettingsInv => StartsOnceSaved
  BY DEF SettingsInv
<1>2. QED
  BY <1>1, SettingsInvHolds, PTL

\* Only the Save button takes the window away from a running program.
LEMMA SaveEffectStep ==
  ASSUME SettingsInv, [SettingsNext]_allVars, Saves, posted = <<>>, ~failed, config \in Complete,
         NEW f \in Setting, text[f] \in Value
  PROVE  main'[f] = text[f]
<1>1. status = "running" /\ exists /\ ~exists'
  BY DEF Saves
<1>2. SaveButton
  <2>1. ~Kill
    BY <1>1 DEF Kill, settingsVars, editor
  <2>2. ~Others
    BY <1>1, OthersKeep DEF settingsVars, editor
  <2>3. ~UNCHANGED allVars
    BY <1>1 DEF allVars, settingsVars, editor
  <2>4. ~Start /\ ~OpenSettings /\ ~TextChanged /\ ~RunTaskSized /\ ~SaveButtonThrows
    BY <1>1 DEF Start, OpenSettings, TextChanged, RunTaskSized, SaveButtonThrows, settingsVars, editor
  <2>5. \A g \in Setting, t \in Value \cup {NoValue} : ~Type(g, t)
    BY <1>1 DEF Type
  <2>6. ~OpenSettingsThrows
    <3>1. Torn \notin Complete
      OBVIOUS
    <3>2. QED
      BY <3>1 DEF OpenSettingsThrows, Readable
  <2>7. QED
    BY <2>1, <2>2, <2>3, <2>4, <2>5, <2>6 DEF SettingsNext
<1>3. main' = config
  BY <1>2, LoadedIsComplete DEF SaveButton, LoadSettings
<1>4. config = panel
  BY <1>1 DEF SettingsInv, FileIsPanel
<1>5. Served(f)
  BY DEF Served
<1>6. panel[f] = text[f]
  BY <1>1, <1>5 DEF SettingsInv, PanelHasText
<1>7. QED
  BY <1>3, <1>4, <1>6

\* After the Save button, which reads the file, the program goes on with what the
\* window showed.
THEOREM SaveTakes == SettingsSpec => SaveTakesEffect
<1>1. ASSUME SettingsInv, [SettingsNext]_allVars
      PROVE  [Saves /\ posted = <<>> /\ ~failed /\ config \in Complete =>
                \A f \in Setting : text[f] \in Value => main'[f] = text[f]]_allVars
  BY <1>1, SaveEffectStep
<1>2. QED
  BY <1>1, SettingsInvHolds, PTL DEF SettingsSpec, SaveTakesEffect

\* A step that changes the file, other than by leaving it cut off, changes one key.
LEMMA OneKeyStep ==
  ASSUME SettingsInv, [SettingsNext]_allVars, ~failed, config \in Complete, config' \in Complete,
         NEW f \in Changed, NEW g \in Changed
  PROVE  f = g
<1>1. config' # config
  BY DEF Changed
<1>2. TextChanged
  <2>1. ~Kill
    BY <1>1 DEF Kill, settingsVars, store
  <2>2. ~Others
    BY <1>1, OthersKeep DEF settingsVars, store
  <2>3. ~UNCHANGED allVars
    BY <1>1 DEF allVars, settingsVars, store
  <2>4. ~Start /\ ~OpenSettings /\ ~OpenSettingsThrows /\ ~SaveButton /\ ~SaveButtonThrows /\ ~RunTaskSized
    BY <1>1 DEF Start, OpenSettings, OpenSettingsThrows, SaveButton, SaveButtonThrows, RunTaskSized,
                settingsVars, store
  <2>5. \A k \in Setting, t \in Value \cup {NoValue} : ~Type(k, t)
    BY <1>1 DEF Type, store
  <2>6. QED
    BY <2>1, <2>2, <2>3, <2>4, <2>5 DEF SettingsNext
<1> DEFINE h == Head(posted)
<1>3. text[h] \in Value /\ Taken(h) /\ status = "running" /\ exists
  BY <1>1, <1>2 DEF TextChanged, store, SettingsInv, MessagesHaveWindow
<1>4. config = panel
  BY <1>3 DEF SettingsInv, FileIsPanel
<1>5. config' = [panel EXCEPT ![h] = text[h]]
  <2>1. config' = panel'
    BY <1>1, <1>3 DEF Taken, SavedAs
  <2>2. QED
    BY <1>3, <2>1 DEF Taken
<1>6. \A k \in Setting : k # h => config'[k] = config[k]
  BY <1>4, <1>5 DEF Complete
<1>7. QED
  BY <1>6 DEF Changed

\* One change in the window changes one key of the file, although the window's whole
\* copy is written.
THEOREM OneKeyChanges == SettingsSpec => OthersUntouched
<1>1. ASSUME SettingsInv, [SettingsNext]_allVars
      PROVE  [~failed /\ {config, config'} \subseteq Complete =>
                \A f \in Changed, g \in Changed : f = g]_allVars
  BY <1>1, OneKeyStep
<1>2. QED
  BY <1>1, SettingsInvHolds, PTL DEF SettingsSpec, OthersUntouched
----------------------------------------------------------------------------
\* What Lifecycle promises, while the program runs and when it has ended.
MainInv ==
  /\ status = "running" => Inv
  /\ PanelsAreThere /\ EnabledWhenAlone /\ SaveWritesWhatWasOpen

\* The program is started: afresh, or not at all.
StartsAfresh ==
  \/ Init'
  \/ status' = "no_start" /\ shown' = {} /\ enabled' = TRUE /\ choosers' = {}
\* It is killed, or the settings cannot be read, and everything stays as it was.
Ended ==
  /\ status = "running" /\ status' \in {"killed", "parse_error"}
  /\ UNCHANGED <<opened, currentProjectFile, dialog, work, alert, window>>
MainStep == Next \/ StartsAfresh \/ Ended

\* Beside the settings the main window does what it does in Lifecycle.
LEMMA SettingsStepIsMainStep == SettingsNext => [MainStep]_vars
<1> SUFFICES ASSUME SettingsNext PROVE MainStep \/ UNCHANGED vars
  OBVIOUS
<1>1. CASE Start
  BY <1>1 DEF Start, MainStep, StartsAfresh, Init
<1>2. CASE Kill
  BY <1>2 DEF Kill, Ends, MainStep, Ended
<1>3. CASE OpenSettings
  BY <1>3 DEF OpenSettings, MainStep, Next, Windows
<1>4. CASE TextChanged
  BY <1>4 DEF TextChanged, Taken, SavedAs, Ends, MainStep, Ended
<1>5. CASE OpenSettingsThrows \/ SaveButtonThrows
  BY <1>5 DEF OpenSettingsThrows, SaveButtonThrows, MenuUsable, Ends, MainStep, Ended
<1>6. CASE SaveButton \/ RunTaskSized
  BY <1>6 DEF SaveButton, RunTaskSized, MainStep, Next
<1>7. CASE Others
  BY <1>7 DEF Others, MainStep, Next
<1>8. CASE \E f \in Setting, t \in Value \cup {NoValue} : Type(f, t)
  BY <1>8 DEF Type
<1>9. QED
  BY <1>1, <1>2, <1>3, <1>4, <1>5, <1>6, <1>7, <1>8 DEF SettingsNext

\* Only a program that runs makes a step of Lifecycle.
LEMMA NextRuns == Next => status = "running"
BY DEF Next, MenuUsable, ChooseProjectFile, SaveProject, ChooserCancelled, SaveReturns, OpenReturns,
  CloseProjectFile, RunTask, DismissAlert, Show, CloseWindow, SaveSettings, Resized

LEMMA InitInvNext == Init' => Inv'
BY InitInv, PTL

LEMMA MainStepInv == MainInv /\ [MainStep]_vars => MainInv'
<1> SUFFICES ASSUME MainInv, [MainStep]_vars PROVE MainInv'
  OBVIOUS
<1> USE DEF MainInv
<1>1. CASE Next
  <2>1. Inv'
    BY <1>1, NextRuns, NextInv
  <2>2. QED
    BY <2>1 DEF Inv
<1>2. CASE Init'
  BY <1>2, InitInvNext DEF Inv
<1>3. CASE status' = "no_start" /\ shown' = {} /\ enabled' = TRUE /\ choosers' = {}
  BY <1>3 DEF PanelsAreThere, EnabledWhenAlone, SaveWritesWhatWasOpen
<1>4. CASE Ended
  BY <1>4 DEF Ended, opened, dialog, window, PanelsAreThere, EnabledWhenAlone, SaveWritesWhatWasOpen
<1>5. CASE UNCHANGED vars
  <2>1. status = "running" => Inv'
    BY <1>5, NextInv
  <2>2. QED
    BY <1>5, <2>1 DEF vars, opened, dialog, window, PanelsAreThere, EnabledWhenAlone, SaveWritesWhatWasOpen
<1>6. QED
  BY <1>1, <1>2, <1>3, <1>4, <1>5 DEF MainStep, StartsAfresh

LEMMA MainInvHolds == SettingsSpec => []MainInv
<1>1. SettingsInit => MainInv
  BY InitInv DEF SettingsInit, MainInv, Inv
<1>2. MainInv /\ [SettingsNext]_allVars => MainInv'
  <2>1. UNCHANGED allVars => UNCHANGED vars
    BY DEF allVars
  <2>2. QED
    BY <2>1, SettingsStepIsMainStep, MainStepInv
<1>3. QED
  BY <1>1, <1>2, PTL DEF SettingsSpec

\* Settings, kills and starts add nothing to what the main window may do: between two
\* starts every step is one of Lifecycle's, ends the program, or leaves its state alone.
THEOREM RunsAreLifecycle == SettingsSpec => Init /\ [][MainStep]_vars
<1>1. SettingsInit => Init
  BY DEF SettingsInit
<1>2. [SettingsNext]_allVars => [MainStep]_vars
  BY SettingsStepIsMainStep DEF allVars
<1>3. QED
  BY <1>1, <1>2, PTL DEF SettingsSpec

\* Applying new sizes to the panels of an open project never calls through a null
\* panel, however often the program was killed and started (setFontSizes, resized).
THEOREM PanelsThereForSettings == SettingsSpec => []PanelsAreThere
<1>1. MainInv => PanelsAreThere
  BY DEF MainInv
<1>2. QED
  BY <1>1, MainInvHolds, PTL

\* So do the flag of the main window, which the settings window sets and the Save
\* button clears, and the file that Save will write.
THEOREM MainWindowKeepsItsWord == SettingsSpec => [](EnabledWhenAlone /\ SaveWritesWhatWasOpen)
<1>1. MainInv => EnabledWhenAlone /\ SaveWritesWhatWasOpen
  BY DEF MainInv
<1>2. QED
  BY <1>1, MainInvHolds, PTL
=============================================================================
