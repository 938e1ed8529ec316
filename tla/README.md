# A TLA+ model of RISCV_Trace

RISCV_Trace profiles programs for RISC-V processors. A modified Spike
(`riscv-isa-sim`) runs the program and appends a line to a trace file for every
instruction it decodes; the viewer (`riscv-trace`, a JUCE application) reads that
file, the output of `objdump` and the C sources, reconstructs calls and times
from bare addresses, and shows trace, sources, profile table and call graph side
by side. Spike's devices and instruction set, JUCE and the JSON library are used
as they come.

This directory holds TLA+ modules for the project's own logic and for the parts of
Spike that decide what is in the trace, the TLC configurations that check them,
and TLAPS proofs. `PROJECT.json` maps every definition to the lines it models.

## 1. Inventory

### Parts, their state, and how they interact

| part | source | state | operations |
|---|---|---|---|
| hart | `riscv/execute.cc`, `processor.cc`, `csrs.cc` | `state_t` (pc, mepc, mstatus, `serialized`, mcycle), `in_wfi`, `last_pc` | `processor_t::step`, `take_interrupt`, `take_trap`, `disasm` |
| scheduler | `riscv/sim.cc` | `current_proc`, `current_step` | `sim_t::step`, device ticks |
| console | `riscv/interactive.cc`, `sim.cc` | `ctrlc_pressed`, `next_interactive_action`, `debug` | prompt, `run`, `rs`, `until`, `untiln`, `while`, Enter, `quit`, signal handler |
| trace file | `processor.cc:1017-1031` | lines `mcycle, pc, instruction` | append by every hart, read by `TraceParser` |
| disassembly tables | `ObjdumpParser.cpp` | maps from addresses to functions, callers, callees, returns | `parseFile` |
| trace marks | `TraceParser.cpp` | a vector of lines with function, first/last/call marks | `parseTrace`, `addFuncAddresses`, `mark...Lines` |
| performance analyzer | `MainComponent.cpp:95-385` | counters per function and pair of functions | three passes, the table, `getGraphCode` |
| panels | `MainComponent.cpp`, `TraceComponent.cpp`, `CodeComponent.cpp` | selected function, occurrence, row, highlighted line and source | clicks, keys, sorting, dropdown, search, buttons |
| main window | `MainComponent.cpp:2078-2566`, `ProjectParser.cpp` | open project, panels, one `FileChooser`, posted lambdas, modal windows | open, save, close, settings, resize |
| new project window | `CreateProjectWindow.cpp` | three lists of paths, one button | choose, save |
| source lexer | `CodeParser.cpp` | six flags; the chunk, symbols and lines counted | blanks comments and strings, finds the places of functions |
| settings | `SettingsWindow.cpp`, `SettingsParser.cpp`, `MainComponent.cpp` | `config.JSON`; copies of it in window, main window and panels | type, save at every change, Save, open again, start |
| drawing, texts, information windows | rest of `Source/` | layout | none that another part depends on |

Simulator and viewer share two things: the trace file, and the assumption that an
address printed by one is the address printed by objdump. Inside the viewer all
code runs on JUCE's message thread. What is concurrent there comes from the
message queue: file choosers return whenever the user is done, lambdas given to
`MessageManager::callAsync` run later, and a `ComboBox` notifies its listener
asynchronously, as does the text editor of a setting. In the simulator harts take
turns and only the signal handler is asynchronous. Two files outlive the programs:
the trace, which every session extends, and `config.JSON`.

### What is hard, and what makes each part correct

* **The trace.** CSR accesses execute in two attempts, traps and `wfi` leave the
  loops by exceptions, interrupts are looked at by the outer loop only, equal
  consecutive instructions are suppressed per hart, and silent runs lie between
  noisy ones. Correct means: the lines of a hart are what it executed.
* **The console.** A run is cut into chunks that return to Spike's outer loop, and
  Ctrl-C sets a flag at any moment. Correct means: `run n` runs n steps, `until`
  and `while` end where they say, Ctrl-C stops them, and nothing else does.
* **The analyzer.** It rebuilds a call stack from two marks per address, takes the
  callee of a call site from one file and the caller from the other, and counts
  the same events in three loops. Correct means: the profile is what the program
  did, the tables agree, and every trace can be opened.
* **The panels.** Each tells the others; one of the notifications comes late.
  Correct means: they settle, they settle on one function, and no index is used
  that does not exist.
* **The windows.** A result arrives after the state it was asked for has changed.
  Correct means: nothing that was deleted is used, what is written is what was
  meant, and the user is not locked out.
* **The sources.** Six flags that are set and reset in one loop stand for the state
  of a lexer, and function heads are recognised by brackets, braces and semicolons.
  Correct means: exactly what is no program text is blanked, and the place that is
  highlighted for a function is its definition.
* **The settings.** Four copies of the same values change at different times, and
  messages of edits come late; writing the file may fail at two places and nobody looks.
  Correct means: what was typed is saved, saving one value leaves the others alone, and
  once the settings are saved the program starts the next time.

`PROJECT.json` lists the hazards one by one with their lines.

## 2. Plan

1. *(done)* `CreateProject`, `Lifecycle`, `Selection`: the event handling.
2. *(done)* `Objdump` -> `TraceMarks` -> `Analyzer` -> `AnalyzerLaws`, and `Execution` +
   `Analyzer` -> `Pipeline`: the profiler, alone and behind a program.
3. *(done)* `Hart` -> `Console`: the writer of the trace and its console.
4. *(done)* Type correctness and the safety properties of the modules above, by proof,
   as far as section 5 lists them.
5. *(done)* `CommentLexer` -> `CodeParser`: the comment automaton against a lexer of C,
   and the search for functions over sources whose definitions are known.
6. *(done)* `Settings`: live saving, kills and restarts, composed with `Lifecycle`.
7. *(done)* `Console` with `until` and `while`; several sessions that append to one file.
8. *(done)* The abstract specification `Machine`, which `Hart` and `Console` implement.
9. *(done)* Proofs of the refinement, of the trace's order, and of 5 and 6.
10. *(done)* Proofs about `Pipeline`: the profile is what the program did; sums over
    sets for `CallsAreConserved`; the places `CodeParser` counts.
11. *(done)* Proofs that the search finds the definitions of any source and nothing
    else, and that `Settings` keeps what is proved of `Lifecycle`.
12. Left: `ReadTrace`, the lines at which `parseTrace` stops or throws; the host
    interface that ends a program.

## 3. Modules

| module | models | variables stand for |
|---|---|---|
| `Objdump` | `TObjdumpParser` | no state: the maps as functions of `Listing` |
| `TraceMarks` | `TraceParser` after reading | no state: marks and tables of a trace |
| `Analyzer` | `PerformanceAnalyzer` | `stage` and `i`: the place in the constructor; one variable per map, under its name in the source |
| `AnalyzerLaws` | - | properties of `Analyzer` for any trace |
| `Execution` | the profiled program, and `disasm` seen from outside | `pc`, `frames` (the real call stack), `last_pc`, `session`, `log` (the trace file, with what it does not say) |
| `Pipeline` | program, trace file and analyzer composed | those of both |
| `Selection` | `AsSubComponent`, `ProfileTable`, `CodeSubComponent`, `MainComponent::setSelectedFunc` | `panel`, `table`, `code` |
| `Lifecycle` | `MainComponent` | one variable per member, `queue` for the message queue, `status` for the exception that ended the program |
| `CreateProject` | `CreateProjectPanel` | the three lists, the choosers, the button |
| `Hart` | `processor_t::step` and `sim_t::step` | `core` (a hart's registers), `call` (locals of the call of `step` in progress), `file`, `pending` |
| `Console` | `sim_t::idle`, `interactive`, `interactive_run`, `interactive_until` | `at`, `ctrlc`, `next`, `frame` (locals of the function that runs), `typed` (who called it) |
| `Machine` | - | abstract: what a session executes and logs |
| `CommentLexer` | `TCodeParser::clearCommentsStringsSlashes` | its six flags, `kept` (the character in the result); a lexer of C: `mode`, `directive` |
| `CodeParser` | `TCodeParser::getCodeFromFile` | `buf`, `symbNum`, `lineNum`, `functions`; the source and what it defines |
| `Settings` | `SettingsWindow`, `TSettingsParser`, the settings of `MainComponent` | `config` (the file), `main`, `panel`, `text`, `applied` (the copies), `posted` (change messages) |
| `MC...` | the instances TLC checks | - |
| `...Proofs` | theorems about the module of that name | - |

### Correspondence

**Analyzer.** `Load` is `openProjectFile` up to the construction of the analyzer;
`TotalStep`, `ByStep` and `SelfStep` are one iteration of the three loops (lines
123, 141 and 156 of `MainComponent.cpp`), `BuildTable` and `BuildGraph` the two
constructions. A `map` with missing keys read as zero is a total function; where
the code uses `at` on a key that may be missing (the label of a node) the step
ends in `out_of_range`. The product of time (%) wraps as an `int`; the others are
`long` and do not. `addrCallerCalled` keeps the first entry (`insert`), which
`CallSites` says with `Earliest`. Addresses and names are members of sets; which
label names a function, and that every name that begins with "main" counts as
main, is in `ParseFuncName`.

**Pipeline.** `Execution` moves `pc` through the same listing the analyzer reads
and keeps the call stack the analyzer has to guess. In *orderly* executions
(`Orderly`) control is in the function on top of the stack, enters functions by calls
and traps at their first line and leaves them by `ret` and `mret`; none is active
twice; and from one line to the next at most one is left and one entered, which an
interrupt between two identical instructions breaks, for they are one line. *Tidy* ones
have no traps (`handlers`, a history variable, is empty), one session, and labels that
name the function control goes on to. `NoRestart` is a further assumption two columns
need. All are premises of the properties, not restrictions of
the model: untidy executions are explored too, and the violation `opening` comes from
there. A place of an indirect call may go to several functions; the tables know it by the first
(`FirstCallee`), and `EdgesAreCalls` says that the weights count its calls for that one. The
first lines of a session may be in no function: the boot ROM, which jumps to
the program. `Restart` is a new simulator, started after the last one ended or was
killed at any line: its `last_pc` is fresh, the file is not.

**Selection.** `Click`, `Key`, `Sort`, `Pick`, `Search`, `NextOccurrence`,
`PrevOccurrence`, `Scroll` and `SetFontSize` are the user's; each is the whole chain
of synchronous calls it starts. `Deliver` is the dropdown's `onChange`, from the
queue, with the text of that moment. `Select`, `GoTo`, `ShowNumbers` and
`ScrollToFunc` are the methods of the trace panel. A search for text that names
no function changes nothing but the text field and is left out.

**Lifecycle.** A chooser's result may come at any time, unless another chooser
replaced it. `Post` opens a waiting window and queues a lambda; `RunTask` is the
lambda: reading the project (it may be good, incomplete, not JSON, or good with a
listing or trace that makes a parser throw), building the panels, closing the
waiting window unless an exception leaves. `Resized` and `SaveSettings` call through
the panels' pointers.

**Hart.** One action is one iteration of `processor_t::step`'s inner loop, or of
the outer one when an interrupt or a waiting hart keeps the inner from beginning.
`Advance` is `advance_pc` for an instruction that moves on; `EndInner` the end of the
inner loop with the bump of `mcycle`; `SerializeBefore`, `Csr` and `CsrFault` the two
attempts of a CSR access. `sim_t::step(n)` always makes a single call of
`processor_t::step`, because it is called with 1, or with INTERLEAVE when
`current_step` is 0. A store to the CLINT raises or clears an interrupt of any
hart, and a tick of the devices after the last hart's turn raises any. A CSR instruction
(`CsrWrites`) writes MIE and MPIE of mstatus, mepc, or mcycle, or nothing that matters
here; or it writes mie or mip, which raises or clears an interrupt of the hart (`CsrPending`).
mcycle is a number modulo `CycleMod`; a write stores one less than the value, for the bump
at the end of the inner loop (`WriteMCycle`). `executed` and `era` are history variables:
the instruction each hart executed last while `debug` was set; how often the hart's
mcycle was written or wrapped, also kept for each line.

**Machine.** The abstract specification of the trace: harts take a whole instruction at
a time, look for interrupts before each and note it in a log, one entry for a run of
equal ones. `Hart` implements it under the mapping `M` at its end: a line that the first
attempt of a CSR access has written already is not in the log until the second attempt
(`Unfinished`), and counters, calls, chunks and the prompt are forgotten. `IsMachine`
is checked and proved of `Console`, the composition; of `-l` it is false, and the
violation `log` shows how.

**Console.** `Interactive` is `idle` with the beginning of `interactive`; `Command`,
`Enter` and `Quit` what the user types; `RunStep` and `RunEnds` the loop of
`interactive_run` and what follows it, `UntilStep` and `UntilEnds` those of
`interactive_until`; `Return` is the way back to the prompt or to `idle`; `CtrlC` the
signal handler, enabled in every state. A condition compares the pc of a hart with an
address. `ran`, `asked`, `pressed`, `stale` and `runs` are history variables.

**CommentLexer.** One step is one character: `Clear` is an iteration of the loop,
with the six flags, and `Lex` what a lexer of C makes of the same character. The text
is arbitrary. `tame` stays true until one of the combinations appears that the flags
mistake (`Wild`): a `#` or `//` in a string, in a long comment whose last line goes on, or
elsewhere on a line of code; `/` and `*` that only look like the two halves of a delimiter
(`/*/`, or either one in a string); a quote that is escaped in code or is a character
literal; a line comment or directive continued by a backslash. In these texts the loop does blank
program text, or keeps a comment: that is what the code does, and the property is
stated for the others.

**CodeParser.** The source is written item by item by an author (`Write`), who knows
what is defined where; `Read` takes the next character, cleared, and ends a chunk at
`}` (`getline`); `Search` is the body of the loop over the chunks, with `Look` an
iteration of the innermost loop. The code clears the whole text before it searches,
which makes no difference, since clearing looks only backwards (a slash is blanked where
it stands). A function that the text spells in a way the search does not expect is in `odd`
(`char *f()`, a longer name that begins with `f`, a prototype with an attribute, a name in
an expression), one that its chunk names before its definition is in `hidden`: the
properties say the rest is found where it is.

What an item may be is said of each by itself, so that items can be strung together in
any number and order (`Regular`). `Text` is what a lexer of C leaves of it. A definition
has the name as a word, for the first time in the item, and its brace with no `}`
between (`Leads`); every other place that is a word and a function's name comes to no body
inside the item, and at the end of it the scan has stopped, or a bracket has been closed
that was open before the name (`Harmless`: a prototype, a call, a call in the condition of a
block); an item leaves no bracket open in front of a brace or at its end (`Balanced`);
it ends in program text. `Regular` uses `Look`, the loop of the code, to say what a scan
comes to: it describes the sources for which the search is meant, and the definitions and
names that are spelled otherwise are the ones marked `odd`. What the properties then add
is everything between items: chunks, cuts at braces, the first place of a name in a chunk
that began items before, the scans that go on from one item into the next, and the counting.

**Settings.** `Start` and `Kill` are the program's life, `OpenSettings`, `Type`,
`TextChanged` and `SaveButton` the window's; `SavedAs` is `saveSettingsToFile`, which
writes, cannot open the file, or empties it by opening it and then fails to write (and the
program goes on) or is killed. A file that is cut off makes the parser throw when the
program starts (`no_start`), when the window is opened, after the old one was deleted
(`OpenSettingsThrows`), and when Save reads it (`SaveButtonThrows`). `failed` and `editing`
are history variables: the last save did not get through; the window was opened, and no
Save button and no start has read the file since. Everything else is `Lifecycle`:
`Show`, `SaveSettings` and `RunTask` are its actions with the settings' part added
(`RunTaskSized` gives new panels their sizes), the rest is `Others`. JUCE's
`TextEditor` and `ComboBox` post their change messages, and the deletion of the window
drops them; hiding it does not.

### Abstractions

* An instruction is its address: code does not modify itself, so `last_bits` says
  nothing `last_pc` does not.
* Harts run in M-mode, without delegation, debug mode, triggers or single step.
  The host interface never ends the program.
* mtvec is `Handler` from the beginning, although a program sets it by a CSR access; a
  program with several handlers is not an instance. Counting is never inhibited
  (Smcntrpmf), and all of mcycle is written at once, as harts of 64 bits do.
* File contents are members of small sets; characters are modelled in `CommentLexer`
  and `CodeParser` only. There the name of a function is one character, and a tab is
  a space.
* A session of the simulator ends between two lines of the trace: each is written and
  closed by itself.
* The numbers of `Hart` and `Console` stay far below their widths; the wrap that
  matters (time in percent) is modelled.

## 4. What TLC checks

### Runs that pass

| run | instance | shows |
|---|---|---|
| `analyzer` | 13-line listing (`MCAnalyzer`), all traces of up to 4 of 8 addresses, MaxInt 700 | `CallsAreConserved`: calls by pair and calls by function are the same number. `EveryCountIsDrawn`: a counted call is an edge. `TableIsEntered`: a row belongs to a function with a first line. `FailsOnlyOnUntraced`: `at` throws only for functions without lines |
| `pipeline` | program `Compiled` (four functions, an interrupt handler and a boot ROM outside of them; loops, one around an indirect call of two functions), traces of up to 10 lines by one simulator or two, MaxInt 950 | `TimeIsInclusive` (with interrupts), `CalledIsEntries` (with interrupts and over several sessions), `EdgesAreCalls` (also when a place calls two functions in turn): times, calls and edges are those of the execution. `TidyPercentages`, `TidyOpeningEnds`: tidy programs have percentages and can be opened |
| `selection` | 3 traced functions (two with rows, one never entered), one that is in the source only, two orders of rows | `NoDivisionByZero`, `ShownOccurrenceExists`, `DropdownNamesSelection`, `PanelsAgree`, `NotificationsEnd` |
| `lifecycle` | 2 project files | `PanelsAreThere`, `EnabledWhenAlone`, `SaveWritesWhatWasOpen`, `WaitingEnds` |
| `create` | 2 files, 4 paths | `SaveReadsExistingPaths`; `DeadEnd`: a second trace or listing before Save was enabled is final |
| `trace` | 1 hart, program `MCProgram` with one instruction of each kind, mcycle modulo 5, one write of it or wrap, three commands of 4 steps | `IsMachine`: the trace is the log of the abstract machine. `CyclesAdvance`: mcycle does not go back between writes. `NoneSerialized` |
| `console` | 2 harts, INTERLEAVE 2, runs of 0, 1, 2 or 5 steps, an until and a while, two commands, mcycle up to 2 | `CountIsKept` and `GoalIsMet`: runs end where they should. `CtrlCStopsChunks`: later chunks do not forget Ctrl-C. `IsMachine` with two harts, and in `TypeOK` that `current_proc` is a hart |
| `source` | sources of up to 5 of 21 items over 20 characters (`MCCodeParser`) | `CodeIsKept`: what is blanked is what is no program text. `FoundWhereRead`, `FoundIsDefinition`, `DefinitionIsFound`: the place of a function is where its name was read, places found are definitions, and definitions are found |
| `settings` | 1 project file, a size the panels show and one they do not, 2 values, 2 queued messages | `NothingTypedIsLost`, `SaveTakesEffect`, `OthersUntouched`, `PanelsShowSettings`: the copies agree when they should. `StartsOnceSaved`: the program starts unless the window was used and not saved |

Types are checked with `TypeOK` and `SettingsType`, those of `Lifecycle` and `CreateProject` proved
only. Every property has been broken by at least one
plausible change of the modelled code (the operators named `..._...` beside the
definition they change, listed in `PROJECT.json`).

### Runs that find a disagreement

| run | property | what happens |
|---|---|---|
| `opening` | `OpeningEnds` | A branch to a label is a call site of that label. When the branch is not taken and control falls into another label, the graph has a node for a function without lines, `at` throws, and the project cannot be opened |
| `log` | `LogIsComplete` | With `-l`, an interrupt between the attempts of a CSR access hides the first instructions of its handler |
| `ctrlc` | `CtrlCStopsRun` | Ctrl-C in the first chunk of a run longer than INTERLEAVE is forgotten and the run goes on |

These are statements of texts of the repository about what its code does;
`PROJECT.json` quotes them under `findings`. More came up and have no run of their own:

* A recursive function collects time once per activation, so that its time can
  exceed 100 %.
* A project file that is not JSON ends in an uncaught `parse_error` and not in the
  alert (`status = "parse_error"` in `Lifecycle`); after a failed attempt to open a
  file, closing the project names that file; the information window of a project is
  never deleted.
* "New project successfully created!" appears also when nothing could be written
  (`CreateProjectWindow.cpp:268`).
* Ctrl-C at the prompt makes the first chunk of the next `run n` take no step; the
  premise `~stale` of `CountIsKept` and `GoalIsMet` is this.
* A session that is cut off behind a call instruction, followed by another in the
  same file, loses its profile: main begins where the callee should, is counted as
  called, and `at` throws for an edge that nobody made. Without the premise
  `OneSession`, `TimeIsInclusive` and `TidyOpeningEnds` are violated.
* A program killed while it saves the settings, or whose disk was full then, does not start
  again until the empty `config.JSON` is removed (`status = "no_start"`); with a full disk the
  program goes on, and ends when the settings window is opened again or Save is pressed
  (`status = "parse_error"`). `StartsOnceSaved` says when this cannot happen.
* A program that writes mcycle sets the time of the trace back. `CyclesAdvance` is stated
  between two writes.
* An indirect call counts all its calls for the function it called first.
* The texts that are not tame, and the definitions that are odd or hidden (above).

### Bounds, and why they are enough

* `analyzer`: the analyzer looks at a line and its successor, and keeps one
  previous function and one counter per function. Four lines hold two transfers
  with a line before and after them; the eight addresses cover every combination
  of marks the listing tables can give (first, last, both, neither, outside the
  listing, in a function called through an alias).
* `pipeline`: ten lines reach main calling f, f calling k, g or both from the same place, in
  either order, and k from it twice; returns through both, an interrupt at any point, and a
  session cut off anywhere with one after it that enters and leaves f. A session begins in the
  boot ROM, at main, or in the middle of it. MaxInt 950 is between the products of nine and ten
  lines, so that the overflow happens and `Fits` both holds and fails.
* `selection`: a function with two occurrences, one with one and one with none are
  the three cases of the buttons; two rows are the least that can be sorted.
* `lifecycle`: the menus are blocked while work is queued, so that the queue stays
  short by itself; two files tell the project that is open from the one asked for.
* `create`: MaxChosen 4 lets one field have two paths while the others have one.
* `trace`: mcycle is below 5 and may once wrap or be set to 2, so that a hart counts up to
  ten instructions: once around the program with an interrupt or a trap between any two of
  them, and times before the write that are reached again after it. Three commands of 4
  steps, each in two chunks, can be a silent run between two noisy ones.
* `source`: a definition, a second one after a closing brace, and comments, literals
  or calls before, between and in them take five items; of two functions one is
  defined, or both.
* `settings`: two keys tell the setting that was changed from the others; two messages
  are the least that can be served after the window was reopened and in order.
* `console`: 5 steps are two full chunks and one that is not; the second command meets what
  the first left of flags and chunks; two harts make `current_proc` wrap. CycleMod 3 and
  MaxEra 0 let a hart count three instructions. MaxEra stops it in the middle of a run, and
  behaviours end there: CHECK_DEADLOCK is off for this reason in `trace`, `console` and their
  violations, and in the others because the user may do nothing, the analyzer is done, or an
  exception ended the program.

### Fairness

* `Analyzer`, `Pipeline`: WF(Step). The constructor runs to its end once called.
* `Selection`: WF(Deliver), `Lifecycle`: WF(RunTask). JUCE's message loop serves its
  queue; no fairness is assumed of the user, so that choosers and windows may
  stay open for ever. `NotificationsEnd` and `WaitingEnds` rest on these two.
* `Hart`, `Console`, `CreateProject`, `CodeParser`, `Settings`: none; only safety is
  checked there. (`Machine` promises no liveness either: what a hart does next is up
  to the user at the prompt.)

## 5. What is proved

All theorems hold for every value of the constants under the named assumptions of
the modules, and are checked by TLAPS to the last leaf.

| module | theorems | inductive invariant |
|---|---|---|
| `AnalyzerProofs` | `TypeCorrect`, `ProfileIsEntered`, `GraphIsComplete`, `OpeningFailsOnlyOnUntraced`, `CountsAreLines`, `CallsAreKept` | `Position` (a pass stays inside the trace), `SelfInv` (self time is positive exactly for functions among the lines seen), `EnteredInv` (time runs only after a first line), `SitesInv` and `CountedInv` (what is counted is in `callingMap`), `Counts` (each counter is the number of lines of its kind that its loop has passed), `SumsInv` (the sums of the two call tables are the numbers of calls and of first lines passed), `RowsInv` (the table has the rows of the counters) |
| `PipelineProofs` | `TimeIsRebuilt`, `CalledIsRebuilt`, `EdgesAreRebuilt`, `TidyTableIsSane`, `TidyOpens` | the invariant of `AnalyzerProofs`, `ExecInv` (how a line of the log can follow the one before: by which instruction, with how deep a stack, with which handlers), `Frozen` (the analyzer reads the log), `TimeInv` (the multiplier of a function is 1 while it is on the real stack and its time is the number of lines it was, in the first pass) |
| `SelectionProofs` | `TypeCorrect`, `ButtonsAreSafe`, `OccurrencesAreReal`, `SelectionIsShared`, `DropdownFollows`, `CircleIsBroken` | the five properties together with `Sound(panel)`: the buttons are enabled only for a function with occurrences, or before anything is selected |
| `LifecycleProofs` | `TypeCorrect`, `PanelsNeverMissing`, `EnabledIsRight`, `SaveIsRight`, `WaitingIsForALambda`, `WaitingComesToItsEnd` | a waiting window for each queued lambda, at most one chooser, nothing queued that opens a project while Save's chooser is open, at most one child window |
| `CreateProjectProofs` | `TypeCorrect`, `SaveSafe`, `TwoPathsAreFinal` | an enabled button has a path in every field, and the save chooser is open only while the button is enabled |
| `ConsoleProofs` | `CsrAccessesEnd`, `RunsAreCounted`, `RunsReachTheirGoal`, `CtrlCIsKept` | `OneStep` (the console asks for one step at a time), `OnlyRetry` (a hart between two attempts is the current one, at a CSR access, with no interrupt to take), `StepsAreSomewhere` (the steps asked for are taken, in `frame` or in `next`), `GoalIsSomewhere` (a condition is dropped only where it holds), `Kinds` and `NothingElse` (what runs is what was asked for, and no rest is left behind) |
| `ConsoleProofs` (of the trace) | `TypeCorrect`, `TraceAdvances`, `TraceIsLog` | the same and `LastLine` (`last_pc` is the instruction executed last, or ahead of it between two attempts, when the last line is the one that is ahead), `CycleBound` (no line is ahead of its hart's counter, and one that is as far has trapped or is not counted yet; all this within one `era`) |
| `CodeParserProofs` | `ClearingIsRight`, `SearchReadsProgramText`, `PlacesAreRight`, `WhatIsFoundIsADefinition`, `EveryDefinitionIsFound` | `FlagsRemember` (three flags are facts about the text read, in any text) and, while the text is tame, `Agrees`: each flag says what the lexer of C says in its mode, with the exceptions right after a comment and for escapes inside one; `PlaceInv` (the counters and the chunk add up to the place that is read); `SearchInv`: `Between` items or `Within` one, every word of the chunk that names a function is where it is defined or comes to no body (`Sound`), and every definition is found, will be at the end of the chunk, or lies ahead (`Complete`) |
| `SettingsProofs` | `SettingsTyped`, `TypedIsSaved`, `PanelsFollow`, `SavedStarts`, `SaveTakes`, `OneKeyChanges`, `RunsAreLifecycle`, `PanelsThereForSettings`, `MainWindowKeepsItsWord` | `PanelHasText` (the window's copy has what was typed and served), `FileIsPanel` (the file is that copy unless it could not be written), `MessagesHaveWindow`, `ShownExists`, `EditingWindow`, `TornByWindow` (a file is cut off only by a window that was opened since); `MainInv`, the invariant of `LifecycleProofs` while the program runs |

The invariants say why the code works where it is fragile. `SaveIsRight` needs
that the waiting window blocks the menus while a lambda is queued. `SaveSafe` needs that
paths are never removed, since the button is never disabled. `CsrAccessesEnd` needs
that interactive mode runs single steps: `OneStep` is what `-l` does not have, and
`log` shows the consequence. `TraceIsLog` is a refinement: one lemma per action of
`Hart` shows that the step is an interrupt, a fetch, an instruction or nothing of
`Machine`, with `LastLine` for the lines that repetition suppresses. `ClearingIsRight`
holds for every text over every alphabet, where `source` reads a few, and so does
`PlacesAreRight`: what is counted is right in any text, what is found only in tame ones. `OneKeyChanges` is true only because the window takes its copy from
the file and not from the main window, and `SaveTakes` because Save reads what every change
has already written. `ProfileIsEntered` is the assumption of `Selection` about
rows (`SelectionAssumption`), so the two modules fit together.

`PipelineProofs` shows for every listing and every orderly execution, of any length and
call depth, that the profile is the program's. The argument is in four steps. `ExecInv`
says what may lie between two lines of the log although it wrote none: the same
instruction again, and interrupts. From it and `Orderly`, `Turn` says what one line does
to the stack: the function of the line before is closed if that line was a last line,
the line's function is opened if it is a first line, and nothing else changes. That is
what `TotalStep` computes with its marks, which gives `TimeInv` step by step. The other columns
come from `Counts`, where each counter is a cardinality already: `FirstIsEntered` and
`SitePair` match the marks with what was really called, and `CalleeIsFirst` the callee of a
place with its first call in the log. `TidyOpens` and
`TidyTableIsSane` follow: both ends of a counted pair have lines, and a function's self time is
part of its time, which is part of the whole. The proofs needed three assumptions that
a disassembly satisfies: addresses of instructions are unique, control stays in the code
(`ExecutionAssumption`), names are finitely many (`ObjdumpAssumption`). And they showed that
the log does not tell which functions are handlers: one that another interrupts before its
first instruction is logged only after the `mret` of the other. `handlers`
remembers them; their own time is not compared, since nothing closes them.

`WhatIsFoundIsADefinition` and `EveryDefinitionIsFound` hold for sources of any number of
items. `source` strings five of them together; the assumption `ItemsAssumption`, which TLC
evaluates on the items of that run, is about one item at a time, and the theorems say that
nothing can go wrong between regular items. `ScanAppend` is the step everything rests on: the
scan is a fold, and one more character is one more `Look`. `FoldLeft` is a recursive
function over subsets of positions, so the lemma compares the two functions at each prefix
and takes the first place where they would differ. A scan that passes the end of its item
stands in a bracket depth below the one it began in; as brackets are balanced in front of
every brace, it never meets a brace at depth 0 again (`DeadStays`). That a definition is
found needs that its chunk has no earlier place with its name (`hidden`, else), that no `}`
lies between the name and its brace, and that the flags of the comment loop agree with the
lexer of C at each character (`KeptIsRight`, from `LexInv`).

`RunsAreLifecycle` is the refinement behind the composition of `Settings`: seen without the
settings, each step of the program is one of `Lifecycle`'s, a start, or its end by a kill or by
settings that cannot be read. What
was proved of the main window alone holds beside the settings for this reason.

`CallsAreKept` compares sums over sets of pairs and of functions. `MapThenSumSet` is a fold,
about which nothing can be proved by induction here; the lemmas on sums
(`SumExists`, `SumBump`) take a smallest counterexample instead, which is an
argument about a set of subsets and needs no induction.

Assumptions on constants: `ObjdumpAssumption` (the listing is a sequence of
headers and instructions, names are finitely many, "main" begins with "main"),
`AnalyzerAssumption`, `ExecutionAssumption` (every instruction that runs is in the
listing, once),
`SelectionAssumption` (names differ from the two texts of the dropdown; an order
lists each row once), `HartAssumption` (reset vector and handler are in the
program; what is written to mcycle fits; `CycleMod` is greater than INTERLEAVE), `ConsoleAssumption`, `LifecycleAssumption`, `CreateProjectAssumption`,
`CommentLexerAssumption` and `CodeParserAssumption` (plain characters are not
special, names of functions are no punctuation), `ItemsAssumption` (each item is regular), `SettingsAssumption` (the defaults are complete, an editor without a size is no
value). TLC evaluates each in the runs above.

**Only model-checked:** the liveness properties `NotificationsEnd` and `WaitingEnds`, since fairness
and ENABLED are beyond the installed provers. What they rest on besides fairness is proved:
`WaitingIsForALambda` and `WaitingComesToItsEnd` give a variant, `Left`, that counts the queued
lambdas and the one that an awaited chooser may still post; no step while the user waits makes it
grow, and each lambda makes it less. `CircleIsBroken` says that an answer to the dropdown queues
no further one. Every invariant and every action property of the passing runs is stated by a
theorem.

## 6. What is not modelled

* `parseTrace`'s way through a line: it stops at one with other than two `|`, and
  `stoi` throws for a time beyond an `int`. The viewer's model begins with the
  addresses that were read (12 in the plan).
* Conditions of `until` on registers and memory, command files, the commands that
  print; what the prompt does with arguments it rejects.
* Scrolling and layout, colours (the NaN at `MainComponent.cpp:219` when nothing has
  self time), fonts, texts, Graphviz and SVG: nothing else in the program depends on them.
* Spike's instructions, memory, floating point, devices and host interface: third
  party; `Hart` has what they may do to control.
* JUCE and the JSON library: third party; the rules of the message queue, of
  modal windows and of `ComboBox` are part of the modules that rely on them.
* The RISC-V tests and benchmarks: programs to be profiled; `MCPipeline` has
  programs of their kind.

## 7. Running

    tlc -config MCPipeline.cfg MCPipeline     # one run; see PROJECT.json for all
    tlapm AnalyzerProofs.tla                  # one module of proofs

The longest runs (`pipeline`, `source`, `trace`, `console`) take between one and three minutes, the
longest proofs (`ConsoleProofs`) a few.
