# A TLA+ model of dekopon-console

`dekopon-console` is a terminal console for a running Dekopon broker. An operator picks an agent,
acts through it *on behalf of* an attested subject, and runs shell lines whose capability calls go to
the broker. It has an interactive mode (ratatui) and a framed, non-TTY `--structured` mode. This
directory holds TLA+ models of its control, the TLC runs that check them, and TLAPS proofs of the
properties that matter most.

Source paths below are relative to the repository root: `tui` stands for `crates/dekopon-tui/src`,
`bin` for `crates/dekopon-console/src`.

## 1. Inventory

| Component | State it keeps | Operations | Hard behaviour | What makes it correct |
|---|---|---|---|---|
| Event loop and dispatch, `tui/run.rs` | the `RunningTurn`, `options` (subject, profile, model, bounds), history | draw, key, session event, hop (`Enter`), shell line, settle, stop | awaits inside a select arm; quit, Esc or a hop against a worker thread; a leg refused half-way; a worker that panics | one command at a time, under the open session; every command settles; nothing runs behind an exited console |
| App state, `tui/app.rs` | mode, pane, highlight, composer, session, inventory, shell history, busy, quit, last error | keys, `enter`, `start_shell`/`finish_shell`/`fail_shell`, `request_stop`, `raise` | state left over from an earlier agent or command | what the screen names is whom the session acts for; outcomes are final |
| Stop flag, `tui/session.rs` | requested, bound cancel handle | request, reset, bind | order of reset and bind against Esc and quit | a stop reaches the leg in flight, and only that one |
| Profiles and hops, `tui/run.rs`, `tui/profile.rs` | authored profiles, `--profile` | refuse, choose, replace identity | a field a profile leaves out; several or no profiles for an agent | no identity is borrowed from another agent's profile |
| Startup selection, `bin/main.rs` | command line, profiles document, catalog | refuse, resolve | resolves the same data as a hop, in other code | both agree |
| Structured transport, `tui/structured.rs` | nonce, lines read, frames written, deadlines | enter, read, dispatch, drain, join, cancel, frame | deadlines at every await; an unabortable worker; a line over the limit | a frame tells the truth about its line; nothing runs behind an answered line; the session ends |
| Runtime shutdown, `bin/main.rs` | the runtime | give up after a grace period | blocking threads outlive the session | the process ends |
| Asset inventory, `tui/session/assets.rs` | rows, bytes, last id | insert, fetch, remove | limits, id exhaustion, ids kept by scripts, blobs in use | limits hold, capacity is not leaked, ids keep their meaning |
| Broker legs, `tui/session.rs` | attestation, effective capabilities | open, call, cancel | granted, empty, refused, silent | see the loop |
| Model turn, `tui/session.rs`, `tui/record.rs`, `tui/transcript.rs` | transcript, ordinals, channel, history, call cursor | submit, record scripts and calls, fold events, hand the history back | events say neither their turn nor their script; the console is free before the task is joined | every call on screen is under the script and turn that made it; a stop is its own task's |
| Text of results and lines, `tui/structured.rs` | what is left of the limit; the bytes of the line being read | sanitise, escape, clip, note the cut; collect, split, decode | a marker behind a tab or a cut; the limit itself; chunk boundaries inside a line or character | no frame is forged; a cut is noted; chunking is invisible |
| Redaction, `tui/redact.rs`, `tui/app.rs` | revealed fields, previous run of the scan | scan a text, walk a payload, reveal the next field, hop | the same path in two calls, keys with dots, a scheme and its credential | exactly the credentials are hidden; one path per keystroke; nothing stays uncovered after a hop |
| Reports, `tui/report.rs`, `tui/app.rs` | broker trace, session, highlight | collect the causes, fill in the facts | filled in when written, after an attempt that may have opened nothing | a report is about the attempt that failed, and tells every cause |
| Screens, `tui/ui.rs`, `tui/ui/*` | row offset, viewport, error scroll | draw, page, resize, raise | offsets kept across output and resizes, saturating arithmetic, u16 | the end can be shown; only the reader moves the reader |
| Telemetry, idle | | exporters, one signal | | left out |

How they interact: `main` resolves who to act as (Selection) and calls either `run` (Console) or
`structured::run` (Structured). Both dispatch the same two actions, `Enter` and `Shell`. A shell line
opens a fresh broker leg for the open session's agent, subject and inventory (Assets), binds the stop
flag to it, and spawns a Tokio task around one `spawn_blocking` interpreter. The worker sends its
outcome over an unbounded channel; the loop receives it, sees the channel close, joins the task and
settles. Everything the loop does between two awaits is one step of the models, the worker and the
broker run beside it.

`PROJECT.json` lists under "hazards" what is hard to test here, at the line where it bites, and which
property covers it.

## 2. Modules

| Module | What it models |
|---|---|
| `Profiles` | authored profiles and the hop's refusals and choice; operators only, shared by `Console` and `Selection` |
| `Console` | the interactive loop, the keys, the app state, the stop flag, one worker per command, the terminal |
| `SerialShell` | what the interactive console promises, abstractly; `Console!KeepsPromise` is the refinement |
| `Structured` | `run_with_limits`, with its timers, its cancelled and abandoned workers and the runtime's shutdown |
| `FrameProtocol` | what a structured client may conclude from frames; `Structured!KeepsPromise` is the refinement |
| `AssetsLimits`, `Assets` | the limits of an inventory; the inventory of one entry, shared by any number of callers |
| `SelectionInputs`, `Selection` | documents and command lines; startup's resolution of them beside the hop's |
| `Transcript` | `Turn::absorb` and `Transcript::absorb` as operators: how session events are folded, token sums, the call list and its cursor |
| `ModelTurn` | model turns beside shell commands and hops: legs, the blocking worker, its recorders and channel, history, stop flag; uses `Transcript` |
| `TranscriptFold` | the fold alone, fed any sequence of events at all |
| `ResultText` | `write_result`: the text of one result against its limit |
| `LineReader` | `read_line`: commands cut out of a byte stream that comes in chunks |
| `CredentialRuns` | `redact_text`: the scan of a text for credentials |
| `Redaction` | what a payload hides, and reveals by call and dotted path, through hops |
| `ShellPager` | which rows of the shell transcript and of an error report are on screen |
| `Reports` | the causes and the facts of an error report, through hops, commands and refusals |
| `Parts` | runs the parts that share no state (`TranscriptFold` to `Reports`) side by side |
| `AllParts` | `Parts` with `Assets` and `Selection` beside them |
| `ConsoleProofs`, `StructuredProofs`, `SelectionProofs`, `AssetsProofs`, `ModelTurnProofs`, `TranscriptFoldProofs`, `PartsProofs` | the theorems and their lemmas |
| `Counting` | what those rest on: induction over sets of numbers, and sums |
| `MC*` | instances for TLC: small configurations and the inputs enumerated |

Definitions whose comment starts with *Fault* are plausible mistakes in the definition that follows
them. No specification uses them: they are the mutants that show each property can fail.

### Console: state and actions

`loop` is a program counter of `drive_event_loop` and of the awaits inside `dispatch`: `draw` and
`select` are the loop proper, `entering`, `opening` and `recording` await the broker inside the select
arm (no key is read then), `stopping` is `stop_running`. `raw` is what `TerminalGuard` holds.
`identity` is `options.subject` and the profile it came from, `shown` what the screen names, `session`
whom the open session acts for, `assets` which entry's inventory `:asset` fills. A leg is a record of
agent, subject and entry; `leg[c]` is the one opened for command `c`, `worker[c]` its thread. `shell` is
`shell_history` reduced to the command, the entry it ran under and running / reported / failed.
`composer` remembers the kind of line and under which entry it was typed. `requested` and `handle` are
the two fields of `StopFlag`, `fired` the cancel signals that have been set.

A key is one action per outcome in `on_key`; keys and refusals that only change the notice, the scroll
position or the viewport are `KeyWithoutEffect` (or, where the composer is emptied first,
`SubmitRefused`). `Enter` is the whole of the hop up to the await, with `clear_agent_context`;
`EnterGranted` and `EnterDenied` are its two ends. `SubmitScript`, then `ScriptSpawned` or
`ScriptDenied`, are a shell line; `ReceiveOutcome` and `FinishTurn` (with `settle_turn`) its completion.
`KeyQuit` covers Ctrl-C, `q` and the end of the key stream, `TerminalFails` a draw or key-stream error.
`selected` counts from one and is clamped to the catalog's last agent (`Clamp`); of an empty catalog it
stays 1 and nothing can be entered. `WorkerPanics` is a panic inside `spawn_blocking`: the session task
turns it into `SessionError::Task` and ends normally, so `settle_turn` takes its error arm; the arms for
a session task that itself died are not reached by it. `SettleTurn` applies `FailShell` on every settle,
the code only on an error or a still-pending entry: `FailShell` does nothing to an entry that has its
outcome, so the two come to the same.

### Structured: state and actions

`pc` follows `run_with_limits`; `n` counts lines, `before` is the length of `shell_history` when the
line was read, `frames` is all that was written. `worker` and `mail` are as in Console, `result` is how
a line really ended, which only the properties compare with the frames. There is no clock: a timer is
an action enabled while the loop awaits what it guards. `tokio::time::timeout` polls its future first,
but the worker is another thread and may finish between that poll and the timer's, so the model lets a
timer win even against a finished worker.

### Assets and Selection

`Assets` makes the blob first and takes the mutex afterwards, as `attach_base64` and `register` do; a
caller's work under the mutex is one step. `pin` is a clone of a blob that a capability call holds.
`Selection` picks any document and command line in `Init`, starts or refuses, and then hops. The
constants of both, with their assumptions, are in modules of their own so that `AllParts` can have them
without their variables.

### ModelTurn and Transcript: state and actions

A task is a prompt or a shell line. `mail[t]` is its channel, in order; `ordinal[t]` the recorders'
`Sequence`; `open[t]` the calls of a pipeline that are out at once. `Receive` folds one event into
`transcript` with the operators of `Transcript`, which have to find the turn and the script by what is
still running. `Settle` is `finish_turn` and `settle_turn`. `ledger` and `outcome` record what each
worker really did, calls in the order of their answers, and `dispatched` the order they were sent in;
only the properties read them. `Spawned` overwrites `running` whatever it held, as
the assignment in `dispatch` does: a receiver dropped that way loses its events, and `Emit` to it is a
no-op. The model's context window is bounded by exchanges (`Keep`), not by bytes.

No key of the console produces `Action::Turn` or a reveal, and nothing under `ui/` draws payloads: this
is machinery the library still offers (`App::submit_turn`, `App::reveal_next`, `redact`), and its models
speak of it as such.

### The parts

`ResultText` writes a text line by line; a line is its length in characters, their width in bytes and
whether it begins like a marker. `LineReader` keeps the bytes: LF, CR, ASCII, and the two halves of one
character. `CredentialRuns` is one pass over runs and separators. `Redaction` has a payload as a
function from places (sequences of child numbers) to nodes and walks it in document order, secret keys
included. `ShellPager` keeps the code's own arithmetic (saturating at zero,
`u16`, of which `ScrollMax` is the largest value) over terminals lower and higher than the eleven rows
of fixed layout. `Reports` has an error as its chain of
causes and remembers, for the properties, which attempt each report was written about.

## 3. Runs

| Run | Question | Instance |
|---|---|---|
| `console_safety` | do identity, screen, busy, stop and worker stay consistent under every interleaving, and is the console a `SerialShell`? | 2 agents with a profile each, 2 entries, 2 commands, 1 call, smoke, panics; 1.7 M states |
| `console_panic` | **violated**: is the terminal held until loop and worker are done? | panics; see Findings |
| `console_liveness` | does a command settle, is a quit honoured? | 2 agents, `--profile` fixing one of two profiles, 2 commands, panics, fairness; 158 k states |
| `structured_safety` | do frames tell the truth, is a line settled before it is answered, is it a `FrameProtocol`, does the session end and the process let go with nobody cooperating? | 3 lines, 2 calls, fairness |
| `structured_join` | **violated**: does END follow drain and join on every path? | see Findings |
| `turn_safety` | is the transcript what the workers did, is a stop its task's, does the call cursor keep its call, is the console free again? | 2 tasks, 2 entries, 3 ordinals, refusals, panics, fairness; 436 k states |
| `turn_order` | **violated**: are a script's calls listed in dispatch order? | 1 task, 3 ordinals |
| `turn_hop` | **violated**: is the open session's history its own? | 1 task, 2 entries |
| `parts_all` | the properties of the parts, listed in `Parts` and `AllParts` | see below; 1.04 M states |
| `result_bytes` | **violated**: is a result bounded in bytes? | texts of up to 3 lines around a limit of 3 |
| `report_end` | **violated**: can every report be scrolled to its end? | terminals of 8 to 14 rows, a report of seven |
| `reveal_path` | **violated**: does a keystroke uncover one field? | payloads with dotted keys |

Why the bounds are enough. Two entries are what is needed for something of the first to survive into
the second; two commands for a stop, an outcome or a busy flag of the first to reach the second; one
capability call for a call to be outstanding at a bad moment. `MaxCommands` in `Structured` is the
code's 64 made small: two answered lines, the last line, and the refused one are all reached with 3.
Three ordinals make a script with two overlapping calls, or two scripts, one with a call; two tasks a
turn overtaken by the next, or by a shell line.
`MaxEntries`, `MaxCommands` of `Console` and `MaxBlobs` bound the run, not the code: the theorems of
section 4 hold for every value of them. 
The parts share one run because they share no state: an initial state picks one of them and the others
stay put, so that the run is as exact for each as one of its own. In `parts_all` texts have up to three lines, each from empty to one character over the limit, so that
the limit falls inside a line, between lines, on an escape and on the last character; streams of up to
five bytes over a line limit of three hold a line of exactly the limit, one over it, an empty one and
an unterminated one, cut everywhere; six items hold a scheme, two separators, its credential and a
second pair; transcripts of up to four rows wrap into eight on a narrow terminal; terminals of
8, 11, 12 and 14 rows leave panes of none, one and three rows and saturate every subtraction; the
largest offset is 5, so that transcripts and a report of seven lines reach past it; the payloads have a
secret object, an array, a null, an empty path, an empty key and a key with a dot that reads like a path
of another field; the reports' attempts are up to four legs; the transcript is fed every sequence of
four events for two turns. Two callers share an inventory of 2 rows, 3 bytes and ids up to 3 and make 4
blobs of 0 to 4 bytes, so that every limit is reached first in some behaviour, and a blob is larger than
the whole inventory. Startup has all documents of up to two profiles for three agents and all command
lines.

Fairness. In `Console` and `ModelTurn` the loop, the broker's answer and the worker's next step are
weakly fair (each is eventually scheduled); receiving an event and settling are strongly fair, because
`select!` polls its arms in random order, so that an event that stays ready is not passed over for ever
by keys. The operator and panics are not fair. That the broker answers is a real assumption: the
interactive console has no timeout on opening a leg, on a call or on joining a worker. `Structured`
assumes none of this: only its timers, its writes (the client drains stdout) and the runtime's shutdown
are fair, not the broker, the client's input or the script. The parts' properties are safety.

## 4. Proofs

Every invariant and every action property the passing runs check is proved, and so are both
refinements. What each rests on:

`ConsoleProofs` proves of `Console!Spec`, for every catalog, configuration, bound and interleaving:

- `TypeCorrect`: `[]TypeOK`. The inductive invariant is `TypeInv`: `TypeOK` plus the facts it needs
  of the loop's position (a leg is only opened with a session, for the newest command).
- `WorkerJoined`, `BusyIsExact`, `StopReaches`. None of the three is inductive alone: that a worker
  never outlives its turn needs that a spawned command is the newest and had no worker before, that
  busy is exact needs where the loop is, that a stop reaches its leg needs what the handle is bound
  to. `FlightInv` is their conjunction with these facts, over `TypeInv`.
- `SessionNamed`, `TurnUnderSession`. `IdentityInv` adds that between the hop and the broker's
  answer no session is open and the new identity is one an authored profile gives the highlighted
  agent; that a hop never happens while a command is in flight comes from `FlightInv`.
- `ScreenIsTheSessions`, `OutcomesStand`. `ScreenSteps` sorts the actions once into what they do to the
  transcript: leave or enter an entry, begin, answer, report or settle a command, or nothing.
  `ScreenInv` adds to the property that a session not open is the one that has no entries; it needs
  `FlightInv` (only the command in flight can be reported or failed).
- `OnlyAPanicTakesTheTerminal`: where no worker panics, `TerminalHeldUntilExit` holds. It is the
  converse of finding 1: the panic hook is the only way to lose the terminal.
- `PromiseKept`: `Console` implements `SerialShell`. Its calls are those of workers that are calling,
  and all they are made under is read off the open session, by the invariants above.

The proofs have one lemma per group of actions and conjunct, and `StutterTypes`, `QuietKeys` and the
like for the actions that leave a group of variables alone.

`ModelTurnProofs` proves of `ModelTurn!Spec`, for every number of tasks, hops, scripts and calls:

- `StopsAreTheirTasks` and `NoWorkerIsDropped`. The console is free between a turn's last event and
  the join, so busy does not say whose worker is alive. `TurnInv` does: the last event is only sent by a
  worker that is done (`Unfinished`), so that a live worker is the running task's, the console is busy
  with it, the stop handle is bound to it, and a task not spawned has no mail, stop or cancel signal.
- `NothingIsMisfiled`. What a turn will show once its queue is folded in depends on its prompt,
  scripts and status alone (`Same`): a stop marked or a window moved meanwhile changes nothing of it.
  `FiledInv` says what is settled then is what the workers did (`Filed`), the turn opened last is that
  of the live worker (`Latest`), nothing is queued behind a session's end (`Queued`), and a worker's
  scripts are closed in the order it runs them (`Ledgers`): without the last an event that names no
  script could land in another than it is of. `Chain` is the sequence of transcripts the fold passes
  through; appending an event to the queue appends one to it.
- `CursorIsStable`: the call list only grows at its end within a conversation, because a call is filed
  when it is answered (finding 5). It is a list of lists in
  document order, so a call filed anywhere but under the last script of the last turn would move what
  comes after it. `FiledInv` looks at the queue's end and cannot exclude that on the way; `Orderly` says
  for every prefix of the queue that a turn's scripts are closed but for its last (`InOrder`) and that
  what a worker sent finds its turn opened last and running (`AtWork`). `FlattenContinues` then carries
  "begins with the old one" from scripts to turns to the whole list.

`SelectionProofs` proves of `Selection!Spec`, for every set of valid documents and command lines:

- `HopsAreRestarts`: `[]HopIsRestart`. The heart is `SameDoor` (a hop is refused iff a restart with
  `--agent` would be) and `SameProfile` (then both choose the same profile): pure facts about
  `Profiles` and startup, with no state. The invariant adds that startup let this command line in and
  that without profiles the options are still the command line's.
- `StartupAgrees`: the first hop is let in and changes nothing of what startup displayed.

`StructuredProofs` proves every safety property of `Structured` and its refinement, for every number of
lines and every call budget. The inductive invariant `IInv` has one named part per concern:

- `Placed`, `Framed`: where the loop is fixes the number of the line and the number of frames, and the
  frames are in order. `SuccessIsComplete` is read off it; that a line still being worked on has no
  answer (`Unanswered`) follows from it.
- `Settled`, `Fresh`, `Stopped`: only the line read last has a worker or a queued event; a line not
  begun has neither outcome nor worker; whatever is alive past its deadline has been told to stop.
  They give `AnswersAreSettled`, `LinesRunAlone` and `TimeoutIsFinal`.
- `IdleAgain`, `Echoed`: the history entry at `before` is line n's own, and in `completing` it, the
  event queue and the worker agree on what the script came to. `OkIsTrue` needs this: alone,
  "`ok` means success" says nothing of the entry `Status` is about to read.
- `PromiseKept`: `Structured` implements `FrameProtocol`. A worker's last step, or the runtime giving
  it up, is `EffectsEnd`; a line answered on the spot is `Succeed`; all the loop does between two
  frames is stuttering.

`AssetsProofs` proves, for every number of callers, size and limit, `IdsKeepTheirMeaning` and
`PinnedRowsStay` (every row's id was told once and is at most `next_id`: `ToldOnce`) and `CapacityKept`:
`BytesCounted` says the running count is the sum of the rows held, as a recursive function over ids.
Two such sums that differ at one id differ by that row (`SumsDiffer`), which is what an insert and a
removal are.

`PartsProofs` proves what `Parts` checks of each part; what the fold of events needs is in
`TranscriptFoldProofs`, about `TranscriptFold` alone, and `FoldRuns` carries it over. In the same way
`InventoryRuns` and `StartupRuns` carry the theorems of `AssetsProofs` and `SelectionProofs` over to
`AllParts!AllSpec`, of which `PartsOfTheWhole` says that it implements `Parts!Spec`.

- Results: `FramesUnforged` (lines are escaped before they are clipped: `EscapeSafe`, `ClipSafe`) and
  `LimitHolds`. While something is left of the limit every line written is the whole of its own
  (`Whole`, which needs `Upto`, what of the text is still to come), and the characters written, a sum
  over lines, are what was taken from the limit (`CharsBounded`).
- Lines: `ChunksAreInvisible`. The line being read starts at some place `p` of what was sent (`Reading`):
  what was sent is what came before `p`, then the bytes collected, the rest of the chunk and the rest of
  the stream, with no LF among the bytes; the lines returned answer the starts before `p`, all of which
  were `Fine` (`Answered`). So the first start that is not is `Bad`, and its verdict is the ending.
- Credentials: `CredentialsHidden`. The scan carries one word of memory; `Remembered` says what it
  stands for, and `IntroducedNext` how that moves by one item.
- Screens: `EndsAreShown`, `ReaderStays`, for every terminal, length and largest offset. `PagerInv`
  relates the offset of the frame on screen to the window it was drawn for. `EndIsShown` says exactly
  when the end is on screen: the prompt's row in every pane that has a row, unless the transcript ends
  past the largest offset; a report's last rows on every terminal of eleven rows or more, unless it ends
  past that offset. The cases it excepts are those where the code does not show the end.
- Reports: `ReportsAreTruthful` (`ReportsInv`: the trace held is of a leg opened after the latest hop, or
  there is none; what is attempted is the open session's, or the highlighted agent's while a hop is
  out) and `CausesAreTold`, which is about the chain alone: `EveryCauseIsTold` follows the text so far
  along the chain, and a cause skipped is skipped because that text already ends with it.
- Redaction: `SecretsCoveredUntilRevealed` (`RevealsInv`: whatever is revealed is of a call there is;
  `SecretsCovered`: a secret place is exposed only below a revealed redaction) and `OnePathAtATime`: a
  keystroke uncovers the first field still hidden and those of its call that read as the same path, no
  other. Redactions are pairwise not
  below one another, so document order (`Before`) is total on them, it is transitive, and the first
  hidden field is the one with none hidden before it; uncovering it covers nothing again.
- The fold: `EverythingReportedIsShown`, for events in orders no worker would send them in as well.
  `FoldInv` says `unclosed` is a stack of exactly the turns still running, so the turn that accepts events
  is the one at its top (`AcceptsLast`), and that each turn shows what was fed to it (`Shows`). One event
  adds one call at the end of one script (`OneCallMore`) or leaves all calls as they are (`SameCalls`),
  and moves each token sum by what it reports (`SideAfter`).

`Counting` has the induction these proofs use. The library's induction takes an operator, which the
provers cannot instantiate; here the hypothesis is a set of numbers, which they can.

Assumptions: `CatalogAssumption`, `ConsoleAssumption`, `SelectionAssumption`, `StructuredAssumption`,
`AssetsAssumption`, `ModelTurnAssumption`, `PartsAssumption` (types of the constants; that a document
has passed `read_profiles`, a payload is a finite tree, an error tells at least of itself, and a session
does not end in the status "running"). TLC evaluates each on a run.

Only model-checked: liveness, which is outside the prover, and what the violation runs show.

## 5. Findings

1. `console_panic`: the panic hook is process-wide. A panic of the interpreter on its worker thread
   restores the terminal. The loop survives it (the session task ends with `SessionError::Task`, and
   `settle_turn` fails the command with it, `run.rs:265`) and goes on drawing outside raw mode, although `run.rs:115` says the console is still usable after a session
   that died.
2. `structured_join`: `structured.rs:130` says END follows event drain and task join. On the timeout
   path events are never drained and the blocking worker is left running after END. The frame's own
   text ("outcome unknown ... may have run") is right, and `structured_safety` shows that the session
   never goes on after it.

3. `turn_hop`: README.md:66 says a fresh agent entry resets the model history. A hop made after a
   turn's last event and before its task is joined resets it, and `settle_turn` then writes the joined
   task's history, the previous agent's exchanges, over it. Only a caller of `Action::Turn` meets this.
4. `result_bytes`: README.md:43 says output is bounded to 64 KiB per result. `write_result` charges
   characters and not bytes (a removed control character becomes a U+FFFD of three bytes) and does not
   charge newlines (blank lines cost nothing).

5. `turn_order`: `transcript.rs:45` says a script's calls are in dispatch order. `RecordingInvoker`
   numbers a call when it is dispatched and emits it when it is answered (`record.rs:280`), so that calls
   of a pipeline that overlap are listed in the order of their answers. `app.rs:348` needs just that: a
   new call is appended at the end, so that a cursor keeps its call. Both cannot hold of overlapping
   calls; `CursorStable` and `NothingMisfiled` are about the order the code has.
6. `report_end`: `chrome.rs:192` says how far the error pane can scroll at the current terminal size, and
   `chrome.rs:177` that a report is never cut short. The pane's height is taken to be the shell
   viewport's plus nine, and the viewport's was saturated at zero (`run.rs:178`): below eleven rows the
   pane is taken for higher than it is, and a report's last rows are never shown. `app.rs:182` ("None
   follows the prompt") also fails where the layout leaves the pane no row, and in a transcript of more
   than 65,535 rows, whose offset `ui/shell.rs:109` clamps when it is drawn. `EndIsShown` states all
   these limits exactly.
7. `reveal_path`: `app.rs:394` says one field per keystroke, and `app.rs:144` that this holds because a
   field is identified precisely. A revealed field is remembered by its dotted path, and keys may have
   dots: in `{"a.b": ..., "a": {"b": ...}}` one keystroke uncovers both. `OnePathPerKeystroke` says what
   the code does guarantee.

Seen while modelling and kept as the model's behaviour, without a claim of the repository that it
contradicts:

- A turn that is overtaken before its join (the next prompt was accepted after `Finished`) has its
  receiver and handle dropped: its history is lost, and the next turn starts from an empty one.

## 6. Not modelled

- Wording, colours and layout of notices and panes: they change nothing the modelled parts read.
- The prompt loop, model clients, the broker, the interpreter and blob storage: external crates,
  modelled by how this code uses them (a call starts only while its leg's cancel signal is clear; a call
  sent is answered; a panic ends a worker without an outcome; a session ends with one last event).
- The bounded recording of streams and the byte limit of the history.
- The delivery identity and sequence numbers of smoke records.
- Telemetry, idle mode, credential and socket discovery: I/O before or beside the console.

## 7. Plan

Done: every module of section 2, the runs of section 3 and the proofs of section 4.

Next: the delivery identity and sequence numbers of smoke records.
