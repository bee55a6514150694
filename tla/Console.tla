------------------------------- MODULE Console --------------------------------
(***************************************************************************)
(* The interactive console: the event loop that draws, reads keys and      *)
(* receives session events; the App state machine the keys drive; the one  *)
(* shell command in flight on a blocking worker thread with its own broker *)
(* leg; the Stop flag that cancels that leg; and the terminal the guard    *)
(* put in raw mode.                                                        *)
(*                                                                         *)
(* The loop awaits inside a select arm, so `loop` is a program counter:    *)
(* while it awaits a broker answer no key is read and nothing is drawn.    *)
(* The worker and the broker run beside it.                                *)
(***************************************************************************)
EXTENDS Naturals, Sequences, Profiles

CONSTANTS
  Config,         (* authored profiles and --profile, see Profiles          *)
  StartIdentity,  (* options.subject and app.profile when `run` starts      *)
  InitialAgent,   (* options.initial_agent, 0 if none                       *)
  Smoke,          (* --smoke-conversation                                   *)
  WorkerMayPanic, (* whether the interpreter may panic on its worker        *)
  MaxCommands,    (* bound: commands accepted over the whole run            *)
  MaxEntries,     (* bound: agent entries over the whole run                *)
  MaxCalls        (* a script's capability-call budget                      *)

ASSUME ConsoleAssumption ==
  /\ MaxCommands \in Nat /\ MaxEntries \in Nat /\ MaxCalls \in Nat
  /\ InitialAgent \in 0 .. AgentCount
  /\ Smoke \in BOOLEAN /\ WorkerMayPanic \in BOOLEAN
  /\ StartIdentity.subject \in Subjects
  /\ \A p \in Config.profiles : p.subject \in Subjects

VARIABLES
  loop,       (* where the event loop is, see Loops                         *)
  raw,        (* the terminal is in raw mode on the alternate screen        *)
  quit,       (* app.should_quit                                            *)
  busy,       (* app.busy                                                   *)
  mode,       (* app.mode                                                   *)
  pane,       (* app.pane                                                   *)
  selected,   (* app.selected_agent, counted from 1                         *)
  failed,     (* app.last_error is Some                                     *)
  composer,   (* app.composer: what kind of line, and the entry typed under *)
  identity,   (* options.subject, and the profile it came from              *)
  shown,      (* app.subject and app.profile, what the screen names         *)
  session,    (* app.session: whom it acts for, through which agent         *)
  assets,     (* app.assets: the entry that owns the inventory, 0 if None   *)
  entries,    (* how many inventories were made: the last entry's number    *)
  shell,      (* app.shell_history                                          *)
  cmds,       (* commands accepted so far; the latest is number cmds        *)
  running,    (* the RunningTurn's command, 0 if None                       *)
  leg,        (* per command: the identity its broker leg attests           *)
  worker,     (* per command: its blocking worker, see Workers              *)
  calls,      (* per command: capability calls its script has started       *)
  mail,       (* commands whose ShellFinished is queued and not received    *)
  requested,  (* StopFlag.requested                                         *)
  handle,     (* StopFlag.broker: the command whose leg it cancels, or 0    *)
  fired       (* commands whose CancelSignal has fired                      *)

appVars  == <<busy, mode, pane, selected, failed, composer>>
hopVars  == <<identity, shown, session, assets, entries>>
logVars  == <<shell, cmds>>
turnVars == <<running, leg, worker, calls, mail>>
stopVars == <<requested, handle, fired>>
vars == <<loop, raw, quit, appVars, hopVars, logVars, turnVars, stopVars>>

-------------------------------------------------------------------------------
Loops == {"start", "draw", "select", "entering", "opening", "recording",
          "stopping", "exited"}
Modes == {"Browsing", "Composing", "Help", "Error"}
Panes == {"Agents", "Shell", "Detail"}
Workers == {"none", "boundary", "calling", "sent", "returned", "panicked"}
Lines == {"script", "asset", "smoke", "unknown"}
Commands == 1 .. MaxCommands

(* Whom a session or a leg acts for: an agent (0 for no session), the      *)
(* subject attested, and the entry whose asset inventory it uses.          *)
Legs == [agent : 0 .. AgentCount, subject : Subjects, entry : 0 .. MaxEntries]
NoSession == [agent |-> 0, subject |-> StartIdentity.subject, entry |-> 0]
Open == session.agent # 0

(* One line of the transcript: the command, the entry it ran under, and    *)
(* its exit, "running" until an outcome is reported or it is failed.       *)
LogEntries == [cmd : Commands, entry : 0 .. MaxEntries,
               exit : {"running", "reported", "failed"}]

Blank == [line |-> "blank", entry |-> 0]
Done(c) == worker[c] \in {"returned", "panicked"}
Alive(c) == worker[c] \in {"boundary", "calling", "sent"}

NextPane(p) == CASE p = "Agents" -> "Shell"
                 [] p = "Shell"  -> "Detail"
                 [] p = "Detail" -> "Agents"
PreviousPane(p) == CHOOSE q \in Panes : NextPane(q) = p

(* App::start_shell, finish_shell and fail_shell on the transcript. *)
Pending(log) == log # <<>> /\ log[Len(log)].exit = "running"
Echo(c, exit) == [cmd |-> c, entry |-> session.entry, exit |-> exit]
FinishShell(log, outcome) ==
  IF Pending(log) THEN [log EXCEPT ![Len(log)] = outcome] ELSE log
(* Fault: fails the last entry whether or not it was already reported. *)
FailShellAnyway(log) ==
  IF log # <<>> THEN [log EXCEPT ![Len(log)].exit = "failed"] ELSE log

FailShell(log) ==
  IF Pending(log) THEN [log EXCEPT ![Len(log)].exit = "failed"] ELSE log

(* StopFlag. *)
StopRequest ==
  /\ requested' = TRUE
  /\ fired' = fired \cup ({handle} \ {0})
  /\ UNCHANGED handle

StopReset ==
  /\ requested' = FALSE
  /\ handle' = 0
  /\ UNCHANGED fired

(* Fault: binds first and resets afterwards, which drops the binding. *)
StopBindThenReset(c) ==
  /\ requested' = FALSE
  /\ handle' = 0
  /\ UNCHANGED fired

(* stop.reset(), then stop.bind_broker with a fresh cancel pair. *)
StopBind(c) ==
  /\ requested' = FALSE
  /\ handle' = c
  /\ UNCHANGED fired
-------------------------------------------------------------------------------
Init ==
  /\ loop = "start" /\ raw = TRUE /\ quit = FALSE
  /\ busy = FALSE /\ mode = "Browsing" /\ pane = "Agents" /\ failed = FALSE
  /\ selected = IF InitialAgent = 0 THEN 1 ELSE InitialAgent
  /\ composer = Blank
  /\ identity = StartIdentity /\ shown = StartIdentity
  /\ session = NoSession /\ assets = 0 /\ entries = 0
  /\ shell = <<>> /\ cmds = 0
  /\ running = 0
  /\ leg = [c \in Commands |-> NoSession]
  /\ worker = [c \in Commands |-> "none"]
  /\ calls = [c \in Commands |-> 0]
  /\ mail = {}
  /\ requested = FALSE /\ handle = 0 /\ fired = {}

-------------------------------------------------------------------------------
(* Hopping into the highlighted agent: dispatch of Action::Enter.          *)

(* Faults: the previous session, or the line typed for it, survives. *)
ClearKeepsSession ==
  /\ session' = session /\ assets' = assets
  /\ shell' = <<>> /\ composer' = Blank /\ mode' = "Browsing"
ClearKeepsComposer ==
  /\ session' = NoSession /\ assets' = 0
  /\ shell' = <<>> /\ composer' = composer /\ mode' = "Browsing"

ClearAgentContext ==
  /\ session' = NoSession
  /\ assets' = 0
  /\ shell' = <<>>
  /\ composer' = Blank
  /\ mode' = "Browsing"

(* Fault: hops whether or not a command is in flight. *)
EnterWhileBusy ==
  \/ selected \notin Agents
  \/ HopRefused(Config, selected)

EnterRefused ==
  \/ busy
  \/ selected \notin Agents
  \/ HopRefused(Config, selected)

(* Refusals only set a notice.  Otherwise the identity is replaced and the *)
(* old context dropped before the leg is opened, which the loop awaits.    *)
Enter ==
  IF EnterRefused
  THEN /\ loop' = "draw"
       /\ UNCHANGED <<raw, quit, appVars, hopVars, logVars, turnVars, stopVars>>
  ELSE /\ entries < MaxEntries
       /\ loop' = "entering"
       /\ identity' = HopIdentity(Config, selected, identity)
       /\ shown' = identity'
       /\ entries' = entries + 1
       /\ ClearAgentContext
       /\ UNCHANGED <<raw, quit, busy, pane, selected, failed, cmds,
                      turnVars, stopVars>>

Start ==
  /\ loop = "start"
  /\ IF InitialAgent # 0
     THEN Enter
     ELSE /\ loop' = "draw"
          /\ UNCHANGED <<raw, quit, appVars, hopVars, logVars, turnVars, stopVars>>

(* A leg with a surface: app.enter, then app.assets. *)
EnterGranted ==
  /\ loop = "entering"
  /\ loop' = "draw"
  /\ session' = [agent |-> selected, subject |-> identity.subject, entry |-> entries]
  /\ assets' = entries
  /\ shell' = <<>>
  /\ composer' = Blank
  /\ mode' = "Composing"
  /\ pane' = "Shell"
  /\ UNCHANGED <<raw, quit, busy, selected, failed, identity, shown, entries,
                 cmds, turnVars, stopVars>>

(* An empty surface, or the broker refused or could not answer: raised. *)
EnterDenied ==
  /\ loop = "entering"
  /\ loop' = "draw"
  /\ failed' = TRUE
  /\ mode' = "Error"
  /\ UNCHANGED <<raw, quit, busy, pane, selected, composer, hopVars, logVars,
                 turnVars, stopVars>>

-------------------------------------------------------------------------------
(* Keys.  Every key ends the select; the next pass of the loop draws.      *)

AtKey == loop = "select"
KeyOnlyApp ==
  /\ loop' = "draw"
  /\ UNCHANGED <<raw, quit, busy, selected, failed, hopVars, logVars, turnVars,
                 stopVars>>

(* Resize, paging, and every key or refusal that only changes the notice. *)
KeyWithoutEffect ==
  /\ AtKey
  /\ KeyOnlyApp
  /\ UNCHANGED <<mode, pane, composer>>

(* Ctrl-C in any mode, q while browsing, or the key stream ending. *)
KeyQuit ==
  /\ AtKey
  /\ loop' = "draw"
  /\ quit' = TRUE
  /\ UNCHANGED <<raw, appVars, hopVars, logVars, turnVars, stopVars>>

(* Any key closes help; Esc, Enter, q and e close the error report. *)
KeyCloseOverlay ==
  /\ AtKey
  /\ mode \in {"Help", "Error"}
  /\ mode' = "Browsing"
  /\ KeyOnlyApp
  /\ UNCHANGED <<pane, composer>>

(* `?`, or `e` when there is a failure to show. *)
KeyOpenOverlay ==
  /\ AtKey
  /\ mode = "Browsing"
  /\ mode' \in {"Help"} \cup (IF failed THEN {"Error"} ELSE {})
  /\ KeyOnlyApp
  /\ UNCHANGED <<pane, composer>>

(* Tab and Shift-Tab, which also leave the composer without clearing it. *)
KeyTab ==
  /\ AtKey
  /\ mode \in {"Browsing", "Composing"}
  /\ mode' = "Browsing"
  /\ pane' \in {NextPane(pane), PreviousPane(pane)}
  /\ KeyOnlyApp
  /\ UNCHANGED composer

(* Fault: takes the length of the list for its last index. *)
ClampToLength(n) ==
  IF n < 1 THEN 1 ELSE IF n > AgentCount + 1 THEN AgentCount + 1 ELSE n

Clamp(n) == IF n < 1 THEN 1 ELSE IF n > AgentCount THEN AgentCount ELSE n

(* j and k: the highlight moves by one and saturates; an empty list has    *)
(* nothing to move over.                                                   *)
KeySelect ==
  /\ AtKey
  /\ mode = "Browsing"
  /\ loop' = "draw"
  /\ selected' \in IF Agents = {} THEN {selected}
                   ELSE {Clamp(selected - 1), Clamp(selected + 1)}
  /\ UNCHANGED <<raw, quit, busy, mode, pane, failed, composer, hopVars,
                 logVars, turnVars, stopVars>>

KeyCompose ==
  /\ AtKey
  /\ mode = "Browsing" /\ pane = "Shell"
  /\ mode' = "Composing"
  /\ KeyOnlyApp
  /\ UNCHANGED <<pane, composer>>

(* Editing makes the line any kind of line; text already there stays part  *)
(* of it, so its entry does too.                                           *)
KeyType ==
  /\ AtKey
  /\ mode = "Composing"
  /\ \E kind \in Lines :
       composer' = [line |-> kind,
                    entry |-> IF composer = Blank THEN session.entry
                              ELSE composer.entry]
  /\ KeyOnlyApp
  /\ UNCHANGED <<mode, pane>>

KeyErase ==
  /\ AtKey
  /\ mode = "Composing"
  /\ composer' = Blank
  /\ KeyOnlyApp
  /\ UNCHANGED <<mode, pane>>

(* Esc while busy asks the running turn to stop, composing or not. *)
KeyStop ==
  /\ AtKey
  /\ mode \in {"Browsing", "Composing"}
  /\ busy
  /\ loop' = "draw"
  /\ StopRequest
  /\ UNCHANGED <<raw, quit, appVars, hopVars, logVars, turnVars>>

KeyLeaveComposer ==
  /\ AtKey
  /\ mode = "Composing" /\ ~busy
  /\ mode' = "Browsing"
  /\ composer' = Blank
  /\ KeyOnlyApp
  /\ UNCHANGED pane

KeyEnterAgent ==
  /\ AtKey
  /\ mode = "Browsing" /\ pane = "Agents"
  /\ Enter
-------------------------------------------------------------------------------
(* Enter in the composer.  Busy, no session or a blank line only set a     *)
(* notice; otherwise the composer is emptied and the line dispatched.      *)

Submit(kind) ==
  /\ AtKey
  /\ mode = "Composing" /\ pane = "Shell"
  /\ ~busy /\ Open
  /\ composer.line = kind
  /\ composer' = Blank

(* An unknown : command, or :smoke record without --smoke-conversation. *)
SubmitRefused ==
  /\ \/ Submit("unknown")
     \/ ~Smoke /\ Submit("smoke")
  /\ KeyOnlyApp
  /\ UNCHANGED <<mode, pane>>

(* :asset attach-base64 is answered on the spot. *)
SubmitAsset ==
  /\ Submit("asset")
  /\ cmds < MaxCommands
  /\ loop' = "draw"
  /\ cmds' = cmds + 1
  /\ shell' = Append(shell, Echo(cmds + 1, "reported"))
  /\ UNCHANGED <<raw, quit, busy, mode, pane, selected, failed, hopVars,
                 turnVars, stopVars>>

(* :smoke record awaits the broker before it is echoed. *)
SubmitSmoke ==
  /\ Smoke
  /\ Submit("smoke")
  /\ cmds < MaxCommands
  /\ loop' = "recording"
  /\ UNCHANGED <<raw, quit, busy, mode, pane, selected, failed, hopVars,
                 logVars, turnVars, stopVars>>

RecordAnswered ==
  /\ loop = "recording"
  /\ loop' = "draw"
  /\ cmds' = cmds + 1
  /\ shell' = Append(shell, Echo(cmds + 1, "reported"))
  /\ busy' = FALSE
  /\ UNCHANGED <<raw, quit, mode, pane, selected, failed, composer, hopVars,
                 turnVars, stopVars>>

(* start_shell echoes a script, then the loop awaits a fresh leg for it. *)
SubmitScript ==
  /\ Submit("script")
  /\ cmds < MaxCommands
  /\ loop' = "opening"
  /\ busy' = TRUE
  /\ cmds' = cmds + 1
  /\ shell' = Append(shell, Echo(cmds + 1, "running"))
  /\ UNCHANGED <<raw, quit, mode, pane, selected, failed, hopVars, turnVars,
                 stopVars>>

(* A leg with a surface: the stop flag is bound to it and a worker spawned. *)
ScriptSpawned ==
  /\ loop = "opening"
  /\ loop' = "draw"
  /\ running' = cmds
  /\ leg' = [leg EXCEPT ![cmds] = [agent |-> session.agent,
                                   subject |-> identity.subject,
                                   entry |-> assets]]
  /\ worker' = [worker EXCEPT ![cmds] = "boundary"]
  /\ StopBind(cmds)
  /\ UNCHANGED <<raw, quit, appVars, hopVars, logVars, calls, mail>>

(* Fault: reports the refusal and stays busy. *)
ScriptDeniedStaysBusy ==
  /\ loop = "opening"
  /\ loop' = "draw"
  /\ shell' = FailShell(shell)
  /\ failed' = TRUE
  /\ UNCHANGED <<raw, quit, busy, mode, pane, selected, composer, hopVars, cmds,
                 turnVars, stopVars>>

ScriptDenied ==
  /\ loop = "opening"
  /\ loop' = "draw"
  /\ shell' = FailShell(shell)
  /\ failed' = TRUE
  /\ busy' = FALSE
  /\ UNCHANGED <<raw, quit, mode, pane, selected, composer, hopVars, cmds,
                 turnVars, stopVars>>

-------------------------------------------------------------------------------
(* The worker thread: the interpreter looks at the cancel signal at every  *)
(* boundary, a call already sent completes, and the outcome is queued      *)
(* before the thread returns.  A panic ends the thread without an outcome, *)
(* after the process-wide panic hook has restored the terminal.            *)

WorkerOnly == UNCHANGED <<loop, quit, appVars, hopVars, logVars, running, leg, stopVars>>

CallStarts(c) ==
  /\ worker[c] = "boundary" /\ c \notin fired /\ calls[c] < MaxCalls
  /\ worker' = [worker EXCEPT ![c] = "calling"]
  /\ calls' = [calls EXCEPT ![c] = @ + 1]
  /\ WorkerOnly /\ UNCHANGED <<mail, raw>>

CallReturns(c) ==
  /\ worker[c] = "calling"
  /\ worker' = [worker EXCEPT ![c] = "boundary"]
  /\ WorkerOnly /\ UNCHANGED <<calls, mail, raw>>

ScriptEnds(c) ==
  /\ worker[c] = "boundary"
  /\ worker' = [worker EXCEPT ![c] = "sent"]
  /\ mail' = mail \cup {c}
  /\ WorkerOnly /\ UNCHANGED <<calls, raw>>

WorkerReturns(c) ==
  /\ worker[c] = "sent"
  /\ worker' = [worker EXCEPT ![c] = "returned"]
  /\ WorkerOnly /\ UNCHANGED <<calls, mail, raw>>

(* The process-wide hook restores the terminal.  spawn_blocking turns the  *)
(* panic into SessionError::Task, which the spawned task returns and       *)
(* settle_turn reports.  An outcome is the last thing a worker sends: one  *)
(* that has sent it has no code left to panic in.                          *)
WorkerPanics(c) ==
  /\ WorkerMayPanic
  /\ worker[c] \in {"boundary", "calling"}
  /\ worker' = [worker EXCEPT ![c] = "panicked"]
  /\ raw' = FALSE
  /\ WorkerOnly /\ UNCHANGED <<calls, mail>>

-------------------------------------------------------------------------------
(* The other arm of the select: session events of the running turn.        *)

ReceiveOutcome ==
  /\ loop = "select" /\ running \in mail
  /\ loop' = "draw"
  /\ mail' = mail \ {running}
  /\ shell' = FinishShell(shell, [cmd |-> running, entry |-> leg[running].entry,
                                  exit |-> "reported"])
  /\ UNCHANGED <<raw, quit, appVars, hopVars, cmds, running, leg, worker, calls,
                 stopVars>>

(* Faults: nothing fails the entry of a dead worker; busy is never cleared. *)
SettleIgnoresPending ==
  /\ UNCHANGED shell
  /\ failed' = (failed \/ worker[running] = "panicked")
  /\ busy' = FALSE
  /\ StopReset
SettleStaysBusy ==
  /\ shell' = FailShell(shell)
  /\ failed' = (failed \/ worker[running] = "panicked" \/ Pending(shell))
  /\ UNCHANGED busy
  /\ StopReset

(* settle_turn: a dead worker, or an entry nobody reported, fails it.  The *)
(* code calls fail_shell on these two only; of a shell whose last entry    *)
(* has its outcome fail_shell itself changes nothing.                      *)
SettleTurn ==
  /\ shell' = FailShell(shell)
  /\ failed' = (failed \/ worker[running] = "panicked" \/ Pending(shell))
  /\ busy' = FALSE
  /\ StopReset

(* The channel is closed and drained: join the worker and settle. *)
FinishTurn ==
  /\ loop = "select" /\ running # 0
  /\ running \notin mail /\ Done(running)
  /\ loop' = "draw"
  /\ SettleTurn
  /\ running' = 0
  /\ UNCHANGED <<raw, quit, mode, pane, selected, composer, hopVars, cmds, leg,
                 worker, calls, mail>>

-------------------------------------------------------------------------------
(* Leaving the loop: stop_running, then the guard restores the terminal.   *)

Leave ==
  /\ IF running # 0
     THEN /\ loop' = "stopping"
          /\ StopRequest
          /\ UNCHANGED raw
     ELSE /\ loop' = "exited"
          /\ raw' = FALSE
          /\ UNCHANGED stopVars
  /\ UNCHANGED <<quit, appVars, hopVars, logVars, turnVars>>

(* Fault: goes on to read keys without looking at should_quit. *)
DrawFrameIgnoresQuit ==
  /\ loop = "draw"
  /\ loop' = "select"
  /\ UNCHANGED <<raw, quit, appVars, hopVars, logVars, turnVars, stopVars>>

DrawFrame ==
  /\ loop = "draw" /\ ~quit
  /\ loop' = "select"
  /\ UNCHANGED <<raw, quit, appVars, hopVars, logVars, turnVars, stopVars>>

(* should_quit is only looked at once a frame has been drawn. *)
QuitDrawn ==
  /\ loop = "draw" /\ quit
  /\ Leave

TerminalFails ==
  /\ loop \in {"draw", "select"}
  /\ Leave

(* Fault: asks for the stop and leaves without joining. *)
JoinStoppedAtOnce ==
  /\ loop = "stopping"
  /\ loop' = "exited"
  /\ running' = 0
  /\ raw' = FALSE
  /\ UNCHANGED <<quit, appVars, hopVars, logVars, leg, worker, calls, mail, stopVars>>

(* stop_running awaits the worker however long it takes to stop. *)
JoinStopped ==
  /\ loop = "stopping" /\ Done(running)
  /\ loop' = "exited"
  /\ running' = 0
  /\ raw' = FALSE
  /\ UNCHANGED <<quit, appVars, hopVars, logVars, leg, worker, calls, mail, stopVars>>

-------------------------------------------------------------------------------
Key ==
  \/ KeyWithoutEffect \/ KeyQuit \/ KeyCloseOverlay \/ KeyOpenOverlay
  \/ KeyTab \/ KeySelect \/ KeyCompose \/ KeyType \/ KeyErase \/ KeyStop
  \/ KeyLeaveComposer \/ KeyEnterAgent \/ SubmitRefused \/ SubmitAsset
  \/ SubmitSmoke \/ SubmitScript

BrokerAnswers ==
  EnterGranted \/ EnterDenied \/ ScriptSpawned \/ ScriptDenied \/ RecordAnswered

WorkerStep(c) ==
  CallStarts(c) \/ CallReturns(c) \/ ScriptEnds(c) \/ WorkerReturns(c)

LoopStep == Start \/ DrawFrame \/ QuitDrawn \/ JoinStopped

(* A run that has returned to main stutters. *)
Terminated == loop = "exited" /\ UNCHANGED vars

Next ==
  \/ Key
  \/ BrokerAnswers
  \/ \E c \in Commands : WorkerStep(c) \/ WorkerPanics(c)
  \/ ReceiveOutcome \/ FinishTurn
  \/ LoopStep \/ TerminalFails
  \/ Terminated

(* The loop, the broker and the worker are each eventually scheduled; the  *)
(* operator is not.  select! polls its arms in random order, so an event   *)
(* that stays ready is received however many keys arrive: strong fairness. *)
Fairness ==
  /\ WF_vars(LoopStep)
  /\ WF_vars(BrokerAnswers)
  /\ \A c \in Commands : WF_vars(WorkerStep(c))
  /\ SF_vars(ReceiveOutcome) /\ SF_vars(FinishTurn)

Spec == Init /\ [][Next]_vars
FairSpec == Spec /\ Fairness
-------------------------------------------------------------------------------
(* Where the highlight may be: on an agent, or at the first place of an    *)
(* empty list (1 is an agent unless there is none).                        *)
Places == Agents \cup {1}

(* Every variable keeps its type; the highlight never leaves the catalog   *)
(* (App::move_selection saturates); and a log entry names a real command.  *)
TypeOK ==
  /\ loop \in Loops /\ raw \in BOOLEAN /\ quit \in BOOLEAN
  /\ busy \in BOOLEAN /\ mode \in Modes /\ pane \in Panes /\ failed \in BOOLEAN
  /\ selected \in Places
  /\ composer \in [line : Lines \cup {"blank"}, entry : 0 .. MaxEntries]
  /\ identity.subject \in Subjects /\ shown.subject \in Subjects
  /\ session \in Legs
  /\ assets \in 0 .. MaxEntries /\ entries \in 0 .. MaxEntries
  /\ shell \in Seq(LogEntries)
  /\ cmds \in 0 .. MaxCommands
  /\ running \in 0 .. MaxCommands
  /\ leg \in [Commands -> Legs]
  /\ worker \in [Commands -> Workers]
  /\ calls \in [Commands -> 0 .. MaxCalls]
  /\ mail \in SUBSET Commands /\ fired \in SUBSET Commands
  /\ requested \in BOOLEAN /\ handle \in 0 .. MaxCommands

(* The open session acts for the subject and profile the screen names, and *)
(* owns the inventory `:asset` fills: a hop, refused or not, never leaves  *)
(* the prior agent usable under the newly selected subject.                *)
SessionIsWhoTheScreenNames ==
  Open =>
    /\ session.subject = identity.subject
    /\ shown = identity
    /\ assets = session.entry
    /\ Config.profiles # {} =>
         \E p \in Config.profiles : /\ p.name = shown.profile
                                    /\ p.agent = session.agent
                                    /\ p.subject = session.subject

(* The command in flight runs under the open session: same agent, subject  *)
(* and inventory, from its leg being opened until it is settled.           *)
TurnRunsUnderTheSession ==
  running # 0 => leg[running] = session

(* A worker never outlives its turn: it is joined before the turn is       *)
(* settled, before the next command, and before `run` returns.             *)
WorkerNeverOutlivesItsTurn ==
  \A c \in Commands : Alive(c) => running = c

(* The console is busy exactly while a command is opening its leg or is in *)
(* flight, so no refusal path leaves it busy for ever and none frees it    *)
(* while a worker still runs.                                              *)
BusyIffInFlight ==
  loop # "exited" => (busy <=> loop = "opening" \/ running # 0)

(* What the screen holds is the open session's: every entry ran under it,  *)
(* so that a hop shows nothing of the agent it left; text in the composer  *)
(* was typed for it; and only the newest entry can be pending, and only    *)
(* while the console is busy with it: nobody is left waiting.              *)
ScreenIsThisSessions ==
  /\ \A i \in 1 .. Len(shell) :
       /\ shell[i].entry = session.entry /\ Open
       /\ shell[i].exit = "running" => busy /\ i = Len(shell) /\ shell[i].cmd = cmds
  /\ composer # Blank => composer.entry = session.entry

(* A requested stop has reached the leg of the command in flight, and the  *)
(* flag is clear and unbound whenever none is: no stop is lost between the *)
(* reset and the binding, and none is left over for the next command.      *)
StopReachesTheTurnInFlight ==
  loop # "exited" =>
    /\ requested => running # 0 /\ running \in fired
    /\ handle # 0 => handle = running
    /\ fired \cap {c \in Commands : Alive(c)} # {} => requested

(* The terminal stays in raw mode on the alternate screen until the loop   *)
(* and the worker are done.                                                *)
TerminalHeldUntilExit ==
  loop # "exited" => raw

(* Within one entry the transcript only grows, an entry keeps its command, *)
(* and an outcome once shown is never rewritten.                           *)
OutcomesAreFinal ==
  [][entries' = entries =>
       /\ Len(shell') >= Len(shell)
       /\ \A i \in 1 .. Len(shell) :
            /\ shell'[i].cmd = shell[i].cmd
            /\ shell[i].exit # "running" => shell'[i] = shell[i]]_vars

(* Whatever the operator types, a command in flight is settled or the      *)
(* console exits.                                                          *)
TurnSettles == busy ~> (~busy \/ loop = "exited")

(* A quit is honoured, with a command in flight or without.                *)
QuitExits == quit ~> loop = "exited"
-------------------------------------------------------------------------------
(* What the console promises: SerialShell, with the open session, the      *)
(* command `busy` is about, and the legs with a call at the broker.        *)
Promise == INSTANCE SerialShell WITH
  Nobody  <- NoSession,
  who     <- session,
  log     <- shell,
  count   <- cmds,
  current <- IF busy THEN cmds ELSE 0,
  acting  <- {leg[c] : c \in {d \in Commands : worker[d] = "calling"}}

(* Threads, keys, stops and panics included, the console is a serial shell *)
(* that never acts for anyone but the session on the screen.               *)
KeepsPromise == Promise!Spec
===============================================================================
