----------------------------- MODULE ConsoleProofs -----------------------------
(***************************************************************************)
(* Safety of the interactive console, for every catalog, every profile     *)
(* document and every bound.                                               *)
(***************************************************************************)
EXTENDS Console, TLAPS

-------------------------------------------------------------------------------
(* Profiles: a hop keeps the subject inside the known subjects. *)

LEMMA ChosenMatches ==
  ASSUME NEW agent, Matches(Config, agent) # {}
  PROVE  /\ Chosen(Config, agent) \in Matches(Config, agent)
         /\ Chosen(Config, agent) \in Config.profiles
         /\ Chosen(Config, agent).agent = agent
<1> DEFINE fixed == {p \in Matches(Config, agent) : p.name = Config.fixed}
<1>1. \E p \in Matches(Config, agent) : fixed # {} => p \in fixed
  <2>1. CASE fixed = {}
    BY <2>1
  <2>2. CASE fixed # {}
    BY <2>2
  <2> QED BY <2>1, <2>2
<1>2. Chosen(Config, agent) \in Matches(Config, agent)
  BY <1>1 DEF Chosen
<1> QED BY <1>2 DEF Matches

LEMMA HopSubject ==
  ASSUME NEW agent, NEW current, current.subject \in Subjects
  PROVE  HopIdentity(Config, agent, current).subject \in Subjects
<1>1. CASE Matches(Config, agent) = {}
  BY <1>1 DEF HopIdentity
<1>2. CASE Matches(Config, agent) # {}
  BY <1>2, ChosenMatches, ConsoleAssumption DEF HopIdentity
<1> QED BY <1>1, <1>2

-------------------------------------------------------------------------------
(* The transcript operators keep the transcript a sequence of entries. *)

LEMMA LogTypes ==
  ASSUME NEW log \in Seq(LogEntries)
  PROVE  /\ FailShell(log) \in Seq(LogEntries)
         /\ \A outcome \in LogEntries : FinishShell(log, outcome) \in Seq(LogEntries)
         /\ \A outcome \in LogEntries : Append(log, outcome) \in Seq(LogEntries)
<1>1. CASE ~Pending(log)
  BY <1>1 DEF FailShell, FinishShell
<1>2. CASE Pending(log)
  <2>1. Len(log) \in 1 .. Len(log) /\ log[Len(log)] \in LogEntries
    BY <1>2 DEF Pending
  <2>2. [log[Len(log)] EXCEPT !.exit = "failed"] \in LogEntries
    BY <2>1 DEF LogEntries
  <2>3. \A outcome \in LogEntries : [log EXCEPT ![Len(log)] = outcome] \in Seq(LogEntries)
    BY <2>1
  <2>4. FailShell(log) = [log EXCEPT ![Len(log)] = [log[Len(log)] EXCEPT !.exit = "failed"]]
    BY <1>2, <2>1 DEF FailShell
  <2> QED BY <1>2, <2>2, <2>3, <2>4 DEF FinishShell
<1> QED BY <1>1, <1>2

-------------------------------------------------------------------------------
(* Type correctness.  What the loop awaits keeps what the answer needs: an *)
(* agent of the catalog is highlighted, a command is left to number.       *)

TypeInv ==
  /\ TypeOK
  /\ loop = "entering" => selected \in Agents
  /\ loop = "recording" => cmds < MaxCommands

LEMMA NoSessionIsLeg == NoSession \in Legs
BY CatalogAssumption, ConsoleAssumption DEF NoSession, Legs

LEMMA TypeInit == Init => TypeInv
<1> SUFFICES ASSUME Init PROVE TypeInv
  OBVIOUS
<1>1. /\ leg \in [Commands -> Legs]
      /\ worker \in [Commands -> Workers]
      /\ calls \in [Commands -> 0 .. MaxCalls]
  BY NoSessionIsLeg, ConsoleAssumption DEF Init, Workers
<1>2. shell \in Seq(LogEntries) /\ session \in Legs
  BY NoSessionIsLeg DEF Init
<1>3. selected \in Places
  BY CatalogAssumption, ConsoleAssumption DEF Init, Agents, Places
<1>4. composer \in [line : Lines \cup {"blank"}, entry : 0 .. MaxEntries]
  BY ConsoleAssumption DEF Init, Blank
<1>5. /\ raw \in BOOLEAN /\ quit \in BOOLEAN /\ busy \in BOOLEAN /\ failed \in BOOLEAN
      /\ requested \in BOOLEAN
  BY DEF Init
<1>6. /\ mail \in SUBSET Commands /\ fired \in SUBSET Commands
      /\ loop \in Loops /\ mode \in Modes /\ pane \in Panes
      /\ loop # "entering" /\ loop # "recording"
  BY DEF Init, Loops, Modes, Panes
<1>7. /\ assets \in 0 .. MaxEntries /\ entries \in 0 .. MaxEntries
      /\ cmds \in 0 .. MaxCommands /\ running \in 0 .. MaxCommands
      /\ handle \in 0 .. MaxCommands
      /\ identity.subject \in Subjects /\ shown.subject \in Subjects
  BY ConsoleAssumption DEF Init
<1> QED
  BY <1>1, <1>2, <1>3, <1>4, <1>5, <1>6, <1>7 DEF TypeInv, TypeOK

LEMMA EnterTypes == TypeInv /\ Enter => TypeInv'
<1> SUFFICES ASSUME TypeInv, Enter PROVE TypeInv'
  OBVIOUS
<1> USE DEF TypeInv, TypeOK, Commands, Blank, Loops, Modes, Panes, Lines,
            appVars, hopVars, logVars, turnVars, stopVars
<1>1. CASE EnterRefused
  <2>1. loop' = "draw" /\ UNCHANGED <<raw, quit, appVars, hopVars, logVars, turnVars, stopVars>>
    BY <1>1 DEF Enter
  <2> QED BY <2>1
<1>2. CASE ~EnterRefused
  <2>1. identity'.subject \in Subjects
    BY <1>2, HopSubject DEF Enter
  <2>2. selected \in Agents /\ entries + 1 \in 0 .. MaxEntries /\ <<>> \in Seq(LogEntries)
    BY <1>2, ConsoleAssumption DEF Enter, EnterRefused
  <2>3. /\ composer' \in [line : Lines \cup {"blank"}, entry : 0 .. MaxEntries]
        /\ session' \in Legs /\ assets' \in 0 .. MaxEntries /\ shell' \in Seq(LogEntries)
        /\ mode' \in Modes
    BY <1>2, <2>2, NoSessionIsLeg, ConsoleAssumption DEF Enter, ClearAgentContext
  <2>4. loop' = "entering" /\ entries' = entries + 1 /\ shown' = identity'
    BY <1>2 DEF Enter
  <2>5. UNCHANGED <<raw, quit, busy, pane, selected, failed, cmds, turnVars, stopVars>>
    BY <1>2 DEF Enter
  <2> QED
    BY <2>1, <2>2, <2>3, <2>4, <2>5
<1> QED BY <1>1, <1>2

LEMMA KeyTypes == TypeInv /\ Key => TypeInv'
<1> SUFFICES ASSUME TypeInv, Key PROVE TypeInv'
  OBVIOUS
<1> USE DEF TypeInv, TypeOK, Commands, Blank, Loops, Modes, Panes, Lines,
            appVars, hopVars, logVars, turnVars, stopVars, AtKey, KeyOnlyApp
<1>1. CASE KeyWithoutEffect
  BY <1>1 DEF KeyWithoutEffect
<1>2. CASE KeyQuit
  BY <1>2 DEF KeyQuit
<1>3. CASE KeyCloseOverlay
  BY <1>3 DEF KeyCloseOverlay
<1>4. CASE KeyOpenOverlay
  BY <1>4 DEF KeyOpenOverlay
<1>5. CASE KeyTab
  <2>1. \A p \in Panes : NextPane(p) \in Panes /\ PreviousPane(p) \in Panes
    <3>1. \A p \in Panes : NextPane(p) \in Panes
      BY DEF NextPane
    <3>2. \A p \in Panes : \E q \in Panes : NextPane(q) = p
      BY DEF NextPane
    <3>3. \A p \in Panes : PreviousPane(p) \in Panes
      BY <3>2 DEF PreviousPane
    <3> QED BY <3>1, <3>3
  <2> QED BY <1>5, <2>1 DEF KeyTab
<1>6. CASE KeySelect
  <2>1. selected' \in Places
    <3>1. CASE Agents = {}
      BY <1>6, <3>1 DEF KeySelect
    <3>2. CASE Agents # {}
      <4>1. AgentCount \in Nat /\ AgentCount >= 1 /\ selected \in 1 .. AgentCount
        BY <3>2, CatalogAssumption DEF Agents, Places
      <4>2. selected' \in {Clamp(selected - 1), Clamp(selected + 1)}
        BY <1>6, <3>2 DEF KeySelect
      <4>3. /\ Clamp(selected - 1) \in 1 .. AgentCount
            /\ Clamp(selected + 1) \in 1 .. AgentCount
        BY <4>1 DEF Clamp
      <4> QED BY <4>2, <4>3 DEF Agents, Places
    <3> QED BY <3>1, <3>2
  <2> QED BY <1>6, <2>1 DEF KeySelect
<1>7. CASE KeyCompose
  BY <1>7 DEF KeyCompose
<1>8. CASE KeyType
  BY <1>8 DEF KeyType, Legs
<1>9. CASE KeyErase
  <2>1. /\ loop' = "draw" /\ composer' = Blank
        /\ UNCHANGED <<raw, quit, busy, mode, pane, selected, failed, hopVars, logVars,
                       turnVars, stopVars>>
    BY <1>9 DEF KeyErase
  <2> QED BY <2>1, ConsoleAssumption
<1>10. CASE KeyStop
  BY <1>10 DEF KeyStop, StopRequest
<1>11. CASE KeyLeaveComposer
  BY <1>11, ConsoleAssumption DEF KeyLeaveComposer
<1>12. CASE KeyEnterAgent
  BY <1>12, EnterTypes DEF KeyEnterAgent
<1>13. CASE SubmitRefused
  <2>1. /\ loop' = "draw" /\ composer' = Blank
        /\ UNCHANGED <<raw, quit, busy, mode, pane, selected, failed, hopVars, logVars,
                       turnVars, stopVars>>
    BY <1>13 DEF SubmitRefused, Submit
  <2> QED BY <2>1, ConsoleAssumption
<1>14. CASE SubmitAsset
  <2>1. Echo(cmds + 1, "reported") \in LogEntries
    BY <1>14, ConsoleAssumption DEF SubmitAsset, Echo, LogEntries, Legs
  <2>2. shell' \in Seq(LogEntries) /\ cmds' \in 0 .. MaxCommands
    BY <1>14, <2>1, LogTypes, ConsoleAssumption DEF SubmitAsset
  <2>3. /\ loop' = "draw" /\ composer' = Blank
        /\ UNCHANGED <<raw, quit, busy, mode, pane, selected, failed, hopVars, turnVars,
                       stopVars>>
    BY <1>14 DEF SubmitAsset, Submit
  <2> QED BY <2>2, <2>3, ConsoleAssumption
<1>15. CASE SubmitSmoke
  BY <1>15, ConsoleAssumption DEF SubmitSmoke, Submit
<1>16. CASE SubmitScript
  <2>1. Echo(cmds + 1, "running") \in LogEntries
    BY <1>16, ConsoleAssumption DEF SubmitScript, Echo, LogEntries, Legs
  <2>2. shell' \in Seq(LogEntries) /\ cmds' \in 0 .. MaxCommands
    BY <1>16, <2>1, LogTypes, ConsoleAssumption DEF SubmitScript
  <2>3. /\ loop' = "opening" /\ busy' = TRUE /\ composer' = Blank
        /\ UNCHANGED <<raw, quit, mode, pane, selected, failed, hopVars, turnVars, stopVars>>
    BY <1>16 DEF SubmitScript, Submit
  <2> QED BY <2>2, <2>3, ConsoleAssumption
<1> QED
  BY <1>1, <1>2, <1>3, <1>4, <1>5, <1>6, <1>7, <1>8, <1>9, <1>10, <1>11, <1>12,
     <1>13, <1>14, <1>15, <1>16 DEF Key

LEMMA BrokerTypes == TypeInv /\ BrokerAnswers => TypeInv'
<1> SUFFICES ASSUME TypeInv, BrokerAnswers PROVE TypeInv'
  OBVIOUS
<1> USE DEF TypeInv, TypeOK, Commands, Loops, Modes, Panes, Lines,
            appVars, hopVars, logVars, turnVars, stopVars
<1>1. CASE EnterGranted
  <2>1. /\ session' \in Legs /\ assets' \in 0 .. MaxEntries
        /\ shell' \in Seq(LogEntries)
        /\ composer' \in [line : Lines \cup {"blank"}, entry : 0 .. MaxEntries]
    BY <1>1, ConsoleAssumption, CatalogAssumption DEF EnterGranted, Legs, Agents, Blank
  <2> QED BY <1>1, <2>1 DEF EnterGranted
<1>2. CASE EnterDenied
  BY <1>2 DEF EnterDenied
<1>3. CASE ScriptSpawned
  <2>1. [agent |-> session.agent, subject |-> identity.subject, entry |-> assets] \in Legs
    BY DEF Legs
  <2>2. leg' \in [Commands -> Legs] /\ worker' \in [Commands -> Workers]
    BY <1>3, <2>1 DEF ScriptSpawned, Workers
  <2>3. /\ loop' = "draw" /\ running' = cmds /\ requested' = FALSE /\ handle' = cmds
        /\ UNCHANGED <<raw, quit, appVars, hopVars, logVars, calls, mail, fired>>
    BY <1>3 DEF ScriptSpawned, StopBind
  <2>4. /\ loop' \in Loops /\ loop' # "entering" /\ loop' # "recording"
        /\ running' \in 0 .. MaxCommands /\ requested' \in BOOLEAN
        /\ handle' \in 0 .. MaxCommands
    BY <2>3
  <2> QED BY <2>2, <2>3, <2>4
<1>4. CASE ScriptDenied
  <2>1. /\ loop' = "draw" /\ shell' \in Seq(LogEntries) /\ failed' = TRUE /\ busy' = FALSE
        /\ UNCHANGED <<raw, quit, mode, pane, selected, composer, hopVars, cmds, turnVars,
                       stopVars>>
    BY <1>4, LogTypes DEF ScriptDenied
  <2> QED BY <2>1
<1>5. CASE RecordAnswered
  <2>1. Echo(cmds + 1, "reported") \in LogEntries
    BY <1>5, ConsoleAssumption DEF RecordAnswered, Echo, LogEntries, Legs
  <2>2. shell' \in Seq(LogEntries)
    BY <1>5, <2>1, LogTypes DEF RecordAnswered
  <2>3. cmds' \in 0 .. MaxCommands
    BY <1>5, ConsoleAssumption DEF RecordAnswered
  <2>4. busy' \in BOOLEAN
    BY <1>5 DEF RecordAnswered
  <2> QED BY <1>5, <2>2, <2>3, <2>4 DEF RecordAnswered
<1> QED BY <1>1, <1>2, <1>3, <1>4, <1>5 DEF BrokerAnswers

LEMMA WorkerTypes ==
  ASSUME TypeInv, NEW c \in Commands, WorkerStep(c) \/ WorkerPanics(c)
  PROVE  TypeInv'
<1> USE DEF TypeInv, TypeOK, WorkerOnly, appVars, hopVars, logVars, stopVars
<1>1. worker' \in [Commands -> Workers]
  BY DEF WorkerStep, CallStarts, CallReturns, ScriptEnds, WorkerReturns, WorkerPanics,
         Workers
<1>2. calls' \in [Commands -> 0 .. MaxCalls]
  <2>1. CASE CallStarts(c)
    BY <2>1, ConsoleAssumption DEF CallStarts
  <2>2. CASE ~CallStarts(c)
    BY <2>2 DEF WorkerStep, CallReturns, ScriptEnds, WorkerReturns, WorkerPanics
  <2> QED BY <2>1, <2>2
<1>3. mail' \in SUBSET Commands /\ raw' \in BOOLEAN
  BY DEF WorkerStep, CallStarts, CallReturns, ScriptEnds, WorkerReturns, WorkerPanics
<1>4. WorkerOnly
  BY DEF WorkerStep, CallStarts, CallReturns, ScriptEnds, WorkerReturns, WorkerPanics
<1> QED BY <1>1, <1>2, <1>3, <1>4

LEMMA LoopTypes ==
  TypeInv /\ (ReceiveOutcome \/ FinishTurn \/ LoopStep \/ TerminalFails) => TypeInv'
<1> SUFFICES ASSUME TypeInv, ReceiveOutcome \/ FinishTurn \/ LoopStep \/ TerminalFails
             PROVE  TypeInv'
  OBVIOUS
<1> USE DEF TypeInv, TypeOK, Loops, appVars, hopVars, logVars, turnVars, stopVars
<1>1. CASE ReceiveOutcome
  <2>1. running \in Commands
    BY <1>1 DEF ReceiveOutcome
  <2>2. [cmd |-> running, entry |-> leg[running].entry, exit |-> "reported"] \in LogEntries
    BY <2>1 DEF LogEntries, Legs
  <2> QED BY <1>1, <2>2, LogTypes DEF ReceiveOutcome
<1>2. CASE FinishTurn
  <2>1. shell' \in Seq(LogEntries)
    BY <1>2, LogTypes DEF FinishTurn, SettleTurn
  <2>2. failed' \in BOOLEAN /\ busy' \in BOOLEAN /\ requested' \in BOOLEAN
    BY <1>2 DEF FinishTurn, SettleTurn, StopReset
  <2>3. running' \in 0 .. MaxCommands /\ handle' \in 0 .. MaxCommands
    BY <1>2, ConsoleAssumption DEF FinishTurn, SettleTurn, StopReset
  <2> QED
    BY <1>2, <2>1, <2>2, <2>3 DEF FinishTurn, SettleTurn, StopReset
<1>3. ASSUME Leave PROVE TypeInv'
  <2>1. loop' \in Loops /\ loop' # "entering" /\ loop' # "recording"
    BY <1>3 DEF Leave
  <2>2. UNCHANGED <<quit, busy, mode, pane, selected, failed, composer, identity, shown,
                    session, assets, entries, shell, cmds, running, leg, worker, calls,
                    mail>>
    BY <1>3 DEF Leave
  <2>3. raw' \in BOOLEAN /\ requested' \in BOOLEAN
    BY <1>3 DEF Leave, StopRequest
  <2>4. fired' \in SUBSET Commands /\ handle' \in 0 .. MaxCommands
    <3>1. {handle} \ {0} \subseteq Commands
      BY DEF Commands
    <3>2. handle' = handle /\ fired' \in {fired, fired \cup ({handle} \ {0})}
      BY <1>3 DEF Leave, StopRequest
    <3> QED BY <3>1, <3>2
  <2> QED BY <2>1, <2>2, <2>3, <2>4
<1>4. CASE LoopStep
  <2>1. CASE Start
    BY <2>1, EnterTypes DEF Start
  <2>2. CASE DrawFrame
    BY <2>2 DEF DrawFrame
  <2>3. CASE QuitDrawn
    BY <2>3, <1>3 DEF QuitDrawn
  <2>4. CASE JoinStopped
    <3>1. raw' \in BOOLEAN
      BY <2>4 DEF JoinStopped
    <3>2. running' \in 0 .. MaxCommands
      BY <2>4, ConsoleAssumption DEF JoinStopped
    <3> QED BY <2>4, <3>1, <3>2 DEF JoinStopped
  <2> QED BY <1>4, <2>1, <2>2, <2>3, <2>4 DEF LoopStep
<1>5. CASE TerminalFails
  BY <1>5, <1>3 DEF TerminalFails
<1> QED BY <1>1, <1>2, <1>4, <1>5

LEMMA StutterTypes == TypeInv /\ UNCHANGED vars => TypeInv'
BY DEF TypeInv, TypeOK, vars, appVars, hopVars, logVars, turnVars, stopVars

LEMMA TypeInvariant == Spec => []TypeInv
<1>1. TypeInv /\ [Next]_vars => TypeInv'
  <2> SUFFICES ASSUME TypeInv, [Next]_vars PROVE TypeInv'
    OBVIOUS
  <2>1. CASE UNCHANGED vars \/ Terminated
    BY <2>1, StutterTypes DEF Terminated
  <2>2. ASSUME NEW c \in Commands, WorkerStep(c) \/ WorkerPanics(c) PROVE TypeInv'
    BY <2>2, WorkerTypes
  <2> QED BY <2>1, <2>2, KeyTypes, BrokerTypes, LoopTypes DEF Next
<1> QED BY <1>1, TypeInit, PTL DEF Spec

(* Whatever is typed, drawn, answered or computed, every variable of the   *)
(* console keeps its type: in particular the highlight stays within one of *)
(* the catalog and no more legs exist than commands were accepted.         *)
THEOREM TypeCorrect == Spec => []TypeOK
<1>1. TypeInv => TypeOK
  BY DEF TypeInv
<1> QED BY <1>1, TypeInvariant, PTL

-------------------------------------------------------------------------------
(* The command in flight.  At most one worker is alive, it is the running  *)
(* turn's, the stop flag is bound to it from the moment it is spawned, and *)
(* the flag is raised exactly when its leg's signal has fired.             *)

FlightInv ==
  /\ loop \in {"start", "entering", "recording"} => running = 0 /\ ~busy
  /\ loop = "opening" => /\ running = 0 /\ busy
                         /\ cmds \in Commands /\ worker[cmds] = "none"
  /\ loop = "stopping" => running # 0
  /\ loop = "exited" => running = 0
  /\ loop # "exited" => (busy <=> loop = "opening" \/ running # 0)
  /\ loop # "exited" => handle = running
  /\ loop # "exited" => (requested <=> running # 0 /\ running \in fired)
  /\ running # 0 => running = cmds /\ worker[running] # "none"
  /\ \A c \in Commands : Alive(c) => running = c
  /\ \A c \in Commands : worker[c] # "none" => c <= cmds
  /\ \A c \in fired : worker[c] # "none"

flightVars == <<busy, cmds, running, worker, requested, handle, fired>>

(* Steps that leave the command in flight alone and go on to draw or read. *)
QuietStep ==
  /\ loop \in {"start", "draw", "select", "entering"}
  /\ loop' \in {"draw", "select"}
  /\ UNCHANGED flightVars

(* The keys that only move the App about. *)
QuietKey ==
  \/ KeyWithoutEffect \/ KeyQuit \/ KeyCloseOverlay \/ KeyOpenOverlay \/ KeyTab
  \/ KeySelect \/ KeyCompose \/ KeyType \/ KeyErase \/ KeyLeaveComposer
  \/ SubmitRefused

LEMMA QuietKeys ==
  ASSUME QuietKey
  PROVE  /\ loop = "select" /\ loop' = "draw"
         /\ UNCHANGED <<raw, busy, hopVars, logVars, turnVars, stopVars>>
<1> USE DEF AtKey, KeyOnlyApp, appVars
<1>1. CASE KeyWithoutEffect
  BY <1>1 DEF KeyWithoutEffect
<1>2. CASE KeyQuit
  BY <1>2 DEF KeyQuit
<1>3. CASE KeyCloseOverlay
  BY <1>3 DEF KeyCloseOverlay
<1>4. CASE KeyOpenOverlay
  BY <1>4 DEF KeyOpenOverlay
<1>5. CASE KeyTab
  BY <1>5 DEF KeyTab
<1>6. CASE KeySelect
  BY <1>6 DEF KeySelect
<1>7. CASE KeyCompose
  BY <1>7 DEF KeyCompose
<1>8. CASE KeyType
  BY <1>8 DEF KeyType
<1>9. CASE KeyErase
  BY <1>9 DEF KeyErase
<1>10. CASE KeyLeaveComposer
  BY <1>10 DEF KeyLeaveComposer
<1>11. CASE SubmitRefused
  BY <1>11 DEF SubmitRefused, Submit
<1> QED
  BY <1>1, <1>2, <1>3, <1>4, <1>5, <1>6, <1>7, <1>8, <1>9, <1>10, <1>11 DEF QuietKey

LEMMA FlightInit == Init => FlightInv
BY DEF Init, FlightInv, Alive

LEMMA FlightQuiet == FlightInv /\ QuietStep => FlightInv'
BY DEF FlightInv, QuietStep, flightVars, Alive

(* An accepted hop starts awaiting with nothing in flight. *)
LEMMA FlightEnter ==
  ASSUME FlightInv, Enter, loop \in {"start", "select"}
  PROVE  FlightInv'
<1>1. CASE EnterRefused
  <2>1. QuietStep
    BY <1>1 DEF Enter, QuietStep, flightVars, appVars, logVars, turnVars, stopVars
  <2> QED BY <2>1, FlightQuiet
<1>2. CASE ~EnterRefused
  <2>1. ~busy /\ running = 0
    BY <1>2 DEF EnterRefused, FlightInv
  <2>2. loop' = "entering" /\ UNCHANGED flightVars
    BY <1>2 DEF Enter, flightVars, turnVars, stopVars
  <2> QED BY <2>1, <2>2 DEF FlightInv, flightVars, Alive
<1> QED BY <1>1, <1>2

LEMMA FlightKey == TypeInv /\ FlightInv /\ Key => FlightInv'
<1> SUFFICES ASSUME TypeInv, FlightInv, Key PROVE FlightInv'
  OBVIOUS
<1>1. CASE QuietKey
  <2>1. QuietStep
    BY <1>1, QuietKeys DEF QuietStep, flightVars, logVars, turnVars, stopVars
  <2> QED BY <2>1, FlightQuiet
<1>2. CASE KeyEnterAgent
  BY <1>2, FlightEnter DEF KeyEnterAgent, AtKey
<1>3. CASE KeyStop
  <2>1. running # 0 /\ handle = running /\ loop = "select"
    BY <1>3 DEF KeyStop, AtKey, FlightInv
  <2>2. requested' = TRUE /\ fired' = fired \cup {running} /\ handle' = handle
    BY <1>3, <2>1 DEF KeyStop, StopRequest
  <2>3. loop' = "draw" /\ UNCHANGED <<busy, cmds, running, worker>>
    BY <1>3 DEF KeyStop, appVars, logVars, turnVars
  <2> QED BY <2>1, <2>2, <2>3 DEF FlightInv, Alive
<1>4. CASE SubmitAsset \/ SubmitSmoke
  <2>1. loop = "select" /\ running = 0 /\ ~busy
    BY <1>4 DEF SubmitAsset, SubmitSmoke, Submit, AtKey, FlightInv
  <2>2. /\ loop' \in {"draw", "recording"} /\ cmds' \in {cmds, cmds + 1}
        /\ UNCHANGED <<busy, running, worker, requested, handle, fired>>
    BY <1>4 DEF SubmitAsset, SubmitSmoke, appVars, logVars, turnVars, stopVars
  <2> QED BY <2>1, <2>2 DEF FlightInv, TypeInv, TypeOK, Alive, Commands
<1>5. CASE SubmitScript
  <2>1. loop = "select" /\ running = 0 /\ cmds + 1 \in Commands
    BY <1>5, ConsoleAssumption
       DEF SubmitScript, Submit, AtKey, FlightInv, TypeInv, TypeOK, Commands
  <2>2. /\ loop' = "opening" /\ cmds' = cmds + 1 /\ busy' = TRUE
        /\ UNCHANGED <<running, worker, requested, handle, fired>>
    BY <1>5 DEF SubmitScript, turnVars, stopVars
  <2>3. worker[cmds + 1] = "none"
    BY <2>1 DEF FlightInv, TypeInv, TypeOK
  <2> QED BY <2>1, <2>2, <2>3 DEF FlightInv, TypeInv, TypeOK, Alive, Commands
<1> QED BY <1>1, <1>2, <1>3, <1>4, <1>5 DEF Key, QuietKey

LEMMA FlightBroker == TypeInv /\ FlightInv /\ BrokerAnswers => FlightInv'
<1> SUFFICES ASSUME TypeInv, FlightInv, BrokerAnswers PROVE FlightInv'
  OBVIOUS
<1>1. CASE EnterGranted \/ EnterDenied
  <2>1. QuietStep
    BY <1>1 DEF EnterGranted, EnterDenied, QuietStep, flightVars, logVars, turnVars,
                stopVars
  <2> QED BY <2>1, FlightQuiet
<1>2. CASE ScriptSpawned
  <2>1. /\ running = 0 /\ busy /\ cmds \in Commands /\ worker[cmds] = "none"
        /\ cmds \notin fired
    BY <1>2 DEF ScriptSpawned, FlightInv
  <2>2. /\ loop' = "draw" /\ running' = cmds /\ handle' = cmds /\ requested' = FALSE
        /\ UNCHANGED <<busy, cmds, fired>>
    BY <1>2 DEF ScriptSpawned, StopBind, appVars, logVars
  <2>3. worker' = [worker EXCEPT ![cmds] = "boundary"]
    BY <1>2 DEF ScriptSpawned
  <2>4. /\ worker'[cmds] = "boundary"
        /\ \A c \in Commands \ {cmds} : worker'[c] = worker[c]
    BY <2>1, <2>3 DEF TypeInv, TypeOK
  <2>5. cmds # 0
    BY <2>1 DEF Commands
  <2>6. \A c \in Commands : Alive(c)' => c = cmds
    BY <2>1, <2>4 DEF FlightInv, Alive, Commands
  <2>7. \A c \in Commands : worker'[c] # "none" => c <= cmds
    BY <2>1, <2>4 DEF FlightInv, TypeInv, TypeOK, Commands
  <2>8. \A c \in fired : worker'[c] # "none"
    BY <2>1, <2>4 DEF FlightInv, TypeInv, TypeOK
  <2> QED BY <2>1, <2>2, <2>4, <2>5, <2>6, <2>7, <2>8 DEF FlightInv
<1>3. CASE ScriptDenied
  <2>1. running = 0 /\ loop' = "draw" /\ busy' = FALSE
    BY <1>3 DEF ScriptDenied, FlightInv
  <2>2. UNCHANGED <<cmds, running, worker, requested, handle, fired>>
    BY <1>3 DEF ScriptDenied, turnVars, stopVars
  <2>3. loop = "opening"
    BY <1>3 DEF ScriptDenied
  <2> QED BY <2>1, <2>2, <2>3 DEF FlightInv, Alive
<1>4. CASE RecordAnswered
  <2>1. running = 0 /\ ~busy /\ loop' = "draw" /\ busy' = FALSE /\ cmds' = cmds + 1
    BY <1>4 DEF RecordAnswered, FlightInv
  <2>2. UNCHANGED <<running, worker, requested, handle, fired>> /\ loop = "recording"
    BY <1>4 DEF RecordAnswered, turnVars, stopVars
  <2> QED BY <2>1, <2>2 DEF FlightInv, Alive, TypeInv, TypeOK, Commands
<1> QED BY <1>1, <1>2, <1>3, <1>4 DEF BrokerAnswers

LEMMA FlightWorker ==
  ASSUME TypeInv, FlightInv, NEW c \in Commands, WorkerStep(c) \/ WorkerPanics(c)
  PROVE  FlightInv'
<1>1. Alive(c)
  BY DEF WorkerStep, CallStarts, CallReturns, ScriptEnds, WorkerReturns, WorkerPanics,
         Alive
<1>2. running = c /\ c # 0
  BY <1>1 DEF FlightInv, Commands
<1>3. PICK state \in Workers \ {"none"} : worker' = [worker EXCEPT ![c] = state]
  BY DEF WorkerStep, CallStarts, CallReturns, ScriptEnds, WorkerReturns, WorkerPanics,
         Workers
<1>4. /\ worker'[c] # "none"
      /\ \A d \in Commands \ {c} : worker'[d] = worker[d]
  BY <1>3 DEF TypeInv, TypeOK
<1>5. UNCHANGED <<loop, busy, cmds, running, requested, handle, fired>>
  BY DEF WorkerStep, CallStarts, CallReturns, ScriptEnds, WorkerReturns, WorkerPanics,
         WorkerOnly, appVars, logVars, stopVars
<1>6. \A d \in Commands : Alive(d)' => running = d
  BY <1>2, <1>4 DEF FlightInv, Alive
<1>7. \A d \in Commands : worker'[d] # "none" => d <= cmds
  BY <1>1, <1>4 DEF FlightInv, Alive
<1>8. \A d \in fired : worker'[d] # "none"
  BY <1>4 DEF FlightInv, TypeInv, TypeOK
<1>9. loop = "opening" => worker'[cmds] = "none"
  BY <1>2 DEF FlightInv
<1> QED BY <1>2, <1>4, <1>5, <1>6, <1>7, <1>8, <1>9 DEF FlightInv

LEMMA FlightLoop ==
  ASSUME TypeInv, FlightInv, ReceiveOutcome \/ FinishTurn \/ LoopStep \/ TerminalFails
  PROVE  FlightInv'
<1>1. CASE ReceiveOutcome
  <2>1. QuietStep
    BY <1>1 DEF ReceiveOutcome, QuietStep, flightVars, appVars, stopVars
  <2> QED BY <2>1, FlightQuiet
<1>2. CASE FinishTurn
  <2>1. ~Alive(running) /\ running # 0 /\ loop = "select"
    BY <1>2 DEF FinishTurn, Done, Alive
  <2>2. /\ loop' = "draw" /\ running' = 0 /\ handle' = 0 /\ busy' = FALSE
        /\ requested' = FALSE
        /\ UNCHANGED <<cmds, worker, fired>>
    BY <1>2 DEF FinishTurn, SettleTurn, StopReset
  <2>3. \A c \in Commands : ~Alive(c)
    BY <2>1 DEF FlightInv
  <2> QED BY <2>1, <2>2, <2>3 DEF FlightInv, Alive
<1>3. ASSUME Leave, loop \in {"draw", "select"} PROVE FlightInv'
  <2>1. UNCHANGED <<busy, cmds, running, worker, handle>>
    BY <1>3 DEF Leave, appVars, logVars, turnVars, stopVars, StopRequest
  <2>2. CASE running # 0
    <3>1. handle = running
      BY <1>3 DEF FlightInv
    <3>2. loop' = "stopping" /\ requested' = TRUE /\ fired' = fired \cup {running}
      BY <1>3, <2>2, <3>1 DEF Leave, StopRequest
    <3> QED BY <1>3, <2>1, <2>2, <3>1, <3>2 DEF FlightInv, Alive
  <2>3. CASE running = 0
    <3>1. loop' = "exited" /\ UNCHANGED <<requested, fired>>
      BY <1>3, <2>3 DEF Leave, stopVars
    <3> QED BY <1>3, <2>1, <2>3, <3>1 DEF FlightInv, Alive
  <2> QED BY <2>2, <2>3
<1>4. CASE LoopStep
  <2>1. CASE Start
    <3>1. CASE InitialAgent # 0
      BY <2>1, <3>1, FlightEnter DEF Start
    <3>2. CASE InitialAgent = 0
      <4>1. QuietStep
        BY <2>1, <3>2 DEF Start, QuietStep, flightVars, appVars, logVars, turnVars,
                          stopVars
      <4> QED BY <4>1, FlightQuiet
    <3> QED BY <3>1, <3>2
  <2>2. CASE DrawFrame
    <3>1. QuietStep
      BY <2>2 DEF DrawFrame, QuietStep, flightVars, appVars, logVars, turnVars, stopVars
    <3> QED BY <3>1, FlightQuiet
  <2>3. CASE QuitDrawn
    BY <2>3, <1>3 DEF QuitDrawn
  <2>4. CASE JoinStopped
    <3>1. ~Alive(running) /\ loop' = "exited" /\ running' = 0
      BY <2>4 DEF JoinStopped, Done, Alive
    <3>2. UNCHANGED <<busy, cmds, worker, requested, handle, fired>>
      BY <2>4 DEF JoinStopped, appVars, logVars, stopVars
    <3>3. \A c \in Commands : ~Alive(c)
      BY <3>1 DEF FlightInv
    <3> QED BY <3>1, <3>2, <3>3 DEF FlightInv, Alive
  <2> QED BY <1>4, <2>1, <2>2, <2>3, <2>4 DEF LoopStep
<1>5. CASE TerminalFails
  BY <1>5, <1>3 DEF TerminalFails
<1> QED BY <1>1, <1>2, <1>4, <1>5

LEMMA FlightInvariant == Spec => [](TypeInv /\ FlightInv)
<1>1. TypeInv /\ FlightInv /\ [Next]_vars => FlightInv'
  <2> SUFFICES ASSUME TypeInv, FlightInv, [Next]_vars PROVE FlightInv'
    OBVIOUS
  <2>1. CASE UNCHANGED vars \/ Terminated
    BY <2>1 DEF Terminated, vars, appVars, logVars, turnVars, stopVars, FlightInv, Alive
  <2>2. ASSUME NEW c \in Commands, WorkerStep(c) \/ WorkerPanics(c) PROVE FlightInv'
    BY <2>2, FlightWorker
  <2> QED BY <2>1, <2>2, FlightKey, FlightBroker, FlightLoop DEF Next
<1> QED BY <1>1, TypeInit, TypeInvariant, FlightInit, PTL DEF Spec

(* A worker is joined before its turn is settled, before the next command  *)
(* and before `run` returns, for every number of commands and calls.       *)
THEOREM WorkerJoined == Spec => []WorkerNeverOutlivesItsTurn
<1>1. FlightInv => WorkerNeverOutlivesItsTurn
  BY DEF FlightInv, WorkerNeverOutlivesItsTurn
<1> QED BY <1>1, FlightInvariant, PTL

(* `busy`, which every refusal in the key handling rests on, is exact.     *)
THEOREM BusyIsExact == Spec => []BusyIffInFlight
<1>1. FlightInv => BusyIffInFlight
  BY DEF FlightInv, BusyIffInFlight
<1> QED BY <1>1, FlightInvariant, PTL

(* A stop asked for reaches the leg of the command in flight, and nothing  *)
(* of it is left for the next command.                                     *)
THEOREM StopReaches == Spec => []StopReachesTheTurnInFlight
<1>1. TypeInv /\ FlightInv => StopReachesTheTurnInFlight
  <2> SUFFICES ASSUME TypeInv, FlightInv, loop # "exited"
               PROVE  /\ requested => running # 0 /\ running \in fired
                      /\ handle # 0 => handle = running
                      /\ fired \cap {c \in Commands : Alive(c)} # {} => requested
    BY DEF StopReachesTheTurnInFlight
  <2>1. \A c \in Commands : Alive(c) => running = c /\ c # 0
    BY DEF FlightInv, Commands
  <2> QED BY <2>1 DEF FlightInv
<1> QED BY <1>1, FlightInvariant, PTL

-------------------------------------------------------------------------------
(* Whom everything is done for.  The screen always names the identity the  *)
(* next leg will attest; an open session has it too, owns the inventory,   *)
(* and its agent is the one the chosen profile is bound to.                *)

(* Some authored profile gives this agent the identity on the screen. *)
Authored(agent) ==
  Config.profiles # {} =>
    \E p \in Config.profiles :
      p.name = identity.profile /\ p.agent = agent /\ p.subject = identity.subject

IdentityInv ==
  /\ shown = identity
  /\ loop \in {"start", "entering"} => ~Open
  /\ loop \in {"opening", "recording"} => Open
  /\ loop = "entering" => Authored(selected)
  /\ Open => /\ session.subject = identity.subject
             /\ assets = session.entry
             /\ Authored(session.agent)
  /\ running # 0 => Open /\ leg[running] = session

identityVars == <<identity, shown, session, assets, running, leg>>

(* Steps that move the loop between drawing, reading and leaving. *)
SameIdentity ==
  /\ UNCHANGED identityVars
  /\ loop' = loop \/ loop' \in {"draw", "select", "stopping", "exited"}
  /\ loop = "entering" => loop' # "entering" \/ selected' = selected

LEMMA IdentityInit == Init => IdentityInv
BY DEF Init, IdentityInv, Open, NoSession

LEMMA IdentitySame == IdentityInv /\ SameIdentity => IdentityInv'
BY DEF IdentityInv, SameIdentity, identityVars, Authored, Open

LEMMA HopAuthored ==
  ASSUME NEW agent, NEW current, ~HopRefused(Config, agent), Config.profiles # {}
  PROVE  \E p \in Config.profiles :
           /\ p.name = HopIdentity(Config, agent, current).profile
           /\ p.agent = agent
           /\ p.subject = HopIdentity(Config, agent, current).subject
<1>1. Matches(Config, agent) # {}
  BY DEF HopRefused, Unauthored
<1> QED BY <1>1, ChosenMatches DEF HopIdentity

LEMMA IdentityEnter ==
  ASSUME FlightInv, IdentityInv, Enter, loop \in {"start", "select"}
  PROVE  IdentityInv'
<1>1. CASE EnterRefused
  BY <1>1, IdentitySame DEF Enter, SameIdentity, identityVars, hopVars, turnVars
<1>2. CASE ~EnterRefused
  <2>1. running = 0 /\ ~HopRefused(Config, selected)
    BY <1>2 DEF EnterRefused, FlightInv
  <2>2. /\ loop' = "entering" /\ selected' = selected /\ running' = running
        /\ identity' = HopIdentity(Config, selected, identity) /\ shown' = identity'
        /\ session' = NoSession
    BY <1>2 DEF Enter, ClearAgentContext, turnVars
  <2>3. Authored(selected)'
    BY <2>1, <2>2, HopAuthored DEF Authored
  <2> QED BY <2>1, <2>2, <2>3 DEF IdentityInv, Open, NoSession
<1> QED BY <1>1, <1>2

LEMMA IdentityKey == FlightInv /\ IdentityInv /\ Key => IdentityInv'
<1> SUFFICES ASSUME FlightInv, IdentityInv, Key PROVE IdentityInv'
  OBVIOUS
<1>1. CASE QuietKey
  BY <1>1, QuietKeys, IdentitySame DEF SameIdentity, identityVars, hopVars, turnVars
<1>2. CASE KeyEnterAgent
  BY <1>2, IdentityEnter DEF KeyEnterAgent, AtKey
<1>3. CASE KeyStop
  BY <1>3, IdentitySame DEF KeyStop, AtKey, SameIdentity, identityVars, hopVars, turnVars
<1>4. CASE SubmitAsset
  BY <1>4, IdentitySame
     DEF SubmitAsset, Submit, AtKey, SameIdentity, identityVars, hopVars, turnVars
<1>5. CASE SubmitSmoke \/ SubmitScript
  <2>1. Open /\ loop' \in {"recording", "opening"} /\ UNCHANGED identityVars
    BY <1>5 DEF SubmitSmoke, SubmitScript, Submit, identityVars, hopVars, turnVars
  <2> QED BY <2>1 DEF IdentityInv, identityVars, Authored, Open
<1> QED BY <1>1, <1>2, <1>3, <1>4, <1>5 DEF Key, QuietKey

LEMMA IdentityBroker == TypeInv /\ FlightInv /\ IdentityInv /\ BrokerAnswers => IdentityInv'
<1> SUFFICES ASSUME TypeInv, FlightInv, IdentityInv, BrokerAnswers PROVE IdentityInv'
  OBVIOUS
<1>1. CASE EnterGranted
  <2>1. /\ session' = [agent |-> selected, subject |-> identity.subject, entry |-> entries]
        /\ assets' = entries /\ loop' = "draw"
        /\ UNCHANGED <<identity, shown, running>>
    BY <1>1 DEF EnterGranted, turnVars
  <2>2. running = 0 /\ Authored(selected)
    BY <1>1 DEF EnterGranted, FlightInv, IdentityInv
  <2> QED BY <2>1, <2>2 DEF IdentityInv, Authored, Open
<1>2. CASE EnterDenied \/ ScriptDenied \/ RecordAnswered
  BY <1>2, IdentitySame
     DEF EnterDenied, ScriptDenied, RecordAnswered, SameIdentity, identityVars, hopVars,
         turnVars
<1>3. CASE ScriptSpawned
  <2>1. /\ running' = cmds /\ loop' = "draw"
        /\ UNCHANGED <<identity, shown, session, assets>>
    BY <1>3 DEF ScriptSpawned, hopVars
  <2>2. Open /\ cmds \in Commands
    BY <1>3 DEF ScriptSpawned, FlightInv, IdentityInv
  <2>3. leg'[cmds] = [agent |-> session.agent, subject |-> identity.subject,
                      entry |-> assets]
    BY <1>3, <2>2 DEF ScriptSpawned, TypeInv, TypeOK
  <2>4. leg'[cmds] = session
    BY <2>2, <2>3 DEF IdentityInv, TypeInv, TypeOK, Legs
  <2> QED BY <2>1, <2>2, <2>4 DEF IdentityInv, Authored, Open
<1> QED BY <1>1, <1>2, <1>3 DEF BrokerAnswers

LEMMA IdentityLoop ==
  ASSUME FlightInv, IdentityInv, ReceiveOutcome \/ FinishTurn \/ LoopStep \/ TerminalFails
  PROVE  IdentityInv'
<1>1. CASE ReceiveOutcome
  BY <1>1, IdentitySame DEF ReceiveOutcome, SameIdentity, identityVars, hopVars
<1>2. CASE FinishTurn \/ JoinStopped
  <2>1. /\ loop' \in {"draw", "exited"} /\ running' = 0
        /\ UNCHANGED <<identity, shown, session, assets>>
    BY <1>2 DEF FinishTurn, JoinStopped, hopVars
  <2> QED BY <2>1 DEF IdentityInv, Authored, Open
<1>3. ASSUME Leave, loop \in {"draw", "select"} PROVE IdentityInv'
  BY <1>3, IdentitySame DEF Leave, SameIdentity, identityVars, hopVars, turnVars
<1>4. CASE Start
  <2>1. CASE InitialAgent # 0
    BY <1>4, <2>1, IdentityEnter DEF Start
  <2>2. CASE InitialAgent = 0
    BY <1>4, <2>2, IdentitySame DEF Start, SameIdentity, identityVars, hopVars, turnVars
  <2> QED BY <2>1, <2>2
<1>5. CASE DrawFrame
  BY <1>5, IdentitySame DEF DrawFrame, SameIdentity, identityVars, hopVars, turnVars
<1> QED
  BY <1>1, <1>2, <1>3, <1>4, <1>5 DEF LoopStep, QuitDrawn, TerminalFails

LEMMA IdentityInvariant == Spec => []IdentityInv
<1>1. TypeInv /\ FlightInv /\ IdentityInv /\ [Next]_vars => IdentityInv'
  <2> SUFFICES ASSUME TypeInv, FlightInv, IdentityInv, [Next]_vars PROVE IdentityInv'
    OBVIOUS
  <2>1. CASE UNCHANGED vars \/ Terminated
    BY <2>1, IdentitySame
       DEF Terminated, vars, appVars, hopVars, turnVars, SameIdentity, identityVars
  <2>2. ASSUME NEW c \in Commands, WorkerStep(c) \/ WorkerPanics(c) PROVE IdentityInv'
    <3>1. UNCHANGED <<loop, identity, shown, session, assets, selected, running, leg>>
      BY <2>2 DEF WorkerStep, CallStarts, CallReturns, ScriptEnds, WorkerReturns,
                  WorkerPanics, WorkerOnly, appVars, hopVars
    <3> QED BY <3>1, IdentitySame DEF SameIdentity, identityVars
  <2> QED BY <2>1, <2>2, IdentityKey, IdentityBroker, IdentityLoop DEF Next
<1> QED BY <1>1, FlightInvariant, IdentityInit, PTL DEF Spec

(* A hop, refused or not, never leaves the prior agent usable under the    *)
(* newly selected subject: an open session is the one the screen names.    *)
THEOREM SessionNamed == Spec => []SessionIsWhoTheScreenNames
<1>1. IdentityInv => SessionIsWhoTheScreenNames
  BY DEF IdentityInv, SessionIsWhoTheScreenNames, Authored
<1> QED BY <1>1, IdentityInvariant, PTL

(* Every call a script makes is attested for the session on the screen.    *)
THEOREM TurnUnderSession == Spec => []TurnRunsUnderTheSession
<1>1. IdentityInv => TurnRunsUnderTheSession
  BY DEF IdentityInv, TurnRunsUnderTheSession
<1> QED BY <1>1, IdentityInvariant, PTL

-------------------------------------------------------------------------------
(* What is on the screen.  Every step either leaves the transcript and the *)
(* session alone or is one of six kinds, told apart by what they do to it; *)
(* ScreenSteps sorts the actions into them once, for the three results     *)
(* that follow.                                                            *)

screenVars == <<session, shell, cmds, busy>>

Idle == ~busy /\ UNCHANGED <<worker, leg, cmds>> /\ busy' = busy

Leaves ==
  /\ Idle
  /\ session' = NoSession /\ shell' = <<>> /\ composer' = Blank
  /\ entries' # entries

Enters ==
  /\ Idle /\ session = NoSession /\ shell = <<>>
  /\ session' # NoSession /\ shell' = <<>> /\ composer' = Blank /\ Open'

Begins ==
  /\ Open /\ ~busy /\ busy' /\ cmds' = cmds + 1
  /\ shell' = Append(shell, Echo(cmds + 1, "running"))
  /\ UNCHANGED <<session, worker, leg, entries>> /\ composer' \in {composer, Blank}

Answers ==
  /\ Open /\ ~busy /\ ~busy' /\ cmds' = cmds + 1
  /\ shell' = Append(shell, Echo(cmds + 1, "reported"))
  /\ UNCHANGED <<session, worker, leg, entries>> /\ composer' \in {composer, Blank}

Reported == [cmd |-> cmds, entry |-> session.entry, exit |-> "reported"]
Reports ==
  /\ busy /\ cmds # 0
  /\ shell' = FinishShell(shell, Reported)
  /\ UNCHANGED <<session, cmds, busy, worker, leg, entries, composer>>

Settles ==
  /\ busy /\ ~busy' /\ cmds # 0 /\ \A c \in Commands : ~Alive(c)
  /\ shell' = FailShell(shell)
  /\ UNCHANGED <<session, cmds, worker, leg, entries, composer>>

(* No step of the six kinds: the transcript and the session stay. *)
Keeps ==
  /\ UNCHANGED screenVars /\ UNCHANGED entries
  /\ composer' \in {composer, Blank}
       \/ composer'.entry = IF composer = Blank THEN session.entry ELSE composer.entry

(* The invariant: what ScreenIsThisSessions says, and that no session      *)
(* means the one NoSession and nothing shown.                              *)
ScreenInv ==
  /\ ScreenIsThisSessions
  /\ Open \/ session = NoSession

LEMMA QuietComposer ==
  ASSUME QuietKey
  PROVE  \/ composer' \in {composer, Blank}
         \/ composer'.entry = IF composer = Blank THEN session.entry ELSE composer.entry
<1>1. CASE KeyType
  BY <1>1 DEF KeyType
<1>2. CASE KeyErase \/ KeyLeaveComposer \/ SubmitRefused
  BY <1>2 DEF KeyErase, KeyLeaveComposer, SubmitRefused, Submit
<1>3. CASE KeyWithoutEffect \/ KeyQuit \/ KeyCloseOverlay \/ KeyOpenOverlay
  BY <1>3 DEF KeyWithoutEffect, KeyQuit, KeyCloseOverlay, KeyOpenOverlay, appVars
<1>4. CASE KeyTab \/ KeySelect \/ KeyCompose
  BY <1>4 DEF KeyTab, KeySelect, KeyCompose
<1> QED BY <1>1, <1>2, <1>3, <1>4 DEF QuietKey

LEMMA NobodyShown == ASSUME TypeInv, ScreenInv, ~Open PROVE shell = <<>> /\ session = NoSession
<1>1. shell \in Seq(LogEntries) /\ Len(shell) \in Nat
  BY DEF TypeInv, TypeOK
<1>2. Len(shell) \notin 1 .. Len(shell)
  BY DEF ScreenInv, ScreenIsThisSessions
<1>3. Len(shell) = 0
  BY <1>1, <1>2
<1> QED BY <1>1, <1>3 DEF ScreenInv

LEMMA EnterOnScreen ==
  ASSUME TypeInv, FlightInv, Enter, loop \in {"start", "select"}
  PROVE  Keeps \/ Leaves
<1>1. CASE EnterRefused
  BY <1>1 DEF Enter, Keeps, screenVars, appVars, hopVars, logVars
<1>2. CASE ~EnterRefused
  <2>1. ~busy /\ UNCHANGED <<busy, worker, leg, cmds>>
    BY <1>2 DEF Enter, EnterRefused, turnVars
  <2>2. entries' # entries
    BY <1>2 DEF Enter, TypeInv, TypeOK
  <2> QED BY <1>2, <2>1, <2>2 DEF Enter, ClearAgentContext, Leaves, Idle
<1> QED BY <1>1, <1>2

LEMMA KeyOnScreen ==
  ASSUME TypeInv, FlightInv, Key
  PROVE  Keeps \/ Leaves \/ Begins \/ Answers
<1>1. CASE QuietKey
  BY <1>1, QuietKeys, QuietComposer DEF Keeps, screenVars, hopVars, logVars
<1>2. CASE KeyEnterAgent
  BY <1>2, EnterOnScreen DEF KeyEnterAgent, AtKey
<1>3. CASE KeyStop
  BY <1>3 DEF KeyStop, Keeps, screenVars, appVars, hopVars, logVars
<1>4. CASE SubmitAsset
  BY <1>4 DEF SubmitAsset, Submit, Answers, hopVars, turnVars
<1>5. CASE SubmitSmoke
  BY <1>5 DEF SubmitSmoke, Submit, Keeps, screenVars, hopVars, logVars
<1>6. CASE SubmitScript
  BY <1>6 DEF SubmitScript, Submit, Begins, hopVars, turnVars
<1> QED BY <1>1, <1>2, <1>3, <1>4, <1>5, <1>6 DEF Key, QuietKey

LEMMA BrokerOnScreen ==
  ASSUME TypeInv, FlightInv, IdentityInv, ScreenInv, BrokerAnswers
  PROVE  Keeps \/ Enters \/ Answers \/ Settles
<1>1. CASE EnterGranted
  <2>1. ~busy /\ ~Open
    BY <1>1 DEF EnterGranted, FlightInv, IdentityInv
  <2>2. shell = <<>> /\ session = NoSession
    BY <2>1, NobodyShown
  <2>3. session'.agent # 0
    BY <1>1, CatalogAssumption DEF EnterGranted, TypeInv, Agents
  <2>4. session' # NoSession /\ Open'
    BY <2>3 DEF NoSession, Open
  <2>5. UNCHANGED <<busy, worker, leg, cmds>> /\ shell' = <<>> /\ composer' = Blank
    BY <1>1 DEF EnterGranted, turnVars
  <2> QED BY <2>1, <2>2, <2>4, <2>5 DEF Enters, Idle
<1>2. CASE EnterDenied
  BY <1>2 DEF EnterDenied, Keeps, screenVars, hopVars, logVars
<1>3. CASE ScriptSpawned
  BY <1>3 DEF ScriptSpawned, Keeps, screenVars, appVars, hopVars, logVars
<1>4. CASE ScriptDenied
  <2>1. running = 0 /\ busy /\ cmds # 0
    BY <1>4 DEF ScriptDenied, FlightInv, Commands
  <2>2. \A c \in Commands : ~Alive(c)
    BY <2>1 DEF FlightInv, Commands
  <2>3. /\ shell' = FailShell(shell) /\ ~busy'
        /\ UNCHANGED <<session, cmds, worker, leg, entries, composer>>
    BY <1>4 DEF ScriptDenied, hopVars, turnVars
  <2> QED BY <2>1, <2>2, <2>3 DEF Settles
<1>5. CASE RecordAnswered
  <2>1. Open /\ ~busy
    BY <1>5 DEF RecordAnswered, FlightInv, IdentityInv
  <2> QED BY <1>5, <2>1 DEF RecordAnswered, Answers, hopVars, turnVars
<1> QED BY <1>1, <1>2, <1>3, <1>4, <1>5 DEF BrokerAnswers

LEMMA LoopOnScreen ==
  ASSUME TypeInv, FlightInv, IdentityInv,
         ReceiveOutcome \/ FinishTurn \/ LoopStep \/ TerminalFails
  PROVE  Keeps \/ Leaves \/ Reports \/ Settles
<1>1. CASE ReceiveOutcome
  <2>1. running \in Commands /\ running # 0
    BY <1>1 DEF ReceiveOutcome, TypeInv, TypeOK, Commands
  <2>2. busy /\ running = cmds /\ leg[running].entry = session.entry
    BY <1>1, <2>1 DEF ReceiveOutcome, FlightInv, IdentityInv
  <2>3. shell' = FinishShell(shell, Reported)
    BY <1>1, <2>2 DEF ReceiveOutcome, Reported
  <2>4. UNCHANGED <<session, cmds, busy, worker, leg, entries, composer>>
    BY <1>1 DEF ReceiveOutcome, appVars, hopVars
  <2> QED BY <2>1, <2>2, <2>3, <2>4 DEF Reports
<1>2. CASE FinishTurn
  <2>1. ~Alive(running) /\ running # 0 /\ loop = "select"
    BY <1>2 DEF FinishTurn, Done, Alive
  <2>2. busy /\ cmds # 0 /\ \A c \in Commands : ~Alive(c)
    BY <2>1 DEF FlightInv
  <2>3. /\ shell' = FailShell(shell) /\ ~busy'
        /\ UNCHANGED <<session, cmds, worker, leg, entries, composer>>
    BY <1>2 DEF FinishTurn, SettleTurn, hopVars
  <2> QED BY <2>2, <2>3 DEF Settles
<1>3. ASSUME Leave PROVE Keeps
  BY <1>3 DEF Leave, Keeps, screenVars, appVars, hopVars, logVars
<1>4. CASE LoopStep
  <2>1. CASE Start
    BY <2>1, EnterOnScreen
       DEF Start, Keeps, screenVars, appVars, hopVars, logVars
  <2>2. CASE DrawFrame \/ JoinStopped
    BY <2>2 DEF DrawFrame, JoinStopped, Keeps, screenVars, appVars, hopVars, logVars
  <2> QED BY <1>3, <1>4, <2>1, <2>2 DEF LoopStep, QuitDrawn
<1> QED BY <1>1, <1>2, <1>3, <1>4 DEF TerminalFails

LEMMA WorkerOnScreen ==
  ASSUME NEW c \in Commands, WorkerStep(c) \/ WorkerPanics(c)
  PROVE  Keeps
BY DEF WorkerStep, CallStarts, CallReturns, ScriptEnds, WorkerReturns, WorkerPanics,
       WorkerOnly, Keeps, screenVars, appVars, hopVars, logVars

LEMMA ScreenSteps ==
  ASSUME TypeInv, FlightInv, IdentityInv, ScreenInv, [Next]_vars
  PROVE  Keeps \/ Leaves \/ Enters \/ Begins \/ Answers \/ Reports \/ Settles
<1>1. CASE UNCHANGED vars \/ Terminated
  BY <1>1 DEF Terminated, vars, Keeps, screenVars, appVars, hopVars, logVars
<1> QED
  BY <1>1, KeyOnScreen, BrokerOnScreen, LoopOnScreen, WorkerOnScreen DEF Next

(* fail_shell touches the last entry only, and only while it is pending;   *)
(* finish_shell replaces that entry by the outcome.                        *)
LEMMA FailedLog ==
  ASSUME NEW log \in Seq(LogEntries)
  PROVE  /\ Len(FailShell(log)) = Len(log)
         /\ \A i \in 1 .. Len(log) :
              /\ FailShell(log)[i].cmd = log[i].cmd /\ FailShell(log)[i].entry = log[i].entry
              /\ i # Len(log) \/ log[i].exit # "running" => FailShell(log)[i] = log[i]
              /\ i = Len(log) => FailShell(log)[i].exit # "running"
<1>1. CASE ~Pending(log)
  <2>1. \A i \in 1 .. Len(log) : i = Len(log) => log[i].exit # "running"
    BY <1>1 DEF Pending
  <2> QED BY <1>1, <2>1 DEF FailShell
<1>2. CASE Pending(log)
  <2> DEFINE newest == [log[Len(log)] EXCEPT !.exit = "failed"]
  <2>1. Len(log) \in 1 .. Len(log) /\ log[Len(log)] \in LogEntries
    BY <1>2 DEF Pending
  <2>2. newest.exit = "failed" /\ newest.cmd = log[Len(log)].cmd
        /\ newest.entry = log[Len(log)].entry
    BY <2>1 DEF LogEntries
  <2>3. FailShell(log) = [log EXCEPT ![Len(log)] = newest]
    BY <1>2, <2>1 DEF FailShell
  <2>4. log[Len(log)].exit = "running"
    BY <1>2 DEF Pending
  <2> HIDE DEF newest
  <2> QED BY <2>1, <2>2, <2>3, <2>4
<1> QED BY <1>1, <1>2

LEMMA FinishedLog ==
  ASSUME NEW log \in Seq(LogEntries), NEW outcome \in LogEntries
  PROVE  /\ Len(FinishShell(log, outcome)) = Len(log)
         /\ \A i \in 1 .. Len(log) :
              IF i = Len(log) /\ log[i].exit = "running"
              THEN FinishShell(log, outcome)[i] = outcome
              ELSE FinishShell(log, outcome)[i] = log[i]
<1>1. CASE ~Pending(log)
  <2>1. \A i \in 1 .. Len(log) : i = Len(log) => log[i].exit # "running"
    BY <1>1 DEF Pending
  <2> QED BY <1>1, <2>1 DEF FinishShell
<1>2. CASE Pending(log)
  BY <1>2 DEF FinishShell, Pending
<1> QED BY <1>1, <1>2

LEMMA ReportedIsEntry == TypeInv /\ cmds # 0 => Reported \in LogEntries
BY DEF TypeInv, TypeOK, Reported, LogEntries, Legs, Commands

LEMMA AppendedLog ==
  ASSUME NEW log \in Seq(LogEntries), NEW e
  PROVE  /\ Len(Append(log, e)) = Len(log) + 1
         /\ \A i \in 1 .. Len(log) : Append(log, e)[i] = log[i]
         /\ Append(log, e)[Len(log) + 1] = e
OBVIOUS

(* The transcript grows within one entry, and keeps what it told. *)
Grows ==
  /\ Len(shell') >= Len(shell)
  /\ \A i \in 1 .. Len(shell) :
       /\ shell'[i].cmd = shell[i].cmd
       /\ shell[i].exit # "running" => shell'[i] = shell[i]

LEMMA TranscriptGrows ==
  ASSUME TypeInv, ScreenInv,
         Keeps \/ Enters \/ Begins \/ Answers \/ Reports \/ Settles
  PROVE  Grows
<1>1. shell \in Seq(LogEntries) /\ Len(shell) \in Nat
  BY DEF TypeInv, TypeOK
<1>2. CASE Keeps
  BY <1>1, <1>2 DEF Keeps, screenVars, Grows
<1>3. CASE Enters
  BY <1>1, <1>3 DEF Enters, Grows
<1>4. CASE Begins \/ Answers
  BY <1>1, <1>4, AppendedLog DEF Begins, Answers, Grows
<1>5. CASE Reports
  <2>1. Reported \in LogEntries
    BY <1>5, ReportedIsEntry DEF Reports
  <2>2. \A i \in 1 .. Len(shell) : shell[i].exit = "running" => shell[i].cmd = Reported.cmd
    BY DEF ScreenInv, ScreenIsThisSessions, Reported
  <2> QED BY <1>1, <1>5, <2>1, <2>2, FinishedLog DEF Reports, Grows
<1>6. CASE Settles
  BY <1>1, <1>6, FailedLog DEF Settles, Grows
<1> QED BY <1>2, <1>3, <1>4, <1>5, <1>6

LEMMA ScreenInit == Init => ScreenInv
BY DEF Init, ScreenInv, ScreenIsThisSessions

LEMMA ScreenKept ==
  ASSUME TypeInv, ScreenInv,
         Keeps \/ Leaves \/ Enters \/ Begins \/ Answers \/ Reports \/ Settles
  PROVE  ScreenInv'
<1>1. shell \in Seq(LogEntries) /\ Len(shell) \in Nat
  BY DEF TypeInv, TypeOK
<1>2. CASE Keeps
  <2>1. composer' # Blank => composer'.entry = session.entry
    BY <1>2 DEF Keeps, ScreenInv, ScreenIsThisSessions
  <2> QED BY <1>2, <2>1 DEF Keeps, screenVars, ScreenInv, ScreenIsThisSessions, Open
<1>3. CASE Leaves \/ Enters
  BY <1>3 DEF Leaves, Enters, Idle, ScreenInv, ScreenIsThisSessions, Open
<1>4. CASE Begins \/ Answers
  <2>1. PICK exit \in {"running", "reported"} :
          /\ shell' = Append(shell, Echo(cmds + 1, exit))
          /\ exit = "running" => busy'
    BY <1>4 DEF Begins, Answers
  <2>2. Open /\ session' = session /\ ~busy /\ cmds' = cmds + 1
        /\ composer' \in {composer, Blank}
    BY <1>4 DEF Begins, Answers
  <2>3. \A i \in 1 .. Len(shell) : shell[i].entry = session.entry /\ shell[i].exit # "running"
    BY <2>2 DEF ScreenInv, ScreenIsThisSessions
  <2>4. /\ Len(shell') = Len(shell) + 1
        /\ \A i \in 1 .. Len(shell) : shell'[i] = shell[i]
        /\ shell'[Len(shell) + 1] = Echo(cmds + 1, exit)
    BY <1>1, <2>1, AppendedLog
  <2>5. ASSUME NEW i \in 1 .. Len(shell')
        PROVE  /\ shell'[i].entry = session.entry
               /\ shell'[i].exit = "running"
                    => busy' /\ i = Len(shell') /\ shell'[i].cmd = cmds'
    <3>1. CASE i \in 1 .. Len(shell)
      BY <2>3, <2>4, <3>1
    <3>2. CASE i = Len(shell) + 1
      BY <2>1, <2>2, <2>4, <3>2 DEF Echo
    <3> QED BY <1>1, <2>4, <3>1, <3>2
  <2> QED BY <2>2, <2>5 DEF ScreenInv, ScreenIsThisSessions, Open
<1>5. CASE Reports
  <2>1. Reported \in LogEntries
    BY <1>5, ReportedIsEntry DEF Reports
  <2>2. /\ Len(shell') = Len(shell)
        /\ \A i \in 1 .. Len(shell) : shell'[i] = Reported \/ shell'[i] = shell[i]
    BY <1>1, <1>5, <2>1, FinishedLog DEF Reports
  <2>3. UNCHANGED <<session, busy, cmds, composer>>
    BY <1>5 DEF Reports
  <2> QED BY <2>2, <2>3 DEF ScreenInv, ScreenIsThisSessions, Open, Reported
<1>6. CASE Settles
  <2>1. /\ Len(shell') = Len(shell)
        /\ \A i \in 1 .. Len(shell) :
              /\ shell'[i].entry = shell[i].entry
              /\ i # Len(shell) => shell'[i] = shell[i]
              /\ i = Len(shell) => shell'[i].exit # "running"
    BY <1>1, <1>6, FailedLog DEF Settles
  <2>2. \A i \in 1 .. Len(shell) : shell'[i].exit # "running"
    BY <2>1 DEF ScreenInv, ScreenIsThisSessions
  <2>3. UNCHANGED <<session, cmds, composer>>
    BY <1>6 DEF Settles
  <2> QED BY <2>1, <2>2, <2>3 DEF ScreenInv, ScreenIsThisSessions, Open
<1> QED BY <1>2, <1>3, <1>4, <1>5, <1>6

ConsoleInv == TypeInv /\ FlightInv /\ IdentityInv /\ ScreenInv

LEMMA ConsoleInvariant == Spec => []ConsoleInv
<1>1. TypeInv /\ FlightInv /\ IdentityInv /\ ScreenInv /\ [Next]_vars => ScreenInv'
  BY ScreenSteps, ScreenKept
<1>2. TypeInv /\ FlightInv /\ IdentityInv /\ ScreenInv => ConsoleInv
  BY DEF ConsoleInv
<1> QED
  BY <1>1, <1>2, FlightInvariant, IdentityInvariant, ScreenInit, PTL DEF Spec

(* What the screen holds is the open session's, text being typed included, *)
(* and only the newest line can be pending, while the console is busy with *)
(* it: a hop shows nothing of the agent it left and leaves nobody waiting. *)
THEOREM ScreenIsTheSessions == Spec => []ScreenIsThisSessions
<1>1. ConsoleInv => ScreenIsThisSessions
  BY DEF ConsoleInv, ScreenInv
<1> QED BY <1>1, ConsoleInvariant, PTL

(* An outcome once shown is never rewritten: not by a late one, not by a   *)
(* worker that dies after it reported, not by a stop.                      *)
THEOREM OutcomesStand == Spec => OutcomesAreFinal
<1> DEFINE Final == entries' = entries => Grows
<1>1. ConsoleInv /\ [Next]_vars => [Final]_vars
  <2> SUFFICES ASSUME ConsoleInv, [Next]_vars, entries' = entries PROVE Grows
    OBVIOUS
  <2>1. ~Leaves
    BY DEF Leaves
  <2> QED BY <2>1, ScreenSteps, TranscriptGrows DEF ConsoleInv
<1>2. (Spec => [][Final]_vars) => (Spec => OutcomesAreFinal)
  BY DEF OutcomesAreFinal, Grows
<1> HIDE DEF Final
<1>3. Spec => [][Final]_vars
  BY <1>1, ConsoleInvariant, PTL DEF Spec
<1> QED BY <1>2, <1>3

(* Nothing but a panic on the worker's thread takes the terminal from the  *)
(* console before it is done with it.                                      *)
THEOREM OnlyAPanicTakesTheTerminal ==
  ASSUME ~WorkerMayPanic
  PROVE  Spec => []TerminalHeldUntilExit
<1>1. Init => TerminalHeldUntilExit
  BY DEF Init, TerminalHeldUntilExit
<1>2. TerminalHeldUntilExit /\ [Next]_vars => TerminalHeldUntilExit'
  <2> SUFFICES ASSUME TerminalHeldUntilExit, [Next]_vars, loop' # "exited"
               PROVE  loop # "exited" /\ raw' = raw
    BY DEF TerminalHeldUntilExit
  <2>1. CASE UNCHANGED vars \/ Terminated
    BY <2>1 DEF Terminated, vars
  <2>2. CASE QuietKey
    BY <2>2, QuietKeys
  <2>3. ASSUME Enter, loop \in {"start", "select"} PROVE loop # "exited" /\ raw' = raw
    BY <2>3 DEF Enter
  <2>4. CASE KeyEnterAgent
    BY <2>4, <2>3 DEF KeyEnterAgent, AtKey
  <2>5. CASE KeyStop \/ SubmitAsset \/ SubmitSmoke \/ SubmitScript
    BY <2>5 DEF KeyStop, SubmitAsset, SubmitSmoke, SubmitScript, Submit, AtKey
  <2>6. CASE BrokerAnswers
    BY <2>6 DEF BrokerAnswers, EnterGranted, EnterDenied, ScriptSpawned, ScriptDenied,
                RecordAnswered
  <2>7. ASSUME NEW c \in Commands, WorkerStep(c) \/ WorkerPanics(c)
        PROVE  loop # "exited" /\ raw' = raw
    BY <2>7 DEF WorkerStep, CallStarts, CallReturns, ScriptEnds, WorkerReturns,
                WorkerPanics, WorkerOnly
  <2>8. CASE ReceiveOutcome \/ FinishTurn \/ DrawFrame \/ JoinStopped
    BY <2>8 DEF ReceiveOutcome, FinishTurn, DrawFrame, JoinStopped
  <2>9. CASE QuitDrawn \/ TerminalFails
    BY <2>9 DEF QuitDrawn, TerminalFails, Leave
  <2>10. CASE Start
    BY <2>10, <2>3 DEF Start
  <2> QED
    BY <2>1, <2>2, <2>4, <2>5, <2>6, <2>7, <2>8, <2>9, <2>10 DEF Next, Key, QuietKey, LoopStep
<1> QED BY <1>1, <1>2, PTL DEF Spec

-------------------------------------------------------------------------------
(* The console is a SerialShell.  The six kinds of step are its Close,     *)
(* Enter, Begin, Answer, Report and Settle; Call and CallEnds are steps of *)
(* the worker, which acts for the open session and for nobody else; every  *)
(* other step is a stutter.                                                *)

Calling == {leg[c] : c \in {d \in Commands : worker[d] = "calling"}}
Current == IF busy THEN cmds ELSE 0

LEMMA NobodyCalls == ASSUME \A c \in Commands : ~Alive(c) PROVE Calling = {}
BY DEF Calling, Alive

LEMMA IdleCallsNobody ==
  ASSUME FlightInv, ~busy PROVE \A c \in Commands : ~Alive(c)
BY DEF FlightInv, Commands

(* The one worker there may be acts for the session on the screen. *)
LEMMA WorkerActsForSession ==
  ASSUME TypeInv, FlightInv, IdentityInv, NEW c \in Commands, Alive(c)
  PROVE  /\ busy /\ cmds # 0 /\ leg[c] = session
         /\ \A d \in Commands : Alive(d) => d = c
<1>1. running = c /\ c # 0
  BY DEF FlightInv, Commands
<1>2. loop # "exited"
  BY <1>1 DEF FlightInv
<1> QED BY <1>1, <1>2 DEF FlightInv, IdentityInv

LEMMA ConsoleInitRefines == Init => Promise!Init
<1> SUFFICES ASSUME Init PROVE Promise!Init
  OBVIOUS
<1>1. Calling = {}
  BY NobodyCalls DEF Init, Alive
<1> QED BY <1>1 DEF Init, Promise!Init, Calling

LEMMA CloseRefines ==
  ASSUME FlightInv, Leaves PROVE Promise!Close
<1>1. Calling = {} /\ Calling' = {} /\ Current = 0 /\ Current' = 0
  <2>1. \A c \in Commands : ~Alive(c)
    BY IdleCallsNobody DEF Leaves, Idle
  <2> QED BY <2>1, NobodyCalls DEF Leaves, Idle, Calling, Current
<1> QED BY <1>1 DEF Leaves, Idle, Promise!Close, Calling, Current

LEMMA EnterRefines == ASSUME Enters PROVE Promise!Enter
BY DEF Enters, Idle, Promise!Enter, Calling, Current

LEMMA BeginRefines ==
  ASSUME TypeInv, Begins \/ Answers PROVE Promise!Begin \/ Promise!Answer
<1>1. Calling' = Calling /\ session # NoSession /\ Current = 0 /\ cmds + 1 # 0
  BY DEF Begins, Answers, Calling, Current, Open, NoSession, TypeInv, TypeOK
<1>2. CASE Begins
  <2>1. Current' = cmds + 1
    BY <1>2 DEF Begins, Current
  <2>2. Promise!Begin
    BY <1>1, <1>2, <2>1 DEF Begins, Echo, Promise!Begin, Calling, Current
  <2> QED BY <2>2
<1>3. CASE Answers
  <2>1. Current' = 0
    BY <1>3 DEF Answers, Current
  <2>2. Promise!Answer
    BY <1>1, <1>3, <2>1 DEF Answers, Echo, Promise!Answer, Calling, Current
  <2> QED BY <2>2
<1> QED BY <1>2, <1>3

(* The outcome is that of the entry it is written to. *)
LEMMA ReportRefines ==
  ASSUME TypeInv, ScreenInv, Reports PROVE Promise!Report \/ UNCHANGED Promise!vars
<1>1. UNCHANGED <<session, cmds, busy, worker, leg>> /\ busy /\ cmds # 0
  BY DEF Reports
<1>2. Calling' = Calling /\ Current' = Current /\ Current # 0
  BY <1>1 DEF Calling, Current
<1>3. CASE ~Pending(shell)
  <2>1. shell' = shell
    BY <1>3 DEF Reports, FinishShell
  <2> QED BY <1>1, <1>2, <2>1 DEF Promise!vars, Calling, Current
<1>4. CASE Pending(shell)
  <2> DEFINE newest == shell[Len(shell)]
  <2>1. Len(shell) \in 1 .. Len(shell) /\ newest \in LogEntries /\ newest.exit = "running"
    BY <1>4 DEF Pending, TypeInv, TypeOK
  <2>2. newest.cmd = cmds /\ newest.entry = session.entry
    BY <2>1 DEF ScreenInv, ScreenIsThisSessions
  <2>3. newest = [cmd |-> newest.cmd, entry |-> newest.entry, exit |-> newest.exit]
    BY <2>1 DEF LogEntries
  <2>4. [newest EXCEPT !.exit = "reported"] = Reported
    BY <2>2, <2>3 DEF Reported
  <2>5. shell' = [shell EXCEPT ![Len(shell)] = [newest EXCEPT !.exit = "reported"]]
    BY <1>4, <2>4 DEF Reports, FinishShell
  <2>6. Promise!Report
    BY <1>1, <1>2, <2>1, <2>5 DEF Promise!Report, Calling, Current
  <2> QED BY <2>6
<1> QED BY <1>3, <1>4

LEMMA SettleRefines == ASSUME TypeInv, Settles PROVE Promise!Settle
<1>1. UNCHANGED <<session, cmds, worker, leg>> /\ busy /\ ~busy' /\ cmds # 0
  BY DEF Settles
<1>2. Calling = {} /\ Calling' = {} /\ Current # 0 /\ Current' = 0
  BY <1>1, NobodyCalls DEF Settles, Calling, Current
<1> DEFINE newest == shell[Len(shell)]
           final == IF newest.exit = "running" THEN "failed" ELSE newest.exit
<1>3. shell \in Seq(LogEntries) /\ Len(shell) \in Nat
  BY DEF TypeInv, TypeOK
<1>4. shell' = [shell EXCEPT ![Len(shell)].exit = final]
  <2>1. CASE shell = <<>>
    BY <1>3, <2>1 DEF Settles, FailShell, Pending
  <2>2. CASE shell # <<>> /\ newest.exit # "running"
    <3>1. newest \in LogEntries
      BY <1>3, <2>2
    <3>2. [newest EXCEPT !.exit = newest.exit] = newest
      BY <3>1 DEF LogEntries
    <3>3. [shell EXCEPT ![Len(shell)] = newest] = shell
      BY <1>3
    <3>4. shell' = shell
      BY <2>2 DEF Settles, FailShell, Pending
    <3>5. final = newest.exit
      BY <2>2
    <3>6. [shell EXCEPT ![Len(shell)].exit = newest.exit]
            = [shell EXCEPT ![Len(shell)] = [newest EXCEPT !.exit = newest.exit]]
      BY <1>3
    <3> QED BY <3>2, <3>3, <3>4, <3>5, <3>6
  <2>3. CASE Pending(shell)
    BY <2>3 DEF Settles, FailShell, Pending
  <2> QED BY <2>1, <2>2, <2>3 DEF Pending
<1> QED BY <1>1, <1>2, <1>4 DEF Promise!Settle, Calling, Current

(* Who calls: only the worker's own steps and the spawning of one matter.  *)
LEMMA WorkersMove ==
  ASSUME [Next]_vars, ~(UNCHANGED <<worker, leg>>)
  PROVE  ScriptSpawned \/ \E c \in Commands : WorkerStep(c) \/ WorkerPanics(c)
<1>1. CASE UNCHANGED vars \/ Terminated
  BY <1>1 DEF Terminated, vars, turnVars
<1>2. ASSUME Key PROVE UNCHANGED <<worker, leg>>
  <2>1. ASSUME Enter PROVE UNCHANGED <<worker, leg>>
    BY <2>1 DEF Enter, turnVars
  <2>2. CASE QuietKey
    BY <2>2, QuietKeys DEF turnVars
  <2> QED
    BY <1>2, <2>1, <2>2 DEF Key, QuietKey, KeyEnterAgent, KeyStop, SubmitAsset, SubmitSmoke,
                            SubmitScript, turnVars
<1>3. ASSUME BrokerAnswers, ~ScriptSpawned PROVE UNCHANGED <<worker, leg>>
  BY <1>3 DEF BrokerAnswers, EnterGranted, EnterDenied, ScriptDenied, RecordAnswered,
              turnVars
<1>4. ASSUME ReceiveOutcome \/ FinishTurn \/ LoopStep \/ TerminalFails
      PROVE  UNCHANGED <<worker, leg>>
  <2>1. CASE ReceiveOutcome \/ FinishTurn
    BY <2>1 DEF ReceiveOutcome, FinishTurn
  <2>2. CASE LoopStep \/ TerminalFails
    BY <2>2 DEF LoopStep, TerminalFails, Start, Enter, DrawFrame, QuitDrawn, JoinStopped,
                Leave, turnVars
  <2> QED BY <1>4, <2>1, <2>2
<1> QED BY <1>1, <1>2, <1>3, <1>4 DEF Next

LEMMA WorkerRefines ==
  ASSUME TypeInv, FlightInv, IdentityInv, Keeps,
         NEW c \in Commands, WorkerStep(c) \/ WorkerPanics(c)
  PROVE  [Promise!Next]_(Promise!vars)
<1>1. Alive(c)
  BY DEF WorkerStep, CallStarts, CallReturns, ScriptEnds, WorkerReturns, WorkerPanics,
         Alive
<1>2. /\ busy /\ cmds # 0 /\ leg[c] = session
      /\ \A d \in Commands : Alive(d) => d = c
  BY <1>1, WorkerActsForSession
<1>3. PICK state \in Workers \ {"none"} :
        /\ worker' = [worker EXCEPT ![c] = state]
        /\ worker[c] = "calling" => state # "calling"
  BY DEF WorkerStep, CallStarts, CallReturns, ScriptEnds, WorkerReturns, WorkerPanics,
         Workers
<1>4. worker'[c] = state /\ \A d \in Commands \ {c} : worker'[d] = worker[d]
  BY <1>3 DEF TypeInv, TypeOK
<1>5. leg' = leg
  BY DEF WorkerStep, CallStarts, CallReturns, ScriptEnds, WorkerReturns, WorkerPanics,
         WorkerOnly
<1>6. \A d \in Commands \ {c} : worker[d] # "calling" /\ worker'[d] # "calling"
  BY <1>2, <1>4 DEF Alive
<1>7. Calling = IF worker[c] = "calling" THEN {session} ELSE {}
  BY <1>2, <1>6 DEF Calling
<1>8. Calling' = IF state = "calling" THEN {session} ELSE {}
  BY <1>2, <1>4, <1>5, <1>6 DEF Calling
<1>9. UNCHANGED <<session, shell, cmds>> /\ Current' = Current /\ Current # 0
  BY <1>2 DEF Keeps, screenVars, Current
<1>10. CASE worker[c] = "calling"
  <2>1. Calling # {} /\ Calling' = {}
    BY <1>3, <1>7, <1>8, <1>10
  <2>2. Promise!CallEnds
    BY <1>9, <2>1 DEF Promise!CallEnds, Calling, Current
  <2> QED BY <2>2 DEF Promise!Next
<1>11. CASE worker[c] # "calling" /\ state = "calling"
  <2>1. Calling = {} /\ Calling' = {session}
    BY <1>7, <1>8, <1>11
  <2>2. Promise!Call
    BY <1>9, <2>1 DEF Promise!Call, Calling, Current
  <2> QED BY <2>2 DEF Promise!Next
<1>12. CASE worker[c] # "calling" /\ state # "calling"
  <2>1. Calling' = Calling
    BY <1>7, <1>8, <1>12
  <2> QED BY <1>9, <2>1 DEF Promise!vars, Calling, Current
<1> QED BY <1>10, <1>11, <1>12

(* A worker that has just been spawned has called nobody yet. *)
LEMMA SpawnRefines ==
  ASSUME TypeInv, FlightInv, Keeps, ScriptSpawned PROVE UNCHANGED Promise!vars
<1>1. running = 0 /\ cmds \in Commands
  BY DEF ScriptSpawned, FlightInv
<1>2. \A c \in Commands : ~Alive(c)
  BY <1>1 DEF FlightInv, Commands
<1>3. \A c \in Commands : worker'[c] # "calling"
  BY <1>2 DEF ScriptSpawned, TypeInv, TypeOK, Alive
<1>4. Calling = {} /\ Calling' = {}
  BY <1>2, <1>3, NobodyCalls DEF Calling
<1> QED BY <1>4 DEF Keeps, screenVars, Promise!vars, Calling

LEMMA ConsoleStepRefines ==
  ASSUME ConsoleInv, [Next]_vars PROVE [Promise!Next]_(Promise!vars)
<1>1. CASE Leaves \/ Enters
  BY <1>1, CloseRefines, EnterRefines DEF ConsoleInv, Promise!Next
<1>2. CASE Begins \/ Answers
  BY <1>2, BeginRefines DEF ConsoleInv, Promise!Next
<1>3. CASE Reports \/ Settles
  BY <1>3, ReportRefines, SettleRefines DEF ConsoleInv, Promise!Next
<1>4. CASE Keeps
  <2>1. CASE UNCHANGED <<worker, leg>>
    BY <1>4, <2>1 DEF Keeps, screenVars, Promise!vars
  <2>2. CASE ~(UNCHANGED <<worker, leg>>)
    BY <1>4, <2>2, WorkersMove, WorkerRefines, SpawnRefines DEF ConsoleInv
  <2> QED BY <2>1, <2>2
<1> QED BY <1>1, <1>2, <1>3, <1>4, ScreenSteps DEF ConsoleInv

(* Threads, keys, stops and panics included, the console is a serial shell *)
(* that never acts for anyone but the session on the screen, for every     *)
(* catalog, profile document, number of commands and of calls.             *)
THEOREM PromiseKept == Spec => KeepsPromise
<1>1. ConsoleInv /\ [Next]_vars => [Promise!Next]_(Promise!vars)
  BY ConsoleStepRefines
<1> QED
  BY <1>1, ConsoleInvariant, ConsoleInitRefines, PTL DEF Spec, KeepsPromise, Promise!Spec
===============================================================================
