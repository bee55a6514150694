------------------------------- MODULE ModelTurn ------------------------------
(***************************************************************************)
(* The library's model turns: a prompt opens a turn of the transcript and  *)
(* a fresh broker leg, a blocking worker runs the prompt session, and the  *)
(* recorders around it send what it does over one ordered channel; the     *)
(* loop folds that into the transcript, and takes the model's history back *)
(* when it joins the worker.  Shell commands and hops share the busy flag, *)
(* the stop flag, the history and the one RunningTurn with it.             *)
(*                                                                         *)
(* No key of the console submits a prompt any more: SubmitTurn is          *)
(* App::submit_turn and Action::Turn as the library offers them.  Keys,    *)
(* panes and quitting are in Console.                                      *)
(***************************************************************************)
EXTENDS FiniteSets, Transcript

CONSTANTS
  MaxTasks,    (* bound: turns and shell commands accepted                  *)
  MaxEntries,  (* bound: hops                                               *)
  MaxOrdinals, (* a session's scripts and calls (steps and call budget)     *)
  Keep,        (* history limit: exchanges the model is shown again         *)
  MayRefuse,   (* whether a leg or the model client may be refused          *)
  MayPanic     (* whether a worker may die                                  *)

ASSUME ModelTurnAssumption ==
  /\ MaxTasks \in Nat /\ MaxEntries \in Nat /\ MaxOrdinals \in Nat /\ Keep \in Nat
  /\ MayRefuse \in BOOLEAN /\ MayPanic \in BOOLEAN

VARIABLES
  loop,       (* "select", or the await it is in: "leg" or "hop"            *)
  busy,       (* app.busy                                                   *)
  session,    (* the entry whose agent is open, 0 if app.session is None    *)
  entries,    (* hops so far                                                *)
  transcript, (* app.transcript                                             *)
  history,    (* the loop's model history: tasks, oldest first              *)
  running,    (* the RunningTurn's task, 0 if None                          *)
  tasks,      (* tasks accepted; the latest is number tasks                 *)
  kind,       (* per task: "turn" or "shell"                                *)
  phase,      (* per task: its worker, see Phases                           *)
  held,       (* per task: the history moved into it                        *)
  mail,       (* per task: its channel                                      *)
  ordinal,    (* per task: Sequence, the next ordinal                       *)
  open,       (* per task: calls dispatched and not answered                *)
  requested,  (* StopFlag.requested                                         *)
  handle,     (* StopFlag.broker: the task whose leg it cancels, 0 if none  *)
  fired,      (* tasks whose CancelSignal has fired                         *)
  entered,    (* history variable: the entry each task was submitted under  *)
  ledger,     (* history variable: the scripts each task really ran, their  *)
              (* calls in the order they were answered                      *)
  outcome,    (* history variable: how each task's session ended            *)
  asked       (* history variable: tasks in flight when a stop was asked    *)

appVars  == <<busy, session, entries, transcript, history, running>>
taskVars == <<tasks, kind, entered>>
workVars == <<phase, held, mail, ordinal, open, ledger, outcome>>
stopVars == <<requested, handle, fired, asked>>
vars == <<loop, appVars, taskVars, workVars, stopVars>>

-------------------------------------------------------------------------------
Tasks == 1 .. MaxTasks
Phases == {"none", "thinking", "scripting", "reported", "returned", "dead"}
Alive(t) == phase[t] \in {"thinking", "scripting"}
Joinable(t) == phase[t] \in {"returned", "dead"}

(* History::record, trimmed to the newest Keep exchanges. *)
Remember(recalled, t) ==
  LET all == Append(recalled, t)
  IN  SubSeq(all, 1 + IF Len(all) > Keep THEN Len(all) - Keep ELSE 0, Len(all))

StopRequest ==
  /\ requested' = TRUE
  /\ fired' = fired \cup ({handle} \ {0})
  /\ UNCHANGED handle

StopReset ==
  /\ requested' = FALSE
  /\ handle' = 0
  /\ UNCHANGED <<fired, asked>>

(* Fault: binds the fresh leg and leaves an earlier request standing. *)
StopBindOnly(t) ==
  /\ handle' = t
  /\ UNCHANGED <<requested, fired, asked>>

(* stop.reset(), then stop.bind_broker with a fresh cancel pair. *)
StopBind(t) ==
  /\ requested' = FALSE
  /\ handle' = t
  /\ UNCHANGED <<fired, asked>>

Init ==
  /\ loop = "select" /\ busy = FALSE /\ session = 0 /\ entries = 0
  /\ transcript = <<>> /\ history = <<>> /\ running = 0
  /\ tasks = 0
  /\ kind = [t \in Tasks |-> "turn"] /\ entered = [t \in Tasks |-> 0]
  /\ phase = [t \in Tasks |-> "none"] /\ held = [t \in Tasks |-> <<>>]
  /\ mail = [t \in Tasks |-> <<>>] /\ ordinal = [t \in Tasks |-> 0]
  /\ open = [t \in Tasks |-> {}] /\ ledger = [t \in Tasks |-> <<>>]
  /\ outcome = [t \in Tasks |-> "running"]
  /\ requested = FALSE /\ handle = 0 /\ fired = {} /\ asked = {}

-------------------------------------------------------------------------------
(* The loop, outside a running task.                                       *)

(* clear_agent_context before the leg is awaited, app.enter after it. *)
Hop ==
  /\ loop = "select" /\ ~busy /\ entries < MaxEntries
  /\ loop' = "hop"
  /\ entries' = entries + 1
  /\ session' = 0
  /\ transcript' = <<>>
  /\ history' = <<>>
  /\ UNCHANGED <<busy, running, taskVars, workVars, stopVars>>

HopGranted ==
  /\ loop = "hop"
  /\ loop' = "select"
  /\ session' = entries
  /\ transcript' = <<>>
  /\ UNCHANGED <<busy, entries, history, running, taskVars, workVars, stopVars>>

HopDenied ==
  /\ loop = "hop" /\ MayRefuse
  /\ loop' = "select"
  /\ UNCHANGED <<appVars, taskVars, workVars, stopVars>>

Submit(what) ==
  /\ loop = "select" /\ ~busy /\ session # 0 /\ tasks < MaxTasks
  /\ loop' = "leg"
  /\ busy' = TRUE
  /\ tasks' = tasks + 1
  /\ kind' = [kind EXCEPT ![tasks + 1] = what]
  /\ entered' = [entered EXCEPT ![tasks + 1] = session]
  /\ UNCHANGED <<session, entries, history, running, workVars, stopVars>>

SubmitTurn ==
  /\ Submit("turn")
  /\ transcript' = OpenTurn(transcript, tasks + 1)

SubmitShell ==
  /\ Submit("shell")
  /\ UNCHANGED transcript

(* The leg is granted: the stop flag is bound to it, the history moves     *)
(* into the worker, and `running` is overwritten whatever it held: the     *)
(* receiver and the join handle of an unjoined task are dropped.           *)
Spawned ==
  /\ loop = "leg"
  /\ loop' = "select"
  /\ running' = tasks
  /\ phase' = [phase EXCEPT ![tasks] = "thinking"]
  /\ held' = [held EXCEPT ![tasks] = history]
  /\ history' = <<>>
  /\ StopBind(tasks)
  /\ UNCHANGED <<busy, session, entries, transcript, taskVars, mail, ordinal,
                 open, ledger, outcome>>

(* Fault: raises the report and leaves the turn open. *)
TurnRefusedStaysOpen ==
  /\ loop = "leg" /\ MayRefuse /\ kind[tasks] = "turn"
  /\ loop' = "select"
  /\ outcome' = [outcome EXCEPT ![tasks] = "failed"]
  /\ UNCHANGED <<appVars, taskVars, stopVars, phase, held, mail, ordinal, open, ledger>>

(* refuse_turn: the leg, its empty surface or the model client refused.    *)
(* The error is folded in as the session's end, which frees the console.   *)
TurnRefused ==
  /\ loop = "leg" /\ MayRefuse /\ kind[tasks] = "turn"
  /\ loop' = "select"
  /\ outcome' = [outcome EXCEPT ![tasks] = "failed"]
  /\ transcript' = Absorb(transcript, Finished("failed"))
  /\ busy' = FALSE
  /\ UNCHANGED <<session, entries, history, running, taskVars, stopVars, phase,
                 held, mail, ordinal, open, ledger>>

ShellRefused ==
  /\ loop = "leg" /\ MayRefuse /\ kind[tasks] = "shell"
  /\ loop' = "select"
  /\ busy' = FALSE
  /\ UNCHANGED <<session, entries, transcript, history, running, taskVars,
                 workVars, stopVars>>

(* Esc: app.request_stop marks the turn that is open, then stop.request. *)
KeyStop ==
  /\ loop = "select" /\ busy
  /\ transcript' = MarkStop(transcript)
  /\ StopRequest
  /\ asked' = asked \cup ({running} \ {0})
  /\ UNCHANGED <<loop, busy, session, entries, history, running, taskVars, workVars>>

-------------------------------------------------------------------------------
(* The loop, on the running task's channel and handle.                     *)

(* The session's last event frees the console before the task is joined. *)
Receive ==
  /\ loop = "select" /\ running # 0 /\ mail[running] # <<>>
  /\ transcript' = Absorb(transcript, Head(mail[running]))
  /\ busy' = (busy /\ Head(mail[running]).kind # "finished")
  /\ mail' = [mail EXCEPT ![running] = Tail(@)]
  /\ UNCHANGED <<loop, session, entries, history, running, taskVars, stopVars,
                 phase, held, ordinal, open, ledger, outcome>>

(* finish_turn and settle_turn: a returned history replaces the loop's, a  *)
(* dead worker's is lost, and a turn re-marks the replay window.           *)
Settle ==
  /\ loop = "select" /\ running # 0 /\ mail[running] = <<>> /\ Joinable(running)
  /\ history' = IF phase[running] = "returned" THEN held[running] ELSE history
  /\ transcript' = IF kind[running] = "turn"
                   THEN MarkReplayWindow(transcript, Len(history'))
                   ELSE transcript
  /\ StopReset
  /\ busy' = FALSE
  /\ running' = 0
  /\ UNCHANGED <<loop, session, entries, taskVars, workVars>>

-------------------------------------------------------------------------------
(* The worker.  The recorders number a script when it starts and a call    *)
(* when it is dispatched, and report a call when it is answered; calls of  *)
(* one script overlap as the stages of a pipeline, and are all answered    *)
(* before the interpreter reports.                                         *)

WorkerOnly == UNCHANGED <<loop, appVars, taskVars, stopVars>>
Emit(t, event) ==
  mail' = IF running = t THEN [mail EXCEPT ![t] = Append(@, event)] ELSE mail

(* The prompt loop looks at the shared request before each step. *)
ScriptStarts(t) ==
  /\ kind[t] = "turn" /\ phase[t] = "thinking"
  /\ ~requested /\ ordinal[t] < MaxOrdinals
  /\ phase' = [phase EXCEPT ![t] = "scripting"]
  /\ ordinal' = [ordinal EXCEPT ![t] = @ + 1]
  /\ ledger' = [ledger EXCEPT ![t] = Append(@, Node(ordinal[t], <<>>, FALSE))]
  /\ Emit(t, Started(ordinal[t]))
  /\ WorkerOnly /\ UNCHANGED <<held, open, outcome>>

(* The interpreter looks at its leg's cancel signal before each call. *)
CallStarts(t) ==
  /\ phase[t] = "scripting"
  /\ t \notin fired /\ ordinal[t] < MaxOrdinals
  /\ open' = [open EXCEPT ![t] = @ \cup {ordinal[t]}]
  /\ ordinal' = [ordinal EXCEPT ![t] = @ + 1]
  /\ WorkerOnly /\ UNCHANGED <<phase, held, mail, ledger, outcome>>

(* RecordingInvoker::invoke numbers a call before it is sent and reports it *)
(* once it is answered, whatever was sent and answered in between.         *)
CallReturns(t) ==
  \E n \in open[t] :
    /\ open' = [open EXCEPT ![t] = @ \ {n}]
    /\ ledger' = [ledger EXCEPT ![t][Len(ledger[t])].calls = Append(@, n)]
    /\ Emit(t, Called(n))
    /\ WorkerOnly /\ UNCHANGED <<phase, held, ordinal, outcome>>

ScriptFinishes(t) ==
  /\ phase[t] = "scripting" /\ open[t] = {}
  /\ phase' = [phase EXCEPT ![t] = "thinking"]
  /\ ledger' = [ledger EXCEPT ![t][Len(ledger[t])].done = TRUE]
  /\ Emit(t, ScriptOver(ledger[t][Len(ledger[t])].seq))
  /\ WorkerOnly /\ UNCHANGED <<held, ordinal, open, outcome>>

(* Answered, or failed, cancelled or out of steps: recorded either way. *)
TurnReports(t) ==
  /\ kind[t] = "turn" /\ phase[t] = "thinking"
  /\ phase' = [phase EXCEPT ![t] = "reported"]
  /\ held' = [held EXCEPT ![t] = Remember(@, t)]
  /\ \E status \in {"answered", "failed"} :
       /\ outcome' = [outcome EXCEPT ![t] = status]
       /\ Emit(t, Finished(status))
  /\ WorkerOnly /\ UNCHANGED <<ordinal, open, ledger>>

(* The shell's worker records nothing but its outcome. *)
ShellReports(t) ==
  /\ kind[t] = "shell" /\ phase[t] = "thinking"
  /\ phase' = [phase EXCEPT ![t] = "reported"]
  /\ Emit(t, ShellFinished)
  /\ WorkerOnly /\ UNCHANGED <<held, ordinal, open, ledger, outcome>>

WorkerReturns(t) ==
  /\ phase[t] = "reported"
  /\ phase' = [phase EXCEPT ![t] = "returned"]
  /\ WorkerOnly /\ UNCHANGED <<held, mail, ordinal, open, ledger, outcome>>

(* spawn_blocking turns a panic into SessionError::Task, an error that the *)
(* spawned task returns and Settle finds.                                  *)
WorkerPanics(t) ==
  /\ MayPanic /\ Alive(t)
  /\ phase' = [phase EXCEPT ![t] = "dead"]
  /\ open' = [open EXCEPT ![t] = {}]
  /\ WorkerOnly /\ UNCHANGED <<held, mail, ordinal, ledger, outcome>>

-------------------------------------------------------------------------------
BrokerAnswers == HopGranted \/ HopDenied \/ Spawned \/ TurnRefused \/ ShellRefused
WorkerStep(t) ==
  \/ ScriptStarts(t) \/ CallStarts(t) \/ CallReturns(t) \/ ScriptFinishes(t)
  \/ TurnReports(t) \/ ShellReports(t) \/ WorkerReturns(t)

(* An idle loop waits for a key for as long as none comes. *)
Waiting == loop = "select" /\ ~busy /\ running = 0 /\ UNCHANGED vars

Next ==
  \/ Waiting
  \/ Hop \/ SubmitTurn \/ SubmitShell \/ KeyStop
  \/ BrokerAnswers
  \/ Receive \/ Settle
  \/ \E t \in Tasks : WorkerStep(t) \/ WorkerPanics(t)

(* As in Console: the broker answers, the worker is scheduled, and select! *)
(* polls its arms in random order, so a ready channel is read however many *)
(* keys arrive.                                                            *)
Fairness ==
  /\ WF_vars(BrokerAnswers)
  /\ \A t \in Tasks : WF_vars(WorkerStep(t))
  /\ SF_vars(Receive) /\ SF_vars(Settle)

Spec == Init /\ [][Next]_vars
FairSpec == Spec /\ Fairness
-------------------------------------------------------------------------------
(* Turn::absorb and Transcript::absorb guess the turn and the script from  *)
(* the order of events.  Once what is queued is folded in, every turn on   *)
(* screen has exactly the scripts and calls its worker ran, under the      *)
(* script that made them, and the outcome its session had, although dead   *)
(* workers leave turns open, refused turns never had one, and calls        *)
(* overlap.  Those of one script are in the order they were answered in;   *)
(* that is not the order ScriptNode documents: see CallsInDispatchOrder.   *)
Queue == IF running = 0 THEN <<>> ELSE mail[running]
SettledUpto[i \in 0 .. Len(Queue)] ==
  IF i = 0 THEN transcript ELSE Absorb(SettledUpto[i - 1], Queue[i])
Settled == SettledUpto[Len(Queue)]
NothingMisfiled ==
  \A i \in 1 .. Len(transcript) :
    LET turn == Settled[i]
    IN  /\ turn.scripts = ledger[turn.prompt]
        /\ turn.status = outcome[turn.prompt]

(* App::calls is a list the cursor indexes: while one conversation lasts   *)
(* it only grows at its end, so an index keeps naming the same call, as    *)
(* its comment says.  It can because calls are filed as they are answered: *)
(* with overlapping calls no list that shows a call once it is answered    *)
(* can both grow at its end only and be in the order of dispatch.          *)
CursorStable ==
  [][transcript' # <<>> =>
       /\ IsPrefix(Calls(transcript), Calls(transcript'))
       /\ \A target \in ToSet(Calls(transcript)) :
            CallAt(transcript', target) = CallAt(transcript, target)]_vars

(* A stop reaches the model loop and the broker leg of the task it was     *)
(* asked of and of no later one, although a task may be overtaken before   *)
(* settle_turn resets the flag.                                            *)
StopIsThisTasks ==
  \A t \in Tasks : Alive(t) =>
    /\ requested <=> t \in asked
    /\ t \in fired <=> t \in asked

(* ScriptNode::calls is documented as the calls made while the script ran, *)
(* in dispatch order: that of the ordinals they were given when they were  *)
(* dispatched.                                                             *)
CallsInDispatchOrder ==
  \A i \in DOMAIN transcript : \A s \in DOMAIN transcript[i].scripts :
    LET calls == transcript[i].scripts[s].calls
    IN  \A j, k \in DOMAIN calls : j < k => calls[j] < calls[k]

(* Busy, or with a turn on screen that runs and whose worker can still     *)
(* end it.                                                                 *)
TurnUnderWay ==
  \/ busy
  \/ \E i \in DOMAIN transcript :
       transcript[i].status = "running" /\ phase[transcript[i].prompt] # "dead"

(* Whatever is submitted, stopped, refused or dies, the console comes to   *)
(* be free with every turn it opened closed, unless its worker died.       *)
TurnsEnd == TurnUnderWay ~> ~TurnUnderWay

-------------------------------------------------------------------------------
Idle == loop = "select" /\ running = 0

(* The README says a fresh agent entry resets the model history: an open   *)
(* session's history holds that session's exchanges only.                  *)
HistoryIsThisAgents ==
  Idle /\ session # 0 => \A t \in ToSet(history) : entered[t] = session
===============================================================================
