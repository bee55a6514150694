------------------------------ MODULE Structured -------------------------------
(***************************************************************************)
(* `--structured`: lines on stdin, framed results on stdout.  The selected *)
(* agent is entered, then at most MaxCommands lines are dispatched one at  *)
(* a time through the dispatcher the interactive console uses, each under  *)
(* a deadline over opening its leg, draining its events and joining its    *)
(* task.  A line that misses it is cancelled, abandoned after a grace      *)
(* period, framed as `timeout`, and ends the session; its blocking worker  *)
(* cannot be aborted and may live on until the runtime gives it up.        *)
(*                                                                         *)
(* There is no clock: a timer is an action that may fire whenever the loop *)
(* awaits what it guards, and that fires eventually if it goes on awaiting.*)
(***************************************************************************)
EXTENDS Naturals, Sequences

CONSTANTS
  MaxCommands,    (* MAX_COMMANDS, 64 in the code                           *)
  MaxCalls,       (* a script's capability-call budget                      *)
  Smoke           (* --smoke-conversation                                   *)

ASSUME StructuredAssumption ==
  MaxCommands \in Nat \ {0} /\ MaxCalls \in Nat /\ Smoke \in BOOLEAN

VARIABLES
  pc,       (* where run_with_limits is, see Places                         *)
  n,        (* lines read                                                   *)
  before,   (* app.shell_history.len() when line n was read                 *)
  shell,    (* app.shell_history: each entry's exit code                    *)
  busy,     (* app.busy                                                     *)
  frames,   (* frames written so far; the greeting is line 0's              *)
  worker,   (* per line: its blocking worker                                *)
  result,   (* per line: how what it did really ended                       *)
  calls,    (* per line: capability calls its script has started            *)
  mail,     (* lines whose ShellFinished is queued and not received         *)
  handle,   (* StopFlag.broker: the line whose leg it cancels, or 0         *)
  fired     (* lines whose CancelSignal has fired                           *)

workerVars == <<worker, result, calls, mail>>
stopVars == <<handle, fired>>
vars == <<pc, n, before, shell, busy, frames, workerVars, stopVars>>

-------------------------------------------------------------------------------
Places == {"entering", "greeting", "reading", "opening", "recording",
           "completing", "cancelling", "reporting", "expired", "excess",
           "succeeded", "failed"}
Ended == pc \in {"succeeded", "failed"}
Commands == 1 .. MaxCommands
Exits == {"running", "zero", "nonzero"}
Workers == {"none", "boundary", "calling", "sent", "returned", "panicked", "killed"}

Alive(c) == worker[c] \in {"boundary", "calling", "sent"}
Done(c) == worker[c] \in {"returned", "panicked"}

Pending == shell # <<>> /\ shell[Len(shell)] = "running"
(* finish_shell and fail_shell: the pending echo, if any, gets its outcome. *)
Finish(exit) == IF Pending THEN [shell EXCEPT ![Len(shell)] = exit] ELSE shell

Frame(cmd, status) == [cmd |-> cmd, status |-> status]
Write(cmd, status) == frames' = Append(frames, Frame(cmd, status))

Init ==
  /\ pc = "entering" /\ n = 0 /\ before = 0 /\ shell = <<>> /\ busy = FALSE
  /\ frames = <<>>
  /\ worker = [c \in Commands |-> "none"]
  /\ result = [c \in Commands |-> "running"]
  /\ calls = [c \in Commands |-> 0]
  /\ mail = {} /\ handle = 0 /\ fired = {}

-------------------------------------------------------------------------------
(* Entering the agent: granted, or refused, or its own deadline passed. *)
EntryGranted ==
  /\ pc = "entering" /\ pc' = "greeting"
  /\ UNCHANGED <<n, before, shell, busy, frames, workerVars, stopVars>>

EntryFails ==
  /\ pc = "entering" /\ pc' = "failed"
  /\ UNCHANGED <<n, before, shell, busy, frames, workerVars, stopVars>>

Greet ==
  /\ pc = "greeting" /\ pc' = "reading"
  /\ Write(0, "ready")
  /\ UNCHANGED <<n, before, shell, busy, workerVars, stopVars>>

-------------------------------------------------------------------------------
(* Reading a line and dispatching it.                                      *)

(* Fault: runs one line more than the limit. *)
ReadOneMore ==
  /\ pc = "reading" /\ n <= MaxCommands
  /\ n' = n + 1
  /\ before' = Len(shell)

Read ==
  /\ pc = "reading" /\ n < MaxCommands
  /\ n' = n + 1
  /\ before' = Len(shell)

(* Unknown local commands, and anything while busy: only a notice. *)
ReadRefused ==
  /\ Read
  /\ pc' = "reporting"
  /\ UNCHANGED <<shell, busy, frames, workerVars, stopVars>>

(* :asset attach-base64, answered on the spot. *)
ReadAsset ==
  /\ Read /\ ~busy
  /\ pc' = "reporting"
  /\ \E exit \in {"zero", "nonzero"} :
       /\ shell' = Append(shell, exit)
       /\ result' = [result EXCEPT ![n + 1] = exit]
  /\ UNCHANGED <<busy, frames, worker, calls, mail, stopVars>>

(* :smoke record, echoed only when the broker has answered. *)
ReadSmoke ==
  /\ Smoke
  /\ Read /\ ~busy
  /\ pc' = "recording"
  /\ UNCHANGED <<shell, busy, frames, workerVars, stopVars>>

RecordAnswered ==
  /\ pc = "recording" /\ pc' = "reporting"
  /\ \E exit \in {"zero", "nonzero"} :
       /\ shell' = Append(shell, exit)
       /\ result' = [result EXCEPT ![n] = exit]
  /\ busy' = FALSE
  /\ UNCHANGED <<n, before, frames, worker, calls, mail, stopVars>>

ReadScript ==
  /\ Read /\ ~busy
  /\ pc' = "opening"
  /\ busy' = TRUE
  /\ shell' = Append(shell, "running")
  /\ UNCHANGED <<frames, workerVars, stopVars>>

LegGranted ==
  /\ pc = "opening" /\ pc' = "completing"
  /\ worker' = [worker EXCEPT ![n] = "boundary"]
  /\ handle' = n
  /\ UNCHANGED <<n, before, shell, busy, frames, result, calls, mail, fired>>

LegDenied ==
  /\ pc = "opening" /\ pc' = "reporting"
  /\ shell' = Finish("nonzero")
  /\ busy' = FALSE
  /\ UNCHANGED <<n, before, frames, workerVars, stopVars>>

(* End of input; a malformed, oversized or unterminated line; the session  *)
(* deadline; and the line after the last one that is run.                  *)
ReadEof ==
  /\ pc = "reading" /\ pc' = "succeeded"
  /\ UNCHANGED <<n, before, shell, busy, frames, workerVars, stopVars>>

ReadFails ==
  /\ pc = "reading" /\ pc' = "failed"
  /\ UNCHANGED <<n, before, shell, busy, frames, workerVars, stopVars>>

SessionTimesOut ==
  /\ pc = "reading" /\ pc' = "failed"
  /\ UNCHANGED <<n, before, shell, busy, frames, workerVars, stopVars>>

(* Fault: drops a submitted line beyond the limit and exits as at EOF. *)
ReadExcessDropped ==
  /\ pc = "reading" /\ n = MaxCommands
  /\ n' = n + 1
  /\ pc' = "succeeded"
  /\ UNCHANGED <<before, shell, busy, frames, workerVars, stopVars>>

ReadExcess ==
  /\ pc = "reading" /\ n = MaxCommands
  /\ n' = n + 1
  /\ pc' = "excess"
  /\ UNCHANGED <<before, shell, busy, frames, workerVars, stopVars>>

RefuseExcess ==
  /\ pc = "excess" /\ pc' = "failed"
  /\ Write(n, "error")
  /\ UNCHANGED <<n, before, shell, busy, workerVars, stopVars>>

-------------------------------------------------------------------------------
(* The worker, as in the interactive console.                              *)

WorkerOnly == UNCHANGED <<pc, n, before, shell, busy, frames, stopVars>>

CallStarts(c) ==
  /\ worker[c] = "boundary" /\ c \notin fired /\ calls[c] < MaxCalls
  /\ worker' = [worker EXCEPT ![c] = "calling"]
  /\ calls' = [calls EXCEPT ![c] = @ + 1]
  /\ UNCHANGED <<result, mail>> /\ WorkerOnly

CallReturns(c) ==
  /\ worker[c] = "calling"
  /\ worker' = [worker EXCEPT ![c] = "boundary"]
  /\ UNCHANGED <<result, calls, mail>> /\ WorkerOnly

ScriptEnds(c) ==
  /\ worker[c] = "boundary"
  /\ worker' = [worker EXCEPT ![c] = "sent"]
  /\ mail' = mail \cup {c}
  /\ \E exit \in {"zero", "nonzero"} : result' = [result EXCEPT ![c] = exit]
  /\ UNCHANGED calls /\ WorkerOnly

WorkerReturns(c) ==
  /\ worker[c] = "sent"
  /\ worker' = [worker EXCEPT ![c] = "returned"]
  /\ UNCHANGED <<result, calls, mail>> /\ WorkerOnly

(* spawn_blocking turns the panic into SessionError::Task, which complete  *)
(* finds when it joins the task.                                           *)
WorkerPanics(c) ==
  /\ worker[c] \in {"boundary", "calling"}
  /\ worker' = [worker EXCEPT ![c] = "panicked"]
  /\ UNCHANGED <<result, calls, mail>> /\ WorkerOnly

(* Fault: drops the runtime, which waits for its blocking threads. *)
RuntimeDropWaits ==
  /\ Ended
  /\ \A c \in Commands : ~Alive(c)
  /\ UNCHANGED <<worker, result, calls, mail>> /\ WorkerOnly

(* shutdown_console_runtime gives up what still runs after its grace. *)
RuntimeShutdown ==
  /\ Ended
  /\ \E c \in Commands : Alive(c)
  /\ worker' = [c \in Commands |-> IF Alive(c) THEN "killed" ELSE worker[c]]
  /\ UNCHANGED <<result, calls, mail>> /\ WorkerOnly

-------------------------------------------------------------------------------
(* Completing the line in flight: drain its events, join its task, settle. *)

Drain ==
  /\ pc = "completing" /\ n \in mail
  /\ mail' = mail \ {n}
  /\ shell' = Finish(result[n])
  /\ UNCHANGED <<pc, n, before, busy, frames, worker, result, calls, stopVars>>

(* Fault: settles as soon as the outcome has been received. *)
JoinDrainedOnly ==
  /\ pc = "completing" /\ n \notin mail /\ result[n] # "running"
  /\ pc' = "reporting"
  /\ shell' = Finish("nonzero")
  /\ busy' = FALSE
  /\ handle' = 0
  /\ UNCHANGED <<n, before, frames, workerVars, fired>>

Join ==
  /\ pc = "completing" /\ n \notin mail /\ Done(n)
  /\ pc' = "reporting"
  /\ shell' = Finish("nonzero")
  /\ busy' = FALSE
  /\ handle' = 0
  /\ UNCHANGED <<n, before, frames, workerVars, fired>>

(* Fault: the status of the newest entry, whichever line it belongs to. *)
StatusOfNewest ==
  IF shell # <<>> /\ shell[Len(shell)] = "zero" THEN "ok" ELSE "error"

Status ==
  IF Len(shell) > before /\ shell[before + 1] = "zero" THEN "ok" ELSE "error"

Report ==
  /\ pc = "reporting" /\ pc' = "reading"
  /\ Write(n, Status)
  /\ UNCHANGED <<n, before, shell, busy, workerVars, stopVars>>

-------------------------------------------------------------------------------
(* The command deadline.  Nothing is spawned while the leg is being opened *)
(* or the broker records; otherwise the stop is requested first.           *)

(* Fault: goes straight to waiting, without asking the script to stop. *)
CommandTimesOutUnasked ==
  /\ \/ pc \in {"opening", "recording"} /\ pc' = "expired"
     \/ pc = "completing" /\ pc' = "cancelling"
  /\ UNCHANGED <<n, before, shell, busy, frames, workerVars, stopVars>>

CommandTimesOut ==
  /\ \/ pc \in {"opening", "recording"} /\ pc' = "expired" /\ UNCHANGED fired
     \/ /\ pc = "completing" /\ pc' = "cancelling"
        /\ fired' = fired \cup ({handle} \ {0})
  /\ UNCHANGED <<n, before, shell, busy, frames, workerVars, handle>>

CancelJoins ==
  /\ pc = "cancelling" /\ Done(n)
  /\ pc' = "expired"
  /\ handle' = 0
  /\ UNCHANGED <<n, before, shell, busy, frames, workerVars, fired>>

(* Fault: waits for the worker without a grace period. *)
GraceNeverEnds ==
  /\ pc = "cancelling" /\ Done(n)
  /\ pc' = "expired"
  /\ handle' = 0
  /\ UNCHANGED <<n, before, shell, busy, frames, workerVars, fired>>

(* The task is aborted and joined, the blocking worker is not. *)
GraceEnds ==
  /\ pc = "cancelling"
  /\ pc' = "expired"
  /\ handle' = 0
  /\ UNCHANGED <<n, before, shell, busy, frames, workerVars, fired>>

(* Fault: refuses to say more, but goes on to the next line. *)
ReportTimeoutContinues ==
  /\ pc = "expired" /\ pc' = "reading"
  /\ Write(n, "timeout")
  /\ UNCHANGED <<n, before, shell, busy, workerVars, stopVars>>

ReportTimeout ==
  /\ pc = "expired" /\ pc' = "failed"
  /\ Write(n, "timeout")
  /\ UNCHANGED <<n, before, shell, busy, workerVars, stopVars>>

(* The client has gone: a frame cannot be written. *)
WriteFails ==
  /\ pc \in {"greeting", "reporting", "expired", "excess"} /\ pc' = "failed"
  /\ UNCHANGED <<n, before, shell, busy, frames, workerVars, stopVars>>

-------------------------------------------------------------------------------
Client ==
  \/ ReadRefused \/ ReadAsset \/ ReadSmoke \/ ReadScript
  \/ ReadEof \/ ReadFails \/ ReadExcess \/ WriteFails

Broker == EntryGranted \/ EntryFails \/ RecordAnswered \/ LegGranted \/ LegDenied

Timer == SessionTimesOut \/ CommandTimesOut \/ GraceEnds

WorkerStep(c) ==
  \/ CallStarts(c) \/ CallReturns(c) \/ ScriptEnds(c) \/ WorkerReturns(c)
  \/ WorkerPanics(c)

Reports == Greet \/ RefuseExcess \/ Report \/ ReportTimeout

Terminated == Ended /\ UNCHANGED vars

Next ==
  \/ Client \/ Broker \/ Timer \/ Reports
  \/ \E c \in Commands : WorkerStep(c)
  \/ Drain \/ Join \/ CancelJoins
  \/ RuntimeShutdown
  \/ Terminated

(* Only timers and the loop's own writes are relied on: the broker may     *)
(* never answer, the client never submit a line, the script never end.     *)
(* EntryFails stands for the entry deadline when the broker is silent.     *)
Fairness ==
  /\ WF_vars(EntryGranted \/ EntryFails)
  /\ WF_vars(SessionTimesOut) /\ WF_vars(CommandTimesOut) /\ WF_vars(GraceEnds)
  /\ WF_vars(Reports) /\ WF_vars(RuntimeShutdown)

Spec == Init /\ [][Next]_vars
FairSpec == Spec /\ Fairness
-------------------------------------------------------------------------------
Frames == [cmd : 0 .. MaxCommands + 1, status : {"ready", "ok", "error", "timeout"}]

(* Every variable keeps its type: no line past the limit gets a worker.    *)
TypeOK ==
  /\ pc \in Places /\ n \in 0 .. MaxCommands + 1 /\ before \in Nat
  /\ shell \in Seq(Exits) /\ busy \in BOOLEAN /\ frames \in Seq(Frames)
  /\ worker \in [Commands -> Workers]
  /\ result \in [Commands -> Exits]
  /\ calls \in [Commands -> 0 .. MaxCalls]
  /\ mail \in SUBSET Commands /\ fired \in SUBSET Commands
  /\ handle \in 0 .. MaxCommands

Answered(c, statuses) ==
  \E i \in 1 .. Len(frames) : frames[i].cmd = c /\ frames[i].status \in statuses

(* `ok` is said of a line only if that very line ended in success, however *)
(* many lines before it left no entry, or an entry, in the shell history.  *)
OkMeansThisLineSucceeded ==
  \A c \in Commands :
    Answered(c, {"ok"}) => result[c] = "zero" /\ worker[c] \in {"none", "returned"}

(* Once a line is answered with `ok` or `error` nothing of it is left: no  *)
(* worker, no queued event, no stop binding.                               *)
AnsweredMeansSettled ==
  \A c \in Commands :
    Answered(c, {"ok", "error"}) => ~Alive(c) /\ c \notin mail /\ handle # c

(* A script only runs for the line read last, while that line has no       *)
(* answer, or after it was answered with `timeout`.                        *)
OneLineAtATime ==
  \A c \in Commands :
    Alive(c) => c = n /\ ~Answered(c, {"ok", "error"})

(* The next line finds the console idle: none is refused as if another     *)
(* command were still running.                                             *)
IdleBetweenLines ==
  pc = "reading" => ~busy /\ handle = 0 /\ ~Pending

(* Exit code 0: every line submitted was answered, in order, and none was  *)
(* left uncertain or over the limit.                                       *)
SuccessMeansAllAnswered ==
  pc = "succeeded" =>
    /\ Len(frames) = n + 1
    /\ \A i \in 1 .. Len(frames) :
         frames[i].cmd = i - 1 /\ frames[i].status # "timeout"

(* After "outcome unknown" nothing more is said, read or started: no frame,*)
(* no line, and no capability call of the script that was abandoned.       *)
UncertainIsFinal ==
  [][Answered(n, {"timeout"}) => UNCHANGED <<frames, n, calls>>]_vars

(* With neither broker, client nor script cooperating, the session ends.   *)
SessionEnds == <>Ended

(* ... and then the process lets go of whatever is still running.          *)
NothingHeldOpen == Ended ~> \A c \in Commands : ~Alive(c)

(* What structured.rs says of its frames: the line's events are drained    *)
(* and its task is joined before its END.                                  *)
EndFollowsDrainAndJoin ==
  \A c \in Commands :
    Answered(c, {"ok", "error", "timeout"}) => c \notin mail /\ ~Alive(c)
-------------------------------------------------------------------------------
Promise == INSTANCE FrameProtocol WITH
  effects <- {c \in Commands : Alive(c)},
  won     <- {c \in Commands : result[c] = "zero" /\ ~Alive(c)},
  over    <- Ended

(* Deadlines, cancellation and abandoned workers included, the session is  *)
(* what FrameProtocol promises a client.                                   *)
KeepsPromise == Promise!Spec
===============================================================================
