--------------------------- MODULE StructuredProofs ----------------------------
(***************************************************************************)
(* Safety of `--structured`, for every number of lines, every call budget  *)
(* and every interleaving of the loop, its timers and the workers.         *)
(***************************************************************************)
EXTENDS Structured, TLAPS

Greeting == {"entering", "greeting"}
Active == {"opening", "recording", "completing", "cancelling", "reporting", "expired"}
Bound == {"completing", "cancelling"}
Idle == {"entering", "greeting", "reading", "recording", "reporting"}

(* Which line the loop is at. *)
Placed ==
  /\ pc \in Places /\ n \in 0 .. MaxCommands + 1
  /\ pc \in Greeting => n = 0
  /\ pc = "reading" => n <= MaxCommands
  /\ pc \in Active => n \in Commands
  /\ pc = "excess" => n = MaxCommands + 1

Typed ==
  /\ before \in Nat /\ shell \in Seq(Exits) /\ busy \in BOOLEAN
  /\ worker \in [Commands -> Workers]
  /\ result \in [Commands -> Exits]
  /\ calls \in [Commands -> 0 .. MaxCalls]
  /\ mail \in SUBSET Commands /\ fired \in SUBSET Commands
  /\ handle \in 0 .. MaxCommands

(* The frames are in order, and as many as the loop's place says. *)
Framed ==
  /\ frames \in Seq(Frames)
  /\ pc \in Greeting => frames = <<>>
  /\ pc \in {"reading", "succeeded"} => Len(frames) = n + 1
  /\ pc \in Active \cup {"excess"} => Len(frames) = n
  /\ \A i \in 1 .. Len(frames) :
       frames[i].cmd = i - 1 /\ (frames[i].status = "timeout" => pc = "failed")

(* Only the line read last has a worker or a queued event, and has no      *)
(* answer yet unless it is "timeout".                                      *)
Settled ==
  \A c \in Commands :
    Alive(c) \/ c \in mail =>
      /\ c = n /\ pc \in {"completing", "cancelling", "expired", "failed"}
      /\ ~Answered(c, {"ok", "error"})

(* A line not begun has no worker and no outcome; a script still running   *)
(* has none either.                                                        *)
Fresh ==
  \A c \in Commands :
    /\ c > n \/ (c = n /\ pc \in {"opening", "recording"}) =>
         worker[c] = "none" /\ result[c] = "running"
    /\ worker[c] \in {"boundary", "calling"} => result[c] = "running"

(* The stop reaches the line in flight, and whatever is alive past its     *)
(* deadline has been told.                                                 *)
Stopped ==
  /\ pc \in Bound => handle = n
  /\ pc \notin Bound => handle = 0
  /\ \A c \in Commands :
       Alive(c) /\ pc \in {"cancelling", "expired", "failed"} => c \in fired

IdleAgain == pc \in Idle => ~busy /\ ~Pending

(* The entry at `before` is the one of line n, and says what it came to. *)
Echoed ==
  /\ pc = "recording" => Len(shell) = before
  /\ pc \in {"opening", "completing"} => Len(shell) = before + 1
  /\ pc = "opening" => shell[before + 1] = "running"
  /\ pc = "completing" =>
       \/ /\ worker[n] \in {"boundary", "calling", "panicked"}
          /\ n \notin mail /\ shell[before + 1] = "running"
       \/ /\ worker[n] \in {"sent", "returned"} /\ result[n] # "running"
          /\ n \in mail /\ shell[before + 1] = "running"
       \/ /\ worker[n] \in {"sent", "returned"} /\ result[n] # "running"
          /\ n \notin mail /\ shell[before + 1] = result[n]
  /\ pc = "reporting" /\ Len(shell) > before /\ shell[before + 1] = "zero" =>
       result[n] = "zero" /\ worker[n] \in {"none", "returned"}

IInv ==
  /\ Placed /\ Typed /\ Framed /\ Settled /\ Fresh /\ Stopped /\ IdleAgain
  /\ Echoed /\ OkMeansThisLineSucceeded

-------------------------------------------------------------------------------
(* What one more frame changes of what was answered. *)

LEMMA FrameWritten ==
  ASSUME frames \in Seq(Frames), NEW cmd \in 0 .. MaxCommands + 1,
         NEW status \in {"ready", "ok", "error", "timeout"}, Write(cmd, status)
  PROVE  /\ frames' \in Seq(Frames) /\ Len(frames') = Len(frames) + 1
         /\ frames'[Len(frames) + 1] = Frame(cmd, status)
         /\ \A i \in 1 .. Len(frames) : frames'[i] = frames[i]
<1>1. Frame(cmd, status) \in Frames
  BY DEF Frame, Frames
<1>2. frames' = Append(frames, Frame(cmd, status))
  BY DEF Write
<1> HIDE DEF Frame, Frames
<1> QED BY <1>1, <1>2

LEMMA AnsweredAfter ==
  ASSUME frames \in Seq(Frames), NEW cmd \in 0 .. MaxCommands + 1,
         NEW status \in {"ready", "ok", "error", "timeout"}, Write(cmd, status),
         NEW c, NEW statuses
  PROVE  Answered(c, statuses)' <=>
           Answered(c, statuses) \/ (c = cmd /\ status \in statuses)
<1>1. /\ frames' \in Seq(Frames) /\ Len(frames') = Len(frames) + 1
      /\ frames'[Len(frames) + 1].cmd = cmd
      /\ frames'[Len(frames) + 1].status = status
      /\ \A i \in 1 .. Len(frames) : frames'[i] = frames[i]
  <2>1. Frame(cmd, status).cmd = cmd /\ Frame(cmd, status).status = status
    BY DEF Frame
  <2> HIDE DEF Frame
  <2> QED BY <2>1, FrameWritten
<1>2. /\ Len(frames) \in Nat
      /\ 1 .. Len(frames') = (1 .. Len(frames)) \cup {Len(frames) + 1}
  BY <1>1
<1> QED BY <1>1, <1>2 DEF Answered

(* A line the loop is still at has not been answered. *)
LEMMA Unanswered ==
  ASSUME Placed, Framed, pc \in Active, NEW statuses
  PROVE  ~Answered(n, statuses)
<1>1. Len(frames) = n /\ n \in Nat
  BY DEF Framed, Placed, Commands
<1>2. \A i \in 1 .. Len(frames) : frames[i].cmd = i - 1
  BY DEF Framed
<1> QED BY <1>1, <1>2 DEF Answered

LEMMA StatusTyped == Status \in {"ok", "error"}
  BY DEF Status

LEMMA InitEstablishes == Init => IInv
<1> SUFFICES ASSUME Init PROVE IInv
  OBVIOUS
<1>1. MaxCommands \in Nat \ {0} /\ MaxCalls \in Nat
  BY StructuredAssumption
<1>2. Placed
  BY <1>1 DEF Init, Placed, Places, Greeting, Active, Commands
<1>3. Framed
  BY DEF Init, Framed, Greeting, Active
<1>7. Typed
  <2>1. shell \in Seq(Exits) /\ before \in Nat
    BY DEF Init
  <2>2. /\ worker \in [Commands -> Workers] /\ result \in [Commands -> Exits]
        /\ calls \in [Commands -> 0 .. MaxCalls]
    BY <1>1 DEF Init, Workers, Exits
  <2>3. handle \in 0 .. MaxCommands
    BY <1>1 DEF Init
  <2> QED BY <2>1, <2>2, <2>3 DEF Init, Typed
<1>4. Settled /\ Fresh /\ Stopped
  BY <1>1 DEF Init, Settled, Fresh, Stopped, Alive, Commands, Bound
<1>5. IdleAgain /\ Echoed
  BY DEF Init, IdleAgain, Echoed, Pending
<1>6. OkMeansThisLineSucceeded
  BY DEF Init, OkMeansThisLineSucceeded, Answered
<1> QED BY <1>2, <1>3, <1>4, <1>5, <1>6, <1>7 DEF IInv

-------------------------------------------------------------------------------
(* Where the loop is, and the types. *)

LEMMA PlacedPreserved ==
  ASSUME Placed, [Next]_vars
  PROVE  Placed'
<1>1. MaxCommands \in Nat \ {0}
  BY StructuredAssumption
<1> USE DEF Placed, Places, Greeting, Active, Commands
<1>2. CASE Client
  BY <1>1, <1>2 DEF Client, Read, ReadRefused, ReadAsset, ReadSmoke, ReadScript,
     ReadEof, ReadFails, ReadExcess, WriteFails
<1>3. CASE Broker \/ Timer
  BY <1>1, <1>3 DEF Broker, Timer, EntryGranted, EntryFails, RecordAnswered, LegGranted,
     LegDenied, SessionTimesOut, CommandTimesOut, GraceEnds
<1>4. CASE Reports \/ Drain \/ Join \/ CancelJoins
  BY <1>1, <1>4 DEF Reports, Greet, RefuseExcess, Report, ReportTimeout, Drain, Join,
     CancelJoins
<1>5. ASSUME NEW c \in Commands, WorkerStep(c) PROVE UNCHANGED <<pc, n>>
  BY <1>5 DEF WorkerStep, CallStarts, CallReturns, ScriptEnds, WorkerReturns,
     WorkerPanics, WorkerOnly
<1>6. CASE RuntimeShutdown \/ Terminated \/ UNCHANGED vars
  BY <1>6 DEF RuntimeShutdown, WorkerOnly, Terminated, vars
<1> QED BY <1>2, <1>3, <1>4, <1>5, <1>6 DEF Next

LEMMA FinishTyped ==
  ASSUME shell \in Seq(Exits), NEW exit \in Exits
  PROVE  Finish(exit) \in Seq(Exits) /\ Len(Finish(exit)) = Len(shell)
<1>1. CASE ~Pending
  BY <1>1 DEF Finish
<1>2. CASE Pending
  <2>1. Len(shell) \in 1 .. Len(shell)
    BY <1>2 DEF Pending
  <2>2. Finish(exit) = [shell EXCEPT ![Len(shell)] = exit]
    BY <1>2 DEF Finish
  <2> QED BY <2>1, <2>2
<1> QED BY <1>1, <1>2

LEMMA TypedPreserved ==
  ASSUME Placed, Typed, [Next]_vars
  PROVE  Typed'
<1>1. MaxCommands \in Nat \ {0} /\ MaxCalls \in Nat
  BY StructuredAssumption
<1>2. /\ \A exit \in Exits : Append(shell, exit) \in Seq(Exits)
      /\ \A exit \in Exits : Finish(exit) \in Seq(Exits)
      /\ Len(shell) \in Nat
      /\ {"running", "zero", "nonzero"} \subseteq Exits
  BY FinishTyped DEF Typed, Exits
<1>3. pc \in Active => n \in Commands
  BY DEF Placed
<1>4. pc = "reading" /\ n < MaxCommands => n + 1 \in Commands
  BY <1>1 DEF Placed, Commands
<1>5. CASE Client
  BY <1>2, <1>4, <1>5 DEF Client, Read, ReadRefused, ReadAsset, ReadSmoke, ReadScript,
     ReadEof, ReadFails, ReadExcess, WriteFails, workerVars, stopVars, Typed
<1>6. CASE Broker
  <2>1. pc \in {"recording", "opening"} => n \in Commands /\ n \in 0 .. MaxCommands
    BY <1>1, <1>3 DEF Active, Commands
  <2> QED BY <1>2, <1>6, <2>1 DEF Broker, EntryGranted, EntryFails, RecordAnswered,
       LegGranted, LegDenied, workerVars, stopVars, Typed, Workers
<1>7. CASE Timer \/ CancelJoins
  <2>1. {handle} \ {0} \subseteq Commands
    BY <1>1 DEF Typed, Commands
  <2>2. 0 \in 0 .. MaxCommands
    BY <1>1
  <2> QED BY <1>7, <2>1, <2>2 DEF Timer, SessionTimesOut, CommandTimesOut, GraceEnds,
       CancelJoins, workerVars, stopVars, Typed
<1>8. CASE Reports
  BY <1>8 DEF Reports, Greet, RefuseExcess, Report, ReportTimeout, workerVars,
     stopVars, Typed
<1>9. CASE Drain \/ Join
  <2>1. 0 \in 0 .. MaxCommands
    BY <1>1
  <2>2. Drain => n \in Commands /\ result[n] \in Exits
    BY <1>3 DEF Drain, Active, Typed
  <2> QED BY <1>2, <1>9, <2>1, <2>2 DEF Drain, Join, workerVars, stopVars, Typed
<1>10. ASSUME NEW c \in Commands, WorkerStep(c) PROVE Typed'
  <2>1. calls[c] \in 0 .. MaxCalls /\ (calls[c] < MaxCalls => calls[c] + 1 \in 0 .. MaxCalls)
    BY <1>1 DEF Typed
  <2>2. /\ calls' \in [Commands -> 0 .. MaxCalls]
        /\ UNCHANGED <<before, shell, busy, handle, fired>>
    BY <1>10, <2>1 DEF WorkerStep, CallStarts, CallReturns, ScriptEnds, WorkerReturns,
       WorkerPanics, WorkerOnly, stopVars, Typed
  <2>3. worker' \in [Commands -> Workers] /\ mail' \in SUBSET Commands
    BY <1>10 DEF WorkerStep, CallStarts, CallReturns, ScriptEnds, WorkerReturns,
       WorkerPanics, Typed, Workers
  <2>4. result' \in [Commands -> Exits]
    BY <1>2, <1>10 DEF WorkerStep, CallStarts, CallReturns, ScriptEnds, WorkerReturns,
       WorkerPanics, Typed
  <2> QED BY <2>2, <2>3, <2>4 DEF Typed
<1>11. CASE RuntimeShutdown
  BY <1>11 DEF RuntimeShutdown, WorkerOnly, stopVars, Typed, Workers
<1>12. CASE Terminated \/ UNCHANGED vars
  BY <1>12 DEF Terminated, vars, workerVars, stopVars, Typed
<1> QED BY <1>5, <1>6, <1>7, <1>8, <1>9, <1>10, <1>11, <1>12 DEF Next

-------------------------------------------------------------------------------
(* The actions by what they leave alone. *)

(* A frame is written by Reports only. *)
LEMMA OnlyReportsWrite ==
  ASSUME [Next]_vars, ~Reports
  PROVE  frames' = frames
<1>1. ASSUME NEW c \in Commands, WorkerStep(c) PROVE frames' = frames
  BY <1>1 DEF WorkerStep, CallStarts, CallReturns, ScriptEnds, WorkerReturns,
     WorkerPanics, WorkerOnly
<1>2. CASE Client
  BY <1>2 DEF Client, ReadRefused, ReadAsset, ReadSmoke, ReadScript, ReadEof, ReadFails,
     ReadExcess, WriteFails
<1>3. CASE Broker \/ Timer
  BY <1>3 DEF Broker, Timer, EntryGranted, EntryFails, RecordAnswered, LegGranted,
     LegDenied, SessionTimesOut, CommandTimesOut, GraceEnds
<1>4. CASE Drain \/ Join \/ CancelJoins \/ RuntimeShutdown \/ Terminated \/ UNCHANGED vars
  BY <1>4 DEF Drain, Join, CancelJoins, RuntimeShutdown, WorkerOnly, Terminated, vars
<1> QED BY <1>1, <1>2, <1>3, <1>4 DEF Next

(* Where the loop may go without a frame: a line is read, or it stays at   *)
(* its line, or the session ends.                                          *)
LEMMA Moves ==
  ASSUME Placed, [Next]_vars, ~Reports
  PROVE  \/ pc' = pc /\ n' = n
         \/ /\ pc = "reading" /\ n' = n + 1
            /\ pc' \in {"opening", "recording", "reporting", "excess"}
         \/ pc = "reading" /\ n' = n /\ pc' \in {"succeeded", "failed"}
         \/ pc \in Active /\ n' = n /\ pc' \in Active
         \/ pc = "entering" /\ n' = n /\ pc' \in {"greeting", "failed"}
         \/ /\ pc \in {"greeting", "reporting", "expired", "excess"} /\ n' = n
            /\ pc' = "failed"
<1> USE DEF Active
<1>1. ASSUME NEW c \in Commands, WorkerStep(c) PROVE pc' = pc /\ n' = n
  BY <1>1 DEF WorkerStep, CallStarts, CallReturns, ScriptEnds, WorkerReturns,
     WorkerPanics, WorkerOnly
<1>2. CASE Client
  BY <1>2 DEF Client, Read, ReadRefused, ReadAsset, ReadSmoke, ReadScript, ReadEof,
     ReadFails, ReadExcess, WriteFails
<1>3. CASE Broker \/ Timer
  BY <1>3 DEF Broker, Timer, EntryGranted, EntryFails, RecordAnswered, LegGranted,
     LegDenied, SessionTimesOut, CommandTimesOut, GraceEnds
<1>4. CASE Drain \/ Join \/ CancelJoins \/ RuntimeShutdown \/ Terminated \/ UNCHANGED vars
  BY <1>4 DEF Drain, Join, CancelJoins, RuntimeShutdown, WorkerOnly, Terminated, vars
<1> QED BY <1>1, <1>2, <1>3, <1>4 DEF Next

-------------------------------------------------------------------------------
(* The frames stay in order. *)

LEMMA FramedPreserved ==
  ASSUME Placed, Framed, [Next]_vars
  PROVE  Framed'
<1>1. MaxCommands \in Nat \ {0} /\ n \in Nat /\ n <= MaxCommands + 1
  BY StructuredAssumption DEF Placed
<1>2. CASE ~Reports
  <2>1. frames' = frames
    BY <1>2, OnlyReportsWrite
  <2>2. \A i \in 1 .. Len(frames) :
          frames[i].cmd = i - 1 /\ (frames[i].status = "timeout" => pc = "failed")
    BY DEF Framed
  <2>3. pc = "failed" => pc' = "failed"
    BY <1>2, Moves DEF Active
  <2>4. /\ pc' \in Greeting => frames = <<>>
        /\ pc' \in {"reading", "succeeded"} => Len(frames) = n' + 1
        /\ pc' \in Active \cup {"excess"} => Len(frames) = n'
    BY <1>2, Moves DEF Framed, Active, Greeting
  <2> QED BY <2>1, <2>2, <2>3, <2>4 DEF Framed
<1>3. ASSUME NEW status \in {"ready", "ok", "error", "timeout"}, Write(n, status),
             Len(frames) = n, n' = n, pc # "failed",
             \/ pc' = "reading" /\ status # "timeout"
             \/ pc' = "failed"
      PROVE  Framed'
  <2>1. /\ frames' \in Seq(Frames) /\ Len(frames') = n + 1
        /\ frames'[n + 1] = Frame(n, status)
        /\ \A i \in 1 .. n : frames'[i] = frames[i]
    BY <1>1, <1>3, FrameWritten DEF Framed
  <2>2. Frame(n, status).cmd = n /\ Frame(n, status).status = status
    BY DEF Frame
  <2>3. \A i \in 1 .. n : frames[i].cmd = i - 1 /\ frames[i].status # "timeout"
    BY <1>3 DEF Framed
  <2>4. ASSUME NEW i \in 1 .. Len(frames')
        PROVE  frames'[i].cmd = i - 1 /\ (frames'[i].status = "timeout" => pc' = "failed")
    <3>1. i \in 1 .. n \/ i = n + 1
      BY <1>1, <2>1
    <3>2. CASE i \in 1 .. n
      BY <2>1, <2>3, <3>2
    <3>3. CASE i = n + 1
      <4>1. (n + 1) - 1 = n
        BY <1>1
      <4>2. frames'[i].cmd = n /\ frames'[i].status = status
        BY <2>1, <2>2, <3>3
      <4> QED BY <1>3, <3>3, <4>1, <4>2
    <3> QED BY <3>1, <3>2, <3>3
  <2>5. pc' \notin Greeting \cup Active \cup {"excess", "succeeded"}
    BY <1>3 DEF Greeting, Active
  <2>6. Len(frames') = n' + 1
    BY <1>3, <2>1
  <2> QED BY <2>1, <2>4, <2>5, <2>6 DEF Framed
<1>4. CASE Greet
  <2>1. n = 0 /\ Len(frames) = 0
    BY <1>4 DEF Greet, Placed, Framed, Greeting
  <2> QED BY <1>3, <1>4, <2>1 DEF Greet
<1>5. CASE Report
  BY <1>3, <1>5, StatusTyped DEF Report, Framed, Active
<1>6. CASE ReportTimeout \/ RefuseExcess
  BY <1>3, <1>6 DEF ReportTimeout, RefuseExcess, Framed, Active
<1> QED BY <1>2, <1>4, <1>5, <1>6 DEF Reports

-------------------------------------------------------------------------------
(* Only the line in flight is unsettled. *)

LEMMA SettledPreserved ==
  ASSUME Placed, Typed, Framed, Settled, [Next]_vars
  PROVE  Settled'
<1> DEFINE Restless(c) == Alive(c) \/ c \in mail
<1> DEFINE Unsettled == {"completing", "cancelling", "expired", "failed"}
<1>1. ASSUME UNCHANGED frames, n' = n,
             pc' = pc \/ (pc \in Unsettled /\ pc' \in Unsettled),
             \A c \in Commands : Restless(c)' => Restless(c)
      PROVE  Settled'
  BY <1>1 DEF Settled, Answered
<1>2. ASSUME \A c \in Commands : ~Restless(c)'
      PROVE  Settled'
  BY <1>2 DEF Settled
<1>3. ASSUME UNCHANGED <<worker, mail>>, pc \notin Unsettled
      PROVE  Settled'
  BY <1>2, <1>3 DEF Settled, Alive
<1>4. CASE Client
  <2>1. UNCHANGED <<worker, mail>>
    BY <1>4 DEF Client, ReadRefused, ReadAsset, ReadSmoke, ReadScript, ReadEof, ReadFails,
       ReadExcess, WriteFails, workerVars
  <2>2. \/ pc \notin Unsettled
        \/ UNCHANGED frames /\ n' = n /\ pc \in Unsettled /\ pc' \in Unsettled
    BY <1>4 DEF Client, Read, ReadRefused, ReadAsset, ReadSmoke, ReadScript, ReadEof,
       ReadFails, ReadExcess, WriteFails
  <2> QED BY <1>1, <1>3, <2>1, <2>2 DEF Alive
<1>5. CASE LegGranted
  <2>1. /\ pc = "opening" /\ pc' = "completing" /\ n' = n /\ UNCHANGED <<frames, mail>>
        /\ n \in Commands /\ worker' = [worker EXCEPT ![n] = "boundary"]
    BY <1>5 DEF LegGranted, Placed, Active
  <2>2. ~Answered(n, {"ok", "error"})
    BY <2>1, Unanswered DEF Active
  <2>3. \A c \in Commands : Restless(c)' => c = n
    BY <2>1 DEF Settled, Alive, Typed
  <2> QED BY <2>1, <2>2, <2>3 DEF Settled, Answered
<1>6. CASE EntryGranted \/ EntryFails \/ RecordAnswered \/ LegDenied
  BY <1>3, <1>6 DEF EntryGranted, EntryFails, RecordAnswered, LegDenied, workerVars
<1>7. CASE Timer \/ CancelJoins
  <2>1. UNCHANGED <<worker, mail, frames>> /\ n' = n
    BY <1>7 DEF Timer, SessionTimesOut, CommandTimesOut, GraceEnds, CancelJoins, workerVars
  <2>2. pc \notin Unsettled \/ (pc \in Unsettled /\ pc' \in Unsettled)
    BY <1>7 DEF Timer, SessionTimesOut, CommandTimesOut, GraceEnds, CancelJoins
  <2> QED BY <1>1, <1>3, <2>1, <2>2 DEF Alive
<1>8. CASE Greet \/ RefuseExcess \/ Report
  BY <1>3, <1>8 DEF Greet, RefuseExcess, Report, workerVars
<1>9. CASE ReportTimeout
  <2>1. /\ pc = "expired" /\ pc' = "failed" /\ n' = n /\ UNCHANGED <<worker, mail>>
        /\ Write(n, "timeout") /\ n \in 0 .. MaxCommands + 1
    BY <1>9 DEF ReportTimeout, workerVars, Placed
  <2>2. \A c \in Commands :
          Answered(c, {"ok", "error"})' <=> Answered(c, {"ok", "error"})
    BY <2>1, AnsweredAfter DEF Framed
  <2> QED BY <2>1, <2>2 DEF Settled, Alive
<1>10. CASE Drain
  <2>1. UNCHANGED <<pc, n, frames, worker>> /\ mail' \subseteq mail
    BY <1>10 DEF Drain
  <2> QED BY <1>1, <2>1 DEF Alive
<1>11. CASE Join
  BY <1>2, <1>11 DEF Join, workerVars, Settled, Alive, Done
<1>12. ASSUME NEW c \in Commands, WorkerStep(c) PROVE Settled'
  <2>1. UNCHANGED <<pc, n, frames>>
    BY <1>12 DEF WorkerStep, CallStarts, CallReturns, ScriptEnds, WorkerReturns,
       WorkerPanics, WorkerOnly
  <2>2. Alive(c) /\ \A d \in Commands \ {c} : worker'[d] = worker[d]
    BY <1>12 DEF WorkerStep, CallStarts, CallReturns, ScriptEnds, WorkerReturns,
       WorkerPanics, Alive, Typed
  <2>3. mail' \subseteq mail \cup {c}
    BY <1>12 DEF WorkerStep, CallStarts, CallReturns, ScriptEnds, WorkerReturns,
       WorkerPanics
  <2> QED BY <1>1, <2>1, <2>2, <2>3 DEF Alive
<1>13. CASE RuntimeShutdown
  <2>1. UNCHANGED <<pc, n, frames, mail>> /\ \A c \in Commands : ~Alive(c)'
    BY <1>13 DEF RuntimeShutdown, WorkerOnly, Alive
  <2> QED BY <1>1, <2>1
<1>14. CASE Terminated \/ UNCHANGED vars
  BY <1>1, <1>14 DEF Terminated, vars, workerVars, Alive
<1> QED BY <1>4, <1>5, <1>6, <1>7, <1>8, <1>9, <1>10, <1>11, <1>12, <1>13, <1>14
     DEF Next, Broker, Reports

-------------------------------------------------------------------------------
(* What a line came to is written once, by its own script or answer. *)

(* The worker's steps touch the line in flight only. *)
LEMMA WorkerTouchesOne ==
  ASSUME Typed, Fresh, NEW c \in Commands, WorkerStep(c)
  PROVE  /\ UNCHANGED <<pc, n, before, shell, busy, frames, handle, fired>>
         /\ Alive(c) /\ \A d \in Commands \ {c} : UNCHANGED <<worker[d], result[d]>>
         /\ \/ /\ worker[c] \in {"boundary", "calling"}
               /\ worker'[c] \in {"boundary", "calling", "panicked"}
               /\ result'[c] = "running" /\ mail' = mail
            \/ /\ worker[c] = "boundary" /\ worker'[c] = "sent"
               /\ result'[c] \in {"zero", "nonzero"} /\ mail' = mail \cup {c}
            \/ /\ worker[c] = "sent" /\ worker'[c] = "returned"
               /\ result'[c] = result[c] /\ mail' = mail
<1>1. UNCHANGED <<pc, n, before, shell, busy, frames, handle, fired>>
  BY DEF WorkerStep, CallStarts, CallReturns, ScriptEnds, WorkerReturns, WorkerPanics,
     WorkerOnly, stopVars
<1>2. Alive(c) /\ \A d \in Commands \ {c} : UNCHANGED <<worker[d], result[d]>>
  BY DEF WorkerStep, CallStarts, CallReturns, ScriptEnds, WorkerReturns, WorkerPanics,
     Alive, Typed
<1>3. worker[c] \in {"boundary", "calling"} => result[c] = "running"
  BY DEF Fresh
<1>4. CASE CallStarts(c) \/ CallReturns(c) \/ WorkerPanics(c)
  BY <1>1, <1>2, <1>3, <1>4 DEF CallStarts, CallReturns, WorkerPanics, Typed
<1>5. CASE ScriptEnds(c)
  BY <1>1, <1>2, <1>5 DEF ScriptEnds, Typed
<1>6. CASE WorkerReturns(c)
  BY <1>1, <1>2, <1>6 DEF WorkerReturns, Typed
<1> QED BY <1>4, <1>5, <1>6 DEF WorkerStep

LEMMA FreshPreserved ==
  ASSUME Placed, Typed, Framed, Settled, Fresh, [Next]_vars
  PROVE  Fresh'
<1>1. MaxCommands \in Nat \ {0} /\ n \in Nat
  BY StructuredAssumption DEF Placed
<1> DEFINE New(c) == c > n \/ (c = n /\ pc \in {"opening", "recording"})
<1>2. ASSUME UNCHANGED <<worker, result>>, \A c \in Commands : New(c)' => New(c)
      PROVE  Fresh'
  BY <1>2 DEF Fresh
<1>3. CASE ReadRefused \/ ReadSmoke \/ ReadScript \/ ReadExcess
  <2>1. UNCHANGED <<worker, result>> /\ n' = n + 1
    BY <1>3 DEF ReadRefused, ReadSmoke, ReadScript, ReadExcess, Read, workerVars
  <2>2. \A c \in Commands : New(c)' => c > n
    BY <1>1, <2>1 DEF Commands
  <2> QED BY <1>2, <2>1, <2>2
<1>4. CASE ReadAsset
  <2>1. /\ n' = n + 1 /\ pc' = "reporting" /\ worker' = worker
        /\ \A c \in Commands \ {n + 1} : result'[c] = result[c]
        /\ n + 1 \in Commands
    BY <1>1, <1>4 DEF ReadAsset, Read, Commands, Typed
  <2>2. worker[n + 1] = "none"
    BY <1>1, <2>1 DEF Fresh
  <2>3. \A c \in Commands : New(c)' => c > n /\ c # n + 1
    BY <1>1, <2>1 DEF Commands
  <2> QED BY <2>1, <2>2, <2>3 DEF Fresh
<1>5. CASE RecordAnswered
  <2>1. /\ n' = n /\ pc' = "reporting" /\ worker' = worker /\ pc = "recording"
        /\ \A c \in Commands \ {n} : result'[c] = result[c]
        /\ n \in Commands
    BY <1>5 DEF RecordAnswered, Typed, Placed, Active
  <2>2. worker[n] = "none"
    BY <2>1 DEF Fresh
  <2>3. \A c \in Commands : New(c)' => New(c) /\ c # n
    BY <1>1, <2>1 DEF Commands
  <2> QED BY <2>1, <2>2, <2>3 DEF Fresh
<1>6. CASE LegGranted
  <2>1. /\ n' = n /\ pc' = "completing" /\ result' = result /\ pc = "opening"
        /\ \A c \in Commands \ {n} : worker'[c] = worker[c]
        /\ n \in Commands
    BY <1>6 DEF LegGranted, Typed, Placed, Active
  <2>2. result[n] = "running"
    BY <2>1 DEF Fresh
  <2>3. \A c \in Commands : New(c)' => New(c) /\ c # n
    BY <1>1, <2>1 DEF Commands
  <2> QED BY <2>1, <2>2, <2>3 DEF Fresh
<1>7. CASE ReadEof \/ ReadFails \/ WriteFails \/ EntryGranted \/ EntryFails \/ LegDenied
  BY <1>2, <1>7 DEF ReadEof, ReadFails, WriteFails, EntryGranted, EntryFails, LegDenied,
     workerVars
<1>8. CASE Timer \/ CancelJoins
  BY <1>2, <1>8 DEF Timer, SessionTimesOut, CommandTimesOut, GraceEnds, CancelJoins,
     workerVars
<1>9. CASE Reports \/ Drain \/ Join
  BY <1>2, <1>9 DEF Reports, Greet, RefuseExcess, Report, ReportTimeout, Drain, Join,
     workerVars
<1>10. ASSUME NEW c \in Commands, WorkerStep(c) PROVE Fresh'
  <2>1. UNCHANGED <<pc, n>> /\ Alive(c)
        /\ \A d \in Commands \ {c} : UNCHANGED <<worker[d], result[d]>>
    BY <1>10, WorkerTouchesOne
  <2>2. worker'[c] \in {"boundary", "calling"} => result'[c] = "running"
    BY <1>10, WorkerTouchesOne
  <2>3. ~New(c)
    BY <2>1 DEF Fresh, Alive
  <2> HIDE DEF New
  <2>4. \A d \in Commands : New(d)' <=> New(d)
    BY <2>1 DEF New
  <2>5. \A d \in Commands : New(d) => worker[d] = "none" /\ result[d] = "running"
    BY DEF Fresh, New
  <2>6. \A d \in Commands : New(d)' => worker'[d] = "none" /\ result'[d] = "running"
    BY <2>1, <2>3, <2>4, <2>5
  <2>7. \A d \in Commands : worker'[d] \in {"boundary", "calling"} => result'[d] = "running"
    BY <2>1, <2>2 DEF Fresh
  <2> QED BY <2>6, <2>7 DEF Fresh, New
<1>11. CASE RuntimeShutdown
  <2>1. /\ UNCHANGED <<pc, n, result>>
        /\ \A c \in Commands : worker'[c] = IF Alive(c) THEN "killed" ELSE worker[c]
    BY <1>11 DEF RuntimeShutdown, WorkerOnly
  <2> QED BY <2>1 DEF Fresh, Alive
<1>12. CASE Terminated \/ UNCHANGED vars
  BY <1>2, <1>12 DEF Terminated, vars, workerVars
<1> QED BY <1>3, <1>4, <1>5, <1>6, <1>7, <1>8, <1>9, <1>10, <1>11, <1>12
     DEF Next, Client, Broker

-------------------------------------------------------------------------------
(* The stop reaches the line in flight. *)

LEMMA StoppedPreserved ==
  ASSUME Placed, Typed, Framed, Settled, Fresh, Stopped, [Next]_vars
  PROVE  Stopped'
<1> DEFINE Late(c) == Alive(c) /\ pc \in {"cancelling", "expired", "failed"}
<1> USE DEF Bound
<1>1. ASSUME UNCHANGED <<handle, fired>>, pc' = pc /\ n' = n,
             \A c \in Commands : Alive(c)' => Alive(c)
      PROVE  Stopped'
  BY <1>1 DEF Stopped
<1>2. ASSUME UNCHANGED <<handle, fired>>, pc \notin Bound, pc' \notin Bound,
             worker' = worker, pc = "expired" \/ \A c \in Commands : ~Alive(c)
      PROVE  Stopped'
  BY <1>2 DEF Stopped, Alive
<1>3. pc \notin {"completing", "cancelling", "expired", "failed"} =>
        \A c \in Commands : ~Alive(c)
  BY DEF Settled
<1>4. CASE Client
  BY <1>2, <1>3, <1>4 DEF Client, Read, ReadRefused, ReadAsset, ReadSmoke, ReadScript,
     ReadEof, ReadFails, ReadExcess, WriteFails, workerVars, stopVars
<1>5. CASE LegGranted
  BY <1>5 DEF LegGranted, Stopped
<1>6. CASE EntryGranted \/ EntryFails \/ RecordAnswered \/ LegDenied
  BY <1>2, <1>3, <1>6 DEF EntryGranted, EntryFails, RecordAnswered, LegDenied, workerVars,
     stopVars
<1>7. CASE SessionTimesOut
  BY <1>2, <1>3, <1>7 DEF SessionTimesOut, workerVars, stopVars
<1>8. CASE CommandTimesOut
  <2>1. CASE pc = "completing"
    <3>1. /\ pc' = "cancelling" /\ n' = n /\ UNCHANGED <<handle, worker>>
          /\ fired' = fired \cup ({n} \ {0})
      BY <1>8, <2>1 DEF CommandTimesOut, workerVars, Stopped
    <3>2. n \in Commands /\ n # 0
      BY <2>1, StructuredAssumption DEF Placed, Active, Commands
    <3>3. \A c \in Commands : Alive(c) => c = n
      BY DEF Settled
    <3> QED BY <2>1, <3>1, <3>2, <3>3 DEF Stopped, Alive
  <2>2. CASE pc # "completing"
    BY <1>2, <1>3, <1>8, <2>2 DEF CommandTimesOut, workerVars
  <2> QED BY <2>1, <2>2
<1>9. CASE GraceEnds \/ CancelJoins
  <2>1. /\ pc = "cancelling" /\ pc' = "expired" /\ handle' = 0
        /\ UNCHANGED <<worker, fired>>
    BY <1>9 DEF GraceEnds, CancelJoins, workerVars
  <2> QED BY <2>1 DEF Stopped, Alive
<1>10. CASE Reports
  BY <1>2, <1>3, <1>10 DEF Reports, Greet, RefuseExcess, Report, ReportTimeout, workerVars,
     stopVars
<1>11. CASE Drain
  BY <1>1, <1>11 DEF Drain, stopVars, Alive
<1>12. CASE Join
  BY <1>12 DEF Join, Stopped
<1>13. ASSUME NEW c \in Commands, WorkerStep(c) PROVE Stopped'
  <2>1. UNCHANGED <<pc, n, handle, fired>> /\ Alive(c)
        /\ \A d \in Commands \ {c} : worker'[d] = worker[d]
    BY <1>13, WorkerTouchesOne
  <2> QED BY <1>1, <2>1 DEF Alive
<1>14. CASE RuntimeShutdown
  <2>1. UNCHANGED <<pc, n, handle, fired>> /\ \A c \in Commands : ~Alive(c)'
    BY <1>14 DEF RuntimeShutdown, WorkerOnly, stopVars, Alive
  <2> QED BY <1>1, <2>1
<1>15. CASE Terminated \/ UNCHANGED vars
  BY <1>1, <1>15 DEF Terminated, vars, workerVars, stopVars, Alive
<1> QED BY <1>4, <1>5, <1>6, <1>7, <1>8, <1>9, <1>10, <1>11, <1>12, <1>13, <1>14, <1>15
     DEF Next, Broker, Timer

-------------------------------------------------------------------------------
(* The shell history: the entry at `before` speaks for line n. *)

LEMMA FinishOutcome ==
  ASSUME shell \in Seq(Exits), NEW exit \in Exits, exit # "running"
  PROVE  /\ Len(Finish(exit)) = Len(shell) /\ Finish(exit) \in Seq(Exits)
         /\ Finish(exit) # <<>> => Finish(exit)[Len(shell)] # "running"
         /\ Pending => Finish(exit)[Len(shell)] = exit
         /\ ~Pending => Finish(exit) = shell
<1>1. CASE ~Pending
  BY <1>1 DEF Finish, Pending
<1>2. CASE Pending
  <2>1. Len(shell) \in 1 .. Len(shell)
    BY <1>2 DEF Pending
  <2>2. Finish(exit) = [shell EXCEPT ![Len(shell)] = exit]
    BY <1>2 DEF Finish
  <2> QED BY <1>2, <2>1, <2>2
<1> QED BY <1>1, <1>2

LEMMA AppendOutcome ==
  ASSUME shell \in Seq(Exits), NEW exit \in Exits
  PROVE  /\ Len(Append(shell, exit)) = Len(shell) + 1 /\ Len(shell) \in Nat
         /\ Append(shell, exit)[Len(shell) + 1] = exit
  OBVIOUS

LEMMA IdlePreserved ==
  ASSUME Placed, Typed, IdleAgain, [Next]_vars
  PROVE  IdleAgain'
<1>1. shell \in Seq(Exits) /\ {"zero", "nonzero", "running"} \subseteq Exits
  BY DEF Typed, Exits
<1>2. ASSUME NEW exit \in {"zero", "nonzero"}, shell' = Append(shell, exit)
      PROVE  ~Pending'
  BY <1>1, <1>2, AppendOutcome DEF Pending
<1>3. ASSUME shell' = Finish("nonzero") PROVE ~Pending'
  BY <1>1, <1>3, FinishOutcome DEF Pending
<1>4. ASSUME UNCHANGED <<shell, busy>>, pc' \notin Idle \/ pc \in Idle
      PROVE  IdleAgain'
  BY <1>4 DEF IdleAgain, Pending
<1>5. CASE ReadRefused \/ ReadSmoke \/ ReadEof \/ ReadFails \/ ReadExcess \/ WriteFails
  BY <1>4, <1>5 DEF ReadRefused, ReadSmoke, Read, ReadEof, ReadFails, ReadExcess,
     WriteFails, Idle
<1>6. CASE ReadAsset
  <2>1. busy' = FALSE /\ ~Pending'
    BY <1>2, <1>6 DEF ReadAsset, Typed
  <2> QED BY <2>1 DEF IdleAgain
<1>7. CASE ReadScript
  BY <1>7 DEF ReadScript, IdleAgain, Idle
<1>8. CASE RecordAnswered
  <2>1. ~busy' /\ ~Pending'
    BY <1>2, <1>8 DEF RecordAnswered
  <2> QED BY <2>1 DEF IdleAgain
<1>9. CASE LegDenied \/ Join
  <2>1. ~busy' /\ ~Pending'
    BY <1>3, <1>9 DEF LegDenied, Join
  <2> QED BY <2>1 DEF IdleAgain
<1>10. CASE LegGranted \/ EntryGranted \/ EntryFails
  BY <1>4, <1>10 DEF LegGranted, EntryGranted, EntryFails, Idle
<1>11. CASE Timer \/ CancelJoins
  BY <1>4, <1>11 DEF Timer, SessionTimesOut, CommandTimesOut, GraceEnds, CancelJoins, Idle
<1>12. CASE Reports
  BY <1>4, <1>12 DEF Reports, Greet, RefuseExcess, Report, ReportTimeout, Idle
<1>13. CASE Drain
  BY <1>13 DEF Drain, IdleAgain, Idle
<1>14. ASSUME NEW c \in Commands, WorkerStep(c) PROVE UNCHANGED <<pc, shell, busy>>
  BY <1>14 DEF WorkerStep, CallStarts, CallReturns, ScriptEnds, WorkerReturns,
     WorkerPanics, WorkerOnly
<1>15. CASE RuntimeShutdown \/ Terminated \/ UNCHANGED vars
  BY <1>4, <1>15 DEF RuntimeShutdown, WorkerOnly, Terminated, vars
<1>16. ASSUME NEW c \in Commands, WorkerStep(c) PROVE IdleAgain'
  BY <1>4, <1>14, <1>16
<1> QED BY <1>5, <1>6, <1>7, <1>8, <1>9, <1>10, <1>11, <1>12, <1>13, <1>15, <1>16
     DEF Next, Client, Broker

LEMMA EchoedPreserved ==
  ASSUME Placed, Typed, Framed, Settled, Fresh, IdleAgain, Echoed, [Next]_vars
  PROVE  Echoed'
<1> DEFINE Speaking == {"opening", "recording", "completing", "reporting"}
<1>1. /\ shell \in Seq(Exits) /\ {"zero", "nonzero", "running"} \subseteq Exits
      /\ Len(shell) \in Nat /\ before \in Nat
  BY DEF Typed, Exits
<1>2. ASSUME pc' \notin Speaking PROVE Echoed'
  BY <1>2 DEF Echoed
<1>3. CASE ReadRefused \/ ReadSmoke
  BY <1>1, <1>3 DEF ReadRefused, ReadSmoke, Read, Echoed
<1>4. CASE ReadScript
  <2>1. /\ pc' = "opening" /\ before' = Len(shell) /\ Len(shell') = before' + 1
        /\ shell'[before' + 1] = "running"
    BY <1>1, <1>4, AppendOutcome DEF ReadScript, Read
  <2> QED BY <2>1 DEF Echoed
<1>5. CASE ReadAsset
  <2>1. n + 1 \in Commands /\ n + 1 > n
    BY <1>5, StructuredAssumption DEF ReadAsset, Read, Placed, Commands
  <2>2. worker[n + 1] = "none"
    BY <2>1 DEF Fresh
  <2>3. PICK exit \in {"zero", "nonzero"} :
          shell' = Append(shell, exit) /\ result' = [result EXCEPT ![n + 1] = exit]
    BY <1>5 DEF ReadAsset
  <2>4. before' = Len(shell) /\ n' = n + 1 /\ pc' = "reporting" /\ worker' = worker
    BY <1>5 DEF ReadAsset, Read
  <2>5. shell'[before' + 1] = exit
    BY <1>1, <2>3, <2>4, AppendOutcome
  <2>6. result'[n'] = exit /\ worker'[n'] = "none"
    BY <2>1, <2>2, <2>3, <2>4 DEF Typed
  <2> QED BY <2>4, <2>5, <2>6 DEF Echoed
<1>6. CASE RecordAnswered
  <2>1. n \in Commands /\ pc = "recording"
    BY <1>6 DEF RecordAnswered, Placed, Active
  <2>2. worker[n] = "none" /\ Len(shell) = before
    BY <2>1 DEF Fresh, Echoed
  <2>3. PICK exit \in {"zero", "nonzero"} :
          shell' = Append(shell, exit) /\ result' = [result EXCEPT ![n] = exit]
    BY <1>6 DEF RecordAnswered
  <2>4. UNCHANGED <<before, n, worker>> /\ pc' = "reporting"
    BY <1>6 DEF RecordAnswered
  <2>5. shell'[before' + 1] = exit
    BY <1>1, <2>2, <2>3, <2>4, AppendOutcome
  <2>6. result'[n'] = exit /\ worker'[n'] = "none"
    BY <2>1, <2>2, <2>3, <2>4 DEF Typed
  <2> QED BY <2>4, <2>5, <2>6 DEF Echoed
<1>7. CASE LegGranted
  <2>1. /\ pc = "opening" /\ pc' = "completing" /\ UNCHANGED <<n, shell, before, mail>>
        /\ n \in Commands /\ worker'[n] = "boundary"
    BY <1>7 DEF LegGranted, Placed, Active, Typed
  <2>2. n \notin mail
    BY <2>1 DEF Settled
  <2> QED BY <2>1, <2>2 DEF Echoed
<1>8. CASE LegDenied
  <2>1. Len(shell) = before + 1 /\ shell[Len(shell)] = "running"
    BY <1>8 DEF LegDenied, Echoed
  <2>2. Pending
    BY <1>1, <2>1 DEF Pending
  <2>3. shell'[before' + 1] = "nonzero"
    BY <1>1, <1>8, <2>1, <2>2, FinishOutcome DEF LegDenied
  <2> QED BY <1>8, <2>3 DEF LegDenied, Echoed
<1>9. CASE Drain
  <2>1. /\ UNCHANGED <<pc, n, before, worker, result>> /\ pc = "completing"
        /\ n \in mail /\ n \notin mail' /\ shell' = Finish(result[n])
    BY <1>9 DEF Drain
  <2>2. /\ worker[n] \in {"sent", "returned"} /\ result[n] # "running"
        /\ Len(shell) = before + 1 /\ shell[Len(shell)] = "running"
    BY <2>1 DEF Echoed
  <2>3. Pending /\ result[n] \in Exits
    BY <1>1, <2>1, <2>2 DEF Pending, Typed, Placed, Active
  <2>4. Len(shell') = before + 1 /\ shell'[before + 1] = result[n]
    BY <1>1, <2>1, <2>2, <2>3, FinishOutcome
  <2> QED BY <2>1, <2>2, <2>4 DEF Echoed
<1>10. CASE Join
  <2>1. /\ UNCHANGED <<n, before, worker, result>> /\ pc = "completing"
        /\ n \notin mail /\ shell' = Finish("nonzero") /\ pc' = "reporting"
        /\ worker[n] \in {"returned", "panicked"} /\ Len(shell) = before + 1
    BY <1>10 DEF Join, Done, workerVars, Echoed
  <2>2. CASE shell[before + 1] = "running"
    <3>1. Pending
      BY <1>1, <2>1, <2>2 DEF Pending
    <3>2. shell'[before' + 1] = "nonzero"
      BY <1>1, <2>1, <3>1, FinishOutcome
    <3> QED BY <2>1, <3>2 DEF Echoed
  <2>3. CASE shell[before + 1] # "running"
    <3>1. shell' = shell
      BY <1>1, <2>1, <2>3, FinishOutcome DEF Pending
    <3>2. worker[n] = "returned" /\ shell[before + 1] = result[n]
      BY <2>1, <2>3 DEF Echoed
    <3> QED BY <2>1, <3>1, <3>2 DEF Echoed
  <2> QED BY <2>2, <2>3
<1>11. ASSUME NEW c \in Commands, WorkerStep(c) PROVE Echoed'
  <2>1. UNCHANGED <<pc, n, before, shell>> /\ Alive(c)
    BY <1>11, WorkerTouchesOne
  <2>2. CASE pc = "completing"
    <3>1. c = n
      BY <2>1 DEF Settled
    <3>2. Len(shell) = before + 1
      BY <2>2 DEF Echoed
    <3>3. CASE worker[n] \in {"boundary", "calling"}
      <4>1. n \notin mail /\ shell[before + 1] = "running"
        BY <2>2, <3>3 DEF Echoed
      <4> QED BY <1>11, <2>1, <2>2, <3>1, <3>2, <3>3, <4>1, WorkerTouchesOne DEF Echoed
    <3>4. CASE worker[n] = "sent"
      <4>1. worker'[n] = "returned" /\ result'[n] = result[n] /\ mail' = mail
        BY <1>11, <3>1, <3>4, WorkerTouchesOne
      <4> QED BY <2>1, <2>2, <3>2, <3>4, <4>1 DEF Echoed
    <3> QED BY <2>1, <3>1, <3>3, <3>4 DEF Alive
  <2>3. CASE pc # "completing"
    <3>1. pc # "reporting"
      BY <2>1 DEF Settled
    <3> QED BY <2>1, <2>3, <3>1 DEF Echoed
  <2> QED BY <2>2, <2>3
<1>12. CASE ReadEof \/ ReadFails \/ ReadExcess \/ WriteFails \/ EntryGranted \/ EntryFails
  BY <1>2, <1>12 DEF ReadEof, ReadFails, ReadExcess, WriteFails, EntryGranted, EntryFails
<1>13. CASE Timer \/ CancelJoins \/ Reports
  BY <1>2, <1>13 DEF Timer, SessionTimesOut, CommandTimesOut, GraceEnds, CancelJoins,
     Reports, Greet, RefuseExcess, Report, ReportTimeout
<1>14. CASE RuntimeShutdown
  BY <1>2, <1>14 DEF RuntimeShutdown, WorkerOnly, Ended
<1>15. CASE Terminated \/ UNCHANGED vars
  BY <1>15 DEF Terminated, vars, workerVars, Echoed
<1> QED BY <1>3, <1>4, <1>5, <1>6, <1>7, <1>8, <1>9, <1>10, <1>11, <1>12, <1>13, <1>14,
     <1>15 DEF Next, Client, Broker

-------------------------------------------------------------------------------
(* `ok` is only ever written of a line that succeeded, and stays true.     *)

LEMMA TruthPreserved ==
  ASSUME Placed, Typed, Framed, Settled, Fresh, Echoed, OkMeansThisLineSucceeded,
         [Next]_vars
  PROVE  OkMeansThisLineSucceeded'
<1>1. ASSUME UNCHANGED <<worker, result>>,
             \A c \in Commands : Answered(c, {"ok"})' => Answered(c, {"ok"})
      PROVE  OkMeansThisLineSucceeded'
  BY <1>1 DEF OkMeansThisLineSucceeded
<1>2. ASSUME NEW changed, frames' = frames, ~Answered(changed, {"ok"}),
             \A c \in Commands \ {changed} : UNCHANGED <<worker[c], result[c]>>
      PROVE  OkMeansThisLineSucceeded'
  BY <1>2 DEF OkMeansThisLineSucceeded, Answered
<1>3. CASE Reports
  <2>1. UNCHANGED <<worker, result, n>> /\ n \in 0 .. MaxCommands + 1
    BY <1>3 DEF Reports, Greet, RefuseExcess, Report, ReportTimeout, workerVars, Placed
  <2>2. ASSUME NEW status \in {"ready", "error", "timeout"}, NEW cmd \in 0 .. MaxCommands + 1,
               Write(cmd, status)
        PROVE  OkMeansThisLineSucceeded'
    <3>1. status # "ok"
      BY <2>2
    <3>2. \A c \in Commands : Answered(c, {"ok"})' <=> Answered(c, {"ok"})
      BY <2>2, <3>1, AnsweredAfter DEF Framed
    <3> QED BY <1>1, <2>1, <3>2
  <2>3. CASE Greet
    BY <2>2, <2>3, StructuredAssumption DEF Greet
  <2>4. CASE RefuseExcess \/ ReportTimeout
    BY <2>1, <2>2, <2>4 DEF RefuseExcess, ReportTimeout
  <2>5. CASE Report /\ Status = "error"
    BY <2>1, <2>2, <2>5 DEF Report
  <2>6. CASE Report /\ Status = "ok"
    <3>1. result[n] = "zero" /\ worker[n] \in {"none", "returned"}
      BY <2>6 DEF Report, Status, Echoed
    <3>2. Write(n, "ok")
      BY <2>6 DEF Report
    <3>3. \A c \in Commands : Answered(c, {"ok"})' => Answered(c, {"ok"}) \/ c = n
      BY <2>1, <3>2, AnsweredAfter DEF Framed
    <3> QED BY <2>1, <3>1, <3>3 DEF OkMeansThisLineSucceeded
  <2> QED BY <1>3, <2>3, <2>4, <2>5, <2>6, StatusTyped DEF Reports
<1>4. CASE ReadAsset
  <2>1. Len(frames) = n + 1 /\ \A i \in 1 .. Len(frames) : frames[i].cmd = i - 1
    BY <1>4 DEF ReadAsset, Read, Framed
  <2>2. ~Answered(n + 1, {"ok"})
    BY <2>1 DEF Answered, Placed
  <2> QED BY <1>2, <1>4, <2>2 DEF ReadAsset, Typed
<1>5. CASE RecordAnswered \/ LegGranted
  <2>1. ~Answered(n, {"ok"})
    BY <1>5, Unanswered DEF RecordAnswered, LegGranted, Active
  <2> QED BY <1>2, <1>5, <2>1 DEF RecordAnswered, LegGranted, Typed
<1>6. ASSUME NEW c \in Commands, WorkerStep(c) PROVE OkMeansThisLineSucceeded'
  <2>1. ~Answered(c, {"ok"})
    BY <1>6, WorkerTouchesOne DEF Settled, Answered
  <2> QED BY <1>2, <1>6, <2>1, WorkerTouchesOne
<1>7. CASE RuntimeShutdown
  <2>1. /\ UNCHANGED <<frames, result>>
        /\ \A c \in Commands : worker'[c] = IF Alive(c) THEN "killed" ELSE worker[c]
    BY <1>7 DEF RuntimeShutdown, WorkerOnly
  <2>2. \A c \in Commands : Alive(c) => ~Answered(c, {"ok"})
    BY DEF Settled, Answered
  <2> QED BY <2>1, <2>2 DEF OkMeansThisLineSucceeded, Answered
<1>8. CASE Client /\ ~ReadAsset
  <2>1. UNCHANGED <<worker, result, frames>>
    BY <1>8 DEF Client, ReadRefused, ReadSmoke, ReadScript, ReadEof, ReadFails, ReadExcess,
       WriteFails, workerVars
  <2> QED BY <1>1, <2>1 DEF Answered
<1>9. CASE EntryGranted \/ EntryFails \/ LegDenied \/ Timer \/ CancelJoins \/ Drain \/ Join
  <2>1. UNCHANGED <<worker, result, frames>>
    BY <1>9 DEF EntryGranted, EntryFails, LegDenied, Timer, SessionTimesOut,
       CommandTimesOut, GraceEnds, CancelJoins, Drain, Join, workerVars
  <2> QED BY <1>1, <2>1 DEF Answered
<1>10. CASE Terminated \/ UNCHANGED vars
  BY <1>1, <1>10 DEF Terminated, vars, workerVars, Answered
<1> QED BY <1>3, <1>4, <1>5, <1>6, <1>7, <1>8, <1>9, <1>10 DEF Next, Broker

-------------------------------------------------------------------------------
LEMMA NextPreserves == IInv /\ [Next]_vars => IInv'
  BY PlacedPreserved, TypedPreserved, FramedPreserved, SettledPreserved, FreshPreserved,
     StoppedPreserved, IdlePreserved, EchoedPreserved, TruthPreserved DEF IInv

THEOREM Inductive == Spec => []IInv
<1> QED BY InitEstablishes, NextPreserves, PTL DEF Spec

(* Every variable keeps its type, whatever the deadlines cut short: no     *)
(* line past the limit of run_with_limits gets a worker.                   *)
THEOREM TypeCorrect == Spec => []TypeOK
<1>1. IInv => TypeOK
  BY DEF IInv, Placed, Typed, Framed, TypeOK
<1> QED BY <1>1, Inductive, PTL

(* `ok` is said of a line only if that very line ended in success: the     *)
(* entry at `before` is that line's own or there is none.                  *)
THEOREM OkIsTrue == Spec => []OkMeansThisLineSucceeded
<1>1. IInv => OkMeansThisLineSucceeded
  BY DEF IInv
<1> QED BY <1>1, Inductive, PTL

(* Once a line is answered with `ok` or `error`, complete and settle_turn  *)
(* have left no worker, no queued event and no stop binding of it.         *)
THEOREM AnswersAreSettled == Spec => []AnsweredMeansSettled
<1>1. ASSUME IInv, NEW c \in Commands, Answered(c, {"ok", "error"})
      PROVE  ~Alive(c) /\ c \notin mail /\ handle # c
  <2>1. ~Alive(c) /\ c \notin mail
    BY <1>1 DEF IInv, Settled
  <2>2. CASE pc \in Bound
    <3>1. c # n
      BY <1>1, <2>2, Unanswered DEF IInv, Bound, Active
    <3> QED BY <1>1, <2>1, <2>2, <3>1 DEF IInv, Stopped
  <2>3. CASE pc \notin Bound
    <3>1. handle = 0 /\ c # 0
      BY <1>1, <2>3, StructuredAssumption DEF IInv, Stopped, Commands
    <3> QED BY <2>1, <3>1
  <2> QED BY <2>2, <2>3
<1>2. IInv => AnsweredMeansSettled
  BY <1>1 DEF AnsweredMeansSettled
<1> QED BY <1>2, Inductive, PTL

(* A script only runs for the line read last, while that line has no       *)
(* answer or after `timeout`: abandoning a worker ends the session.        *)
THEOREM LinesRunAlone == Spec => []OneLineAtATime
<1>1. IInv => OneLineAtATime
  BY DEF IInv, Settled, OneLineAtATime
<1> QED BY <1>1, Inductive, PTL

(* The next line finds the console idle: dispatch refuses none of them as  *)
(* if another command were still running.                                  *)
THEOREM LinesFindIdle == Spec => []IdleBetweenLines
<1>1. IInv => IdleBetweenLines
  BY DEF IInv, IdleAgain, Stopped, IdleBetweenLines, Idle, Bound
<1> QED BY <1>1, Inductive, PTL

(* Exit code 0 means that every submitted line was answered, in order, and *)
(* none was left uncertain or over the limit.                              *)
THEOREM SuccessIsComplete == Spec => []SuccessMeansAllAnswered
<1>1. IInv => SuccessMeansAllAnswered
  BY DEF IInv, Framed, SuccessMeansAllAnswered
<1> QED BY <1>1, Inductive, PTL

(* After "outcome unknown" nothing more is said, read or started: the      *)
(* abandoned script was told to stop, and makes no further call.           *)
THEOREM TimeoutIsFinal == Spec => UncertainIsFinal
<1> DEFINE Final == Answered(n, {"timeout"}) => UNCHANGED <<frames, n, calls>>
<1>1. IInv /\ [Next]_vars => Final
  <2> SUFFICES ASSUME IInv, [Next]_vars, Answered(n, {"timeout"})
               PROVE  UNCHANGED <<frames, n, calls>>
    OBVIOUS
  <2>1. pc = "failed"
    BY DEF IInv, Framed, Answered
  <2>2. ASSUME NEW c \in Commands, WorkerStep(c) PROVE UNCHANGED <<frames, n, calls>>
    <3>1. Typed /\ Fresh /\ Alive(c) => c \in fired
      BY <2>1 DEF IInv, Stopped
    <3>2. c \in fired /\ UNCHANGED <<frames, n>>
      BY <2>2, <3>1, WorkerTouchesOne DEF IInv
    <3> QED BY <2>2, <3>2 DEF WorkerStep, CallStarts, CallReturns, ScriptEnds,
         WorkerReturns, WorkerPanics
  <2>3. ~Client /\ ~Broker /\ ~Timer /\ ~Reports /\ ~Drain /\ ~Join /\ ~CancelJoins
    BY <2>1 DEF Client, Read, ReadRefused, ReadAsset, ReadSmoke, ReadScript, ReadEof,
       ReadFails, ReadExcess, WriteFails, Broker, EntryGranted, EntryFails, RecordAnswered,
       LegGranted, LegDenied, Timer, SessionTimesOut, CommandTimesOut, GraceEnds, Reports,
       Greet, RefuseExcess, Report, ReportTimeout, Drain, Join, CancelJoins
  <2>4. CASE RuntimeShutdown \/ Terminated \/ UNCHANGED vars
    BY <2>4 DEF RuntimeShutdown, WorkerOnly, Terminated, vars, workerVars
  <2> QED BY <2>2, <2>3, <2>4 DEF Next
<1>2. IInv /\ [Next]_vars => [Final]_vars
  BY <1>1
<1>3. Spec => [][Final]_vars
  <2>1. Spec => []IInv
    BY Inductive
  <2>2. Spec => [][Next]_vars
    BY DEF Spec
  <2> HIDE DEF Final
  <2> QED BY <1>2, <2>1, <2>2, PTL
<1> QED BY <1>3 DEF UncertainIsFinal

-------------------------------------------------------------------------------
(* Structured implements FrameProtocol. *)

Effects == {c \in Commands : Alive(c)}
Won == {c \in Commands : result[c] = "zero" /\ ~Alive(c)}

LEMMA InitRefines == Init => Promise!Init
<1> SUFFICES ASSUME Init PROVE Promise!Init
  OBVIOUS
<1>1. \A c \in Commands : ~Alive(c) /\ result[c] # "zero"
  BY DEF Init, Alive
<1>2. frames = <<>> /\ ~Ended
  BY DEF Init, Ended
<1> QED BY <1>1, <1>2 DEF Promise!Init

(* A step that says nothing and leaves the scripts alone is seen only if   *)
(* the session ends.                                                       *)
LEMMA SilentRefines ==
  ASSUME UNCHANGED <<frames, worker, result>>, Ended => Ended'
  PROVE  [Promise!Next]_(Promise!vars)
<1>1. \A c \in Commands : Alive(c)' = Alive(c)
  BY DEF Alive
<1>2. Effects' = Effects /\ Won' = Won
  BY <1>1 DEF Effects, Won
<1>3. CASE Ended' = Ended
  BY <1>2, <1>3 DEF Promise!vars, Effects, Won
<1>4. CASE Ended' # Ended
  <2>1. ~Ended /\ Ended'
    BY <1>4 DEF Ended
  <2>2. Promise!End
    BY <1>2, <2>1 DEF Promise!End, Effects, Won
  <2> QED BY <2>2 DEF Promise!Next
<1> QED BY <1>3, <1>4

(* While the loop is at a line without a script, nothing has effects. *)
LEMMA NoEffects ==
  ASSUME Settled, pc \notin {"completing", "cancelling", "expired", "failed"}
  PROVE  Effects = {}
  BY DEF Settled, Effects

(* What a line answered on the spot came to: Succeed, or nothing seen. *)
LEMMA OutcomeRefines ==
  ASSUME Typed, Settled, NEW c \in Commands, Len(frames) = c, worker[c] = "none",
         result[c] = "running", Effects = {}, ~Ended, ~Ended',
         UNCHANGED <<frames, worker>>,
         NEW exit \in {"zero", "nonzero"}, result' = [result EXCEPT ![c] = exit]
  PROVE  [Promise!Next]_(Promise!vars)
<1>1. Effects' = Effects /\ ~Alive(c)' /\ \A d \in Commands : Alive(d)' = Alive(d)
  BY DEF Effects, Alive
<1>2. \A d \in Commands : result'[d] = IF d = c THEN exit ELSE result[d]
  BY DEF Typed
<1>3. CASE exit = "zero"
  <2>1. Won' = Won \cup {c}
    BY <1>1, <1>2, <1>3 DEF Won
  <2>2. Ended' = Ended
    BY DEF Ended
  <2>3. Promise!Succeed
    BY <1>1, <2>1, <2>2 DEF Promise!Succeed, Promise!Current, Effects, Won, Commands
  <2> QED BY <2>3 DEF Promise!Next
<1>4. CASE exit # "zero"
  <2>1. Won' = Won
    BY <1>1, <1>2, <1>4 DEF Won
  <2>2. Ended' = Ended
    BY DEF Ended
  <2> QED BY <1>1, <2>1, <2>2 DEF Promise!vars, Effects, Won
<1> QED BY <1>3, <1>4

(* Every step of a script is Begin's, EffectsEnd's or not seen at all. *)
LEMMA WorkerRefines ==
  ASSUME IInv, NEW c \in Commands, WorkerStep(c)
  PROVE  [Promise!Next]_(Promise!vars)
<1>1. /\ UNCHANGED <<pc, frames>> /\ Alive(c)
      /\ \A d \in Commands \ {c} : UNCHANGED <<worker[d], result[d]>>
  BY WorkerTouchesOne DEF IInv
<1>2. Ended' = Ended
  BY <1>1 DEF Ended
<1>3. \A d \in Commands \ {c} : Alive(d)' = Alive(d)
  BY <1>1 DEF Alive
<1>4. Effects = {c}
  BY <1>1 DEF IInv, Settled, Effects
<1>5. CASE Alive(c)'
  <2>1. Effects' = Effects /\ Won' = Won
    BY <1>1, <1>3, <1>5 DEF Effects, Won
  <2> QED BY <1>1, <1>2, <2>1 DEF Promise!vars, Effects, Won
<1>6. CASE ~Alive(c)'
  <2>1. Effects' = {}
    BY <1>3, <1>4, <1>6 DEF Effects
  <2>2. Won' = Won \/ Won' = Won \cup Effects
    <3>1. CASE result'[c] = "zero"
      <4>1. Won' = Won \cup {c}
        BY <1>1, <1>3, <1>6, <3>1 DEF Won
      <4> QED BY <1>4, <4>1
    <3>2. CASE result'[c] # "zero"
      <4>1. Won' = Won
        BY <1>1, <1>3, <3>2 DEF Won
      <4> QED BY <4>1
    <3> QED BY <3>1, <3>2
  <2>3. Promise!EffectsEnd
    BY <1>1, <1>2, <1>4, <2>1, <2>2 DEF Promise!EffectsEnd, Effects, Won
  <2> QED BY <2>3 DEF Promise!Next
<1> QED BY <1>5, <1>6

(* A frame is Greet, Answer, RefuseExcess or GiveUp. *)
LEMMA ReportRefines ==
  ASSUME IInv, Reports
  PROVE  [Promise!Next]_(Promise!vars)
<1>1. UNCHANGED <<worker, result>> /\ ~Ended
  BY DEF Reports, Greet, RefuseExcess, Report, ReportTimeout, workerVars, Ended
<1>2. Effects' = Effects /\ Won' = Won
  BY <1>1 DEF Effects, Won, Alive
<1>3. CASE Greet
  <2>1. n = 0 /\ frames = <<>> /\ frames' = Append(frames, Frame(0, "ready")) /\ ~Ended'
    BY <1>3 DEF Greet, Write, IInv, Framed, Placed, Greeting, Ended
  <2>2. Frame(0, "ready") = Promise!Frame(0, "ready")
    BY DEF Frame, Promise!Frame
  <2>3. frames' = <<Promise!Frame(0, "ready")>>
    BY <2>1, <2>2
  <2>4. Promise!Greet
    BY <1>1, <1>2, <2>1, <2>3 DEF Promise!Greet, Effects, Won, Ended
  <2> QED BY <2>4 DEF Promise!Next
<1>4. CASE Report
  <2>1. /\ n \in 1 .. MaxCommands /\ Len(frames) = n /\ ~Ended'
        /\ frames' = Append(frames, Frame(n, Status))
    BY <1>4 DEF Report, Write, IInv, Framed, Placed, Active, Commands, Ended
  <2>2. Effects = {}
    BY <1>4, NoEffects DEF Report, IInv
  <2>3. Frame(n, Status) = Promise!Frame(n, Status)
    BY DEF Frame, Promise!Frame
  <2>4. Status = "ok" => n \in Won
    <3>1. Status = "ok" => result[n] = "zero"
      BY <1>4 DEF Report, Status, IInv, Echoed
    <3> QED BY <2>1, <2>2, <3>1 DEF Won, Effects, Commands
  <2>5. Promise!Answer
    BY <1>1, <1>2, <2>1, <2>2, <2>3, <2>4, StatusTyped
       DEF Promise!Answer, Promise!Current, Effects, Won, Ended
  <2> QED BY <2>5 DEF Promise!Next
<1>5. CASE ReportTimeout
  <2>1. /\ n \in 1 .. MaxCommands /\ Len(frames) = n /\ Ended'
        /\ frames' = Append(frames, Frame(n, "timeout"))
    BY <1>5 DEF ReportTimeout, Write, IInv, Framed, Placed, Active, Commands, Ended
  <2>2. Frame(n, "timeout") = Promise!Frame(n, "timeout")
    BY DEF Frame, Promise!Frame
  <2>3. Promise!GiveUp
    BY <1>1, <1>2, <2>1, <2>2 DEF Promise!GiveUp, Promise!Current, Effects, Won, Ended
  <2> QED BY <2>3 DEF Promise!Next
<1>6. CASE RefuseExcess
  <2>1. /\ n = MaxCommands + 1 /\ Len(frames) = n /\ Ended'
        /\ frames' = Append(frames, Frame(n, "error"))
    BY <1>6 DEF RefuseExcess, Write, IInv, Framed, Placed, Ended
  <2>2. Frame(n, "error") = Promise!Frame(n, "error")
    BY DEF Frame, Promise!Frame
  <2>3. Promise!RefuseExcess
    BY <1>1, <1>2, <2>1, <2>2 DEF Promise!RefuseExcess, Promise!Current, Effects, Won, Ended
  <2> QED BY <2>3 DEF Promise!Next
<1> QED BY <1>3, <1>4, <1>5, <1>6 DEF Reports

LEMMA NextRefines == IInv /\ [Next]_vars => [Promise!Next]_(Promise!vars)
<1> SUFFICES ASSUME IInv, [Next]_vars PROVE [Promise!Next]_(Promise!vars)
  OBVIOUS
<1>1. CASE ReadAsset
  <2>1. /\ n + 1 \in Commands /\ Len(frames) = n + 1 /\ pc = "reading"
        /\ ~Ended /\ ~Ended' /\ UNCHANGED <<frames, worker>>
    BY <1>1, StructuredAssumption
       DEF ReadAsset, Read, IInv, Placed, Framed, Commands, Ended
  <2>2. n + 1 > n
    BY <2>1 DEF IInv, Placed
  <2>3. worker[n + 1] = "none" /\ result[n + 1] = "running"
    BY <2>1, <2>2 DEF IInv, Fresh
  <2>4. Effects = {}
    BY <2>1, NoEffects DEF IInv
  <2>5. PICK exit \in {"zero", "nonzero"} : result' = [result EXCEPT ![n + 1] = exit]
    BY <1>1 DEF ReadAsset
  <2> QED BY <2>1, <2>3, <2>4, <2>5, OutcomeRefines DEF IInv
<1>2. CASE RecordAnswered
  <2>1. /\ n \in Commands /\ Len(frames) = n /\ pc = "recording"
        /\ ~Ended /\ ~Ended' /\ UNCHANGED <<frames, worker>>
    BY <1>2 DEF RecordAnswered, IInv, Placed, Framed, Active, Ended
  <2>2. worker[n] = "none" /\ result[n] = "running"
    BY <2>1 DEF IInv, Fresh
  <2>3. Effects = {}
    BY <2>1, NoEffects DEF IInv
  <2>4. PICK exit \in {"zero", "nonzero"} : result' = [result EXCEPT ![n] = exit]
    BY <1>2 DEF RecordAnswered
  <2> QED BY <2>1, <2>2, <2>3, <2>4, OutcomeRefines DEF IInv
<1>3. CASE LegGranted
  <2>1. /\ n \in Commands /\ Len(frames) = n /\ pc = "opening" /\ ~Ended /\ ~Ended'
        /\ UNCHANGED <<frames, result>> /\ worker' = [worker EXCEPT ![n] = "boundary"]
    BY <1>3 DEF LegGranted, IInv, Placed, Framed, Active, Ended
  <2>2. result[n] = "running" /\ Effects = {}
    BY <2>1, NoEffects DEF IInv, Fresh
  <2>3. \A c \in Commands : Alive(c)' <=> c = n
    BY <2>1, <2>2 DEF Effects, Alive, IInv, Typed
  <2>4. Effects' = {n}
    BY <2>1, <2>3 DEF Effects
  <2>5. Won' = Won /\ n \notin Won
    BY <2>1, <2>2, <2>3 DEF Won, Effects
  <2>6. Promise!Begin
    BY <2>1, <2>2, <2>4, <2>5 DEF Promise!Begin, Promise!Current, Effects, Won, Ended, Commands
  <2> QED BY <2>6 DEF Promise!Next
<1>4. CASE RuntimeShutdown
  <2>1. /\ UNCHANGED <<pc, frames, result>> /\ Ended
        /\ \A c \in Commands : worker'[c] = IF Alive(c) THEN "killed" ELSE worker[c]
        /\ Effects # {}
    BY <1>4 DEF RuntimeShutdown, WorkerOnly, Effects
  <2>2. \A c \in Commands : ~Alive(c)'
    BY <2>1 DEF Alive
  <2>3. PICK c \in Commands : Effects = {c}
    BY <2>1 DEF Effects, IInv, Settled
  <2>4. Effects' = {}
    BY <2>2 DEF Effects
  <2>5. Won' = Won \/ Won' = Won \cup {c}
    BY <2>1, <2>2, <2>3 DEF Won, Effects
  <2>6. Ended' = Ended
    BY <2>1 DEF Ended
  <2>7. Promise!EffectsEnd
    BY <2>1, <2>3, <2>4, <2>5, <2>6 DEF Promise!EffectsEnd, Effects, Won
  <2> QED BY <2>7 DEF Promise!Next
<1>5. CASE Client /\ ~ReadAsset
  BY <1>5, SilentRefines DEF Client, Read, ReadRefused, ReadSmoke, ReadScript, ReadEof,
     ReadFails, ReadExcess, WriteFails, workerVars, Ended
<1>6. CASE EntryGranted \/ EntryFails \/ LegDenied \/ Timer
  BY <1>6, SilentRefines DEF EntryGranted, EntryFails, LegDenied, Timer, SessionTimesOut,
     CommandTimesOut, GraceEnds, workerVars, Ended
<1>7. CASE Drain \/ Join \/ CancelJoins
  BY <1>7, SilentRefines DEF Drain, Join, CancelJoins, workerVars, Ended
<1>8. CASE Terminated \/ UNCHANGED vars
  BY <1>8, SilentRefines DEF Terminated, vars, workerVars, Ended
<1> QED BY <1>1, <1>2, <1>3, <1>4, <1>5, <1>6, <1>7, <1>8, WorkerRefines, ReportRefines
     DEF Next, Broker

(* Deadlines, cancellation and abandoned workers included, run_with_limits *)
(* is what FrameProtocol promises a client.                                *)
THEOREM PromiseKept == Spec => KeepsPromise
<1>1. Spec => []IInv
  BY Inductive
<1>2. Spec => Promise!Init /\ [][Promise!Next]_(Promise!vars)
  BY <1>1, InitRefines, NextRefines, PTL DEF Spec
<1> QED BY <1>2 DEF KeepsPromise, Promise!Spec
===============================================================================
