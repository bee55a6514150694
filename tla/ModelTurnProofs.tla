---------------------------- MODULE ModelTurnProofs ----------------------------
(***************************************************************************)
(* Whom a stop reaches, among model turns, shell commands and hops that    *)
(* share one flag; what of a worker's session a turn on screen shows; and  *)
(* that the list of calls only grows at its end: for every number of       *)
(* tasks, hops, scripts and calls.                                         *)
(***************************************************************************)
EXTENDS ModelTurn, Counting, TLAPS

-------------------------------------------------------------------------------
(* Types, as far as the channel and the stop flag need them: what a worker *)
(* sends is an event, and a running script has a node of its own.          *)

Sent ==
  {Started(n) : n \in Nat} \cup {Called(n) : n \in Nat} \cup {ScriptOver(n) : n \in Nat}
    \cup {Finished("answered"), Finished("failed"), ShellFinished}
Nodes == [seq : Nat, calls : Seq(Nat), done : BOOLEAN]

TypeInv ==
  /\ loop \in {"select", "leg", "hop"} /\ busy \in BOOLEAN /\ requested \in BOOLEAN
  /\ running \in 0 .. MaxTasks /\ handle \in 0 .. MaxTasks /\ tasks \in 0 .. MaxTasks
  /\ kind \in [Tasks -> {"turn", "shell"}]
  /\ phase \in [Tasks -> Phases]
  /\ mail \in [Tasks -> Seq(Sent)]
  /\ ordinal \in [Tasks -> Nat]
  /\ open \in [Tasks -> SUBSET Nat]
  /\ ledger \in [Tasks -> Seq(Nodes)]
  /\ fired \in SUBSET Tasks /\ asked \in SUBSET Tasks
  /\ \A t \in Tasks : phase[t] = "scripting" => ledger[t] # <<>>
  /\ \A t \in Tasks : open[t] # {} => phase[t] = "scripting"

-------------------------------------------------------------------------------
(* The task in flight.  A session's last event frees the console before    *)
(* its task is joined, so busy does not say whether a task is running; but *)
(* it is only sent by a worker that is done (Unfinished), and so a worker  *)
(* that is alive is the running task's and the console busy with it.       *)

Unfinished(t) == \A i \in 1 .. Len(mail[t]) : mail[t][i].kind # "finished"

InFlight(t) ==
  /\ loop = "select" /\ busy /\ running = t
  /\ Unfinished(t)
  /\ requested <=> t \in asked
  /\ t \in fired <=> t \in asked

TurnInv ==
  /\ handle = running
  /\ \A t \in Tasks : Alive(t) => InFlight(t)
  /\ loop = "leg" => busy /\ tasks \in Tasks /\ phase[tasks] = "none"
  /\ running # 0 => phase[running] # "none"
  /\ \A t \in Tasks : t > tasks => phase[t] = "none"
  /\ \A t \in Tasks : phase[t] = "none" => mail[t] = <<>> /\ t \notin asked /\ t \notin fired
-------------------------------------------------------------------------------
(* Every step keeps the types. *)

LEMMA SentTypes ==
  /\ \A n \in Nat : Started(n) \in Sent /\ Called(n) \in Sent /\ ScriptOver(n) \in Sent
  /\ Finished("answered") \in Sent /\ Finished("failed") \in Sent /\ ShellFinished \in Sent
BY DEF Sent

LEMMA Longer ==
  ASSUME NEW S, NEW s \in Seq(S), NEW e \in S
  PROVE  Append(s, e) \in Seq(S) /\ Len(Append(s, e)) = Len(s) + 1
OBVIOUS

LEMMA EmitTypes ==
  ASSUME TypeInv, NEW t \in Tasks, NEW event \in Sent, Emit(t, event)
  PROVE  /\ mail' \in [Tasks -> Seq(Sent)]
         /\ mail'[t] \in {mail[t], Append(mail[t], event)}
         /\ \A u \in Tasks \ {t} : mail'[u] = mail[u]
<1>1. mail[t] \in Seq(Sent) /\ Append(mail[t], event) \in Seq(Sent)
  BY DEF TypeInv
<1>2. mail' \in {mail, [mail EXCEPT ![t] = Append(mail[t], event)]}
  BY DEF Emit
<1> QED BY <1>1, <1>2 DEF TypeInv

(* A script's node, the last of its task's ledger, keeps its type. *)
LEMMA LastNode ==
  ASSUME TypeInv, NEW t \in Tasks, phase[t] = "scripting"
  PROVE  /\ ledger[t] \in Seq(Nodes) /\ Len(ledger[t]) \in 1 .. Len(ledger[t])
         /\ ledger[t][Len(ledger[t])] \in Nodes
<1>1. ledger[t] \in Seq(Nodes) /\ ledger[t] # <<>>
  BY DEF TypeInv
<1> QED BY <1>1

LEMMA NodeEdits ==
  ASSUME NEW old \in Nodes, NEW n \in Nat
  PROVE  /\ old.seq \in Nat
         /\ [old EXCEPT !.calls = Append(@, n)] \in Nodes
         /\ [old EXCEPT !.done = TRUE] \in Nodes
<1>1. old.seq \in Nat /\ old.done \in BOOLEAN /\ Append(old.calls, n) \in Seq(Nat)
  BY DEF Nodes
<1> QED BY <1>1 DEF Nodes

LEMMA NodeReplaced ==
  ASSUME TypeInv, NEW t \in Tasks, phase[t] = "scripting", NEW node \in Nodes,
         ledger' = [ledger EXCEPT ![t] = [ledger[t] EXCEPT ![Len(ledger[t])] = node]]
  PROVE  /\ ledger' \in [Tasks -> Seq(Nodes)]
         /\ \A u \in Tasks : Len(ledger'[u]) = Len(ledger[u])
<1> DEFINE new == [ledger[t] EXCEPT ![Len(ledger[t])] = node]
<1>1. new \in Seq(Nodes) /\ Len(new) = Len(ledger[t])
  BY LastNode
<1> HIDE DEF new
<1>2. ledger' = [ledger EXCEPT ![t] = new]
  BY DEF new
<1> QED BY <1>1, <1>2 DEF TypeInv

LEMMA TypeInit == Init => TypeInv
<1> SUFFICES ASSUME Init PROVE TypeInv
  OBVIOUS
<1>1. /\ mail \in [Tasks -> Seq(Sent)] /\ ledger \in [Tasks -> Seq(Nodes)]
      /\ ordinal \in [Tasks -> Nat] /\ open \in [Tasks -> SUBSET Nat]
  BY DEF Init
<1>2. /\ kind \in [Tasks -> {"turn", "shell"}] /\ phase \in [Tasks -> Phases]
      /\ \A t \in Tasks : phase[t] # "scripting" /\ open[t] = {}
  BY DEF Init, Phases
<1>3. running \in 0 .. MaxTasks /\ handle \in 0 .. MaxTasks /\ tasks \in 0 .. MaxTasks
  BY ModelTurnAssumption DEF Init
<1>4. loop \in {"select", "leg", "hop"} /\ busy \in BOOLEAN /\ requested \in BOOLEAN
      /\ fired \in SUBSET Tasks /\ asked \in SUBSET Tasks
  BY DEF Init
<1> QED BY <1>1, <1>2, <1>3, <1>4 DEF TypeInv

LEMMA LoopTypes ==
  ASSUME TypeInv, TurnInv,
         Waiting \/ Hop \/ SubmitTurn \/ SubmitShell \/ KeyStop \/ BrokerAnswers
           \/ Receive \/ Settle
  PROVE  TypeInv'
<1>1. CASE Waiting
  BY <1>1 DEF Waiting, vars, appVars, taskVars, workVars, stopVars, TypeInv
<1>2. CASE Hop \/ HopGranted \/ HopDenied
  BY <1>2 DEF Hop, HopGranted, HopDenied, appVars, taskVars, workVars, stopVars, TypeInv
<1>3. ASSUME NEW what \in {"turn", "shell"}, Submit(what) PROVE TypeInv'
  <2>1. tasks + 1 \in 0 .. MaxTasks
    BY <1>3, ModelTurnAssumption DEF Submit, TypeInv
  <2>2. kind' \in [Tasks -> {"turn", "shell"}]
    BY <1>3 DEF Submit, TypeInv
  <2> QED BY <1>3, <2>1, <2>2 DEF Submit, workVars, stopVars, TypeInv
<1>4. CASE Spawned
  <2>1. phase' = [phase EXCEPT ![tasks] = "thinking"] /\ phase' \in [Tasks -> Phases]
    BY <1>4 DEF Spawned, TypeInv, Phases
  <2>2. \A t \in Tasks : phase[t] = phase'[t] \/ (phase'[t] = "thinking" /\ open[t] = {})
    <3>1. tasks \in Tasks /\ phase[tasks] = "none"
      BY <1>4 DEF Spawned, TurnInv
    <3>2. open[tasks] = {}
      BY <3>1 DEF TypeInv
    <3>3. phase'[tasks] = "thinking" /\ \A t \in Tasks \ {tasks} : phase'[t] = phase[t]
      BY <2>1, <3>1 DEF TypeInv
    <3>4. ASSUME NEW t \in Tasks, t = tasks PROVE phase'[t] = "thinking" /\ open[t] = {}
      BY <3>2, <3>3, <3>4
    <3> QED BY <3>3, <3>4
  <2>3. loop = "leg" /\ loop' = "select" /\ running' = tasks /\ handle' = tasks
        /\ requested' = FALSE
        /\ UNCHANGED <<busy, tasks, kind, mail, ordinal, open, ledger, fired, asked>>
    BY <1>4 DEF Spawned, StopBind, taskVars
  <2>4. \A t \in Tasks : phase'[t] = "scripting" => ledger'[t] # <<>>
    BY <2>2, <2>3 DEF TypeInv
  <2>5. \A t \in Tasks : open'[t] # {} => phase'[t] = "scripting"
    BY <2>2, <2>3 DEF TypeInv
  <2> QED BY <2>1, <2>3, <2>4, <2>5 DEF TypeInv
<1>5. CASE TurnRefused \/ ShellRefused
  BY <1>5 DEF TurnRefused, ShellRefused, taskVars, workVars, stopVars, TypeInv
<1>6. CASE KeyStop
  <2>1. fired' \in SUBSET Tasks /\ asked' \in SUBSET Tasks
    BY <1>6 DEF KeyStop, StopRequest, TypeInv, Tasks
  <2> QED BY <1>6, <2>1 DEF KeyStop, StopRequest, taskVars, workVars, TypeInv
<1>7. CASE Receive
  <2>1. running \in Tasks /\ mail[running] \in Seq(Sent) /\ mail[running] # <<>>
    BY <1>7 DEF Receive, TypeInv, Tasks
  <2>2. Tail(mail[running]) \in Seq(Sent)
    BY <2>1
  <2>3. mail' \in [Tasks -> Seq(Sent)]
    BY <1>7, <2>2 DEF Receive, TypeInv
  <2>4. busy' \in BOOLEAN
    BY <1>7 DEF Receive
  <2> QED BY <1>7, <2>3, <2>4 DEF Receive, taskVars, stopVars, TypeInv
<1>8. CASE Settle
  <2>1. running' = 0 /\ handle' = 0 /\ 0 \in 0 .. MaxTasks /\ requested' = FALSE /\ busy' = FALSE
    BY <1>8, ModelTurnAssumption DEF Settle, StopReset
  <2>2. UNCHANGED <<loop, tasks, kind, phase, mail, ordinal, open, ledger, fired, asked>>
    BY <1>8 DEF Settle, StopReset, taskVars, workVars
  <2> QED BY <2>1, <2>2 DEF TypeInv
<1> QED
  BY <1>1, <1>2, <1>3, <1>4, <1>5, <1>6, <1>7, <1>8
     DEF SubmitTurn, SubmitShell, BrokerAnswers

LEMMA WorkerTypes ==
  ASSUME TypeInv, NEW t \in Tasks, WorkerStep(t) \/ WorkerPanics(t)
  PROVE  TypeInv'
<1> SUFFICES /\ phase' \in [Tasks -> Phases] /\ mail' \in [Tasks -> Seq(Sent)]
             /\ ordinal' \in [Tasks -> Nat] /\ open' \in [Tasks -> SUBSET Nat]
             /\ ledger' \in [Tasks -> Seq(Nodes)]
             /\ phase'[t] = "scripting" => ledger'[t] # <<>>
             /\ open'[t] # {} => phase'[t] = "scripting"
             /\ \A u \in Tasks \ {t} :
                  phase'[u] = phase[u] /\ ledger'[u] = ledger[u] /\ open'[u] = open[u]
  <2>1. WorkerOnly
    BY DEF WorkerStep, ScriptStarts, CallStarts, CallReturns, ScriptFinishes, TurnReports,
           ShellReports, WorkerReturns, WorkerPanics
  <2> QED BY <2>1 DEF WorkerOnly, appVars, taskVars, stopVars, TypeInv
<1> USE DEF TypeInv
<1>1. CASE ScriptStarts(t)
  <2>1. Node(ordinal[t], <<>>, FALSE) \in Nodes
    BY DEF Node, Nodes
  <2>2. ledger' = [ledger EXCEPT ![t] = Append(ledger[t], Node(ordinal[t], <<>>, FALSE))]
    BY <1>1 DEF ScriptStarts
  <2>3. ledger' \in [Tasks -> Seq(Nodes)] /\ Len(ledger'[t]) = Len(ledger[t]) + 1
        /\ \A u \in Tasks \ {t} : ledger'[u] = ledger[u]
    <3> DEFINE longer == Append(ledger[t], Node(ordinal[t], <<>>, FALSE))
    <3>1. longer \in Seq(Nodes) /\ Len(longer) = Len(ledger[t]) + 1
      <4>1. ledger[t] \in Seq(Nodes)
        OBVIOUS
      <4> QED BY <2>1, <4>1, Longer
    <3> HIDE DEF longer
    <3>2. ledger' = [ledger EXCEPT ![t] = longer]
      BY <2>2 DEF longer
    <3> QED BY <3>1, <3>2
  <2>6. ledger'[t] # <<>>
    BY <2>3
  <2>4. mail' \in [Tasks -> Seq(Sent)]
    BY <1>1, SentTypes, EmitTypes DEF ScriptStarts
  <2>5. /\ phase' = [phase EXCEPT ![t] = "scripting"] /\ open' = open
        /\ ordinal' = [ordinal EXCEPT ![t] = ordinal[t] + 1]
    BY <1>1 DEF ScriptStarts
  <2> QED BY <2>3, <2>4, <2>5, <2>6 DEF Phases
<1>2. CASE CallStarts(t)
  BY <1>2 DEF CallStarts
<1>3. CASE CallReturns(t)
  <2>1. PICK n \in open[t] :
          /\ open' = [open EXCEPT ![t] = open[t] \ {n}]
          /\ ledger' = [ledger EXCEPT ![t][Len(ledger[t])].calls = Append(@, n)]
          /\ Emit(t, Called(n))
    BY <1>3 DEF CallReturns
  <2>2. phase[t] = "scripting" /\ n \in Nat
    BY <2>1
  <2> DEFINE old == ledger[t][Len(ledger[t])]
             node == [old EXCEPT !.calls = Append(@, n)]
  <2>4. node \in Nodes
    BY <2>2, LastNode, NodeEdits
  <2>5. ledger' = [ledger EXCEPT ![t] = [ledger[t] EXCEPT ![Len(ledger[t])] = node]]
    BY <2>1, <2>2, <2>4, LastNode
  <2>6. ledger' \in [Tasks -> Seq(Nodes)] /\ Len(ledger'[t]) = Len(ledger[t])
    BY <2>2, <2>4, <2>5, NodeReplaced
  <2>7. ledger'[t] # <<>>
    BY <2>2, <2>6, LastNode
  <2>8. mail' \in [Tasks -> Seq(Sent)]
    BY <2>1, <2>2, SentTypes, EmitTypes
  <2>9. UNCHANGED <<phase, ordinal>>
    BY <1>3 DEF CallReturns
  <2>10. \A u \in Tasks \ {t} : ledger'[u] = ledger[u]
    BY <2>5
  <2> HIDE DEF node
  <2> QED BY <2>1, <2>2, <2>6, <2>7, <2>8, <2>9, <2>10
<1>4. CASE ScriptFinishes(t)
  <2>1. /\ phase[t] = "scripting" /\ open[t] = {}
        /\ phase' = [phase EXCEPT ![t] = "thinking"]
        /\ ledger' = [ledger EXCEPT ![t][Len(ledger[t])].done = TRUE]
        /\ Emit(t, ScriptOver(ledger[t][Len(ledger[t])].seq))
        /\ UNCHANGED <<ordinal, open>>
    BY <1>4 DEF ScriptFinishes
  <2> DEFINE old == ledger[t][Len(ledger[t])]
             node == [old EXCEPT !.done = TRUE]
  <2>3. node \in Nodes /\ old.seq \in Nat
    BY <2>1, LastNode, NodeEdits
  <2>4. ledger' = [ledger EXCEPT ![t] = [ledger[t] EXCEPT ![Len(ledger[t])] = node]]
    BY <2>1, <2>3, LastNode
  <2>5. ledger' \in [Tasks -> Seq(Nodes)]
    BY <2>1, <2>3, <2>4, NodeReplaced
  <2>6. mail' \in [Tasks -> Seq(Sent)]
    BY <2>1, <2>3, SentTypes, EmitTypes
  <2>7. \A u \in Tasks \ {t} : ledger'[u] = ledger[u]
    BY <2>4
  <2> HIDE DEF node
  <2> QED BY <2>1, <2>5, <2>6, <2>7 DEF Phases
<1>5. CASE TurnReports(t) \/ ShellReports(t)
  <2>1. phase' = [phase EXCEPT ![t] = "reported"] /\ phase[t] = "thinking"
        /\ UNCHANGED <<ordinal, open, ledger>>
    BY <1>5 DEF TurnReports, ShellReports
  <2>2. mail' \in [Tasks -> Seq(Sent)]
    BY <1>5, SentTypes, EmitTypes DEF TurnReports, ShellReports
  <2> QED BY <2>1, <2>2 DEF Phases
<1>6. CASE WorkerReturns(t)
  BY <1>6 DEF WorkerReturns, Phases
<1>7. CASE WorkerPanics(t)
  BY <1>7 DEF WorkerPanics, Phases
<1> QED BY <1>1, <1>2, <1>3, <1>4, <1>5, <1>6, <1>7 DEF WorkerStep

-------------------------------------------------------------------------------
(* Every step keeps the task in flight. *)

LEMMA TurnInit == Init => TurnInv
BY DEF Init, TurnInv, Alive, Tasks

flightVars == <<running, handle, tasks, phase, mail, requested, fired, asked>>

(* Nobody is alive while the loop awaits, or once the console is free. *)
LEMMA NobodyAlive ==
  ASSUME TurnInv, loop # "select" \/ ~busy PROVE \A t \in Tasks : ~Alive(t)
BY DEF TurnInv, InFlight

(* Hops and refusals: nobody is alive, and the task in flight is left be. *)
LEMMA TurnApart ==
  ASSUME TurnInv, UNCHANGED flightVars, \A t \in Tasks : ~Alive(t), loop' # "leg"
  PROVE  TurnInv'
BY DEF TurnInv, flightVars, Alive

LEMMA TurnSubmit ==
  ASSUME TypeInv, TurnInv, NEW what, Submit(what) PROVE TurnInv'
<1>1. /\ loop' = "leg" /\ busy' /\ tasks' = tasks + 1 /\ tasks + 1 \in Tasks
      /\ UNCHANGED <<running, handle, phase, mail, requested, fired, asked>>
  <2>1. tasks + 1 \in Tasks
    BY ModelTurnAssumption DEF Submit, TypeInv, Tasks
  <2> QED BY <2>1 DEF Submit, workVars, stopVars
<1>2. \A t \in Tasks : ~Alive(t)
  BY NobodyAlive DEF Submit
<1>3. phase[tasks + 1] = "none" /\ \A t \in Tasks : t > tasks + 1 => phase[t] = "none"
  BY <1>1 DEF TurnInv, TypeInv, Tasks
<1> QED BY <1>1, <1>2, <1>3 DEF TurnInv, Alive

(* A fresh leg is bound to a clear flag, and nobody has asked it to stop. *)
LEMMA TurnSpawned == ASSUME TypeInv, TurnInv, Spawned PROVE TurnInv'
<1>1. /\ loop' = "select" /\ running' = tasks /\ handle' = tasks /\ ~requested'
      /\ phase' = [phase EXCEPT ![tasks] = "thinking"]
      /\ UNCHANGED <<busy, tasks, mail, fired, asked>>
  BY DEF Spawned, StopBind, taskVars
<1>2. busy /\ tasks \in Tasks /\ phase[tasks] = "none" /\ \A t \in Tasks : ~Alive(t)
  BY NobodyAlive DEF Spawned, TurnInv
<1>3. mail[tasks] = <<>> /\ tasks \notin asked /\ tasks \notin fired
  BY <1>2 DEF TurnInv
<1>4. phase'[tasks] = "thinking" /\ \A t \in Tasks \ {tasks} : phase'[t] = phase[t]
  BY <1>1, <1>2 DEF TypeInv
<1>5. \A t \in Tasks : Alive(t)' => t = tasks
  BY <1>2, <1>4 DEF Alive
<1>6. ASSUME NEW t \in Tasks, t = tasks PROVE InFlight(t)'
  BY <1>1, <1>2, <1>3, <1>6 DEF InFlight, Unfinished
<1>7. \A t \in Tasks : Alive(t)' => InFlight(t)'
  BY <1>5, <1>6
<1>8. \A t \in Tasks : t > tasks => phase'[t] = "none"
  BY <1>2, <1>4 DEF TurnInv, TypeInv, Tasks
<1>9. \A t \in Tasks : phase'[t] = "none" => mail[t] = <<>> /\ t \notin asked /\ t \notin fired
  BY <1>2, <1>4 DEF TurnInv
<1> QED BY <1>1, <1>4, <1>2, <1>7, <1>8, <1>9 DEF TurnInv

(* A stop reaches the running task's loop and leg, and it is the one asked *)
(* of: the handle is bound to that task and to no other.                   *)
LEMMA TurnStopped == ASSUME TypeInv, TurnInv, KeyStop PROVE TurnInv'
<1>1. /\ requested' /\ fired' = fired \cup ({running} \ {0})
      /\ asked' = asked \cup ({running} \ {0})
      /\ UNCHANGED <<loop, busy, running, handle, tasks, phase, mail>>
  BY DEF KeyStop, StopRequest, TurnInv, taskVars, workVars
<1>2. \A t \in Tasks : Alive(t) => running = t /\ t # 0 /\ InFlight(t)
  BY DEF TurnInv, InFlight, Tasks
<1>3. \A t \in Tasks : Alive(t) => InFlight(t)'
  BY <1>1, <1>2 DEF InFlight, Unfinished
<1>4. \A t \in Tasks : phase[t] = "none" => t \notin asked' /\ t \notin fired'
  BY <1>1 DEF TurnInv
<1> QED BY <1>1, <1>3, <1>4 DEF TurnInv, Alive

(* The last event of a session is only received of a worker that is done. *)
LEMMA TurnReceives == ASSUME TypeInv, TurnInv, Receive PROVE TurnInv'
<1>1. running \in Tasks /\ mail[running] \in Seq(Sent) /\ mail[running] # <<>>
  BY DEF Receive, TypeInv, Tasks
<1>2. /\ mail' = [mail EXCEPT ![running] = Tail(mail[running])]
      /\ busy' = (busy /\ Head(mail[running]).kind # "finished")
      /\ UNCHANGED <<loop, running, handle, tasks, phase, requested, fired, asked>>
  BY DEF Receive, taskVars, stopVars
<1>3. /\ Head(mail[running]) = mail[running][1] /\ 1 \in 1 .. Len(mail[running])
      /\ Len(Tail(mail[running])) = Len(mail[running]) - 1
      /\ \A i \in 1 .. Len(Tail(mail[running])) :
           /\ i + 1 \in 1 .. Len(mail[running])
           /\ Tail(mail[running])[i] = mail[running][i + 1]
  BY <1>1
<1>4. mail'[running] = Tail(mail[running]) /\ \A t \in Tasks \ {running} : mail'[t] = mail[t]
  BY <1>1, <1>2 DEF TypeInv
<1>5. ASSUME NEW t \in Tasks, Alive(t) PROVE InFlight(t)'
  <2>1. InFlight(t) /\ t = running
    BY <1>5 DEF TurnInv, InFlight
  <2>2. \A i \in 1 .. Len(mail[t]) : mail[t][i].kind # "finished"
    BY <2>1 DEF InFlight, Unfinished
  <2>3. busy'
    BY <1>2, <1>3, <2>1, <2>2 DEF InFlight
  <2>4. Unfinished(t)'
    <3>1. mail'[t] = Tail(mail[running])
      BY <1>4, <2>1
    <3>2. \A i \in 1 .. Len(Tail(mail[running])) : Tail(mail[running])[i].kind # "finished"
      BY <1>3, <2>1, <2>2
    <3> QED BY <3>1, <3>2 DEF Unfinished
  <2> QED BY <1>2, <2>1, <2>3, <2>4 DEF InFlight
<1>6. \A t \in Tasks : phase[t] = "none" => mail'[t] = <<>>
  BY <1>1, <1>4 DEF TurnInv
<1> QED BY <1>2, <1>5, <1>6 DEF TurnInv, Alive, Receive

LEMMA TurnSettles == ASSUME TypeInv, TurnInv, Settle PROVE TurnInv'
<1>1. /\ loop' = "select" /\ running' = 0 /\ handle' = 0
      /\ UNCHANGED <<tasks, phase, mail, fired, asked>>
  BY DEF Settle, StopReset, taskVars, workVars
<1>2. \A t \in Tasks : ~Alive(t)
  BY DEF Settle, Joinable, Alive, TurnInv, InFlight
<1> QED BY <1>1, <1>2 DEF TurnInv, Alive

LEMMA TurnLoop ==
  ASSUME TypeInv, TurnInv,
         Waiting \/ Hop \/ SubmitTurn \/ SubmitShell \/ KeyStop \/ BrokerAnswers
           \/ Receive \/ Settle
  PROVE  TurnInv'
<1>1. CASE Waiting
  BY <1>1 DEF Waiting, vars, appVars, taskVars, workVars, stopVars, TurnInv, Alive, InFlight,
              Unfinished
<1>2. CASE Hop \/ HopGranted \/ HopDenied \/ TurnRefused \/ ShellRefused
  <2>1. (loop # "select" \/ ~busy) /\ loop' # "leg" /\ UNCHANGED flightVars
    BY <1>2 DEF Hop, HopGranted, HopDenied, TurnRefused, ShellRefused, appVars, taskVars,
                workVars, stopVars, flightVars
  <2> QED BY <2>1, NobodyAlive, TurnApart
<1> QED
  BY <1>1, <1>2, TurnSubmit, TurnSpawned, TurnStopped, TurnReceives, TurnSettles
     DEF SubmitTurn, SubmitShell, BrokerAnswers

(* A worker moves only while it is alive, or has nothing left to send. *)
LEMMA TurnWorker ==
  ASSUME TypeInv, TurnInv, NEW t \in Tasks, WorkerStep(t) \/ WorkerPanics(t)
  PROVE  TurnInv'
<1>1. UNCHANGED <<loop, busy, running, handle, tasks, requested, fired, asked>>
  BY DEF WorkerStep, ScriptStarts, CallStarts, CallReturns, ScriptFinishes, TurnReports,
         ShellReports, WorkerReturns, WorkerPanics, WorkerOnly, appVars, taskVars, stopVars
<1>2. Alive(t) \/ phase[t] = "reported"
  BY DEF WorkerStep, ScriptStarts, CallStarts, CallReturns, ScriptFinishes, TurnReports,
         ShellReports, WorkerReturns, WorkerPanics, Alive, TypeInv
<1>3. PICK state \in Phases \ {"none"} : phase' = [phase EXCEPT ![t] = state]
  <2>1. CASE CallReturns(t)
    <3>1. phase' = phase /\ phase[t] \in Phases \ {"none"}
      BY <1>2, <2>1 DEF CallReturns, TypeInv, Alive
    <3>2. phase' = [phase EXCEPT ![t] = phase[t]]
      BY <3>1 DEF TypeInv
    <3> QED BY <3>1, <3>2
  <2>2. CASE CallStarts(t)
    <3>1. phase' = phase /\ phase[t] = "scripting"
      BY <2>2 DEF CallStarts
    <3>2. phase' = [phase EXCEPT ![t] = "scripting"]
      BY <3>1 DEF TypeInv
    <3> QED BY <3>2 DEF Phases
  <2> QED
    BY <2>1, <2>2 DEF WorkerStep, ScriptStarts, ScriptFinishes, TurnReports, ShellReports,
                      WorkerReturns, WorkerPanics, Phases
<1>4. phase'[t] = state /\ \A u \in Tasks \ {t} : phase'[u] = phase[u]
  BY <1>3 DEF TypeInv
<1>5. \A u \in Tasks \ {t} : mail'[u] = mail[u]
  BY DEF WorkerStep, ScriptStarts, CallStarts, CallReturns, ScriptFinishes, TurnReports,
         ShellReports, WorkerReturns, WorkerPanics, Emit, TypeInv
<1>6. Alive(t)' => Alive(t) /\ Unfinished(t)'
  <2>1. CASE ScriptStarts(t) \/ CallReturns(t) \/ ScriptFinishes(t)
    <3>1. PICK event \in Sent : Emit(t, event) /\ event.kind # "finished"
      <4>1. CASE ScriptStarts(t)
        BY <4>1, SentTypes DEF ScriptStarts, Started, TypeInv
      <4>2. CASE CallReturns(t)
        BY <4>2, SentTypes DEF CallReturns, Called, TypeInv
      <4>3. CASE ScriptFinishes(t)
        <5>1. ledger[t][Len(ledger[t])].seq \in Nat
          BY <4>3, LastNode DEF ScriptFinishes, Nodes
        <5> QED BY <4>3, <5>1, SentTypes DEF ScriptFinishes, ScriptOver
      <4> QED BY <2>1, <4>1, <4>2, <4>3
    <3>2. Alive(t)
      BY <2>1 DEF ScriptStarts, CallReturns, ScriptFinishes, Alive, TypeInv
    <3>3. Unfinished(t) /\ mail[t] \in Seq(Sent)
      BY <3>2 DEF TurnInv, InFlight, TypeInv
    <3>4. mail'[t] \in {mail[t], Append(mail[t], event)}
      BY <3>1, EmitTypes
    <3>5. \A i \in 1 .. Len(Append(mail[t], event)) :
            Append(mail[t], event)[i].kind # "finished"
      <4>1. \A i \in 1 .. Len(mail[t]) : mail[t][i].kind # "finished"
        BY <3>3 DEF Unfinished
      <4>2. /\ Len(Append(mail[t], event)) = Len(mail[t]) + 1 /\ Len(mail[t]) \in Nat
            /\ \A i \in 1 .. Len(mail[t]) : Append(mail[t], event)[i] = mail[t][i]
            /\ Append(mail[t], event)[Len(mail[t]) + 1] = event
        BY <3>3
      <4> QED BY <3>1, <4>1, <4>2
    <3> QED BY <3>2, <3>3, <3>4, <3>5 DEF Unfinished
  <2>2. CASE CallStarts(t)
    BY <2>2 DEF CallStarts, Alive, TurnInv, InFlight, Unfinished
  <2>3. CASE TurnReports(t) \/ ShellReports(t) \/ WorkerReturns(t) \/ WorkerPanics(t)
    <3>1. phase'[t] \in {"reported", "returned", "dead"}
      BY <2>3 DEF TurnReports, ShellReports, WorkerReturns, WorkerPanics, TypeInv
    <3> QED BY <3>1 DEF Alive
  <2> QED BY <2>1, <2>2, <2>3 DEF WorkerStep
<1>7. ASSUME NEW u \in Tasks, Alive(u)' PROVE InFlight(u)'
  <2>1. Alive(u) /\ Unfinished(u)'
    <3>1. CASE u = t
      BY <1>6, <1>7, <3>1
    <3>2. CASE u # t
      BY <1>4, <1>5, <1>7, <3>2 DEF Alive, TurnInv, InFlight, Unfinished
    <3> QED BY <3>1, <3>2
  <2> QED BY <1>1, <2>1 DEF TurnInv, InFlight
<1>8. \A u \in Tasks : phase'[u] = "none" => phase[u] = "none" /\ mail'[u] = mail[u]
  BY <1>4, <1>5
<1>9. \A u \in Tasks : phase[u] = "none" => phase'[u] = "none"
  BY <1>2, <1>4 DEF Alive
<1>10. running # 0 => phase'[running] # "none"
  BY <1>8 DEF TurnInv, TypeInv, Tasks
<1> QED BY <1>1, <1>7, <1>8, <1>9, <1>10 DEF TurnInv

LEMMA TurnInvariant == Spec => [](TypeInv /\ TurnInv)
<1>1. TypeInv /\ TurnInv /\ [Next]_vars => TypeInv' /\ TurnInv'
  <2>1. TypeInv /\ TurnInv /\ UNCHANGED vars => TypeInv' /\ TurnInv'
    BY DEF vars, appVars, taskVars, workVars, stopVars, TypeInv, TurnInv, Alive, InFlight,
           Unfinished
  <2> QED BY <2>1, LoopTypes, WorkerTypes, TurnLoop, TurnWorker DEF Next
<1> QED BY <1>1, TypeInit, TurnInit, PTL DEF Spec

(* A stop reaches the model loop and the leg of the task it was asked of,  *)
(* and of no later one, although the console is freed before that task is  *)
(* joined and the flag reset: for every number of tasks, hops and calls.   *)
THEOREM StopsAreTheirTasks == Spec => []StopIsThisTasks
<1>1. TurnInv => StopIsThisTasks
  BY DEF TurnInv, InFlight, StopIsThisTasks
<1> QED BY <1>1, TurnInvariant, PTL

(* However early a console is freed and however often `running` is         *)
(* overwritten, no worker that still runs is ever dropped from it.         *)
THEOREM NoWorkerIsDropped == Spec => [](\A t \in Tasks : Alive(t) => busy /\ running = t)
<1>1. TurnInv => \A t \in Tasks : Alive(t) => busy /\ running = t
  BY DEF TurnInv, InFlight
<1> QED BY <1>1, TurnInvariant, PTL
-------------------------------------------------------------------------------
(* What a fold does to a transcript.  An event changes the turn that is    *)
(* running last, and what it does depends on nothing but the turn's prompt,*)
(* scripts and status (Same): a stop marked or a window moved meanwhile    *)
(* changes nothing of it.                                                  *)

NoTokens == [input |-> <<>>, output |-> <<>>, unreported |-> 0]
Turns ==
  [prompt : Nat, scripts : Seq(Nodes), status : {"running", "answered", "failed"},
   tokens : {NoTokens}, stop : BOOLEAN, window : BOOLEAN]

Same(a, b) ==
  /\ Len(a) = Len(b)
  /\ \A i \in 1 .. Len(a) :
       a[i].prompt = b[i].prompt /\ a[i].scripts = b[i].scripts /\ a[i].status = b[i].status

LEMMA Greatest ==
  ASSUME NEW n \in Nat, NEW I \in SUBSET (1 .. n), I # {}
  PROVE  Max(I) \in I /\ \A i \in I : i <= Max(I)
<1> DEFINE below == {n - i : i \in I}
<1>1. below \in SUBSET Nat /\ below # {} OBVIOUS
<1> HIDE DEF below
<1>2. PICK m \in below : \A k \in below : m <= k BY <1>1, LeastNumber
<1>3. PICK i \in I : m = n - i BY <1>2 DEF below
<1>4. \A j \in I : i >= j
  <2>1. \A j \in I : n - i <= n - j /\ i \in Nat /\ j \in Nat BY <1>2, <1>3 DEF below
  <2>2. QED BY <2>1
<1>5. \E x \in I : \A y \in I : x >= y BY <1>4
<1>6. Max(I) \in I /\ \A y \in I : Max(I) >= y BY <1>5 DEF Max
<1>7. QED BY <1>6

LEMMA Least ==
  ASSUME NEW n \in Nat, NEW I \in SUBSET (1 .. n), I # {}
  PROVE  Min(I) \in I /\ \A i \in I : Min(I) <= i
<1>1. I \in SUBSET Nat OBVIOUS
<1>2. \E x \in I : \A y \in I : x =< y BY <1>1, LeastNumber
<1>3. QED BY <1>2 DEF Min

RunningIn(a) == {i \in 1 .. Len(a) : a[i].status = "running"}

LEMMA RunningTurnIs ==
  ASSUME NEW a \in Seq(Turns)
  PROVE  /\ RunningTurn(a) \in 0 .. Len(a)
         /\ RunningTurn(a) = IF RunningIn(a) = {} THEN 0 ELSE Max(RunningIn(a))
<1>1. RunningTurn(a) = IF RunningIn(a) = {} THEN 0 ELSE Max(RunningIn(a))
  BY DEF RunningTurn, SelectLastInSeq, RunningIn
<1>2. RunningIn(a) \in SUBSET (1 .. Len(a)) /\ Len(a) \in Nat BY DEF RunningIn
<1>3. RunningIn(a) # {} => Max(RunningIn(a)) \in RunningIn(a) BY <1>2, Greatest
<1>4. QED BY <1>1, <1>2, <1>3

UnclosedIn(scripts) == {i \in 1 .. Len(scripts) : ~scripts[i].done}
SeqIn(scripts, n) == {i \in 1 .. Len(scripts) : scripts[i].seq = n}

LEMMA FileCallIs ==
  ASSUME NEW scripts \in Seq(Nodes), NEW n \in Nat
  PROVE  FileCall(scripts, n) =
           IF UnclosedIn(scripts) = {}
           THEN Append(scripts, Node(n, <<n>>, FALSE))
           ELSE [scripts EXCEPT ![Max(UnclosedIn(scripts))].calls = Append(@, n)]
<1> DEFINE i == SelectLastInSeq(scripts, LAMBDA node : ~node.done)
<1>1. i = IF UnclosedIn(scripts) # {} THEN Max(UnclosedIn(scripts)) ELSE 0
  BY DEF SelectLastInSeq, UnclosedIn
<1>2. UnclosedIn(scripts) \in SUBSET (1 .. Len(scripts)) /\ Len(scripts) \in Nat BY DEF UnclosedIn
<1>3. UnclosedIn(scripts) # {} => Max(UnclosedIn(scripts)) \in UnclosedIn(scripts) BY <1>2, Greatest
<1>4. i = 0 <=> UnclosedIn(scripts) = {}
  BY <1>1, <1>2, <1>3
<1>5. FileCall(scripts, n) =
        IF i = 0 THEN Append(scripts, Node(n, <<n>>, FALSE))
        ELSE [scripts EXCEPT ![i].calls = Append(@, n)]
  BY DEF FileCall
<1> HIDE DEF i
<1>6. QED BY <1>1, <1>4, <1>5

LEMMA CloseScriptIs ==
  ASSUME NEW scripts \in Seq(Nodes), NEW n \in Nat
  PROVE  CloseScript(scripts, n) =
           IF SeqIn(scripts, n) = {}
           THEN Append(scripts, Node(n, <<>>, TRUE))
           ELSE [scripts EXCEPT ![Min(SeqIn(scripts, n))].done = TRUE]
<1> DEFINE i == SelectInSeq(scripts, LAMBDA node : node.seq = n)
<1>1. i = IF SeqIn(scripts, n) # {} THEN Min(SeqIn(scripts, n)) ELSE 0
  BY DEF SelectInSeq, SeqIn
<1>2. SeqIn(scripts, n) \in SUBSET (1 .. Len(scripts)) /\ Len(scripts) \in Nat BY DEF SeqIn
<1>3. SeqIn(scripts, n) # {} => Min(SeqIn(scripts, n)) \in SeqIn(scripts, n) BY <1>2, Least
<1>4. i = 0 <=> SeqIn(scripts, n) = {}
  BY <1>1, <1>2, <1>3
<1>5. CloseScript(scripts, n) =
        IF i = 0 THEN Append(scripts, Node(n, <<>>, TRUE))
        ELSE [scripts EXCEPT ![i].done = TRUE]
  BY DEF CloseScript
<1> HIDE DEF i
<1>6. QED BY <1>1, <1>4, <1>5

LEMMA NewNodes ==
  ASSUME NEW n \in Nat
  PROVE  Node(n, <<>>, FALSE) \in Nodes /\ Node(n, <<n>>, FALSE) \in Nodes
         /\ Node(n, <<>>, TRUE) \in Nodes
BY DEF Node, Nodes

LEMMA FileTypes ==
  ASSUME NEW scripts \in Seq(Nodes), NEW n \in Nat
  PROVE  /\ Append(scripts, Node(n, <<>>, FALSE)) \in Seq(Nodes)
         /\ FileCall(scripts, n) \in Seq(Nodes)
         /\ CloseScript(scripts, n) \in Seq(Nodes)
<1>1. Append(scripts, Node(n, <<>>, FALSE)) \in Seq(Nodes) BY NewNodes, Longer
<1>2. FileCall(scripts, n) \in Seq(Nodes)
  <2>1. CASE UnclosedIn(scripts) = {}
    <3>1. FileCall(scripts, n) = Append(scripts, Node(n, <<n>>, FALSE)) BY <2>1, FileCallIs
    <3>2. QED BY <3>1, NewNodes, Longer
  <2>2. CASE UnclosedIn(scripts) # {}
    <3>1. UnclosedIn(scripts) \in SUBSET (1 .. Len(scripts)) /\ Len(scripts) \in Nat
      BY DEF UnclosedIn
    <3>2. Max(UnclosedIn(scripts)) \in 1 .. Len(scripts) BY <2>2, <3>1, Greatest
    <3>3. PICK i \in 1 .. Len(scripts) : i = Max(UnclosedIn(scripts)) BY <3>2
    <3>4. FileCall(scripts, n) = [scripts EXCEPT ![i] = [scripts[i] EXCEPT !.calls = Append(@, n)]]
      BY <2>2, <3>3, FileCallIs
    <3>5. scripts[i] \in Nodes BY <3>3
    <3>6. [scripts[i] EXCEPT !.calls = Append(@, n)] \in Nodes
      BY <3>5, NodeEdits
    <3>7. QED BY <3>4, <3>6
  <2>3. QED BY <2>1, <2>2
<1>3. CloseScript(scripts, n) \in Seq(Nodes)
  <2>1. CASE SeqIn(scripts, n) = {}
    <3>1. CloseScript(scripts, n) = Append(scripts, Node(n, <<>>, TRUE)) BY <2>1, CloseScriptIs
    <3>2. QED BY <3>1, NewNodes, Longer
  <2>2. CASE SeqIn(scripts, n) # {}
    <3>1. SeqIn(scripts, n) \in SUBSET (1 .. Len(scripts)) /\ Len(scripts) \in Nat BY DEF SeqIn
    <3>2. Min(SeqIn(scripts, n)) \in 1 .. Len(scripts) BY <2>2, <3>1, Least
    <3>3. PICK i \in 1 .. Len(scripts) : i = Min(SeqIn(scripts, n)) BY <3>2
    <3>4. CloseScript(scripts, n) = [scripts EXCEPT ![i] = [scripts[i] EXCEPT !.done = TRUE]]
      BY <2>2, <3>3, CloseScriptIs
    <3>5. scripts[i] \in Nodes BY <3>3
    <3>6. [scripts[i] EXCEPT !.done = TRUE] \in Nodes
      BY <3>5, NodeEdits
    <3>7. QED BY <3>4, <3>6
  <2>3. QED BY <2>1, <2>2
<1>4. QED BY <1>1, <1>2, <1>3

(* What each event does to its turn. *)
LEMMA FoldIs ==
  ASSUME NEW turn
  PROVE  /\ \A n \in Nat :
              /\ Fold(turn, Started(n)) =
                   [turn EXCEPT !.scripts = Append(turn.scripts, Node(n, <<>>, FALSE))]
              /\ Fold(turn, Called(n)) = [turn EXCEPT !.scripts = FileCall(turn.scripts, n)]
              /\ Fold(turn, ScriptOver(n)) = [turn EXCEPT !.scripts = CloseScript(turn.scripts, n)]
         /\ \A status : Fold(turn, Finished(status)) = [turn EXCEPT !.status = status]
         /\ Fold(turn, ShellFinished) = turn
<1>1. \A n \in Nat : Fold(turn, Started(n)) =
                   [turn EXCEPT !.scripts = Append(turn.scripts, Node(n, <<>>, FALSE))]
  BY DEF Fold, Started
<1>2. \A n \in Nat : Fold(turn, Called(n)) = [turn EXCEPT !.scripts = FileCall(turn.scripts, n)]
  BY DEF Fold, Called
<1>3. \A n \in Nat : Fold(turn, ScriptOver(n)) =
                   [turn EXCEPT !.scripts = CloseScript(turn.scripts, n)]
  BY DEF Fold, ScriptOver
<1>4. \A status : Fold(turn, Finished(status)) = [turn EXCEPT !.status = status]
  BY DEF Fold, Finished
<1>5. Fold(turn, ShellFinished) = turn BY DEF Fold, ShellFinished
<1>6. QED BY <1>1, <1>2, <1>3, <1>4, <1>5

LEMMA TurnEdits ==
  ASSUME NEW turn \in Turns
  PROVE  /\ \A scripts \in Seq(Nodes) :
              /\ [turn EXCEPT !.scripts = scripts] \in Turns
              /\ [turn EXCEPT !.scripts = scripts].prompt = turn.prompt
              /\ [turn EXCEPT !.scripts = scripts].scripts = scripts
              /\ [turn EXCEPT !.scripts = scripts].status = turn.status
         /\ \A status \in {"running", "answered", "failed"} :
              /\ [turn EXCEPT !.status = status] \in Turns
              /\ [turn EXCEPT !.status = status].prompt = turn.prompt
              /\ [turn EXCEPT !.status = status].scripts = turn.scripts
              /\ [turn EXCEPT !.status = status].status = status
BY DEF Turns

(* An event gives a turn other scripts, or another status, or nothing. *)
LEMMA FoldEffect ==
  ASSUME NEW scripts \in Seq(Nodes), NEW event \in Sent
  PROVE  \/ \E new \in Seq(Nodes) : \A turn \in Turns :
              turn.scripts = scripts => Fold(turn, event) = [turn EXCEPT !.scripts = new]
         \/ \E new \in {"answered", "failed"} : \A turn \in Turns :
              Fold(turn, event) = [turn EXCEPT !.status = new]
         \/ \A turn \in Turns : Fold(turn, event) = turn
<1>1. ASSUME NEW n \in Nat, event = Started(n)
      PROVE  \A turn \in Turns : turn.scripts = scripts =>
               Fold(turn, event) = [turn EXCEPT !.scripts = Append(scripts, Node(n, <<>>, FALSE))]
  <2>1. ASSUME NEW turn \in Turns, turn.scripts = scripts
        PROVE  Fold(turn, event) = [turn EXCEPT !.scripts = Append(scripts, Node(n, <<>>, FALSE))]
    <3>1. Fold(turn, Started(n)) =
            [turn EXCEPT !.scripts = Append(turn.scripts, Node(n, <<>>, FALSE))]
      BY FoldIs
    <3>2. QED BY <1>1, <2>1, <3>1
  <2>2. QED BY <2>1
<1>2. ASSUME NEW n \in Nat, event = Called(n)
      PROVE  \A turn \in Turns : turn.scripts = scripts =>
               Fold(turn, event) = [turn EXCEPT !.scripts = FileCall(scripts, n)]
  <2>1. ASSUME NEW turn \in Turns, turn.scripts = scripts
        PROVE  Fold(turn, event) = [turn EXCEPT !.scripts = FileCall(scripts, n)]
    <3>1. Fold(turn, Called(n)) = [turn EXCEPT !.scripts = FileCall(turn.scripts, n)] BY FoldIs
    <3>2. QED BY <1>2, <2>1, <3>1
  <2>2. QED BY <2>1
<1>3. ASSUME NEW n \in Nat, event = ScriptOver(n)
      PROVE  \A turn \in Turns : turn.scripts = scripts =>
               Fold(turn, event) = [turn EXCEPT !.scripts = CloseScript(scripts, n)]
  <2>1. ASSUME NEW turn \in Turns, turn.scripts = scripts
        PROVE  Fold(turn, event) = [turn EXCEPT !.scripts = CloseScript(scripts, n)]
    <3>1. Fold(turn, ScriptOver(n)) = [turn EXCEPT !.scripts = CloseScript(turn.scripts, n)]
      BY FoldIs
    <3>2. QED BY <1>3, <2>1, <3>1
  <2>2. QED BY <2>1
<1>4. ASSUME NEW status \in {"answered", "failed"}, event = Finished(status)
      PROVE  \A turn \in Turns : Fold(turn, event) = [turn EXCEPT !.status = status]
  BY <1>4, FoldIs
<1>5. CASE event = ShellFinished BY <1>5, FoldIs
<1>6. \/ \E n \in Nat : event = Started(n) \/ event = Called(n) \/ event = ScriptOver(n)
      \/ \E status \in {"answered", "failed"} : event = Finished(status)
      \/ event = ShellFinished
  BY DEF Sent
<1>7. ASSUME NEW n \in Nat
      PROVE  /\ Append(scripts, Node(n, <<>>, FALSE)) \in Seq(Nodes)
             /\ FileCall(scripts, n) \in Seq(Nodes)
             /\ CloseScript(scripts, n) \in Seq(Nodes)
  BY FileTypes
<1>8. CASE \E n \in Nat : event = Started(n) \/ event = Called(n) \/ event = ScriptOver(n)
  <2>1. PICK n \in Nat : event = Started(n) \/ event = Called(n) \/ event = ScriptOver(n)
    BY <1>8
  <2>2. CASE event = Started(n) BY <2>2, <1>1, <1>7
  <2>3. CASE event = Called(n) BY <2>3, <1>2, <1>7
  <2>4. CASE event = ScriptOver(n) BY <2>4, <1>3, <1>7
  <2>5. QED BY <2>1, <2>2, <2>3, <2>4
<1>9. CASE \E status \in {"answered", "failed"} : event = Finished(status)
  <2>1. PICK status \in {"answered", "failed"} : event = Finished(status) BY <1>9
  <2>2. \A turn \in Turns : Fold(turn, event) = [turn EXCEPT !.status = status] BY <2>1, <1>4
  <2>3. QED BY <2>2
<1>10. QED BY <1>5, <1>6, <1>8, <1>9

(* The parts of a turn after an event. *)
LEMMA FoldTypes ==
  ASSUME NEW turn \in Turns, NEW event \in Sent
  PROVE  Fold(turn, event) \in Turns /\ Fold(turn, event).prompt = turn.prompt
<1>1. turn.scripts \in Seq(Nodes) BY DEF Turns
<1>2. \/ \E new \in Seq(Nodes) : Fold(turn, event) = [turn EXCEPT !.scripts = new]
      \/ \E new \in {"answered", "failed"} : Fold(turn, event) = [turn EXCEPT !.status = new]
      \/ Fold(turn, event) = turn
  BY <1>1, FoldEffect
<1>3. CASE \E new \in Seq(Nodes) : Fold(turn, event) = [turn EXCEPT !.scripts = new]
  <2>1. PICK new \in Seq(Nodes) : Fold(turn, event) = [turn EXCEPT !.scripts = new] BY <1>3
  <2>2. [turn EXCEPT !.scripts = new] \in Turns /\ [turn EXCEPT !.scripts = new].prompt = turn.prompt
    BY TurnEdits
  <2>3. QED BY <2>1, <2>2
<1>4. CASE \E new \in {"answered", "failed"} : Fold(turn, event) = [turn EXCEPT !.status = new]
  <2>1. PICK new \in {"answered", "failed"} : Fold(turn, event) = [turn EXCEPT !.status = new]
    BY <1>4
  <2>2. new \in {"running", "answered", "failed"} OBVIOUS
  <2>3. [turn EXCEPT !.status = new] \in Turns /\ [turn EXCEPT !.status = new].prompt = turn.prompt
    BY <2>2, TurnEdits
  <2>4. QED BY <2>1, <2>3
<1>5. QED BY <1>2, <1>3, <1>4

LEMMA FoldSame ==
  ASSUME NEW a \in Turns, NEW b \in Turns, NEW event \in Sent,
         a.prompt = b.prompt, a.scripts = b.scripts, a.status = b.status
  PROVE  /\ Fold(a, event).scripts = Fold(b, event).scripts
         /\ Fold(a, event).status = Fold(b, event).status
<1> DEFINE scripts == a.scripts
<1>1. scripts \in Seq(Nodes) /\ a.scripts = scripts /\ b.scripts = scripts BY DEF Turns
<1> HIDE DEF scripts
<1>2. \/ \E new \in Seq(Nodes) : /\ Fold(a, event) = [a EXCEPT !.scripts = new]
                                 /\ Fold(b, event) = [b EXCEPT !.scripts = new]
      \/ \E new \in {"answered", "failed"} : /\ Fold(a, event) = [a EXCEPT !.status = new]
                                             /\ Fold(b, event) = [b EXCEPT !.status = new]
      \/ Fold(a, event) = a /\ Fold(b, event) = b
  BY <1>1, FoldEffect
<1>3. CASE \E new \in Seq(Nodes) : /\ Fold(a, event) = [a EXCEPT !.scripts = new]
                                   /\ Fold(b, event) = [b EXCEPT !.scripts = new]
  <2>1. PICK new \in Seq(Nodes) : /\ Fold(a, event) = [a EXCEPT !.scripts = new]
                                  /\ Fold(b, event) = [b EXCEPT !.scripts = new]
    BY <1>3
  <2>2. QED BY <2>1, TurnEdits
<1>4. CASE \E new \in {"answered", "failed"} : /\ Fold(a, event) = [a EXCEPT !.status = new]
                                               /\ Fold(b, event) = [b EXCEPT !.status = new]
  <2>1. PICK new \in {"answered", "failed"} : /\ Fold(a, event) = [a EXCEPT !.status = new]
                                              /\ Fold(b, event) = [b EXCEPT !.status = new]
    BY <1>4
  <2>2. QED BY <2>1, TurnEdits
<1>5. QED BY <1>2, <1>3, <1>4

LEMMA AbsorbTypes ==
  ASSUME NEW a \in Seq(Turns), NEW event \in Sent
  PROVE  Absorb(a, event) \in Seq(Turns) /\ Len(Absorb(a, event)) = Len(a)
<1> DEFINE i == RunningTurn(a)
<1>1. i \in 0 .. Len(a) BY RunningTurnIs
<1>2. Absorb(a, event) = IF i = 0 THEN a ELSE [a EXCEPT ![i] = Fold(a[i], event)]
  BY DEF Absorb
<1> HIDE DEF i
<1>3. i # 0 => a[i] \in Turns BY <1>1
<1>4. i # 0 => Fold(a[i], event) \in Turns BY <1>3, FoldTypes
<1>5. QED BY <1>1, <1>2, <1>4

LEMMA AbsorbSame ==
  ASSUME NEW a \in Seq(Turns), NEW b \in Seq(Turns), NEW event \in Sent, Same(a, b)
  PROVE  Same(Absorb(a, event), Absorb(b, event))
<1>1. RunningIn(a) = RunningIn(b) BY DEF RunningIn, Same
<1>2. PICK i \in 0 .. Len(a) : RunningTurn(a) = i /\ RunningTurn(b) = i
  BY <1>1, RunningTurnIs
<1>3. Len(a) = Len(b) /\ Len(a) \in Nat BY DEF Same
<1>4. CASE i = 0
  BY <1>2, <1>4 DEF Absorb
<1>5. CASE i # 0
  <2>1. Absorb(a, event) = [a EXCEPT ![i] = Fold(a[i], event)]
    BY <1>2, <1>5 DEF Absorb
  <2>2. Absorb(b, event) = [b EXCEPT ![i] = Fold(b[i], event)]
    BY <1>2, <1>5 DEF Absorb
  <2>3. i \in 1 .. Len(a) /\ i \in 1 .. Len(b) BY <1>2, <1>3, <1>5
  <2>4. a[i] \in Turns /\ b[i] \in Turns BY <2>3
  <2>5. a[i].prompt = b[i].prompt /\ a[i].scripts = b[i].scripts /\ a[i].status = b[i].status
    BY <2>3 DEF Same
  <2>6. /\ Fold(a[i], event).prompt = Fold(b[i], event).prompt
        /\ Fold(a[i], event).scripts = Fold(b[i], event).scripts
        /\ Fold(a[i], event).status = Fold(b[i], event).status
    BY <2>4, <2>5, FoldTypes, FoldSame
  <2>7. ASSUME NEW j \in 1 .. Len(a)
        PROVE  /\ Absorb(a, event)[j].prompt = Absorb(b, event)[j].prompt
               /\ Absorb(a, event)[j].scripts = Absorb(b, event)[j].scripts
               /\ Absorb(a, event)[j].status = Absorb(b, event)[j].status
    <3>1. CASE j = i BY <1>3, <2>1, <2>2, <2>3, <2>6, <3>1
    <3>2. CASE j # i
      <4>1. Absorb(a, event)[j] = a[j] /\ Absorb(b, event)[j] = b[j] BY <1>3, <2>1, <2>2, <3>2
      <4>2. QED BY <4>1 DEF Same
    <3>3. QED BY <3>1, <3>2
  <2>8. QED BY <1>3, <2>7, AbsorbTypes DEF Same
<1>6. QED BY <1>4, <1>5

(* The turn opened last takes the event while it is running. *)
LEMMA AbsorbLast ==
  ASSUME NEW a \in Seq(Turns), NEW event \in Sent, a # <<>>, a[Len(a)].status = "running"
  PROVE  Absorb(a, event) = [a EXCEPT ![Len(a)] = Fold(a[Len(a)], event)]
<1>1. Len(a) \in Nat /\ Len(a) # 0 BY a # <<>>
<1>2. Len(a) \in RunningIn(a) BY <1>1 DEF RunningIn
<1>3. RunningIn(a) \in SUBSET (1 .. Len(a)) BY DEF RunningIn
<1>4. Max(RunningIn(a)) \in RunningIn(a) /\ Len(a) <= Max(RunningIn(a))
  BY <1>1, <1>2, <1>3, Greatest
<1>5. Max(RunningIn(a)) = Len(a) BY <1>1, <1>3, <1>4
<1>6. RunningTurn(a) = Len(a) BY <1>2, <1>5, RunningTurnIs
<1>7. QED BY <1>1, <1>6 DEF Absorb
-------------------------------------------------------------------------------
(* What is settled once a queue is folded in: chain[i] is the transcript   *)
(* with its first i events absorbed.                                       *)
Chain(chain, base, queue) ==
  chain = [i \in 0 .. Len(queue) |-> IF i = 0 THEN base ELSE Absorb(chain[i - 1], queue[i])]

LEMMA ChainStep ==
  ASSUME NEW base, NEW queue, NEW chain, Chain(chain, base, queue), NEW i \in 0 .. Len(queue)
  PROVE  chain[i] = IF i = 0 THEN base ELSE Absorb(chain[i - 1], queue[i])
BY DEF Chain

LEMMA ChainExists ==
  ASSUME NEW base, NEW queue, Len(queue) \in Nat
  PROVE  \E chain : Chain(chain, base, queue)
<1> DEFINE Good(f, m) == f = [i \in 0 .. m |-> IF i = 0 THEN base ELSE Absorb(f[i - 1], queue[i])]
           S == {m \in Nat : \E f : Good(f, m)}
<1>1. 0 \in S
  <2>1. Good([i \in 0 .. 0 |-> base], 0) OBVIOUS
  <2>2. QED BY <2>1
<1>2. ASSUME NEW m \in Nat, m \in S PROVE m + 1 \in S
  <2>1. PICK f : Good(f, m) BY <1>2
  <2> DEFINE g == [i \in 0 .. m + 1 |-> IF i = m + 1 THEN Absorb(f[m], queue[m + 1]) ELSE f[i]]
  <2>2. ASSUME NEW i \in 0 .. m + 1
        PROVE  g[i] = IF i = 0 THEN base ELSE Absorb(g[i - 1], queue[i])
    <3>1. CASE i = m + 1
      <4>1. i # 0 /\ i - 1 = m /\ g[m] = f[m] BY <3>1
      <4>2. g[i] = Absorb(f[m], queue[m + 1]) BY <3>1
      <4>3. QED BY <3>1, <4>1, <4>2
    <3>2. CASE i # m + 1
      <4>1. i \in 0 .. m /\ g[i] = f[i] BY <3>2
      <4>2. f[i] = IF i = 0 THEN base ELSE Absorb(f[i - 1], queue[i]) BY <2>1, <4>1
      <4>3. i # 0 => g[i - 1] = f[i - 1] BY <4>1
      <4>4. QED BY <4>1, <4>2, <4>3
    <3>3. QED BY <3>1, <3>2
  <2>3. g = [i \in 0 .. m + 1 |-> IF i = 0 THEN base ELSE Absorb(g[i - 1], queue[i])]
    BY <2>2
  <2>4. Good(g, m + 1) BY <2>3
  <2> HIDE DEF Good
  <2>5. QED BY <2>4
<1> HIDE DEF S
<1>3. \A m \in Nat : m \in S BY <1>1, <1>2, NumberInduction
<1>4. Len(queue) \in S BY <1>3
<1>5. QED BY <1>4 DEF S, Chain

LEMMA ChainTypes ==
  ASSUME NEW base \in Seq(Turns), NEW queue \in Seq(Sent), NEW chain, Chain(chain, base, queue)
  PROVE  \A i \in 0 .. Len(queue) : chain[i] \in Seq(Turns) /\ Len(chain[i]) = Len(base)
<1> DEFINE S == {i \in Nat :
                   i <= Len(queue) => chain[i] \in Seq(Turns) /\ Len(chain[i]) = Len(base)}
<1>1. Len(queue) \in Nat OBVIOUS
<1>2. 0 \in S
  <2>1. 0 \in 0 .. Len(queue) BY <1>1
  <2>2. chain[0] = base BY <2>1, ChainStep
  <2>3. QED BY <2>2
<1>3. ASSUME NEW i \in Nat, i \in S, i + 1 <= Len(queue)
      PROVE  chain[i + 1] \in Seq(Turns) /\ Len(chain[i + 1]) = Len(base)
  <2>1. i + 1 \in 0 .. Len(queue) /\ i + 1 # 0 /\ (i + 1) - 1 = i /\ queue[i + 1] \in Sent
    BY <1>1, <1>3
  <2>2. chain[i + 1] = Absorb(chain[i], queue[i + 1]) BY <2>1, ChainStep
  <2>3. chain[i] \in Seq(Turns) /\ Len(chain[i]) = Len(base) BY <1>1, <1>3
  <2>4. QED BY <2>1, <2>2, <2>3, AbsorbTypes
<1>4. \A i \in Nat : i \in S => i + 1 \in S BY <1>1, <1>3
<1> HIDE DEF S
<1>5. \A i \in Nat : i \in S BY <1>2, <1>4, NumberInduction
<1>6. QED BY <1>1, <1>5 DEF S

(* Folding on from transcripts that are the same, through the same events, *)
(* ends in transcripts that are the same.                                  *)
LEMMA ChainsAgree ==
  ASSUME NEW a \in Seq(Turns), NEW s \in Seq(Sent), NEW f, Chain(f, a, s),
         NEW b \in Seq(Turns), NEW q \in Seq(Sent), NEW g, Chain(g, b, q),
         NEW d \in Nat, NEW n \in Nat, d + n <= Len(s), n <= Len(q),
         Same(f[d], b), \A i \in 1 .. n : s[d + i] = q[i]
  PROVE  Same(f[d + n], g[n])
<1> DEFINE S == {i \in Nat : i <= n => Same(f[d + i], g[i])}
<1>1. Len(s) \in Nat /\ Len(q) \in Nat OBVIOUS
<1>2. 0 \in S
  <2>1. 0 \in 0 .. Len(q) /\ d + 0 = d BY <1>1
  <2>2. g[0] = b BY <2>1, ChainStep
  <2>3. QED BY <2>1, <2>2
<1>3. ASSUME NEW i \in Nat, i \in S, i + 1 <= n PROVE Same(f[d + (i + 1)], g[i + 1])
  <2>1. /\ i + 1 \in 0 .. Len(q) /\ i + 1 # 0 /\ (i + 1) - 1 = i
        /\ d + (i + 1) \in 0 .. Len(s) /\ d + (i + 1) # 0 /\ (d + (i + 1)) - 1 = d + i
        /\ d + i \in 0 .. Len(s) /\ i \in 0 .. Len(q)
    BY <1>1, <1>3
  <2>2. f[d + (i + 1)] = Absorb(f[d + i], s[d + (i + 1)]) BY <2>1, ChainStep
  <2>3. g[i + 1] = Absorb(g[i], q[i + 1]) BY <2>1, ChainStep
  <2>4. s[d + (i + 1)] = q[i + 1] /\ q[i + 1] \in Sent
    <3>1. i + 1 \in 1 .. n /\ i + 1 \in 1 .. Len(q) BY <1>1, <1>3
    <3>2. QED BY <3>1
  <2>5. f[d + i] \in Seq(Turns) /\ g[i] \in Seq(Turns) BY <2>1, ChainTypes
  <2>6. Same(f[d + i], g[i]) BY <1>3
  <2>7. Same(Absorb(f[d + i], q[i + 1]), Absorb(g[i], q[i + 1])) BY <2>4, <2>5, <2>6, AbsorbSame
  <2>8. QED BY <2>2, <2>3, <2>4, <2>7
<1>4. \A i \in Nat : i \in S => i + 1 \in S BY <1>3
<1> HIDE DEF S
<1>5. n \in S BY <1>2, <1>4, NumberInduction
<1>6. QED BY <1>5 DEF S

LEMMA SameIsSame ==
  /\ \A a \in Seq(Turns) : Same(a, a)
  /\ \A a, b \in Seq(Turns) : Same(a, b) => Same(b, a)
  /\ \A a, b, c \in Seq(Turns) : Same(a, b) /\ Same(b, c) => Same(a, c)
BY DEF Same

(* The fold of a whole queue, and what happens to it at its two ends. *)
LEMMA EmptyChain ==
  ASSUME NEW base, NEW chain, Chain(chain, base, <<>>)
  PROVE  chain[Len(<<>>)] = base
<1>1. 0 \in 0 .. Len(<<>>) /\ Len(<<>>) = 0 OBVIOUS
<1>2. QED BY <1>1, ChainStep

LEMMA HeadAbsorbed ==
  ASSUME NEW base \in Seq(Turns), NEW queue \in Seq(Sent), queue # <<>>,
         NEW f, Chain(f, base, queue),
         NEW g, Chain(g, Absorb(base, Head(queue)), Tail(queue))
  PROVE  Same(f[Len(queue)], g[Len(Tail(queue))])
<1> DEFINE n == Len(Tail(queue))
<1>1. /\ Len(queue) \in Nat /\ n \in Nat /\ Len(queue) = 1 + n /\ Tail(queue) \in Seq(Sent)
      /\ \A i \in 1 .. n : queue[1 + i] = Tail(queue)[i]
      /\ Head(queue) = queue[1] /\ queue[1] \in Sent
  OBVIOUS
<1>2. Absorb(base, Head(queue)) \in Seq(Turns) BY <1>1, AbsorbTypes
<1>3. f[1] = Absorb(base, Head(queue))
  <2>1. 0 \in 0 .. Len(queue) /\ 1 \in 0 .. Len(queue) /\ 1 - 1 = 0 BY <1>1
  <2>2. f[0] = base BY <2>1, ChainStep
  <2>3. f[1] = Absorb(f[0], queue[1]) BY <2>1, ChainStep
  <2>4. QED BY <1>1, <2>2, <2>3
<1>4. Same(f[1], Absorb(base, Head(queue))) BY <1>2, <1>3, SameIsSame
<1> HIDE DEF n
<1>5. 1 + n <= Len(queue) /\ n <= Len(Tail(queue)) BY <1>1 DEF n
<1>6. Same(f[1 + n], g[n]) BY <1>1, <1>2, <1>4, <1>5, ChainsAgree
<1>7. QED BY <1>1, <1>6 DEF n

LEMMA TailAbsorbed ==
  ASSUME NEW base \in Seq(Turns), NEW queue \in Seq(Sent), NEW event \in Sent,
         NEW f, Chain(f, base, queue), NEW g, Chain(g, base, Append(queue, event))
  PROVE  Same(Absorb(f[Len(queue)], event), g[Len(Append(queue, event))])
<1> DEFINE n == Len(queue)
           longer == Append(queue, event)
<1>1. /\ n \in Nat /\ longer \in Seq(Sent) /\ Len(longer) = n + 1 /\ longer[n + 1] = event
      /\ \A i \in 1 .. n : queue[0 + i] = longer[i]
  OBVIOUS
<1>2. Chain(g, base, longer) OBVIOUS
<1> HIDE DEF longer
<1>3. n = Len(queue) /\ 0 + n = n /\ 0 + n <= Len(queue) /\ n <= Len(longer) BY <1>1
<1> HIDE DEF n
<1>4. f[0] = base
  <2>1. 0 \in 0 .. Len(queue) BY <1>1, <1>3
  <2>2. QED BY <2>1, ChainStep
<1>5. Same(f[0], base) BY <1>4, SameIsSame
<1>6. Same(f[0 + n], g[n]) BY <1>1, <1>2, <1>3, <1>5, ChainsAgree
<1>7. g[n + 1] = Absorb(g[n], event)
  <2>1. n + 1 \in 0 .. Len(longer) /\ n + 1 # 0 /\ (n + 1) - 1 = n BY <1>1
  <2>2. g[n + 1] = Absorb(g[n], longer[n + 1]) BY <1>2, <2>1, ChainStep
  <2>3. QED BY <1>1, <2>2
<1>8. f[n] \in Seq(Turns) /\ g[n] \in Seq(Turns)
  <2>1. n \in 0 .. Len(queue) /\ n \in 0 .. Len(longer) BY <1>1, <1>3
  <2>2. QED BY <1>1, <1>2, <2>1, ChainTypes
<1>9. Same(Absorb(f[n], event), Absorb(g[n], event)) BY <1>3, <1>6, <1>8, AbsorbSame
<1>10. QED BY <1>1, <1>3, <1>7, <1>9 DEF longer

LEMMA SameAbsorbed ==
  ASSUME NEW a \in Seq(Turns), NEW b \in Seq(Turns), NEW queue \in Seq(Sent), Same(a, b),
         NEW f, Chain(f, a, queue), NEW g, Chain(g, b, queue)
  PROVE  Same(f[Len(queue)], g[Len(queue)])
<1>1. /\ Len(queue) \in Nat /\ 0 + Len(queue) = Len(queue) /\ 0 + Len(queue) <= Len(queue)
      /\ \A i \in 1 .. Len(queue) : queue[0 + i] = queue[i]
  OBVIOUS
<1>2. f[0] = a
  <2>1. 0 \in 0 .. Len(queue) BY <1>1
  <2>2. QED BY <2>1, ChainStep
<1>3. Same(f[0 + Len(queue)], g[Len(queue)])
  <2>1. Same(f[0], b) BY <1>2
  <2>2. 0 \in Nat /\ Len(queue) <= Len(queue) BY <1>1
  <2>3. QED BY <1>1, <2>1, <2>2, ChainsAgree
<1>4. QED BY <1>1, <1>3
-------------------------------------------------------------------------------
(* The invariant under which nothing is misfiled: what is settled once the *)
(* queue is folded in is what the workers did (Filed), the turn opened     *)
(* last is the one whose worker is alive (Latest), nothing is queued       *)
(* behind a session's end or while another task may be submitted (Queued), *)
(* and a worker's scripts are closed in the order it runs them (Ledgers).  *)

FiledIn(turns, scripts, outcomes, n) ==
  \A i \in 1 .. Len(turns) :
    /\ turns[i].prompt \in 1 .. n
    /\ \A j \in 1 .. i - 1 : turns[j].prompt < turns[i].prompt
    /\ turns[i].scripts = scripts[turns[i].prompt]
    /\ turns[i].status = outcomes[turns[i].prompt]
NewestIn(turns, t) == turns # <<>> /\ turns[Len(turns)].prompt = t

Filed == FiledIn(Settled, ledger, outcome, tasks)
Latest ==
  \A t \in Tasks :
    kind[t] = "turn" /\ (Alive(t) \/ (loop = "leg" /\ t = tasks)) => NewestIn(Settled, t)

Queued ==
  /\ ~busy \/ loop # "select" => Queue = <<>>
  /\ \A i \in 1 .. Len(Queue) : Queue[i].kind = "finished" => i = Len(Queue)

Grows(scripts, n) ==
  \A i \in 1 .. Len(scripts) :
    scripts[i].seq < n /\ \A j \in 1 .. i - 1 : scripts[j].seq < scripts[i].seq
Closed(scripts, n) == \A i \in 1 .. n : scripts[i].done
LedgerOf(t) ==
  /\ Grows(ledger[t], ordinal[t])
  /\ Closed(ledger[t], Len(ledger[t]) - 1)
  /\ phase[t] = "none" => ledger[t] = <<>>
  /\ phase[t] = "thinking" => Closed(ledger[t], Len(ledger[t]))
  /\ phase[t] = "scripting" =>
       kind[t] = "turn" /\ ~ledger[t][Len(ledger[t])].done
  /\ Alive(t) => outcome[t] = "running"
Ledgers ==
  /\ outcome \in [Tasks -> {"running", "answered", "failed"}]
  /\ \A t \in Tasks : LedgerOf(t)
  /\ \A t \in Tasks : t > tasks => outcome[t] = "running"
  /\ loop = "leg" => outcome[tasks] = "running"

FiledInv == transcript \in Seq(Turns) /\ Filed /\ Latest /\ Queued /\ Ledgers

-------------------------------------------------------------------------------
LEMMA QueueTypes == ASSUME TypeInv PROVE Queue \in Seq(Sent) /\ Len(Queue) \in Nat
<1>1. CASE running = 0 BY <1>1 DEF Queue
<1>2. CASE running # 0
  <2>1. running \in Tasks BY <1>2 DEF TypeInv, Tasks
  <2>2. QED BY <1>2, <2>1 DEF Queue, TypeInv
<1>3. QED BY <1>1, <1>2

LEMMA SettledChain == TypeInv => Chain(SettledUpto, transcript, Queue)
<1> SUFFICES ASSUME TypeInv PROVE Chain(SettledUpto, transcript, Queue)
  OBVIOUS
<1>1. PICK f : Chain(f, transcript, Queue) BY QueueTypes, ChainExists
<1>2. SettledUpto = [i \in 0 .. Len(Queue) |->
                       IF i = 0 THEN transcript ELSE Absorb(SettledUpto[i - 1], Queue[i])]
  BY <1>1 DEF SettledUpto, Chain
<1>3. QED BY <1>2 DEF Chain

LEMMA SettledTypes ==
  TypeInv /\ transcript \in Seq(Turns) => Settled \in Seq(Turns) /\ Len(Settled) = Len(transcript)
<1> SUFFICES ASSUME TypeInv, transcript \in Seq(Turns)
             PROVE  Settled \in Seq(Turns) /\ Len(Settled) = Len(transcript)
  OBVIOUS
<1>1. Queue \in Seq(Sent) /\ Len(Queue) \in 0 .. Len(Queue) BY QueueTypes
<1>2. QED BY <1>1, SettledChain, ChainTypes DEF Settled

LEMMA SettledEmpty == TypeInv /\ Queue = <<>> => Settled = transcript
BY SettledChain, EmptyChain DEF Settled

LEMMA SettledNext ==
  /\ TypeInv' => Chain(SettledUpto', transcript', Queue')
  /\ (TypeInv /\ transcript \in Seq(Turns))' =>
       Settled' \in Seq(Turns) /\ Len(Settled') = Len(transcript')
  /\ (TypeInv /\ Queue = <<>>)' => Settled' = transcript'
<1>1. (TypeInv => Chain(SettledUpto, transcript, Queue))' BY SettledChain, PTL
<1>2. (TypeInv /\ transcript \in Seq(Turns) =>
        Settled \in Seq(Turns) /\ Len(Settled) = Len(transcript))'
  BY SettledTypes, PTL
<1>3. (TypeInv /\ Queue = <<>> => Settled = transcript)' BY SettledEmpty, PTL
<1>4. TypeInv' => Chain(SettledUpto', transcript', Queue') BY <1>1 DEF Chain
<1>5. QED BY <1>2, <1>3, <1>4

(* The queue stays, and the transcript but for marks on its turns. *)
LEMMA SettledStays ==
  ASSUME TypeInv, TypeInv', transcript \in Seq(Turns), transcript' \in Seq(Turns),
         Queue' = Queue, Same(transcript, transcript')
  PROVE  Same(Settled, Settled')
<1>1. Chain(SettledUpto, transcript, Queue) BY SettledChain
<1>2. Chain(SettledUpto', transcript', Queue) BY SettledNext
<1>3. Same(SettledUpto[Len(Queue)], SettledUpto'[Len(Queue)])
  BY <1>1, <1>2, QueueTypes, SameAbsorbed
<1>4. QED BY <1>3 DEF Settled

(* The loop folds in the event at the queue's head. *)
LEMMA SettledReceives ==
  ASSUME TypeInv, TypeInv', transcript \in Seq(Turns), Queue # <<>>,
         Queue' = Tail(Queue), transcript' = Absorb(transcript, Head(Queue))
  PROVE  Same(Settled, Settled')
<1>1. Chain(SettledUpto, transcript, Queue) BY SettledChain
<1>2. Chain(SettledUpto', Absorb(transcript, Head(Queue)), Tail(Queue)) BY SettledNext
<1>3. Same(SettledUpto[Len(Queue)], SettledUpto'[Len(Tail(Queue))])
  BY <1>1, <1>2, QueueTypes, HeadAbsorbed
<1>4. QED BY <1>3 DEF Settled

(* A worker sends an event. *)
LEMMA SettledSends ==
  ASSUME TypeInv, TypeInv', transcript \in Seq(Turns), transcript' = transcript,
         NEW event \in Sent, Queue' = Append(Queue, event)
  PROVE  Same(Absorb(Settled, event), Settled')
<1>1. Chain(SettledUpto, transcript, Queue) BY SettledChain
<1>2. Chain(SettledUpto', transcript, Append(Queue, event)) BY SettledNext
<1>3. Same(Absorb(SettledUpto[Len(Queue)], event), SettledUpto'[Len(Append(Queue, event))])
  BY <1>1, <1>2, QueueTypes, TailAbsorbed
<1>4. QED BY <1>3 DEF Settled

LEMMA FiledSame ==
  ASSUME NEW a \in Seq(Turns), NEW b \in Seq(Turns), Same(a, b),
         NEW scripts, NEW outcomes, NEW n \in Nat, NEW m \in Nat, n <= m,
         FiledIn(a, scripts, outcomes, n)
  PROVE  FiledIn(b, scripts, outcomes, m)
<1> SUFFICES ASSUME NEW i \in 1 .. Len(b)
             PROVE  /\ b[i].prompt \in 1 .. m
                    /\ \A j \in 1 .. i - 1 : b[j].prompt < b[i].prompt
                    /\ b[i].scripts = scripts[b[i].prompt]
                    /\ b[i].status = outcomes[b[i].prompt]
  BY DEF FiledIn
<1>1. i \in 1 .. Len(a) BY DEF Same
<1>2. b[i].prompt = a[i].prompt /\ b[i].scripts = a[i].scripts /\ b[i].status = a[i].status
  BY <1>1 DEF Same
<1>3. \A j \in 1 .. i - 1 : b[j].prompt = a[j].prompt
  <2>1. \A j \in 1 .. i - 1 : j \in 1 .. Len(a) BY <1>1
  <2>2. QED BY <2>1 DEF Same
<1>4. QED BY <1>1, <1>2, <1>3 DEF FiledIn

LEMMA NewestSame ==
  ASSUME NEW a \in Seq(Turns), NEW b \in Seq(Turns), Same(a, b), NEW t, NewestIn(a, t)
  PROVE  NewestIn(b, t)
<1>1. Len(a) \in 1 .. Len(a) /\ Len(b) = Len(a) BY DEF NewestIn, Same
<1>2. QED BY <1>1 DEF NewestIn, Same

(* Rewriting the newest turn to what its worker did. *)
OnlyAt(t, n, old, new) == \A u \in 1 .. n : u # t => new[u] = old[u]
OnlyLast(a, b) == Len(b) = Len(a) /\ \A i \in 1 .. Len(a) - 1 : b[i] = a[i]
Refiles(a, b, t, scripts, outcomes) ==
  /\ OnlyLast(a, b)
  /\ b[Len(a)].prompt = t /\ b[Len(a)].scripts = scripts[t] /\ b[Len(a)].status = outcomes[t]

LEMMA NewestFiled ==
  ASSUME NEW a \in Seq(Turns), NEW n \in Nat, NEW t \in Nat, NewestIn(a, t),
         NEW scripts, NEW outcomes, FiledIn(a, scripts, outcomes, n),
         NEW scripts2, NEW outcomes2,
         OnlyAt(t, n, scripts, scripts2), OnlyAt(t, n, outcomes, outcomes2),
         NEW b \in Seq(Turns), Refiles(a, b, t, scripts2, outcomes2)
  PROVE  FiledIn(b, scripts2, outcomes2, n) /\ NewestIn(b, t)
<1>1. /\ Len(a) \in Nat /\ Len(a) \in 1 .. Len(a) /\ Len(b) = Len(a)
      /\ a[Len(a)].prompt = t /\ OnlyLast(a, b) /\ b[Len(a)].prompt = t
      /\ b[Len(a)].scripts = scripts2[t] /\ b[Len(a)].status = outcomes2[t]
  BY DEF NewestIn, Refiles, OnlyLast
<1>2. \A i \in 1 .. Len(a) : i # Len(a) => b[i] = a[i]
  <2>1. \A i \in 1 .. Len(a) : i # Len(a) => i \in 1 .. Len(a) - 1 BY <1>1
  <2>2. QED BY <1>1, <2>1 DEF OnlyLast
<1>3. \A i \in 1 .. Len(a) : b[i].prompt = a[i].prompt BY <1>1, <1>2
<1>4. \A i \in 1 .. Len(a) : b[i].prompt \in 1 .. n BY <1>1, <1>3 DEF FiledIn
<1>5. \A i \in 1 .. Len(a) : \A j \in 1 .. i - 1 : b[j].prompt < b[i].prompt
  <2> SUFFICES ASSUME NEW i \in 1 .. Len(a), NEW j \in 1 .. i - 1 PROVE b[j].prompt < b[i].prompt
    OBVIOUS
  <2>1. j \in 1 .. Len(a) BY <1>1
  <2>2. a[j].prompt < a[i].prompt BY DEF FiledIn
  <2>3. QED BY <1>3, <2>1, <2>2
<1>6. ASSUME NEW i \in 1 .. Len(a)
      PROVE  b[i].scripts = scripts2[b[i].prompt] /\ b[i].status = outcomes2[b[i].prompt]
  <2>1. CASE i = Len(a) BY <1>1, <2>1
  <2>2. CASE i # Len(a)
    <3>1. b[i] = a[i] BY <1>2, <2>2
    <3>2. i \in 1 .. Len(a) - 1 BY <1>1, <2>2
    <3>3. a[i].prompt < t BY <1>1, <3>2 DEF FiledIn, NewestIn
    <3>4. a[i].prompt \in 1 .. n /\ a[i].prompt # t BY <3>3 DEF FiledIn
    <3>5. a[i].scripts = scripts[a[i].prompt] /\ a[i].status = outcomes[a[i].prompt]
      BY DEF FiledIn
    <3>6. QED BY <3>1, <3>4, <3>5 DEF OnlyAt
  <2>3. QED BY <2>1, <2>2
<1>7. FiledIn(b, scripts2, outcomes2, n) BY <1>1, <1>4, <1>5, <1>6 DEF FiledIn
<1>8. NewestIn(b, t) BY <1>1 DEF NewestIn
<1>9. QED BY <1>7, <1>8
-------------------------------------------------------------------------------
(* Marks on turns keep what is filed in them. *)

LEMMA OpenedTypes ==
  ASSUME NEW p \in Nat
  PROVE  /\ Opened(p) \in Turns /\ Opened(p).prompt = p
         /\ Opened(p).scripts = <<>> /\ Opened(p).status = "running"
<1>1. <<>> \in Seq(Nodes) OBVIOUS
<1>2. QED BY <1>1 DEF Opened, Turns, NoTokens

LEMMA TurnMarks ==
  ASSUME NEW turn \in Turns, NEW mark \in BOOLEAN
  PROVE  /\ [turn EXCEPT !.stop = mark] \in Turns /\ [turn EXCEPT !.window = mark] \in Turns
         /\ [turn EXCEPT !.stop = mark].prompt = turn.prompt
         /\ [turn EXCEPT !.stop = mark].scripts = turn.scripts
         /\ [turn EXCEPT !.stop = mark].status = turn.status
         /\ [turn EXCEPT !.window = mark].prompt = turn.prompt
         /\ [turn EXCEPT !.window = mark].scripts = turn.scripts
         /\ [turn EXCEPT !.window = mark].status = turn.status
BY DEF Turns

LEMMA StopMarks ==
  ASSUME NEW a \in Seq(Turns)
  PROVE  MarkStop(a) \in Seq(Turns) /\ Same(a, MarkStop(a))
<1>1. PICK i \in 0 .. Len(a) : RunningTurn(a) = i BY RunningTurnIs
<1>2. CASE i = 0 BY <1>1, <1>2, SameIsSame DEF MarkStop
<1>3. CASE i # 0
  <2>1. i \in 1 .. Len(a) /\ a[i] \in Turns BY <1>3
  <2>2. PICK turn \in Turns : turn = [a[i] EXCEPT !.stop = TRUE] BY <2>1, TurnMarks
  <2>3. MarkStop(a) = [a EXCEPT ![i] = turn]
    BY <1>1, <1>3, <2>2 DEF MarkStop
  <2>4. turn.prompt = a[i].prompt /\ turn.scripts = a[i].scripts /\ turn.status = a[i].status
    BY <2>1, <2>2, TurnMarks
  <2>5. MarkStop(a) \in Seq(Turns) /\ Len(MarkStop(a)) = Len(a)
        /\ \A j \in 1 .. Len(a) : MarkStop(a)[j] = IF j = i THEN turn ELSE a[j]
    BY <2>1, <2>3
  <2>6. QED BY <2>4, <2>5 DEF Same
<1>4. QED BY <1>2, <1>3

LEMMA WindowMarks ==
  ASSUME NEW a \in Seq(Turns), NEW n
  PROVE  MarkReplayWindow(a, n) \in Seq(Turns) /\ Same(a, MarkReplayWindow(a, n))
<1> DEFINE inside(i) == i + n > Len(a)
           b == MarkReplayWindow(a, n)
<1>1. \A i \in 1 .. Len(a) : inside(i) \in BOOLEAN OBVIOUS
<1>2. b = [i \in 1 .. Len(a) |-> [a[i] EXCEPT !.window = inside(i)]]
  BY DEF MarkReplayWindow
<1> HIDE DEF inside
<1>3. \A i \in 1 .. Len(a) : a[i] \in Turns OBVIOUS
<1>4. \A i \in 1 .. Len(a) :
        /\ b[i] \in Turns /\ b[i].prompt = a[i].prompt
        /\ b[i].scripts = a[i].scripts /\ b[i].status = a[i].status
  <2> SUFFICES ASSUME NEW i \in 1 .. Len(a)
               PROVE  /\ b[i] \in Turns /\ b[i].prompt = a[i].prompt
                      /\ b[i].scripts = a[i].scripts /\ b[i].status = a[i].status
    OBVIOUS
  <2>1. PICK mark \in BOOLEAN : mark = inside(i) BY <1>1
  <2>2. b[i] = [a[i] EXCEPT !.window = mark] BY <1>2, <2>1
  <2> HIDE DEF b
  <2>3. PICK turn \in Turns : turn = a[i] BY <1>3
  <2>4. b[i] = [turn EXCEPT !.window = mark] BY <2>2, <2>3
  <2>5. /\ [turn EXCEPT !.window = mark] \in Turns
        /\ [turn EXCEPT !.window = mark].prompt = turn.prompt
        /\ [turn EXCEPT !.window = mark].scripts = turn.scripts
        /\ [turn EXCEPT !.window = mark].status = turn.status
    BY TurnMarks
  <2>6. QED BY <2>3, <2>4, <2>5
<1>5. b \in [1 .. Len(a) -> Turns] BY <1>2, <1>4
<1> HIDE DEF b
<1>6. Len(a) \in Nat OBVIOUS
<1>7. b \in Seq(Turns) /\ Len(b) = Len(a) BY <1>5, <1>6
<1>8. QED BY <1>4, <1>7 DEF b, Same

LEMMA ShellEventsPass ==
  ASSUME NEW a \in Seq(Turns) PROVE Absorb(a, ShellFinished) = a
<1>1. PICK i \in 0 .. Len(a) : RunningTurn(a) = i BY RunningTurnIs
<1>2. CASE i = 0 BY <1>1, <1>2 DEF Absorb
<1>3. CASE i # 0
  <2>1. Absorb(a, ShellFinished) = [a EXCEPT ![i] = Fold(a[i], ShellFinished)]
    BY <1>1, <1>3 DEF Absorb
  <2>2. Fold(a[i], ShellFinished) = a[i] BY FoldIs
  <2>3. QED BY <2>1, <2>2
<1>4. QED BY <1>2, <1>3

-------------------------------------------------------------------------------
(* What is queued. *)

LEMMA QueueStays == UNCHANGED <<running, mail>> => Queue' = Queue
BY DEF Queue

LEMMA QueueReceives ==
  ASSUME TypeInv, Receive
  PROVE  Queue # <<>> /\ Queue' = Tail(Queue) /\ transcript' = Absorb(transcript, Head(Queue))
<1>1. running \in Tasks /\ running # 0 /\ running' = running BY DEF Receive, TypeInv, Tasks
<1>2. mail'[running] = Tail(mail[running]) BY <1>1 DEF Receive, TypeInv
<1>3. Queue = mail[running] /\ Queue' = Tail(mail[running]) BY <1>1, <1>2 DEF Queue
<1>4. QED BY <1>3 DEF Receive

LEMMA QueueSends ==
  ASSUME TypeInv, TurnInv, NEW t \in Tasks, Alive(t), NEW event \in Sent,
         Emit(t, event), UNCHANGED running
  PROVE  /\ Queue' = Append(Queue, event)
         /\ busy /\ loop = "select" /\ running = t
         /\ \A i \in 1 .. Len(Queue) : Queue[i].kind # "finished"
<1>1. running = t /\ busy /\ loop = "select" /\ Unfinished(t) BY DEF TurnInv, InFlight
<1>2. t # 0 BY DEF Tasks
<1>3. Queue = mail[t] BY <1>1, <1>2 DEF Queue
<1>4. mail' = [mail EXCEPT ![t] = Append(mail[t], event)] BY <1>1 DEF Emit
<1>5. Queue' = mail'[t] BY <1>1, <1>2 DEF Queue
<1>6. QED BY <1>1, <1>3, <1>4, <1>5 DEF TypeInv, Unfinished

(* The event a step of a worker sends. *)
LEMMA WorkersSend ==
  ASSUME TypeInv, NEW t \in Tasks,
         \/ ScriptStarts(t) \/ CallReturns(t) \/ ScriptFinishes(t)
         \/ TurnReports(t) \/ ShellReports(t)
  PROVE  /\ Alive(t) /\ UNCHANGED <<loop, busy, running, transcript, tasks, kind>>
         /\ \E event \in Sent : Emit(t, event)
<1>1. ordinal[t] \in Nat /\ open[t] \in SUBSET Nat /\ (open[t] # {} => phase[t] = "scripting")
  BY DEF TypeInv
<1>2. CASE ScriptStarts(t)
  BY <1>1, <1>2, SentTypes DEF ScriptStarts, Alive, WorkerOnly, appVars, taskVars
<1>3. CASE CallReturns(t)
  <2>1. PICK n \in open[t] : Emit(t, Called(n)) /\ WorkerOnly BY <1>3 DEF CallReturns
  <2>2. n \in Nat BY <1>1
  <2>3. QED BY <1>1, <2>1, <2>2, SentTypes DEF Alive, WorkerOnly, appVars, taskVars
<1>4. CASE ScriptFinishes(t)
  <2>1. phase[t] = "scripting" /\ Emit(t, ScriptOver(ledger[t][Len(ledger[t])].seq)) /\ WorkerOnly
    BY <1>4 DEF ScriptFinishes
  <2>2. ledger[t][Len(ledger[t])].seq \in Nat BY <2>1, LastNode, NodeEdits
  <2>3. QED BY <2>1, <2>2, SentTypes DEF Alive, WorkerOnly, appVars, taskVars
<1>5. CASE TurnReports(t)
  BY <1>5, SentTypes DEF TurnReports, Alive, WorkerOnly, appVars, taskVars
<1>6. CASE ShellReports(t)
  BY <1>6, SentTypes DEF ShellReports, Alive, WorkerOnly, appVars, taskVars
<1>7. QED BY <1>2, <1>3, <1>4, <1>5, <1>6

LEMMA QueuedKept == TypeInv /\ TurnInv /\ Queued /\ [Next]_vars => Queued'
<1> SUFFICES ASSUME TypeInv, TurnInv, Queued, [Next]_vars PROVE Queued'
  OBVIOUS
<1>1. ASSUME Queue' = Queue, ~busy' \/ loop' # "select" => Queue = <<>> PROVE Queued'
  BY <1>1 DEF Queued
<1>2. ASSUME Queue' = <<>> PROVE Queued' BY <1>2 DEF Queued
<1>3. CASE Waiting \/ UNCHANGED vars
  BY <1>1, <1>3, QueueStays DEF Waiting, vars, appVars, workVars, Queued
<1>4. CASE Hop \/ HopGranted \/ HopDenied
  BY <1>1, <1>4, QueueStays DEF Hop, HopGranted, HopDenied, appVars, workVars, Queued
<1>5. CASE SubmitTurn \/ SubmitShell
  BY <1>1, <1>5, QueueStays DEF SubmitTurn, SubmitShell, Submit, workVars, Queued
<1>6. CASE TurnRefused \/ ShellRefused
  BY <1>1, <1>6, QueueStays DEF TurnRefused, ShellRefused, workVars, Queued
<1>7. CASE KeyStop
  BY <1>1, <1>7, QueueStays DEF KeyStop, workVars, Queued
<1>8. CASE Spawned
  <2>1. tasks \in Tasks /\ mail[tasks] = <<>> BY <1>8 DEF Spawned, TurnInv
  <2>2. Queue' = <<>> BY <1>8, <2>1 DEF Spawned, Queue
  <2>3. QED BY <1>2, <2>2
<1>9. CASE Settle BY <1>2, <1>9 DEF Settle, Queue
<1>10. CASE Receive
  <2>1. running \in Tasks /\ Queue = mail[running] /\ Queue # <<>>
    BY <1>10 DEF Receive, Queue, TypeInv, Tasks
  <2>2. Queue' = Tail(Queue) /\ loop' = "select" /\ busy' = (busy /\ Head(Queue).kind # "finished")
    BY <1>10, <2>1 DEF Receive, Queue, TypeInv
  <2>3. Len(Queue) \in Nat \ {0} /\ Head(Queue) = Queue[1] /\ Len(Tail(Queue)) = Len(Queue) - 1
        /\ \A i \in 1 .. Len(Queue) - 1 : Tail(Queue)[i] = Queue[i + 1]
    BY <2>1, QueueTypes
  <2>4. busy BY <2>1 DEF Queued
  <2>5. ~busy' \/ loop' # "select" => Queue' = <<>>
    <3>1. CASE Head(Queue).kind = "finished"
      <4> 1 \in 1 .. Len(Queue) /\ Queue[1].kind = "finished" BY <2>3, <3>1
      <4>1. Len(Queue) = 1 BY DEF Queued
      <4>2. Len(Tail(Queue)) = 0 /\ Tail(Queue) \in Seq(Sent) BY <2>1, <2>3, <4>1, QueueTypes
      <4>3. QED BY <2>2, <4>2
    <3>2. CASE Head(Queue).kind # "finished" BY <2>2, <2>4, <3>2
    <3>3. QED BY <3>1, <3>2
  <2>6. \A i \in 1 .. Len(Queue') : Queue'[i].kind = "finished" => i = Len(Queue')
    <3> SUFFICES ASSUME NEW i \in 1 .. Len(Queue'), Queue'[i].kind = "finished"
                 PROVE  i = Len(Queue')
      OBVIOUS
    <3>1. i \in 1 .. Len(Queue) - 1 /\ i + 1 \in 1 .. Len(Queue) BY <2>2, <2>3
    <3>2. Queue[i + 1].kind = "finished" BY <2>2, <2>3, <3>1
    <3>3. i + 1 = Len(Queue) BY <3>1, <3>2 DEF Queued
    <3>4. QED BY <2>2, <2>3, <3>1, <3>3
  <2>7. QED BY <2>5, <2>6 DEF Queued
<1>11. ASSUME NEW t \in Tasks, CallStarts(t) \/ WorkerReturns(t) \/ WorkerPanics(t) PROVE Queued'
  <2>1. Queue' = Queue
    BY <1>11, QueueStays DEF CallStarts, WorkerReturns, WorkerPanics, WorkerOnly, appVars
  <2>2. UNCHANGED <<busy, loop>>
    BY <1>11 DEF CallStarts, WorkerReturns, WorkerPanics, WorkerOnly, appVars
  <2>3. QED BY <1>1, <2>1, <2>2 DEF Queued
<1>12. ASSUME NEW t \in Tasks,
              \/ ScriptStarts(t) \/ CallReturns(t) \/ ScriptFinishes(t)
              \/ TurnReports(t) \/ ShellReports(t)
       PROVE  Queued'
  <2>1. PICK event \in Sent : Emit(t, event) BY <1>12, WorkersSend
  <2>2. Alive(t) /\ UNCHANGED <<loop, busy, running>> BY <1>12, WorkersSend
  <2>3. /\ Queue' = Append(Queue, event) /\ busy /\ loop = "select"
        /\ \A i \in 1 .. Len(Queue) : Queue[i].kind # "finished"
    BY <2>1, <2>2, QueueSends
  <2>4. Queue \in Seq(Sent) BY QueueTypes
  <2>5. Len(Queue') = Len(Queue) + 1 /\ \A i \in 1 .. Len(Queue) : Queue'[i] = Queue[i]
    BY <2>3, <2>4
  <2>6. Len(Queue) \in Nat BY <2>4
  <2>7. \A i \in 1 .. Len(Queue') : Queue'[i].kind = "finished" => i = Len(Queue')
    BY <2>3, <2>5, <2>6
  <2>8. QED BY <2>2, <2>3, <2>7 DEF Queued
<1>13. QED BY <1>3, <1>4, <1>5, <1>6, <1>7, <1>8, <1>9, <1>10, <1>11, <1>12
            DEF Next, BrokerAnswers, WorkerStep
-------------------------------------------------------------------------------
(* What the workers did, as they do it. *)

(* A script's last node, rewritten but for its ordinal. *)
LEMMA LastRewritten ==
  ASSUME NEW scripts \in Seq(Nodes), NEW n \in Nat, Grows(scripts, n), scripts # <<>>,
         NEW new \in Seq(Nodes), Len(new) = Len(scripts),
         \A i \in 1 .. Len(scripts) - 1 : new[i] = scripts[i],
         new[Len(scripts)].seq = scripts[Len(scripts)].seq
  PROVE  Grows(new, n) /\ new # <<>>
<1>1. Len(scripts) \in Nat /\ Len(scripts) # 0 OBVIOUS
<1>2. \A i \in 1 .. Len(scripts) : new[i].seq = scripts[i].seq
  <2> SUFFICES ASSUME NEW i \in 1 .. Len(scripts) PROVE new[i].seq = scripts[i].seq
    OBVIOUS
  <2>1. CASE i = Len(scripts) BY <2>1
  <2>2. CASE i # Len(scripts)
    <3>1. i \in 1 .. Len(scripts) - 1 BY <1>1, <2>2
    <3>2. QED BY <3>1
  <2>3. QED BY <2>1, <2>2
<1>3. Grows(new, n)
  <2> SUFFICES ASSUME NEW i \in 1 .. Len(scripts)
               PROVE  new[i].seq < n /\ \A j \in 1 .. i - 1 : new[j].seq < new[i].seq
    BY DEF Grows
  <2>1. \A j \in 1 .. i - 1 : j \in 1 .. Len(scripts) BY <1>1
  <2>2. QED BY <1>2, <2>1 DEF Grows
<1>4. QED BY <1>1, <1>3

LEMMA Appended ==
  ASSUME NEW S, NEW s \in Seq(S), NEW e \in S
  PROVE  /\ Append(s, e) \in Seq(S) /\ Len(Append(s, e)) = Len(s) + 1
         /\ Append(s, e)[Len(s) + 1] = e
         /\ \A i \in 1 .. Len(s) : Append(s, e)[i] = s[i]
OBVIOUS

LEMMA Rewritten ==
  ASSUME NEW S, NEW s \in Seq(S), s # <<>>, NEW e \in S
  PROVE  LET new == [s EXCEPT ![Len(s)] = e]
         IN  /\ new \in Seq(S) /\ Len(new) = Len(s) /\ new[Len(s)] = e
             /\ \A i \in 1 .. Len(s) - 1 : new[i] = s[i]
<1>1. Len(s) \in Nat /\ Len(s) # 0 OBVIOUS
<1>2. QED BY <1>1

LEMMA GrowsOn ==
  ASSUME NEW scripts \in Seq(Nodes), NEW n \in Nat, Grows(scripts, n)
  PROVE  /\ Grows(scripts, n + 1)
         /\ \A new \in Seq(Nodes) :
              /\ Len(new) = Len(scripts) + 1 /\ new[Len(scripts) + 1].seq = n
              /\ \A i \in 1 .. Len(scripts) : new[i] = scripts[i]
              => Grows(new, n + 1)
<1>1. Len(scripts) \in Nat /\ \A i \in 1 .. Len(scripts) : scripts[i] \in Nodes OBVIOUS
<1>2. \A i \in 1 .. Len(scripts) : scripts[i].seq \in Nat BY <1>1 DEF Nodes
<1>3. Grows(scripts, n + 1)
  <2> SUFFICES ASSUME NEW i \in 1 .. Len(scripts)
               PROVE  scripts[i].seq < n + 1 /\ \A j \in 1 .. i - 1 : scripts[j].seq < scripts[i].seq
    BY DEF Grows
  <2>1. scripts[i].seq < n /\ scripts[i].seq \in Nat BY <1>2 DEF Grows
  <2>2. \A j \in 1 .. i - 1 : scripts[j].seq < scripts[i].seq BY DEF Grows
  <2>3. QED BY <2>1, <2>2
<1>4. ASSUME NEW new \in Seq(Nodes),
             Len(new) = Len(scripts) + 1, new[Len(scripts) + 1].seq = n,
             \A i \in 1 .. Len(scripts) : new[i] = scripts[i]
      PROVE  Grows(new, n + 1)
  <2> SUFFICES ASSUME NEW i \in 1 .. Len(scripts) + 1
               PROVE  new[i].seq < n + 1 /\ \A j \in 1 .. i - 1 : new[j].seq < new[i].seq
    BY <1>4 DEF Grows
  <2>1. CASE i = Len(scripts) + 1
    <3>1. new[i].seq = n BY <1>4, <2>1
    <3>2. \A j \in 1 .. i - 1 : new[j].seq < n BY <1>1, <1>4, <2>1 DEF Grows
    <3>3. n < n + 1 OBVIOUS
    <3>4. QED BY <3>1, <3>2, <3>3
  <2>2. CASE i # Len(scripts) + 1
    <3>1. i \in 1 .. Len(scripts) /\ \A j \in 1 .. i - 1 : j \in 1 .. Len(scripts) BY <1>1, <2>2
    <3>2. new[i] = scripts[i] /\ \A j \in 1 .. i - 1 : new[j] = scripts[j] BY <1>4, <3>1
    <3>3. QED BY <1>3, <3>1, <3>2 DEF Grows
  <2>3. QED BY <2>1, <2>2
<1>5. QED BY <1>3, <1>4

(* The step of one worker leaves the others' ledgers alone. *)
LEMMA OthersLedgers ==
  ASSUME TypeInv, TurnInv, Ledgers, NEW t \in Tasks, phase[t] # "none",
         UNCHANGED <<loop, tasks, kind>>,
         outcome' \in [Tasks -> {"running", "answered", "failed"}],
         loop = "leg" => outcome' = outcome,
         \A u \in Tasks \ {t} :
           /\ ledger'[u] = ledger[u] /\ ordinal'[u] = ordinal[u]
           /\ phase'[u] = phase[u] /\ outcome'[u] = outcome[u],
         LedgerOf(t)'
  PROVE  Ledgers'
<1>1. \A u \in Tasks \ {t} : LedgerOf(u)' BY DEF Ledgers, LedgerOf, Alive
<1>2. \A u \in Tasks : u > tasks => u # t BY DEF TurnInv
<1>3. \A u \in Tasks : u > tasks' => outcome'[u] = "running" BY <1>2 DEF Ledgers
<1>4. loop' = "leg" => outcome'[tasks'] = "running" BY DEF Ledgers
<1>5. QED BY <1>1, <1>3, <1>4 DEF Ledgers

LEMMA LoopLedgers ==
  ASSUME TypeInv, TurnInv, Ledgers,
         Waiting \/ Hop \/ SubmitTurn \/ SubmitShell \/ KeyStop \/ BrokerAnswers
           \/ Receive \/ Settle \/ UNCHANGED vars
  PROVE  Ledgers'
<1>1. ASSUME UNCHANGED <<tasks, kind, phase, ordinal, ledger, outcome>>,
             loop' = "leg" => loop = "leg"
      PROVE  Ledgers'
  <2>1. \A t \in Tasks : LedgerOf(t)' BY <1>1 DEF Ledgers, LedgerOf, Alive
  <2>2. QED BY <1>1, <2>1 DEF Ledgers
<1>2. CASE Waiting \/ UNCHANGED vars
  BY <1>1, <1>2 DEF Waiting, vars, taskVars, workVars
<1>3. CASE Hop \/ HopGranted \/ HopDenied \/ KeyStop
  BY <1>1, <1>3 DEF Hop, HopGranted, HopDenied, KeyStop, taskVars, workVars
<1>4. CASE ShellRefused \/ Receive \/ Settle
  BY <1>1, <1>4 DEF ShellRefused, Receive, Settle, taskVars, workVars
<1>5. ASSUME NEW what, Submit(what) PROVE Ledgers'
  <2>1. /\ tasks' = tasks + 1 /\ UNCHANGED <<phase, ordinal, ledger, outcome>> /\ tasks \in Nat
        /\ \A t \in Tasks : t # tasks + 1 => kind'[t] = kind[t]
    BY <1>5 DEF Submit, workVars, TypeInv
  <2>2. tasks + 1 \in Tasks /\ phase[tasks + 1] = "none"
    BY <1>5, ModelTurnAssumption DEF Submit, TypeInv, Tasks, TurnInv
  <2>3. \A t \in Tasks : LedgerOf(t)' BY <2>1, <2>2 DEF Ledgers, LedgerOf, Alive
  <2>4. \A t \in Tasks : t > tasks' => t > tasks BY <2>1 DEF Tasks
  <2>5. outcome[tasks + 1] = "running" BY <2>1, <2>2 DEF Ledgers
  <2>6. QED BY <2>1, <2>3, <2>4, <2>5 DEF Ledgers
<1>6. CASE Spawned
  <2>1. tasks \in Tasks /\ phase[tasks] = "none" /\ outcome[tasks] = "running"
    BY <1>6 DEF Spawned, TurnInv, Ledgers
  <2>2. /\ phase' = [phase EXCEPT ![tasks] = "thinking"] /\ loop' = "select"
        /\ UNCHANGED <<tasks, kind, ordinal, ledger, outcome>>
    BY <1>6 DEF Spawned, taskVars
  <2>3. ledger[tasks] = <<>> BY <2>1 DEF Ledgers, LedgerOf
  <2>4. phase'[tasks] = "thinking" BY <2>1, <2>2 DEF TypeInv
  <2>5. \A t \in Tasks : t # tasks => phase'[t] = phase[t] BY <2>2 DEF TypeInv
  <2>6. LedgerOf(tasks)'
    BY <2>1, <2>2, <2>3, <2>4 DEF Ledgers, LedgerOf, Closed, Alive
  <2>7. \A t \in Tasks : t # tasks => LedgerOf(t)' BY <2>2, <2>5 DEF Ledgers, LedgerOf, Alive
  <2>8. QED BY <2>2, <2>6, <2>7 DEF Ledgers
<1>7. CASE TurnRefused
  <2>1. tasks \in Tasks /\ phase[tasks] = "none" /\ tasks \in Nat
    BY <1>7 DEF TurnRefused, TurnInv, Tasks
  <2>2. /\ outcome' = [outcome EXCEPT ![tasks] = "failed"] /\ loop' = "select"
        /\ UNCHANGED <<tasks, kind, phase, ordinal, ledger>>
    BY <1>7 DEF TurnRefused, taskVars
  <2>3. /\ outcome' \in [Tasks -> {"running", "answered", "failed"}]
        /\ \A t \in Tasks : t # tasks => outcome'[t] = outcome[t]
    BY <2>2 DEF Ledgers
  <2>4. \A t \in Tasks : LedgerOf(t)' BY <2>1, <2>2, <2>3 DEF Ledgers, LedgerOf, Alive
  <2>5. \A t \in Tasks : t > tasks => t # tasks BY <2>1 DEF Tasks
  <2>6. QED BY <2>2, <2>3, <2>4, <2>5 DEF Ledgers
<1>8. QED BY <1>2, <1>3, <1>4, <1>5, <1>6, <1>7 DEF SubmitTurn, SubmitShell, BrokerAnswers

LEMMA WorkerLedgers ==
  ASSUME TypeInv, TurnInv, Ledgers, NEW t \in Tasks, WorkerStep(t) \/ WorkerPanics(t)
  PROVE  Ledgers'
<1> DEFINE scripts == ledger[t]
           n == ordinal[t]
<1>1. scripts \in Seq(Nodes) /\ n \in Nat /\ LedgerOf(t) BY DEF TypeInv, Ledgers
<1>2. Grows(scripts, n) BY <1>1 DEF LedgerOf
<1>3. Len(scripts) \in Nat BY <1>1
<1>4. Alive(t) => loop = "select" BY DEF TurnInv, InFlight
<1>5. CASE ScriptStarts(t)
  <2>1. /\ kind[t] = "turn" /\ phase[t] = "thinking" /\ Alive(t)
        /\ phase' = [phase EXCEPT ![t] = "scripting"]
        /\ ordinal' = [ordinal EXCEPT ![t] = n + 1]
        /\ ledger' = [ledger EXCEPT ![t] = Append(scripts, Node(n, <<>>, FALSE))]
        /\ UNCHANGED <<loop, tasks, kind, outcome>>
    BY <1>5 DEF ScriptStarts, Alive, WorkerOnly, taskVars
  <2>2. /\ phase'[t] = "scripting" /\ ordinal'[t] = n + 1
        /\ ledger'[t] = Append(scripts, Node(n, <<>>, FALSE))
    BY <2>1 DEF TypeInv
  <2>3. Closed(scripts, Len(scripts)) /\ outcome[t] = "running" BY <1>1, <2>1 DEF LedgerOf
  <2> HIDE DEF scripts, n
  <2>4. /\ Grows(ledger'[t], n + 1) /\ Len(ledger'[t]) = Len(scripts) + 1
        /\ \A i \in 1 .. Len(scripts) : ledger'[t][i] = scripts[i]
        /\ ~ledger'[t][Len(ledger'[t])].done
    <3>1. PICK node \in Nodes : node = Node(n, <<>>, FALSE) /\ node.seq = n /\ ~node.done
      BY <1>1, NewNodes DEF Node
    <3>2. ledger'[t] = Append(scripts, node) BY <2>2, <3>1
    <3>3. /\ ledger'[t] \in Seq(Nodes) /\ Len(ledger'[t]) = Len(scripts) + 1
          /\ \A i \in 1 .. Len(scripts) : ledger'[t][i] = scripts[i]
          /\ ledger'[t][Len(scripts) + 1] = node
      BY <1>1, <3>2, Appended
    <3>4. QED BY <1>1, <1>2, <3>1, <3>3, GrowsOn
  <2>5. Closed(ledger'[t], Len(ledger'[t]) - 1)
    <3>1. Len(ledger'[t]) - 1 = Len(scripts) BY <1>3, <2>4
    <3>2. QED BY <2>3, <2>4, <3>1 DEF Closed
  <2>6. LedgerOf(t)' BY <2>1, <2>2, <2>3, <2>4, <2>5 DEF LedgerOf, Alive
  <2>7. \A u \in Tasks \ {t} :
          ledger'[u] = ledger[u] /\ ordinal'[u] = ordinal[u] /\ phase'[u] = phase[u]
    BY <2>1 DEF TypeInv
  <2>8. QED BY <2>1, <2>6, <2>7, OthersLedgers DEF Ledgers
<1>6. CASE CallStarts(t)
  <2>1. /\ phase[t] = "scripting" /\ ordinal' = [ordinal EXCEPT ![t] = n + 1]
        /\ UNCHANGED <<loop, tasks, kind, phase, ledger, outcome>>
    BY <1>6 DEF CallStarts, WorkerOnly, taskVars
  <2>2. ordinal'[t] = n + 1 /\ \A u \in Tasks \ {t} : ordinal'[u] = ordinal[u]
    BY <2>1 DEF TypeInv
  <2> HIDE DEF n
  <2>3. Grows(ledger[t], n + 1) BY <1>1, <1>2, GrowsOn
  <2>4. LedgerOf(t)' BY <1>1, <2>1, <2>2, <2>3 DEF LedgerOf, Alive
  <2>5. QED BY <2>1, <2>2, <2>4, OthersLedgers DEF Ledgers
<1>7. CASE CallReturns(t)
  <2>1. PICK m \in open[t] :
          /\ ledger' = [ledger EXCEPT ![t] = [scripts EXCEPT ![Len(scripts)] =
                          [scripts[Len(scripts)] EXCEPT !.calls = Append(@, m)]]]
          /\ UNCHANGED <<loop, tasks, kind, phase, ordinal, outcome>>
    BY <1>7 DEF CallReturns, WorkerOnly, taskVars
  <2>2. phase[t] = "scripting" /\ m \in Nat BY <2>1 DEF TypeInv
  <2>3. scripts # <<>> /\ scripts[Len(scripts)] \in Nodes BY <2>2, LastNode DEF TypeInv
  <2>4. PICK node \in Nodes : /\ node = [scripts[Len(scripts)] EXCEPT !.calls = Append(@, m)]
                              /\ node.seq = scripts[Len(scripts)].seq
                              /\ node.done = scripts[Len(scripts)].done
    <3>1. [scripts[Len(scripts)] EXCEPT !.calls = Append(@, m)] \in Nodes BY <2>2, <2>3, NodeEdits
    <3>2. QED BY <2>3, <3>1 DEF Nodes
  <2>5. ledger'[t] = [scripts EXCEPT ![Len(scripts)] = node] BY <2>1, <2>4 DEF TypeInv
  <2>6. \A u \in Tasks \ {t} : ledger'[u] = ledger[u] BY <2>1 DEF TypeInv
  <2>7. Closed(scripts, Len(scripts) - 1) /\ ~scripts[Len(scripts)].done /\ kind[t] = "turn"
        /\ outcome[t] = "running"
    BY <1>1, <2>2 DEF LedgerOf, Alive
  <2> HIDE DEF scripts, n
  <2>8. /\ Grows(ledger'[t], n) /\ ledger'[t] # <<>> /\ Len(ledger'[t]) = Len(scripts)
        /\ \A i \in 1 .. Len(scripts) - 1 : ledger'[t][i] = scripts[i]
        /\ ledger'[t][Len(ledger'[t])] = node
    <3> DEFINE new == [scripts EXCEPT ![Len(scripts)] = node]
    <3>1. /\ new \in Seq(Nodes) /\ Len(new) = Len(scripts) /\ new[Len(scripts)] = node
          /\ \A i \in 1 .. Len(scripts) - 1 : new[i] = scripts[i]
      BY <1>1, <2>3, Rewritten
    <3>2. ledger'[t] = new BY <2>5
    <3> HIDE DEF new
    <3>3. Grows(ledger'[t], n) /\ ledger'[t] # <<>> BY <1>1, <1>2, <2>3, <2>4, <3>1, <3>2, LastRewritten
    <3>4. QED BY <3>1, <3>2, <3>3
  <2>9. Closed(ledger'[t], Len(ledger'[t]) - 1) /\ ~ledger'[t][Len(ledger'[t])].done
    BY <2>4, <2>7, <2>8 DEF Closed
  <2>10. LedgerOf(t)' BY <2>1, <2>2, <2>7, <2>8, <2>9 DEF LedgerOf, Alive, n
  <2>11. QED BY <2>1, <2>2, <2>6, <2>10, OthersLedgers DEF Ledgers
<1>8. CASE ScriptFinishes(t)
  <2>1. /\ phase[t] = "scripting" /\ phase' = [phase EXCEPT ![t] = "thinking"]
        /\ ledger' = [ledger EXCEPT ![t] = [scripts EXCEPT ![Len(scripts)] =
                        [scripts[Len(scripts)] EXCEPT !.done = TRUE]]]
        /\ UNCHANGED <<loop, tasks, kind, ordinal, outcome>>
    BY <1>8 DEF ScriptFinishes, WorkerOnly, taskVars
  <2>2. scripts # <<>> /\ scripts[Len(scripts)] \in Nodes BY <2>1, LastNode DEF TypeInv
  <2>3. PICK node \in Nodes : /\ node = [scripts[Len(scripts)] EXCEPT !.done = TRUE]
                              /\ node.seq = scripts[Len(scripts)].seq
                              /\ node.done
    <3>1. [scripts[Len(scripts)] EXCEPT !.done = TRUE] \in Nodes BY <2>2, NodeEdits
    <3>2. QED BY <2>2, <3>1 DEF Nodes
  <2>4. ledger'[t] = [scripts EXCEPT ![Len(scripts)] = node] /\ phase'[t] = "thinking"
    BY <2>1, <2>3 DEF TypeInv
  <2>5. \A u \in Tasks \ {t} : ledger'[u] = ledger[u] /\ phase'[u] = phase[u] BY <2>1 DEF TypeInv
  <2>6. Closed(scripts, Len(scripts) - 1) /\ outcome[t] = "running"
    BY <1>1, <2>1 DEF LedgerOf, Alive
  <2> HIDE DEF scripts, n
  <2>7. /\ Grows(ledger'[t], n) /\ ledger'[t] # <<>> /\ Len(ledger'[t]) = Len(scripts)
        /\ \A i \in 1 .. Len(scripts) - 1 : ledger'[t][i] = scripts[i]
        /\ ledger'[t][Len(ledger'[t])] = node
    <3> DEFINE new == [scripts EXCEPT ![Len(scripts)] = node]
    <3>1. /\ new \in Seq(Nodes) /\ Len(new) = Len(scripts) /\ new[Len(scripts)] = node
          /\ \A i \in 1 .. Len(scripts) - 1 : new[i] = scripts[i]
      BY <1>1, <2>2, Rewritten
    <3>2. ledger'[t] = new BY <2>4
    <3> HIDE DEF new
    <3>3. new[Len(scripts)].seq = scripts[Len(scripts)].seq BY <2>3, <3>1
    <3>4. Grows(new, n) /\ new # <<>> BY <1>1, <1>2, <2>2, <3>1, <3>3, LastRewritten
    <3>5. QED BY <3>1, <3>2, <3>4
  <2>8. Closed(ledger'[t], Len(ledger'[t]))
    <3> SUFFICES ASSUME NEW i \in 1 .. Len(scripts) PROVE ledger'[t][i].done
      BY <2>7 DEF Closed
    <3>1. CASE i = Len(scripts) BY <2>3, <2>7, <3>1
    <3>2. CASE i # Len(scripts)
      <4>1. i \in 1 .. Len(scripts) - 1 BY <1>3, <3>2
      <4>2. QED BY <2>6, <2>7, <4>1 DEF Closed
    <3>3. QED BY <3>1, <3>2
  <2>9. Closed(ledger'[t], Len(ledger'[t]) - 1) BY <1>3, <2>7, <2>8 DEF Closed
  <2>10. LedgerOf(t)' BY <2>1, <2>4, <2>6, <2>7, <2>8, <2>9 DEF LedgerOf, Alive, n
  <2>11. QED BY <2>1, <2>5, <2>10, OthersLedgers DEF Ledgers
<1>9. CASE TurnReports(t)
  <2>1. PICK status \in {"answered", "failed"} : outcome' = [outcome EXCEPT ![t] = status]
    BY <1>9 DEF TurnReports
  <2>2. /\ phase[t] = "thinking" /\ phase' = [phase EXCEPT ![t] = "reported"]
        /\ UNCHANGED <<loop, tasks, kind, ordinal, ledger>>
    BY <1>9 DEF TurnReports, WorkerOnly, taskVars
  <2>3. /\ outcome' \in [Tasks -> {"running", "answered", "failed"}]
        /\ phase'[t] = "reported"
        /\ \A u \in Tasks \ {t} : outcome'[u] = outcome[u] /\ phase'[u] = phase[u]
    BY <2>1, <2>2 DEF Ledgers, TypeInv
  <2>4. LedgerOf(t)' BY <1>1, <1>2, <2>2, <2>3 DEF LedgerOf, Alive
  <2>5. loop # "leg" BY <1>4, <2>2 DEF Alive
  <2>6. QED BY <2>2, <2>3, <2>4, <2>5, OthersLedgers
<1>10. CASE ShellReports(t) \/ WorkerReturns(t) \/ WorkerPanics(t)
  <2>1. PICK new \in {"reported", "returned", "dead"} : phase' = [phase EXCEPT ![t] = new]
    BY <1>10 DEF ShellReports, WorkerReturns, WorkerPanics
  <2>2. phase[t] # "none" /\ UNCHANGED <<loop, tasks, kind, ordinal, ledger, outcome>>
    BY <1>10 DEF ShellReports, WorkerReturns, WorkerPanics, WorkerOnly, taskVars, Alive
  <2>3. phase'[t] = new /\ \A u \in Tasks \ {t} : phase'[u] = phase[u] BY <2>1 DEF TypeInv
  <2>4. LedgerOf(t)' BY <1>1, <1>2, <2>2, <2>3 DEF LedgerOf, Alive
  <2>5. QED BY <2>2, <2>3, <2>4, OthersLedgers DEF Ledgers
<1>11. QED BY <1>5, <1>6, <1>7, <1>8, <1>9, <1>10 DEF WorkerStep

LEMMA LedgersKept == TypeInv /\ TurnInv /\ Ledgers /\ [Next]_vars => Ledgers'
BY LoopLedgers, WorkerLedgers DEF Next
-------------------------------------------------------------------------------
(* A call or a finish reaches the script its worker is running. *)
LEMMA RunningScriptIs ==
  ASSUME NEW scripts \in Seq(Nodes), scripts # <<>>, Closed(scripts, Len(scripts) - 1),
         ~scripts[Len(scripts)].done, NEW n \in Nat
  PROVE  FileCall(scripts, n) = [scripts EXCEPT ![Len(scripts)].calls = Append(@, n)]
<1>1. Len(scripts) \in Nat /\ Len(scripts) # 0 OBVIOUS
<1>2. UnclosedIn(scripts) = {Len(scripts)} BY <1>1 DEF UnclosedIn, Closed
<1>3. Max(UnclosedIn(scripts)) \in UnclosedIn(scripts)
  <2>1. UnclosedIn(scripts) \in SUBSET (1 .. Len(scripts)) /\ UnclosedIn(scripts) # {}
    BY <1>1, <1>2
  <2>2. QED BY <1>1, <2>1, Greatest
<1>4. Max(UnclosedIn(scripts)) = Len(scripts) /\ UnclosedIn(scripts) # {} BY <1>2, <1>3
<1>5. QED BY <1>4, FileCallIs

LEMMA FinishedScriptIs ==
  ASSUME NEW scripts \in Seq(Nodes), scripts # <<>>, NEW n \in Nat, Grows(scripts, n)
  PROVE  CloseScript(scripts, scripts[Len(scripts)].seq) =
           [scripts EXCEPT ![Len(scripts)].done = TRUE]
<1> DEFINE seq == scripts[Len(scripts)].seq
<1>1. Len(scripts) \in Nat /\ Len(scripts) # 0 /\ Len(scripts) \in 1 .. Len(scripts)
      /\ \A i \in 1 .. Len(scripts) : scripts[i] \in Nodes
  OBVIOUS
<1>2. \A i \in 1 .. Len(scripts) : scripts[i].seq \in Nat BY <1>1 DEF Nodes
<1>3. \A i \in 1 .. Len(scripts) - 1 : scripts[i].seq < seq BY <1>1 DEF Grows
<1>4. SeqIn(scripts, seq) = {Len(scripts)}
  <2>1. \A i \in 1 .. Len(scripts) : i # Len(scripts) => scripts[i].seq # seq
    <3> SUFFICES ASSUME NEW i \in 1 .. Len(scripts), i # Len(scripts) PROVE scripts[i].seq # seq
      OBVIOUS
    <3>1. i \in 1 .. Len(scripts) - 1 BY <1>1
    <3>2. scripts[i].seq < seq /\ scripts[i].seq \in Nat /\ seq \in Nat BY <1>1, <1>2, <1>3, <3>1
    <3> HIDE DEF seq
    <3>3. QED BY <3>2
  <2>2. QED BY <1>1, <2>1 DEF SeqIn
<1>5. Min(SeqIn(scripts, seq)) \in SeqIn(scripts, seq)
  <2>1. SeqIn(scripts, seq) \in SUBSET (1 .. Len(scripts)) /\ SeqIn(scripts, seq) # {}
    BY <1>1, <1>4
  <2>2. QED BY <1>1, <2>1, Least
<1>6. Min(SeqIn(scripts, seq)) = Len(scripts) /\ SeqIn(scripts, seq) # {} BY <1>4, <1>5
<1>7. seq \in Nat BY <1>1, <1>2
<1> HIDE DEF seq
<1>8. CloseScript(scripts, seq) = [scripts EXCEPT ![Len(scripts)].done = TRUE]
  BY <1>6, <1>7, CloseScriptIs
<1>9. QED BY <1>8 DEF seq

-------------------------------------------------------------------------------
(* The transcript. *)

LEMMA TurnsTyped ==
  TypeInv /\ transcript \in Seq(Turns) /\ [Next]_vars => transcript' \in Seq(Turns)
<1> SUFFICES ASSUME TypeInv, transcript \in Seq(Turns), [Next]_vars
             PROVE  transcript' \in Seq(Turns)
  OBVIOUS
<1>1. CASE Waiting \/ HopDenied \/ SubmitShell \/ Spawned \/ ShellRefused \/ UNCHANGED vars
  BY <1>1 DEF Waiting, HopDenied, SubmitShell, Spawned, ShellRefused, vars, appVars
<1>2. CASE Hop \/ HopGranted
  <2>1. transcript' = <<>> BY <1>2 DEF Hop, HopGranted
  <2>2. <<>> \in Seq(Turns) OBVIOUS
  <2>3. QED BY <2>1, <2>2
<1>3. CASE SubmitTurn
  <2>1. tasks + 1 \in Nat BY DEF TypeInv
  <2>2. Opened(tasks + 1) \in Turns BY <2>1, OpenedTypes
  <2>3. transcript' = Append(transcript, Opened(tasks + 1)) BY <1>3 DEF SubmitTurn, OpenTurn
  <2>4. QED BY <2>2, <2>3, Longer
<1>4. CASE TurnRefused BY <1>4, AbsorbTypes, SentTypes DEF TurnRefused
<1>5. CASE KeyStop BY <1>5, StopMarks DEF KeyStop
<1>6. CASE Receive
  <2>1. running \in Tasks /\ mail[running] \in Seq(Sent) /\ mail[running] # <<>>
    BY <1>6 DEF Receive, TypeInv, Tasks
  <2>2. Head(mail[running]) \in Sent BY <2>1
  <2>3. QED BY <1>6, <2>2, AbsorbTypes DEF Receive
<1>7. CASE Settle BY <1>7, WindowMarks DEF Settle
<1>8. ASSUME NEW t \in Tasks, WorkerStep(t) \/ WorkerPanics(t) PROVE transcript' \in Seq(Turns)
  BY <1>8 DEF WorkerStep, ScriptStarts, CallStarts, CallReturns, ScriptFinishes, TurnReports,
              ShellReports, WorkerReturns, WorkerPanics, WorkerOnly, appVars
<1>9. QED BY <1>1, <1>2, <1>3, <1>4, <1>5, <1>6, <1>7, <1>8 DEF Next, BrokerAnswers

(* A step after which what is settled is as before. *)
LEMMA FiledStays ==
  ASSUME TypeInv, TypeInv', FiledInv, transcript' \in Seq(Turns),
         Same(Settled, Settled'), UNCHANGED <<ledger, outcome>>, tasks <= tasks',
         \A t \in Tasks :
           kind'[t] = "turn" /\ (Alive(t)' \/ (loop' = "leg" /\ t = tasks')) =>
             kind[t] = "turn" /\ (Alive(t) \/ (loop = "leg" /\ t = tasks))
  PROVE  Filed' /\ Latest'
<1>1. Settled \in Seq(Turns) /\ Settled' \in Seq(Turns) BY SettledTypes, SettledNext DEF FiledInv
<1>2. tasks \in Nat /\ tasks' \in Nat BY DEF TypeInv
<1>3. FiledIn(Settled', ledger, outcome, tasks')
  BY <1>1, <1>2, FiledSame DEF FiledInv, Filed
<1>4. Filed' BY <1>3 DEF Filed, FiledIn
<1>5. ASSUME NEW t \in Tasks, kind'[t] = "turn", Alive(t)' \/ (loop' = "leg" /\ t = tasks')
      PROVE  NewestIn(Settled', t)
  <2>1. NewestIn(Settled, t) BY <1>5 DEF FiledInv, Latest
  <2>2. QED BY <1>1, <2>1, NewestSame
<1>6. Latest' BY <1>5 DEF Latest, NewestIn
<1>7. QED BY <1>4, <1>6

(* A worker's event does to the newest turn what the worker did. *)
LEMMA FiledSends ==
  ASSUME TypeInv, TurnInv, TypeInv', FiledInv, transcript' = transcript,
         NEW t \in Tasks, Alive(t), kind[t] = "turn",
         UNCHANGED <<loop, busy, running, tasks, kind>>,
         NEW event \in Sent, Emit(t, event),
         \A u \in Tasks \ {t} :
           ledger'[u] = ledger[u] /\ outcome'[u] = outcome[u] /\ phase'[u] = phase[u],
         \A turn \in Turns : turn.scripts = ledger[t] /\ turn.status = "running" =>
           Fold(turn, event).scripts = ledger'[t] /\ Fold(turn, event).status = outcome'[t]
  PROVE  Filed' /\ Latest'
<1> DEFINE last == Settled[Len(Settled)]
           new == [Settled EXCEPT ![Len(Settled)] = Fold(last, event)]
<1>1. Settled \in Seq(Turns) /\ Settled' \in Seq(Turns) BY SettledTypes, SettledNext DEF FiledInv
<1>2. running = t /\ loop = "select" /\ Queue' = Append(Queue, event) BY QueueSends
<1>3. Same(Absorb(Settled, event), Settled') BY <1>2, SettledSends DEF FiledInv
<1>4. NewestIn(Settled, t) BY DEF FiledInv, Latest
<1>5. /\ Len(Settled) \in 1 .. Len(Settled) /\ Settled # <<>>
      /\ last \in Turns /\ last.prompt = t
  BY <1>1, <1>4 DEF NewestIn
<1>6. last.scripts = ledger[t] /\ last.status = outcome[t] /\ t \in 1 .. tasks
  BY <1>5 DEF FiledInv, Filed, FiledIn
<1>7. outcome[t] = "running" BY DEF FiledInv, Ledgers, LedgerOf
<1>8. Fold(last, event) \in Turns /\ Fold(last, event).prompt = t BY <1>5, FoldTypes
<1>9. Fold(last, event).scripts = ledger'[t] /\ Fold(last, event).status = outcome'[t]
  BY <1>5, <1>6, <1>7
<1>10. Absorb(Settled, event) = new BY <1>1, <1>5, <1>6, <1>7, AbsorbLast
<1>11. new \in Seq(Turns) /\ FiledIn(new, ledger', outcome', tasks) /\ NewestIn(new, t)
  <2>1. tasks \in Nat /\ t \in Nat /\ \A u \in 1 .. tasks : u \in Tasks
    BY ModelTurnAssumption DEF TypeInv, Tasks
  <2>2. \A u \in 1 .. tasks : u # t => ledger'[u] = ledger[u] /\ outcome'[u] = outcome[u]
    BY <2>1
  <2>3. FiledIn(Settled, ledger, outcome, tasks) BY DEF FiledInv, Filed
  <2> HIDE DEF last
  <2>4. /\ new \in Seq(Turns) /\ Len(new) = Len(Settled)
        /\ new[Len(Settled)] = Fold(last, event)
        /\ \A i \in 1 .. Len(Settled) - 1 : new[i] = Settled[i]
    BY <1>1, <1>5, <1>8, Rewritten
  <2> HIDE DEF new
  <2>5. /\ new[Len(Settled)].prompt = t /\ new[Len(Settled)].scripts = ledger'[t]
        /\ new[Len(Settled)].status = outcome'[t]
    BY <1>8, <1>9, <2>4
  <2>6. OnlyAt(t, tasks, ledger, ledger') /\ OnlyAt(t, tasks, outcome, outcome')
    BY <2>2 DEF OnlyAt
  <2>7. Refiles(Settled, new, t, ledger', outcome') BY <2>4, <2>5 DEF Refiles, OnlyLast
  <2>8. FiledIn(new, ledger', outcome', tasks) /\ NewestIn(new, t)
    <3>1. Settled \in Seq(Turns) /\ new \in Seq(Turns) /\ tasks \in Nat /\ t \in Nat
      BY <1>1, <2>1, <2>4
    <3>2. QED BY <1>4, <2>3, <2>6, <2>7, <3>1, NewestFiled
  <2>9. QED BY <2>4, <2>8
<1> HIDE DEF new
<1>12. Same(new, Settled') BY <1>3, <1>10
<1>13. FiledIn(Settled', ledger', outcome', tasks) /\ NewestIn(Settled', t)
  <2>1. tasks \in Nat /\ tasks <= tasks BY DEF TypeInv
  <2>2. QED BY <1>1, <1>11, <1>12, <2>1, FiledSame, NewestSame
<1>14. Filed' BY <1>13 DEF Filed, FiledIn
<1>15. \A u \in Tasks : Alive(u)' => u = t
  BY <1>2 DEF Alive, TurnInv, InFlight
<1>16. Latest' BY <1>2, <1>13, <1>15 DEF Latest, NewestIn
<1>17. QED BY <1>14, <1>16
-------------------------------------------------------------------------------
(* The loop's steps. *)

LEMMA LoopStays ==
  ASSUME TypeInv, TurnInv, TypeInv', FiledInv, transcript' \in Seq(Turns),
         \/ Waiting \/ UNCHANGED vars \/ HopDenied \/ SubmitShell \/ Spawned
         \/ ShellRefused \/ KeyStop \/ Receive \/ Settle
  PROVE  Filed' /\ Latest'
<1>1. /\ transcript \in Seq(Turns) /\ Same(transcript, transcript)
      /\ Queued /\ Queue \in Seq(Sent) /\ tasks \in Nat
      /\ (Queue = <<>> => Settled = transcript) /\ (Queue' = <<>> => Settled' = transcript')
  <2>1. transcript \in Seq(Turns) /\ Queued BY DEF FiledInv
  <2>2. tasks \in Nat BY DEF TypeInv
  <2>3. Same(transcript, transcript) BY <2>1, SameIsSame
  <2>4. QED BY <2>1, <2>2, <2>3, SettledEmpty, SettledNext, QueueTypes
<1>2. ASSUME Same(Settled, Settled'), UNCHANGED <<ledger, outcome, kind, phase, tasks>>,
             loop' = "leg" => loop = "leg"
      PROVE  Filed' /\ Latest'
  BY <1>1, <1>2, FiledStays DEF Alive
<1>3. CASE Waiting \/ UNCHANGED vars \/ HopDenied \/ ShellRefused
  <2>1. /\ transcript' = transcript /\ Queue' = Queue
        /\ UNCHANGED <<ledger, outcome, kind, phase, tasks>>
        /\ loop' = "leg" => loop = "leg"
    BY <1>3 DEF Waiting, HopDenied, ShellRefused, vars, appVars, taskVars, workVars, Queue
  <2>2. Same(Settled, Settled') BY <1>1, <2>1, SettledStays
  <2>3. QED BY <1>2, <2>1, <2>2
<1>4. CASE KeyStop
  <2>1. /\ transcript' = MarkStop(transcript) /\ Queue' = Queue
        /\ UNCHANGED <<ledger, outcome, kind, phase, tasks, loop>>
    BY <1>4 DEF KeyStop, taskVars, workVars, Queue
  <2>2. Same(Settled, Settled') BY <1>1, <2>1, StopMarks, SettledStays
  <2>3. QED BY <1>2, <2>1, <2>2
<1>5. CASE Receive
  <2>1. /\ Queue # <<>> /\ Queue' = Tail(Queue)
        /\ transcript' = Absorb(transcript, Head(Queue))
        /\ UNCHANGED <<ledger, outcome, kind, phase, tasks, loop>>
    BY <1>5, QueueReceives DEF Receive, taskVars
  <2>2. Same(Settled, Settled') BY <1>1, <2>1, SettledReceives
  <2>3. QED BY <1>2, <2>1, <2>2
<1>6. CASE Settle
  <2>1. /\ Queue = <<>> /\ Queue' = <<>>
        /\ UNCHANGED <<ledger, outcome, kind, phase, tasks, loop>>
    BY <1>6 DEF Settle, Queue, taskVars, workVars
  <2>2. Same(transcript, transcript')
    <3>1. CASE kind[running] = "turn"
      BY <1>1, <1>6, <3>1, WindowMarks DEF Settle
    <3>2. CASE kind[running] # "turn"
      BY <1>1, <1>6, <3>2 DEF Settle
    <3>3. QED BY <3>1, <3>2
  <2>3. Same(Settled, Settled') BY <1>1, <2>1, <2>2
  <2>4. QED BY <1>2, <2>1, <2>3
<1>7. CASE Spawned
  <2>1. /\ loop = "leg" /\ loop' = "select" /\ running' = tasks /\ tasks \in Tasks
        /\ phase' = [phase EXCEPT ![tasks] = "thinking"] /\ mail' = mail
        /\ UNCHANGED <<ledger, outcome, kind, tasks, transcript>>
    BY <1>7 DEF Spawned, TurnInv, taskVars
  <2>2. Queue = <<>> BY <1>1, <2>1 DEF Queued
  <2>3. mail[tasks] = <<>> BY <2>1 DEF TurnInv
  <2>4. Queue' = <<>> BY <2>1, <2>3 DEF Queue
  <2>5. Same(Settled, Settled') BY <1>1, <2>1, <2>2, <2>4
  <2>6. \A t \in Tasks : Alive(t)' => Alive(t) \/ t = tasks
    BY <2>1 DEF Alive, TypeInv
  <2>7. QED BY <1>1, <2>1, <2>5, <2>6, FiledStays
<1>8. CASE SubmitShell
  <2>1. /\ loop' = "leg" /\ tasks' = tasks + 1 /\ tasks + 1 \in Tasks
        /\ kind' = [kind EXCEPT ![tasks + 1] = "shell"]
        /\ UNCHANGED <<ledger, outcome, phase, transcript>> /\ Queue' = Queue
    BY <1>1, <1>8, ModelTurnAssumption
    DEF SubmitShell, Submit, workVars, Tasks, Queue, TypeInv
  <2>2. Same(Settled, Settled') BY <1>1, <2>1, SettledStays
  <2>3. \A t \in Tasks : kind'[t] = "turn" => kind[t] = "turn" /\ t # tasks'
    BY <2>1 DEF TypeInv
  <2>4. QED BY <1>1, <2>1, <2>2, <2>3, FiledStays DEF Alive
<1>9. QED BY <1>3, <1>4, <1>5, <1>6, <1>7, <1>8

LEMMA HopFiles ==
  ASSUME TypeInv, TurnInv, TypeInv', TurnInv', FiledInv, Hop \/ HopGranted
  PROVE  Filed' /\ Latest'
<1>1. transcript' = <<>> /\ loop' # "leg" /\ phase' = phase /\ kind' = kind /\ Queue' = Queue
  BY DEF Hop, HopGranted, workVars, taskVars, Queue
<1>2. Queue = <<>> /\ \A t \in Tasks : ~Alive(t)
  BY DEF Hop, HopGranted, FiledInv, Queued, TurnInv, InFlight
<1>3. Settled' = <<>> BY <1>1, <1>2, SettledNext
<1>4. Filed' BY <1>3 DEF Filed, FiledIn
<1>5. Latest' BY <1>1, <1>2 DEF Latest, Alive
<1>6. QED BY <1>4, <1>5

LEMMA SubmitFiles ==
  ASSUME TypeInv, TurnInv, TypeInv', FiledInv, SubmitTurn
  PROVE  Filed' /\ Latest'
<1>1. /\ transcript \in Seq(Turns) /\ tasks \in Nat /\ tasks + 1 \in Tasks
      /\ Len(transcript) \in Nat
  BY ModelTurnAssumption DEF FiledInv, TypeInv, SubmitTurn, Submit, Tasks
<1>2. /\ ~busy /\ loop = "select" /\ loop' = "leg" /\ tasks' = tasks + 1
      /\ UNCHANGED <<phase, ledger, outcome, running, mail>>
      /\ transcript' = Append(transcript, Opened(tasks + 1))
  BY DEF SubmitTurn, Submit, OpenTurn, workVars
<1>3. Queue = <<>> /\ Queue' = <<>> BY <1>2, QueueStays DEF FiledInv, Queued
<1>4. Settled = transcript /\ Settled' = transcript' BY <1>1, <1>3, SettledEmpty, SettledNext
<1>5. ledger[tasks + 1] = <<>> /\ outcome[tasks + 1] = "running"
  <2>1. tasks + 1 > tasks BY <1>1
  <2>2. phase[tasks + 1] = "none" BY <1>1, <2>1 DEF TurnInv
  <2>3. QED BY <1>1, <2>1, <2>2 DEF FiledInv, Ledgers, LedgerOf
<1> DEFINE n == Len(transcript)
           opened == Opened(tasks + 1)
<1>6. /\ opened \in Turns /\ opened.prompt = tasks + 1
      /\ opened.scripts = <<>> /\ opened.status = "running"
  BY <1>1, OpenedTypes
<1> HIDE DEF opened
<1>7. /\ Len(transcript') = n + 1 /\ transcript'[n + 1] = opened
      /\ \A i \in 1 .. n : transcript'[i] = transcript[i]
  BY <1>1, <1>2, <1>6, Appended DEF opened
<1>8. FiledIn(transcript, ledger, outcome, tasks) BY <1>4 DEF FiledInv, Filed
<1>9. ASSUME NEW i \in 1 .. n + 1
      PROVE  /\ transcript'[i].prompt \in 1 .. tasks + 1
             /\ \A j \in 1 .. i - 1 : transcript'[j].prompt < transcript'[i].prompt
             /\ transcript'[i].scripts = ledger[transcript'[i].prompt]
             /\ transcript'[i].status = outcome[transcript'[i].prompt]
  <2>1. \A j \in 1 .. n : transcript[j].prompt \in 1 .. tasks BY <1>8 DEF FiledIn
  <2>2. CASE i = n + 1
    <3>1. \A j \in 1 .. i - 1 : transcript'[j].prompt < tasks + 1
      BY <1>1, <1>7, <2>1, <2>2
    <3>2. QED BY <1>1, <1>5, <1>6, <1>7, <2>2, <3>1
  <2>3. CASE i # n + 1
    <3>1. i \in 1 .. n /\ \A j \in 1 .. i - 1 : j \in 1 .. n BY <1>1, <2>3
    <3>2. transcript'[i] = transcript[i]
          /\ \A j \in 1 .. i - 1 : transcript'[j] = transcript[j]
      BY <1>7, <3>1
    <3>3. transcript[i].prompt \in 1 .. tasks + 1 BY <1>1, <2>1, <3>1
    <3>4. QED BY <1>8, <3>1, <3>2, <3>3 DEF FiledIn
  <2>4. QED BY <2>2, <2>3
<1>10. Filed'
  BY <1>2, <1>4, <1>7, <1>9 DEF Filed, FiledIn
<1>11. NewestIn(Settled', tasks + 1)
  BY <1>1, <1>2, <1>4, <1>6, <1>7 DEF NewestIn
<1>12. \A t \in Tasks : ~Alive(t)' BY <1>2 DEF TurnInv, InFlight, Alive
<1>13. Latest' BY <1>2, <1>11, <1>12 DEF Latest, NewestIn
<1>14. QED BY <1>10, <1>13

LEMMA RefusalFiles ==
  ASSUME TypeInv, TurnInv, TypeInv', FiledInv, transcript' \in Seq(Turns), TurnRefused
  PROVE  Filed' /\ Latest'
<1> DEFINE event == Finished("failed")
           last == transcript[Len(transcript)]
           new == [transcript EXCEPT ![Len(transcript)] = Fold(last, event)]
<1>0. PICK t \in Tasks : t = tasks BY DEF TurnRefused, TurnInv
<1>1. /\ loop = "leg" /\ loop' = "select" /\ kind[t] = "turn"
      /\ UNCHANGED <<tasks, kind, phase, ledger, running, mail>>
      /\ outcome' = [outcome EXCEPT ![t] = "failed"]
      /\ transcript' = Absorb(transcript, event)
  BY <1>0 DEF TurnRefused, taskVars
<1>2. /\ t \in Tasks /\ t \in Nat /\ transcript \in Seq(Turns)
      /\ outcome \in [Tasks -> {"running", "answered", "failed"}]
      /\ outcome[t] = "running" /\ \A u \in 1 .. t : u \in Tasks
  <2>1. t \in Nat /\ \A u \in 1 .. t : u \in Tasks BY ModelTurnAssumption DEF Tasks
  <2>2. transcript \in Seq(Turns) /\ Ledgers BY DEF FiledInv
  <2>3. QED BY <1>0, <1>1, <2>1, <2>2 DEF Ledgers
<1>3. Queue = <<>> /\ Queue' = <<>> BY <1>1, QueueStays DEF FiledInv, Queued
<1>4. Settled = transcript /\ Settled' = transcript' BY <1>2, <1>3, SettledEmpty, SettledNext
<1>5. NewestIn(transcript, t) /\ FiledIn(transcript, ledger, outcome, t)
  BY <1>0, <1>1, <1>2, <1>4 DEF FiledInv, Latest, Filed
<1>6. /\ Len(transcript) \in 1 .. Len(transcript) /\ transcript # <<>>
      /\ last \in Turns /\ last.prompt = t
  BY <1>2, <1>5 DEF NewestIn
<1>7. last.scripts = ledger[t] /\ last.status = "running"
  BY <1>0, <1>2, <1>5, <1>6 DEF FiledIn
<1>8. Absorb(transcript, event) = new
  BY <1>2, <1>6, <1>7, SentTypes, AbsorbLast
<1>9. /\ Fold(last, event) \in Turns /\ Fold(last, event).prompt = t
      /\ Fold(last, event).scripts = ledger[t] /\ Fold(last, event).status = "failed"
  <2> HIDE DEF last
  <2>1. Fold(last, event) = [last EXCEPT !.status = "failed"] BY FoldIs
  <2>2. "failed" \in {"running", "answered", "failed"} OBVIOUS
  <2>3. /\ [last EXCEPT !.status = "failed"] \in Turns
        /\ [last EXCEPT !.status = "failed"].prompt = last.prompt
        /\ [last EXCEPT !.status = "failed"].scripts = last.scripts
        /\ [last EXCEPT !.status = "failed"].status = "failed"
    BY <1>6, <2>2, TurnEdits
  <2>4. QED BY <1>6, <1>7, <2>1, <2>3
<1> HIDE DEF last
<1>10. /\ new \in Seq(Turns) /\ Len(new) = Len(transcript)
       /\ new[Len(transcript)] = Fold(last, event)
       /\ \A i \in 1 .. Len(transcript) - 1 : new[i] = transcript[i]
  BY <1>2, <1>6, <1>9, Rewritten
<1> HIDE DEF new
<1>11. outcome'[t] = "failed" /\ \A u \in Tasks : u # t => outcome'[u] = outcome[u]
  BY <1>1, <1>2
<1>12. OnlyAt(t, t, ledger, ledger) /\ OnlyAt(t, t, outcome, outcome')
  BY <1>0, <1>2, <1>11 DEF OnlyAt
<1>13. FiledIn(new, ledger, outcome', t) /\ NewestIn(new, t)
  <2>1. /\ new[Len(transcript)].prompt = t /\ new[Len(transcript)].scripts = ledger[t]
        /\ new[Len(transcript)].status = outcome'[t]
    BY <1>9, <1>10, <1>11
  <2>2. Refiles(transcript, new, t, ledger, outcome') BY <1>10, <2>1 DEF Refiles, OnlyLast
  <2>3. transcript \in Seq(Turns) /\ new \in Seq(Turns) /\ t \in Nat BY <1>2, <1>10
  <2>4. QED BY <1>5, <1>12, <2>2, <2>3, NewestFiled
<1>14. Settled' = new BY <1>1, <1>4, <1>8
<1>15. Filed' BY <1>0, <1>1, <1>13, <1>14 DEF Filed, FiledIn
<1>16. \A u \in Tasks : ~Alive(u)' BY <1>1 DEF TurnInv, InFlight, Alive
<1>17. Latest' BY <1>1, <1>16 DEF Latest
<1>18. QED BY <1>15, <1>17
-------------------------------------------------------------------------------
(* The worker's steps. *)

LEMMA WorkerSends ==
  ASSUME TypeInv, TurnInv, TypeInv', FiledInv, NEW t \in Tasks, kind[t] = "turn",
         ScriptStarts(t) \/ CallReturns(t) \/ ScriptFinishes(t) \/ TurnReports(t)
  PROVE  Filed' /\ Latest'
<1> DEFINE scripts == ledger[t]
           n == ordinal[t]
<1>1. Alive(t) /\ UNCHANGED <<loop, busy, running, transcript, tasks, kind>> BY WorkersSend
<1>2. scripts \in Seq(Nodes) /\ n \in Nat /\ LedgerOf(t) BY DEF TypeInv, FiledInv, Ledgers
<1>3. Grows(scripts, n) /\ outcome[t] = "running" BY <1>1, <1>2 DEF LedgerOf
<1>4. phase[t] = "scripting" =>
        /\ scripts # <<>> /\ Closed(scripts, Len(scripts) - 1) /\ ~scripts[Len(scripts)].done
  BY <1>2 DEF LedgerOf, TypeInv
<1>5. Ledgers /\ ledger \in [Tasks -> Seq(Nodes)] /\ phase \in [Tasks -> Phases]
      /\ outcome \in [Tasks -> {"running", "answered", "failed"}]
  BY DEF FiledInv, Ledgers, TypeInv
<1> HIDE DEF scripts, n
<1>6. ASSUME NEW event \in Sent, Emit(t, event), NEW new \in Seq(Nodes),
             ledger' = [ledger EXCEPT ![t] = new], outcome' = outcome,
             \A u \in Tasks \ {t} : phase'[u] = phase[u],
             \A turn \in Turns : turn.scripts = scripts =>
               Fold(turn, event) = [turn EXCEPT !.scripts = new]
      PROVE  Filed' /\ Latest'
  <2>1. ledger'[t] = new /\ \A u \in Tasks \ {t} : ledger'[u] = ledger[u]
    BY <1>5, <1>6
  <2>2. \A u \in Tasks \ {t} :
          ledger'[u] = ledger[u] /\ outcome'[u] = outcome[u] /\ phase'[u] = phase[u]
    BY <1>6, <2>1
  <2>3. ASSUME NEW turn \in Turns, turn.scripts = ledger[t], turn.status = "running"
        PROVE  Fold(turn, event).scripts = ledger'[t] /\ Fold(turn, event).status = outcome'[t]
    <3>1. Fold(turn, event) = [turn EXCEPT !.scripts = new] BY <1>6, <2>3 DEF scripts
    <3>2. /\ [turn EXCEPT !.scripts = new].scripts = new
          /\ [turn EXCEPT !.scripts = new].status = turn.status
      BY <1>6, TurnEdits
    <3>3. QED BY <1>3, <1>6, <2>1, <2>3, <3>1, <3>2
  <2>4. QED BY <1>1, <1>6, <2>2, <2>3, FiledSends
<1>7. CASE ScriptStarts(t)
  <2> DEFINE node == Node(n, <<>>, FALSE)
             event == Started(n)
             new == Append(scripts, node)
  <2>1. /\ ledger' = [ledger EXCEPT ![t] = new] /\ outcome' = outcome /\ Emit(t, event)
        /\ phase' = [phase EXCEPT ![t] = "scripting"]
    BY <1>7 DEF ScriptStarts, scripts, n
  <2>2. new \in Seq(Nodes) /\ event \in Sent BY <1>2, FileTypes, SentTypes
  <2>3. \A turn \in Turns : turn.scripts = scripts =>
          Fold(turn, event) = [turn EXCEPT !.scripts = new]
    <3> SUFFICES ASSUME NEW turn \in Turns, turn.scripts = scripts
                 PROVE  Fold(turn, event) = [turn EXCEPT !.scripts = new]
      OBVIOUS
    <3>1. Fold(turn, event) = [turn EXCEPT !.scripts = Append(turn.scripts, node)]
      BY <1>2, FoldIs
    <3> HIDE DEF node, event
    <3>2. QED BY <3>1
  <2>4. \A u \in Tasks \ {t} : phase'[u] = phase[u] BY <1>5, <2>1
  <2> HIDE DEF new, event
  <2>5. QED BY <1>6, <2>1, <2>2, <2>3, <2>4
<1>8. CASE CallReturns(t)
  <2>1. PICK m \in open[t] :
          /\ ledger' = [ledger EXCEPT ![t][Len(ledger[t])].calls = Append(@, m)]
          /\ Emit(t, Called(m)) /\ outcome' = outcome /\ phase' = phase
    BY <1>8 DEF CallReturns
  <2>2. m \in Nat /\ phase[t] = "scripting" BY DEF TypeInv
  <2> DEFINE event == Called(m)
             new == [scripts EXCEPT ![Len(scripts)].calls = Append(@, m)]
  <2>3. FileCall(scripts, m) = new BY <1>2, <1>4, <2>2, RunningScriptIs
  <2>4. new \in Seq(Nodes) /\ event \in Sent BY <1>2, <2>2, <2>3, FileTypes, SentTypes
  <2>5. ledger' = [ledger EXCEPT ![t] = new] BY <2>1 DEF scripts
  <2>6. \A turn \in Turns : turn.scripts = scripts =>
          Fold(turn, event) = [turn EXCEPT !.scripts = new]
    <3> SUFFICES ASSUME NEW turn \in Turns, turn.scripts = scripts
                 PROVE  Fold(turn, event) = [turn EXCEPT !.scripts = new]
      OBVIOUS
    <3>1. Fold(turn, event) = [turn EXCEPT !.scripts = FileCall(turn.scripts, m)]
      BY <2>2, FoldIs
    <3> HIDE DEF new, event
    <3>2. QED BY <2>3, <3>1
  <2> HIDE DEF new
  <2>7. QED BY <1>6, <2>1, <2>4, <2>5, <2>6
<1>9. CASE ScriptFinishes(t)
  <2> DEFINE m == scripts[Len(scripts)].seq
             event == ScriptOver(m)
             new == [scripts EXCEPT ![Len(scripts)].done = TRUE]
  <2>1. /\ ledger' = [ledger EXCEPT ![t] = new] /\ outcome' = outcome /\ Emit(t, event)
        /\ phase' = [phase EXCEPT ![t] = "thinking"] /\ phase[t] = "scripting"
    BY <1>9 DEF ScriptFinishes, scripts
  <2>2. m \in Nat
    <3>1. scripts[Len(scripts)] \in Nodes BY <1>2, <1>4, <2>1
    <3>2. QED BY <3>1 DEF Nodes
  <2>3. CloseScript(scripts, m) = new BY <1>2, <1>3, <1>4, <2>1, FinishedScriptIs
  <2>4. new \in Seq(Nodes) /\ event \in Sent
    <3>1. CloseScript(scripts, m) \in Seq(Nodes) BY <1>2, <2>2, FileTypes
    <3>2. event \in Sent BY <2>2, SentTypes
    <3>3. QED BY <2>3, <3>1, <3>2
  <2>5. \A turn \in Turns : turn.scripts = scripts =>
          Fold(turn, event) = [turn EXCEPT !.scripts = new]
    <3> SUFFICES ASSUME NEW turn \in Turns, turn.scripts = scripts
                 PROVE  Fold(turn, event) = [turn EXCEPT !.scripts = new]
      OBVIOUS
    <3>1. Fold(turn, event) = [turn EXCEPT !.scripts = CloseScript(turn.scripts, m)]
      BY <2>2, FoldIs
    <3> HIDE DEF new, event, m
    <3>2. QED BY <2>3, <3>1
  <2>6. \A u \in Tasks \ {t} : phase'[u] = phase[u] BY <1>5, <2>1
  <2> HIDE DEF new, event, m
  <2>7. QED BY <1>6, <2>1, <2>4, <2>5, <2>6
<1>10. CASE TurnReports(t)
  <2>1. PICK status \in {"answered", "failed"} :
          outcome' = [outcome EXCEPT ![t] = status] /\ Emit(t, Finished(status))
    BY <1>10 DEF TurnReports
  <2>2. ledger' = ledger /\ phase' = [phase EXCEPT ![t] = "reported"]
    BY <1>10 DEF TurnReports
  <2> DEFINE event == Finished(status)
  <2>3. event \in Sent /\ status \in {"running", "answered", "failed"} BY SentTypes
  <2>4. outcome'[t] = status /\ \A u \in Tasks \ {t} :
          ledger'[u] = ledger[u] /\ outcome'[u] = outcome[u] /\ phase'[u] = phase[u]
    BY <1>5, <2>1, <2>2
  <2>5. ASSUME NEW turn \in Turns, turn.scripts = ledger[t], turn.status = "running"
        PROVE  Fold(turn, event).scripts = ledger'[t] /\ Fold(turn, event).status = outcome'[t]
    <3>1. Fold(turn, event) = [turn EXCEPT !.status = status] BY FoldIs
    <3>2. /\ [turn EXCEPT !.status = status].scripts = turn.scripts
          /\ [turn EXCEPT !.status = status].status = status
      BY <2>3, TurnEdits
    <3>3. QED BY <2>2, <2>4, <2>5, <3>1, <3>2
  <2> HIDE DEF event
  <2>6. Emit(t, event) BY <2>1 DEF event
  <2>7. QED BY <1>1, <2>3, <2>4, <2>5, <2>6, FiledSends
<1>11. QED BY <1>7, <1>8, <1>9, <1>10

LEMMA WorkerFiles ==
  ASSUME TypeInv, TurnInv, TypeInv', FiledInv, transcript' \in Seq(Turns),
         NEW t \in Tasks, WorkerStep(t) \/ WorkerPanics(t)
  PROVE  Filed' /\ Latest'
<1>1. transcript \in Seq(Turns) /\ Same(transcript, transcript) /\ tasks \in Nat
  <2>1. transcript \in Seq(Turns) BY DEF FiledInv
  <2>2. tasks \in Nat BY DEF TypeInv
  <2>3. QED BY <2>1, <2>2, SameIsSame
<1>2. ASSUME Same(Settled, Settled'), UNCHANGED <<loop, tasks, kind, ledger, outcome>>,
             \A u \in Tasks : Alive(u)' => Alive(u)
      PROVE  Filed' /\ Latest'
  BY <1>1, <1>2, FiledStays
<1>3. CASE CallStarts(t) \/ WorkerReturns(t) \/ WorkerPanics(t)
  <2>1. /\ transcript' = transcript /\ Queue' = Queue
        /\ UNCHANGED <<loop, tasks, kind, ledger, outcome>>
    BY <1>3 DEF CallStarts, WorkerReturns, WorkerPanics, WorkerOnly, appVars, taskVars, Queue
  <2>2. Same(Settled, Settled') BY <1>1, <2>1, SettledStays
  <2>3. \A u \in Tasks : Alive(u)' => Alive(u)
    BY <1>3 DEF CallStarts, WorkerReturns, WorkerPanics, Alive, TypeInv
  <2>4. QED BY <1>2, <2>1, <2>2, <2>3
<1>4. CASE ShellReports(t)
  <2>1. Alive(t) /\ UNCHANGED <<loop, busy, running, transcript, tasks, kind>>
    BY <1>4, WorkersSend
  <2>2. /\ Emit(t, ShellFinished) /\ UNCHANGED <<ledger, outcome>>
        /\ phase' = [phase EXCEPT ![t] = "reported"]
    BY <1>4 DEF ShellReports
  <2>3. ShellFinished \in Sent BY SentTypes
  <2>4. Queue' = Append(Queue, ShellFinished) BY <2>1, <2>2, <2>3, QueueSends
  <2>5. Same(Absorb(Settled, ShellFinished), Settled')
    BY <1>1, <2>1, <2>3, <2>4, SettledSends
  <2>6. Settled \in Seq(Turns) BY <1>1, SettledTypes
  <2>7. Same(Settled, Settled') BY <2>5, <2>6, ShellEventsPass
  <2>8. \A u \in Tasks : Alive(u)' => Alive(u) BY <2>2 DEF Alive, TypeInv
  <2>9. QED BY <1>2, <2>1, <2>2, <2>7, <2>8
<1>5. CASE ScriptStarts(t) \/ TurnReports(t)
  BY <1>5, WorkerSends DEF ScriptStarts, TurnReports
<1>6. CASE CallReturns(t)
  <2>1. phase[t] = "scripting" BY <1>6 DEF CallReturns, TypeInv
  <2>2. kind[t] = "turn" BY <2>1 DEF FiledInv, Ledgers, LedgerOf
  <2>3. QED BY <1>6, <2>2, WorkerSends
<1>7. CASE ScriptFinishes(t)
  <2>1. phase[t] = "scripting" BY <1>7 DEF ScriptFinishes
  <2>2. kind[t] = "turn" BY <2>1 DEF FiledInv, Ledgers, LedgerOf
  <2>3. QED BY <1>7, <2>2, WorkerSends
<1>8. QED BY <1>3, <1>4, <1>5, <1>6, <1>7 DEF WorkerStep

-------------------------------------------------------------------------------
LEMMA FiledInit == Init => FiledInv
<1> SUFFICES ASSUME Init PROVE FiledInv
  OBVIOUS
<1>1. TypeInv BY TypeInit
<1>2. transcript = <<>> /\ Queue = <<>> BY DEF Init, Queue
<1>3. <<>> \in Seq(Turns) OBVIOUS
<1>4. Settled = <<>> BY <1>1, <1>2, SettledEmpty
<1>5. Filed BY <1>4 DEF Filed, FiledIn
<1>6. Latest BY DEF Init, Latest, Alive
<1>7. Queued BY <1>2 DEF Queued
<1>8. ASSUME NEW t \in Tasks PROVE LedgerOf(t)
  <2>1. ledger[t] = <<>> /\ ordinal[t] = 0 /\ phase[t] = "none" /\ outcome[t] = "running"
    BY DEF Init
  <2>2. Grows(<<>>, 0) /\ Closed(<<>>, Len(<<>>) - 1) BY DEF Grows, Closed
  <2>3. QED BY <2>1, <2>2 DEF LedgerOf, Alive
<1>9. Ledgers BY <1>8 DEF Init, Ledgers
<1>10. QED BY <1>2, <1>3, <1>5, <1>6, <1>7, <1>9 DEF FiledInv

LEMMA FiledKept ==
  TypeInv /\ TurnInv /\ FiledInv /\ [Next]_vars /\ TypeInv' /\ TurnInv' => FiledInv'
<1> SUFFICES ASSUME TypeInv, TurnInv, FiledInv, [Next]_vars, TypeInv', TurnInv'
             PROVE  FiledInv'
  OBVIOUS
<1>1. transcript \in Seq(Turns) /\ Queued /\ Ledgers BY DEF FiledInv
<1>2. transcript' \in Seq(Turns) BY <1>1, TurnsTyped
<1>3. Queued' BY <1>1, QueuedKept
<1>4. Ledgers' BY <1>1, LedgersKept
<1>5. Filed' /\ Latest'
  BY <1>2, LoopStays, HopFiles, SubmitFiles, RefusalFiles, WorkerFiles DEF Next, BrokerAnswers
<1>6. QED BY <1>2, <1>3, <1>4, <1>5 DEF FiledInv

(* Whatever workers ran, in whatever order their events were folded in,    *)
(* and whoever was stopped, refused or died: once the queue is folded in,  *)
(* every turn on screen has the scripts, the calls and the outcome of the  *)
(* session it was opened for (Turn::absorb, Transcript::absorb).           *)
THEOREM NothingIsMisfiled == Spec => []NothingMisfiled
<1>1. TypeInv /\ FiledInv => NothingMisfiled
  <2> SUFFICES ASSUME TypeInv, FiledInv, NEW i \in 1 .. Len(transcript)
               PROVE  /\ Settled[i].scripts = ledger[Settled[i].prompt]
                      /\ Settled[i].status = outcome[Settled[i].prompt]
    BY DEF NothingMisfiled
  <2>1. Len(Settled) = Len(transcript) BY SettledTypes DEF FiledInv
  <2>2. QED BY <2>1 DEF FiledInv, Filed, FiledIn
<1>2. QED BY <1>1, TurnInvariant, FiledInit, FiledKept, PTL DEF Spec

-------------------------------------------------------------------------------
(* The list of calls.  FlattenSeq joins what it is given from the left:    *)
(* joins[i] is the first i sequences end to end.                           *)

Joins(joins, seqs) ==
  joins = [i \in 0 .. Len(seqs) |-> IF i = 0 THEN <<>> ELSE joins[i - 1] \o seqs[i]]
Begins(a, b) == Len(a) <= Len(b) /\ \A i \in 1 .. Len(a) : b[i] = a[i]

LEMMA JoinStep ==
  ASSUME NEW seqs, NEW joins, Joins(joins, seqs), NEW i \in 0 .. Len(seqs)
  PROVE  joins[i] = IF i = 0 THEN <<>> ELSE joins[i - 1] \o seqs[i]
BY DEF Joins

LEMMA JoinsExist ==
  ASSUME NEW seqs, Len(seqs) \in Nat
  PROVE  \E joins : Joins(joins, seqs)
<1> DEFINE Good(f, m) == f = [i \in 0 .. m |-> IF i = 0 THEN <<>> ELSE f[i - 1] \o seqs[i]]
           S == {m \in Nat : \E f : Good(f, m)}
<1>1. 0 \in S
  <2>1. Good([i \in 0 .. 0 |-> <<>>], 0) OBVIOUS
  <2>2. QED BY <2>1
<1>2. ASSUME NEW m \in Nat, m \in S PROVE m + 1 \in S
  <2>1. PICK f : Good(f, m) BY <1>2
  <2> DEFINE g == [i \in 0 .. m + 1 |-> IF i = m + 1 THEN f[m] \o seqs[m + 1] ELSE f[i]]
  <2>2. ASSUME NEW i \in 0 .. m + 1
        PROVE  g[i] = IF i = 0 THEN <<>> ELSE g[i - 1] \o seqs[i]
    <3>1. CASE i = m + 1
      <4>1. i # 0 /\ i - 1 = m /\ g[m] = f[m] BY <3>1
      <4>2. g[i] = f[m] \o seqs[m + 1] BY <3>1
      <4>3. QED BY <3>1, <4>1, <4>2
    <3>2. CASE i # m + 1
      <4>1. i \in 0 .. m /\ g[i] = f[i] BY <3>2
      <4>2. f[i] = IF i = 0 THEN <<>> ELSE f[i - 1] \o seqs[i] BY <2>1, <4>1
      <4>3. i # 0 => g[i - 1] = f[i - 1] BY <4>1
      <4>4. QED BY <4>1, <4>2, <4>3
    <3>3. QED BY <3>1, <3>2
  <2>3. g = [i \in 0 .. m + 1 |-> IF i = 0 THEN <<>> ELSE g[i - 1] \o seqs[i]]
    BY <2>2
  <2>4. Good(g, m + 1) BY <2>3
  <2> HIDE DEF Good
  <2>5. QED BY <2>4
<1> HIDE DEF S
<1>3. \A m \in Nat : m \in S BY <1>1, <1>2, NumberInduction
<1>4. Len(seqs) \in S BY <1>3
<1>5. QED BY <1>4 DEF S, Joins

LEMMA JoinTypes ==
  ASSUME NEW T, NEW seqs \in Seq(Seq(T)), NEW joins, Joins(joins, seqs)
  PROVE  \A i \in 0 .. Len(seqs) : joins[i] \in Seq(T)
<1> DEFINE S == {i \in Nat : i <= Len(seqs) => joins[i] \in Seq(T)}
<1>1. Len(seqs) \in Nat OBVIOUS
<1>2. 0 \in S
  <2>1. 0 \in 0 .. Len(seqs) BY <1>1
  <2>2. joins[0] = <<>> BY <2>1, JoinStep
  <2>3. joins[0] \in Seq(T) BY <2>2
  <2>4. QED BY <2>3
<1>3. ASSUME NEW i \in Nat, i \in S, i + 1 <= Len(seqs) PROVE joins[i + 1] \in Seq(T)
  <2>1. /\ i + 1 \in 0 .. Len(seqs) /\ i + 1 # 0 /\ (i + 1) - 1 = i
        /\ i + 1 \in 1 .. Len(seqs)
    BY <1>1, <1>3
  <2>2. joins[i + 1] = joins[i] \o seqs[i + 1] BY <2>1, JoinStep
  <2>3. joins[i] \in Seq(T) /\ seqs[i + 1] \in Seq(T) BY <1>1, <1>3, <2>1
  <2>4. QED BY <2>2, <2>3
<1>4. \A i \in Nat : i \in S => i + 1 \in S BY <1>3
<1> HIDE DEF S
<1>5. \A i \in Nat : i \in S BY <1>2, <1>4, NumberInduction
<1>6. QED BY <1>1, <1>5 DEF S

LEMMA FlattenIs ==
  ASSUME NEW T, NEW seqs \in Seq(Seq(T)), NEW joins, Joins(joins, seqs)
  PROVE  FlattenSeq(seqs) = joins[Len(seqs)]
<1>1. Len(seqs) \in Nat OBVIOUS
<1>2. CASE Len(seqs) = 0
  <2>1. seqs = <<>> /\ FlattenSeq(seqs) = seqs BY <1>2 DEF FlattenSeq
  <2>2. joins[0] = <<>> BY <1>2, JoinStep
  <2>3. QED BY <1>2, <2>1, <2>2
<1>3. CASE Len(seqs) # 0
  <2> DEFINE n == Len(seqs)
             Flat(f) == f = [i \in 1 .. n |-> IF i = 1 THEN seqs[i] ELSE f[i - 1] \o seqs[i]]
             flat == CHOOSE f : Flat(f)
             g == [i \in 1 .. n |-> joins[i]]
  <2>1. ASSUME NEW i \in 1 .. n
        PROVE  g[i] = IF i = 1 THEN seqs[i] ELSE g[i - 1] \o seqs[i]
    <3>1. i \in 0 .. n /\ i # 0 BY <1>1
    <3>2. joins[i] = joins[i - 1] \o seqs[i] BY <3>1, JoinStep
    <3>3. CASE i = 1
      <4>1. joins[0] = <<>> BY <1>1, JoinStep
      <4>2. joins[1] = <<>> \o seqs[1]
        <5>1. i - 1 = 0 BY <3>3
        <5>2. QED BY <3>2, <3>3, <4>1, <5>1
      <4>3. seqs[1] \in Seq(T) BY <3>3
      <4>4. joins[1] = seqs[1] BY <4>2, <4>3
      <4>5. QED BY <3>3, <4>4
    <3>4. CASE i # 1
      <4>1. i - 1 \in 1 .. n BY <1>1, <3>4
      <4>2. g[i - 1] = joins[i - 1] BY <4>1
      <4>3. QED BY <3>2, <3>4, <4>2
    <3>5. QED BY <3>3, <3>4
  <2>2. Flat(g) BY <2>1
  <2>3. Flat(flat)
    <3> HIDE DEF Flat, g
    <3>1. QED BY <2>2
  <2>4. FlattenSeq(seqs) = flat[n] BY <1>3 DEF FlattenSeq
  <2> HIDE DEF flat
  <2> DEFINE S == {i \in Nat : i + 1 <= n => flat[i + 1] = joins[i + 1]}
  <2>5. ASSUME NEW i \in 1 .. n
        PROVE  flat[i] = IF i = 1 THEN seqs[i] ELSE flat[i - 1] \o seqs[i]
    BY <2>3
  <2>6. 0 \in S
    <3>1. 1 \in 1 .. n BY <1>1, <1>3
    <3>2. flat[1] = seqs[1] BY <2>5, <3>1
    <3>3. g[1] = seqs[1] /\ g[1] = joins[1] BY <2>1, <3>1
    <3>4. QED BY <3>2, <3>3
  <2>7. ASSUME NEW i \in Nat, i \in S, (i + 1) + 1 <= n
        PROVE  flat[(i + 1) + 1] = joins[(i + 1) + 1]
    <3>1. /\ (i + 1) + 1 \in 1 .. n /\ (i + 1) + 1 \in 0 .. n /\ (i + 1) + 1 # 0
          /\ (i + 1) + 1 # 1 /\ ((i + 1) + 1) - 1 = i + 1 /\ i + 1 <= n
      BY <1>1, <2>7
    <3>2. flat[(i + 1) + 1] = flat[i + 1] \o seqs[(i + 1) + 1] BY <2>5, <3>1
    <3>3. joins[(i + 1) + 1] = joins[i + 1] \o seqs[(i + 1) + 1] BY <3>1, JoinStep
    <3>4. flat[i + 1] = joins[i + 1] BY <2>7, <3>1
    <3>5. QED BY <3>2, <3>3, <3>4
  <2>8. \A i \in Nat : i \in S => i + 1 \in S BY <2>7
  <2> HIDE DEF S
  <2>9. \A i \in Nat : i \in S BY <2>6, <2>8, NumberInduction
  <2>10. n - 1 \in S /\ n - 1 \in Nat /\ (n - 1) + 1 = n BY <1>1, <1>3, <2>9
  <2>11. flat[n] = joins[n] BY <2>10 DEF S
  <2>12. QED BY <2>4, <2>11
<1>4. QED BY <1>2, <1>3

LEMMA FlattenTypes ==
  ASSUME NEW T, NEW seqs \in Seq(Seq(T))
  PROVE  FlattenSeq(seqs) \in Seq(T)
<1>1. Len(seqs) \in Nat OBVIOUS
<1>2. PICK joins : Joins(joins, seqs) BY <1>1, JoinsExist
<1>3. Len(seqs) \in 0 .. Len(seqs) BY <1>1
<1>4. QED BY <1>2, <1>3, JoinTypes, FlattenIs

(* What is joined behind leaves the front as it is. *)
LEMMA JoinsBegin ==
  ASSUME NEW T, NEW seqs \in Seq(Seq(T)), NEW joins, Joins(joins, seqs),
         NEW k \in 0 .. Len(seqs)
  PROVE  Begins(joins[k], joins[Len(seqs)])
<1> DEFINE S == {i \in Nat : k <= i /\ i <= Len(seqs) => Begins(joins[k], joins[i])}
<1>1. Len(seqs) \in Nat OBVIOUS
<1>2. \A i \in 0 .. Len(seqs) : joins[i] \in Seq(T) BY JoinTypes
<1>3. Begins(joins[k], joins[k]) BY <1>2 DEF Begins
<1>4. 0 \in S BY <1>3
<1>5. ASSUME NEW i \in Nat, i \in S, k <= i + 1, i + 1 <= Len(seqs)
      PROVE  Begins(joins[k], joins[i + 1])
  <2>1. CASE k = i + 1 BY <1>3, <2>1
  <2>2. CASE k # i + 1
    <3>1. /\ k <= i /\ i <= Len(seqs) /\ i \in 0 .. Len(seqs)
          /\ i + 1 \in 0 .. Len(seqs) /\ i + 1 # 0 /\ (i + 1) - 1 = i
          /\ i + 1 \in 1 .. Len(seqs)
      BY <1>1, <1>5, <2>2
    <3>2. Begins(joins[k], joins[i]) BY <1>5, <3>1
    <3>3. joins[i + 1] = joins[i] \o seqs[i + 1] BY <3>1, JoinStep
    <3>4. PICK a \in Seq(T), b \in Seq(T), c \in Seq(T) :
            a = joins[k] /\ b = joins[i] /\ c = seqs[i + 1]
      BY <1>2, <3>1
    <3>5. Begins(a, b) BY <3>2, <3>4
    <3>6. /\ Len(b \o c) = Len(b) + Len(c) /\ Len(a) \in Nat /\ Len(b) \in Nat /\ Len(c) \in Nat
          /\ \A j \in 1 .. Len(b) : (b \o c)[j] = b[j]
      OBVIOUS
    <3>7. Begins(a, b \o c) BY <3>5, <3>6 DEF Begins
    <3>8. QED BY <3>3, <3>4, <3>7
  <2>3. QED BY <2>1, <2>2
<1>6. \A i \in Nat : i \in S => i + 1 \in S
  <2> SUFFICES ASSUME NEW i \in Nat, i \in S PROVE i + 1 \in S
    OBVIOUS
  <2>1. i + 1 \in Nat OBVIOUS
  <2>2. CASE k <= i + 1 /\ i + 1 <= Len(seqs) BY <1>5, <2>1, <2>2
  <2>3. CASE ~(k <= i + 1 /\ i + 1 <= Len(seqs)) BY <2>1, <2>3
  <2>4. QED BY <2>2, <2>3
<1> HIDE DEF S
<1>7. Len(seqs) \in S BY <1>1, <1>4, <1>6, NumberInduction
<1>8. QED BY <1>1, <1>7 DEF S

(* A sequence of sequences continued: more of its last, then more of them. *)
Continues(a, b) ==
  /\ Len(a) <= Len(b)
  /\ \A i \in 1 .. Len(a) - 1 : b[i] = a[i]
  /\ a # <<>> => Begins(a[Len(a)], b[Len(a)])

LEMMA FlattenContinues ==
  ASSUME NEW T, NEW a \in Seq(Seq(T)), NEW b \in Seq(Seq(T)), Continues(a, b)
  PROVE  Begins(FlattenSeq(a), FlattenSeq(b))
<1>1. Len(a) \in Nat /\ Len(b) \in Nat OBVIOUS
<1>2. PICK f : Joins(f, a) BY <1>1, JoinsExist
<1>3. PICK g : Joins(g, b) BY <1>1, JoinsExist
<1>4. FlattenSeq(a) = f[Len(a)] /\ FlattenSeq(b) = g[Len(b)] BY <1>2, <1>3, FlattenIs
<1>5. (\A i \in 0 .. Len(a) : f[i] \in Seq(T)) /\ (\A i \in 0 .. Len(b) : g[i] \in Seq(T))
  BY <1>2, <1>3, JoinTypes
<1>6. CASE Len(a) = 0
  <2>1. f[Len(a)] = <<>> BY <1>2, <1>6, JoinStep
  <2>2. g[Len(b)] \in Seq(T) BY <1>1, <1>5
  <2>3. QED BY <1>4, <2>1, <2>2 DEF Begins
<1>7. CASE Len(a) # 0
  <2> DEFINE n == Len(a)
             S == {i \in Nat : i <= n - 1 => f[i] = g[i]}
  <2>1. n <= Len(b) /\ n \in 0 .. n /\ n \in 0 .. Len(b) /\ n - 1 \in 0 .. n
        /\ n - 1 \in 0 .. Len(b) /\ n - 1 \in Nat /\ n \in 1 .. n /\ n \in 1 .. Len(b)
    BY <1>1, <1>7 DEF Continues
  <2>2. 0 \in S
    <3>1. 0 \in 0 .. Len(a) /\ 0 \in 0 .. Len(b) BY <1>1
    <3>2. f[0] = <<>> /\ g[0] = <<>> BY <1>2, <1>3, <3>1, JoinStep
    <3>3. QED BY <3>2
  <2>3. ASSUME NEW i \in Nat, i \in S, i + 1 <= n - 1 PROVE f[i + 1] = g[i + 1]
    <3>1. /\ i + 1 \in 0 .. Len(a) /\ i + 1 \in 0 .. Len(b) /\ i + 1 # 0
          /\ (i + 1) - 1 = i /\ i + 1 \in 1 .. Len(a) - 1 /\ i <= n - 1
      BY <1>1, <2>1, <2>3
    <3>2. f[i + 1] = f[i] \o a[i + 1] BY <1>2, <3>1, JoinStep
    <3>3. g[i + 1] = g[i] \o b[i + 1] BY <1>3, <3>1, JoinStep
    <3>4. b[i + 1] = a[i + 1] BY <3>1 DEF Continues
    <3>5. f[i] = g[i] BY <2>3, <3>1
    <3>6. QED BY <3>2, <3>3, <3>4, <3>5
  <2>4. \A i \in Nat : i \in S => i + 1 \in S BY <1>1, <2>3
  <2>5. n - 1 <= n - 1 BY <2>1
  <2> HIDE DEF S
  <2>6. n - 1 \in S BY <2>1, <2>2, <2>4, NumberInduction
  <2>7. f[n - 1] = g[n - 1] BY <2>5, <2>6 DEF S
  <2>8. f[n] = f[n - 1] \o a[n] BY <1>2, <1>7, <2>1, JoinStep
  <2>9. g[n] = g[n - 1] \o b[n] BY <1>3, <1>7, <2>1, JoinStep
  <2>10. Begins(a[n], b[n])
    <3>1. a # <<>> BY <1>7
    <3>2. QED BY <3>1 DEF Continues
  <2>11. PICK x \in Seq(T), y \in Seq(T), z \in Seq(T) :
           x = f[n - 1] /\ y = a[n] /\ z = b[n]
    BY <1>5, <2>1
  <2>12. Begins(x \o y, x \o z)
    <3>1. Len(y) <= Len(z) /\ \A i \in 1 .. Len(y) : z[i] = y[i] BY <2>10, <2>11 DEF Begins
    <3>2. /\ Len(x) \in Nat /\ Len(y) \in Nat /\ Len(z) \in Nat
          /\ Len(x \o y) = Len(x) + Len(y) /\ Len(x \o z) = Len(x) + Len(z)
          /\ \A i \in 1 .. Len(x) + Len(y) :
               (x \o y)[i] = IF i <= Len(x) THEN x[i] ELSE y[i - Len(x)]
          /\ \A i \in 1 .. Len(x) + Len(z) :
               (x \o z)[i] = IF i <= Len(x) THEN x[i] ELSE z[i - Len(x)]
      OBVIOUS
    <3>3. ASSUME NEW i \in 1 .. Len(x) + Len(y) PROVE (x \o z)[i] = (x \o y)[i]
      <4>1. i \in 1 .. Len(x) + Len(z) BY <3>1, <3>2
      <4>2. CASE i <= Len(x) BY <3>2, <4>1, <4>2
      <4>3. CASE ~(i <= Len(x))
        <5>1. i - Len(x) \in 1 .. Len(y) BY <3>2, <4>3
        <5>2. QED BY <3>1, <3>2, <4>1, <4>3, <5>1
      <4>4. QED BY <4>2, <4>3
    <3>4. Len(x \o y) <= Len(x \o z) BY <3>1, <3>2
    <3>5. QED BY <3>2, <3>3, <3>4 DEF Begins
  <2>13. Begins(f[n], g[n]) BY <2>7, <2>8, <2>9, <2>11, <2>12
  <2>14. Begins(g[n], g[Len(b)]) BY <1>3, <2>1, JoinsBegin
  <2>15. PICK p \in Seq(T), q \in Seq(T), r \in Seq(T) :
           p = f[n] /\ q = g[n] /\ r = g[Len(b)]
    <3>1. Len(b) \in 0 .. Len(b) BY <1>1
    <3>2. f[n] \in Seq(T) /\ g[n] \in Seq(T) /\ g[Len(b)] \in Seq(T) BY <1>5, <2>1, <3>1
    <3>3. QED BY <3>2
  <2>16. Begins(p, q) /\ Begins(q, r) BY <2>13, <2>14, <2>15
  <2>17. Begins(p, r)
    <3>1. Len(p) \in Nat /\ Len(q) \in Nat /\ Len(r) \in Nat OBVIOUS
    <3>2. QED BY <2>16, <3>1 DEF Begins
  <2>18. QED BY <1>4, <2>15, <2>17
<1>8. QED BY <1>6, <1>7

LEMMA BeginsIsPrefix ==
  ASSUME NEW T, NEW a \in Seq(T), NEW b \in Seq(T), Begins(a, b)
  PROVE  IsPrefix(a, b)
<1>1. Len(a) \in Nat /\ Len(b) \in Nat /\ Len(a) <= Len(b) BY DEF Begins
<1>2. SubSeq(a, 1, Len(a)) = [i \in 1 .. Len(a) |-> a[i]] OBVIOUS
<1>3. SubSeq(b, 1, Len(a)) = [i \in 1 .. Len(a) |-> b[i]] BY <1>1
<1>4. \A i \in 1 .. Len(a) : a[i] = b[i] BY DEF Begins
<1>5. SubSeq(a, 1, Len(a)) = SubSeq(b, 1, Len(a)) BY <1>2, <1>3, <1>4
<1>6. QED BY <1>1, <1>5 DEF IsPrefix

(* The calls of a transcript, listed: of every turn, its scripts' calls. *)
CallsOfScripts(a, t) ==
  [s \in 1 .. Len(a[t].scripts) |-> [c \in 1 .. Len(a[t].scripts[s].calls) |-> <<t, s, c>>]]
CallsOfTurns(a) == [t \in 1 .. Len(a) |-> CallsOfTurn(a, t)]
Listed(a) ==
  {target \in Nat \X Nat \X Nat :
     /\ target[1] \in 1 .. Len(a)
     /\ target[2] \in 1 .. Len(a[target[1]].scripts)
     /\ target[3] \in 1 .. Len(a[target[1]].scripts[target[2]].calls)}

LEMMA TurnParts ==
  ASSUME NEW a \in Seq(Turns), NEW t \in 1 .. Len(a)
  PROVE  /\ a[t].scripts \in Seq(Nodes) /\ Len(a[t].scripts) \in Nat
         /\ \A s \in 1 .. Len(a[t].scripts) :
              a[t].scripts[s].calls \in Seq(Nat) /\ Len(a[t].scripts[s].calls) \in Nat
<1>1. a[t] \in Turns OBVIOUS
<1>2. a[t].scripts \in Seq(Nodes) BY <1>1 DEF Turns
<1>3. \A s \in 1 .. Len(a[t].scripts) : a[t].scripts[s] \in Nodes BY <1>2
<1>4. \A s \in 1 .. Len(a[t].scripts) : a[t].scripts[s].calls \in Seq(Nat) BY <1>3 DEF Nodes
<1>5. Len(a[t].scripts) \in Nat BY <1>2
<1>6. \A s \in 1 .. Len(a[t].scripts) : Len(a[t].scripts[s].calls) \in Nat BY <1>4
<1>7. QED BY <1>2, <1>4, <1>5, <1>6

LEMMA ListTypes ==
  ASSUME NEW T, NEW a \in Seq(Turns), Listed(a) \in SUBSET T
  PROVE  /\ \A t \in 1 .. Len(a) :
              CallsOfScripts(a, t) \in Seq(Seq(T)) /\ CallsOfTurn(a, t) \in Seq(T)
         /\ CallsOfTurns(a) \in Seq(Seq(T)) /\ Calls(a) \in Seq(T)
<1>1. Len(a) \in Nat OBVIOUS
<1>2. ASSUME NEW t \in 1 .. Len(a)
      PROVE  CallsOfScripts(a, t) \in Seq(Seq(T)) /\ CallsOfTurn(a, t) \in Seq(T)
  <2>1. /\ Len(a[t].scripts) \in Nat
        /\ \A s \in 1 .. Len(a[t].scripts) : Len(a[t].scripts[s].calls) \in Nat
    BY TurnParts
  <2>2. ASSUME NEW s \in 1 .. Len(a[t].scripts)
        PROVE  [c \in 1 .. Len(a[t].scripts[s].calls) |-> <<t, s, c>>] \in Seq(T)
    <3>1. ASSUME NEW c \in 1 .. Len(a[t].scripts[s].calls) PROVE <<t, s, c>> \in T
      <4>1. t \in Nat /\ s \in Nat /\ c \in Nat BY <1>1, <2>1
      <4>2. <<t, s, c>> \in Listed(a) BY <4>1 DEF Listed
      <4>3. QED BY <4>2
    <3>2. PICK n \in Nat : n = Len(a[t].scripts[s].calls) BY <2>1
    <3>3. [c \in 1 .. n |-> <<t, s, c>>] \in [1 .. n -> T] BY <3>1, <3>2
    <3>4. QED BY <3>2, <3>3
  <2>3. CallsOfScripts(a, t) \in Seq(Seq(T))
    <3>1. PICK n \in Nat : n = Len(a[t].scripts) BY <2>1
    <3>2. CallsOfScripts(a, t) \in [1 .. n -> Seq(T)] BY <2>2, <3>1 DEF CallsOfScripts
    <3>3. QED BY <3>2
  <2>4. CallsOfTurn(a, t) = FlattenSeq(CallsOfScripts(a, t)) BY DEF CallsOfTurn, CallsOfScripts
  <2>5. QED BY <2>3, <2>4, FlattenTypes
<1>3. CallsOfTurns(a) \in [1 .. Len(a) -> Seq(T)] BY <1>2 DEF CallsOfTurns
<1>4. CallsOfTurns(a) \in Seq(Seq(T)) BY <1>1, <1>3
<1>5. Calls(a) = FlattenSeq(CallsOfTurns(a)) BY DEF Calls, CallsOfTurns
<1>6. QED BY <1>2, <1>4, <1>5, FlattenTypes

(* A transcript continued: more calls of the last script of the last turn, *)
(* further scripts of that turn, further turns.                            *)
ScriptsContinue(a, b) ==
  /\ Len(a) <= Len(b)
  /\ \A i \in 1 .. Len(a) - 1 : b[i].calls = a[i].calls
  /\ a # <<>> => Begins(a[Len(a)].calls, b[Len(a)].calls)
TurnsContinue(a, b) ==
  /\ Len(a) <= Len(b)
  /\ \A i \in 1 .. Len(a) - 1 : b[i].scripts = a[i].scripts
  /\ a # <<>> => ScriptsContinue(a[Len(a)].scripts, b[Len(a)].scripts)

(* Then every call listed is still there. *)
LEMMA ScriptsBegin ==
  ASSUME NEW a \in Seq(Nodes), NEW b \in Seq(Nodes), ScriptsContinue(a, b)
  PROVE  \A s \in 1 .. Len(a) : s \in 1 .. Len(b) /\ Begins(a[s].calls, b[s].calls)
<1> SUFFICES ASSUME NEW s \in 1 .. Len(a)
             PROVE  s \in 1 .. Len(b) /\ Begins(a[s].calls, b[s].calls)
  OBVIOUS
<1>1. Len(a) \in Nat /\ Len(b) \in Nat /\ Len(a) <= Len(b) BY DEF ScriptsContinue
<1>2. s \in 1 .. Len(b) BY <1>1
<1>3. CASE s = Len(a)
  <2>1. Len(a) # 0 BY <1>1, <1>3
  <2>2. a # <<>> BY <2>1
  <2>3. QED BY <1>2, <1>3, <2>2 DEF ScriptsContinue
<1>4. CASE s # Len(a)
  <2>1. s \in 1 .. Len(a) - 1 BY <1>1, <1>4
  <2>2. b[s].calls = a[s].calls BY <2>1 DEF ScriptsContinue
  <2>3. a[s] \in Nodes OBVIOUS
  <2>4. Len(a[s].calls) \in Nat BY <2>3 DEF Nodes
  <2>5. QED BY <1>2, <2>2, <2>4 DEF Begins
<1>5. QED BY <1>3, <1>4

LEMMA ScriptsSame ==
  ASSUME NEW a \in Seq(Nodes) PROVE ScriptsContinue(a, a)
<1>1. Len(a) \in Nat OBVIOUS
<1>2. ASSUME a # <<>> PROVE Begins(a[Len(a)].calls, a[Len(a)].calls)
  <2>1. Len(a) # 0 BY <1>2
  <2>2. Len(a) \in 1 .. Len(a) BY <1>1, <2>1
  <2>3. a[Len(a)] \in Nodes BY <2>2
  <2>4. Len(a[Len(a)].calls) \in Nat BY <2>3 DEF Nodes
  <2>5. QED BY <2>4 DEF Begins
<1>3. QED BY <1>1, <1>2 DEF ScriptsContinue

LEMMA TurnsBegin ==
  ASSUME NEW a \in Seq(Turns), NEW b \in Seq(Turns), TurnsContinue(a, b)
  PROVE  \A t \in 1 .. Len(a) : t \in 1 .. Len(b) /\ ScriptsContinue(a[t].scripts, b[t].scripts)
<1> SUFFICES ASSUME NEW t \in 1 .. Len(a)
             PROVE  t \in 1 .. Len(b) /\ ScriptsContinue(a[t].scripts, b[t].scripts)
  OBVIOUS
<1>1. Len(a) \in Nat /\ Len(b) \in Nat /\ Len(a) <= Len(b) BY DEF TurnsContinue
<1>2. t \in 1 .. Len(b) BY <1>1
<1>3. CASE t = Len(a)
  <2>1. Len(a) # 0 BY <1>1, <1>3
  <2>2. a # <<>> BY <2>1
  <2>3. QED BY <1>2, <1>3, <2>2 DEF TurnsContinue
<1>4. CASE t # Len(a)
  <2>1. t \in 1 .. Len(a) - 1 BY <1>1, <1>4
  <2>2. b[t].scripts = a[t].scripts BY <2>1 DEF TurnsContinue
  <2>3. QED BY <1>2, <2>2, TurnParts, ScriptsSame
<1>5. QED BY <1>3, <1>4

LEMMA CallsKept ==
  ASSUME NEW a \in Seq(Turns), NEW b \in Seq(Turns), TurnsContinue(a, b)
  PROVE  \A target \in ToSet(Calls(a)) : CallAt(b, target) = CallAt(a, target)
<1>1. Calls(a) \in Seq(Listed(a)) BY ListTypes
<1>2. ToSet(Calls(a)) \in SUBSET Listed(a) BY <1>1 DEF ToSet
<1> SUFFICES ASSUME NEW target \in Listed(a) PROVE CallAt(b, target) = CallAt(a, target)
  BY <1>2
<1>3. PICK t, s, c : t = target[1] /\ s = target[2] /\ c = target[3] OBVIOUS
<1>4. /\ t \in 1 .. Len(a) /\ s \in 1 .. Len(a[t].scripts)
      /\ c \in 1 .. Len(a[t].scripts[s].calls)
  BY <1>3 DEF Listed
<1>5. t \in 1 .. Len(b) /\ ScriptsContinue(a[t].scripts, b[t].scripts) BY <1>4, TurnsBegin
<1>6. a[t].scripts \in Seq(Nodes) /\ b[t].scripts \in Seq(Nodes) BY <1>4, <1>5, TurnParts
<1>7. Begins(a[t].scripts[s].calls, b[t].scripts[s].calls) BY <1>4, <1>5, <1>6, ScriptsBegin
<1>8. b[t].scripts[s].calls[c] = a[t].scripts[s].calls[c] BY <1>4, <1>7 DEF Begins
<1>9. QED BY <1>3, <1>8 DEF CallAt

(* And the list is continued at its end. *)
LEMMA CallsBegin ==
  ASSUME NEW a \in Seq(Turns), NEW b \in Seq(Turns), TurnsContinue(a, b)
  PROVE  IsPrefix(Calls(a), Calls(b))
<1> DEFINE T == Nat \X Nat \X Nat
<1>1. Listed(a) \in SUBSET T /\ Listed(b) \in SUBSET T BY DEF Listed
<1> HIDE DEF T
<1>2. Len(a) \in Nat /\ Len(b) \in Nat /\ Len(a) <= Len(b) BY DEF TurnsContinue
<1>3. ASSUME NEW t \in 1 .. Len(a) PROVE Begins(CallsOfTurn(a, t), CallsOfTurn(b, t))
  <2> DEFINE x == CallsOfScripts(a, t)
             y == CallsOfScripts(b, t)
  <2>1. t \in 1 .. Len(b) /\ ScriptsContinue(a[t].scripts, b[t].scripts) BY TurnsBegin
  <2>2. PICK p \in Seq(Nodes), q \in Seq(Nodes) : p = a[t].scripts /\ q = b[t].scripts
    BY <2>1, TurnParts
  <2>3. /\ Len(p) \in Nat /\ Len(q) \in Nat
        /\ \A s \in 1 .. Len(p) : Len(p[s].calls) \in Nat
        /\ \A s \in 1 .. Len(q) : Len(q[s].calls) \in Nat
    BY <2>1, <2>2, TurnParts
  <2>4. /\ x = [s \in 1 .. Len(p) |-> [c \in 1 .. Len(p[s].calls) |-> <<t, s, c>>]]
        /\ y = [s \in 1 .. Len(q) |-> [c \in 1 .. Len(q[s].calls) |-> <<t, s, c>>]]
    BY <2>2 DEF CallsOfScripts
  <2>5. x \in Seq(Seq(T)) /\ y \in Seq(Seq(T)) BY <1>1, <2>1, ListTypes
  <2> HIDE DEF x, y
  <2>6. Len(x) = Len(p) /\ Len(y) = Len(q) BY <2>3, <2>4
  <2>7. Len(p) <= Len(q) BY <2>1, <2>2 DEF ScriptsContinue
  <2>8. \A s \in 1 .. Len(p) : s \in 1 .. Len(q) /\ Begins(p[s].calls, q[s].calls)
    BY <2>1, <2>2, ScriptsBegin
  <2>9. ASSUME NEW s \in 1 .. Len(p) - 1 PROVE y[s] = x[s]
    <3>1. s \in 1 .. Len(p) /\ s \in 1 .. Len(q) BY <2>3, <2>7
    <3>2. q[s].calls = p[s].calls BY <2>1, <2>2 DEF ScriptsContinue
    <3>3. QED BY <2>4, <3>1, <3>2
  <2>10. ASSUME NEW s \in 1 .. Len(p) PROVE Begins(x[s], y[s])
    <3>1. PICK m \in Nat, n \in Nat : m = Len(p[s].calls) /\ n = Len(q[s].calls) BY <2>3, <2>8
    <3>2. m <= n BY <2>8, <3>1 DEF Begins
    <3>3. x[s] = [c \in 1 .. m |-> <<t, s, c>>] BY <2>4, <3>1
    <3>4. y[s] = [c \in 1 .. n |-> <<t, s, c>>] BY <2>4, <2>8, <3>1
    <3>5. Len(x[s]) = m /\ Len(y[s]) = n BY <3>3, <3>4
    <3>6. \A c \in 1 .. m : y[s][c] = x[s][c] BY <3>2, <3>3, <3>4
    <3>7. QED BY <3>2, <3>5, <3>6 DEF Begins
  <2>11. x # <<>> => Begins(x[Len(x)], y[Len(x)])
    <3>1. x # <<>> => Len(x) # 0 BY <2>5
    <3>2. Len(x) # 0 => Len(x) \in 1 .. Len(p) BY <2>3, <2>6
    <3>3. QED BY <2>10, <3>1, <3>2
  <2>12. Continues(x, y) BY <2>6, <2>7, <2>9, <2>11 DEF Continues
  <2>13. CallsOfTurn(a, t) = FlattenSeq(x) /\ CallsOfTurn(b, t) = FlattenSeq(y)
    BY DEF CallsOfTurn, CallsOfScripts, x, y
  <2>14. QED BY <2>5, <2>12, <2>13, FlattenContinues
<1> DEFINE v == CallsOfTurns(a)
           w == CallsOfTurns(b)
<1>4. v \in Seq(Seq(T)) /\ w \in Seq(Seq(T)) BY <1>1, ListTypes
<1>5. /\ v = [t \in 1 .. Len(a) |-> CallsOfTurn(a, t)]
      /\ w = [t \in 1 .. Len(b) |-> CallsOfTurn(b, t)]
  BY DEF CallsOfTurns
<1> HIDE DEF v, w
<1>6. Len(v) = Len(a) /\ Len(w) = Len(b) BY <1>2, <1>5
<1>7. ASSUME NEW t \in 1 .. Len(a) - 1 PROVE w[t] = v[t]
  <2>1. t \in 1 .. Len(a) /\ t \in 1 .. Len(b) BY <1>2
  <2>2. b[t].scripts = a[t].scripts BY DEF TurnsContinue
  <2>3. CallsOfTurn(b, t) = CallsOfTurn(a, t) BY <2>2 DEF CallsOfTurn
  <2>4. QED BY <1>5, <2>1, <2>3
<1>8. v # <<>> => Begins(v[Len(v)], w[Len(v)])
  <2>1. v # <<>> => Len(v) # 0 BY <1>4
  <2>2. Len(v) # 0 => Len(v) \in 1 .. Len(a) /\ Len(v) \in 1 .. Len(b) BY <1>2, <1>6
  <2>3. \A t \in 1 .. Len(a) : t \in 1 .. Len(b) => Begins(v[t], w[t]) BY <1>3, <1>5
  <2>4. QED BY <2>1, <2>2, <2>3
<1>9. Continues(v, w) BY <1>2, <1>6, <1>7, <1>8 DEF Continues
<1>10. Calls(a) = FlattenSeq(v) /\ Calls(b) = FlattenSeq(w) BY DEF Calls, CallsOfTurns, v, w
<1>11. Calls(a) \in Seq(T) /\ Calls(b) \in Seq(T) BY <1>4, <1>10, FlattenTypes
<1>12. QED BY <1>4, <1>9, <1>10, <1>11, FlattenContinues, BeginsIsPrefix
-------------------------------------------------------------------------------
(* The order of events.  An event names no turn, and a call no script: the *)
(* list of calls only grows at its end because the scripts of a transcript *)
(* are closed but for a turn's last (InOrder), and whatever a worker sent  *)
(* finds its turn opened last and running (AtWork), however much of the    *)
(* queue has been folded in.                                               *)

InOrder(turns) ==
  \A i \in 1 .. Len(turns) : Closed(turns[i].scripts, Len(turns[i].scripts) - 1)
AtWork(turns) == turns # <<>> /\ turns[Len(turns)].status = "running"
OrderlyIn(chain, queue, n) ==
  /\ \A i \in 0 .. n : InOrder(chain[i])
  /\ \A i \in 1 .. n : queue[i].kind # "shell" => AtWork(chain[i - 1])
Orderly == OrderlyIn(SettledUpto, Queue, Len(Queue))

LEMMA OrderSame ==
  ASSUME NEW a \in Seq(Turns), NEW b \in Seq(Turns), Same(a, b)
  PROVE  (InOrder(a) => InOrder(b)) /\ (AtWork(a) => AtWork(b))
<1>1. Len(a) \in Nat /\ Len(b) = Len(a) BY DEF Same
<1>2. InOrder(a) => InOrder(b) BY <1>1 DEF InOrder, Same
<1>3. ASSUME AtWork(a) PROVE AtWork(b)
  <2>1. Len(a) # 0 BY <1>3 DEF AtWork
  <2>2. Len(a) \in 1 .. Len(a) BY <1>1, <2>1
  <2>3. b[Len(a)].status = a[Len(a)].status BY <2>2 DEF Same
  <2>4. b # <<>> BY <1>1, <2>1
  <2>5. QED BY <1>1, <1>3, <2>3, <2>4 DEF AtWork
<1>4. QED BY <1>2, <1>3

(* What is settled is in order: it is what the workers did. *)
LEMMA SettledInOrder == TypeInv /\ FiledInv => InOrder(Settled)
<1> SUFFICES ASSUME TypeInv, FiledInv, NEW i \in 1 .. Len(Settled)
             PROVE  Closed(Settled[i].scripts, Len(Settled[i].scripts) - 1)
  BY DEF InOrder
<1>1. Settled[i].prompt \in 1 .. tasks /\ Settled[i].scripts = ledger[Settled[i].prompt]
  BY DEF FiledInv, Filed, FiledIn
<1>2. Settled[i].prompt \in Tasks BY <1>1, ModelTurnAssumption DEF TypeInv, Tasks
<1>3. LedgerOf(Settled[i].prompt) BY <1>2 DEF FiledInv, Ledgers
<1>4. QED BY <1>1, <1>3 DEF LedgerOf

LEMMA SettledInOrderNext ==
  (TypeInv /\ FiledInv)' => \A i \in 1 .. Len(Settled') :
                               Closed(Settled'[i].scripts, Len(Settled'[i].scripts) - 1)
<1>1. (TypeInv /\ FiledInv => InOrder(Settled))' BY SettledInOrder, PTL
<1>2. QED BY <1>1 DEF InOrder, Closed

(* Two folds of which one goes on where the other is. *)
LEMMA OrderlyAgree ==
  ASSUME NEW a \in Seq(Turns), NEW s \in Seq(Sent), NEW f, Chain(f, a, s), OrderlyIn(f, s, Len(s)),
         NEW b \in Seq(Turns), NEW q \in Seq(Sent), NEW g, Chain(g, b, q),
         NEW d \in Nat, NEW n \in Nat, d + n <= Len(s), n <= Len(q),
         Same(f[d], b), \A i \in 1 .. n : s[d + i] = q[i]
  PROVE  OrderlyIn(g, q, n)
<1>1. Len(s) \in Nat /\ Len(q) \in Nat OBVIOUS
<1>2. ASSUME NEW i \in 0 .. n
      PROVE  (InOrder(f[d + i]) => InOrder(g[i])) /\ (AtWork(f[d + i]) => AtWork(g[i]))
  <2>1. i \in Nat /\ d + i <= Len(s) /\ i <= Len(q) /\ d + i \in 0 .. Len(s) /\ i \in 0 .. Len(q)
    BY <1>1
  <2>2. \A j \in 1 .. i : s[d + j] = q[j]
    <3>1. \A j \in 1 .. i : j \in 1 .. n OBVIOUS
    <3>2. QED BY <3>1
  <2>3. Same(f[d + i], g[i]) BY <2>1, <2>2, ChainsAgree
  <2>4. f[d + i] \in Seq(Turns) /\ g[i] \in Seq(Turns) BY <2>1, ChainTypes
  <2>5. QED BY <2>3, <2>4, OrderSame
<1>3. ASSUME NEW i \in 0 .. n PROVE InOrder(g[i])
  <2>1. d + i \in 0 .. Len(s) BY <1>1
  <2>2. InOrder(f[d + i]) BY <2>1 DEF OrderlyIn
  <2>3. QED BY <1>2, <2>2
<1>4. ASSUME NEW i \in 1 .. n, q[i].kind # "shell" PROVE AtWork(g[i - 1])
  <2>1. d + i \in 1 .. Len(s) /\ i - 1 \in 0 .. n /\ (d + i) - 1 = d + (i - 1) BY <1>1
  <2>2. s[d + i].kind # "shell" BY <1>4
  <2>3. AtWork(f[(d + i) - 1]) BY <2>1, <2>2 DEF OrderlyIn
  <2>4. QED BY <1>2, <2>1, <2>3
<1>5. QED BY <1>3, <1>4 DEF OrderlyIn

LEMMA ChainFirst ==
  ASSUME NEW a, NEW s, Len(s) \in Nat, NEW f, Chain(f, a, s)
  PROVE  f[0] = a
<1>1. 0 \in 0 .. Len(s) OBVIOUS
<1>2. QED BY <1>1, ChainStep

LEMMA OrderlyStays ==
  ASSUME TypeInv, TypeInv', transcript \in Seq(Turns), transcript' \in Seq(Turns),
         Queue' = Queue, Same(transcript, transcript'), Orderly
  PROVE  Orderly'
<1>1. Chain(SettledUpto, transcript, Queue) BY SettledChain
<1>2. Chain(SettledUpto', transcript', Queue) BY SettledNext
<1>3. Queue \in Seq(Sent) /\ Len(Queue) \in Nat BY QueueTypes
<1>4. Same(SettledUpto[0], transcript') BY <1>1, <1>3, ChainFirst
<1>5. /\ 0 + Len(Queue) <= Len(Queue) /\ Len(Queue) <= Len(Queue) /\ 0 \in Nat
      /\ \A i \in 1 .. Len(Queue) : Queue[0 + i] = Queue[i]
  BY <1>3
<1>6. OrderlyIn(SettledUpto', Queue, Len(Queue))
  BY <1>1, <1>2, <1>3, <1>4, <1>5, OrderlyAgree DEF Orderly
<1>7. QED BY <1>6 DEF Orderly, OrderlyIn, InOrder, AtWork

LEMMA OrderlyReceives ==
  ASSUME TypeInv, TypeInv', transcript \in Seq(Turns), transcript' \in Seq(Turns),
         Queue # <<>>, Queue' = Tail(Queue), transcript' = Absorb(transcript, Head(Queue)), Orderly
  PROVE  Orderly'
<1>1. Chain(SettledUpto, transcript, Queue) BY SettledChain
<1>2. Chain(SettledUpto', transcript', Tail(Queue)) BY SettledNext
<1>3. Queue \in Seq(Sent) /\ Len(Queue) \in Nat BY QueueTypes
<1> DEFINE n == Len(Tail(Queue))
<1>4. /\ n \in Nat /\ Len(Queue) = 1 + n /\ Tail(Queue) \in Seq(Sent)
      /\ \A i \in 1 .. n : Queue[1 + i] = Tail(Queue)[i]
      /\ Head(Queue) = Queue[1]
  BY <1>3
<1> HIDE DEF n
<1>5. SettledUpto[1] = transcript'
  <2>1. 1 \in 0 .. Len(Queue) /\ 1 - 1 = 0 BY <1>3, <1>4
  <2>2. SettledUpto[1] = Absorb(SettledUpto[0], Queue[1]) BY <1>1, <2>1, ChainStep
  <2>3. SettledUpto[0] = transcript BY <1>1, <1>3, ChainFirst
  <2>4. QED BY <1>4, <2>2, <2>3
<1>6. Same(SettledUpto[1], transcript') BY <1>5, SameIsSame
<1>7. 1 + n <= Len(Queue) /\ n <= Len(Tail(Queue)) BY <1>4 DEF n
<1>8. OrderlyIn(SettledUpto', Tail(Queue), n)
  <2>1. PICK f, s, g, q : f = SettledUpto /\ s = Queue /\ g = SettledUpto' /\ q = Tail(Queue)
    OBVIOUS
  <2>2. Chain(f, transcript, s) /\ OrderlyIn(f, s, Len(s)) /\ Chain(g, transcript', q)
    BY <1>1, <1>2, <2>1 DEF Orderly
  <2>3. s \in Seq(Sent) /\ q \in Seq(Sent) /\ n \in Nat BY <1>3, <1>4, <2>1
  <2>4. PICK d \in Nat : d = 1 OBVIOUS
  <2>5. d + n <= Len(s) /\ n <= Len(q) /\ Same(f[d], transcript') BY <1>6, <1>7, <2>1, <2>4
  <2>6. \A i \in 1 .. n : s[d + i] = q[i] BY <1>4, <2>1, <2>4
  <2>7. OrderlyIn(g, q, n)
    BY <2>2, <2>3, <2>5, <2>6, OrderlyAgree
  <2>8. QED BY <2>1, <2>7
<1>9. QED BY <1>8 DEF Orderly, OrderlyIn, InOrder, AtWork, n

(* A worker sends an event: it finds its turn opened last and running. *)
LEMMA OrderlySends ==
  ASSUME TypeInv, TypeInv', FiledInv, FiledInv', transcript' = transcript,
         NEW event \in Sent, Queue' = Append(Queue, event),
         event.kind # "shell" => AtWork(Settled), Orderly
  PROVE  Orderly'
<1> DEFINE n == Len(Queue)
           longer == Append(Queue, event)
<1>1. Chain(SettledUpto, transcript, Queue) BY SettledChain
<1>2. Chain(SettledUpto', transcript, longer) BY SettledNext
<1>3. Queue \in Seq(Sent) /\ n \in Nat /\ transcript \in Seq(Turns)
  BY QueueTypes DEF FiledInv
<1>4. /\ longer \in Seq(Sent) /\ Len(longer) = n + 1 /\ longer[n + 1] = event
      /\ \A i \in 1 .. n : Queue[0 + i] = longer[i]
  BY <1>3
<1> HIDE DEF longer
<1>5. Same(SettledUpto[0], transcript) BY <1>1, <1>3, ChainFirst, SameIsSame
<1>6. 0 + n <= Len(Queue) /\ n <= Len(longer) /\ 0 \in Nat BY <1>3, <1>4
<1>7. OrderlyIn(SettledUpto', longer, n)
  <2>1. PICK f, s, g : f = SettledUpto /\ s = Queue /\ g = SettledUpto'
    OBVIOUS
  <2>2. Chain(f, transcript, s) /\ OrderlyIn(f, s, Len(s)) /\ Chain(g, transcript, longer)
    BY <1>1, <1>2, <2>1 DEF Orderly
  <2>3. s \in Seq(Sent) /\ longer \in Seq(Sent) /\ n \in Nat BY <1>3, <1>4, <2>1
  <2>4. PICK d \in Nat : d = 0 OBVIOUS
  <2>5. d + n <= Len(s) /\ n <= Len(longer) /\ Same(f[d], transcript) BY <1>5, <1>6, <2>1, <2>4
  <2>6. \A i \in 1 .. n : s[d + i] = longer[i] BY <1>4, <2>1, <2>4
  <2> HIDE DEF n
  <2>7. OrderlyIn(g, longer, n)
    BY <1>3, <2>2, <2>3, <2>5, <2>6, OrderlyAgree
  <2>8. QED BY <2>1, <2>7
<1>8. InOrder(SettledUpto'[n + 1])
  <2>1. Settled' = SettledUpto'[n + 1] BY <1>4 DEF Settled, longer
  <2>2. QED BY <2>1, SettledInOrderNext DEF InOrder
<1>9. AtWork(Settled) => AtWork(SettledUpto'[n])
  <2>1. Same(SettledUpto[0 + n], SettledUpto'[n])
    BY <1>1, <1>2, <1>3, <1>4, <1>5, <1>6, ChainsAgree
  <2>2. 0 + n = n /\ n \in 0 .. Len(Queue) /\ n \in 0 .. Len(longer) BY <1>3, <1>4
  <2>3. SettledUpto[n] \in Seq(Turns) /\ SettledUpto'[n] \in Seq(Turns)
    BY <1>1, <1>2, <1>3, <1>4, <2>2, ChainTypes
  <2>4. QED BY <2>1, <2>2, <2>3, OrderSame DEF Settled
<1>10. \A i \in 0 .. Len(longer) : InOrder(SettledUpto'[i])
  <2>1. \A i \in 0 .. n + 1 : i \in 0 .. n \/ i = n + 1 BY <1>3
  <2>2. QED BY <1>4, <1>7, <1>8, <2>1 DEF OrderlyIn
<1>11. \A i \in 1 .. Len(longer) : longer[i].kind # "shell" => AtWork(SettledUpto'[i - 1])
  <2>1. \A i \in 1 .. n + 1 : i \in 1 .. n \/ i = n + 1 BY <1>3
  <2>2. (n + 1) - 1 = n BY <1>3
  <2>3. longer[n + 1].kind # "shell" => AtWork(SettledUpto'[(n + 1) - 1])
    BY <1>4, <1>9, <2>2
  <2>4. QED BY <1>4, <1>7, <2>1, <2>3 DEF OrderlyIn
<1>12. Queue' = longer BY DEF longer
<1>13. QED BY <1>10, <1>11, <1>12 DEF Orderly, OrderlyIn, InOrder, AtWork

LEMMA OrderlyEmpties ==
  ASSUME TypeInv', FiledInv', Queue' = <<>>
  PROVE  Orderly'
<1>1. Settled' = SettledUpto'[0]
  <2>1. Len(<<>>) = 0 OBVIOUS
  <2>2. QED BY <2>1 DEF Settled
<1>2. InOrder(SettledUpto'[0]) BY <1>1, SettledInOrderNext DEF InOrder
<1>3. (\A i \in 0 .. Len(<<>>) : i = 0) /\ \A i \in 1 .. Len(<<>>) : FALSE OBVIOUS
<1>4. QED BY <1>2, <1>3 DEF Orderly, OrderlyIn, InOrder, AtWork

LEMMA WorkersOrderly ==
  ASSUME TypeInv, TurnInv, TypeInv', FiledInv, FiledInv', Orderly, NEW t \in Tasks,
         \/ ScriptStarts(t) \/ CallReturns(t) \/ ScriptFinishes(t)
         \/ TurnReports(t) \/ ShellReports(t)
  PROVE  Orderly'
<1>1. Alive(t) /\ UNCHANGED <<loop, busy, running, transcript, tasks, kind>> BY WorkersSend
<1>2. LedgerOf(t) BY DEF FiledInv, Ledgers
<1>3. CASE ShellReports(t)
  <2>1. Emit(t, ShellFinished) /\ ShellFinished \in Sent BY <1>3, SentTypes DEF ShellReports
  <2>2. Queue' = Append(Queue, ShellFinished) BY <1>1, <2>1, QueueSends
  <2>3. ShellFinished.kind = "shell" BY DEF ShellFinished
  <2>4. QED BY <1>1, <2>1, <2>2, <2>3, OrderlySends
<1>4. CASE ScriptStarts(t) \/ CallReturns(t) \/ ScriptFinishes(t) \/ TurnReports(t)
  <2>1. kind[t] = "turn"
    <3>1. CASE ScriptStarts(t) \/ TurnReports(t) BY <3>1 DEF ScriptStarts, TurnReports
    <3>2. CASE CallReturns(t)
      <4>1. phase[t] = "scripting" BY <3>2 DEF CallReturns, TypeInv
      <4>2. QED BY <1>2, <4>1 DEF LedgerOf
    <3>3. CASE ScriptFinishes(t) BY <1>2, <3>3 DEF ScriptFinishes, LedgerOf
    <3>4. QED BY <1>4, <3>1, <3>2, <3>3
  <2>2. PICK event \in Sent : Emit(t, event) BY <1>4, WorkersSend
  <2>3. Queue' = Append(Queue, event) BY <1>1, <2>2, QueueSends
  <2>4. NewestIn(Settled, t) BY <1>1, <2>1 DEF FiledInv, Latest
  <2>5. outcome[t] = "running" BY <1>1, <1>2 DEF LedgerOf
  <2>6. AtWork(Settled)
    <3>1. Settled \in Seq(Turns) BY SettledTypes DEF FiledInv
    <3>2. Settled # <<>> /\ Settled[Len(Settled)].prompt = t BY <2>4 DEF NewestIn
    <3>3. Len(Settled) \in 1 .. Len(Settled)
      <4>1. Len(Settled) # 0 /\ Len(Settled) \in Nat BY <3>1, <3>2
      <4>2. QED BY <4>1
    <3>4. Settled[Len(Settled)].status = "running"
      BY <2>5, <3>2, <3>3 DEF FiledInv, Filed, FiledIn
    <3>5. QED BY <3>2, <3>4 DEF AtWork
  <2>7. QED BY <1>1, <2>2, <2>3, <2>6, OrderlySends
<1>5. QED BY <1>3, <1>4

LEMMA OrderlyKept ==
  TypeInv /\ TurnInv /\ FiledInv /\ Orderly /\ [Next]_vars /\ TypeInv' /\ FiledInv' => Orderly'
<1> SUFFICES ASSUME TypeInv, TurnInv, FiledInv, Orderly, [Next]_vars, TypeInv', FiledInv'
             PROVE  Orderly'
  OBVIOUS
<1>1. /\ transcript \in Seq(Turns) /\ transcript' \in Seq(Turns) /\ Queued
      /\ Same(transcript, transcript)
  <2>1. transcript \in Seq(Turns) /\ transcript' \in Seq(Turns) /\ Queued BY DEF FiledInv
  <2>2. QED BY <2>1, SameIsSame
<1>2. ASSUME Queue' = Queue, transcript' = transcript PROVE Orderly'
  BY <1>1, <1>2, OrderlyStays
<1>3. CASE Waiting \/ UNCHANGED vars \/ HopDenied \/ SubmitShell \/ ShellRefused
  <2>1. UNCHANGED <<running, mail, transcript>>
    BY <1>3 DEF Waiting, HopDenied, SubmitShell, Submit, ShellRefused, vars, appVars, workVars
  <2>2. QED BY <1>2, <2>1, QueueStays
<1>4. CASE Hop \/ HopGranted \/ SubmitTurn \/ TurnRefused
  <2>1. (~busy \/ loop # "select") /\ UNCHANGED <<running, mail>>
    BY <1>4 DEF Hop, HopGranted, SubmitTurn, Submit, TurnRefused, workVars
  <2>2. Queue' = <<>> BY <1>1, <2>1, QueueStays DEF Queued
  <2>3. QED BY <2>2, OrderlyEmpties
<1>5. CASE Spawned
  <2>1. tasks \in Tasks /\ mail[tasks] = <<>> BY <1>5 DEF Spawned, TurnInv
  <2>2. Queue' = <<>> BY <1>5, <2>1 DEF Spawned, Queue
  <2>3. QED BY <2>2, OrderlyEmpties
<1>6. CASE Settle
  <2>1. Queue' = <<>> BY <1>6 DEF Settle, Queue
  <2>2. QED BY <2>1, OrderlyEmpties
<1>7. CASE KeyStop
  <2>1. transcript' = MarkStop(transcript) /\ UNCHANGED <<running, mail>>
    BY <1>7 DEF KeyStop, workVars
  <2>2. QED BY <1>1, <2>1, QueueStays, StopMarks, OrderlyStays
<1>8. CASE Receive
  <2>1. Queue # <<>> /\ Queue' = Tail(Queue) /\ transcript' = Absorb(transcript, Head(Queue))
    BY <1>8, QueueReceives
  <2>2. QED BY <1>1, <2>1, OrderlyReceives
<1>9. ASSUME NEW t \in Tasks, CallStarts(t) \/ WorkerReturns(t) \/ WorkerPanics(t) PROVE Orderly'
  <2>1. UNCHANGED <<running, mail, transcript>>
    BY <1>9 DEF CallStarts, WorkerReturns, WorkerPanics, WorkerOnly, appVars
  <2>2. QED BY <1>2, <2>1, QueueStays
<1>10. QED BY <1>3, <1>4, <1>5, <1>6, <1>7, <1>8, <1>9, WorkersOrderly
           DEF Next, BrokerAnswers, WorkerStep

LEMMA OrderlyInit == Init => Orderly
<1> SUFFICES ASSUME Init PROVE Orderly
  OBVIOUS
<1>1. TypeInv /\ FiledInv BY TypeInit, FiledInit
<1>2. Queue = <<>> BY DEF Init, Queue
<1>3. InOrder(SettledUpto[0])
  <2>1. Len(<<>>) = 0 OBVIOUS
  <2>2. Settled = SettledUpto[0] BY <1>2, <2>1 DEF Settled
  <2>3. QED BY <1>1, <2>2, SettledInOrder
<1>4. (\A i \in 0 .. Len(<<>>) : i = 0) /\ \A i \in 1 .. Len(<<>>) : FALSE OBVIOUS
<1>5. QED BY <1>2, <1>3, <1>4 DEF Orderly, OrderlyIn

-------------------------------------------------------------------------------
(* What one step does to the list of calls. *)

LEMMA ScriptAdded ==
  ASSUME NEW a \in Seq(Nodes), NEW node \in Nodes
  PROVE  ScriptsContinue(a, Append(a, node))
<1> DEFINE b == Append(a, node)
<1>1. /\ Len(a) \in Nat /\ b \in Seq(Nodes) /\ Len(b) = Len(a) + 1
      /\ \A i \in 1 .. Len(a) : b[i] = a[i]
  BY Appended
<1> HIDE DEF b
<1>2. Len(a) <= Len(b) /\ \A i \in 1 .. Len(a) - 1 : i \in 1 .. Len(a) BY <1>1
<1>3. ASSUME a # <<>> PROVE Begins(a[Len(a)].calls, b[Len(a)].calls)
  <2>1. Len(a) # 0 BY <1>3
  <2>2. Len(a) \in 1 .. Len(a) BY <1>1, <2>1
  <2>3. a[Len(a)] \in Nodes BY <2>2
  <2>4. Len(a[Len(a)].calls) \in Nat BY <2>3 DEF Nodes
  <2>5. QED BY <1>1, <2>2, <2>4 DEF Begins
<1>4. ScriptsContinue(a, b) BY <1>1, <1>2, <1>3 DEF ScriptsContinue
<1>5. QED BY <1>4 DEF b

LEMMA ScriptEdited ==
  ASSUME NEW a \in Seq(Nodes), NEW i \in 1 .. Len(a), NEW node \in Nodes,
         Begins(a[i].calls, node.calls), i # Len(a) => node.calls = a[i].calls
  PROVE  ScriptsContinue(a, [a EXCEPT ![i] = node])
<1> DEFINE b == [a EXCEPT ![i] = node]
<1>1. /\ Len(a) \in Nat /\ Len(b) = Len(a)
      /\ \A j \in 1 .. Len(a) : b[j] = IF j = i THEN node ELSE a[j]
  OBVIOUS
<1> HIDE DEF b
<1>2. ASSUME NEW j \in 1 .. Len(a) - 1 PROVE b[j].calls = a[j].calls
  <2>1. j \in 1 .. Len(a) /\ j # Len(a) BY <1>1
  <2>2. QED BY <1>1, <2>1
<1>3. Len(a) \in 1 .. Len(a) BY <1>1
<1>4. Begins(a[Len(a)].calls, b[Len(a)].calls)
  <2>1. CASE i = Len(a) BY <1>1, <1>3, <2>1
  <2>2. CASE i # Len(a)
    <3>1. b[Len(a)] = a[Len(a)] BY <1>1, <1>3, <2>2
    <3>2. a[Len(a)] \in Nodes BY <1>3
    <3>3. Len(a[Len(a)].calls) \in Nat BY <3>2 DEF Nodes
    <3>4. QED BY <3>1, <3>3 DEF Begins
  <2>3. QED BY <2>1, <2>2
<1>5. ScriptsContinue(a, b) BY <1>1, <1>2, <1>4 DEF ScriptsContinue
<1>6. QED BY <1>5 DEF b

LEMMA FoldContinues ==
  ASSUME NEW turn \in Turns, NEW event \in Sent,
         Closed(turn.scripts, Len(turn.scripts) - 1)
  PROVE  ScriptsContinue(turn.scripts, Fold(turn, event).scripts)
<1>1. PICK scripts \in Seq(Nodes) : scripts = turn.scripts BY DEF Turns
<1>2. Len(scripts) \in Nat OBVIOUS
<1>3. ASSUME NEW new \in Seq(Nodes), Fold(turn, event) = [turn EXCEPT !.scripts = new],
             ScriptsContinue(scripts, new)
      PROVE  ScriptsContinue(turn.scripts, Fold(turn, event).scripts)
  <2>1. [turn EXCEPT !.scripts = new].scripts = new BY TurnEdits
  <2>2. QED BY <1>1, <1>3, <2>1
<1>4. ASSUME NEW n \in Nat, event = Started(n)
      PROVE  ScriptsContinue(turn.scripts, Fold(turn, event).scripts)
  <2>1. PICK node \in Nodes : node = Node(n, <<>>, FALSE) BY NewNodes
  <2>2. Fold(turn, event) = [turn EXCEPT !.scripts = Append(scripts, node)]
    <3>1. Fold(turn, Started(n)) = [turn EXCEPT !.scripts = Append(turn.scripts, Node(n, <<>>, FALSE))]
      BY FoldIs
    <3>2. QED BY <1>1, <1>4, <2>1, <3>1
  <2>3. Append(scripts, node) \in Seq(Nodes) BY Longer
  <2>4. QED BY <1>3, <2>2, <2>3, ScriptAdded
<1>5. ASSUME NEW n \in Nat, event = Called(n)
      PROVE  ScriptsContinue(turn.scripts, Fold(turn, event).scripts)
  <2>1. Fold(turn, event) = [turn EXCEPT !.scripts = FileCall(scripts, n)]
    <3>1. Fold(turn, Called(n)) = [turn EXCEPT !.scripts = FileCall(turn.scripts, n)] BY FoldIs
    <3>2. QED BY <1>1, <1>5, <3>1
  <2>2. FileCall(scripts, n) \in Seq(Nodes) BY FileTypes
  <2>3. CASE UnclosedIn(scripts) = {}
    <3>1. PICK node \in Nodes : node = Node(n, <<n>>, FALSE) BY NewNodes
    <3>2. FileCall(scripts, n) = Append(scripts, node) BY <2>3, <3>1, FileCallIs
    <3>3. QED BY <1>3, <2>1, <2>2, <3>2, ScriptAdded
  <2>4. CASE UnclosedIn(scripts) # {}
    <3>1. PICK i \in 1 .. Len(scripts) : ~scripts[i].done BY <2>4 DEF UnclosedIn
    <3>2. i = Len(scripts)
      <4>1. i # Len(scripts) => i \in 1 .. Len(scripts) - 1 BY <1>2
      <4>2. QED BY <1>1, <3>1, <4>1 DEF Closed
    <3>3. scripts # <<>> BY <1>2, <3>2
    <3>4. FileCall(scripts, n) = [scripts EXCEPT ![Len(scripts)].calls = Append(@, n)]
      BY <1>1, <3>1, <3>2, <3>3, RunningScriptIs
    <3>5. scripts[i] \in Nodes OBVIOUS
    <3>6. PICK node \in Nodes :
            node = [scripts[i] EXCEPT !.calls = Append(@, n)] /\ node.calls = Append(scripts[i].calls, n)
      <4>1. [scripts[i] EXCEPT !.calls = Append(@, n)] \in Nodes BY <3>5, NodeEdits
      <4>2. [scripts[i] EXCEPT !.calls = Append(@, n)].calls = Append(scripts[i].calls, n)
        BY <3>5 DEF Nodes
      <4>3. QED BY <4>1, <4>2
    <3>7. FileCall(scripts, n) = [scripts EXCEPT ![i] = node] BY <3>2, <3>4, <3>6
    <3>8. Begins(scripts[i].calls, node.calls)
      <4>1. PICK calls \in Seq(Nat) : calls = scripts[i].calls BY <3>5 DEF Nodes
      <4>2. Begins(calls, Append(calls, n)) BY DEF Begins
      <4>3. QED BY <3>6, <4>1, <4>2
    <3>9. ScriptsContinue(scripts, [scripts EXCEPT ![i] = node]) BY <3>2, <3>8, ScriptEdited
    <3>10. QED BY <1>3, <2>1, <2>2, <3>7, <3>9
  <2>5. QED BY <2>3, <2>4
<1>6. ASSUME NEW n \in Nat, event = ScriptOver(n)
      PROVE  ScriptsContinue(turn.scripts, Fold(turn, event).scripts)
  <2>1. Fold(turn, event) = [turn EXCEPT !.scripts = CloseScript(scripts, n)]
    <3>1. Fold(turn, ScriptOver(n)) = [turn EXCEPT !.scripts = CloseScript(turn.scripts, n)]
      BY FoldIs
    <3>2. QED BY <1>1, <1>6, <3>1
  <2>2. CloseScript(scripts, n) \in Seq(Nodes) BY FileTypes
  <2>3. CASE SeqIn(scripts, n) = {}
    <3>1. PICK node \in Nodes : node = Node(n, <<>>, TRUE) BY NewNodes
    <3>2. CloseScript(scripts, n) = Append(scripts, node) BY <2>3, <3>1, CloseScriptIs
    <3>3. QED BY <1>3, <2>1, <2>2, <3>2, ScriptAdded
  <2>4. CASE SeqIn(scripts, n) # {}
    <3>1. SeqIn(scripts, n) \in SUBSET (1 .. Len(scripts)) BY DEF SeqIn
    <3>2. PICK i \in 1 .. Len(scripts) : i = Min(SeqIn(scripts, n)) BY <1>2, <2>4, <3>1, Least
    <3>3. scripts[i] \in Nodes OBVIOUS
    <3>4. PICK node \in Nodes :
            node = [scripts[i] EXCEPT !.done = TRUE] /\ node.calls = scripts[i].calls
      <4>1. [scripts[i] EXCEPT !.done = TRUE] \in Nodes BY <3>3, NodeEdits
      <4>2. [scripts[i] EXCEPT !.done = TRUE].calls = scripts[i].calls BY <3>3 DEF Nodes
      <4>3. QED BY <4>1, <4>2
    <3>5. CloseScript(scripts, n) = [scripts EXCEPT ![i] = node]
      BY <2>4, <3>2, <3>4, CloseScriptIs
    <3>6. Begins(scripts[i].calls, node.calls)
      <4>1. PICK calls \in Seq(Nat) : calls = scripts[i].calls BY <3>3 DEF Nodes
      <4>2. Begins(calls, calls) BY DEF Begins
      <4>3. QED BY <3>4, <4>1, <4>2
    <3>7. ScriptsContinue(scripts, [scripts EXCEPT ![i] = node]) BY <3>4, <3>6, ScriptEdited
    <3>8. QED BY <1>3, <2>1, <2>2, <3>5, <3>7
  <2>5. QED BY <2>3, <2>4
<1>7. ASSUME Fold(turn, event).scripts = turn.scripts
      PROVE  ScriptsContinue(turn.scripts, Fold(turn, event).scripts)
  BY <1>1, <1>7, ScriptsSame
<1>8. ASSUME NEW status \in {"answered", "failed"}, event = Finished(status)
      PROVE  ScriptsContinue(turn.scripts, Fold(turn, event).scripts)
  <2>1. Fold(turn, event) = [turn EXCEPT !.status = status] BY <1>8, FoldIs
  <2>2. status \in {"running", "answered", "failed"} OBVIOUS
  <2>3. [turn EXCEPT !.status = status].scripts = turn.scripts BY <2>2, TurnEdits
  <2>4. QED BY <1>7, <2>1, <2>3
<1>9. CASE event = ShellFinished
  <2>1. Fold(turn, event) = turn BY <1>9, FoldIs
  <2>2. QED BY <1>7, <2>1
<1>10. \/ \E n \in Nat : event = Started(n) \/ event = Called(n) \/ event = ScriptOver(n)
       \/ \E status \in {"answered", "failed"} : event = Finished(status)
       \/ event = ShellFinished
  BY DEF Sent
<1>11. QED BY <1>4, <1>5, <1>6, <1>8, <1>9, <1>10

(* Turns whose scripts stay, and the last one's that continue. *)
LEMMA SameScriptsContinue ==
  ASSUME NEW a \in Seq(Turns), NEW b \in Seq(Turns), Len(a) <= Len(b),
         \A i \in 1 .. Len(a) : b[i].scripts = a[i].scripts
  PROVE  TurnsContinue(a, b)
<1>1. Len(a) \in Nat /\ Len(b) \in Nat OBVIOUS
<1>2. \A i \in 1 .. Len(a) - 1 : i \in 1 .. Len(a) BY <1>1
<1>3. ASSUME a # <<>> PROVE ScriptsContinue(a[Len(a)].scripts, b[Len(a)].scripts)
  <2>1. Len(a) # 0 BY <1>3
  <2>2. Len(a) \in 1 .. Len(a) BY <1>1, <2>1
  <2>3. a[Len(a)].scripts \in Seq(Nodes) BY <2>2, TurnParts
  <2>4. QED BY <2>2, <2>3, ScriptsSame
<1>4. QED BY <1>2, <1>3 DEF TurnsContinue

LEMMA EndsContinue ==
  ASSUME NEW a \in Seq(Turns), NEW status \in {"answered", "failed"}
  PROVE  TurnsContinue(a, Absorb(a, Finished(status)))
<1> DEFINE b == Absorb(a, Finished(status))
<1>1. b \in Seq(Turns) /\ Len(b) = Len(a) BY SentTypes, AbsorbTypes
<1>2. PICK i \in 0 .. Len(a) : RunningTurn(a) = i BY RunningTurnIs
<1>3. CASE i = 0
  <2>1. b = a BY <1>2, <1>3 DEF Absorb
  <2>2. QED BY <1>1, <2>1, SameScriptsContinue
<1>4. CASE i # 0
  <2>1. i \in 1 .. Len(a) BY <1>4
  <2>2. PICK turn \in Turns : turn = a[i] BY <2>1
  <2>3. status \in {"running", "answered", "failed"} OBVIOUS
  <2>4. PICK new \in Turns : new = [turn EXCEPT !.status = status] /\ new.scripts = turn.scripts
    BY <2>3, TurnEdits
  <2>5. Fold(a[i], Finished(status)) = new BY <2>2, <2>4, FoldIs
  <2>6. b = [a EXCEPT ![i] = new] BY <1>2, <1>4, <2>5 DEF Absorb
  <2>7. \A j \in 1 .. Len(a) : b[j].scripts = a[j].scripts
    <3>1. \A j \in 1 .. Len(a) : b[j] = IF j = i THEN new ELSE a[j] BY <2>6
    <3>2. QED BY <2>2, <2>4, <3>1
  <2> HIDE DEF b
  <2>8. TurnsContinue(a, b) BY <1>1, <2>7, SameScriptsContinue
  <2>9. QED BY <2>8 DEF b
<1>5. QED BY <1>3, <1>4

(* An event folded into the turn opened last. *)
LEMMA EventsContinue ==
  ASSUME NEW a \in Seq(Turns), NEW event \in Sent, InOrder(a), AtWork(a)
  PROVE  TurnsContinue(a, Absorb(a, event))
<1>1. a # <<>> /\ a[Len(a)].status = "running" BY DEF AtWork
<1>2. Len(a) \in Nat /\ Len(a) # 0 BY <1>1
<1>3. Len(a) \in 1 .. Len(a) BY <1>2
<1>4. PICK turn \in Turns : turn = a[Len(a)] BY <1>3
<1>5. PICK new \in Turns : new = Fold(turn, event) BY FoldTypes
<1>6. Absorb(a, event) = [a EXCEPT ![Len(a)] = new] BY <1>1, <1>4, <1>5, AbsorbLast
<1> DEFINE b == [a EXCEPT ![Len(a)] = new]
<1>7. Len(b) = Len(a) /\ b[Len(a)] = new /\ \A i \in 1 .. Len(a) - 1 : b[i] = a[i]
  BY <1>1, Rewritten
<1> HIDE DEF b
<1>8. Closed(turn.scripts, Len(turn.scripts) - 1) BY <1>3, <1>4 DEF InOrder
<1>9. ScriptsContinue(turn.scripts, new.scripts) BY <1>5, <1>8, FoldContinues
<1>10. TurnsContinue(a, b) BY <1>2, <1>4, <1>7, <1>9 DEF TurnsContinue
<1>11. QED BY <1>6, <1>10 DEF b

LEMMA CallsContinue ==
  ASSUME TypeInv, TurnInv, FiledInv, Orderly, [Next]_vars, transcript' \in Seq(Turns),
         transcript' # <<>>
  PROVE  TurnsContinue(transcript, transcript')
<1>1. transcript \in Seq(Turns) /\ Same(transcript, transcript)
  <2>1. transcript \in Seq(Turns) BY DEF FiledInv
  <2>2. QED BY <2>1, SameIsSame
<1>2. ASSUME Same(transcript, transcript') PROVE TurnsContinue(transcript, transcript')
  <2>1. Len(transcript) <= Len(transcript')
    <3>1. Len(transcript) = Len(transcript') /\ Len(transcript) \in Nat BY <1>1, <1>2 DEF Same
    <3>2. QED BY <3>1
  <2>2. \A i \in 1 .. Len(transcript) : transcript'[i].scripts = transcript[i].scripts
    BY <1>2 DEF Same
  <2>3. QED BY <1>1, <2>1, <2>2, SameScriptsContinue
<1>3. ASSUME transcript' = transcript PROVE TurnsContinue(transcript, transcript')
  BY <1>1, <1>2, <1>3
<1>4. CASE Waiting \/ HopDenied \/ SubmitShell \/ Spawned \/ ShellRefused \/ UNCHANGED vars
  BY <1>3, <1>4 DEF Waiting, HopDenied, SubmitShell, Spawned, ShellRefused, vars, appVars
<1>5. CASE Hop \/ HopGranted BY <1>5 DEF Hop, HopGranted
<1>6. CASE SubmitTurn
  <2>1. tasks + 1 \in Nat BY DEF TypeInv
  <2>2. PICK turn \in Turns : turn = Opened(tasks + 1) BY <2>1, OpenedTypes
  <2>3. transcript' = Append(transcript, turn) BY <1>6, <2>2 DEF SubmitTurn, OpenTurn
  <2>4. Len(transcript') = Len(transcript) + 1 /\ Len(transcript) \in Nat
        /\ \A i \in 1 .. Len(transcript) : transcript'[i] = transcript[i]
    BY <1>1, <2>3, Appended
  <2>5. Len(transcript) <= Len(transcript') BY <2>4
  <2>6. QED BY <1>1, <2>4, <2>5, SameScriptsContinue
<1>7. CASE TurnRefused BY <1>1, <1>7, EndsContinue DEF TurnRefused
<1>8. CASE KeyStop BY <1>1, <1>2, <1>8, StopMarks DEF KeyStop
<1>9. CASE Receive
  <2>1. Queue # <<>> /\ transcript' = Absorb(transcript, Head(Queue)) BY <1>9, QueueReceives
  <2>2. Queue \in Seq(Sent) /\ Len(Queue) \in Nat BY QueueTypes
  <2>3. Len(Queue) # 0 BY <2>1, <2>2
  <2>4. 1 \in 1 .. Len(Queue) /\ 0 \in 0 .. Len(Queue) /\ 1 - 1 = 0 BY <2>2, <2>3
  <2>5. Head(Queue) = Queue[1] /\ Queue[1] \in Sent BY <2>1, <2>2, <2>4
  <2>6. SettledUpto[0] = transcript BY <2>2, SettledChain, ChainFirst
  <2>7. InOrder(transcript) BY <2>4, <2>6 DEF Orderly, OrderlyIn
  <2>8. CASE Head(Queue).kind = "shell"
    <3>1. Head(Queue) = ShellFinished
      BY <2>5, <2>8 DEF Sent, Started, Called, ScriptOver, Finished, ShellFinished
    <3>2. transcript' = transcript BY <1>1, <2>1, <3>1, ShellEventsPass
    <3>3. QED BY <1>3, <3>2
  <2>9. CASE Head(Queue).kind # "shell"
    <3>1. AtWork(transcript) BY <2>4, <2>5, <2>6, <2>9 DEF Orderly, OrderlyIn
    <3>2. QED BY <1>1, <2>1, <2>5, <2>7, <3>1, EventsContinue
  <2>10. QED BY <2>8, <2>9
<1>10. CASE Settle
  <2>1. transcript' = transcript \/ transcript' = MarkReplayWindow(transcript, Len(history'))
    BY <1>10 DEF Settle
  <2>2. QED BY <1>1, <1>2, <2>1, WindowMarks
<1>11. ASSUME NEW t \in Tasks, WorkerStep(t) \/ WorkerPanics(t)
       PROVE  TurnsContinue(transcript, transcript')
  <2>1. transcript' = transcript
    BY <1>11 DEF WorkerStep, ScriptStarts, CallStarts, CallReturns, ScriptFinishes, TurnReports,
                 ShellReports, WorkerReturns, WorkerPanics, WorkerOnly, appVars
  <2>2. QED BY <1>3, <2>1
<1>12. QED BY <1>4, <1>5, <1>6, <1>7, <1>8, <1>9, <1>10, <1>11 DEF Next, BrokerAnswers

(* While one conversation lasts the list of calls only grows at its end,   *)
(* so the index the cursor holds keeps naming the same call, whatever is   *)
(* folded in, stopped or refused meanwhile (App::calls, App::call_at).     *)
THEOREM CursorIsStable == Spec => CursorStable
<1>1. TypeInv /\ TurnInv /\ FiledInv /\ Orderly /\ [Next]_vars /\ FiledInv'
        => [transcript' # <<>> =>
              /\ IsPrefix(Calls(transcript), Calls(transcript'))
              /\ \A target \in ToSet(Calls(transcript)) :
                   CallAt(transcript', target) = CallAt(transcript, target)]_vars
  <2> SUFFICES ASSUME TypeInv, TurnInv, FiledInv, Orderly, [Next]_vars, FiledInv',
                      transcript' # <<>>
               PROVE  /\ IsPrefix(Calls(transcript), Calls(transcript'))
                      /\ \A target \in ToSet(Calls(transcript)) :
                           CallAt(transcript', target) = CallAt(transcript, target)
    OBVIOUS
  <2>1. transcript \in Seq(Turns) /\ transcript' \in Seq(Turns) BY DEF FiledInv
  <2>2. TurnsContinue(transcript, transcript') BY <2>1, CallsContinue
  <2>3. QED BY <2>1, <2>2, CallsBegin, CallsKept
<1>2. QED BY <1>1, TurnInvariant, FiledInit, FiledKept, OrderlyInit, OrderlyKept, PTL
          DEF Spec, CursorStable
===============================================================================
