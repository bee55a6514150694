------------------------------ MODULE SerialShell ------------------------------
(***************************************************************************)
(* What the interactive console promises, without its keys, its threads or *)
(* its stop flag: commands run one at a time, each on behalf of the one    *)
(* identity that is open while it runs; every command gets one outcome, in *)
(* the transcript of the entry it was typed in; and the identity is only   *)
(* replaced between commands, with an empty transcript.                    *)
(***************************************************************************)
EXTENDS Naturals, Sequences

CONSTANT Nobody   (* no agent is open *)

VARIABLES
  who,      (* the identity that is open                                   *)
  log,      (* its transcript: one entry per command                       *)
  count,    (* commands begun so far                                       *)
  current,  (* the command in flight, 0 if none                            *)
  acting    (* identities on whose behalf a broker call is outstanding     *)

vars == <<who, log, count, current, acting>>

Init ==
  /\ who = Nobody /\ log = <<>> /\ count = 0 /\ current = 0 /\ acting = {}

(* Leaving an agent: only between commands, and its transcript goes too. *)
Close ==
  /\ current = 0 /\ acting = {}
  /\ who' = Nobody /\ log' = <<>>
  /\ UNCHANGED <<count, current, acting>>

Enter ==
  /\ who = Nobody /\ current = 0
  /\ who' # Nobody /\ log' = <<>>
  /\ UNCHANGED <<count, current, acting>>

(* A command begins, and is listed before anything is done for it. *)
Begin ==
  /\ who # Nobody /\ current = 0
  /\ count' = count + 1
  /\ current' = count + 1
  /\ log' = Append(log, [cmd |-> count + 1, entry |-> who.entry, exit |-> "running"])
  /\ UNCHANGED <<who, acting>>

(* A local command is listed with its outcome. *)
Answer ==
  /\ who # Nobody /\ current = 0
  /\ count' = count + 1
  /\ log' = Append(log, [cmd |-> count + 1, entry |-> who.entry, exit |-> "reported"])
  /\ UNCHANGED <<who, current, acting>>

Call ==
  /\ current # 0 /\ acting = {}
  /\ acting' = {who}
  /\ UNCHANGED <<who, log, count, current>>

CallEnds ==
  /\ acting # {}
  /\ acting' = {}
  /\ UNCHANGED <<who, log, count, current>>

(* The outcome of the command in flight. *)
Report ==
  /\ current # 0 /\ log[Len(log)].exit = "running"
  /\ log' = [log EXCEPT ![Len(log)].exit = "reported"]
  /\ UNCHANGED <<who, count, current, acting>>

(* The command is over; without an outcome by then it has failed. *)
Settle ==
  /\ current # 0 /\ acting = {}
  /\ current' = 0
  /\ log' = [log EXCEPT ![Len(log)].exit = IF @ = "running" THEN "failed" ELSE @]
  /\ UNCHANGED <<who, count, acting>>

Next ==
  Close \/ Enter \/ Begin \/ Answer \/ Call \/ CallEnds \/ Report \/ Settle

Spec == Init /\ [][Next]_vars
===============================================================================
