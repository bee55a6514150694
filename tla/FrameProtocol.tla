----------------------------- MODULE FrameProtocol -----------------------------
(***************************************************************************)
(* What a client of `--structured` may rely on, from the frames alone: a   *)
(* greeting, then one result per submitted line, in order; while a line    *)
(* has no result only that line may have effects; `ok` and `error` mean    *)
(* they are over, and `ok` that the line succeeded; `timeout` means they   *)
(* may not be, and is the last thing said.                                 *)
(***************************************************************************)
EXTENDS Naturals, Sequences

CONSTANT MaxCommands   (* lines the session runs; the next one is refused *)

VARIABLES
  frames,   (* what has been written                                       *)
  effects,  (* lines that may still have effects                           *)
  won,      (* lines whose effects ended in success                        *)
  over      (* the session has ended                                       *)

vars == <<frames, effects, won, over>>

(* The line the next result is about: the greeting counts for line 0. *)
Current == Len(frames)
Frame(cmd, status) == [cmd |-> cmd, status |-> status]

Init ==
  /\ frames = <<>> /\ effects = {} /\ won = {} /\ over = FALSE

Greet ==
  /\ ~over /\ frames = <<>>
  /\ frames' = <<Frame(0, "ready")>>
  /\ UNCHANGED <<effects, won, over>>

Begin ==
  /\ ~over /\ Current \in 1 .. MaxCommands
  /\ effects = {} /\ Current \notin won
  /\ effects' = {Current}
  /\ UNCHANGED <<frames, won, over>>

(* Also after the session's end: a timed-out line may take its time. *)
EffectsEnd ==
  /\ effects # {}
  /\ effects' = {}
  /\ \/ won' = won
     \/ won' = won \cup effects
  /\ UNCHANGED <<frames, over>>

(* A line answered without a script: success has no effects to wait for. *)
Succeed ==
  /\ ~over /\ Current \in 1 .. MaxCommands /\ effects = {}
  /\ won' = won \cup {Current}
  /\ UNCHANGED <<frames, effects, over>>

Answer ==
  /\ ~over /\ Current \in 1 .. MaxCommands
  /\ effects = {}
  /\ \/ frames' = Append(frames, Frame(Current, "error"))
     \/ Current \in won /\ frames' = Append(frames, Frame(Current, "ok"))
  /\ UNCHANGED <<effects, won, over>>

RefuseExcess ==
  /\ ~over /\ Current = MaxCommands + 1
  /\ frames' = Append(frames, Frame(Current, "error"))
  /\ over' = TRUE
  /\ UNCHANGED <<effects, won>>

GiveUp ==
  /\ ~over /\ Current \in 1 .. MaxCommands
  /\ frames' = Append(frames, Frame(Current, "timeout"))
  /\ over' = TRUE
  /\ UNCHANGED <<effects, won>>

End ==
  /\ ~over
  /\ over' = TRUE
  /\ UNCHANGED <<frames, effects, won>>

Next ==
  \/ Greet \/ Begin \/ EffectsEnd \/ Succeed \/ Answer
  \/ RefuseExcess \/ GiveUp \/ End

Spec == Init /\ [][Next]_vars
===============================================================================
