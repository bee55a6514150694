------------------------------ MODULE Transcript ------------------------------
(***************************************************************************)
(* The console's record of what an agent did: turns, the scripts in them   *)
(* and the capability calls in those, folded from a stream of events that  *)
(* name neither the turn nor, for a call, the script they belong to.       *)
(* Operators only, shared by ModelTurn and TranscriptFold.                 *)
(*                                                                         *)
(* A prompt is the number of the task it was submitted as; payloads are    *)
(* left out.  An Option is a sequence of at most one element.  Token sums  *)
(* saturate at u64 in the code, which no session comes near.               *)
(***************************************************************************)
EXTENDS Naturals, Sequences, SequencesExt

(* What a session sends: a script's start and finish and each call carry   *)
(* the session's next ordinal, the last event how the session ended.       *)
Started(n) == [kind |-> "started", seq |-> n]
Called(n) == [kind |-> "call", seq |-> n]
ScriptOver(n) == [kind |-> "over", seq |-> n]
Finished(status) == [kind |-> "finished", status |-> status]
Usage(reported) == [kind |-> "usage", reported |-> reported]
ShellFinished == [kind |-> "shell"]

Node(n, calls, done) == [seq |-> n, calls |-> calls, done |-> done]
Opened(prompt) == [prompt |-> prompt, scripts |-> <<>>, status |-> "running",
                   tokens |-> [input |-> <<>>, output |-> <<>>, unreported |-> 0],
                   stop |-> FALSE, window |-> TRUE]

-------------------------------------------------------------------------------
(* Fault: puts the newest call of a script first. *)
FileNewestFirst(scripts, n) ==
  LET i == SelectLastInSeq(scripts, LAMBDA node : ~node.done)
  IN  IF i = 0
      THEN Append(scripts, Node(n, <<n>>, FALSE))
      ELSE [scripts EXCEPT ![i].calls = <<n>> \o @]

(* A call goes to the latest script still running, or else to a node of    *)
(* its own, which nothing but a finish with the call's ordinal closes.  It *)
(* is put behind the calls that are there, in the order events come.       *)
FileCall(scripts, n) ==
  LET i == SelectLastInSeq(scripts, LAMBDA node : ~node.done)
  IN  IF i = 0
      THEN Append(scripts, Node(n, <<n>>, FALSE))
      ELSE [scripts EXCEPT ![i].calls = Append(@, n)]

CloseScript(scripts, n) ==
  LET i == SelectInSeq(scripts, LAMBDA node : node.seq = n)
  IN  IF i = 0
      THEN Append(scripts, Node(n, <<>>, TRUE))
      ELSE [scripts EXCEPT ![i].done = TRUE]

(* Fault: a count that was not reported is taken as zero. *)
AddReportedOrZero(total, count) ==
  <<(IF total = <<>> THEN 0 ELSE total[1]) + (IF count = <<>> THEN 0 ELSE count[1])>>

(* A sum exists once something was reported, be it zero. *)
AddReported(total, count) ==
  IF count = <<>> THEN total
  ELSE <<(IF total = <<>> THEN 0 ELSE total[1]) + count[1]>>

(* TurnTokens::absorb. *)
Account(tokens, usage) ==
  IF usage = <<>>
  THEN [tokens EXCEPT !.unreported = @ + 1]
  ELSE [input |-> AddReported(tokens.input, usage[1].input),
        output |-> AddReported(tokens.output, usage[1].output),
        unreported |-> tokens.unreported +
                         IF usage[1].input = <<>> /\ usage[1].output = <<>> THEN 1 ELSE 0]

(* Turn::absorb. *)
Fold(turn, event) ==
  CASE event.kind = "started"  -> [turn EXCEPT !.scripts = Append(@, Node(event.seq, <<>>, FALSE))]
    [] event.kind = "call"     -> [turn EXCEPT !.scripts = FileCall(@, event.seq)]
    [] event.kind = "over"     -> [turn EXCEPT !.scripts = CloseScript(@, event.seq)]
    [] event.kind = "usage"    -> [turn EXCEPT !.tokens = Account(@, event.reported)]
    [] event.kind = "finished" -> [turn EXCEPT !.status = event.status]
    [] OTHER                   -> turn

-------------------------------------------------------------------------------
(* Fault: routes to the first turn still running. *)
FirstRunning(transcript) ==
  SelectInSeq(transcript, LAMBDA turn : turn.status = "running")

(* The turn that accepts events, 0 if none: the latest still running. *)
RunningTurn(transcript) ==
  SelectLastInSeq(transcript, LAMBDA turn : turn.status = "running")

(* Events with no open turn are dropped. *)
Absorb(transcript, event) ==
  LET i == RunningTurn(transcript)
  IN  IF i = 0 THEN transcript ELSE [transcript EXCEPT ![i] = Fold(@, event)]

OpenTurn(transcript, prompt) == Append(transcript, Opened(prompt))

(* The last `remembered` turns, or all of them, are inside the window. *)
MarkReplayWindow(transcript, remembered) ==
  [i \in DOMAIN transcript |->
     [transcript[i] EXCEPT !.window = i + remembered > Len(transcript)]]

MarkStop(transcript) ==
  LET i == RunningTurn(transcript)
  IN  IF i = 0 THEN transcript ELSE [transcript EXCEPT ![i].stop = TRUE]

(* App::calls: every call in document order, as <<turn, script, call>>. *)
CallsOfTurn(transcript, t) ==
  FlattenSeq([s \in 1 .. Len(transcript[t].scripts) |->
                [c \in 1 .. Len(transcript[t].scripts[s].calls) |-> <<t, s, c>>]])
Calls(transcript) ==
  FlattenSeq([t \in 1 .. Len(transcript) |-> CallsOfTurn(transcript, t)])
CallAt(transcript, target) ==
  transcript[target[1]].scripts[target[2]].calls[target[3]]
===============================================================================
