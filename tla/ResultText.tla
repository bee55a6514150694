------------------------------ MODULE ResultText ------------------------------
(***************************************************************************)
(* write_result: one RESULT frame of the structured transport, its text    *)
(* written line by line to a client that finds the frames by their nonce.  *)
(*                                                                         *)
(* A line is what the writer tells apart: how many characters it has,      *)
(* whether they take one byte or three (U+FFFD stands for each control     *)
(* character removed), and whether it begins like a frame marker as it     *)
(* stands ("marker"), only once a tab in it has become a space ("tabbed"), *)
(* or not at all ("plain").                                                *)
(***************************************************************************)
EXTENDS Integers, Sequences, SequencesExt

CONSTANTS
  MaxOutput,   (* MAX_OUTPUT, in characters                                 *)
  MarkerLen,   (* characters of the shortest marker: a word and the nonce   *)
  MaxTextLines (* bound: lines of a text                                    *)

VARIABLES
  outcome,   (* the outcome's lines, `text.split('\n')`                     *)
  todo,      (* lines not written yet                                       *)
  remaining, (* characters left of MAX_OUTPUT                               *)
  body,      (* lines written between RESULT and END                        *)
  cut,       (* "[output truncated]" was written                            *)
  place      (* "lines", then "ended", or "gone" if the client went away    *)
vars == <<outcome, todo, remaining, body, cut, place>>

-------------------------------------------------------------------------------
Line == {line \in [form : {"plain", "marker", "tabbed"}, chars : 0 .. MaxOutput + 1,
                   width : {1, 3}] :
           /\ line.form # "plain" => line.chars >= MarkerLen
           /\ line.chars = 0 => line.width = 1}

(* sanitize_line: a tab becomes a space, a control character U+FFFD. *)
Sanitize(line) ==
  [line EXCEPT !.form = IF @ = "tabbed" THEN "marker" ELSE @]

(* Fault: looks for markers before the line is sanitised. *)
EscapeFirst(line) ==
  IF line.form = "marker"
  THEN [line EXCEPT !.form = "plain", !.chars = @ + 2]
  ELSE Sanitize(line)

(* The sanitised line, behind "> " if it begins like a marker. *)
Escape(line) ==
  LET safe == Sanitize(line)
  IN  IF safe.form = "marker"
      THEN [safe EXCEPT !.form = "plain", !.chars = @ + 2]
      ELSE safe

(* The first n characters; a cut marker is a marker no more. *)
Clip(line, n) ==
  IF line.chars <= n THEN line
  ELSE [line EXCEPT !.chars = n, !.form = IF n < MarkerLen THEN "plain" ELSE @]

Init ==
  /\ \E n \in 1 .. MaxTextLines : outcome \in [1 .. n -> Line]
  /\ todo = outcome /\ remaining = MaxOutput
  /\ body = <<>> /\ cut = FALSE /\ place = "lines"

WriteLine ==
  /\ place = "lines" /\ todo # <<>> /\ remaining > 0
  /\ LET line == Clip(Escape(Head(todo)), remaining)
     IN  /\ body' = Append(body, line)
         /\ remaining' = remaining - line.chars
  /\ todo' = Tail(todo)
  /\ UNCHANGED <<outcome, cut, place>>

(* Fault: the note is only written when whole lines are left over. *)
CloseIfLinesLeft ==
  /\ place = "lines" /\ (todo = <<>> \/ remaining = 0)
  /\ place' = "ended"
  /\ cut' = (todo # <<>>)
  /\ UNCHANGED <<outcome, todo, remaining, body>>

(* Every line is written, or the limit is reached: the note, and END. *)
Close ==
  /\ place = "lines" /\ (todo = <<>> \/ remaining = 0)
  /\ place' = "ended"
  /\ cut' = (remaining = 0)
  /\ UNCHANGED <<outcome, todo, remaining, body>>

(* A write fails: the session ends with what was written so far. *)
ClientGone ==
  /\ place = "lines"
  /\ place' = "gone"
  /\ UNCHANGED <<outcome, todo, remaining, body, cut>>

Terminated == place # "lines" /\ UNCHANGED vars

Next == WriteLine \/ Close \/ ClientGone \/ Terminated
Spec == Init /\ [][Next]_vars
-------------------------------------------------------------------------------
CharsUpto[i \in 0 .. Len(body)] == IF i = 0 THEN 0 ELSE CharsUpto[i - 1] + body[i].chars
Chars == CharsUpto[Len(body)]
Bytes == FoldSeq(LAMBDA line, n : n + line.chars * line.width + 1, 0, body)

(* A client finds the frames by the nonce: no line of a result begins like *)
(* a marker, whatever the script printed, tabs and cuts included.          *)
NoForgedFrame == \A i \in 1 .. Len(body) : body[i].form # "marker"

(* The text of a result has at most MAX_OUTPUT characters, what escaping   *)
(* adds included, and what is left of the limit is what was not written.   *)
CharsBounded == remaining >= 0 /\ Chars + remaining = MaxOutput

(* A client may take a result without the note for the whole text: every   *)
(* line is there in its length and order.                                  *)
CompleteUnlessNoted ==
  place = "ended" /\ ~cut =>
    /\ Len(body) = Len(outcome)
    /\ \A i \in 1 .. Len(outcome) : body[i] = Escape(outcome[i])

(* Both together, the limit of write_result: it holds, and what it cuts is *)
(* said to be cut.                                                         *)
LimitCutsHonestly == CharsBounded /\ CompleteUnlessNoted

(* README: output is bounded to 64 KiB per result.                         *)
BytesBounded == Bytes <= MaxOutput
===============================================================================
