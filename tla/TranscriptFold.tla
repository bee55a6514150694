----------------------------- MODULE TranscriptFold ---------------------------
(***************************************************************************)
(* The transcript fed with any order of prompts and session events, as its *)
(* public operations allow and its tests do: events before any prompt,     *)
(* calls with no script, finishes of scripts nobody started, two turns     *)
(* open at once because the worker of the first died.                      *)
(***************************************************************************)
EXTENDS FiniteSets, Transcript

CONSTANTS
  Events,    (* the session events that may arrive                          *)
  MaxTurns,  (* bound: prompts                                              *)
  MaxEvents  (* bound: events                                               *)

VARIABLES
  transcript, (* App::transcript                                            *)
  unclosed,   (* history variable: turns whose end has not been fed, a stack *)
  fed         (* history variable: per turn, the events fed while it was    *)
              (* the latest unclosed one                                    *)
vars == <<transcript, unclosed, fed>>

(* The events a session may send: an ordinal, the end of a session, or what *)
(* the provider reported of a response, of which any part may be missing.  *)
Option(S) == {s \in Seq(S) : Len(s) <= 1}
Event ==
  [kind : {"started", "call", "over"}, seq : Nat]
    \cup [kind : {"finished"}, status : STRING \ {"running"}]
    \cup [kind : {"usage"}, reported : Option([input : Option(Nat), output : Option(Nat)])]

Total(s) == FoldSeq(LAMBDA a, b : a + b, 0, s)

Init == transcript = <<>> /\ unclosed = <<>> /\ fed = <<>>

Ask ==
  /\ Len(transcript) < MaxTurns
  /\ transcript' = OpenTurn(transcript, Len(transcript) + 1)
  /\ unclosed' = Append(unclosed, Len(transcript) + 1)
  /\ fed' = Append(fed, <<>>)

Feed(event) ==
  /\ Total([i \in DOMAIN fed |-> Len(fed[i])]) < MaxEvents
  /\ transcript' = Absorb(transcript, event)
  /\ IF unclosed = <<>>
     THEN UNCHANGED <<unclosed, fed>>
     ELSE /\ fed' = [fed EXCEPT ![Last(unclosed)] = Append(@, event)]
          /\ unclosed' = IF event.kind = "finished" THEN Front(unclosed) ELSE unclosed

Quiet == UNCHANGED vars

Next == Ask \/ (\E event \in Events : Feed(event)) \/ Quiet
Spec == Init /\ [][Next]_vars
-------------------------------------------------------------------------------
(* A call that really happened never vanishes from the view: every call    *)
(* fed while a turn is open is in that turn once, whether or not a script  *)
(* was open, nothing else is, and within one script the calls are in the   *)
(* order they were fed in (Turn::absorb), the order it happened in that    *)
(* SessionEvent documents: a call is fed when it is answered, so that this *)
(* is not ScriptNode's order of dispatch (CallsInDispatchOrder).           *)
CallsFed(events) == {k \in DOMAIN events : events[k].kind = "call"}
CallsShown(turn) == UNION {{s} \X DOMAIN turn.scripts[s].calls : s \in DOMAIN turn.scripts}
ShowsCalls(turn, events) ==
  \E spot \in [CallsFed(events) -> CallsShown(turn)] :
    /\ \A at \in CallsShown(turn) : \E k \in CallsFed(events) : spot[k] = at
    /\ \A k \in CallsFed(events) :
         turn.scripts[spot[k][1]].calls[spot[k][2]] = events[k].seq
    /\ \A k, l \in CallsFed(events) :
         k < l => spot[k][1] # spot[l][1] \/ spot[k][2] < spot[l][2]

(* The token line is what the provider reported: a sum is None exactly     *)
(* when no response reported that count, which is not zero, and responses  *)
(* that reported neither are counted apart.                                *)
Reporting(events, count) ==
  {k \in DOMAIN events : /\ events[k].kind = "usage" /\ events[k].reported # <<>>
                         /\ events[k].reported[1][count] # <<>>}
Amounts(events, count) ==
  [k \in DOMAIN events |->
     IF k \in Reporting(events, count) THEN events[k].reported[1][count][1] ELSE 0]
SumOf(amounts) ==
  LET sum[k \in 0 .. Len(amounts)] == IF k = 0 THEN 0 ELSE sum[k - 1] + amounts[k]
  IN  sum[Len(amounts)]
Silent(events) ==
  {k \in DOMAIN events : events[k].kind = "usage"}
    \ (Reporting(events, "input") \cup Reporting(events, "output"))
ShowsUsage(turn, events) ==
  /\ \A count \in {"input", "output"} :
       turn.tokens[count] = IF Reporting(events, count) = {} THEN <<>>
                            ELSE <<SumOf(Amounts(events, count))>>
  /\ turn.tokens.unreported = Cardinality(Silent(events))

(* Both: the view loses nothing of what a session reported.                *)
NothingReportedIsLost ==
  \A i \in DOMAIN transcript :
    ShowsCalls(transcript[i], fed[i]) /\ ShowsUsage(transcript[i], fed[i])
===============================================================================
