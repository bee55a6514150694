--------------------------------- MODULE Parts ---------------------------------
(***************************************************************************)
(* The parts of the program that share no state with each other, side by   *)
(* side: the initial state picks one part of Explored and only that part   *)
(* runs, so that their states add up and do not multiply.                  *)
(***************************************************************************)
EXTENDS Naturals, Sequences, FiniteSets

CONSTANTS
  Explored,                                   (* the parts that may be picked *)
  MaxOutput, MarkerLen, MaxTextLines,         (* ResultText                   *)
  MaxLine, MaxStream, Buffer,                 (* LineReader                   *)
  MaxScanned,                                 (* CredentialRuns               *)
  Sizes, None, ScrollMax, MaxLength, ReportLines, (* ShellPager               *)
  Payloads, MaxCalls,                         (* Redaction                    *)
  Catalog, NoAgent, NoProfile, ProfileOf, Errors, MaxLegs, (* Reports          *)
  Events, MaxTurns, MaxEvents                 (* TranscriptFold               *)

VARIABLES part,
  outcome, todo, remaining, body, cut, place,
  sent, stream, available, bytes, lines, ending,
  argument, at, previous, output,
  pass, size, viewport, length, top, mode, scroll, frame,
  entered, calls, selected, expanded, revealed,
  loop, highlighted, session, profile, trace, running, pending, entry, last, legs, attempt,
  transcript, unclosed, fed

resultsVars == <<outcome, todo, remaining, body, cut, place>>
linesVars == <<sent, stream, available, bytes, lines, ending>>
credentialsVars == <<argument, at, previous, output>>
pagerVars == <<pass, size, viewport, length, top, mode, scroll, frame>>
revealsVars == <<entered, calls, selected, expanded, revealed>>
toldVars == <<loop, highlighted, session, profile, trace, running, pending, entry, last,
              legs, attempt>>
foldedVars == <<transcript, unclosed, fed>>
vars == <<part, resultsVars, linesVars, credentialsVars, pagerVars, revealsVars, toldVars,
          foldedVars>>

-------------------------------------------------------------------------------
Results == INSTANCE ResultText
Lines == INSTANCE LineReader
Scan == INSTANCE CredentialRuns
Pager == INSTANCE ShellPager
Reveals == INSTANCE Redaction
Told == INSTANCE Reports
Folded == INSTANCE TranscriptFold

(* A terminal has some size, an offset is not None, a payload is a JSON     *)
(* tree, and an error has at least itself to tell of.                      *)
ASSUME PartsAssumption ==
  /\ MaxOutput \in Nat /\ MaxLine \in Nat /\ MaxStream \in Nat
  /\ MaxLength \in Nat \ {0} /\ ReportLines \in Nat /\ ScrollMax \in Nat
  /\ Sizes \subseteq [narrow : BOOLEAN, height : Nat] /\ None \notin Nat
  /\ \A payload \in Payloads : Reveals!IsTree(payload) /\ IsFiniteSet(DOMAIN payload)
  /\ Errors \subseteq Seq([text : Seq(STRING), refusal : Seq(STRING)]) \ {<<>>}
  /\ Events \subseteq Folded!Event

(* The parts that are not picked stay in one of their initial states. *)
Init ==
  /\ part \in Explored
  /\ part = "results" \/ outcome = <<[form |-> "plain", chars |-> 0, width |-> 1]>>
  /\ part = "lines" \/ sent = <<>>
  /\ part = "credentials" \/ argument = <<>>
  /\ part = "pager" \/ size = CHOOSE s \in Sizes : TRUE
  /\ part = "told" \/ highlighted = CHOOSE agent \in Catalog : TRUE
  /\ Results!Init /\ Lines!Init /\ Scan!Init /\ Pager!Init
  /\ Reveals!Init /\ Told!Init /\ Folded!Init

OnlyPart(name) ==
  /\ part = name /\ UNCHANGED part
  /\ name # "results" => UNCHANGED resultsVars
  /\ name # "lines" => UNCHANGED linesVars
  /\ name # "credentials" => UNCHANGED credentialsVars
  /\ name # "pager" => UNCHANGED pagerVars
  /\ name # "reveals" => UNCHANGED revealsVars
  /\ name # "told" => UNCHANGED toldVars
  /\ name # "folded" => UNCHANGED foldedVars

Next ==
  \/ OnlyPart("results") /\ Results!Next
  \/ OnlyPart("lines") /\ Lines!Next
  \/ OnlyPart("credentials") /\ Scan!Next
  \/ OnlyPart("pager") /\ Pager!Next
  \/ OnlyPart("reveals") /\ Reveals!Next
  \/ OnlyPart("told") /\ Told!Next
  \/ OnlyPart("folded") /\ Folded!Next

Spec == Init /\ [][Next]_vars
-------------------------------------------------------------------------------
(* The properties of each part, stated and explained in its module.        *)

(* No line of a result begins like a frame marker (ResultText).            *)
NoForgedFrame == Results!NoForgedFrame

(* The limit of a result holds, and a cut is noted (ResultText).           *)
LimitCutsHonestly == Results!LimitCutsHonestly

(* README: output is bounded to 64 KiB per result (ResultText).            *)
BytesBounded == Results!BytesBounded

(* The same lines however the stream is cut into chunks (LineReader).      *)
ChunkingIsInvisible == Lines!ChunkingIsInvisible

(* The credentials of a text are hidden, and nothing else (CredentialRuns).*)
ExactlyCredentialsHidden == Scan!ExactlyCredentialsHidden

(* Where the end of the transcript and of a report is shown (ShellPager).  *)
EndIsShown == Pager!EndIsShown

(* chrome.rs: how far the error pane can scroll (ShellPager).              *)
ReportReachable == Pager!ReportReachable

(* Only the reader moves the reader (ShellPager).                          *)
ReaderKeepsPlace == Pager!ReaderKeepsPlace

(* Only a keystroke against its call uncovers a secret (Redaction).        *)
SecretsStayCovered == Reveals!SecretsStayCovered

(* app.rs: one field per keystroke (Redaction).                            *)
OneFieldPerKeystroke == Reveals!OneFieldPerKeystroke

(* A keystroke uncovers what reads as the next field's path (Redaction).   *)
OnePathPerKeystroke == Reveals!OnePathPerKeystroke

(* A report is about who and what it says it is about (Reports).           *)
ReportNamesTheAttempt == Told!ReportNamesTheAttempt

(* A report leaves out no cause and no refusal (Reports).                  *)
NothingUntold == Told!NothingUntold

(* Every call and every token count reported is shown (TranscriptFold).    *)
NothingReportedIsLost == Folded!NothingReportedIsLost
===============================================================================
