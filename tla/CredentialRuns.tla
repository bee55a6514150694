---------------------------- MODULE CredentialRuns ----------------------------
(***************************************************************************)
(* redact_text: one pass over a text that replaces the credentials in it.  *)
(* A text is a sequence of separators, each one character, and of maximal  *)
(* runs of token characters between them.  A run is                        *)
(*   "scheme"   Bearer, Basic or Token, in any case;                       *)
(*   "short"    any other run below MIN_SECRET_LENGTH that has no           *)
(*              credential's shape;                                        *)
(*   "long"     one of at least that length without the shape;             *)
(*   "shaped"   one with a known prefix, or three long segments (a JWT),   *)
(*              which is never shorter than MIN_SECRET_LENGTH.             *)
(***************************************************************************)
EXTENDS Naturals, Sequences, SequencesExt

CONSTANT MaxScanned (* bound: runs and separators of a text *)

VARIABLES
  argument, (* the text                                                     *)
  at,       (* items scanned                                                *)
  previous, (* previous_run: none, or the run the pass came from            *)
  output    (* what has been written: items, or "marker"                    *)
vars == <<argument, at, previous, output>>

Runs == {"scheme", "short", "long", "shaped"}
Separators == {"space", "other"}

Items == Runs \cup Separators

(* Runs are maximal: no two are adjacent. *)
RunsAreMaximal(t) == \A i \in 1 .. Len(t) - 1 : t[i] \in Runs => t[i + 1] \in Separators

Init ==
  /\ \E n \in 0 .. MaxScanned : argument \in [1 .. n -> Items]
  /\ RunsAreMaximal(argument)
  /\ at = 0 /\ previous = "none" /\ output = <<>>

Item == argument[at + 1]

(* Fault: a comma or a quote leaves the scheme standing. *)
SeparatorKeepsPairing ==
  /\ at < Len(argument) /\ Item \in Separators
  /\ output' = Append(output, Item)
  /\ at' = at + 1
  /\ UNCHANGED <<argument, previous>>

(* Only white space keeps a scheme paired with the run after it. *)
Separator ==
  /\ at < Len(argument) /\ Item \in Separators
  /\ previous' = IF Item = "space" THEN previous ELSE "none"
  /\ output' = Append(output, Item)
  /\ at' = at + 1
  /\ UNCHANGED argument

Secret(run) == run = "shaped" \/ (previous = "scheme" /\ run = "long")

Run ==
  /\ at < Len(argument) /\ Item \in Runs
  /\ output' = Append(output, IF Secret(Item) THEN "marker" ELSE Item)
  /\ previous' = Item
  /\ at' = at + 1
  /\ UNCHANGED argument

Over == at = Len(argument) /\ UNCHANGED vars

Next == Separator \/ Run \/ Over
Spec == Init /\ [][Next]_vars
-------------------------------------------------------------------------------
(* What the pass promises, without its bookkeeping: a run is a credential  *)
(* by its shape, or because nothing but white space, and some, stands      *)
(* between it and a scheme word.                                           *)
Introduced(i) ==
  \E j \in 1 .. i - 1 :
    /\ argument[j] = "scheme"
    /\ \A k \in j + 1 .. i - 1 : argument[k] = "space"
Credential(i) == argument[i] = "shaped" \/ (argument[i] = "long" /\ Introduced(i))

(* Exactly the credentials are replaced, each where it stood, and the text *)
(* around them survives (redact_text).                                     *)
ExactlyCredentialsHidden ==
  output = [i \in 1 .. at |-> IF Credential(i) THEN "marker" ELSE argument[i]]
===============================================================================
