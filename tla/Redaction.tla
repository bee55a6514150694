------------------------------ MODULE Redaction -------------------------------
(***************************************************************************)
(* Hiding secrets in the payloads of capability calls, and uncovering them *)
(* one keystroke at a time.  A payload is a JSON tree, written as a         *)
(* function from the place of each value, the steps that lead to it from    *)
(* the root, to what it is:                                                 *)
(*   kind    "text", "number", "null", "object" or "array";                *)
(*   looks   does the text look like a credential (CredentialRuns says     *)
(*           which do)?                                                    *)
(*   name    the key or index it sits under, split at its dots: a dotted   *)
(*           path is the sequence of its segments, the empty path, or the  *)
(*           empty key, one empty segment;                                 *)
(*   secret  does that key name a secret?                                  *)
(*                                                                         *)
(* A call is named by its place in document order (CursorStable of         *)
(* ModelTurn: that place never changes); only its input is a payload.      *)
(* Nothing in ui/ draws payloads yet: Exposed is what a pane drawing       *)
(* `redact` less the revealed fields shows, as src/README.md describes.    *)
(***************************************************************************)
EXTENDS Naturals, Sequences, FiniteSets, SequencesExt

CONSTANTS
  Payloads,   (* what scripts may propose                                   *)
  MaxCalls    (* bound: calls of one conversation                           *)

VARIABLES
  entered,    (* App::session: is an agent entered?                         *)
  calls,      (* App::calls and their inputs, in document order             *)
  selected,   (* App::selected_call, counted from 1                         *)
  expanded,   (* App::expanded_call: at most one call                       *)
  revealed    (* App::revealed                                              *)
vars == <<entered, calls, selected, expanded, revealed>>

-------------------------------------------------------------------------------
(* The places of the values that the one at this place lies in. *)
Above(at) == {SubSeq(at, 1, i) : i \in 0 .. Len(at) - 1}

(* Only objects and arrays hold other values, only texts look like          *)
(* credentials, and no key leads to the root.                              *)
IsTree(payload) ==
  /\ <<>> \in DOMAIN payload /\ ~payload[<<>>].secret
  /\ \A at \in DOMAIN payload :
       /\ at \in Seq(Nat)
       /\ payload[at].looks => payload[at].kind = "text"
       /\ \A up \in Above(at) : up \in DOMAIN payload /\ payload[up].kind \in {"object", "array"}

EmptyPath == <<"">>
Dotted(path, name) == IF path = EmptyPath THEN name ELSE path \o name
PathOf(payload, at) ==
  FoldLeft(Dotted, EmptyPath, [i \in DOMAIN at |-> payload[SubSeq(at, 1, i)].name])

(* Whether a value is replaced by a marker as a whole, or in its credential *)
(* runs.                                                                   *)
Hides(value) ==
  IF value.kind = "text" THEN value.secret \/ value.looks
  ELSE value.secret /\ value.kind # "null"

(* Every redaction of a payload: its dotted path and, to tell fields apart, *)
(* where it really is.  Nothing is looked for inside a hidden value.       *)
Redactions(payload) ==
  {[path |-> PathOf(payload, at), at |-> at] :
     at \in {p \in DOMAIN payload :
              Hides(payload[p]) /\ \A up \in Above(p) : ~Hides(payload[up])}}

(* Document order, of places neither of which lies in the other. *)
Before(a, b) ==
  \E i \in DOMAIN a \cap DOMAIN b : a[i] < b[i] /\ SubSeq(a, 1, i - 1) = SubSeq(b, 1, i - 1)
FirstOf(fields) == CHOOSE r \in fields : \A s \in fields \ {r} : Before(r.at, s.at)

IsRevealed(call, path) ==
  \E i \in DOMAIN revealed : revealed[i] = [call |-> call, path |-> path]

-------------------------------------------------------------------------------
Init ==
  entered = FALSE /\ calls = <<>> /\ selected = 1 /\ expanded = {} /\ revealed = <<>>

(* Fault: what was revealed of the last conversation stays revealed. *)
EnterKeepsReveals ==
  /\ entered' = TRUE /\ calls' = <<>> /\ selected' = 1 /\ expanded' = {}
  /\ UNCHANGED revealed

Enter ==
  /\ entered' = TRUE /\ calls' = <<>> /\ selected' = 1 /\ expanded' = {}
  /\ revealed' = <<>>

(* A hop that is refused has closed the session (clear_agent_context). *)
EntryDenied ==
  /\ entered' = FALSE /\ calls' = <<>>
  /\ UNCHANGED <<selected, expanded, revealed>>

(* A call of a running turn is folded into the transcript. *)
CallReturns(payload) ==
  /\ entered
  /\ Len(calls) < MaxCalls
  /\ calls' = Append(calls, payload)
  /\ UNCHANGED <<entered, selected, expanded, revealed>>

(* The cursor is a public field that any caller may set. *)
MoveCursor(n) ==
  /\ selected' = n
  /\ UNCHANGED <<entered, calls, expanded, revealed>>

CursorCall == {selected} \cap DOMAIN calls

ToggleCursorCall ==
  /\ CursorCall # {}
  /\ expanded' = IF expanded = CursorCall THEN {} ELSE CursorCall
  /\ UNCHANGED <<entered, calls, selected, revealed>>

Hidden(call) == {r \in Redactions(calls[call]) : ~IsRevealed(call, r.path)}

(* Fault: the last hidden field. *)
RevealLast ==
  /\ \E call \in CursorCall : \E r \in Hidden(call) :
       /\ \A s \in Hidden(call) \ {r} : Before(s.at, r.at)
       /\ revealed' = Append(revealed, [call |-> call, path |-> r.path])
  /\ UNCHANGED <<entered, calls, selected, expanded>>

(* The first field of the call under the cursor that is still hidden. *)
RevealNext ==
  /\ \E call \in CursorCall :
       /\ Hidden(call) # {}
       /\ revealed' = Append(revealed, [call |-> call, path |-> FirstOf(Hidden(call)).path])
  /\ UNCHANGED <<entered, calls, selected, expanded>>

Next ==
  \/ Enter
  \/ EntryDenied
  \/ \E payload \in Payloads : CallReturns(payload)
  \/ \E n \in 1 .. MaxCalls : MoveCursor(n)
  \/ ToggleCursorCall
  \/ RevealNext

Spec == Init /\ [][Next]_vars
-------------------------------------------------------------------------------
(* The places of a payload that hold a secret, whatever `walk` finds: a    *)
(* value that is not null with a secret key among those leading to it, and *)
(* a text that looks like a credential.                                    *)
SecretsOf(payload) ==
  {at \in DOMAIN payload :
     /\ payload[at].kind # "null"
     /\ payload[at].looks \/ \E up \in Above(at) \cup {at} : payload[up].secret}

Uncovered ==
  UNION {{[call |-> c, at |-> r.at] :
            r \in {x \in Redactions(calls[c]) : IsRevealed(c, x.path)}}
         : c \in DOMAIN calls}

(* The secrets that can be read: no redaction still covers them. *)
Covers(r, at) == r.at \in Above(at) \cup {at}
Exposed ==
  UNION {{[call |-> c, at |-> at] :
            at \in {s \in SecretsOf(calls[c]) :
                      \A r \in Redactions(calls[c]) : Covers(r, s) => IsRevealed(c, r.path)}}
         : c \in DOMAIN calls}

(* A secret becomes readable only by a keystroke against the call it is    *)
(* in: not as its result arrives, by a hop, by expanding or by moving, and *)
(* not by a keystroke against another call (redact.rs walk, App::reveal).  *)
SecretsStayCovered ==
  [][\A s \in Exposed' \ Exposed :
       s.call \in CursorCall /\ calls' = calls /\ revealed' # revealed]_vars

(* Redactions nothing uncovers yet, and the first of a call's in document  *)
(* order.                                                                  *)
StillCovered(call) ==
  {r \in Redactions(calls[call]) : [call |-> call, at |-> r.at] \notin Uncovered}
FirstCovered(call) == FirstOf(StillCovered(call))

(* App::reveal_next documents one field per keystroke, in document order,  *)
(* and RevealedField a field identified precisely enough that a keystroke  *)
(* is against one field.                                                   *)
OneFieldPerKeystroke ==
  [][Len(revealed') > Len(revealed) =>
       Uncovered' = Uncovered \cup {[call |-> c, at |-> FirstCovered(c).at] : c \in CursorCall}]_vars

(* What a keystroke does uncover: of the call under the cursor and of no   *)
(* other, the first field it still hides, so that no keystroke is without  *)
(* effect, and with it the fields that read as the same dotted path, which *)
(* RevealedField cannot tell from it: those under a key with a dot in it   *)
(* or under an empty one (redact.rs walk).                                 *)
AtThePathOf(call, first) ==
  {[call |-> call, at |-> r.at] : r \in {s \in Redactions(calls[call]) : s.path = first.path}}

OnePathPerKeystroke ==
  [][Len(revealed') > Len(revealed) =>
       Uncovered' = Uncovered \cup UNION {AtThePathOf(c, FirstCovered(c)) : c \in CursorCall}]_vars
===============================================================================
