------------------------------- MODULE Reports --------------------------------
(***************************************************************************)
(* What the console says of a failure: the error and all its causes, the   *)
(* broker's refusal, and the identity and broker trace it fills in from    *)
(* the state it finds when the failure is reported, which may be long      *)
(* after the attempt began.                                                *)
(*                                                                         *)
(* A trace is the number of the leg it belongs to.  Which hops are let in, *)
(* and as whom, is in Profiles; here an agent has a profile or none.  A    *)
(* model turn that has finished frees the console before it is joined      *)
(* (ModelTurn); nothing is reported in between, so that here it has ended. *)
(***************************************************************************)
EXTENDS Naturals, Sequences, SequencesExt

CONSTANTS
  Catalog,    (* agents of the catalog                                      *)
  NoAgent,    (* no session is open                                         *)
  NoProfile,  (* "subject-only"                                             *)
  ProfileOf,  (* the authored profile of an agent, or NoProfile for none    *)
  Errors,     (* what the broker, the model client, a task or the console   *)
              (* itself fails with                                          *)
  MaxLegs     (* bound: broker legs opened                                  *)

VARIABLES
  loop,        (* "select", or what the loop awaits: "hop", "turn", "shell" *)
  highlighted, (* the agent under App::selected_agent                       *)
  session,     (* App::session's agent, or NoAgent                          *)
  profile,     (* App::profile                                              *)
  trace,       (* App::broker_trace: at most one leg                        *)
  running,     (* the RunningTurn's kind, or "none"                         *)
  pending,     (* has the last shell entry no exit code?                    *)
  entry,       (* the report last written into a shell entry, if any        *)
  last,        (* App::last_error, if any                                   *)
  legs,        (* legs opened so far                                        *)
  attempt      (* history variable: the latest hop, turn or command: whose  *)
               (* it was, and the legs opened before this entry             *)
vars == <<loop, highlighted, session, profile, trace, running, pending, entry,
          last, legs, attempt>>

-------------------------------------------------------------------------------
(* The error.  A link of its source chain has a text, a sequence of words, *)
(* and the wire refusal found in it, if any.                               *)

(* Fault: a cause that repeats its parent ends the chain. *)
ChainToRepeat(error) ==
  LET known == {i \in 2 .. Len(error) : IsSuffix(error[i].text, error[i - 1].text)}
      upto  == IF known = {} THEN Len(error) ELSE (CHOOSE i \in known : \A j \in known : i <= j) - 1
  IN  FlattenSeq([i \in 1 .. upto |-> error[i].text])

(* Every text of the chain, less those the text so far already ends with. *)
Chain(error) ==
  LET told[i \in 1 .. Len(error)] ==
        IF i = 1 THEN error[1].text
        ELSE IF IsSuffix(error[i].text, told[i - 1]) THEN told[i - 1]
        ELSE told[i - 1] \o error[i].text
  IN  told[Len(error)]

(* The first wire refusal along the chain. *)
BrokerRefusal(error) ==
  LET i == SelectInSeq(error, LAMBDA link : link.refusal # <<>>)
  IN  IF i = 0 THEN <<>> ELSE error[i].refusal

FromError(error) ==
  [error |-> Chain(error),
   refusal |-> BrokerRefusal(error),
   facts |-> <<>>, of |-> attempt, cause |-> error]

(* App::report: who attempted it, and through what. *)
Filled(report) ==
  [report EXCEPT !.facts = Append(@,
     [agent |-> IF session = NoAgent THEN highlighted ELSE session,
      profile |-> profile,
      trace |-> trace])]

-------------------------------------------------------------------------------
Init ==
  /\ loop = "select" /\ highlighted \in Catalog
  /\ session = NoAgent /\ profile = NoProfile /\ trace = <<>>
  /\ running = "none" /\ pending = FALSE
  /\ entry = <<>> /\ last = <<>> /\ legs = 0
  /\ attempt = [agent |-> NoAgent, profile |-> NoProfile, since |-> 0]

Busy == running # "none"

MoveSelection(agent) ==
  /\ loop = "select"
  /\ highlighted' = agent
  /\ UNCHANGED <<loop, session, profile, trace, running, pending, entry, last, legs, attempt>>

(* Fault: the session left behind is open until the leg is. *)
HopKeepsSession ==
  /\ loop = "select" /\ ~Busy
  /\ profile' = IF ProfileOf[highlighted] = NoProfile THEN profile ELSE ProfileOf[highlighted]
  /\ trace' = <<>> /\ pending' = FALSE /\ entry' = <<>>
  /\ attempt' = [agent |-> highlighted, profile |-> profile', since |-> legs]
  /\ loop' = "hop"
  /\ UNCHANGED <<highlighted, running, last, legs, session>>

(* Enter: the profile first, then clear_agent_context, then the leg. *)
Hop ==
  /\ loop = "select" /\ ~Busy
  /\ profile' = IF ProfileOf[highlighted] = NoProfile THEN profile ELSE ProfileOf[highlighted]
  /\ session' = NoAgent /\ trace' = <<>> /\ pending' = FALSE /\ entry' = <<>>
  /\ attempt' = [agent |-> highlighted, profile |-> profile', since |-> legs]
  /\ loop' = "hop"
  /\ UNCHANGED <<highlighted, running, last, legs>>

HopGranted ==
  /\ loop = "hop" /\ legs < MaxLegs
  /\ legs' = legs + 1 /\ trace' = <<legs + 1>>
  /\ session' = highlighted
  /\ loop' = "select"
  /\ UNCHANGED <<highlighted, profile, running, pending, entry, last, attempt>>

(* empty_surface, which no error explains, or session_refusal. *)
HopDenied(error) ==
  /\ loop = "hop"
  /\ last' = <<Filled(FromError(error))>>
  /\ loop' = "select"
  /\ UNCHANGED <<highlighted, session, profile, trace, running, pending, entry, legs, attempt>>

(* A turn or a command of the open session asks for a leg of its own. *)
Submit(kind) ==
  /\ loop = "select" /\ ~Busy /\ session # NoAgent
  /\ attempt' = [agent |-> session, profile |-> profile,
                 since |-> attempt.since]
  /\ pending' = IF kind = "shell" THEN TRUE ELSE pending
  /\ loop' = kind
  /\ UNCHANGED <<highlighted, session, profile, trace, running, entry, last, legs>>

(* The leg is there and so is the model client, and the task is spawned. *)
Spawned ==
  /\ loop \in {"turn", "shell"} /\ legs < MaxLegs
  /\ legs' = legs + 1 /\ trace' = <<legs + 1>>
  /\ running' = loop
  /\ loop' = "select"
  /\ UNCHANGED <<highlighted, session, profile, pending, entry, last, attempt>>

(* The leg is there, and build_model refuses. *)
ModelRefused(error) ==
  /\ loop = "turn" /\ legs < MaxLegs
  /\ legs' = legs + 1 /\ trace' = <<legs + 1>>
  /\ last' = <<[Filled(FromError(error)) EXCEPT !.facts[1].trace = <<legs + 1>>]>>
  /\ loop' = "select"
  /\ UNCHANGED <<highlighted, session, profile, running, pending, entry, attempt>>

TurnDenied(error) ==
  /\ loop = "turn"
  /\ last' = <<Filled(FromError(error))>>
  /\ loop' = "select"
  /\ UNCHANGED <<highlighted, session, profile, trace, running, pending, entry, legs, attempt>>

(* fail_shell: fills the report in, the second time if it comes filled. *)
FailShell(report) ==
  /\ last' = <<Filled(report)>>
  /\ entry' = IF pending THEN <<Filled(report)>> ELSE entry
  /\ pending' = FALSE

ShellDenied(error) ==
  /\ loop = "shell"
  /\ FailShell(Filled(FromError(error)))
  /\ loop' = "select"
  /\ UNCHANGED <<highlighted, session, profile, trace, running, legs, attempt>>

OutcomeReceived ==
  /\ loop = "select" /\ running = "shell" /\ pending
  /\ pending' = FALSE
  /\ UNCHANGED <<loop, highlighted, session, profile, trace, running, entry, last, legs, attempt>>

(* settle_turn, with its task's history or without it. *)
TurnEnds ==
  /\ loop = "select" /\ Busy
  /\ running = "shell" => ~pending
  /\ running' = "none"
  /\ UNCHANGED <<loop, highlighted, session, profile, trace, pending, entry, last, legs, attempt>>

TurnDies(error) ==
  /\ loop = "select" /\ Busy
  /\ running' = "none"
  /\ IF running = "shell"
     THEN FailShell(FromError(error))
     ELSE last' = <<Filled(FromError(error))>> /\ UNCHANGED <<entry, pending>>
  /\ UNCHANGED <<loop, highlighted, session, profile, trace, legs, attempt>>

Next ==
  \/ \E agent \in Catalog : MoveSelection(agent)
  \/ Hop
  \/ HopGranted
  \/ \E kind \in {"turn", "shell"} : Submit(kind)
  \/ Spawned
  \/ OutcomeReceived
  \/ TurnEnds
  \/ \E error \in Errors :
       \/ HopDenied(error)
       \/ ModelRefused(error)
       \/ TurnDenied(error)
       \/ ShellDenied(error)
       \/ TurnDies(error)

Spec == Init /\ [][Next]_vars
-------------------------------------------------------------------------------
Written == ToSet(last) \cup ToSet(entry)

(* A report names who attempted what it is about, wherever the highlight   *)
(* moved while a task ran, and although a refused hop has no session; a    *)
(* trace in it is of a leg opened for the entry it is about, never of an   *)
(* agent left behind (App::report, clear_agent_context).                   *)
ReportNamesTheAttempt ==
  \A report \in Written : \A i \in DOMAIN report.facts :
    /\ report.facts[i].agent = report.of.agent
    /\ report.facts[i].profile = report.of.profile
    /\ \A leg \in ToSet(report.facts[i].trace) : leg > report.of.since

ReadsIn(text, part) ==
  \E i \in 0 .. Len(text) - Len(part) : SubSeq(text, i + 1, i + Len(part)) = part

(* No cause is lost (report.rs chain); a refusal of the broker is told     *)
(* verbatim however deep it lies, and none is made up (broker_refusal).    *)
NothingUntold ==
  \A report \in Written :
    /\ \A i \in DOMAIN report.cause : ReadsIn(report.error, report.cause[i].text)
    /\ IF \A i \in DOMAIN report.cause : report.cause[i].refusal = <<>>
       THEN report.refusal = <<>>
       ELSE \E i \in DOMAIN report.cause :
              report.refusal = report.cause[i].refusal /\ report.refusal # <<>>
===============================================================================
