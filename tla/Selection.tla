------------------------------- MODULE Selection -------------------------------
(***************************************************************************)
(* Who the console acts as, with which model and bounds: what the command  *)
(* line and the authored profiles document decide at startup, and what     *)
(* each hop decides again from the same document.  Two pieces of code (the *)
(* binary's `execute` and the console's dispatch of Enter) resolve the     *)
(* same authored data; this module has them side by side.                  *)
(***************************************************************************)
EXTENDS SelectionInputs

VARIABLES
  doc,      (* the profiles document                                       *)
  cli,      (* the command line                                            *)
  phase,    (* where the console is, see Phases                            *)
  options,  (* subject, profile label, model, its source, steps, calls     *)
  hop       (* the last hop: its agent (0 if none), whether it was let in  *)

vars == <<doc, cli, phase, options, hop>>

-------------------------------------------------------------------------------
Phases == {"starting", "refused", "initial", "picking"}

(* An override wins over the profile, and the profile over the fallback. *)
Resolve(override, authored, none, fallback) ==
  IF override # none THEN override ELSE IF authored # none THEN authored ELSE fallback

ModelSource(override, authored) ==
  IF override # NoName THEN "CLI override"
  ELSE IF authored # NoName THEN "profile" ELSE "default"

(* Everything a profile decides. *)
FromProfile(line, p) ==
  [subject |-> p.subject, profile |-> p.name,
   model |-> Resolve(line.model, p.model, NoName, DefaultModel),
   source |-> ModelSource(line.model, p.model),
   steps |-> Resolve(line.steps, p.steps, 0, DefaultSteps),
   calls |-> Resolve(line.calls, p.calls, 0, DefaultCalls)]

(* Everything without one. *)
FromCommandLine(line) ==
  [subject |-> line.subject, profile |-> NoName,
   model |-> Resolve(line.model, NoName, NoName, DefaultModel),
   source |-> ModelSource(line.model, NoName),
   steps |-> Resolve(line.steps, 0, 0, DefaultSteps),
   calls |-> Resolve(line.calls, 0, 0, DefaultCalls)]

Config(d, line) == [profiles |-> d.profiles, fixed |-> line.profile]

-------------------------------------------------------------------------------
(* Startup: `execute`.                                                     *)

(* --profile, or the document's default when no --agent is given. *)
ChosenName(d, line) ==
  IF line.profile # NoName THEN line.profile
  ELSE IF line.agent = 0 THEN d.default ELSE NoName

Matching(d, line) ==
  IF line.agent = 0 THEN {} ELSE {p \in d.profiles : p.agent = line.agent}

(* The initial profile: at most one, once startup has not been refused. *)
Initial(d, line) ==
  LET named == {p \in d.profiles : p.name = ChosenName(d, line)}
  IN  IF named # {} \/ line.profile # NoName THEN named ELSE Matching(d, line)

UnknownProfile(d, line) ==
  line.profile # NoName /\ \A p \in d.profiles : p.name # line.profile

AmbiguousAgent(d, line) ==
  line.profile = NoName /\ \E p, q \in Matching(d, line) : p # q

SubjectWithProfiles(d, line) == line.subject # NoName /\ d.profiles # {}

BoundElsewhere(d, line) ==
  line.agent # 0 /\ \E p \in Initial(d, line) : p.agent # line.agent

NoSubject(d, line) == Initial(d, line) = {} /\ line.subject = NoName

UnknownAgent(d, line) ==
  \/ line.agent # 0 /\ line.agent \notin Agents
  \/ \E p \in d.profiles : p.agent \notin Agents

StructuredAgent(line) ==
  line.structured /\ line.agent = 0 /\ line.profile = NoName

StartRefused(d, line) ==
  \/ UnknownProfile(d, line) \/ AmbiguousAgent(d, line)
  \/ SubjectWithProfiles(d, line) \/ BoundElsewhere(d, line)
  \/ NoSubject(d, line) \/ UnknownAgent(d, line) \/ StructuredAgent(line)

(* What an accepted command line starts with. *)
StartOptions(d, line) ==
  IF Initial(d, line) = {} THEN FromCommandLine(line)
  ELSE FromProfile(line, CHOOSE p \in Initial(d, line) : TRUE)

(* The agent entered before the first frame.  A default profile's agent is *)
(* neither entered nor highlighted, only its identity is shown.            *)
InitialAgent(d, line) ==
  IF line.agent # 0 THEN line.agent
  ELSE IF line.profile # NoName
       THEN (CHOOSE p \in Initial(d, line) : TRUE).agent ELSE 0

-------------------------------------------------------------------------------
NoOptions == [subject |-> NoName, profile |-> NoName, model |-> NoName,
              source |-> "none", steps |-> 0, calls |-> 0]
NoHop == [agent |-> 0, accepted |-> FALSE]

Init ==
  /\ doc \in Documents /\ cli \in CommandLines
  /\ phase = "starting" /\ options = NoOptions /\ hop = NoHop

Start ==
  /\ phase = "starting"
  /\ IF StartRefused(doc, cli)
     THEN phase' = "refused" /\ UNCHANGED options
     ELSE /\ phase' = IF InitialAgent(doc, cli) # 0 THEN "initial" ELSE "picking"
          /\ options' = StartOptions(doc, cli)
  /\ UNCHANGED <<doc, cli, hop>>

(* Faults: a field the new profile leaves out keeps the old one's value;   *)
(* a hop with --profile takes any profile of the agent.                    *)
HopKeepsBounds(agent) ==
  IF Matches(Config(doc, cli), agent) = {} THEN options
  ELSE [FromProfile(cli, Chosen(Config(doc, cli), agent)) EXCEPT
          !.steps = Resolve(cli.steps, Chosen(Config(doc, cli), agent).steps, 0, options.steps)]
HopTakesFirst(agent) ==
  IF Matches(Config(doc, cli), agent) = {} THEN options
  ELSE FromProfile(cli, CHOOSE p \in Matches(Config(doc, cli), agent) : TRUE)

HopOptions(agent) ==
  IF Matches(Config(doc, cli), agent) = {} THEN options
  ELSE FromProfile(cli, Chosen(Config(doc, cli), agent))

(* Dispatch of Enter, up to the leg it opens: see Console. *)
Hop(agent) ==
  LET refused == HopRefused(Config(doc, cli), agent)
  IN  /\ options' = IF refused THEN options ELSE HopOptions(agent)
      /\ hop' = [agent |-> agent, accepted |-> ~refused]
      /\ phase' = "picking"
      /\ UNCHANGED <<doc, cli>>

EnterInitial == phase = "initial" /\ Hop(InitialAgent(doc, cli))

(* The picker: any agent of the catalog.  `--structured` has none. *)
Pick == phase = "picking" /\ ~cli.structured /\ \E agent \in Agents : Hop(agent)

(* Startup refused, or a session with no picker. *)
Ended ==
  /\ phase = "refused" \/ (phase = "picking" /\ cli.structured)
  /\ UNCHANGED vars

Next == Start \/ EnterInitial \/ Pick \/ Ended

Spec == Init /\ [][Next]_vars
-------------------------------------------------------------------------------
(* Entering an agent from the picker decides what restarting the console   *)
(* with --agent for it would: let in if and only if the restart is, and    *)
(* then as the same subject, with the same profile, model, source and      *)
(* bounds.  Nothing of a profile left earlier survives a hop, and nobody   *)
(* gets in through the picker who startup would turn away.                 *)
Restart == [cli EXCEPT !.agent = hop.agent]
HopIsRestart ==
  hop # NoHop =>
    /\ hop.accepted <=> ~StartRefused(doc, Restart)
    /\ hop.accepted => options = StartOptions(doc, Restart)

(* The agent startup selected is let in, as whom startup displayed: what   *)
(* the two pieces of code resolve from one command line agrees.            *)
InitialHopAgrees ==
  [][EnterInitial => hop'.accepted /\ options' = options]_vars
===============================================================================
