------------------------------- MODULE Profiles -------------------------------
(***************************************************************************)
(* Authored console profiles, and what hopping into an agent may choose    *)
(* from them.  A configuration is a record with the authored profiles (a   *)
(* set: their names are unique, and the code only takes "the first" of a   *)
(* list that has one element) and the name --profile fixed, or NoName.     *)
(***************************************************************************)
EXTENDS Naturals

CONSTANTS
  NoName,       (* no --profile, or no profile selected: "subject-only"     *)
  AgentCount,   (* agents of the validated catalog are 1 .. AgentCount      *)
  Subjects      (* canonical subjects a session may propose on behalf of    *)

ASSUME CatalogAssumption == AgentCount \in Nat

Agents == 1 .. AgentCount

Matches(config, agent) == {p \in config.profiles : p.agent = agent}

(* --profile names a profile that is bound to another agent. *)
FixedElsewhere(config, agent) ==
  \E p \in config.profiles : p.name = config.fixed /\ p.agent # agent

(* More than one authored profile, and nothing says which. *)
Ambiguous(config, agent) ==
  /\ config.fixed = NoName
  /\ \E p, q \in Matches(config, agent) : p # q

(* Profiles are authored, but none for this agent. *)
Unauthored(config, agent) ==
  config.profiles # {} /\ Matches(config, agent) = {}

HopRefused(config, agent) ==
  \/ FixedElsewhere(config, agent)
  \/ Ambiguous(config, agent)
  \/ Unauthored(config, agent)

(* The fixed profile if it is one of the matches, else the only match. *)
Chosen(config, agent) ==
  LET fixed == {p \in Matches(config, agent) : p.name = config.fixed}
  IN  CHOOSE p \in Matches(config, agent) : fixed # {} => p \in fixed

(* The subject and the profile label after an accepted hop: the chosen     *)
(* profile's, or the ones already there when no profile is authored.       *)
HopIdentity(config, agent, current) ==
  IF Matches(config, agent) = {}
  THEN current
  ELSE [subject |-> Chosen(config, agent).subject,
        profile |-> Chosen(config, agent).name]
===============================================================================
