------------------------------ MODULE MCConsole -------------------------------
(* Instances of Console for TLC. *)
EXTENDS Console

CONSTANTS s1, s2

Profile(name, agent, subject) == [name |-> name, agent |-> agent, subject |-> subject]

(* One profile per agent, each acting for its own subject. *)
ProfilePerAgent ==
  [profiles |-> {Profile("p1", 1, s1), Profile("p2", 2, s2)}, fixed |-> NoName]
StartOnP1 == [subject |-> s1, profile |-> "p1"]

(* No profiles: --subject and --agent alone. *)
NoProfiles == [profiles |-> {}, fixed |-> NoName]
StartOnSubject == [subject |-> s1, profile |-> NoName]

(* Two profiles for agent 1 and --profile fixing one of them. *)
TwoForOneFixed ==
  [profiles |-> {Profile("p1", 1, s1), Profile("p2", 1, s2), Profile("p3", 2, s2)},
   fixed |-> "p2"]
StartOnP2 == [subject |-> s2, profile |-> "p2"]
===============================================================================
