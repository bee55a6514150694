---------------------------- MODULE SelectionInputs ----------------------------
(* What the console is started with: authored documents and command lines. *)
EXTENDS Profiles

CONSTANTS
  Names, Models, (* names of profiles and of models, NoName for none       *)
  Documents,     (* profiles documents: a default name and profiles        *)
  CommandLines,  (* command lines; 0 or NoName for what is not given       *)
  DefaultModel,  (* DEFAULT_MODEL                                          *)
  DefaultSteps,  (* max_steps when nothing says otherwise: 8               *)
  DefaultCalls   (* max_capability_calls when nothing does: 16             *)

(* What read_profiles lets through: names are unique, and a default is one *)
(* of them.  (Bounds and the spelling of names are checked there too.)     *)
ValidDocument(d) ==
  /\ \A p, q \in d.profiles : p.name = q.name => p = q
  /\ \A p \in d.profiles : p.name # NoName
  /\ d.default # NoName => \E p \in d.profiles : p.name = d.default

Cli == [agent : Nat, profile : Names, subject : Subjects \cup {NoName},
        model : Models, steps : Nat, calls : Nat, structured : BOOLEAN]

ASSUME SelectionAssumption ==
  /\ \A d \in Documents : ValidDocument(d)
  /\ CommandLines \subseteq Cli
===============================================================================
