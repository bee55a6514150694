----------------------------- MODULE MCStructured ------------------------------
(* Instances of Structured for TLC. *)
EXTENDS Structured
===============================================================================
