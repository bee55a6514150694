------------------------------ MODULE MCModelTurn -----------------------------
(* Instances of ModelTurn; every constant is a number or a Boolean. *)
EXTENDS ModelTurn

===============================================================================
