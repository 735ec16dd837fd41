-------------------------------- MODULE MCDemo --------------------------------
(***************************************************************************)
(* Demo for TLC: requests of one kind are interchangeable.                 *)
(***************************************************************************)
EXTENDS Demo, TLC

RequestSymmetry == Permutations(Reset) \cup Permutations(Award) \cup Permutations(Register)

===============================================================================
