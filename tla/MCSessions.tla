------------------------------ MODULE MCSessions ------------------------------
(***************************************************************************)
(* Sessions for TLC: requests are interchangeable, and so are tokens.      *)
(***************************************************************************)
EXTENDS Sessions, TLC

CallerSymmetry == Permutations(Req) \cup Permutations(Token)

===============================================================================
