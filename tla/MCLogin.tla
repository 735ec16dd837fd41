------------------------------- MODULE MCLogin -------------------------------
(***************************************************************************)
(* Login for TLC: login requests are interchangeable.                      *)
(***************************************************************************)
EXTENDS Login, TLC

RequestSymmetry == Permutations(LoginReq)

===============================================================================
