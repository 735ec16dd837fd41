------------------------------ MODULE MCActivity ------------------------------
(***************************************************************************)
(* Activity for TLC: requests of one kind are interchangeable.             *)
(***************************************************************************)
EXTENDS Activity, TLC

RequestSymmetry == Permutations(LeadReq) \cup Permutations(CallReq)

===============================================================================
