------------------------------ MODULE MCReports ------------------------------
(***************************************************************************)
(* Reports for TLC: requests of one kind are interchangeable.              *)
(***************************************************************************)
EXTENDS Reports, TLC

RequestSymmetry == Permutations(LeadReq) \cup Permutations(CallReq)

===============================================================================
