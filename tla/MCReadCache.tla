----------------------------- MODULE MCReadCache -----------------------------
(***************************************************************************)
(* ReadCache for TLC: clients are interchangeable, and so are writes.      *)
(***************************************************************************)
EXTENDS ReadCache, TLC

CallerSymmetry == Permutations(Reader) \cup Permutations(Writer)

===============================================================================
