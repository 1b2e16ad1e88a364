---------------------------- MODULE MCEmailTokens ----------------------------
(* EmailTokens on a small instance. *)
EXTENDS EmailTokens, TLC

MCSymmetry == Permutations(Procs) \cup Permutations(Tokens) \cup Permutations(Users)
============================================================================
