----------------------------- MODULE MCSessions -----------------------------
(* Sessions on small instances. *)
EXTENDS Sessions, TLC

MCSymmetry == Permutations(Procs) \cup Permutations(Users)
============================================================================
