------------------------------ MODULE MCBadges ------------------------------
(* Badges on small instances. *)
EXTENDS Badges, TLC

MCSymmetry == Permutations(Procs) \cup Permutations(Badges) \cup Permutations(Slugs)
              \cup Permutations(Codes) \cup Permutations(Organisers)
============================================================================
