---------------------------- MODULE MCLocalKeys -----------------------------
(* Small instances of LocalKeys for TLC. *)
EXTENDS LocalKeys, TLC

\* Calls are alike, and so are the keys that rotations mint.
Symmetry == Permutations(Calls) \cup Permutations(Kids \ {FirstKid})
=============================================================================
