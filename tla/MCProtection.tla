---------------------------- MODULE MCProtection ----------------------------
(* Small instances of Protection for TLC. *)
EXTENDS Protection, MCStreamFilter, TLC

\* Replicas, processes and calls are alike, and so are tokens.  No two parts move
\* in one behaviour: they share their values, which keeps the group small.
ASSUME SharedAssumption == Replicas = Procs /\ Calls = Procs

Symmetry == Permutations(Procs) \cup Permutations(Tokens)
=============================================================================
