-------------------------- MODULE MCFileAuditSink ---------------------------
(* Small instances of FileAuditSink for TLC. *)
EXTENDS FileAuditSink, TLC

Symmetry == Permutations(Procs) \cup Permutations(Events)
=============================================================================
