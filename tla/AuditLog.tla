------------------------------ MODULE AuditLog ------------------------------
(***************************************************************************)
(* What an audit sink promises its callers, whatever store is below it:    *)
(* the log only grows, at its end; every event is in it at most once;      *)
(* record() resolves only for an event that is in the log.  A rejected     *)
(* call promises nothing: its event may be in the log or may still land.   *)
(***************************************************************************)
EXTENDS Naturals, Sequences

CONSTANT Events

VARIABLES
    log,       \* the events of the log, in order
    outcome    \* per event: what the caller of record(event) knows

vars == <<log, outcome>>

Logged == {log[i] : i \in 1 .. Len(log)}

Init ==
    /\ log = <<>>
    /\ outcome = [e \in Events |-> "new"]

Submit(e) ==
    /\ outcome[e] = "new"
    /\ outcome' = [outcome EXCEPT ![e] = "pending"]
    /\ UNCHANGED log

AppendEvent(e) ==
    /\ outcome[e] \in {"pending", "rejected"}
    /\ e \notin Logged
    /\ log' = Append(log, e)
    /\ UNCHANGED outcome

Ack(e) ==
    /\ outcome[e] = "pending"
    /\ e \in Logged
    /\ outcome' = [outcome EXCEPT ![e] = "acked"]
    /\ UNCHANGED log

\* One call fails, or a crash takes every pending call of a process with it.
Reject(S) ==
    /\ \A e \in S : outcome[e] = "pending"
    /\ outcome' = [e \in Events |-> IF e \in S THEN "rejected" ELSE outcome[e]]
    /\ UNCHANGED log

Next ==
    \/ \E e \in Events : Submit(e) \/ AppendEvent(e) \/ Ack(e)
    \/ \E S \in SUBSET Events : Reject(S)

Spec == Init /\ [][Next]_vars
=============================================================================
