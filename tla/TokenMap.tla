------------------------------ MODULE TokenMap ------------------------------
(***************************************************************************)
(* What a token store's mutate(fn) promises (packages/token-vault, the     *)
(* store contract): every mutation takes effect at one instant, on the     *)
(* map as it is at that instant, at most once, and has taken effect when   *)
(* mutate() resolves.  A mutation whose caller got an error may have taken *)
(* effect, not take effect, or take effect later.                          *)
(***************************************************************************)
EXTENDS TokenVaultOps

CONSTANT Procs

VARIABLES
    map,        \* the token records
    now,        \* the clock
    phase,      \* per process: its mutation is not there, pending or applied
    op,         \* per process: its mutation
    abandoned   \* mutations whose caller got an error and that may still land

vars == <<map, now, phase, op, abandoned>>

Init ==
    /\ map = EmptyVault
    /\ now \in Nat
    /\ phase = [p \in Procs |-> "idle"]
    /\ op = [p \in Procs |-> NoOperation]
    /\ abandoned = {}

Tick ==
    /\ now' > now
    /\ UNCHANGED <<map, phase, op, abandoned>>

Call(p) ==
    /\ phase[p] = "idle"
    /\ phase' = [phase EXCEPT ![p] = "pending"]
    /\ \E o \in Operations : op' = [op EXCEPT ![p] = o]
    /\ UNCHANGED <<map, now, abandoned>>

\* fn may have read the clock a little before its result lands.
TakesEffect(o) == \E at \in 0 .. now : map' = Mutation(o, map, at).tokens

Apply(p) ==
    /\ phase[p] = "pending"
    /\ TakesEffect(op[p])
    /\ phase' = [phase EXCEPT ![p] = "applied"]
    /\ UNCHANGED <<now, op, abandoned>>

Return(p) ==
    /\ phase[p] = "applied"
    /\ phase' = [phase EXCEPT ![p] = "idle"]
    /\ op' = [op EXCEPT ![p] = NoOperation]
    /\ UNCHANGED <<map, now, abandoned>>

\* The error may come with the effect itself, and may leave it to land later.
Fail(p) ==
    /\ phase[p] # "idle"
    /\ phase' = [phase EXCEPT ![p] = "idle"]
    /\ op' = [op EXCEPT ![p] = NoOperation]
    /\ \/ UNCHANGED <<map, abandoned>>
       \/ phase[p] = "pending" /\ TakesEffect(op[p]) /\ UNCHANGED abandoned
       \/ phase[p] = "pending" /\ abandoned' = abandoned \cup {op[p]} /\ UNCHANGED map
    /\ UNCHANGED now

Land(o) ==
    /\ o \in abandoned
    /\ TakesEffect(o) \/ UNCHANGED map
    /\ abandoned' \in {abandoned, abandoned \ {o}}
    /\ UNCHANGED <<now, phase, op>>

Next ==
    \/ Tick
    \/ \E p \in Procs : Call(p) \/ Apply(p) \/ Return(p) \/ Fail(p)
    \/ \E o \in abandoned : Land(o)

Spec == Init /\ [][Next]_vars
=============================================================================
