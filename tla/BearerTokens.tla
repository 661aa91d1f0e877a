---------------------------- MODULE BearerTokens ----------------------------
(***************************************************************************)
(* Bearer authentication (packages/auth): the token file, the CLI commands *)
(* that add and revoke tokens, and the gateway that reads the file for     *)
(* every request.  A command reads the whole file, changes it in memory    *)
(* and replaces it by write-temp-then-rename; there is no lock.            *)
(***************************************************************************)
EXTENDS Naturals

CONSTANTS
    TokenIds,       \* tokens, each with its record
    CliProcs,       \* CLI processes
    BearerRequests, \* requests at the gateway
    MaxCommands     \* bound: commands run

ASSUME BearerAssumption == MaxCommands \in Nat

VARIABLES
    authFile,     \* token -> "absent", "active" or "disabled", as the file has it
    command,      \* CLI process -> the command it is running
    commands,
    request,      \* request -> where authenticate() is
    revokedDone,  \* history: tokens whose revocation was reported
    overlapped,   \* history: a command replaced a file it had not read
    passed        \* history: requests granted a token revoked before they began

bearerVars == <<authFile, command, commands, request, revokedDone, overlapped, passed>>

NoCommand == [at |-> "idle"]
NoRequest == [at |-> "idle"]

BearerInit ==
    /\ authFile = [t \in TokenIds |-> "absent"]
    /\ command = [p \in CliProcs |-> NoCommand]
    /\ commands = 0
    /\ request = [q \in BearerRequests |-> NoRequest]
    /\ revokedDone = {}
    /\ overlapped = FALSE
    /\ passed = {}

-----------------------------------------------------------------------------
\* haechi auth add, haechi auth revoke

\* Mutant: revoking a token twice enables it again.
RevokedToggle(store, t) ==
    [store EXCEPT ![t] = IF @ = "disabled" THEN "active" ELSE "disabled"]

\* record.disabled = true
Revoked(store, t) == [store EXCEPT ![t] = "disabled"]

\* addToken and revokeToken up to writeAuthStore: the file as read, changed.
\* An absent file is an empty store; an unknown id is an error.
ReadAuthStore(p, op, t) ==
    /\ command[p] = NoCommand
    /\ commands < MaxCommands
    /\ \/ op = "add" /\ authFile[t] = "absent"
       \/ op = "revoke" /\ authFile[t] # "absent"
    /\ commands' = commands + 1
    /\ command' = [command EXCEPT ![p] =
           [at |-> "write", op |-> op, token |-> t, read |-> authFile,
            store |-> IF op = "add" THEN [authFile EXCEPT ![t] = "active"]
                                    ELSE Revoked(authFile, t)]]
    /\ UNCHANGED <<authFile, request, revokedDone, overlapped, passed>>

\* writeAuthStore: the rename replaces the file, and the command reports.
WriteAuthStore(p) ==
    /\ command[p].at = "write"
    /\ authFile' = command[p].store
    /\ overlapped' = (overlapped \/ authFile # command[p].read)
    /\ revokedDone' = IF command[p].op = "revoke" THEN revokedDone \cup {command[p].token}
                                                  ELSE revokedDone
    /\ command' = [command EXCEPT ![p] = NoCommand]
    /\ UNCHANGED <<commands, request, passed>>

\* The write fails or the process dies: at most a temporary file is left.
WriteFails(p) ==
    /\ command[p].at = "write"
    /\ command' = [command EXCEPT ![p] = NoCommand]
    /\ UNCHANGED <<authFile, commands, request, revokedDone, overlapped, passed>>

-----------------------------------------------------------------------------
\* createBearerAuthProvider.authenticate

\* The token is hashed; what was revoked by now must not be granted.
Present(q, t) ==
    /\ request[q] = NoRequest
    /\ request' = [request EXCEPT ![q] = [at |-> "read", token |-> t, revoked |-> t \in revokedDone]]
    /\ UNCHANGED <<authFile, command, commands, revokedDone, overlapped, passed>>

\* The file is read and scanned, and the identity built.
MatchRecord(q) ==
    /\ request[q].at = "read"
    /\ passed' = IF authFile[request[q].token] = "active" /\ request[q].revoked
                 THEN passed \cup {q} ELSE passed
    /\ request' = [request EXCEPT ![q] = NoRequest]
    /\ UNCHANGED <<authFile, command, commands, revokedDone, overlapped>>

BearerNext ==
    \/ \E p \in CliProcs :
           \/ WriteAuthStore(p) \/ WriteFails(p)
           \/ \E op \in {"add", "revoke"}, t \in TokenIds : ReadAuthStore(p, op, t)
    \/ \E q \in BearerRequests : MatchRecord(q) \/ \E t \in TokenIds : Present(q, t)

BearerSpec == BearerInit /\ [][BearerNext]_bearerVars

-----------------------------------------------------------------------------
\* Properties

\* Once a revocation has been reported, no request that begins afterwards is
\* granted that token, unless two commands overlapped: a command that replaces
\* a file it had not read (there is no lock, auth/index.mjs:84-94) can undo it.
RevokedIsRefused == overlapped \/ passed = {}
=============================================================================
