-------------------------------- MODULE Store -------------------------------
(***************************************************************************)
(* The database as a handler takes it, and as every other module of this   *)
(* project does: whatever a client asks of it, a query or a transaction,   *)
(* happens at one instant, seeing all of those before it and nothing of    *)
(* those after, wholly or not at all.                                      *)
(***************************************************************************)
EXTENDS Naturals, Sequences

CONSTANTS
    Clients,    \* each asks for one thing
    Length      \* how many statements it has

VARIABLES
    log,        \* the statements in the database, in order
    told,       \* what has become of each client's
    saw         \* and what it saw of the others'

Writes(c) == [i \in 1..Length[c] |-> <<c, i>>]

Init ==
    /\ log = <<>>
    /\ told = [c \in Clients |-> "idle"]
    /\ saw = [c \in Clients |-> <<>>]

Ask(c) ==
    /\ told[c] = "idle"
    /\ told' = [told EXCEPT ![c] = "waiting"]
    /\ UNCHANGED <<log, saw>>

Save(c) ==
    /\ told[c] = "waiting"
    /\ log' = log \o Writes(c)
    /\ saw' = [saw EXCEPT ![c] = log]
    /\ told' = [told EXCEPT ![c] = "saved"]

\* One fails, or all those that wait do, when the server restarts.
Fail(C) ==
    /\ \A c \in C : told[c] = "waiting"
    /\ told' = [c \in Clients |-> IF c \in C THEN "failed" ELSE told[c]]
    /\ UNCHANGED <<log, saw>>

Next ==
    \/ \E c \in Clients : Ask(c) \/ Save(c)
    \/ \E C \in SUBSET Clients : Fail(C)

Spec == Init /\ [][Next]_<<log, told, saw>>
=============================================================================
