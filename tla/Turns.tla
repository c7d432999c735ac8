-------------------------------- MODULE Turns -------------------------------
(***************************************************************************)
(* The one SQLite connection, lib/one-at-a-time.ts: a query takes a turn,  *)
(* and a transaction keeps one from BEGIN until it has ended. The          *)
(* connection itself is the driver's: what runs on it while a transaction  *)
(* is open runs inside that transaction, whoever asked for it.             *)
(***************************************************************************)
EXTENDS Naturals, Sequences

CONSTANTS
    Clients, Length,
    Transactions,   \* the clients that ask for a transaction
    NoOne,
    MaxRestarts     \* bound

ASSUME TurnsAssumption ==
    /\ Length \in [Clients -> Nat] /\ Transactions \subseteq Clients
    /\ NoOne \notin Clients /\ MaxRestarts \in Nat

VARIABLES
    last,       \* the promise at the tail: whom it waits for
    ahead,      \* and whom each client waits for
    over,       \* those who have given their turn back
    stage,      \* where each client is
    rows,       \* what is committed
    open,       \* whose transaction is open on the connection
    inside,     \* and what has run since its BEGIN
    sent,       \* how many statements of its own each client has sent
    view,       \* what each client saw as it began
    restarts

turnVars == <<last, ahead, over, stage, rows, open, inside, sent, view, restarts>>
queueVars == <<last, ahead>>
dataVars  == <<rows, open, inside, sent, view>>

TurnsInit ==
    /\ last = {} /\ ahead = [c \in Clients |-> {}] /\ over = {}
    /\ stage = [c \in Clients |-> "idle"]
    /\ rows = <<>> /\ open = NoOne /\ inside = <<>>
    /\ sent = [c \in Clients |-> 0]
    /\ view = [c \in Clients |-> <<>>]
    /\ restarts = 0

-----------------------------------------------------------------------------

Moves(c, from, to) == stage[c] = from /\ stage' = [stage EXCEPT ![c] = to]

\* turn(): behind everybody who asked before.
Ask(c) ==
    /\ Moves(c, "idle", "waiting")
    /\ ahead' = [ahead EXCEPT ![c] = last]
    /\ last' = last \cup {c}
    /\ UNCHANGED <<over, rows, open, inside, sent, view, restarts>>

QueryAnyTime(c) == c \notin Transactions \/ ahead[c] \subseteq over     \* mutant: queries wait for nobody
HasTurn(c) == ahead[c] \subseteq over

StatementsOf(c) == [i \in 1..Length[c] |-> <<c, i>>]

\* A query runs on the connection as it is.
Query(c) ==
    /\ c \notin Transactions /\ HasTurn(c)
    /\ Moves(c, "waiting", "kept")
    /\ view' = [view EXCEPT ![c] = rows \o inside]
    /\ IF open = NoOne
       THEN rows' = rows \o StatementsOf(c) /\ UNCHANGED inside
       ELSE inside' = inside \o StatementsOf(c) /\ UNCHANGED rows
    /\ UNCHANGED <<queueVars, over, open, sent, restarts>>

\* A query, or BEGIN, that fails.
Fails(c) ==
    /\ HasTurn(c)
    /\ Moves(c, "waiting", "lost")
    /\ UNCHANGED <<queueVars, over, dataVars, restarts>>

\* BEGIN: the driver takes one transaction at a time.
Begin(c) ==
    /\ c \in Transactions /\ HasTurn(c)
    /\ Moves(c, "waiting", "open")
    /\ open = NoOne /\ open' = c
    /\ view' = [view EXCEPT ![c] = rows]
    /\ UNCHANGED <<queueVars, over, rows, inside, sent, restarts>>

\* Queries inside a transaction go straight through.
Statement(c) ==
    /\ stage[c] = "open" /\ sent[c] < Length[c]
    /\ sent' = [sent EXCEPT ![c] = @ + 1]
    /\ inside' = Append(inside, <<c, sent[c] + 1>>)
    /\ UNCHANGED <<queueVars, over, stage, rows, open, view, restarts>>

Closed == open' = NoOne /\ inside' = <<>>

Commit(c) ==
    /\ sent[c] = Length[c]
    /\ Moves(c, "open", "kept")
    /\ rows' = rows \o inside
    /\ Closed
    /\ UNCHANGED <<queueVars, over, sent, view, restarts>>

\* A statement, the work between two of them, or COMMIT fails or takes too long.
Abort(c) ==
    /\ Moves(c, "open", "failing")
    /\ UNCHANGED <<queueVars, over, dataVars, restarts>>

Rollback(c) ==
    /\ Moves(c, "failing", "lost")
    /\ Closed
    /\ UNCHANGED <<queueVars, over, rows, sent, view, restarts>>

OnSuccess(c) == IF stage[c] = "kept" THEN over \cup {c} ELSE over   \* mutant: not in a finally
GivesBack(c) == over \cup {c}

\* The turn is given back, whichever way it ended.
GiveBack(c) ==
    /\ Moves(c, "kept", "saved") \/ Moves(c, "lost", "failed")
    /\ over' = GivesBack(c)
    /\ UNCHANGED <<queueVars, dataVars, restarts>>

AfterRestart(s) ==
    CASE s \in {"waiting", "open", "failing", "lost"} -> "failed"
      [] s = "kept" -> "saved"
      [] OTHER -> s

\* The server restarts: what was not committed is gone, and the queue with it.
RestartServer ==
    /\ restarts < MaxRestarts /\ restarts' = restarts + 1
    /\ last' = {} /\ ahead' = [c \in Clients |-> {}] /\ over' = {}
    /\ stage' = [c \in Clients |-> AfterRestart(stage[c])]
    /\ Closed
    /\ UNCHANGED <<rows, sent, view>>

Serve(c) ==
    \/ Query(c) \/ Fails(c) \/ Begin(c) \/ Statement(c) \/ Commit(c)
    \/ Abort(c) \/ Rollback(c) \/ GiveBack(c)

TurnsNext ==
    \/ \E c \in Clients : Ask(c) \/ Serve(c)
    \/ RestartServer

TurnsSpec == TurnsInit /\ [][TurnsNext]_turnVars

-----------------------------------------------------------------------------

\* Who was there first, who has the turn, and what is inside the transaction.
QueueOrder ==
    /\ over \subseteq last /\ \A c \in Clients : ahead[c] \subseteq last
    /\ \A c, d \in last : c # d => c \in ahead[d] \/ d \in ahead[c]
    /\ \A c \in Clients :
          /\ stage[c] \in {"waiting", "open", "failing", "kept", "lost"} =>
                c \in last \ over
          /\ stage[c] \in {"open", "failing", "kept", "lost"} => HasTurn(c)
          /\ stage[c] = "idle" => c \notin last

InTransaction ==
    /\ open = NoOne => inside = <<>>
    /\ \A c \in Clients :
          /\ stage[c] \in {"open", "failing"} <=> open = c
          /\ stage[c] \in {"idle", "waiting"} => sent[c] = 0
          /\ open = c => /\ view[c] = rows
                         /\ sent[c] <= Length[c]
                         /\ inside = [i \in 1..sent[c] |-> <<c, i>>]

TurnsTypeOK ==
    /\ last \subseteq Clients /\ over \subseteq Clients
    /\ ahead \in [Clients -> SUBSET Clients]
    /\ stage \in [Clients -> {"idle", "waiting", "open", "failing", "kept", "lost",
                              "saved", "failed"}]
    /\ open \in Clients \cup {NoOne}
    /\ rows \in Seq(Clients \X Nat) /\ inside \in Seq(Clients \X Nat)
    /\ sent \in [Clients -> Nat]
    /\ view \in [Clients -> Seq(Clients \X Nat)]
    /\ restarts \in Nat

\* The turns are in order, whoever holds one is alone on the connection, and a
\* transaction that is open holds its own statements and nobody else's.
TurnsInv == TurnsTypeOK /\ QueueOrder /\ InTransaction

Outcome(c) ==
    CASE stage[c] \in {"open", "failing", "lost"} -> "waiting"
      [] stage[c] = "kept" -> "saved"
      [] OTHER -> stage[c]

Database == INSTANCE Store WITH
    log  <- rows,
    told <- [c \in Clients |-> Outcome(c)],
    saw  <- [c \in Clients |-> IF stage[c] \in {"kept", "saved"} THEN view[c] ELSE <<>>]

\* Whoever asks is answered: a turn "always handed on" (turn, one-at-a-time.ts) is
\* never waited for in vain, whichever way what is ahead ends.
Served == \A c \in Clients : (stage[c] = "waiting") ~> (stage[c] \in {"saved", "failed"})

\* The connection, taken in turns, is a database where everything happens at one
\* instant: "a save ... silently lost" in another request's transaction does not
\* happen (oneAtATime, one-at-a-time.ts).
TakesOneAtATime == Database!Spec
=============================================================================
