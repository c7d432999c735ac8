------------------------------- MODULE Screen -------------------------------
(***************************************************************************)
(* What a device shows of a group before the server has answered:          *)
(* lib/client/optimistic.ts and the mutations of lib/client/queries.ts,    *)
(* over one cached ledger and its balances, fetched again in the           *)
(* background, with the flushes of the outbox behind it. The server is     *)
(* the set of the expenses it has.                                         *)
(***************************************************************************)
EXTENDS Figures, TLC

CONSTANTS
    Crew,           \* integers: the people of the group
    Mine, Theirs,   \* the expenses of this device, and those of another
    Paid, Share,    \* what each paid and owes of each
    MaxChanges      \* bound: expenses filed, and deleted offline

ASSUME ScreenAssumption ==
    /\ Crew \subseteq Nat
    /\ Paid \in [Mine \cup Theirs -> [Crew -> Nat]]
    /\ Share \in [Mine \cup Theirs -> [Crew -> Nat]]
    /\ MaxChanges \in Nat

VARIABLES
    server,     \* the expenses it has
    change,     \* what this device is doing about each of its own, or to another
    listed,     \* the rows of the cached ledger
    shown,      \* and the cached balances
    stale,      \* marked out of date
    due,        \* to be fetched again, once the moment on screen has played
    fetch,      \* the fetch under way, what it has read, and was that too early?
    flushing,   \* the flush under way: nobody's, the sweep's or the banner's
    flushed,    \* has it delivered, or refused, anything?
    untold,     \* has a flush ended that nobody was told of, since the last fetch?
    changes

screenVars == <<server, change, listed, shown, stale, due, fetch, flushing, flushed, untold, changes>>
cacheVars  == <<listed, shown>>
fetchVars  == <<stale, due, fetch>>
flushVars  == <<flushing, flushed, untold, changes>>

Expenses == Mine \cup Theirs
Worked(table) == CHOOSE t \in {table} : t = t    \* the table itself, which TLC works out once

Effect == Worked([e \in Expenses |-> ExpenseSheet(Paid[e], Share[e])])

\* negate(): every amount the other way.
Negated(e) == [paid |-> [p \in Crew |-> -Paid[e][p]], owed |-> [p \in Crew |-> -Share[e][p]]]
TakenBack ==
    Worked([e \in Expenses |-> LET n == Negated(e) IN ExpenseSheet(n.paid, n.owed)])

\* computeBalances()
Balances ==
    Worked([E \in SUBSET Expenses |->
        FoldLeft(LAMBDA folded, e : Together(folded, Effect[e]), EmptySheet(Crew), SetToSeq(E))])

NoFetch == [at |-> "none", got |-> {}, early |-> FALSE]

ScreenInit ==
    /\ server = Theirs /\ listed = Theirs /\ shown = Balances[Theirs]
    /\ change = [e \in Expenses |-> IF e \in Mine THEN "untyped" ELSE "settled"]
    /\ stale = FALSE /\ due = FALSE /\ fetch = NoFetch
    /\ flushing = "no" /\ flushed = FALSE /\ untold = FALSE /\ changes = 0

Now(e, from, to) == change[e] = from /\ change' = [change EXCEPT ![e] = to]
OneMoreChange == changes < MaxChanges /\ changes' = changes + 1

\* setQueryData(): what is written by hand is no longer marked out of date.
WrittenByHand == stale' = FALSE

-----------------------------------------------------------------------------
(* The mutations                                                           *)

\* onMutate: a fetch under way is dropped, and the row shown at once.
Type(e) ==
    /\ Now(e, "untyped", "sent") /\ OneMoreChange
    /\ fetch' = NoFetch
    /\ listed' = listed \cup {e} /\ shown' = Together(shown, Effect[e])
    /\ WrittenByHand
    /\ UNCHANGED <<server, due, flushing, flushed, untold>>

Answer(e) ==
    /\ \/ Now(e, "sent", "filed") /\ server' = server \cup {e}
       \/ Now(e, "sent", "refused") /\ UNCHANGED server
    /\ UNCHANGED <<cacheVars, fetchVars, flushVars>>

\* Offline: the outbox has it, and the answer may be what was lost.
Queue(e) ==
    /\ Now(e, "sent", "queued")
    /\ server' \in {server, server \cup {e}}
    /\ UNCHANGED <<cacheVars, fetchVars, flushVars>>

NotMarked == UNCHANGED <<stale, due, fetch>>    \* mutant: an answer brings no refetch
Invalidated == stale' = TRUE /\ due' = TRUE /\ UNCHANGED fetch

Confirm(e) ==
    /\ Now(e, "filed", "settled")
    /\ Invalidated
    /\ UNCHANGED <<server, cacheVars, flushVars>>

\* onError: revertOptimisticWrite(), and then onSettled, which marks it again.
Revert(e) ==
    /\ Now(e, "refused", "settled")
    /\ listed' = listed \ {e} /\ shown' = Together(shown, TakenBack[e])
    /\ Invalidated
    /\ UNCHANGED <<server, flushVars>>

\* showQueuedDelete(): an expense deleted offline.
Hide(e) ==
    /\ Now(e, "settled", "hidden")
    /\ e \in listed /\ OneMoreChange
    /\ listed' = listed \ {e} /\ shown' = Together(shown, TakenBack[e])
    /\ WrittenByHand
    /\ server' \in {server, server \ {e}}
    /\ UNCHANGED <<due, fetch, flushing, flushed, untold>>

-----------------------------------------------------------------------------
(* The outbox, and the fetches                                             *)

StartFlush(who) ==
    /\ flushing = "no" /\ \E e \in Expenses : change[e] \in {"queued", "hidden"}
    /\ flushing' = who
    /\ UNCHANGED <<server, change, cacheVars, fetchVars, flushed, untold, changes>>

\* Delivered or refused, or, when there is no network, neither.
Flush(e) ==
    /\ flushing # "no"
    /\ \/ Now(e, "queued", "settled") /\ server' = server \cup {e}
       \/ Now(e, "queued", "rejected") /\ UNCHANGED server
       \/ Now(e, "hidden", "settled") /\ server' \in {server, server \ {e}}
    /\ flushed' = TRUE
    /\ UNCHANGED <<cacheVars, fetchVars, flushing, untold, changes>>

\* retryRejected(): back in the queue; the flush that follows is the banner's.
RetryRejected(e) ==
    /\ Now(e, "rejected", "queued")
    /\ UNCHANGED <<server, cacheVars, fetchVars, flushVars>>

IsToldOf == flushed /\ flushing = "sweep"

\* startAutoFlush tells of its own flushes; the banner's flush() of none.
EndFlush ==
    /\ flushing # "no"
    /\ flushing' = "no" /\ flushed' = FALSE
    /\ IF IsToldOf THEN Invalidated /\ UNCHANGED untold
       ELSE /\ untold' = (untold \/ flushed)
            /\ fetch' = [fetch EXCEPT !.early = @ \/ (flushed /\ fetch.at = "read")]
            /\ UNCHANGED <<stale, due>>
    /\ UNCHANGED <<server, change, cacheVars, changes>>

JoinsFetch == IF fetch = NoFetch THEN [NoFetch EXCEPT !.at = "asked"] ELSE fetch  \* mutant: not cancelRefetch
Anew == [NoFetch EXCEPT !.at = "asked"]

\* invalidateQueries(), once uncovered: a fetch under way is started anew.
Refetch ==
    /\ due /\ due' = FALSE
    /\ fetch' = Anew /\ stale' = TRUE
    /\ UNCHANGED <<server, change, cacheVars, flushVars>>

\* refetchOnWindowFocus, or another screen opened.
Focus ==
    /\ fetch = NoFetch
    /\ fetch' = Anew
    /\ UNCHANGED <<server, change, cacheVars, stale, due, flushVars>>

ReadServer ==
    /\ fetch.at = "asked"
    /\ fetch' = [fetch EXCEPT !.at = "read", !.got = server]
    /\ UNCHANGED <<server, change, cacheVars, stale, due, flushVars>>

FetchFails ==
    /\ fetch # NoFetch /\ fetch' = NoFetch
    /\ UNCHANGED <<server, change, cacheVars, stale, due, flushVars>>

Land ==
    /\ fetch.at = "read" /\ fetch' = NoFetch
    /\ listed' = fetch.got /\ shown' = Balances[fetch.got]
    /\ stale' = FALSE /\ untold' = (untold /\ fetch.early)
    /\ UNCHANGED <<server, change, due, flushing, flushed, changes>>

ScreenNext ==
    \/ \E e \in Mine : Type(e) \/ Answer(e) \/ Queue(e) \/ Confirm(e) \/ Revert(e)
    \/ \E e \in Expenses : Hide(e) \/ Flush(e) \/ RetryRejected(e)
    \/ \E who \in {"sweep", "banner"} : StartFlush(who)
    \/ EndFlush \/ Refetch \/ Focus \/ ReadServer \/ FetchFails \/ Land

ScreenSpec == ScreenInit /\ [][ScreenNext]_screenVars

-----------------------------------------------------------------------------

Quiet ==
    /\ \A e \in Expenses : change[e] \in {"untyped", "settled", "rejected"}
    /\ ~stale /\ ~due /\ fetch = NoFetch /\ flushing = "no"

\* When nothing is on its way and nothing is marked out of date, the screen shows
\* what the server has, whatever was refused, queued, lost or fetched meanwhile,
\* but for a flush that it was not told of (applyOptimisticWrite, optimistic.ts).
Settled == Quiet /\ ~untold => listed = server /\ shown = Balances[server]

\* After any flush that changed anything the cache is brought "back in line with the
\* server" (startAutoFlush, outbox.ts).
FlushShown == Quiet => listed = server /\ shown = Balances[server]

\* Taking an expense back leaves the others' balances as they were, "no matter what
\* else has landed in between" (Reversal, optimistic.ts).
ReversalCancels == shown = Balances[listed]
=============================================================================
