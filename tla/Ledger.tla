------------------------------- MODULE Ledger -------------------------------
(***************************************************************************)
(* The database the request handlers share, and the cached balance sheets  *)
(* of server/ledger.ts.                                                    *)
(*                                                                         *)
(* One server process runs every handler over one SQLite connection, which *)
(* lib/one-at-a-time.ts hands out a query, or a whole transaction, at a    *)
(* time.  So a transaction is one step here and the handlers interleave    *)
(* between their awaits: a handler is a process p whose pc[p] names the    *)
(* await it is at, req[p] the request it answers, and seen[p] and          *)
(* reading[p] what it has read so far and will act on later.               *)
(***************************************************************************)
EXTENDS Integers, Sequences, FiniteSets, Functions

CONSTANTS
    Procs,        \* request handlers that may be in flight at once
    People, Groups, NoGroup,        \* NoGroup: the ledger of direct rows
    Sessions, PersonOf,             \* one sign-in per device, and whose it is
    ExpenseIds, PaymentIds,         \* ids the clients have minted
    NoRow, NoRequest, NoSheet,
    MaxCached                       \* MAX_CACHED: sheets kept in memory

ASSUME LedgerAssumption ==
    /\ NoGroup \notin Groups
    /\ IsFiniteSet(People) /\ IsFiniteSet(ExpenseIds) /\ IsFiniteSet(PaymentIds)
    /\ PersonOf \in [Sessions -> People]
    /\ MaxCached \in Nat \ {0}

VARIABLES
    people,         \* Person rows: "unborn", "ghost", "real", "deleted" (an
                    \* account its owner closed) or "gone"
    member,         \* Membership rows: "none", "active" or "left"
    owners,         \* who holds the owner role on their membership row
    friends,        \* Friendship rows, each a pair of people
    disbanded,      \* the groups that were deleted
    expenses, payments, ledgerVersion,
    cache,          \* the module-level Map of server/ledger.ts
    announced,      \* how many "created" feed entries name a row
    pc, req, seen, reading,
    on, waits,      \* server/mutex.ts: the key a handler is serialized on,
                    \* and the handlers ahead of it there
    arrived,        \* how many requests there have been
    strayed         \* history: the groups that were ever among Strays

circle == <<people, member, owners, friends, disbanded>>
rows   == <<expenses, payments, ledgerVersion>>
vars   == <<people, member, owners, friends, disbanded, expenses, payments,
            ledgerVersion, cache, announced, pc, req, seen, reading, on, waits,
            arrived, strayed>>

Ledgers == Groups \cup {NoGroup}
Me(p)   == PersonOf[req[p].session]

-----------------------------------------------------------------------------
(* Bills.  A bill is an amount, what each person put down and what each    *)
(* person's share is; both columns add up to the amount when it is filed.  *)

Column(f) == SumFunction(f)
AddsUp(bill) == Column(bill.paid) = bill.amount /\ Column(bill.owed) = bill.amount

Named(bill) == {x \in People : bill.paid[x] > 0 \/ bill.owed[x] > 0}

\* A column re-apportioned to the whole amount: the identity while it adds up.
Spread(f, amount, x) ==
    IF Column(f) = 0 THEN 0 ELSE (f[x] * amount) \div Column(f)

Standing(bill, x) == Spread(bill.paid, bill.amount, x) - Spread(bill.owed, bill.amount, x)

\* What y owes x for one bill: a debtor's shortfall goes to the creditors in
\* proportion to what each is out of pocket.
Claim(bill, x, y) ==
    LET out == SumFunction([z \in People |-> IF Standing(bill, z) > 0
                                             THEN Standing(bill, z) ELSE 0])
    IN  IF Standing(bill, x) > 0 /\ Standing(bill, y) < 0
        THEN ((-Standing(bill, y)) * Standing(bill, x)) \div out ELSE 0

MovedOver(f, x, y) ==     \* mutant: y's own entry is lost
    [z \in People |-> IF z = x THEN 0 ELSE IF z = y /\ f[x] > 0 THEN f[x] ELSE f[z]]
\* Rewriting a column when placeholder x becomes y, and when x is deleted.
Moved(f, x, y) ==
    [z \in People |-> IF z = x THEN 0 ELSE IF z = y THEN f[y] + f[x] ELSE f[z]]
Dropped(f, x) == [f EXCEPT ![x] = 0]
BillWithout(bill, x) ==
    [bill EXCEPT !.paid = Dropped(bill.paid, x), !.owed = Dropped(bill.owed, x)]
BillMoved(bill, x, y) ==
    [bill EXCEPT !.paid = Moved(bill.paid, x, y), !.owed = Moved(bill.owed, x, y)]

-----------------------------------------------------------------------------
(* Ledgers and sheets.  A balance sheet is a fold of a ledger's live rows; *)
(* it is represented by those rows, and Net and PairNet are what the       *)
(* handlers read off it.                                                   *)

\* Deleting a group cascades to its memberships and to every row filed in it:
\* what a deleted group had stays in the variables, and is there for nobody.
Stands(l)  == l \notin disbanded
There(row) == row # NoRow /\ Stands(row.group)

LiveExpenses(l) == {e \in ExpenseIds : /\ There(expenses[e])
                                       /\ expenses[e].group = l
                                       /\ ~expenses[e].deleted}
LivePayments(l) == {s \in PaymentIds : /\ There(payments[s])
                                       /\ payments[s].group = l
                                       /\ ~payments[s].deleted}

ExpensesOf(l) == {[id |-> e, bill |-> expenses[e].bill] : e \in LiveExpenses(l)}
PaymentsOf(l) == {[id |-> s, from |-> payments[s].from, to |-> payments[s].to,
                   amount |-> payments[s].amount] : s \in LivePayments(l)}

Sheet(l)   == [expenses |-> ExpensesOf(l), payments |-> PaymentsOf(l)]
EmptySheet == [expenses |-> {}, payments |-> {}]

\* Positive: the rest of the ledger owes x.
Net(sheet, x) ==
    SumFunction([e \in sheet.expenses |-> Standing(e.bill, x)])
      + SumFunction([s \in sheet.payments |-> (IF s.from = x THEN s.amount ELSE 0)
                                            - (IF s.to = x THEN s.amount ELSE 0)])

\* Positive: y owes x.
PairNet(sheet, x, y) ==
    SumFunction([e \in sheet.expenses |-> Claim(e.bill, x, y) - Claim(e.bill, y, x)])
      + SumFunction([s \in sheet.payments |-> IF s.from = x /\ s.to = y THEN s.amount
                                              ELSE IF s.from = y /\ s.to = x THEN -s.amount
                                              ELSE 0])

\* The people the live rows of a ledger name.
NamedIn(l) == {x \in People : \/ \E e \in LiveExpenses(l) : x \in Named(expenses[e].bill)
                              \/ \E s \in LivePayments(l) : x \in {payments[s].from, payments[s].to}}

\* The foreign keys of a row that names them hold: a closed account keeps its row.
Exist(xs) == \A x \in xs : people[x] \in {"ghost", "real", "deleted"}

Housed(g, x) == Stands(g) /\ member[g][x] # "none"      \* a membership row
Active(g)  == {x \in People : Housed(g, x) /\ member[g][x] = "active"}
Bumped(gs) == [g \in Groups |-> IF g \in gs THEN ledgerVersion[g] + 1 ELSE ledgerVersion[g]]

BackAnybody(g, x) == member[g][x] = "left"      \* mutant: whoever has left
\* Restoring a row brings back a placeholder who left, and nobody else.
ComesBack(g, x) == Housed(g, x) /\ member[g][x] = "left" /\ people[x] = "ghost"

\* Groups with a live row naming somebody who has no membership row at all.
Strays == {g \in Groups : \E x \in NamedIn(g) : member[g][x] = "none"}

-----------------------------------------------------------------------------
(* Handlers: where one is, what it has read, and whom it waits for.        *)

\* server/mutex.ts: settle-ups queue per group, or per pair of people.
PairInOrder(x, y) == <<"pair", <<x, y>>>>       \* mutant: the pair not sorted
PairKey(x, y) == <<"pair", {x, y}>>
GroupKey(g)   == <<"group", g>>
NoKey         == <<>>
Keys == {PairKey(x, y) : x, y \in People} \cup {GroupKey(g) : g \in Groups}

Nothing == [rows |-> {}, people |-> {}, seats |-> {}, version |-> 0, direct |-> EmptySheet]
NotReading == [groups |-> {}, stale |-> {}, version |-> [g \in Groups |-> 0],
               expenses |-> [g \in Groups |-> {}],
               sheet |-> [g \in Groups |-> EmptySheet], then |-> "idle"]

To(p, label) ==
    /\ pc' = [pc EXCEPT ![p] = label]
    /\ strayed' = strayed \cup Strays
    /\ UNCHANGED arrived

\* On to the next await, remembering `what`.
Go(p, label, what) ==
    /\ To(p, label)
    /\ seen' = [seen EXCEPT ![p] = what]
    /\ UNCHANGED <<req, reading, on, waits>>

Unreleased(p) == waits     \* mutant: no `finally`
\* release(): nobody waits for p any longer.
Released(p) == [q \in Procs |-> IF q = p THEN {} ELSE waits[q] \ {p}]

\* The answer is sent, or the handler threw: either way it forgets what it
\* read and gives up the key it was serialized on.
Finish(p) ==
    /\ To(p, "idle")
    /\ req' = [req EXCEPT ![p] = NoRequest]
    /\ seen' = [seen EXCEPT ![p] = Nothing]
    /\ reading' = [reading EXCEPT ![p] = NotReading]
    /\ on' = [on EXCEPT ![p] = NoKey]
    /\ waits' = Released(p)

\* await groupSheets(groups), carrying on at `label` with the sheets.
ReadSheets(p, groups, label, what) ==
    /\ To(p, IF groups = {} THEN label ELSE "Versions")
    /\ reading' = [reading EXCEPT ![p] = [NotReading EXCEPT !.groups = groups,
                                                            !.then = label]]
    /\ seen' = [seen EXCEPT ![p] = what]
    /\ UNCHANGED <<req, on, waits>>

HitAtAnyVersion(g) == cache[g] # NoSheet        \* mutant: hits not validated
Hit(g) == cache[g] # NoSheet /\ cache[g].version = ledgerVersion[g]

\* The versions first: a sheet in the cache at the current version is the answer,
\* and a group that is not there has an empty one.
SheetVersions(p) ==
    /\ pc[p] = "Versions"
    /\ LET r     == reading[p]
           hits  == {g \in r.groups : Stands(g) /\ Hit(g)}
           stale == {g \in r.groups : Stands(g)} \ hits
       IN  /\ reading' = [reading EXCEPT ![p] = [r EXCEPT
                   !.version = ledgerVersion,
                   !.stale   = stale,
                   !.sheet   = [g \in Groups |-> IF g \in hits THEN cache[g].sheet
                                                 ELSE EmptySheet]]]
           /\ To(p, IF stale = {} THEN r.then ELSE "SheetExpenses")
    /\ UNCHANGED <<circle, rows, cache, announced, req, seen, on, waits>>

\* computeSheets, first query.
SheetExpenses(p) ==
    /\ pc[p] = "SheetExpenses"
    /\ reading' = [reading EXCEPT ![p].expenses =
                      [g \in Groups |-> IF g \in reading[p].stale THEN ExpensesOf(g) ELSE {}]]
    /\ To(p, "SheetPayments")
    /\ UNCHANGED <<circle, rows, cache, announced, req, seen, on, waits>>

StampedNow(r, g) == ledgerVersion[g]    \* mutant: the version after the rows
\* What a sheet is remembered under: the version read before its rows.
StampedAt(r, g)  == r.version[g]

\* computeSheets, second query, and remember() for every stale group: beyond
\* MaxCached entries some are evicted (the code evicts the oldest).
SheetPayments(p) ==
    /\ pc[p] = "SheetPayments"
    /\ LET r      == reading[p]
           fresh(g) == [expenses |-> r.expenses[g], payments |-> PaymentsOf(g)]
           held   == {g \in Groups : cache[g] # NoSheet} \cup r.stale
       IN  /\ reading' = [reading EXCEPT ![p].sheet =
                  [g \in Groups |-> IF g \in r.stale THEN fresh(g) ELSE r.sheet[g]]]
           /\ \E kept \in SUBSET held :
                /\ Cardinality(kept) = IF Cardinality(held) <= MaxCached
                                       THEN Cardinality(held) ELSE MaxCached
                /\ cache' = [g \in Groups |->
                       IF g \notin kept THEN NoSheet
                       ELSE IF g \in r.stale THEN [version |-> StampedAt(r, g), sheet |-> fresh(g)]
                       ELSE cache[g]]
           /\ To(p, r.then)
    /\ UNCHANGED <<circle, rows, announced, req, seen, on, waits>>

\* await serialize(key, ...): the handler chains its promise behind those
\* already on the key and carries on at `label` once they have all been released.
Enqueue(p, key, label) ==
    /\ on' = [on EXCEPT ![p] = key]
    /\ waits' = [waits EXCEPT ![p] = {q \in Procs : on[q] = key}]
    /\ To(p, label)
    /\ UNCHANGED <<req, seen, reading>>
HasTurn(p) == waits[p] = {}

SheetAwaits == {"Versions", "SheetExpenses", "SheetPayments"}
\* The await a handler is at, or will be at once it has its sheets.
Place(p) == IF pc[p] \in SheetAwaits THEN reading[p].then ELSE pc[p]

Leave(p) == Finish(p) /\ UNCHANGED <<circle, rows, cache, announced>>

\* recordActivity for a row that was filed, the handler's last write: it fails
\* when what the entry refers to is gone.
Announce(p, id, row) ==
    IF There(row)
    THEN /\ announced' = [announced EXCEPT ![id] = @ + 1]
         /\ Finish(p)
         /\ UNCHANGED <<circle, rows, cache>>
    ELSE Leave(p)

=============================================================================
