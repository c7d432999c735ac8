------------------------------- MODULE Divvy --------------------------------
(***************************************************************************)
(* The server: every handler of Expenses, Settlements, Members and Endings *)
(* over one database, one sheet cache and one set of locks, with requests  *)
(* arriving in any order, replayed, and interleaved at every await, and a  *)
(* server that may restart at any moment.                                  *)
(***************************************************************************)
EXTENDS Expenses, Settlements, Members, Endings

CONSTANTS
    Ops,            \* the endpoints that receive requests
    MaxRequests,    \* bound: requests that arrive in a behaviour
    Registered, Seated, Founders, Contacts,   \* people, members, owners and
    Filed           \* friends to begin with, and the drafts already filed

ASSUME DivvyAssumption ==
    /\ Registered \in [People -> {"unborn", "ghost", "real"}]
    /\ Seated \in [Groups -> [People -> {"none", "active", "left"}]]
    /\ Founders \in [Groups -> SUBSET People]
    /\ \A f \in Contacts : \E x, y \in People : x # y /\ f = {x, y}
    \* An id still to be given out has no seat; friends are people on Divvy; what
    \* was filed adds up, and names members of its group or, outside one, people
    \* on Divvy.
    /\ \A g \in Groups : \A x \in People : Registered[x] = "unborn" => Seated[g][x] = "none"
    /\ \A f \in Contacts : \A x \in f : Registered[x] = "real"
    /\ \A e \in Filed :
          /\ AddsUp(Draft[e].bill)
          /\ \A x \in Named(Draft[e].bill) :
                /\ Registered[x] # "unborn"
                /\ IF Draft[e].group \in Groups THEN Seated[Draft[e].group][x] # "none"
                   ELSE Registered[x] = "real"
    /\ Filed \subseteq ExpenseIds
    /\ \A e \in Filed : Sessions # {} /\ Named(Draft[e].bill) # {}
    /\ MaxRequests \in Nat
    \* Only people on Divvy sign in, and ids say what they are of.
    /\ \A s \in Sessions : Registered[PersonOf[s]] = "real"
    /\ ExpenseIds \cap PaymentIds = {}

Requests == ExpenseRequests \cup PaymentRequests \cup MemberRequests \cup EndingRequests
Arrivals == ExpenseArrivals \cup PaymentArrivals \cup MemberArrivals \cup EndingArrivals

Init ==
    /\ people = Registered /\ member = Seated /\ owners = Founders /\ friends = Contacts
    /\ disbanded = {}
    /\ expenses = [e \in ExpenseIds |->
          IF e \notin Filed THEN NoRow
          ELSE [group |-> Draft[e].group, bill |-> Draft[e].bill, deleted |-> FALSE,
                version |-> 1, by |-> CHOOSE x \in Named(Draft[e].bill) : TRUE,
                session |-> CHOOSE s \in Sessions : TRUE]]
    /\ payments = [s \in PaymentIds |-> NoRow]
    /\ ledgerVersion = [g \in Groups |-> 0]
    /\ cache = [g \in Groups |-> NoSheet]
    /\ announced = [id \in ExpenseIds \cup PaymentIds |-> 0]
    /\ pc = [p \in Procs |-> "idle"]
    /\ req = [p \in Procs |-> NoRequest]
    /\ seen = [p \in Procs |-> Nothing]
    /\ reading = [p \in Procs |-> NotReading]
    /\ on = [p \in Procs |-> NoKey]
    /\ waits = [p \in Procs |-> {}]
    /\ arrived = 0
    /\ strayed = {}

\* requireSession and the body's schema have passed: the handler begins.  An
\* account that is closed takes its sign-ins with it.
Arrive(p) ==
    /\ pc[p] = "idle"
    /\ arrived < MaxRequests
    /\ arrived' = arrived + 1
    /\ \E r \in {r \in Arrivals : /\ r.op \in Ops
                                  /\ people[PersonOf[r.session]] # "deleted"} :
          /\ req' = [req EXCEPT ![p] = r]
          /\ pc' = [pc EXCEPT ![p] = r.op]
    /\ strayed' = strayed \cup Strays
    /\ UNCHANGED <<circle, rows, cache, announced, seen, reading, on, waits>>

\* A restart: every handler in flight dies between two awaits, the cache and
\* the locks go with the process, the database stays.
Restart ==
    /\ \E p \in Procs : pc[p] # "idle"
    /\ pc' = [p \in Procs |-> "idle"]
    /\ req' = [p \in Procs |-> NoRequest]
    /\ seen' = [p \in Procs |-> Nothing]
    /\ reading' = [p \in Procs |-> NotReading]
    /\ on' = [p \in Procs |-> NoKey]
    /\ waits' = [p \in Procs |-> {}]
    /\ cache' = [g \in Groups |-> NoSheet]
    /\ strayed' = strayed \cup Strays
    /\ UNCHANGED <<circle, rows, announced, arrived>>

Handle(p) ==
    \/ ExpenseSteps(p) \/ PaymentSteps(p) \/ MemberSteps(p) \/ EndingSteps(p)
    \/ SheetVersions(p) \/ SheetExpenses(p) \/ SheetPayments(p)

Next == Restart \/ \E p \in Procs : Arrive(p) \/ Handle(p)

Spec == Init /\ [][Next]_vars

\* The event loop runs every handler whose promise has settled.
FairSpec == Spec /\ \A p \in Procs : WF_vars(Handle(p))

-----------------------------------------------------------------------------

BillRows    == [amount : Nat, paid : [People -> Nat], owed : [People -> Nat]]
ExpenseRows == [group : Ledgers, by : People, bill : BillRows, deleted : BOOLEAN,
                version : Nat, session : Sessions]
PaymentRows == [group : Ledgers, from : People, to : People, amount : Nat, by : People,
                batch : BatchIds \cup {NoBatch}, deleted : BOOLEAN]
ASSUME RowAssumption == NoRow \notin ExpenseRows \cup PaymentRows

ExpenseFolds == SUBSET [id : ExpenseIds, bill : BillRows]
Sheets      == [expenses : ExpenseFolds,
                payments : SUBSET [id : PaymentIds, from : People, to : People, amount : Nat]]
Sightings   == [rows : SUBSET PaymentIds, people : SUBSET People,
                seats : SUBSET (Groups \X People), version : Nat, direct : Sheets]
Awaits      == {"idle"} \cup SheetAwaits \cup ExpenseAwaits \cup PaymentAwaits
                 \cup MemberAwaits \cup EndingAwaits
Readings    == [groups : SUBSET Groups, stale : SUBSET Groups, version : [Groups -> Nat],
                expenses : [Groups -> ExpenseFolds], sheet : [Groups -> Sheets], then : Awaits \ SheetAwaits]

DataOK ==
    /\ people \in [People -> {"unborn", "ghost", "real", "deleted", "gone"}]
    /\ member \in [Groups -> [People -> {"none", "active", "left"}]]
    /\ owners \in [Groups -> SUBSET People]
    /\ disbanded \subseteq Groups
    /\ \A f \in friends : \E x, y \in People : x # y /\ f = {x, y}
    /\ expenses \in [ExpenseIds -> ExpenseRows \cup {NoRow}]
    /\ payments \in [PaymentIds -> PaymentRows \cup {NoRow}]
    /\ ledgerVersion \in [Groups -> Nat]
    /\ cache \in [Groups -> [version : Nat, sheet : Sheets] \cup {NoSheet}]
    /\ announced \in [ExpenseIds \cup PaymentIds -> Nat]

ControlOK ==
    /\ pc \in [Procs -> Awaits]
    /\ seen \in [Procs -> Sightings]
    /\ reading \in [Procs -> Readings]
    /\ on \in [Procs -> Keys \cup {NoKey}]
    /\ waits \in [Procs -> SUBSET Procs]
    /\ DOMAIN req = Procs
    /\ arrived \in Nat
    /\ strayed \subseteq Groups
    /\ \A p \in Procs : /\ ExpenseStage(Place(p), req[p])
                        /\ PaymentStage(Place(p), req[p])
                        /\ MemberStage(Place(p), req[p])
                        /\ EndingStage(Place(p), req[p])

\* The shape of the server's state: the rows, what each handler remembers, and
\* that it answers a request of the kind its await belongs to.
TypeOK == DataOK /\ ControlOK

\* Groups that are no more, and those where a row was filed for somebody whose
\* membership was being deleted at that moment: deleting the group, or then the
\* person, changes a balance under no version.
Astray == strayed \cup Strays \cup disbanded

\* Every write that changes a group's balances bumps its version in the same
\* transaction, and no version goes back (bumpLedger, server/ledger.ts).
BumpsWhatItChanges ==
    \A g \in Groups \ Astray' :
        \/ ledgerVersion'[g] > ledgerVersion[g]
        \/ ledgerVersion'[g] = ledgerVersion[g] /\ Sheet(g)' = Sheet(g)
WritesBump == [][BumpsWhatItChanges]_vars

\* A balance served from the cache is the balance: a sheet remembered at the
\* group's current version is the fold of the rows as they are now, whatever
\* was written between the three reads that filled it (server/ledger.ts).
CacheCoherent ==
    \A g \in Groups \ Astray :
        cache[g] # NoSheet =>
            /\ cache[g].version <= ledgerVersion[g]
            /\ cache[g].version = ledgerVersion[g] => cache[g].sheet = Sheet(g)

\* What makes the cache safe to fill: while a handler is between its reads, the
\* version it read first says whether the rows it read since are still the rows.
ReadingCoherent ==
    \A p \in Procs : \A g \in reading[p].stale \ Astray :
        pc[p] \in {"SheetExpenses", "SheetPayments"} =>
            /\ reading[p].version[g] <= ledgerVersion[g]
            /\ (pc[p] = "SheetPayments" /\ reading[p].version[g] = ledgerVersion[g])
                  => reading[p].expenses[g] = ExpensesOf(g)

\* An expense being worked on is never erased under its handler.
RowsFound == \A p \in Procs : Place(p) \in NeedsRow => expenses[req[p].id] \in ExpenseRows

\* A payment never changes ledger, so undoing it bumps the group it was filed in.
LedgersKept == \A s \in PaymentIds : payments[s] \in PaymentRows => payments[s].group = LedgerOf(s)

\* Together they are inductive: every step preserves their conjunction.
IInv == TypeOK /\ RowsFound /\ LedgersKept /\ CacheCoherent /\ ReadingCoherent

\* At most one handler is past its turn on a key, and none waits for itself or
\* for a handler that waits for it (server/mutex.ts).
OneAtATime ==
    \A p, q \in Procs : p # q /\ on[p] = on[q] /\ on[p] # NoKey
        => (p \in waits[q]) # (q \in waits[p])

\* However often a request is replayed, and wherever the server restarts, the
\* feed says once that an expense or a payment was added, a batch counting as
\* one payment, and never of an expense that was not filed.
AnnouncedOnce ==
    /\ \A id \in ExpenseIds \cup PaymentIds : announced[id] <= 1
    /\ \A e \in ExpenseIds : announced[e] = 1 => expenses[e] # NoRow
    /\ \A b \in BatchIds : \A r, t \in BatchDraft[b].rows :
          announced[r.id] > 0 /\ announced[t.id] > 0 => r = t

\* The rows of one transfer live and die together: no interleaving of deletes
\* and restores leaves it half undone (settlements/[id]/route.ts).
BatchWhole ==
    \A s, t \in PaymentIds :
        (/\ There(payments[s]) /\ There(payments[t])
         /\ payments[s].batch # NoBatch /\ payments[s].batch = payments[t].batch)
            => payments[s].deleted = payments[t].deleted

\* An edit never lands on a version its editor had not seen, unless that
\* version came from the same sign-in, and never on a deleted expense
\* (updateExpense).
NoLostEdit ==
    [][\A p \in Procs :
         (pc[p] = "EditCommit" /\ pc'[p] = "idle" /\ req[p] # NoRequest /\ expenses' # expenses)
            => LET row == expenses[req[p].id]
               IN  /\ ~row.deleted
                   /\ row.version = req[p].expected \/ row.session = req[p].session]_vars

\* Nobody leaves, or is removed from, a group with a balance in it, by an account
\* closed or a group deleted neither, and no friendship is ended with anything
\* between the two in any ledger they share (members/[personId]/route.ts,
\* groups/[id]/route.ts, friends/[id]/route.ts, identity/account/route.ts).
SettledToLeave ==
    [][/\ \A g \in Groups : \A x \in Active(g) \ Active(g)' :
             people'[x] # "gone" => Net(Sheet(g), x) = 0
       /\ \A x, y \in People :
             ({x, y} \in friends \ friends' /\ {people'[x], people'[y]} = {"real"})
                => \A l \in SharedBy(x, y) \cup {NoGroup} : PairNet(Sheet(l), x, y) = 0]_vars

\* An account is closed only once nobody owes its owner, and its owner nobody,
\* anything in the direct ledger (identity/account/route.ts).
AccountSettled ==
    [][\A x, y \in People :
         (people[x] = "real" /\ people'[x] = "deleted") => PairNet(Sheet(NoGroup), x, y) = 0]_vars

\* Restoring an expense or a payment hands a share to nobody outside the group:
\* whoever it names was in it, or is a placeholder that comes back with it.
RestoreReopensNobody ==
    [][\A g \in Groups :
         (/\ \E e \in ExpenseIds : expenses[e] # NoRow /\ expenses[e].deleted
                                     /\ expenses'[e].group = g /\ ~expenses'[e].deleted
          \/ \E s \in PaymentIds : payments[s] # NoRow /\ payments[s].deleted
                                     /\ payments'[s] # NoRow
                                     /\ payments'[s].group = g /\ ~payments'[s].deleted)
            => \A x \in NamedIn(g)' \ NamedIn(g) :
                  x \in Active(g) \/ (people[x] = "ghost" /\ x \in Active(g)')]_vars

\* What people put down and what they owe for an expense add up to its amount.
BillsAddUp == \A e \in ExpenseIds : There(expenses[e]) => AddsUp(expenses[e].bill)

\* No live payment is from somebody to themselves.
NoSelfPayment ==
    \A s \in PaymentIds :
        (There(payments[s]) /\ ~payments[s].deleted) => payments[s].from # payments[s].to

\* Folding a placeholder into a person moves its balance and nobody else's.
MergeConserves ==
    [][\A ghost, into \in People :
         (/\ people[ghost] = "ghost" /\ people'[ghost] = "gone"
          /\ \E p \in Procs :
                /\ pc'[p] # pc[p]
                /\ \/ pc[p] = "MergeCommit" /\ req[p].who = ghost /\ req[p].into = into
                   \/ pc[p] = "JoinClaim" /\ req[p].claim = ghost /\ Me(p) = into)
            => \A g \in Groups : \A x \in People \ {ghost} :
                  Net(Sheet(g), x)' = Net(Sheet(g), x)
                       + (IF x = into THEN Net(Sheet(g), ghost) ELSE 0)]_vars

\* A debt is paid once: settling up never turns it round.
DebtPaidOnce ==
    \A l \in Ledgers : \A x, y \in People :
        LET owed == PairNet([Sheet(l) EXCEPT !.payments = {}], x, y)
        IN  owed >= 0 => PairNet(Sheet(l), x, y) \in 0 .. owed

\* Every request is answered, by the handler or by the connection dropping:
\* nobody waits for ever behind a key, whatever the handler holding it ran into.
Answered == \A p \in Procs : pc[p] # "idle" ~> pc[p] = "idle"

\* A settle-up of everything between two people pays no more than is still
\* outstanding when it is filed (settlements/batch/route.ts).
BatchWithinDebt ==
    [][\A p \in Procs : (pc[p] = "BatchCommit" /\ pc'[p] = "BatchAnnounce") =>
         LET other == BatchDraft[req[p].id].other
         IN  \A r \in BatchDraft[req[p].id].rows :
                /\ payments'[r.id].from = other => r.amount <= PairNet(Sheet(r.group), Me(p), other)
                /\ payments'[r.id].to = other => r.amount <= PairNet(Sheet(r.group), other, Me(p))]_vars

\* Once nobody is half way through leaving, a group with anybody on Divvy in it
\* has an owner who can manage it (members/[personId]/route.ts).
GroupHasAnOwner ==
    (\A p \in Procs : pc[p] \notin {"RemoveSuccessor", "RemovePromote"}) =>
        \A g \in Groups :
            (\E x \in Active(g) : people[x] = "real") => owners[g] \cap Active(g) # {}

=============================================================================
