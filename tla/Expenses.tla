------------------------------ MODULE Expenses ------------------------------
(***************************************************************************)
(* The expense handlers: POST /api/expenses, PATCH and DELETE              *)
(* /api/expenses/[id] and POST /api/expenses/[id]/restore, with            *)
(* prepareExpense (server/expense-input.ts), assertCanInvolve              *)
(* (server/access.ts), createExpense and updateExpense (server/write.ts).  *)
(***************************************************************************)
EXTENDS Ledger

CONSTANTS
    Draft,      \* what the composer minted an id for: its ledger and its bill
    Bills       \* what an edit may rewrite an expense to

ASSUME ExpensesAssumption ==
    /\ Draft \in [ExpenseIds -> [group : Ledgers, bill : Bills]]
    /\ Bills \subseteq [amount : Nat \ {0}, paid : [People -> Nat], owed : [People -> Nat]]

ExpenseRequests ==
    [op : {"create", "deleteExpense", "restoreExpense"}, session : Sessions, id : ExpenseIds]
      \cup [op : {"edit"}, session : Sessions, id : ExpenseIds, bill : Bills, expected : Nat]

\* The requests a client can send now: an edit quotes a version of the expense
\* that existed when its editor, perhaps offline since, opened it.
ExpenseArrivals ==
    {r \in [op : {"create", "deleteExpense", "restoreExpense"},
            session : Sessions, id : ExpenseIds] :
        r.op # "create" => expenses[r.id] # NoRow}
      \cup UNION {[op : {"edit"}, session : Sessions, id : {e}, bill : Bills,
                   expected : 1 .. expenses[e].version] :
                  e \in {f \in ExpenseIds : expenses[f] # NoRow}}

CreateAwaits  == {"create", "CreateInvolve", "CreateCommit", "CreateAnnounce"}
EditAwaits    == {"edit", "EditInvolve", "EditCheck", "EditCommit"}
DeleteAwaits  == {"deleteExpense", "DeleteCommit"}
RestoreAwaits == {"restoreExpense", "RestoreMembers", "RestoreCommit"}
\* Every endpoint but the first works on a row that is there to stay.
NeedsRow      == EditAwaits \cup DeleteAwaits \cup RestoreAwaits
ExpenseAwaits == CreateAwaits \cup NeedsRow

\* A handler at `label` answers a request r of the right shape.
ExpenseStage(label, r) ==
    /\ label \in ExpenseAwaits => r.session \in Sessions /\ r.id \in ExpenseIds
    /\ label \in EditAwaits => r.bill \in Bills /\ r.expected \in Nat

MayTouch(x, e) ==
    LET row == expenses[e]
    IN  IF row.group \in Groups THEN x \in Active(row.group)
        ELSE x = row.by \/ x \in Named(row.bill)

\* Outside a group every debt has to be between two friends.
DebtsBetweenFriends(bill, me) ==
    \A x, y \in People :
        (Claim(bill, x, y) > 0 /\ me \notin {x, y}) => {x, y} \in friends

CanInvolve(bill, me, l, already) ==
    IF l \in Groups
    THEN Named(bill) \subseteq Active(l) \cup already
    ELSE /\ \A x \in Named(bill) \ ({me} \cup already) : {me, x} \in friends
         /\ DebtsBetweenFriends(bill, me)

-----------------------------------------------------------------------------
(* POST /api/expenses *)

CreateAccess(p) ==
    /\ pc[p] = "create"
    /\ LET l == Draft[req[p].id].group
       IN  IF l \in Groups => Me(p) \in Active(l)
           THEN /\ Go(p, "CreateInvolve", Nothing)
                /\ UNCHANGED <<circle, rows, cache, announced>>
           ELSE Leave(p)

CreateInvolve(p) ==
    /\ pc[p] = "CreateInvolve"
    /\ LET d == Draft[req[p].id]
       IN  IF AddsUp(d.bill) /\ CanInvolve(d.bill, Me(p), d.group, {})
           THEN /\ Go(p, "CreateCommit", Nothing)
                /\ UNCHANGED <<circle, rows, cache, announced>>
           ELSE Leave(p)

ReplayAnnounced(p) ==                   \* mutant: answered like a first filing
    Go(p, "CreateAnnounce", Nothing) /\ UNCHANGED <<circle, rows, cache, announced>>
\* A collision on the id is a replay, answered with the row, or somebody
\* else's id, a 409: either way nothing is written and nothing is announced.
Replay(p) == Leave(p)

\* The row and the version bump in one transaction.
CreateCommit(p) ==
    /\ pc[p] = "CreateCommit"
    /\ LET d == Draft[req[p].id]
       IN  IF /\ expenses[req[p].id] = NoRow
              /\ Stands(d.group) /\ Exist(Named(d.bill))
           THEN /\ expenses' = [expenses EXCEPT ![req[p].id] =
                      [group |-> d.group, by |-> Me(p), bill |-> d.bill, deleted |-> FALSE,
                       version |-> 1, session |-> req[p].session]]
                /\ ledgerVersion' = Bumped({d.group})
                /\ Go(p, "CreateAnnounce", Nothing)
                /\ UNCHANGED <<circle, payments, cache, announced>>
           ELSE Replay(p)

CreateAnnounce(p) == pc[p] = "CreateAnnounce" /\ Announce(p, req[p].id, expenses[req[p].id])

-----------------------------------------------------------------------------
(* PATCH /api/expenses/[id] *)

EditLoad(p) ==
    /\ pc[p] = "edit"
    /\ LET e == req[p].id
       IN  IF ~expenses[e].deleted /\ MayTouch(Me(p), e)
           THEN /\ Go(p, "EditInvolve", [Nothing EXCEPT !.people = Named(expenses[e].bill)])
                /\ UNCHANGED <<circle, rows, cache, announced>>
           ELSE Leave(p)

EditInvolve(p) ==
    /\ pc[p] = "EditInvolve"
    /\ IF /\ AddsUp(req[p].bill)
          /\ CanInvolve(req[p].bill, Me(p), expenses[req[p].id].group, seen[p].people)
       THEN /\ Go(p, "EditCheck", Nothing)
            /\ UNCHANGED <<circle, rows, cache, announced>>
       ELSE Leave(p)

\* Refused when built on a version somebody else, or another of the editor's
\* devices, has since replaced.
EditCheck(p) ==
    /\ pc[p] = "EditCheck"
    /\ LET row == expenses[req[p].id]
       IN  IF /\ There(row) /\ ~row.deleted
              /\ row.version = req[p].expected \/ row.session = req[p].session
           THEN /\ Go(p, "EditCommit", [Nothing EXCEPT !.version = row.version])
                /\ UNCHANGED <<circle, rows, cache, announced>>
           ELSE Leave(p)

StillThere(e, version) == TRUE          \* mutant: updated by id alone
\* The update is conditioned on the version just checked.
StillAt(e, version) == expenses[e].version = version

EditCommit(p) ==
    /\ pc[p] = "EditCommit"
    /\ LET e == req[p].id
       IN  /\ IF /\ There(expenses[e]) /\ StillAt(e, seen[p].version)
                 /\ Exist(Named(req[p].bill))
              THEN /\ expenses' = [expenses EXCEPT ![e] =
                         [expenses[e] EXCEPT !.bill = req[p].bill, !.version = @ + 1,
                                             !.session = req[p].session]]
                   /\ ledgerVersion' = Bumped({expenses[e].group})
              ELSE UNCHANGED <<expenses, ledgerVersion>>
           /\ Finish(p)
           /\ UNCHANGED <<circle, payments, cache, announced>>

-----------------------------------------------------------------------------
(* DELETE /api/expenses/[id]: a tombstone, written whatever happened since.  *)

DeleteLoad(p) ==
    /\ pc[p] = "deleteExpense"
    /\ LET e == req[p].id
       IN  IF MayTouch(Me(p), e) /\ ~expenses[e].deleted
           THEN /\ Go(p, "DeleteCommit", Nothing)
                /\ UNCHANGED <<circle, rows, cache, announced>>
           ELSE Leave(p)

SetDeletedOnly(e, to) ==                \* mutant: no bumpLedger
    /\ expenses' = [expenses EXCEPT ![e] =
                      [expenses[e] EXCEPT !.deleted = to, !.version = @ + 1]]
    /\ UNCHANGED ledgerVersion
SetDeleted(e, to) ==
    /\ expenses' = [expenses EXCEPT ![e] =
                      [expenses[e] EXCEPT !.deleted = to, !.version = @ + 1]]
    /\ ledgerVersion' = Bumped({expenses[e].group})

DeleteCommit(p) ==
    /\ pc[p] = "DeleteCommit"
    /\ IF There(expenses[req[p].id])
       THEN /\ SetDeleted(req[p].id, TRUE)
            /\ Finish(p)
            /\ UNCHANGED <<circle, payments, cache, announced>>
       ELSE Leave(p)

-----------------------------------------------------------------------------
(* POST /api/expenses/[id]/restore *)

RestoreLoad(p) ==
    /\ pc[p] = "restoreExpense"
    /\ LET e == req[p].id
       IN  IF MayTouch(Me(p), e) /\ expenses[e].deleted
           THEN /\ Go(p, "RestoreMembers", [Nothing EXCEPT !.people = Named(expenses[e].bill)])
                /\ UNCHANGED <<circle, rows, cache, announced>>
           ELSE Leave(p)

\* Its group is still there, and everyone on it a member of it, or a placeholder
\* who left and comes back.
RestoreMembers(p) ==
    /\ pc[p] = "RestoreMembers"
    /\ LET g    == expenses[req[p].id].group
           gone == IF g \in Groups THEN seen[p].people \ Active(g) ELSE {}
       IN  IF Stands(g) /\ \A x \in gone : ComesBack(g, x)
           THEN /\ Go(p, "RestoreCommit", [Nothing EXCEPT !.people = gone])
                /\ UNCHANGED <<circle, rows, cache, announced>>
           ELSE Leave(p)

RestoreCommit(p) ==
    /\ pc[p] = "RestoreCommit"
    /\ LET g == expenses[req[p].id].group
       IN  IF There(expenses[req[p].id])
           THEN /\ SetDeleted(req[p].id, FALSE)
                /\ member' = [h \in Groups |-> [x \in People |->
                       IF h = g /\ x \in seen[p].people /\ member[h][x] = "left"
                       THEN "active" ELSE member[h][x]]]
                /\ Finish(p)
                /\ UNCHANGED <<people, owners, friends, disbanded, payments, cache, announced>>
           ELSE Leave(p)

ExpenseSteps(p) ==
    \/ CreateAccess(p) \/ CreateInvolve(p) \/ CreateCommit(p) \/ CreateAnnounce(p)
    \/ EditLoad(p) \/ EditInvolve(p) \/ EditCheck(p) \/ EditCommit(p)
    \/ DeleteLoad(p) \/ DeleteCommit(p)
    \/ RestoreLoad(p) \/ RestoreMembers(p) \/ RestoreCommit(p)

=============================================================================
