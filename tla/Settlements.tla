---------------------------- MODULE Settlements -----------------------------
(***************************************************************************)
(* The payment handlers: POST /api/settlements, POST                       *)
(* /api/settlements/batch, DELETE /api/settlements/[id] and POST           *)
(* /api/settlements/[id]/restore, with serialize (server/mutex.ts) and     *)
(* sharedLedgers (server/read.ts).                                         *)
(***************************************************************************)
EXTENDS Ledger

CONSTANTS
    NoBatch, BatchIds,
    PaymentDraft,   \* by id: [group, from, to, amount] as the client sends it
    BatchDraft      \* by batch: [other, rows], a row being [id, group, amount]

\* The payments recorded one at a time, and the ledger a row belongs to.
LoneIds == PaymentIds \ UNION {{r.id : r \in BatchDraft[b].rows} : b \in BatchIds}

ASSUME SettlementsAssumption ==
    /\ NoBatch \notin BatchIds
    /\ PaymentDraft \in [LoneIds -> [group : Ledgers, from : People, to : People,
                                     amount : Nat \ {0}]]
    /\ \A s \in LoneIds : PaymentDraft[s].from # PaymentDraft[s].to
    /\ \A b \in BatchIds :
          /\ BatchDraft[b].other \in People /\ BatchDraft[b].rows # {}
          /\ \A r, t \in BatchDraft[b].rows : r.group = t.group => r = t
          /\ \A r \in BatchDraft[b].rows :
                r.id \in PaymentIds /\ r.group \in Ledgers /\ r.amount \in Nat \ {0}
    \* The client numbers a batch's rows after the batch: no two share an id.
    /\ \A b, c \in BatchIds : \A r \in BatchDraft[b].rows, t \in BatchDraft[c].rows :
          r.id = t.id => b = c /\ r = t

PaymentRequests ==
    [op : {"pay"}, session : Sessions, id : LoneIds]
      \cup [op : {"batch"}, session : Sessions, id : BatchIds]
      \cup [op : {"deletePayment", "restorePayment"}, session : Sessions, id : PaymentIds]

PaymentArrivals ==
    {r \in PaymentRequests :
        /\ r.op = "batch" => PersonOf[r.session] # BatchDraft[r.id].other
        /\ r.op \in {"deletePayment", "restorePayment"} => payments[r.id] # NoRow}

PayAwaits     == {"pay", "PayMembers", "PayTurn", "PayCommit", "PayAnnounce"}
BatchAwaits   == {"batch", "BatchTurn", "BatchShared", "BatchCommit", "BatchAnnounce"}
UndoAwaits    == {"deletePayment", "UndoSiblings", "UndoCommit"}
RedoAwaits    == {"restorePayment", "RedoSiblings", "RedoMembers", "RedoCommit"}
PaymentAwaits == PayAwaits \cup BatchAwaits \cup UndoAwaits \cup RedoAwaits

PaymentStage(label, r) ==
    /\ label \in PaymentAwaits => r.session \in Sessions
    /\ label \in PayAwaits => r.id \in LoneIds
    /\ label \in BatchAwaits => r.id \in BatchIds
    /\ label \in UndoAwaits \cup RedoAwaits => r.id \in PaymentIds

LedgerOf(s) ==
    IF s \in LoneIds THEN PaymentDraft[s].group
    ELSE (CHOOSE r \in UNION {BatchDraft[b].rows : b \in BatchIds} : r.id = s).group

MaySee(x, s) ==
    LET row == payments[s]
    IN  IF row.group \in Groups THEN x \in Active(row.group)
        ELSE x \in {row.from, row.to}

-----------------------------------------------------------------------------
(* POST /api/settlements *)

Unchecked(ids) == TRUE          \* mutant: upserted rather than created
\* None of these ids has been filed.
Unfiled(ids) == \A s \in ids : payments[s] = NoRow

\* A replay is answered before any check that depends on the balance.
PayReplay(p) ==
    /\ pc[p] = "pay"
    /\ IF Unfiled({req[p].id})
       THEN /\ Go(p, "PayMembers", Nothing)
            /\ UNCHANGED <<circle, rows, cache, announced>>
       ELSE Leave(p)

PayKey(d) == IF d.group \in Groups THEN GroupKey(d.group) ELSE PairKey(d.from, d.to)

PayMembers(p) ==
    /\ pc[p] = "PayMembers"
    /\ LET d == PaymentDraft[req[p].id]
       IN  IF IF d.group \in Groups
              THEN {Me(p), d.from, d.to} \subseteq Active(d.group)
              ELSE Me(p) \in {d.from, d.to} /\ {d.from, d.to} \in friends
           THEN /\ Enqueue(p, PayKey(d), "PayTurn")
                /\ UNCHANGED <<circle, rows, cache, announced>>
           ELSE Leave(p)

ThirdParty(p, d) == d.group \in Groups /\ Me(p) \notin {d.from, d.to}

\* Only a payment between two other people has a ceiling, so only that one
\* reads the group's sheet.
PayTurn(p) ==
    /\ pc[p] = "PayTurn"
    /\ LET d == PaymentDraft[req[p].id]
       IN  /\ HasTurn(p)
           /\ ReadSheets(p, IF ThirdParty(p, d) THEN {d.group} ELSE {}, "PayCommit", Nothing)
    /\ UNCHANGED <<circle, rows, cache, announced>>

Ceiling(sheet, from, to) ==
    LET payerOwes == -Net(sheet, from)
        payeeIsOwed == Net(sheet, to)
    IN  IF payerOwes < payeeIsOwed THEN payerOwes ELSE payeeIsOwed

\* The ceiling is checked on the sheet read a moment ago, then the row and the
\* bump go in as one transaction, unless the id is taken by now.
PayCommit(p) ==
    /\ pc[p] = "PayCommit"
    /\ LET d == PaymentDraft[req[p].id]
       IN  IF /\ ThirdParty(p, d) =>
                    d.amount <= Ceiling(reading[p].sheet[d.group], d.from, d.to)
              /\ Unfiled({req[p].id})
              /\ Stands(d.group) /\ Exist({d.from, d.to})
           THEN /\ payments' = [payments EXCEPT ![req[p].id] =
                      [group |-> d.group, from |-> d.from, to |-> d.to, amount |-> d.amount,
                       by |-> Me(p), batch |-> NoBatch, deleted |-> FALSE]]
                /\ ledgerVersion' = Bumped({d.group})
                /\ Go(p, "PayAnnounce", Nothing)
                /\ UNCHANGED <<circle, expenses, cache, announced>>
           ELSE Leave(p)

PayAnnounce(p) == pc[p] = "PayAnnounce" /\ Announce(p, req[p].id, payments[req[p].id])

-----------------------------------------------------------------------------
(* POST /api/settlements/batch *)

BatchStart(p) ==
    /\ pc[p] = "batch"
    /\ LET other == BatchDraft[req[p].id].other
       IN  IF people[other] \in {"ghost", "real"}
           THEN /\ Enqueue(p, PairKey(Me(p), other), "BatchTurn")
                /\ UNCHANGED <<circle, rows, cache, announced>>
           ELSE Leave(p)

\* Any row of it already filed: the replay's answer, or a conflict.
BatchTurn(p) ==
    /\ pc[p] = "BatchTurn"
    /\ LET b == BatchDraft[req[p].id]
       IN  /\ HasTurn(p)
           /\ IF Unfiled({r.id : r \in b.rows})
              THEN /\ Go(p, "BatchShared", Nothing)
                   /\ UNCHANGED <<circle, rows, cache, announced>>
              ELSE Leave(p)

\* sharedLedgers: the direct rows are folded afresh, the groups the two share
\* through the cache.
BatchShared(p) ==
    /\ pc[p] = "BatchShared"
    /\ LET other  == BatchDraft[req[p].id].other
           shared == {g \in Groups : {Me(p), other} \subseteq Active(g)}
       IN  ReadSheets(p, shared, "BatchCommit",
                      [Nothing EXCEPT !.direct = Sheet(NoGroup)])
    /\ UNCHANGED <<circle, rows, cache, announced>>

\* What the other person owes, as read, in one of the ledgers the two share.
Outstanding(p, l) ==
    LET other == BatchDraft[req[p].id].other
    IN  PairNet(IF l = NoGroup THEN seen[p].direct ELSE reading[p].sheet[l], Me(p), other)

Abs(n) == IF n < 0 THEN -n ELSE n

\* Every row within what is outstanding in its ledger, in the direction that
\* ledger runs; then all of them, and the bumps, in one transaction.
BatchCommit(p) ==
    /\ pc[p] = "BatchCommit"
    /\ LET b     == BatchDraft[req[p].id]
           ids   == {r.id : r \in b.rows}
           Of(s) == CHOOSE r \in b.rows : r.id = s
           Row(r) == LET owed == Outstanding(p, r.group) > 0
                     IN  [group |-> r.group, amount |-> r.amount, by |-> Me(p),
                          from |-> IF owed THEN b.other ELSE Me(p),
                          to   |-> IF owed THEN Me(p) ELSE b.other,
                          batch |-> req[p].id, deleted |-> FALSE]
       IN  IF /\ \A r \in b.rows : r.amount <= Abs(Outstanding(p, r.group))
              /\ Unfiled(ids)
              /\ Exist({Me(p), b.other}) /\ \A r \in b.rows : Stands(r.group)
           THEN /\ payments' = [s \in PaymentIds |-> IF s \in ids THEN Row(Of(s))
                                                     ELSE payments[s]]
                /\ ledgerVersion' = Bumped({r.group : r \in b.rows})
                /\ Go(p, "BatchAnnounce", Nothing)
                /\ UNCHANGED <<circle, expenses, cache, announced>>
           ELSE Leave(p)

\* One entry for one payment, naming its first row.
BatchAnnounce(p) ==
    /\ pc[p] = "BatchAnnounce"
    /\ LET first == CHOOSE s \in {r.id : r \in BatchDraft[req[p].id].rows} : TRUE
       IN  Announce(p, first, payments[first])

-----------------------------------------------------------------------------
(* DELETE /api/settlements/[id] and POST /api/settlements/[id]/restore:    *)
(* the whole batch the row belongs to goes, and comes back, together.      *)

RowAlone(s, deleted) == {s}     \* mutant: its siblings forgotten
Batch(s, deleted) ==
    IF payments[s].batch = NoBatch THEN {s}
    ELSE {t \in PaymentIds : /\ There(payments[t])
                             /\ payments[t].batch = payments[s].batch
                             /\ payments[t].deleted = deleted}

UndoLoad(p) ==
    /\ pc[p] = "deletePayment"
    /\ LET s == req[p].id
       IN  IF payments[s] # NoRow /\ MaySee(Me(p), s) /\ ~payments[s].deleted
           THEN /\ Go(p, "UndoSiblings", Nothing)
                /\ UNCHANGED <<circle, rows, cache, announced>>
           ELSE Leave(p)

UndoSiblings(p) ==
    /\ pc[p] = "UndoSiblings"
    /\ LET s == req[p].id
           siblings == IF payments[s] = NoRow THEN {s} \cap LoneIds ELSE Batch(s, FALSE)
       IN  IF \A t \in siblings \ {s} : MaySee(Me(p), t)
           THEN /\ Go(p, "UndoCommit", [Nothing EXCEPT !.rows = siblings])
                /\ UNCHANGED <<circle, rows, cache, announced>>
           ELSE Leave(p)

MarkPaymentsOnly(ids, to) ==            \* mutant: no bumpLedger
    /\ payments' = [s \in PaymentIds |-> IF s \in ids /\ There(payments[s])
                                         THEN [payments[s] EXCEPT !.deleted = to]
                                         ELSE payments[s]]
    /\ UNCHANGED ledgerVersion
\* updateMany over the ids read above; a row deleted for good meanwhile is not
\* there to update.
MarkPayments(ids, to) ==
    LET there == {s \in ids : There(payments[s])}
    IN  /\ payments' = [s \in PaymentIds |-> IF s \in there
                                             THEN [payments[s] EXCEPT !.deleted = to]
                                             ELSE payments[s]]
        /\ ledgerVersion' = Bumped({LedgerOf(s) : s \in ids})

UndoCommit(p) ==
    /\ pc[p] = "UndoCommit"
    /\ MarkPayments(seen[p].rows, TRUE)
    /\ Finish(p)
    /\ UNCHANGED <<circle, expenses, cache, announced>>

RedoLoad(p) ==
    /\ pc[p] = "restorePayment"
    /\ LET s == req[p].id
       IN  IF payments[s] # NoRow /\ MaySee(Me(p), s) /\ payments[s].deleted
           THEN /\ Go(p, "RedoSiblings", Nothing)
                /\ UNCHANGED <<circle, rows, cache, announced>>
           ELSE Leave(p)

RedoSiblings(p) ==
    /\ pc[p] = "RedoSiblings"
    /\ LET s == req[p].id
           siblings == IF payments[s] = NoRow THEN {} ELSE Batch(s, TRUE)
       IN  IF \A t \in siblings : MaySee(Me(p), t)
           THEN /\ Go(p, "RedoMembers", [Nothing EXCEPT !.rows = siblings])
                /\ UNCHANGED <<circle, rows, cache, announced>>
           ELSE Leave(p)

\* Two people, each in the group or a placeholder who left and comes back.
RedoMembers(p) ==
    /\ pc[p] = "RedoMembers"
    /\ LET grouped == {s \in seen[p].rows : payments[s] # NoRow /\ payments[s].group \in Groups}
           seats   == UNION {{payments[s].group} \X {payments[s].from, payments[s].to} :
                             s \in grouped}
           away    == {t \in seats : t[2] \notin Active(t[1])}
       IN  IF /\ \A s \in grouped : payments[s].from # payments[s].to
              /\ \A t \in away : ComesBack(t[1], t[2])
           THEN /\ Go(p, "RedoCommit", [Nothing EXCEPT !.rows = seen[p].rows, !.seats = away])
                /\ UNCHANGED <<circle, rows, cache, announced>>
           ELSE Leave(p)

RedoCommit(p) ==
    /\ pc[p] = "RedoCommit"
    /\ MarkPayments(seen[p].rows, FALSE)
    /\ member' = [g \in Groups |-> [x \in People |->
           IF <<g, x>> \in seen[p].seats /\ member[g][x] = "left" THEN "active"
           ELSE member[g][x]]]
    /\ Finish(p)
    /\ UNCHANGED <<people, owners, friends, disbanded, expenses, cache, announced>>

PaymentSteps(p) ==
    \/ PayReplay(p) \/ PayMembers(p) \/ PayTurn(p) \/ PayCommit(p) \/ PayAnnounce(p)
    \/ BatchStart(p) \/ BatchTurn(p) \/ BatchShared(p) \/ BatchCommit(p) \/ BatchAnnounce(p)
    \/ UndoLoad(p) \/ UndoSiblings(p) \/ UndoCommit(p)
    \/ RedoLoad(p) \/ RedoSiblings(p) \/ RedoMembers(p) \/ RedoCommit(p)

=============================================================================
