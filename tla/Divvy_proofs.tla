---------------------------- MODULE Divvy_proofs -----------------------------
(***************************************************************************)
(* Theorems about the server of module Divvy, for any number of handlers,  *)
(* people, groups and rows.                                                *)
(***************************************************************************)
EXTENDS Divvy, TLAPS

\* The request a handler at `label` answers is of the right shape.
Staged(label, r) ==
    /\ ExpenseStage(label, r) /\ PaymentStage(label, r)
    /\ MemberStage(label, r) /\ EndingStage(label, r)

\* An expense row, once filed, is never erased, and a group deleted stays deleted.
Kept ==
    /\ \A e \in ExpenseIds : expenses[e] \in ExpenseRows => expenses'[e] \in ExpenseRows
    /\ disbanded \subseteq disbanded'

\* A step that fills no sheet: nobody moves on in the middle of reading one.
Quiet ==
    /\ cache' = cache
    /\ strayed' = strayed \cup Strays
    /\ Kept
    /\ \A q \in Procs : pc'[q] \in {"SheetExpenses", "SheetPayments"} =>
                            pc'[q] = pc[q] /\ reading'[q] = reading[q]

-----------------------------------------------------------------------------
(* Handlers moving from one await to the next.                             *)

LEMMA StagedId ==
    ASSUME NEW label, NEW r, ExpenseStage(label, r), label \in NeedsRow
    PROVE  r.id \in ExpenseIds
BY DEF ExpenseStage, NeedsRow, ExpenseAwaits

LEMMA IdleStaged ==
    Staged("idle", NoRequest) /\ "idle" \in Awaits \ SheetAwaits /\ "idle" \notin NeedsRow
BY DEF Staged, ExpenseStage, PaymentStage, MemberStage, EndingStage, Awaits, SheetAwaits,
       NeedsRow, ExpenseAwaits, CreateAwaits, EditAwaits, DeleteAwaits, RestoreAwaits,
       PaymentAwaits, PayAwaits, BatchAwaits, UndoAwaits, RedoAwaits,
       MemberAwaits, GroupAwaits, LookAwaits, RemoveAwaits, MergeAwaits, JoinAwaits, AddAwaits,
       EndingAwaits, FriendAwaits, DisbandAwaits, CloseAwaits

LEMMA SheetAwaitsAre == SheetAwaits \subseteq Awaits
BY DEF Awaits

\* A request that fits one await of an endpoint fits them all.
LEMMA CreateStaged ==
    ASSUME NEW r, NEW l \in CreateAwaits, NEW m \in CreateAwaits, Staged(l, r)
    PROVE  /\ Staged(m, r) /\ m \in Awaits \ SheetAwaits /\ m \notin NeedsRow
           /\ r.session \in Sessions /\ r.id \in ExpenseIds
BY DEF Staged, ExpenseStage, PaymentStage, MemberStage, EndingStage, Awaits, SheetAwaits,
       NeedsRow, ExpenseAwaits, CreateAwaits, EditAwaits, DeleteAwaits, RestoreAwaits,
       PaymentAwaits, PayAwaits, BatchAwaits, UndoAwaits, RedoAwaits,
       MemberAwaits, GroupAwaits, LookAwaits, RemoveAwaits, MergeAwaits, JoinAwaits, AddAwaits,
       EndingAwaits, FriendAwaits, DisbandAwaits, CloseAwaits

LEMMA EditStaged ==
    ASSUME NEW r, NEW l \in EditAwaits, NEW m \in EditAwaits, Staged(l, r)
    PROVE  /\ Staged(m, r) /\ m \in Awaits \ SheetAwaits /\ m \in NeedsRow
           /\ r.session \in Sessions /\ r.id \in ExpenseIds
           /\ r.bill \in Bills /\ r.expected \in Nat
BY DEF Staged, ExpenseStage, PaymentStage, MemberStage, EndingStage, Awaits, SheetAwaits,
       NeedsRow, ExpenseAwaits, CreateAwaits, EditAwaits, DeleteAwaits, RestoreAwaits,
       PaymentAwaits, PayAwaits, BatchAwaits, UndoAwaits, RedoAwaits,
       MemberAwaits, GroupAwaits, LookAwaits, RemoveAwaits, MergeAwaits, JoinAwaits, AddAwaits,
       EndingAwaits, FriendAwaits, DisbandAwaits, CloseAwaits

LEMMA DeleteStaged ==
    ASSUME NEW r, NEW l \in DeleteAwaits, NEW m \in DeleteAwaits, Staged(l, r)
    PROVE  /\ Staged(m, r) /\ m \in Awaits \ SheetAwaits /\ m \in NeedsRow
           /\ r.session \in Sessions /\ r.id \in ExpenseIds
BY DEF Staged, ExpenseStage, PaymentStage, MemberStage, EndingStage, Awaits, SheetAwaits,
       NeedsRow, ExpenseAwaits, CreateAwaits, EditAwaits, DeleteAwaits, RestoreAwaits,
       PaymentAwaits, PayAwaits, BatchAwaits, UndoAwaits, RedoAwaits,
       MemberAwaits, GroupAwaits, LookAwaits, RemoveAwaits, MergeAwaits, JoinAwaits, AddAwaits,
       EndingAwaits, FriendAwaits, DisbandAwaits, CloseAwaits

LEMMA RestoreStaged ==
    ASSUME NEW r, NEW l \in RestoreAwaits, NEW m \in RestoreAwaits, Staged(l, r)
    PROVE  /\ Staged(m, r) /\ m \in Awaits \ SheetAwaits /\ m \in NeedsRow
           /\ r.session \in Sessions /\ r.id \in ExpenseIds
BY DEF Staged, ExpenseStage, PaymentStage, MemberStage, EndingStage, Awaits, SheetAwaits,
       NeedsRow, ExpenseAwaits, CreateAwaits, EditAwaits, DeleteAwaits, RestoreAwaits,
       PaymentAwaits, PayAwaits, BatchAwaits, UndoAwaits, RedoAwaits,
       MemberAwaits, GroupAwaits, LookAwaits, RemoveAwaits, MergeAwaits, JoinAwaits, AddAwaits,
       EndingAwaits, FriendAwaits, DisbandAwaits, CloseAwaits

LEMMA PayStaged ==
    ASSUME NEW r, NEW l \in PayAwaits, NEW m \in PayAwaits, Staged(l, r)
    PROVE  /\ Staged(m, r) /\ m \in Awaits \ SheetAwaits /\ m \notin NeedsRow
           /\ r.session \in Sessions /\ r.id \in LoneIds
BY DEF Staged, ExpenseStage, PaymentStage, MemberStage, EndingStage, Awaits, SheetAwaits,
       NeedsRow, ExpenseAwaits, CreateAwaits, EditAwaits, DeleteAwaits, RestoreAwaits,
       PaymentAwaits, PayAwaits, BatchAwaits, UndoAwaits, RedoAwaits,
       MemberAwaits, GroupAwaits, LookAwaits, RemoveAwaits, MergeAwaits, JoinAwaits, AddAwaits,
       EndingAwaits, FriendAwaits, DisbandAwaits, CloseAwaits

LEMMA BatchStaged ==
    ASSUME NEW r, NEW l \in BatchAwaits, NEW m \in BatchAwaits, Staged(l, r)
    PROVE  /\ Staged(m, r) /\ m \in Awaits \ SheetAwaits /\ m \notin NeedsRow
           /\ r.session \in Sessions /\ r.id \in BatchIds
BY DEF Staged, ExpenseStage, PaymentStage, MemberStage, EndingStage, Awaits, SheetAwaits,
       NeedsRow, ExpenseAwaits, CreateAwaits, EditAwaits, DeleteAwaits, RestoreAwaits,
       PaymentAwaits, PayAwaits, BatchAwaits, UndoAwaits, RedoAwaits,
       MemberAwaits, GroupAwaits, LookAwaits, RemoveAwaits, MergeAwaits, JoinAwaits, AddAwaits,
       EndingAwaits, FriendAwaits, DisbandAwaits, CloseAwaits

LEMMA UndoStaged ==
    ASSUME NEW r, NEW l \in UndoAwaits, NEW m \in UndoAwaits, Staged(l, r)
    PROVE  /\ Staged(m, r) /\ m \in Awaits \ SheetAwaits /\ m \notin NeedsRow
           /\ r.session \in Sessions /\ r.id \in PaymentIds
BY DEF Staged, ExpenseStage, PaymentStage, MemberStage, EndingStage, Awaits, SheetAwaits,
       NeedsRow, ExpenseAwaits, CreateAwaits, EditAwaits, DeleteAwaits, RestoreAwaits,
       PaymentAwaits, PayAwaits, BatchAwaits, UndoAwaits, RedoAwaits,
       MemberAwaits, GroupAwaits, LookAwaits, RemoveAwaits, MergeAwaits, JoinAwaits, AddAwaits,
       EndingAwaits, FriendAwaits, DisbandAwaits, CloseAwaits

LEMMA RedoStaged ==
    ASSUME NEW r, NEW l \in RedoAwaits, NEW m \in RedoAwaits, Staged(l, r)
    PROVE  /\ Staged(m, r) /\ m \in Awaits \ SheetAwaits /\ m \notin NeedsRow
           /\ r.session \in Sessions /\ r.id \in PaymentIds
BY DEF Staged, ExpenseStage, PaymentStage, MemberStage, EndingStage, Awaits, SheetAwaits,
       NeedsRow, ExpenseAwaits, CreateAwaits, EditAwaits, DeleteAwaits, RestoreAwaits,
       PaymentAwaits, PayAwaits, BatchAwaits, UndoAwaits, RedoAwaits,
       MemberAwaits, GroupAwaits, LookAwaits, RemoveAwaits, MergeAwaits, JoinAwaits, AddAwaits,
       EndingAwaits, FriendAwaits, DisbandAwaits, CloseAwaits

LEMMA LookStaged ==
    ASSUME NEW r, NEW l \in LookAwaits, NEW m \in LookAwaits, Staged(l, r)
    PROVE  /\ Staged(m, r) /\ m \in Awaits \ SheetAwaits /\ m \notin NeedsRow
           /\ r.session \in Sessions /\ r.group \in Groups
BY DEF Staged, ExpenseStage, PaymentStage, MemberStage, EndingStage, Awaits, SheetAwaits,
       NeedsRow, ExpenseAwaits, CreateAwaits, EditAwaits, DeleteAwaits, RestoreAwaits,
       PaymentAwaits, PayAwaits, BatchAwaits, UndoAwaits, RedoAwaits,
       MemberAwaits, GroupAwaits, LookAwaits, RemoveAwaits, MergeAwaits, JoinAwaits, AddAwaits,
       EndingAwaits, FriendAwaits, DisbandAwaits, CloseAwaits

LEMMA RemoveStaged ==
    ASSUME NEW r, NEW l \in RemoveAwaits, NEW m \in RemoveAwaits, Staged(l, r)
    PROVE  /\ Staged(m, r) /\ m \in Awaits \ SheetAwaits /\ m \notin NeedsRow
           /\ r.session \in Sessions /\ r.group \in Groups /\ r.who \in People
BY DEF Staged, ExpenseStage, PaymentStage, MemberStage, EndingStage, Awaits, SheetAwaits,
       NeedsRow, ExpenseAwaits, CreateAwaits, EditAwaits, DeleteAwaits, RestoreAwaits,
       PaymentAwaits, PayAwaits, BatchAwaits, UndoAwaits, RedoAwaits,
       MemberAwaits, GroupAwaits, LookAwaits, RemoveAwaits, MergeAwaits, JoinAwaits, AddAwaits,
       EndingAwaits, FriendAwaits, DisbandAwaits, CloseAwaits

LEMMA MergeStaged ==
    ASSUME NEW r, NEW l \in MergeAwaits, NEW m \in MergeAwaits, Staged(l, r)
    PROVE  /\ Staged(m, r) /\ m \in Awaits \ SheetAwaits /\ m \notin NeedsRow
           /\ r.session \in Sessions /\ r.who \in People /\ r.into \in People
BY DEF Staged, ExpenseStage, PaymentStage, MemberStage, EndingStage, Awaits, SheetAwaits,
       NeedsRow, ExpenseAwaits, CreateAwaits, EditAwaits, DeleteAwaits, RestoreAwaits,
       PaymentAwaits, PayAwaits, BatchAwaits, UndoAwaits, RedoAwaits,
       MemberAwaits, GroupAwaits, LookAwaits, RemoveAwaits, MergeAwaits, JoinAwaits, AddAwaits,
       EndingAwaits, FriendAwaits, DisbandAwaits, CloseAwaits

LEMMA AddStaged ==
    ASSUME NEW r, NEW l \in AddAwaits, NEW m \in AddAwaits, Staged(l, r)
    PROVE  /\ Staged(m, r) /\ m \in Awaits \ SheetAwaits /\ m \notin NeedsRow
           /\ r.session \in Sessions /\ r.group \in Groups /\ r.who \in People
BY DEF Staged, ExpenseStage, PaymentStage, MemberStage, EndingStage, Awaits, SheetAwaits,
       NeedsRow, ExpenseAwaits, CreateAwaits, EditAwaits, DeleteAwaits, RestoreAwaits,
       PaymentAwaits, PayAwaits, BatchAwaits, UndoAwaits, RedoAwaits,
       MemberAwaits, GroupAwaits, LookAwaits, RemoveAwaits, MergeAwaits, JoinAwaits, AddAwaits,
       EndingAwaits, FriendAwaits, DisbandAwaits, CloseAwaits

LEMMA JoinStaged ==
    ASSUME NEW r, NEW l \in JoinAwaits, NEW m \in JoinAwaits, Staged(l, r),
           m = "join" => r.claim \in People \cup {NoClaim}, m = "JoinClaim" => r.claim \in People
    PROVE  /\ Staged(m, r) /\ m \in Awaits \ SheetAwaits /\ m \notin NeedsRow
           /\ r.session \in Sessions /\ r.group \in Groups
BY DEF Staged, ExpenseStage, PaymentStage, MemberStage, EndingStage, Awaits, SheetAwaits,
       NeedsRow, ExpenseAwaits, CreateAwaits, EditAwaits, DeleteAwaits, RestoreAwaits,
       PaymentAwaits, PayAwaits, BatchAwaits, UndoAwaits, RedoAwaits,
       MemberAwaits, GroupAwaits, LookAwaits, RemoveAwaits, MergeAwaits, JoinAwaits, AddAwaits,
       EndingAwaits, FriendAwaits, DisbandAwaits, CloseAwaits

LEMMA NothingTyped == Nothing \in Sightings /\ NotReading \in Readings
<1>1. EmptySheet \in Sheets
  BY DEF EmptySheet, Sheets, ExpenseFolds
<1>2. Nothing \in Sightings
  BY <1>1 DEF Nothing, Sightings
<1>3. [g \in Groups |-> {}] \in [Groups -> ExpenseFolds]
  BY DEF ExpenseFolds
<1>4. NotReading \in Readings
  BY <1>1, <1>3, IdleStaged DEF NotReading, Readings
<1> QED BY <1>2, <1>4

LEMMA GoControl ==
    ASSUME ControlOK, RowsFound, Kept, cache' = cache,
           NEW p \in Procs, NEW label \in Awaits \ SheetAwaits, NEW what \in Sightings,
           Go(p, label, what), Staged(label, req[p]),
           label \in NeedsRow => expenses[req[p].id] \in ExpenseRows
    PROVE  ControlOK' /\ RowsFound' /\ Quiet
<1>1. Place(p)' = label /\ req'[p] = req[p]
  BY DEF Go, To, Place, ControlOK, SheetAwaits
<1>2. \A q \in Procs \ {p} : Place(q)' = Place(q) /\ req'[q] = req[q]
  BY DEF Go, To, Place, ControlOK
<1>3. ControlOK'
  BY <1>1, <1>2 DEF ControlOK, Go, To, Staged, Strays
<1>4. RowsFound'
  BY <1>1, <1>2, StagedId DEF RowsFound, Kept, ControlOK, Staged
<1>5. Quiet
  BY DEF Quiet, Kept, Go, To, ControlOK, SheetAwaits
<1> QED BY <1>3, <1>4, <1>5

LEMMA FinishControl ==
    ASSUME ControlOK, RowsFound, Kept, cache' = cache, NEW p \in Procs, Finish(p)
    PROVE  ControlOK' /\ RowsFound' /\ Quiet
<1>1. Place(p)' = "idle" /\ req'[p] = NoRequest
  BY IdleStaged DEF Finish, To, Place, ControlOK
<1>2. \A q \in Procs \ {p} : Place(q)' = Place(q) /\ req'[q] = req[q]
  BY DEF Finish, To, Place, ControlOK
<1>3. ControlOK'
  <2>1. waits' \in [Procs -> SUBSET Procs]
    BY DEF ControlOK, Finish, Released
  <2>2. on' \in [Procs -> Keys \cup {NoKey}] /\ DOMAIN req' = Procs
    BY DEF ControlOK, Finish
  <2>3. pc' \in [Procs -> Awaits]
    BY IdleStaged DEF ControlOK, Finish, To
  <2>4. seen' \in [Procs -> Sightings] /\ reading' \in [Procs -> Readings]
    BY NothingTyped DEF ControlOK, Finish
  <2>6. arrived' \in Nat /\ strayed' \subseteq Groups
    BY DEF ControlOK, Finish, To, Strays
  <2>5. \A q \in Procs : Staged(Place(q)', req'[q])
    BY <1>1, <1>2, IdleStaged DEF ControlOK, Staged
  <2> QED BY <2>1, <2>2, <2>3, <2>4, <2>5, <2>6 DEF ControlOK, Staged
<1>4. RowsFound'
  BY <1>1, <1>2, StagedId, IdleStaged DEF RowsFound, Kept, ControlOK
<1>5. Quiet
  BY DEF Quiet, Kept, Finish, To, ControlOK
<1> QED BY <1>3, <1>4, <1>5

LEMMA EnqueueControl ==
    ASSUME ControlOK, RowsFound, Kept, cache' = cache,
           NEW p \in Procs, NEW key \in Keys, NEW label \in Awaits \ SheetAwaits,
           Enqueue(p, key, label), Staged(label, req[p]), label \notin NeedsRow
    PROVE  ControlOK' /\ RowsFound' /\ Quiet
<1>1. Place(p)' = label /\ req'[p] = req[p]
  BY DEF Enqueue, To, Place, ControlOK, SheetAwaits
<1>2. \A q \in Procs \ {p} : Place(q)' = Place(q) /\ req'[q] = req[q]
  BY DEF Enqueue, To, Place, ControlOK
<1>3. ControlOK'
  BY <1>1, <1>2 DEF ControlOK, Enqueue, To, Staged, Strays
<1>4. RowsFound'
  BY <1>1, <1>2, StagedId DEF RowsFound, Kept, ControlOK
<1>5. Quiet
  BY DEF Quiet, Kept, Enqueue, To, ControlOK, SheetAwaits
<1> QED BY <1>3, <1>4, <1>5

LEMMA ReadSheetsControl ==
    ASSUME ControlOK, RowsFound, Kept, cache' = cache,
           NEW p \in Procs, NEW groups \in SUBSET Groups,
           NEW label \in Awaits \ SheetAwaits, NEW what \in Sightings,
           ReadSheets(p, groups, label, what), Staged(label, req[p]), label \notin NeedsRow
    PROVE  ControlOK' /\ RowsFound' /\ Quiet
<1>0. [NotReading EXCEPT !.groups = groups, !.then = label] \in Readings
  BY NothingTyped DEF Readings
<1>1. Place(p)' = label /\ req'[p] = req[p]
  BY DEF ReadSheets, To, Place, ControlOK, SheetAwaits, NotReading
<1>2. \A q \in Procs \ {p} : Place(q)' = Place(q) /\ req'[q] = req[q]
  BY DEF ReadSheets, To, Place, ControlOK
<1>3. ControlOK'
  <2>1. pc' \in [Procs -> Awaits]
    BY SheetAwaitsAre DEF ControlOK, ReadSheets, To, SheetAwaits
  <2>2. reading' \in [Procs -> Readings] /\ seen' \in [Procs -> Sightings]
    BY <1>0 DEF ControlOK, ReadSheets
  <2>3. arrived' \in Nat /\ strayed' \subseteq Groups
    BY DEF ControlOK, ReadSheets, To, Strays
  <2> QED BY <1>1, <1>2, <2>1, <2>2, <2>3 DEF ControlOK, ReadSheets, Staged
<1>4. RowsFound'
  BY <1>1, <1>2, StagedId DEF RowsFound, Kept, ControlOK
<1>5. Quiet
  BY DEF Quiet, Kept, ReadSheets, To, ControlOK, SheetAwaits
<1> QED BY <1>3, <1>4, <1>5

-----------------------------------------------------------------------------
(* What every step but those that read sheets keeps and establishes.       *)

Before == TypeOK /\ RowsFound /\ LedgersKept
After  == TypeOK' /\ RowsFound' /\ LedgersKept' /\ Quiet /\ BumpsWhatItChanges

LEMMA Announced ==
    ASSUME Before, UNCHANGED <<circle, rows, cache>>,
           announced' \in [ExpenseIds \cup PaymentIds -> Nat]
    PROVE  DataOK' /\ Kept /\ LedgersKept' /\ BumpsWhatItChanges /\ cache' = cache
<1>1. DataOK' /\ cache' = cache
  BY DEF Before, TypeOK, DataOK, circle, rows
<1>2. Kept /\ LedgersKept'
  BY DEF Before, LedgersKept, Kept, rows, circle
<1>3. BumpsWhatItChanges
  BY DEF Before, TypeOK, DataOK, BumpsWhatItChanges, rows, circle, Sheet, ExpensesOf,
     PaymentsOf,
         LiveExpenses, LivePayments, There, Stands
<1> QED BY <1>1, <1>2, <1>3

LEMMA Untouched ==
    ASSUME Before, UNCHANGED <<circle, rows, cache, announced>>
    PROVE  DataOK' /\ Kept /\ LedgersKept' /\ BumpsWhatItChanges /\ cache' = cache
BY Announced DEF Before, TypeOK, DataOK

LEMMA LeaveStep ==
    ASSUME Before, NEW p \in Procs, Leave(p)
    PROVE  After
BY Untouched, FinishControl DEF Leave, Before, After, TypeOK

LEMMA AnnounceStep ==
    ASSUME Before, NEW p \in Procs, NEW id, NEW row, Announce(p, id, row)
    PROVE  After
<1>1. CASE Leave(p)
  BY <1>1, LeaveStep
<1>2. CASE /\ announced' = [announced EXCEPT ![id] = @ + 1]
           /\ Finish(p)
           /\ UNCHANGED <<circle, rows, cache>>
  <2>1. announced' \in [ExpenseIds \cup PaymentIds -> Nat]
    <3> DEFINE ids == ExpenseIds \cup PaymentIds
    <3>1. announced \in [ids -> Nat] /\ announced' = [announced EXCEPT ![id] = @ + 1]
      BY <1>2 DEF Before, TypeOK, DataOK
    <3> HIDE DEF ids
    <3>2. \A x \in ids : announced'[x] \in Nat
      BY <3>1
    <3>3. announced' \in [ids -> Nat]
      BY <3>1, <3>2
    <3> QED BY <3>3 DEF ids
  <2>2. DataOK' /\ Kept /\ LedgersKept' /\ BumpsWhatItChanges /\ cache' = cache
    BY <1>2, <2>1, Announced
  <2> QED BY <1>2, <2>2, FinishControl DEF Before, After, TypeOK
<1> QED BY <1>1, <1>2 DEF Announce

LEMMA FinishStep ==
    ASSUME Before, NEW p \in Procs, Finish(p), UNCHANGED <<circle, rows, cache, announced>>
    PROVE  After
BY Untouched, FinishControl DEF Before, After, TypeOK

LEMMA GoStep ==
    ASSUME Before, NEW p \in Procs, NEW label \in Awaits \ SheetAwaits, NEW what \in Sightings,
           Go(p, label, what), Staged(label, req[p]),
           label \in NeedsRow => expenses[req[p].id] \in ExpenseRows,
           UNCHANGED <<circle, rows, cache, announced>>
    PROVE  After
BY Untouched, GoControl DEF Before, After, TypeOK

LEMMA EnqueueStep ==
    ASSUME Before, NEW p \in Procs, NEW key \in Keys, NEW label \in Awaits \ SheetAwaits,
           Enqueue(p, key, label), Staged(label, req[p]), label \notin NeedsRow,
           UNCHANGED <<circle, rows, cache, announced>>
    PROVE  After
BY Untouched, EnqueueControl DEF Before, After, TypeOK

LEMMA ReadSheetsStep ==
    ASSUME Before, NEW p \in Procs, NEW groups \in SUBSET Groups,
           NEW label \in Awaits \ SheetAwaits, NEW what \in Sightings,
           ReadSheets(p, groups, label, what), Staged(label, req[p]), label \notin NeedsRow,
           UNCHANGED <<circle, rows, cache, announced>>
    PROVE  After
BY Untouched, ReadSheetsControl DEF Before, After, TypeOK

\* The request of a handler that is not reading sheets.
LEMMA AtStaged ==
    ASSUME Before, NEW p \in Procs, pc[p] \notin SheetAwaits
    PROVE  Staged(pc[p], req[p]) /\ (pc[p] \in NeedsRow => expenses[req[p].id] \in ExpenseRows)
BY DEF Before, TypeOK, ControlOK, Staged, Place, RowsFound

LEMMA SheetTyped ==
    ASSUME DataOK, NEW l
    PROVE  /\ ExpensesOf(l) \in ExpenseFolds
           /\ Sheet(l) \in Sheets
<1>1. ExpensesOf(l) \in ExpenseFolds
  BY DEF ExpensesOf, LiveExpenses, There, Stands, ExpenseFolds, DataOK, ExpenseRows
<1>2. PaymentsOf(l) \in SUBSET [id : PaymentIds, from : People, to : People, amount : Nat]
  BY DEF PaymentsOf, LivePayments, There, Stands, DataOK, PaymentRows
<1> QED BY <1>1, <1>2 DEF Sheet, Sheets

-----------------------------------------------------------------------------
(* The expense endpoints.                                                  *)

\* Filing or rewriting one expense under a bump of its ledger.
LEMMA ExpenseWritten ==
    ASSUME Before, NEW e \in ExpenseIds, NEW row \in ExpenseRows,
           expenses[e] # NoRow => expenses[e].group = row.group,
           expenses' = [expenses EXCEPT ![e] = row],
           ledgerVersion' = Bumped({row.group}),
           member' \in [Groups -> [People -> {"none", "active", "left"}]],
           UNCHANGED <<people, owners, friends, disbanded, payments, cache, announced>>
    PROVE  DataOK' /\ Kept /\ LedgersKept' /\ BumpsWhatItChanges /\ cache' = cache
<1>1. DataOK'
  BY DEF Before, TypeOK, DataOK, Bumped
<1>2. Kept /\ LedgersKept'
  BY DEF Before, TypeOK, DataOK, LedgersKept, Kept
<1>3. ASSUME NEW g \in Groups, g # row.group
      PROVE  ledgerVersion'[g] = ledgerVersion[g] /\ Sheet(g)' = Sheet(g)
  <2>1. ledgerVersion'[g] = ledgerVersion[g]
    BY <1>3 DEF Bumped
  <2>2. LiveExpenses(g)' = LiveExpenses(g) /\ e \notin LiveExpenses(g)
    BY <1>3 DEF LiveExpenses, There, Stands, Before, TypeOK, DataOK
  <2>3. ExpensesOf(g)' = ExpensesOf(g)
    BY <2>2 DEF ExpensesOf, LiveExpenses, There, Stands, Before, TypeOK, DataOK
  <2>4. PaymentsOf(g)' = PaymentsOf(g)
    BY DEF PaymentsOf, LivePayments, There, Stands
  <2> QED BY <2>1, <2>3, <2>4 DEF Sheet
<1>4. ASSUME NEW g \in Groups, g = row.group
      PROVE  ledgerVersion'[g] > ledgerVersion[g]
  BY <1>4 DEF Bumped, Before, TypeOK, DataOK
<1> QED BY <1>1, <1>2, <1>3, <1>4 DEF BumpsWhatItChanges

LEMMA CreateStep ==
    ASSUME Before, NEW p \in Procs,
           CreateAccess(p) \/ CreateInvolve(p) \/ CreateCommit(p) \/ CreateAnnounce(p)
    PROVE  After
<1>0. pc[p] \in CreateAwaits /\ pc[p] \notin SheetAwaits
  BY DEF CreateAwaits, SheetAwaits, CreateAccess, CreateInvolve, CreateCommit, CreateAnnounce
<1>1. /\ req[p].session \in Sessions /\ req[p].id \in ExpenseIds
      /\ \A m \in CreateAwaits : /\ Staged(m, req[p])
                                 /\ m \in Awaits \ SheetAwaits
                                 /\ m \notin NeedsRow
  BY <1>0, AtStaged, CreateStaged
<1>2. CASE CreateAccess(p)
  BY <1>1, <1>2, GoStep, LeaveStep, NothingTyped DEF CreateAccess, CreateAwaits
<1>3. CASE CreateInvolve(p)
  BY <1>1, <1>3, GoStep, LeaveStep, NothingTyped DEF CreateInvolve, CreateAwaits
<1>4. CASE CreateCommit(p)
  <2> DEFINE d   == Draft[req[p].id]
             row == [group |-> d.group, by |-> Me(p), bill |-> d.bill, deleted |-> FALSE,
                     version |-> 1, session |-> req[p].session]
  <2>1. CASE Leave(p)
    BY <2>1, LeaveStep
  <2>2. CASE /\ expenses[req[p].id] = NoRow
             /\ expenses' = [expenses EXCEPT ![req[p].id] = row]
             /\ ledgerVersion' = Bumped({d.group})
             /\ Go(p, "CreateAnnounce", Nothing)
             /\ UNCHANGED <<circle, payments, cache, announced>>
    <3>1. row \in ExpenseRows
      BY <1>1, LedgerAssumption, ExpensesAssumption DEF ExpenseRows, BillRows, Me
    <3>2. DataOK' /\ Kept /\ LedgersKept' /\ BumpsWhatItChanges /\ cache' = cache
      BY <1>1, <2>2, <3>1, ExpenseWritten DEF circle, Before, TypeOK, DataOK
    <3> QED BY <1>1, <2>2, <3>2, GoControl, NothingTyped
            DEF CreateAwaits, Before, After, TypeOK
  <2> QED BY <1>4, <2>1, <2>2 DEF CreateCommit, Replay
<1>5. CASE CreateAnnounce(p)
  BY <1>5, AnnounceStep DEF CreateAnnounce
<1> QED BY <1>2, <1>3, <1>4, <1>5

\* An expense row rewritten one field at a time is still an expense row.
LEMMA RowWith ==
    ASSUME NEW r \in ExpenseRows
    PROVE  /\ \A v \in Nat : [r EXCEPT !.version = v] \in ExpenseRows
           /\ \A bill \in BillRows : [r EXCEPT !.bill = bill] \in ExpenseRows
           /\ \A to \in BOOLEAN : [r EXCEPT !.deleted = to] \in ExpenseRows
           /\ \A s \in Sessions : [r EXCEPT !.session = s] \in ExpenseRows
<1>1. ASSUME NEW v \in Nat PROVE [r EXCEPT !.version = v] \in ExpenseRows
  BY DEF ExpenseRows
<1>2. ASSUME NEW bill \in BillRows PROVE [r EXCEPT !.bill = bill] \in ExpenseRows
  BY DEF ExpenseRows
<1>3. ASSUME NEW to \in BOOLEAN PROVE [r EXCEPT !.deleted = to] \in ExpenseRows
  BY DEF ExpenseRows
<1>4. ASSUME NEW s \in Sessions PROVE [r EXCEPT !.session = s] \in ExpenseRows
  BY DEF ExpenseRows
<1> QED BY <1>1, <1>2, <1>3, <1>4

LEMMA RowMarked ==
    ASSUME NEW r \in ExpenseRows, NEW to \in BOOLEAN
    PROVE  /\ [r EXCEPT !.deleted = to, !.version = @ + 1] \in ExpenseRows
           /\ [r EXCEPT !.deleted = to, !.version = @ + 1].group = r.group
<1>1. r.version + 1 \in Nat
  BY DEF ExpenseRows
<1>2. [[r EXCEPT !.deleted = to] EXCEPT !.version = r.version + 1] \in ExpenseRows
  BY <1>1, RowWith
<1>3. [r EXCEPT !.deleted = to, !.version = @ + 1]
        = [[r EXCEPT !.deleted = to] EXCEPT !.version = r.version + 1]
  BY DEF ExpenseRows
<1>4. [r EXCEPT !.deleted = to, !.version = @ + 1].group = r.group
  BY DEF ExpenseRows
<1> QED BY <1>2, <1>3, <1>4

LEMMA RowEdited ==
    ASSUME NEW r \in ExpenseRows, NEW bill \in BillRows, NEW s \in Sessions
    PROVE  /\ [r EXCEPT !.bill = bill, !.version = @ + 1, !.session = s] \in ExpenseRows
           /\ [r EXCEPT !.bill = bill, !.version = @ + 1, !.session = s].group = r.group
<1>1. r.version + 1 \in Nat
  BY DEF ExpenseRows
<1>2. [[[r EXCEPT !.bill = bill] EXCEPT !.version = r.version + 1] EXCEPT !.session = s]
        \in ExpenseRows
  BY <1>1, RowWith
<1>3. [r EXCEPT !.bill = bill, !.version = @ + 1, !.session = s]
        = [[[r EXCEPT !.bill = bill] EXCEPT !.version = r.version + 1] EXCEPT !.session = s]
  BY DEF ExpenseRows
<1>4. [r EXCEPT !.bill = bill, !.version = @ + 1, !.session = s].group = r.group
  BY DEF ExpenseRows
<1> QED BY <1>2, <1>3, <1>4

LEMMA EditStep ==
    ASSUME Before, NEW p \in Procs,
           EditLoad(p) \/ EditInvolve(p) \/ EditCheck(p) \/ EditCommit(p)
    PROVE  After
<1>0. pc[p] \in EditAwaits /\ pc[p] \notin SheetAwaits
  BY DEF EditAwaits, SheetAwaits, EditLoad, EditInvolve, EditCheck, EditCommit
<1>1. /\ req[p].session \in Sessions /\ req[p].id \in ExpenseIds /\ req[p].bill \in Bills
      /\ \A m \in EditAwaits : Staged(m, req[p]) /\ m \in Awaits \ SheetAwaits /\ m \in NeedsRow
      /\ expenses[req[p].id] \in ExpenseRows
  BY <1>0, AtStaged, EditStaged
<1>2. CASE EditLoad(p)
  <2>1. [Nothing EXCEPT !.people = Named(expenses[req[p].id].bill)] \in Sightings
    BY NothingTyped DEF Sightings, Named
  <2> QED BY <1>1, <1>2, <2>1, GoStep, LeaveStep DEF EditLoad, EditAwaits
<1>3. CASE EditInvolve(p)
  BY <1>1, <1>3, GoStep, LeaveStep, NothingTyped DEF EditInvolve, EditAwaits
<1>4. CASE EditCheck(p)
  <2>1. [Nothing EXCEPT !.version = expenses[req[p].id].version] \in Sightings
    BY <1>1, NothingTyped DEF Sightings, ExpenseRows
  <2> QED BY <1>1, <1>4, <2>1, GoStep, LeaveStep DEF EditCheck, EditAwaits
<1>5. CASE EditCommit(p)
  <2> DEFINE e   == req[p].id
             row == [expenses[e] EXCEPT !.bill = req[p].bill, !.version = @ + 1,
                                        !.session = req[p].session]
  <2>1. CASE UNCHANGED <<expenses, ledgerVersion>>
    BY <1>5, <2>1, FinishStep DEF EditCommit, rows
  <2>2. CASE /\ expenses' = [expenses EXCEPT ![e] = row]
             /\ ledgerVersion' = Bumped({expenses[e].group})
    <3>1. row \in ExpenseRows /\ row.group = expenses[e].group
      <4>1. req[p].bill \in BillRows
        BY <1>1, ExpensesAssumption DEF BillRows
      <4> QED BY <1>1, <4>1, RowEdited
    <3>2. DataOK' /\ Kept /\ LedgersKept' /\ BumpsWhatItChanges /\ cache' = cache
      <4>1. /\ UNCHANGED <<people, owners, friends, disbanded, payments, cache, announced>>
            /\ member' \in [Groups -> [People -> {"none", "active", "left"}]]
        BY <1>5 DEF EditCommit, circle, Before, TypeOK, DataOK
      <4> HIDE DEF row
      <4> QED BY <1>1, <2>2, <3>1, <4>1, ExpenseWritten
    <3> QED BY <1>5, <3>2, FinishControl DEF EditCommit, Before, After, TypeOK
  <2> QED BY <1>5, <2>1, <2>2 DEF EditCommit
<1> QED BY <1>2, <1>3, <1>4, <1>5

\* Marking an expense as deleted, or as live again.
LEMMA DeletedSet ==
    ASSUME Before, NEW e \in ExpenseIds, expenses[e] \in ExpenseRows, NEW to \in BOOLEAN,
           SetDeleted(e, to),
           member' \in [Groups -> [People -> {"none", "active", "left"}]],
           UNCHANGED <<people, owners, friends, disbanded, payments, cache, announced>>
    PROVE  DataOK' /\ Kept /\ LedgersKept' /\ BumpsWhatItChanges /\ cache' = cache
<1> DEFINE row == [expenses[e] EXCEPT !.deleted = to, !.version = @ + 1]
<1>1. row \in ExpenseRows /\ row.group = expenses[e].group
  BY RowMarked
<1>2. expenses' = [expenses EXCEPT ![e] = row] /\ ledgerVersion' = Bumped({row.group})
  BY <1>1 DEF SetDeleted
<1> QED
  <2> HIDE DEF row
  <2> QED BY <1>1, <1>2, ExpenseWritten

LEMMA DeleteStep ==
    ASSUME Before, NEW p \in Procs, DeleteLoad(p) \/ DeleteCommit(p)
    PROVE  After
<1>0. pc[p] \in DeleteAwaits /\ pc[p] \notin SheetAwaits
  BY DEF DeleteAwaits, SheetAwaits, DeleteLoad, DeleteCommit
<1>1. /\ req[p].id \in ExpenseIds /\ expenses[req[p].id] \in ExpenseRows
      /\ \A m \in DeleteAwaits : Staged(m, req[p]) /\ m \in Awaits \ SheetAwaits
  BY <1>0, AtStaged, DeleteStaged
<1>2. CASE DeleteLoad(p)
  BY <1>1, <1>2, GoStep, LeaveStep, NothingTyped DEF DeleteLoad, DeleteAwaits
<1>3. CASE DeleteCommit(p)
  <2>1. CASE Leave(p)
    BY <2>1, LeaveStep
  <2>2. CASE /\ SetDeleted(req[p].id, TRUE)
             /\ Finish(p)
             /\ UNCHANGED <<circle, payments, cache, announced>>
    <3>1. DataOK' /\ Kept /\ LedgersKept' /\ BumpsWhatItChanges /\ cache' = cache
      BY <1>1, <2>2, DeletedSet DEF circle, Before, TypeOK, DataOK
    <3> QED BY <2>2, <3>1, FinishControl DEF Before, After, TypeOK
  <2> QED BY <1>3, <2>1, <2>2 DEF DeleteCommit
<1> QED BY <1>2, <1>3

LEMMA RestoreStep ==
    ASSUME Before, NEW p \in Procs, RestoreLoad(p) \/ RestoreMembers(p) \/ RestoreCommit(p)
    PROVE  After
<1>0. pc[p] \in RestoreAwaits /\ pc[p] \notin SheetAwaits
  BY DEF RestoreAwaits, SheetAwaits, RestoreLoad, RestoreMembers, RestoreCommit
<1>1. /\ req[p].id \in ExpenseIds /\ expenses[req[p].id] \in ExpenseRows
      /\ \A m \in RestoreAwaits : Staged(m, req[p]) /\ m \in Awaits \ SheetAwaits
      /\ seen[p] \in Sightings
  BY <1>0, AtStaged, RestoreStaged DEF Before, TypeOK, ControlOK
<1>2. CASE RestoreLoad(p)
  <2>1. [Nothing EXCEPT !.people = Named(expenses[req[p].id].bill)] \in Sightings
    BY NothingTyped DEF Sightings, Named
  <2> QED BY <1>1, <1>2, <2>1, GoStep, LeaveStep DEF RestoreLoad, RestoreAwaits
<1>3. CASE RestoreMembers(p)
  <2> DEFINE g    == expenses[req[p].id].group
             gone == IF g \in Groups THEN seen[p].people \ Active(g) ELSE {}
  <2>1. [Nothing EXCEPT !.people = gone] \in Sightings
    BY <1>1, NothingTyped DEF Sightings
  <2> QED BY <1>1, <1>3, <2>1, GoStep, LeaveStep DEF RestoreMembers, RestoreAwaits
<1>4. CASE RestoreCommit(p)
  <2>1. CASE Leave(p)
    BY <2>1, LeaveStep
  <2>2. CASE ~Leave(p)
    <3>1. /\ SetDeleted(req[p].id, FALSE)
          /\ Finish(p)
          /\ UNCHANGED <<people, owners, friends, disbanded, payments, cache, announced>>
          /\ member' = [h \in Groups |-> [x \in People |->
                IF /\ h = expenses[req[p].id].group
                   /\ x \in seen[p].people /\ member[h][x] = "left"
                THEN "active" ELSE member[h][x]]]
      BY <1>4, <2>2 DEF RestoreCommit
    <3>2. member' \in [Groups -> [People -> {"none", "active", "left"}]]
      BY <3>1 DEF Before, TypeOK, DataOK
    <3>3. DataOK' /\ Kept /\ LedgersKept' /\ BumpsWhatItChanges /\ cache' = cache
      BY <1>1, <3>1, <3>2, DeletedSet
    <3> QED BY <3>1, <3>3, FinishControl DEF Before, After, TypeOK
  <2> QED BY <2>1, <2>2
<1> QED BY <1>2, <1>3, <1>4

LEMMA ExpenseStep ==
    ASSUME Before, NEW p \in Procs, ExpenseSteps(p)
    PROVE  After
BY CreateStep, EditStep, DeleteStep, RestoreStep DEF ExpenseSteps

-----------------------------------------------------------------------------
(* The payment endpoints.                                                  *)

LEMMA LedgerOfLone ==
    ASSUME NEW s \in LoneIds
    PROVE  s \in PaymentIds /\ LedgerOf(s) = PaymentDraft[s].group
BY DEF LoneIds, LedgerOf

LEMMA LedgerOfRow ==
    ASSUME NEW b \in BatchIds, NEW r \in BatchDraft[b].rows
    PROVE  r.id \in PaymentIds /\ LedgerOf(r.id) = r.group
<1>1. r.id \in PaymentIds /\ r.id \notin LoneIds
  BY SettlementsAssumption DEF LoneIds
<1>2. r \in UNION {BatchDraft[d].rows : d \in BatchIds}
  OBVIOUS
<1> DEFINE t == CHOOSE t \in UNION {BatchDraft[d].rows : d \in BatchIds} : t.id = r.id
<1>3. t \in UNION {BatchDraft[d].rows : d \in BatchIds} /\ t.id = r.id
  BY <1>2
<1>4. t = r
  BY <1>2, <1>3, SettlementsAssumption
<1> QED BY <1>1, <1>4 DEF LedgerOf

\* Filing or rewriting payments under a bump of the ledgers they belong to.
LEMMA PaymentsWritten ==
    ASSUME Before, NEW gs,
           payments' \in [PaymentIds -> PaymentRows \cup {NoRow}],
           \A s \in PaymentIds :
               \/ payments'[s] = payments[s]
               \/ /\ LedgerOf(s) \in gs
                  /\ payments'[s] \in PaymentRows => payments'[s].group = LedgerOf(s),
           ledgerVersion' = Bumped(gs),
           member' \in [Groups -> [People -> {"none", "active", "left"}]],
           UNCHANGED <<people, owners, friends, disbanded, expenses, cache, announced>>
    PROVE  DataOK' /\ Kept /\ LedgersKept' /\ BumpsWhatItChanges /\ cache' = cache
<1>1. DataOK'
  BY DEF Before, TypeOK, DataOK, Bumped
<1>2. Kept /\ LedgersKept'
  BY DEF Before, TypeOK, DataOK, LedgersKept, Kept
<1>3. ASSUME NEW g \in Groups, g \notin gs
      PROVE  ledgerVersion'[g] = ledgerVersion[g] /\ Sheet(g)' = Sheet(g)
  <2>1. ledgerVersion'[g] = ledgerVersion[g]
    BY <1>3 DEF Bumped
  <2>2. \A s \in PaymentIds : payments'[s] = payments[s]
            \/ (s \notin LivePayments(g) /\ s \notin LivePayments(g)')
    BY <1>3, <1>2 DEF LivePayments, There, Stands, Before, TypeOK, DataOK, LedgersKept
  <2>3. LivePayments(g)' = LivePayments(g)
    BY <2>2 DEF LivePayments, There, Stands
  <2>4. PaymentsOf(g)' = PaymentsOf(g)
    BY <2>2, <2>3 DEF PaymentsOf, LivePayments, There, Stands
  <2>5. ExpensesOf(g)' = ExpensesOf(g)
    BY DEF ExpensesOf, LiveExpenses, There, Stands
  <2> QED BY <2>1, <2>4, <2>5 DEF Sheet
<1>4. ASSUME NEW g \in Groups, g \in gs
      PROVE  ledgerVersion'[g] > ledgerVersion[g]
  BY <1>4 DEF Bumped, Before, TypeOK, DataOK
<1> QED BY <1>1, <1>2, <1>3, <1>4 DEF BumpsWhatItChanges

LEMMA PayStep ==
    ASSUME Before, NEW p \in Procs,
           PayReplay(p) \/ PayMembers(p) \/ PayTurn(p) \/ PayCommit(p) \/ PayAnnounce(p)
    PROVE  After
<1>0. pc[p] \in PayAwaits /\ pc[p] \notin SheetAwaits
  BY DEF PayAwaits, SheetAwaits, PayReplay, PayMembers, PayTurn, PayCommit, PayAnnounce
<1>1. /\ req[p].session \in Sessions /\ req[p].id \in LoneIds /\ req[p].id \in PaymentIds
      /\ \A m \in PayAwaits : Staged(m, req[p]) /\ m \in Awaits \ SheetAwaits /\ m \notin NeedsRow
  BY <1>0, AtStaged, PayStaged, LedgerOfLone
<1> DEFINE d == PaymentDraft[req[p].id]
<1>2. d \in [group : Ledgers, from : People, to : People, amount : Nat \ {0}]
  BY <1>1, SettlementsAssumption
<1>3. CASE PayReplay(p)
  BY <1>1, <1>3, GoStep, LeaveStep, NothingTyped DEF PayReplay, PayAwaits
<1>4. CASE PayMembers(p)
  <2>1. PayKey(d) \in Keys
    BY <1>2 DEF PayKey, Keys
  <2> QED BY <1>1, <1>4, <2>1, EnqueueStep, LeaveStep DEF PayMembers, PayAwaits
<1>5. CASE PayTurn(p)
  <2>1. (IF ThirdParty(p, d) THEN {d.group} ELSE {}) \in SUBSET Groups
    BY DEF ThirdParty
  <2> QED BY <1>1, <1>5, <2>1, ReadSheetsStep, NothingTyped DEF PayTurn, PayAwaits
<1>6. CASE PayCommit(p)
  <2> DEFINE row == [group |-> d.group, from |-> d.from, to |-> d.to, amount |-> d.amount,
                     by |-> Me(p), batch |-> NoBatch, deleted |-> FALSE]
  <2>1. CASE Leave(p)
    BY <2>1, LeaveStep
  <2>2. CASE /\ payments' = [payments EXCEPT ![req[p].id] = row]
             /\ ledgerVersion' = Bumped({d.group})
             /\ Go(p, "PayAnnounce", Nothing)
             /\ UNCHANGED <<circle, expenses, cache, announced>>
    <3>1. row \in PaymentRows /\ row.group = d.group
      BY <1>1, <1>2, LedgerAssumption DEF PaymentRows, Me
    <3>2. /\ payments' \in [PaymentIds -> PaymentRows \cup {NoRow}]
          /\ \A s \in PaymentIds :
                \/ payments'[s] = payments[s]
                \/ /\ LedgerOf(s) \in {d.group}
                   /\ payments'[s] \in PaymentRows => payments'[s].group = LedgerOf(s)
      <4> HIDE DEF row
      <4> QED BY <1>1, <2>2, <3>1, LedgerOfLone DEF Before, TypeOK, DataOK
    <3>3. /\ UNCHANGED <<people, owners, friends, disbanded, expenses, cache, announced>>
          /\ member' \in [Groups -> [People -> {"none", "active", "left"}]]
      BY <2>2 DEF circle, Before, TypeOK, DataOK
    <3>4. DataOK' /\ Kept /\ LedgersKept' /\ BumpsWhatItChanges /\ cache' = cache
      BY <2>2, <3>2, <3>3, PaymentsWritten
    <3> QED BY <1>1, <2>2, <3>4, GoControl, NothingTyped DEF PayAwaits, Before, After, TypeOK
  <2> QED BY <1>6, <2>1, <2>2 DEF PayCommit
<1>7. CASE PayAnnounce(p)
  BY <1>7, AnnounceStep DEF PayAnnounce
<1> QED BY <1>3, <1>4, <1>5, <1>6, <1>7

LEMMA BatchStep ==
    ASSUME Before, NEW p \in Procs,
           BatchStart(p) \/ BatchTurn(p) \/ BatchShared(p) \/ BatchCommit(p) \/ BatchAnnounce(p)
    PROVE  After
<1>0. pc[p] \in BatchAwaits /\ pc[p] \notin SheetAwaits
  BY DEF BatchAwaits, SheetAwaits, BatchStart, BatchTurn, BatchShared, BatchCommit,
     BatchAnnounce
<1>1. /\ req[p].session \in Sessions /\ req[p].id \in BatchIds
      /\ \A m \in BatchAwaits : Staged(m, req[p]) /\ m \in Awaits \ SheetAwaits /\ m \notin NeedsRow
  BY <1>0, AtStaged, BatchStaged
<1> DEFINE b == BatchDraft[req[p].id]
<1>2. Me(p) \in People /\ b.other \in People
  BY <1>1, LedgerAssumption, SettlementsAssumption DEF Me
<1>3. CASE BatchStart(p)
  <2>1. PairKey(Me(p), b.other) \in Keys
    BY <1>2 DEF Keys
  <2> QED BY <1>1, <1>3, <2>1, EnqueueStep, LeaveStep DEF BatchStart, BatchAwaits
<1>4. CASE BatchTurn(p)
  BY <1>1, <1>4, GoStep, LeaveStep, NothingTyped DEF BatchTurn, BatchAwaits
<1>5. CASE BatchShared(p)
  <2>1. [Nothing EXCEPT !.direct = Sheet(NoGroup)] \in Sightings
    BY SheetTyped, NothingTyped DEF Sightings, Before, TypeOK
  <2> DEFINE shared == {g \in Groups : {Me(p), b.other} \subseteq Active(g)}
  <2>2. shared \in SUBSET Groups
    OBVIOUS
  <2> QED BY <1>1, <1>5, <2>1, <2>2, ReadSheetsStep DEF BatchShared, BatchAwaits
<1>6. CASE BatchCommit(p)
  <2> DEFINE ids    == {r.id : r \in b.rows}
             Of(s)  == CHOOSE r \in b.rows : r.id = s
             Row(r) == LET owed == Outstanding(p, r.group) > 0
                       IN  [group |-> r.group, amount |-> r.amount, by |-> Me(p),
                            from |-> IF owed THEN b.other ELSE Me(p),
                            to   |-> IF owed THEN Me(p) ELSE b.other,
                            batch |-> req[p].id, deleted |-> FALSE]
             gs     == {r.group : r \in b.rows}
  <2>1. CASE Leave(p)
    BY <2>1, LeaveStep
  <2>2. CASE /\ payments' = [s \in PaymentIds |-> IF s \in ids THEN Row(Of(s)) ELSE payments[s]]
             /\ ledgerVersion' = Bumped(gs)
             /\ Go(p, "BatchAnnounce", Nothing)
             /\ UNCHANGED <<circle, expenses, cache, announced>>
    <3>1. ASSUME NEW s \in ids
          PROVE  Of(s) \in b.rows /\ Of(s).id = s
      OBVIOUS
    <3>2. ASSUME NEW r \in b.rows
          PROVE  Row(r) \in PaymentRows /\ Row(r).group = r.group
      <4>1. r.group \in Ledgers /\ r.amount \in Nat
        BY <1>1, SettlementsAssumption
      <4> QED BY <1>1, <1>2, <4>1 DEF PaymentRows
    <3>3. ASSUME NEW s \in ids
          PROVE  /\ Row(Of(s)) \in PaymentRows
                 /\ Row(Of(s)).group = LedgerOf(s) /\ LedgerOf(s) \in gs
      <4> HIDE DEF Row
      <4> QED BY <1>1, <3>1, <3>2, LedgerOfRow
    <3>4. /\ payments' \in [PaymentIds -> PaymentRows \cup {NoRow}]
          /\ \A s \in PaymentIds :
                \/ payments'[s] = payments[s]
                \/ /\ LedgerOf(s) \in gs
                   /\ payments'[s] \in PaymentRows => payments'[s].group = LedgerOf(s)
      <4> HIDE DEF Row, Of, ids, gs
      <4> QED BY <2>2, <3>3 DEF Before, TypeOK, DataOK
    <3>5. /\ UNCHANGED <<people, owners, friends, disbanded, expenses, cache, announced>>
          /\ member' \in [Groups -> [People -> {"none", "active", "left"}]]
      BY <2>2 DEF circle, Before, TypeOK, DataOK
    <3>6. DataOK' /\ Kept /\ LedgersKept' /\ BumpsWhatItChanges /\ cache' = cache
      BY <2>2, <3>4, <3>5, PaymentsWritten
    <3> QED BY <1>1, <2>2, <3>6, GoControl, NothingTyped DEF BatchAwaits, Before, After, TypeOK
  <2> QED BY <1>6, <2>1, <2>2 DEF BatchCommit
<1>7. CASE BatchAnnounce(p)
  BY <1>7, AnnounceStep DEF BatchAnnounce
<1> QED BY <1>3, <1>4, <1>5, <1>6, <1>7

\* Marking payments as deleted, or as live again.
LEMMA PaymentsMarked ==
    ASSUME Before, NEW ids \in SUBSET PaymentIds, NEW to \in BOOLEAN,
           MarkPayments(ids, to),
           member' \in [Groups -> [People -> {"none", "active", "left"}]],
           UNCHANGED <<people, owners, friends, disbanded, expenses, cache, announced>>
    PROVE  DataOK' /\ Kept /\ LedgersKept' /\ BumpsWhatItChanges /\ cache' = cache
<1> DEFINE gs == {LedgerOf(s) : s \in ids}
<1>1. ASSUME NEW s \in PaymentIds, s \in ids, There(payments[s])
      PROVE  /\ payments'[s] \in PaymentRows
             /\ payments'[s].group = LedgerOf(s) /\ LedgerOf(s) \in gs
  <2>1. payments[s] \in PaymentRows /\ payments[s].group = LedgerOf(s)
    BY <1>1 DEF There, Before, TypeOK, DataOK, LedgersKept
  <2>2. payments'[s] = [payments[s] EXCEPT !.deleted = to]
    BY <1>1 DEF MarkPayments
  <2> QED BY <1>1, <2>1, <2>2 DEF PaymentRows
<1>2. \A s \in PaymentIds : s \notin ids \/ ~There(payments[s]) => payments'[s] = payments[s]
  BY DEF MarkPayments
<1>3. payments' \in [PaymentIds -> PaymentRows \cup {NoRow}]
  <2>1. \A s \in PaymentIds : payments'[s] \in PaymentRows \cup {NoRow}
    BY <1>1, <1>2 DEF Before, TypeOK, DataOK
  <2>2. payments' = [s \in PaymentIds |-> payments'[s]]
    BY DEF MarkPayments
  <2> QED BY <2>1, <2>2
<1>4. ledgerVersion' = Bumped(gs)
  BY DEF MarkPayments
<1> QED
  <2> HIDE DEF gs
  <2> QED BY <1>1, <1>2, <1>3, <1>4, PaymentsWritten

LEMMA BatchTyped ==
    ASSUME Before, NEW s \in PaymentIds, NEW deleted
    PROVE  Batch(s, deleted) \in SUBSET PaymentIds
BY DEF Batch

LEMMA UndoStep ==
    ASSUME Before, NEW p \in Procs, UndoLoad(p) \/ UndoSiblings(p) \/ UndoCommit(p)
    PROVE  After
<1>0. pc[p] \in UndoAwaits /\ pc[p] \notin SheetAwaits
  BY DEF UndoAwaits, SheetAwaits, UndoLoad, UndoSiblings, UndoCommit
<1>1. /\ req[p].id \in PaymentIds
      /\ \A m \in UndoAwaits : Staged(m, req[p]) /\ m \in Awaits \ SheetAwaits /\ m \notin NeedsRow
      /\ seen[p] \in Sightings
  BY <1>0, AtStaged, UndoStaged DEF Before, TypeOK, ControlOK
<1>2. CASE UndoLoad(p)
  BY <1>1, <1>2, GoStep, LeaveStep, NothingTyped DEF UndoLoad, UndoAwaits
<1>3. CASE UndoSiblings(p)
  <2> DEFINE siblings == IF payments[req[p].id] = NoRow THEN {req[p].id} \cap LoneIds
                         ELSE Batch(req[p].id, FALSE)
  <2>1. [Nothing EXCEPT !.rows = siblings] \in Sightings
    BY <1>1, BatchTyped, NothingTyped DEF Sightings
  <2> QED BY <1>1, <1>3, <2>1, GoStep, LeaveStep DEF UndoSiblings, UndoAwaits
<1>4. CASE UndoCommit(p)
  <2>1. seen[p].rows \in SUBSET PaymentIds
    BY <1>1 DEF Sightings
  <2>2. /\ UNCHANGED <<people, owners, friends, disbanded, expenses, cache, announced>>
        /\ member' \in [Groups -> [People -> {"none", "active", "left"}]]
    BY <1>4 DEF UndoCommit, circle, Before, TypeOK, DataOK
  <2>3. DataOK' /\ Kept /\ LedgersKept' /\ BumpsWhatItChanges /\ cache' = cache
    BY <1>4, <2>1, <2>2, PaymentsMarked DEF UndoCommit
  <2> QED BY <1>4, <2>3, FinishControl DEF UndoCommit, Before, After, TypeOK
<1> QED BY <1>2, <1>3, <1>4

LEMMA RedoStep ==
    ASSUME Before, NEW p \in Procs,
           RedoLoad(p) \/ RedoSiblings(p) \/ RedoMembers(p) \/ RedoCommit(p)
    PROVE  After
<1>0. pc[p] \in RedoAwaits /\ pc[p] \notin SheetAwaits
  BY DEF RedoAwaits, SheetAwaits, RedoLoad, RedoSiblings, RedoMembers, RedoCommit
<1>1. /\ req[p].id \in PaymentIds
      /\ \A m \in RedoAwaits : Staged(m, req[p]) /\ m \in Awaits \ SheetAwaits /\ m \notin NeedsRow
      /\ seen[p] \in Sightings
  BY <1>0, AtStaged, RedoStaged DEF Before, TypeOK, ControlOK
<1>2. CASE RedoLoad(p)
  BY <1>1, <1>2, GoStep, LeaveStep, NothingTyped DEF RedoLoad, RedoAwaits
<1>3. CASE RedoSiblings(p)
  <2> DEFINE siblings == IF payments[req[p].id] = NoRow THEN {} ELSE Batch(req[p].id, TRUE)
  <2>1. [Nothing EXCEPT !.rows = siblings] \in Sightings
    BY <1>1, BatchTyped, NothingTyped DEF Sightings
  <2> QED BY <1>1, <1>3, <2>1, GoStep, LeaveStep DEF RedoSiblings, RedoAwaits
<1>4. CASE RedoMembers(p)
  <2> DEFINE grouped == {s \in seen[p].rows : payments[s] # NoRow /\ payments[s].group \in Groups}
             seats == UNION {{payments[s].group} \X {payments[s].from, payments[s].to} :
                             s \in grouped}
             away  == {t \in seats : t[2] \notin Active(t[1])}
  <2>1. seats \subseteq Groups \X People
    BY <1>1 DEF Sightings, Before, TypeOK, DataOK, PaymentRows
  <2>2. [Nothing EXCEPT !.rows = seen[p].rows, !.seats = away] \in Sightings
    <3>1. away \in SUBSET (Groups \X People) /\ seen[p].rows \in SUBSET PaymentIds
      BY <1>1, <2>1 DEF Sightings
    <3> HIDE DEF away
    <3>2. [Nothing EXCEPT !.rows = seen[p].rows] \in Sightings
      BY <3>1, NothingTyped DEF Sightings
    <3>3. [[Nothing EXCEPT !.rows = seen[p].rows] EXCEPT !.seats = away] \in Sightings
      BY <3>1, <3>2 DEF Sightings
    <3> QED BY <3>3
  <2> QED BY <1>1, <1>4, <2>2, GoStep, LeaveStep DEF RedoMembers, RedoAwaits
<1>5. CASE RedoCommit(p)
  <2>1. seen[p].rows \in SUBSET PaymentIds
    BY <1>1 DEF Sightings
  <2>2. /\ UNCHANGED <<people, owners, friends, disbanded, expenses, cache, announced>>
        /\ member' \in [Groups -> [People -> {"none", "active", "left"}]]
    BY <1>5 DEF RedoCommit, Before, TypeOK, DataOK
  <2>3. DataOK' /\ Kept /\ LedgersKept' /\ BumpsWhatItChanges /\ cache' = cache
    BY <1>5, <2>1, <2>2, PaymentsMarked DEF RedoCommit
  <2> QED BY <1>5, <2>3, FinishControl DEF RedoCommit, Before, After, TypeOK
<1> QED BY <1>2, <1>3, <1>4, <1>5

LEMMA PaymentStep ==
    ASSUME Before, NEW p \in Procs, PaymentSteps(p)
    PROVE  After
BY PayStep, BatchStep, UndoStep, RedoStep DEF PaymentSteps

-----------------------------------------------------------------------------
(* The membership endpoints.                                               *)

\* A write to people, memberships, roles or friendships only.
LEMMA CircleWritten ==
    ASSUME Before, UNCHANGED <<disbanded, rows, cache, announced>>,
           people' \in [People -> {"unborn", "ghost", "real", "deleted", "gone"}],
           member' \in [Groups -> [People -> {"none", "active", "left"}]],
           owners' \in [Groups -> SUBSET People],
           \A f \in friends' : \E x, y \in People : x # y /\ f = {x, y}
    PROVE  DataOK' /\ Kept /\ LedgersKept' /\ BumpsWhatItChanges /\ cache' = cache
<1>1. DataOK' /\ cache' = cache
  BY DEF Before, TypeOK, DataOK, rows
<1>2. Kept /\ LedgersKept'
  BY DEF Before, LedgersKept, Kept, rows
<1>3. BumpsWhatItChanges
  BY DEF Before, TypeOK, DataOK, BumpsWhatItChanges, rows, Sheet, ExpensesOf, PaymentsOf,
         LiveExpenses, LivePayments, There, Stands
<1> QED BY <1>1, <1>2, <1>3

LEMMA SeatTyped ==
    ASSUME Before, NEW g \in Groups, NEW x \in People, NEW to \in {"none", "active", "left"}
    PROVE  SeatIn(g, x, to) \in [Groups -> [People -> {"none", "active", "left"}]]
BY DEF SeatIn, Before, TypeOK, DataOK

LEMMA LookStep ==
    ASSUME Before, NEW p \in Procs, Look(p) \/ Looked(p)
    PROVE  After
<1>0. pc[p] \in LookAwaits /\ pc[p] \notin SheetAwaits
  BY DEF LookAwaits, SheetAwaits, Look, Looked
<1>1. /\ req[p].group \in Groups
      /\ \A m \in LookAwaits : Staged(m, req[p]) /\ m \in Awaits \ SheetAwaits /\ m \notin NeedsRow
  BY <1>0, AtStaged, LookStaged
<1>2. CASE Look(p)
  <2>1. {req[p].group} \in SUBSET Groups
    BY <1>1
  <2> QED BY <1>1, <1>2, <2>1, ReadSheetsStep, FinishStep, NothingTyped DEF Look, LookAwaits
<1>3. CASE Looked(p)
  BY <1>3, LeaveStep DEF Looked
<1> QED BY <1>2, <1>3

LEMMA AddStep ==
    ASSUME Before, NEW p \in Procs,
           AddAccess(p) \/ AddSeat(p) \/ AddGhostAccess(p) \/ AddGhostSeat(p)
    PROVE  After
<1>0. pc[p] \in AddAwaits /\ pc[p] \notin SheetAwaits
  BY DEF AddAwaits, SheetAwaits, AddAccess, AddSeat, AddGhostAccess, AddGhostSeat
<1>1. /\ req[p].group \in Groups /\ req[p].who \in People
      /\ \A m \in AddAwaits : Staged(m, req[p]) /\ m \in Awaits \ SheetAwaits /\ m \notin NeedsRow
  BY <1>0, AtStaged, AddStaged
<1>2. CASE AddAccess(p)
  BY <1>1, <1>2, GoStep, LeaveStep, NothingTyped DEF AddAccess, AddAwaits
<1>3. CASE AddSeat(p)
  <2>1. CASE Leave(p)
    BY <2>1, LeaveStep
  <2>2. CASE /\ member' = SeatIn(req[p].group, req[p].who, "active")
             /\ Finish(p)
             /\ UNCHANGED <<people, owners, friends, disbanded, rows, cache, announced>>
    <3>1. DataOK' /\ Kept /\ LedgersKept' /\ BumpsWhatItChanges /\ cache' = cache
      BY <1>1, <2>2, SeatTyped, CircleWritten DEF Before, TypeOK, DataOK
    <3> QED BY <2>2, <3>1, FinishControl DEF Before, After, TypeOK
  <2> QED BY <1>3, <2>1, <2>2 DEF AddSeat
<1>4. CASE AddGhostAccess(p)
  BY <1>1, <1>4, GoStep, LeaveStep, NothingTyped DEF AddGhostAccess, AddAwaits
<1>5. CASE AddGhostSeat(p)
  <2>1. CASE Leave(p)
    BY <2>1, LeaveStep
  <2>2. CASE /\ people' = [people EXCEPT ![req[p].who] = "ghost"]
             /\ member' = SeatIn(req[p].group, req[p].who, "active")
             /\ Finish(p)
             /\ UNCHANGED <<owners, friends, disbanded, rows, cache, announced>>
    <3>1. DataOK' /\ Kept /\ LedgersKept' /\ BumpsWhatItChanges /\ cache' = cache
      BY <1>1, <2>2, SeatTyped, CircleWritten DEF Before, TypeOK, DataOK
    <3> QED BY <2>2, <3>1, FinishControl DEF Before, After, TypeOK
  <2> QED BY <1>5, <2>1, <2>2 DEF AddGhostSeat
<1> QED BY <1>2, <1>3, <1>4, <1>5

\* Rewriting rows and memberships in one step, under a bump of the ledgers gs.
LEMMA AllWritten ==
    ASSUME Before, NEW gs,
           expenses' \in [ExpenseIds -> ExpenseRows \cup {NoRow}], Kept,
           payments' \in [PaymentIds -> PaymentRows \cup {NoRow}], LedgersKept',
           \A g \in Groups \ Astray' : g \in gs \/ Sheet(g)' = Sheet(g),
           ledgerVersion' = Bumped(gs), cache' = cache, announced' = announced,
           people' \in [People -> {"unborn", "ghost", "real", "deleted", "gone"}],
           member' \in [Groups -> [People -> {"none", "active", "left"}]],
           owners' \in [Groups -> SUBSET People], disbanded' \subseteq Groups,
           \A f \in friends' : \E x, y \in People : x # y /\ f = {x, y}
    PROVE  DataOK' /\ Kept /\ LedgersKept' /\ BumpsWhatItChanges /\ cache' = cache
<1>1. ledgerVersion' \in [Groups -> Nat]
  BY DEF Before, TypeOK, DataOK, Bumped
<1>2. DataOK'
  BY <1>1 DEF Before, TypeOK, DataOK
<1>3. BumpsWhatItChanges
  BY DEF Before, TypeOK, DataOK, BumpsWhatItChanges, Bumped
<1> QED BY <1>2, <1>3

\* Rows that name nobody who changes are folded as before.
LEMMA SameSheet ==
    ASSUME NEW g,
           \A e \in LiveExpenses(g) : e \in LiveExpenses(g)' /\ expenses'[e].bill = expenses[e].bill,
           LiveExpenses(g)' \subseteq LiveExpenses(g),
           \A s \in LivePayments(g) : s \in LivePayments(g)' /\ payments'[s] = payments[s],
           LivePayments(g)' \subseteq LivePayments(g)
    PROVE  Sheet(g)' = Sheet(g)
<1>1. LiveExpenses(g)' = LiveExpenses(g) /\ LivePayments(g)' = LivePayments(g)
  OBVIOUS
<1>2. ExpensesOf(g)' = ExpensesOf(g)
  BY <1>1 DEF ExpensesOf
<1>3. PaymentsOf(g)' = PaymentsOf(g)
  BY <1>1 DEF PaymentsOf
<1> QED BY <1>2, <1>3 DEF Sheet

\* A person without a seat in a group that is not astray is in none of its rows.
LEMMA Unnamed ==
    ASSUME Before, NEW x \in People, NEW g \in Groups \ Strays, member[g][x] = "none"
    PROVE  /\ \A e \in LiveExpenses(g) : expenses[e].bill.paid[x] = 0 /\ expenses[e].bill.owed[x] = 0
           /\ \A s \in LivePayments(g) : payments[s].from # x /\ payments[s].to # x
<1>1. x \notin NamedIn(g)
  BY DEF Strays
<1>2. ASSUME NEW e \in LiveExpenses(g)
      PROVE  expenses[e].bill.paid[x] = 0 /\ expenses[e].bill.owed[x] = 0
  <2>1. x \notin Named(expenses[e].bill)
    BY <1>1 DEF NamedIn
  <2>2. expenses[e].bill \in BillRows
    BY DEF LiveExpenses, There, Stands, Before, TypeOK, DataOK, ExpenseRows
  <2> QED BY <2>1, <2>2 DEF Named, BillRows
<1>3. ASSUME NEW s \in LivePayments(g)
      PROVE  payments[s].from # x /\ payments[s].to # x
  BY <1>1 DEF NamedIn
<1> QED BY <1>2, <1>3

\* Deleting a person who holds no membership anywhere empties their entries.
LEMMA RemoveForgets ==
    ASSUME Before, NEW x \in People, \A g \in Groups : ~Housed(g, x),
           people' = [people EXCEPT ![x] = "gone"],
           friends' = {f \in friends : x \notin f},
           expenses' = [e \in ExpenseIds |->
               IF expenses[e] = NoRow THEN NoRow
               ELSE [expenses[e] EXCEPT !.bill = BillWithout(expenses[e].bill, x)]],
           payments' = [s \in PaymentIds |->
               IF payments[s] = NoRow THEN NoRow
               ELSE IF x \in {payments[s].from, payments[s].to} THEN NoRow ELSE payments[s]],
           strayed' = strayed \cup Strays,
           UNCHANGED <<member, owners, disbanded, ledgerVersion, cache, announced>>
    PROVE  DataOK' /\ Kept /\ LedgersKept' /\ BumpsWhatItChanges /\ cache' = cache
<1>1. ASSUME NEW e \in ExpenseIds, expenses[e] # NoRow
      PROVE  /\ expenses'[e] \in ExpenseRows
             /\ expenses'[e].group = expenses[e].group
             /\ expenses'[e].deleted = expenses[e].deleted
             /\ expenses'[e].bill = BillWithout(expenses[e].bill, x)
             /\ expenses'[e] # NoRow
  <2>1. expenses[e] \in ExpenseRows /\ expenses[e].bill \in BillRows
    BY <1>1 DEF Before, TypeOK, DataOK, ExpenseRows
  <2>2. BillWithout(expenses[e].bill, x) \in BillRows
    BY <2>1 DEF BillWithout, Dropped, BillRows
  <2>3. expenses'[e] = [expenses[e] EXCEPT !.bill = BillWithout(expenses[e].bill, x)]
    BY <1>1
  <2>4. expenses'[e] \in ExpenseRows
    BY <2>1, <2>2, <2>3, RowWith
  <2> HIDE DEF Before
  <2> QED BY <2>1, <2>3, <2>4, RowAssumption DEF ExpenseRows
<1>2. /\ expenses' \in [ExpenseIds -> ExpenseRows \cup {NoRow}] /\ Kept
      /\ payments' \in [PaymentIds -> PaymentRows \cup {NoRow}] /\ LedgersKept'
  <2>1. /\ \A e \in ExpenseIds : expenses'[e] \in ExpenseRows \cup {NoRow}
        /\ \A s \in PaymentIds : payments'[s] \in {payments[s], NoRow}
    BY <1>1
  <2> QED BY <1>1, <2>1, RowAssumption DEF Before, TypeOK, DataOK, LedgersKept, Kept
<1>3. ASSUME NEW g \in Groups \ Strays, g \notin disbanded
      PROVE  Sheet(g)' = Sheet(g)
  <2>0. member[g][x] = "none"
    BY <1>3 DEF Housed, Stands
  <2>1. /\ \A e \in LiveExpenses(g) : expenses[e].bill.paid[x] = 0 /\ expenses[e].bill.owed[x] = 0
        /\ \A s \in LivePayments(g) : payments[s].from # x /\ payments[s].to # x
    BY <2>0, Unnamed
  <2>2. ASSUME NEW e \in LiveExpenses(g)
        PROVE  e \in LiveExpenses(g)' /\ expenses'[e].bill = expenses[e].bill
    <3>1. expenses[e].bill \in BillRows
      BY DEF LiveExpenses, There, Stands, Before, TypeOK, DataOK, ExpenseRows
    <3>2. BillWithout(expenses[e].bill, x) = expenses[e].bill
      BY <2>1, <3>1 DEF BillWithout, Dropped, BillRows
    <3> QED BY <1>1, <3>2 DEF LiveExpenses, There, Stands
  <2>3. LiveExpenses(g)' \subseteq LiveExpenses(g)
    BY <1>1 DEF LiveExpenses, There, Stands
  <2>4. /\ \A s \in LivePayments(g) : s \in LivePayments(g)' /\ payments'[s] = payments[s]
        /\ LivePayments(g)' \subseteq LivePayments(g)
    BY <2>1 DEF LivePayments, There, Stands
  <2> QED BY <2>2, <2>3, <2>4, SameSheet
<1>4. \A g \in Groups \ Astray' : g \in {} \/ Sheet(g)' = Sheet(g)
  BY <1>3 DEF Astray
<1>5. ledgerVersion' = Bumped({})
  BY DEF Bumped, Before, TypeOK, DataOK
<1>6. /\ people' \in [People -> {"unborn", "ghost", "real", "deleted", "gone"}]
      /\ member' \in [Groups -> [People -> {"none", "active", "left"}]]
      /\ owners' \in [Groups -> SUBSET People] /\ disbanded' \subseteq Groups
      /\ \A f \in friends' : \E y, z \in People : y # z /\ f = {y, z}
  BY DEF Before, TypeOK, DataOK
<1> QED BY <1>2, <1>4, <1>5, <1>6, AllWritten

LEMMA RemoveStep ==
    ASSUME Before, NEW p \in Procs,
           \/ RemoveAccess(p) \/ RemoveCount(p) \/ RemoveLeave(p) \/ RemoveDrop(p)
           \/ RemoveForget(p) \/ RemoveSuccessor(p) \/ RemovePromote(p) \/ Removed(p)
    PROVE  After
<1>0. pc[p] \in RemoveAwaits /\ pc[p] \notin SheetAwaits
  BY DEF RemoveAwaits, SheetAwaits, RemoveAccess, RemoveCount, RemoveLeave, RemoveDrop,
         RemoveForget, RemoveSuccessor, RemovePromote, Removed
<1>1. /\ req[p].group \in Groups /\ req[p].who \in People /\ Me(p) \in People
      /\ \A m \in RemoveAwaits : Staged(m, req[p]) /\ m \in Awaits \ SheetAwaits /\ m \notin NeedsRow
      /\ seen[p] \in Sightings
  BY <1>0, AtStaged, RemoveStaged, LedgerAssumption DEF Before, TypeOK, ControlOK, Me
<1>2. CASE RemoveAccess(p)
  <2>1. /\ {req[p].group} \in SUBSET Groups
        /\ [Nothing EXCEPT !.people = owners[req[p].group] \cap {Me(p)}] \in Sightings
    BY <1>1, NothingTyped DEF Sightings
  <2> QED BY <1>1, <1>2, <2>1, ReadSheetsStep, FinishStep DEF RemoveAccess, RemoveAwaits
<1>3. CASE RemoveCount(p)
  <2>1. CASE Leave(p)
    BY <2>1, LeaveStep
  <2>2. CASE /\ Go(p, "RemoveLeave", seen[p]) \/ Go(p, "RemoveDrop", seen[p])
             /\ UNCHANGED <<circle, rows, cache, announced>>
    BY <1>1, <2>2, GoStep DEF RemoveAwaits
  <2> QED BY <1>3, <2>1, <2>2 DEF RemoveCount
<1>a. AfterRemoval(p) \in RemoveAwaits
  BY DEF AfterRemoval, RemoveAwaits
<1>4. CASE RemoveLeave(p)
  <2>1. CASE Leave(p)
    BY <2>1, LeaveStep
  <2>2. CASE /\ member' = SeatIn(req[p].group, req[p].who, "left")
             /\ Go(p, AfterRemoval(p), seen[p])
             /\ UNCHANGED <<people, owners, friends, disbanded, rows, cache, announced>>
    <3>1. DataOK' /\ Kept /\ LedgersKept' /\ BumpsWhatItChanges /\ cache' = cache
      BY <1>1, <2>2, SeatTyped, CircleWritten DEF Before, TypeOK, DataOK
    <3> QED BY <1>1, <1>a, <2>2, <3>1, GoControl DEF Before, After, TypeOK
  <2> QED BY <1>4, <2>1, <2>2 DEF RemoveLeave
<1>5. CASE RemoveDrop(p)
  <2>1. CASE Leave(p)
    BY <2>1, LeaveStep
  <2>2. CASE /\ member' = SeatIn(req[p].group, req[p].who, "none")
             /\ owners' = [owners EXCEPT ![req[p].group] = @ \ {req[p].who}]
             /\ Go(p, "RemoveForget", seen[p]) \/ Go(p, AfterRemoval(p), seen[p])
             /\ UNCHANGED <<people, friends, disbanded, rows, cache, announced>>
    <3>1. owners' \in [Groups -> SUBSET People]
      BY <2>2 DEF Before, TypeOK, DataOK
    <3>2. DataOK' /\ Kept /\ LedgersKept' /\ BumpsWhatItChanges /\ cache' = cache
      BY <1>1, <2>2, <3>1, SeatTyped, CircleWritten DEF Before, TypeOK, DataOK
    <3>3. "RemoveForget" \in RemoveAwaits
      BY DEF RemoveAwaits
    <3> QED BY <1>1, <1>a, <2>2, <3>2, <3>3, GoControl DEF Before, After, TypeOK
  <2> QED BY <1>5, <2>1, <2>2 DEF RemoveDrop
<1>6. CASE RemoveForget(p)
  <2>1. Go(p, "Removed", seen[p])
    BY <1>6 DEF RemoveForget
  <2>2. CASE UNCHANGED <<circle, rows, cache, announced>>
    BY <1>1, <2>1, <2>2, GoStep DEF RemoveAwaits
  <2>3. CASE ~UNCHANGED <<circle, rows, cache, announced>>
    <3>1. DataOK' /\ Kept /\ LedgersKept' /\ BumpsWhatItChanges /\ cache' = cache
      BY <1>1, <1>6, <2>3, RemoveForgets DEF RemoveForget, Go, To
    <3> QED BY <1>1, <2>1, <3>1, GoControl DEF RemoveAwaits, Before, After, TypeOK
  <2> QED BY <2>2, <2>3
<1>7. CASE RemoveSuccessor(p)
  <2> DEFINE heirs == Successors(req[p].group, req[p].who)
  <2>1. \A y \in heirs : [seen[p] EXCEPT !.people = {y}] \in Sightings
    BY <1>1 DEF Successors, Active, Sightings
  <2>2. CASE Go(p, "Removed", seen[p])
    BY <1>1, <1>7, <2>2, GoStep DEF RemoveSuccessor, RemoveAwaits
  <2>3. CASE \E y \in heirs : Go(p, "RemovePromote", [seen[p] EXCEPT !.people = {y}])
    BY <1>1, <1>7, <2>1, <2>3, GoStep DEF RemoveSuccessor, RemoveAwaits
  <2> QED BY <1>7, <2>2, <2>3 DEF RemoveSuccessor
<1>8. CASE RemovePromote(p)
  <2>1. owners' \in [Groups -> SUBSET People]
    BY <1>1, <1>8 DEF RemovePromote, Sightings, Before, TypeOK, DataOK
  <2>2. DataOK' /\ Kept /\ LedgersKept' /\ BumpsWhatItChanges /\ cache' = cache
    BY <1>8, <2>1, CircleWritten DEF RemovePromote, Before, TypeOK, DataOK
  <2> QED BY <1>1, <1>8, <2>2, GoControl DEF RemovePromote, RemoveAwaits, Before, After, TypeOK
<1>9. CASE Removed(p)
  BY <1>9, LeaveStep DEF Removed
<1> QED BY <1>2, <1>3, <1>4, <1>5, <1>6, <1>7, <1>8, <1>9

\* Folding a placeholder into a person, under a bump of every group it is in.
LEMMA Absorbed ==
    ASSUME Before, NEW ghost \in People, NEW into \in People, ghost # into,
           Absorb(ghost, into), strayed' = strayed \cup Strays,
           UNCHANGED <<owners, disbanded, cache, announced>>
    PROVE  DataOK' /\ Kept /\ LedgersKept' /\ BumpsWhatItChanges /\ cache' = cache
<1> DEFINE housed == {g \in Groups : Housed(g, ghost)}
<1>1. ASSUME NEW e \in ExpenseIds, expenses[e] # NoRow
      PROVE  /\ expenses'[e] \in ExpenseRows /\ expenses'[e] # NoRow
             /\ expenses'[e].group = expenses[e].group
             /\ expenses'[e].deleted = expenses[e].deleted
             /\ expenses'[e].bill = BillMoved(expenses[e].bill, ghost, into)
  <2>1. expenses[e] \in ExpenseRows /\ expenses[e].bill \in BillRows
    BY <1>1 DEF Before, TypeOK, DataOK, ExpenseRows
  <2>2. BillMoved(expenses[e].bill, ghost, into) \in BillRows
    <3>1. /\ Moved(expenses[e].bill.paid, ghost, into) \in [People -> Nat]
          /\ Moved(expenses[e].bill.owed, ghost, into) \in [People -> Nat]
      BY <2>1 DEF Moved, BillRows
    <3> QED BY <2>1, <3>1 DEF BillMoved, BillRows
  <2>3. expenses'[e] = [expenses[e] EXCEPT !.bill = BillMoved(expenses[e].bill, ghost, into)]
    BY <1>1 DEF Absorb
  <2>4. expenses'[e] \in ExpenseRows
    BY <2>1, <2>2, <2>3, RowWith
  <2> HIDE DEF Before
  <2> QED BY <2>1, <2>3, <2>4, RowAssumption DEF ExpenseRows
<1>2. \A e \in ExpenseIds : expenses[e] = NoRow => expenses'[e] = NoRow
  BY DEF Absorb
<1>3. ASSUME NEW s \in PaymentIds, payments[s] # NoRow
      PROVE  /\ payments'[s] \in PaymentRows /\ payments'[s] # NoRow
             /\ payments'[s].group = payments[s].group
             /\ payments'[s].deleted = payments[s].deleted
             /\ payments[s].from # ghost /\ payments[s].to # ghost => payments'[s] = payments[s]
  <2>1. payments[s] \in PaymentRows
    BY <1>3 DEF Before, TypeOK, DataOK
  <2>2. As(payments[s].from, ghost, into) \in People /\ As(payments[s].to, ghost, into) \in People
    BY <2>1 DEF As, PaymentRows
  <2>3. payments'[s] = [payments[s] EXCEPT !.from = As(payments[s].from, ghost, into),
                                           !.to   = As(payments[s].to, ghost, into)]
    BY <1>3 DEF Absorb, PaymentsOver
  <2>4. payments[s].from # ghost /\ payments[s].to # ghost => payments'[s] = payments[s]
    BY <2>1, <2>3 DEF As, PaymentRows
  <2>5. payments'[s] \in PaymentRows
    BY <2>1, <2>2, <2>3 DEF PaymentRows
  <2> QED BY <2>1, <2>3, <2>4, <2>5, RowAssumption DEF PaymentRows
<1>4. \A s \in PaymentIds : payments[s] = NoRow => payments'[s] = NoRow
  BY DEF Absorb, PaymentsOver
<1>5. expenses' \in [ExpenseIds -> ExpenseRows \cup {NoRow}] /\ Kept
  <2>1. expenses' = [e \in ExpenseIds |-> expenses'[e]]
    BY DEF Absorb
  <2>2. \A e \in ExpenseIds : expenses'[e] \in ExpenseRows \cup {NoRow}
    BY <1>1, <1>2
  <2> QED BY <1>1, <2>1, <2>2, RowAssumption DEF Kept
<1>6. payments' \in [PaymentIds -> PaymentRows \cup {NoRow}] /\ LedgersKept'
  <2>1. payments' = [s \in PaymentIds |-> payments'[s]]
    BY DEF Absorb, PaymentsOver
  <2>2. \A s \in PaymentIds : payments'[s] \in PaymentRows \cup {NoRow}
    BY <1>3, <1>4
  <2> QED BY <1>3, <1>4, <2>1, <2>2, RowAssumption DEF Before, TypeOK, DataOK, LedgersKept
<1>7. ASSUME NEW g \in Groups \ Strays, g \notin housed, g \notin disbanded
      PROVE  Sheet(g)' = Sheet(g)
  <2>0. member[g][ghost] = "none"
    BY <1>7 DEF Housed, Stands
  <2>1. /\ \A e \in LiveExpenses(g) : /\ expenses[e].bill.paid[ghost] = 0
                                      /\ expenses[e].bill.owed[ghost] = 0
        /\ \A s \in LivePayments(g) : payments[s].from # ghost /\ payments[s].to # ghost
    BY <2>0, Unnamed
  <2>2. ASSUME NEW e \in LiveExpenses(g)
        PROVE  e \in LiveExpenses(g)' /\ expenses'[e].bill = expenses[e].bill
    <3>1. expenses[e].bill \in BillRows
      BY DEF LiveExpenses, There, Stands, Before, TypeOK, DataOK, ExpenseRows
    <3>2. /\ Moved(expenses[e].bill.paid, ghost, into) = expenses[e].bill.paid
          /\ Moved(expenses[e].bill.owed, ghost, into) = expenses[e].bill.owed
      BY <2>1, <3>1 DEF Moved, BillRows
    <3>3. BillMoved(expenses[e].bill, ghost, into) = expenses[e].bill
      BY <3>1, <3>2 DEF BillMoved, BillRows
    <3> QED BY <1>1, <3>3 DEF LiveExpenses, There, Stands
  <2>3. LiveExpenses(g)' \subseteq LiveExpenses(g)
    BY <1>1, <1>2 DEF LiveExpenses, There, Stands
  <2>4. /\ \A s \in LivePayments(g) : s \in LivePayments(g)' /\ payments'[s] = payments[s]
        /\ LivePayments(g)' \subseteq LivePayments(g)
    BY <1>3, <1>4, <2>1 DEF LivePayments, There, Stands
  <2> QED BY <2>2, <2>3, <2>4, SameSheet
<1>8. \A f \in friends' : \E x, y \in People : x # y /\ f = {x, y}
  <2>1. ASSUME NEW f \in friends, f # {ghost, into}
        PROVE  \E x, y \in People : x # y /\ {As(z, ghost, into) : z \in f} = {x, y}
    <3>1. PICK x, y \in People : x # y /\ f = {x, y}
      BY DEF Before, TypeOK, DataOK
    <3>2. {As(z, ghost, into) : z \in f} = {As(x, ghost, into), As(y, ghost, into)}
      BY <3>1
    <3>3. /\ As(x, ghost, into) \in People /\ As(y, ghost, into) \in People
          /\ As(x, ghost, into) # As(y, ghost, into)
      BY <2>1, <3>1 DEF As
    <3> QED BY <3>2, <3>3
  <2> QED BY <2>1 DEF Absorb
<1>9. /\ people' \in [People -> {"unborn", "ghost", "real", "deleted", "gone"}]
      /\ member' \in [Groups -> [People -> {"none", "active", "left"}]]
      /\ owners' \in [Groups -> SUBSET People] /\ disbanded' \subseteq Groups
      /\ ledgerVersion' = Bumped(housed)
  BY DEF Before, TypeOK, DataOK, Absorb
<1>10. \A g \in Groups \ Astray' : g \in housed \/ Sheet(g)' = Sheet(g)
  BY <1>7 DEF Astray
<1> HIDE DEF housed
<1> QED BY <1>5, <1>6, <1>8, <1>9, <1>10, AllWritten

LEMMA MergeStep ==
    ASSUME Before, NEW p \in Procs, MergeMay(p) \/ MergeCommit(p)
    PROVE  After
<1>0. pc[p] \in MergeAwaits /\ pc[p] \notin SheetAwaits
  BY DEF MergeAwaits, SheetAwaits, MergeMay, MergeCommit
<1>1. /\ req[p].who \in People /\ req[p].into \in People
      /\ \A m \in MergeAwaits : Staged(m, req[p]) /\ m \in Awaits \ SheetAwaits /\ m \notin NeedsRow
  BY <1>0, AtStaged, MergeStaged
<1>2. CASE MergeMay(p)
  BY <1>1, <1>2, GoStep, LeaveStep, NothingTyped DEF MergeMay, MergeAwaits
<1>3. CASE MergeCommit(p)
  <2>1. CASE MayAbsorb(req[p].who, req[p].into)
    <3>1. DataOK' /\ Kept /\ LedgersKept' /\ BumpsWhatItChanges /\ cache' = cache
      BY <1>1, <1>3, <2>1, Absorbed DEF MergeCommit, MayAbsorb, Finish, To
    <3> QED BY <1>3, <3>1, FinishControl DEF MergeCommit, Before, After, TypeOK
  <2>2. CASE ~MayAbsorb(req[p].who, req[p].into)
    BY <1>3, <2>2, FinishStep DEF MergeCommit, circle
  <2> QED BY <2>1, <2>2
<1> QED BY <1>2, <1>3

LEMMA JoinStep ==
    ASSUME Before, NEW p \in Procs,
           JoinLook(p) \/ JoinClaim(p) \/ JoinSeat(p) \/ JoinConnect(p)
    PROVE  After
<1>0. pc[p] \in JoinAwaits /\ pc[p] \notin SheetAwaits
  BY DEF JoinAwaits, SheetAwaits, JoinLook, JoinClaim, JoinSeat, JoinConnect
<1>1. /\ req[p].group \in Groups /\ Me(p) \in People
      /\ \A m \in JoinAwaits \ {"join"} : (m = "JoinClaim" => req[p].claim \in People)
            => Staged(m, req[p]) /\ m \in Awaits \ SheetAwaits /\ m \notin NeedsRow
  <2>1. Staged(pc[p], req[p])
    BY <1>0, AtStaged
  <2>2. "JoinSeat" \in JoinAwaits /\ "JoinSeat" # "JoinClaim" /\ "JoinSeat" # "join"
    BY DEF JoinAwaits
  <2>3. req[p].session \in Sessions /\ req[p].group \in Groups
    BY <1>0, <2>1, <2>2, JoinStaged
  <2>4. ASSUME NEW m \in JoinAwaits \ {"join"}, m = "JoinClaim" => req[p].claim \in People
        PROVE  Staged(m, req[p]) /\ m \in Awaits \ SheetAwaits /\ m \notin NeedsRow
    BY <1>0, <2>1, <2>4, JoinStaged
  <2> QED BY <2>3, <2>4, LedgerAssumption DEF Me
<1>2. CASE JoinLook(p)
  <2>1. CASE Leave(p)
    BY <2>1, LeaveStep
  <2>2. CASE /\ Go(p, IF req[p].claim = NoClaim THEN "JoinSeat" ELSE "JoinClaim", Nothing)
             /\ UNCHANGED <<circle, rows, cache, announced>>
    <3>1. req[p].claim \in People \cup {NoClaim}
      BY <1>0, <1>2, AtStaged DEF JoinLook, Staged, MemberStage, JoinAwaits
    <3> QED BY <1>1, <2>2, <3>1, GoStep, NothingTyped DEF JoinAwaits
  <2> QED BY <1>2, <2>1, <2>2 DEF JoinLook
<1>3. CASE JoinClaim(p)
  <2>1. CASE Leave(p)
    BY <2>1, LeaveStep
  <2>2. CASE /\ MayAbsorb(req[p].claim, Me(p))
             /\ Absorb(req[p].claim, Me(p))
             /\ Go(p, "JoinSeat", Nothing)
             /\ UNCHANGED <<owners, disbanded, cache, announced>>
    <3>1. req[p].claim \in People
      BY <1>0, <1>3, AtStaged DEF JoinClaim, Staged, MemberStage
    <3>2. DataOK' /\ Kept /\ LedgersKept' /\ BumpsWhatItChanges /\ cache' = cache
      BY <1>1, <2>2, <3>1, Absorbed DEF MayAbsorb, Go, To
    <3> QED BY <1>1, <2>2, <3>2, GoControl, NothingTyped DEF JoinAwaits, Before, After, TypeOK
  <2> QED BY <1>3, <2>1, <2>2 DEF JoinClaim
<1>4. CASE JoinSeat(p)
  <2>1. CASE Leave(p)
    BY <2>1, LeaveStep
  <2>2. CASE /\ member' = SeatIn(req[p].group, Me(p), "active")
             /\ Go(p, "JoinConnect", Nothing)
             /\ UNCHANGED <<people, owners, friends, disbanded, rows, cache, announced>>
    <3>1. DataOK' /\ Kept /\ LedgersKept' /\ BumpsWhatItChanges /\ cache' = cache
      BY <1>1, <2>2, SeatTyped, CircleWritten DEF Before, TypeOK, DataOK
    <3> QED BY <1>1, <2>2, <3>1, GoControl, NothingTyped DEF JoinAwaits, Before, After, TypeOK
  <2> QED BY <1>4, <2>1, <2>2 DEF JoinSeat
<1>5. CASE JoinConnect(p)
  <2>1. \A f \in friends' : \E x, y \in People : x # y /\ f = {x, y}
    BY <1>1, <1>5 DEF JoinConnect, Successors, Active, Before, TypeOK, DataOK
  <2>2. DataOK' /\ Kept /\ LedgersKept' /\ BumpsWhatItChanges /\ cache' = cache
    BY <1>5, <2>1, CircleWritten DEF JoinConnect, Before, TypeOK, DataOK
  <2> QED BY <1>5, <2>2, FinishControl DEF JoinConnect, Before, After, TypeOK
<1> QED BY <1>2, <1>3, <1>4, <1>5

LEMMA MemberStep ==
    ASSUME Before, NEW p \in Procs, MemberSteps(p)
    PROVE  After
BY LookStep, RemoveStep, MergeStep, JoinStep, AddStep DEF MemberSteps

-----------------------------------------------------------------------------
(* Friendships, groups and accounts ending.                                *)

LEMMA FriendStaged ==
    ASSUME NEW r, NEW l \in FriendAwaits, NEW m \in FriendAwaits, Staged(l, r)
    PROVE  /\ Staged(m, r) /\ m \in Awaits \ SheetAwaits /\ m \notin NeedsRow
           /\ r.session \in Sessions /\ r.who \in People /\ r.who # PersonOf[r.session]
BY DEF Staged, ExpenseStage, PaymentStage, MemberStage, EndingStage, Awaits, SheetAwaits,
       NeedsRow, ExpenseAwaits, CreateAwaits, EditAwaits, DeleteAwaits, RestoreAwaits,
       PaymentAwaits, PayAwaits, BatchAwaits, UndoAwaits, RedoAwaits,
       MemberAwaits, GroupAwaits, LookAwaits, RemoveAwaits, MergeAwaits, JoinAwaits, AddAwaits,
       EndingAwaits, FriendAwaits, DisbandAwaits, CloseAwaits

LEMMA DisbandStaged ==
    ASSUME NEW r, NEW l \in DisbandAwaits, NEW m \in DisbandAwaits, Staged(l, r)
    PROVE  /\ Staged(m, r) /\ m \in Awaits \ SheetAwaits /\ m \notin NeedsRow
           /\ r.session \in Sessions /\ r.group \in Groups
BY DEF Staged, ExpenseStage, PaymentStage, MemberStage, EndingStage, Awaits, SheetAwaits,
       NeedsRow, ExpenseAwaits, CreateAwaits, EditAwaits, DeleteAwaits, RestoreAwaits,
       PaymentAwaits, PayAwaits, BatchAwaits, UndoAwaits, RedoAwaits,
       MemberAwaits, GroupAwaits, LookAwaits, RemoveAwaits, MergeAwaits, JoinAwaits, AddAwaits,
       EndingAwaits, FriendAwaits, DisbandAwaits, CloseAwaits

LEMMA CloseStaged ==
    ASSUME NEW r, NEW l \in CloseAwaits, NEW m \in CloseAwaits, Staged(l, r)
    PROVE  /\ Staged(m, r) /\ m \in Awaits \ SheetAwaits /\ m \notin NeedsRow
           /\ r.session \in Sessions
BY DEF Staged, ExpenseStage, PaymentStage, MemberStage, EndingStage, Awaits, SheetAwaits,
       NeedsRow, ExpenseAwaits, CreateAwaits, EditAwaits, DeleteAwaits, RestoreAwaits,
       PaymentAwaits, PayAwaits, BatchAwaits, UndoAwaits, RedoAwaits,
       MemberAwaits, GroupAwaits, LookAwaits, RemoveAwaits, MergeAwaits, JoinAwaits, AddAwaits,
       EndingAwaits, FriendAwaits, DisbandAwaits, CloseAwaits

\* What a handler keeps of the direct ledger until it decides.
LEMMA DirectSeen ==
    ASSUME Before
    PROVE  [Nothing EXCEPT !.direct = Sheet(NoGroup)] \in Sightings
BY SheetTyped, NothingTyped DEF Sightings, Before, TypeOK

LEMMA FriendStep ==
    ASSUME Before, NEW p \in Procs,
           \/ BefriendLook(p) \/ BefriendShare(p) \/ CodeLook(p) \/ BefriendWrite(p)
           \/ UnfriendShared(p) \/ UnfriendWrite(p)
    PROVE  After
<1>0. pc[p] \in FriendAwaits /\ pc[p] \notin SheetAwaits
  BY DEF FriendAwaits, SheetAwaits, BefriendLook, BefriendShare, CodeLook, BefriendWrite,
         UnfriendShared, UnfriendWrite
<1>1. /\ req[p].who \in People /\ Me(p) \in People /\ Me(p) # req[p].who
      /\ \A m \in FriendAwaits : Staged(m, req[p]) /\ m \in Awaits \ SheetAwaits /\ m \notin NeedsRow
  BY <1>0, AtStaged, FriendStaged, LedgerAssumption DEF Me
<1>2. CASE BefriendLook(p) \/ BefriendShare(p) \/ CodeLook(p)
  BY <1>1, <1>2, GoStep, LeaveStep, NothingTyped
     DEF BefriendLook, BefriendShare, CodeLook, FriendAwaits
<1>3. CASE BefriendWrite(p)
  <2>1. \A f \in friends' : \E x, y \in People : x # y /\ f = {x, y}
    BY <1>1, <1>3 DEF BefriendWrite, Before, TypeOK, DataOK
  <2>2. DataOK' /\ Kept /\ LedgersKept' /\ BumpsWhatItChanges /\ cache' = cache
    BY <1>3, <2>1, CircleWritten DEF BefriendWrite, Before, TypeOK, DataOK
  <2> QED BY <1>3, <2>2, FinishControl DEF BefriendWrite, Before, After, TypeOK
<1>4. CASE UnfriendShared(p)
  <2>1. SharedBy(Me(p), req[p].who) \in SUBSET Groups
    BY DEF SharedBy
  <2> QED BY <1>1, <1>4, <2>1, DirectSeen, ReadSheetsStep DEF UnfriendShared, FriendAwaits
<1>5. CASE UnfriendWrite(p)
  <2>1. CASE Leave(p)
    BY <2>1, LeaveStep
  <2>2. CASE /\ friends' = friends \ {{Me(p), req[p].who}}
             /\ Finish(p)
             /\ UNCHANGED <<people, member, owners, disbanded, rows, cache, announced>>
    <3>1. DataOK' /\ Kept /\ LedgersKept' /\ BumpsWhatItChanges /\ cache' = cache
      BY <2>2, CircleWritten DEF Before, TypeOK, DataOK
    <3> QED BY <2>2, <3>1, FinishControl DEF Before, After, TypeOK
  <2> QED BY <1>5, <2>1, <2>2 DEF UnfriendWrite
<1> QED BY <1>2, <1>3, <1>4, <1>5

\* A deleted group is astray from then on; no other group's rows are touched.
LEMMA DisbandStep ==
    ASSUME Before, NEW p \in Procs, DisbandAccess(p) \/ DisbandWrite(p)
    PROVE  After
<1>0. pc[p] \in DisbandAwaits /\ pc[p] \notin SheetAwaits
  BY DEF DisbandAwaits, SheetAwaits, DisbandAccess, DisbandWrite
<1>1. /\ req[p].group \in Groups
      /\ \A m \in DisbandAwaits : Staged(m, req[p]) /\ m \in Awaits \ SheetAwaits /\ m \notin NeedsRow
  BY <1>0, AtStaged, DisbandStaged
<1>2. CASE DisbandAccess(p)
  <2>1. {req[p].group} \in SUBSET Groups
    BY <1>1
  <2> QED BY <1>1, <1>2, <2>1, ReadSheetsStep, FinishStep, NothingTyped DEF DisbandAccess, DisbandAwaits
<1>3. CASE DisbandWrite(p)
  <2>1. CASE Leave(p)
    BY <2>1, LeaveStep
  <2>2. CASE /\ disbanded' = disbanded \cup {req[p].group}
             /\ Finish(p)
             /\ UNCHANGED <<people, member, owners, friends, rows, cache, announced>>
    <3>1. Kept /\ LedgersKept'
      BY <2>2 DEF Kept, Before, LedgersKept, rows
    <3>2. ASSUME NEW g \in Groups, g # req[p].group
          PROVE  Sheet(g)' = Sheet(g)
      <4>1. Stands(g)' = Stands(g)
        BY <2>2, <3>2 DEF Stands
      <4>2. LiveExpenses(g)' = LiveExpenses(g) /\ LivePayments(g)' = LivePayments(g)
        BY <2>2, <4>1 DEF LiveExpenses, LivePayments, There, Stands, rows
      <4> QED BY <2>2, <4>2 DEF Sheet, ExpensesOf, PaymentsOf, rows
    <3>3. \A g \in Groups \ Astray' : g \in {} \/ Sheet(g)' = Sheet(g)
      BY <2>2, <3>2 DEF Astray
    <3>4. ledgerVersion' = Bumped({}) /\ disbanded' \subseteq Groups
      BY <1>1, <2>2 DEF Bumped, rows, Before, TypeOK, DataOK
    <3>5. DataOK' /\ Kept /\ LedgersKept' /\ BumpsWhatItChanges /\ cache' = cache
      BY <2>2, <3>1, <3>3, <3>4, AllWritten DEF rows, Before, TypeOK, DataOK
    <3> QED BY <2>2, <3>5, FinishControl DEF Before, After, TypeOK
  <2> QED BY <1>3, <2>1, <2>2 DEF DisbandWrite
<1> QED BY <1>2, <1>3

LEMMA CloseStep ==
    ASSUME Before, NEW p \in Procs,
           CloseRead(p) \/ CloseCheck(p) \/ CloseOwned(p) \/ CloseWrite(p)
    PROVE  After
<1>0. pc[p] \in CloseAwaits /\ pc[p] \notin SheetAwaits
  BY DEF CloseAwaits, SheetAwaits, CloseRead, CloseCheck, CloseOwned, CloseWrite
<1>1. /\ Me(p) \in People
      /\ \A m \in CloseAwaits : Staged(m, req[p]) /\ m \in Awaits \ SheetAwaits /\ m \notin NeedsRow
  BY <1>0, AtStaged, CloseStaged, LedgerAssumption DEF Me
<1>2. CASE CloseRead(p)
  <2>1. {g \in Groups : Me(p) \in Active(g)} \in SUBSET Groups
    OBVIOUS
  <2> QED BY <1>1, <1>2, <2>1, DirectSeen, ReadSheetsStep DEF CloseRead, CloseAwaits
<1>3. CASE CloseCheck(p)
  BY <1>1, <1>3, GoStep, LeaveStep, NothingTyped DEF CloseCheck, CloseAwaits
<1>4. CASE CloseOwned(p)
  <2> DEFINE held == {g \in Groups : Me(p) \in Active(g) \cap owners[g]}
  <2>1. [Nothing EXCEPT !.seats = held \X {Me(p)}] \in Sightings
    BY <1>1, NothingTyped DEF Sightings
  <2> QED BY <1>1, <1>4, <2>1, GoStep DEF CloseOwned, CloseAwaits
<1>5. CASE CloseWrite(p)
  <2>1. /\ people' \in [People -> {"unborn", "ghost", "real", "deleted", "gone"}]
        /\ member' \in [Groups -> [People -> {"none", "active", "left"}]]
        /\ \A f \in friends' : \E x, y \in People : x # y /\ f = {x, y}
    BY <1>1, <1>5 DEF CloseWrite, Before, TypeOK, DataOK
  <2>2. owners' \in [Groups -> SUBSET People]
    <3> DEFINE Heirs(g) == {y \in Active(g) \ {Me(p)} : people[y] = "real"}
               passing  == {g \in Groups : <<g, Me(p)>> \in seen[p].seats /\ Heirs(g) # {}}
               left     == {g \in Groups : Me(p) \in Active(g)}
               Kept1(g) == owners[g] \ {x \in {Me(p)} : g \in left}
    <3>1. PICK heir \in [passing -> People] :
              owners' = [g \in Groups |-> Kept1(g) \cup {heir[h] : h \in passing \cap {g}}]
      BY <1>5 DEF CloseWrite
    <3>2. \A g \in Groups : Kept1(g) \subseteq People
      BY DEF Before, TypeOK, DataOK
    <3>3. \A h \in passing : heir[h] \in People
      BY <3>1
    <3> HIDE DEF passing, Kept1
    <3>4. \A g \in Groups : Kept1(g) \cup {heir[h] : h \in passing \cap {g}} \subseteq People
      BY <3>2, <3>3
    <3> QED BY <3>1, <3>4
  <2>3. DataOK' /\ Kept /\ LedgersKept' /\ BumpsWhatItChanges /\ cache' = cache
    BY <1>5, <2>1, <2>2, CircleWritten DEF CloseWrite
  <2> QED BY <1>5, <2>3, FinishControl DEF CloseWrite, Before, After, TypeOK
<1> QED BY <1>2, <1>3, <1>4, <1>5

LEMMA EndingStep ==
    ASSUME Before, NEW p \in Procs, EndingSteps(p)
    PROVE  After
BY FriendStep, DisbandStep, CloseStep DEF EndingSteps

-----------------------------------------------------------------------------
(* Reading sheets.                                                         *)

\* A step that writes no row.
LEMMA RowsStill ==
    ASSUME Before, UNCHANGED <<circle, rows, announced>>
    PROVE  Kept /\ LedgersKept' /\ BumpsWhatItChanges /\ Strays' = Strays
<1>1. Kept /\ LedgersKept'
  BY DEF Before, LedgersKept, Kept, rows, circle
<1>2. BumpsWhatItChanges
  BY DEF Before, TypeOK, DataOK, BumpsWhatItChanges, rows, circle, Sheet, ExpensesOf,
     PaymentsOf,
         LiveExpenses, LivePayments, There, Stands
<1>3. Strays' = Strays
  BY DEF rows, circle, Strays, NamedIn, LiveExpenses, LivePayments, There, Stands
<1> QED BY <1>1, <1>2, <1>3

\* A step of p while it reads sheets: its request waits where it was.
LEMMA ReadControl ==
    ASSUME Before, NEW p \in Procs, pc[p] \in SheetAwaits,
           NEW label, NEW r \in Readings, To(p, label),
           label \in SheetAwaits \/ label = reading[p].then,
           reading' = [reading EXCEPT ![p] = r], r.then = reading[p].then,
           UNCHANGED <<circle, rows, announced, req, seen, on, waits>>
    PROVE  ControlOK' /\ RowsFound' /\ LedgersKept' /\ BumpsWhatItChanges
<1>1. reading[p] \in Readings /\ reading[p].then \in Awaits \ SheetAwaits
  BY DEF Before, TypeOK, ControlOK, Readings
<1>2. pc' = [pc EXCEPT ![p] = label] /\ pc \in [Procs -> Awaits] /\ reading \in [Procs -> Readings]
  BY DEF To, Before, TypeOK, ControlOK
<1>3. \A q \in Procs : Place(q)' = Place(q)
  BY <1>1, <1>2 DEF Place
<1>4. ControlOK'
  <2>1. pc' \in [Procs -> Awaits] /\ reading' \in [Procs -> Readings]
    BY <1>1, <1>2, SheetAwaitsAre
  <2>2. arrived' \in Nat /\ strayed' \subseteq Groups
    BY DEF Before, TypeOK, ControlOK, To, Strays
  <2> QED BY <1>3, <2>1, <2>2 DEF Before, TypeOK, ControlOK
<1>5. RowsFound'
  BY <1>3 DEF Before, RowsFound, rows
<1> QED BY <1>4, <1>5, RowsStill

LEMMA SheetVersionsStep ==
    ASSUME IInv, NEW p \in Procs, SheetVersions(p)
    PROVE  IInv' /\ BumpsWhatItChanges
<1> DEFINE r     == reading[p]
           hits  == {g \in r.groups : Stands(g) /\ Hit(g)}
           stale == {g \in r.groups : Stands(g)} \ hits
           sheet == [g \in Groups |-> IF g \in hits THEN cache[g].sheet ELSE EmptySheet]
           next  == [r EXCEPT !.version = ledgerVersion, !.stale = stale, !.sheet = sheet]
           label == IF stale = {} THEN r.then ELSE "SheetExpenses"
<1>1. Before /\ r \in Readings /\ cache \in [Groups -> [version : Nat, sheet : Sheets] \cup {NoSheet}]
  BY DEF IInv, Before, TypeOK, ControlOK, DataOK
<1>2. sheet \in [Groups -> Sheets]
  BY <1>1 DEF Hit, Sheets, ExpenseFolds, EmptySheet
<1>3. /\ next \in Readings /\ next.then = r.then
      /\ next.version = ledgerVersion /\ next.stale = stale
  <2>1. ledgerVersion \in [Groups -> Nat] /\ stale \in SUBSET Groups
    BY <1>1 DEF Before, TypeOK, DataOK, Readings
  <2> HIDE DEF sheet, stale
  <2>2. [r EXCEPT !.version = ledgerVersion] \in Readings
    BY <1>1, <2>1 DEF Readings
  <2>3. [[r EXCEPT !.version = ledgerVersion] EXCEPT !.stale = stale] \in Readings
    BY <2>1, <2>2 DEF Readings
  <2>4. [[[r EXCEPT !.version = ledgerVersion] EXCEPT !.stale = stale] EXCEPT !.sheet = sheet]
          \in Readings
    BY <1>2, <2>3 DEF Readings
  <2> QED BY <1>1, <2>4 DEF Readings
<1>4. /\ pc[p] = "Versions" /\ reading' = [reading EXCEPT ![p] = next] /\ To(p, label)
      /\ UNCHANGED <<circle, rows, cache, announced, req, seen, on, waits>>
  BY DEF SheetVersions
<1>5. ControlOK' /\ RowsFound' /\ LedgersKept' /\ BumpsWhatItChanges
  <2>1. pc[p] \in SheetAwaits /\ (label \in SheetAwaits \/ label = r.then)
    BY <1>4 DEF SheetAwaits
  <2> HIDE DEF next, label
  <2> QED BY <1>1, <1>3, <1>4, <2>1, ReadControl
<1>6. DataOK'
  BY <1>4 DEF IInv, TypeOK, DataOK, circle, rows
<1>7. Astray' = Astray \cup Strays /\ \A g \in Groups : Sheet(g)' = Sheet(g)
  BY <1>1, <1>4, RowsStill DEF Astray, To, rows, circle, Sheet, ExpensesOf, PaymentsOf,
     LiveExpenses, LivePayments, There, Stands
<1>8. CacheCoherent'
  BY <1>4, <1>7 DEF IInv, CacheCoherent, rows
<1>9. ReadingCoherent'
  <2> SUFFICES ASSUME NEW q \in Procs, NEW g \in reading'[q].stale \ Astray',
                      pc'[q] \in {"SheetExpenses", "SheetPayments"}
               PROVE  /\ reading'[q].version[g] <= ledgerVersion'[g]
                      /\ (pc'[q] = "SheetPayments" /\ reading'[q].version[g] = ledgerVersion'[g])
                            => reading'[q].expenses[g] = ExpensesOf(g)'
    BY DEF ReadingCoherent
  <2>1. CASE q # p
    <3>1. reading'[q] = reading[q] /\ pc'[q] = pc[q] /\ g \notin Astray
      BY <1>4, <1>7, <2>1 DEF To, IInv, TypeOK, ControlOK
    <3> QED BY <1>4, <1>7, <3>1 DEF IInv, ReadingCoherent, Sheet, rows, circle, ExpensesOf, LiveExpenses, There, Stands
  <2>2. CASE q = p
    <3>1. pc'[p] = label /\ reading'[p] = next
      BY <1>4 DEF To, IInv, TypeOK, ControlOK
    <3>2. pc'[p] # "SheetPayments" /\ g \in Groups
      BY <1>1, <1>3, <2>2, <3>1 DEF Readings, SheetAwaits
    <3>3. reading'[p].version[g] = ledgerVersion'[g] /\ ledgerVersion'[g] \in Nat
      <4> HIDE DEF next
      <4> QED BY <1>3, <1>4, <1>6, <3>1, <3>2 DEF rows, DataOK
    <3> QED BY <2>2, <3>2, <3>3
  <2> QED BY <2>1, <2>2
<1> QED BY <1>5, <1>6, <1>8, <1>9 DEF IInv, TypeOK

LEMMA SheetExpensesStep ==
    ASSUME IInv, NEW p \in Procs, SheetExpenses(p)
    PROVE  IInv' /\ BumpsWhatItChanges
<1> DEFINE r    == reading[p]
           read == [g \in Groups |-> IF g \in r.stale THEN ExpensesOf(g) ELSE {}]
           next == [r EXCEPT !.expenses = read]
<1>1. Before /\ DataOK /\ r \in Readings
  BY DEF IInv, Before, TypeOK, ControlOK
<1>2. read \in [Groups -> ExpenseFolds]
  BY <1>1, SheetTyped DEF ExpenseFolds
<1>3. /\ next \in Readings /\ next.then = r.then /\ next.version = r.version
      /\ next.stale = r.stale /\ next.expenses = read
  <2> HIDE DEF read
  <2> QED BY <1>1, <1>2 DEF Readings
<1>4. /\ pc[p] = "SheetExpenses" /\ reading' = [reading EXCEPT ![p] = next]
      /\ To(p, "SheetPayments")
      /\ UNCHANGED <<circle, rows, cache, announced, req, seen, on, waits>>
  BY DEF SheetExpenses, IInv, TypeOK, ControlOK
<1>5. ControlOK' /\ RowsFound' /\ LedgersKept' /\ BumpsWhatItChanges
  <2>1. pc[p] \in SheetAwaits /\ "SheetPayments" \in SheetAwaits
    BY <1>4 DEF SheetAwaits
  <2> HIDE DEF next
  <2> QED BY <1>1, <1>3, <1>4, <2>1, ReadControl
<1>6. DataOK'
  BY <1>4 DEF IInv, TypeOK, DataOK, circle, rows
<1>7. Astray' = Astray \cup Strays /\ \A g \in Groups : Sheet(g)' = Sheet(g)
  BY <1>1, <1>4, RowsStill DEF Astray, To, rows, circle, Sheet, ExpensesOf, PaymentsOf,
     LiveExpenses, LivePayments, There, Stands
<1>8. CacheCoherent'
  BY <1>4, <1>7 DEF IInv, CacheCoherent, rows
<1>9. ReadingCoherent'
  <2> SUFFICES ASSUME NEW q \in Procs, NEW g \in reading'[q].stale \ Astray',
                      pc'[q] \in {"SheetExpenses", "SheetPayments"}
               PROVE  /\ reading'[q].version[g] <= ledgerVersion'[g]
                      /\ (pc'[q] = "SheetPayments" /\ reading'[q].version[g] = ledgerVersion'[g])
                            => reading'[q].expenses[g] = ExpensesOf(g)'
    BY DEF ReadingCoherent
  <2>1. CASE q # p
    <3>1. reading'[q] = reading[q] /\ pc'[q] = pc[q] /\ g \notin Astray
      BY <1>4, <1>7, <2>1 DEF To, IInv, TypeOK, ControlOK
    <3> QED BY <1>4, <1>7, <3>1 DEF IInv, ReadingCoherent, rows, circle, ExpensesOf, LiveExpenses, There, Stands
  <2>2. CASE q = p
    <3>1. reading'[p] = next /\ g \in r.stale \ Astray /\ g \in Groups
      BY <1>1, <1>3, <1>4, <1>7, <2>2 DEF IInv, TypeOK, ControlOK, Readings
    <3>2. r.version[g] <= ledgerVersion[g]
      BY <1>4, <3>1 DEF IInv, ReadingCoherent
    <3>3. ExpensesOf(g)' = ExpensesOf(g) /\ next.expenses[g] = ExpensesOf(g)
      BY <1>3, <1>4, <3>1 DEF rows, circle, ExpensesOf, LiveExpenses, There, Stands
    <3> HIDE DEF next
    <3> QED BY <1>3, <1>4, <2>2, <3>1, <3>2, <3>3 DEF rows
  <2> QED BY <2>1, <2>2
<1> QED BY <1>5, <1>6, <1>8, <1>9 DEF IInv, TypeOK

LEMMA SheetPaymentsStep ==
    ASSUME IInv, NEW p \in Procs, SheetPayments(p)
    PROVE  IInv' /\ BumpsWhatItChanges
<1> DEFINE r        == reading[p]
           fresh(g) == [expenses |-> r.expenses[g], payments |-> PaymentsOf(g)]
           held     == {g \in Groups : cache[g] # NoSheet} \cup r.stale
           sheet    == [g \in Groups |-> IF g \in r.stale THEN fresh(g) ELSE r.sheet[g]]
           next     == [r EXCEPT !.sheet = sheet]
<1>1. Before /\ DataOK /\ r \in Readings
  BY DEF IInv, Before, TypeOK, ControlOK
<1>2. \A g \in Groups : fresh(g) \in Sheets
  BY <1>1, SheetTyped DEF Sheets, Sheet, Readings
<1>3. next \in Readings /\ next.then = r.then
  <2>1. sheet \in [Groups -> Sheets]
    <3> HIDE DEF fresh
    <3> QED BY <1>1, <1>2 DEF Readings
  <2> HIDE DEF sheet
  <2> QED BY <1>1, <2>1 DEF Readings
<1>4. /\ pc[p] = "SheetPayments" /\ reading' = [reading EXCEPT ![p] = next]
      /\ To(p, r.then)
      /\ UNCHANGED <<circle, rows, announced, req, seen, on, waits>>
  BY DEF SheetPayments, IInv, TypeOK, ControlOK
<1>5. PICK kept \in SUBSET held :
         cache' = [g \in Groups |->
                      IF g \notin kept THEN NoSheet
                      ELSE IF g \in r.stale THEN [version |-> StampedAt(r, g), sheet |-> fresh(g)]
                      ELSE cache[g]]
  BY DEF SheetPayments
<1>6. ControlOK' /\ RowsFound' /\ LedgersKept' /\ BumpsWhatItChanges
  <2>1. pc[p] \in SheetAwaits
    BY <1>4 DEF SheetAwaits
  <2> HIDE DEF next
  <2> QED BY <1>1, <1>3, <1>4, <2>1, ReadControl
<1>7. DataOK'
  <2>1. cache' \in [Groups -> [version : Nat, sheet : Sheets] \cup {NoSheet}]
    <3>1. \A g \in Groups : StampedAt(r, g) \in Nat
      BY <1>1 DEF StampedAt, Readings
    <3> HIDE DEF fresh
    <3> QED BY <1>1, <1>2, <1>5, <3>1 DEF DataOK
  <2> QED BY <1>1, <1>4, <2>1 DEF DataOK, circle, rows
<1>8. /\ Astray' = Astray \cup Strays
      /\ \A g \in Groups : ExpensesOf(g)' = ExpensesOf(g) /\ Sheet(g)' = Sheet(g)
  BY <1>1, <1>4, RowsStill DEF Astray, To, rows, circle, Sheet, ExpensesOf, PaymentsOf,
     LiveExpenses, LivePayments, There, Stands
<1>9. CacheCoherent'
  <2> SUFFICES ASSUME NEW g \in Groups \ Astray', cache'[g] # NoSheet
               PROVE  /\ cache'[g].version <= ledgerVersion'[g]
                      /\ cache'[g].version = ledgerVersion'[g] => cache'[g].sheet = Sheet(g)'
    BY DEF CacheCoherent
  <2>0. g \notin Astray /\ ledgerVersion' = ledgerVersion /\ Sheet(g)' = Sheet(g)
    BY <1>4, <1>8 DEF rows
  <2>1. CASE g \in r.stale
    <3>1. cache'[g] = [version |-> r.version[g], sheet |-> fresh(g)]
      BY <1>5, <2>1 DEF StampedAt
    <3>2. /\ r.version[g] <= ledgerVersion[g]
          /\ r.version[g] = ledgerVersion[g] => r.expenses[g] = ExpensesOf(g)
      BY <1>4, <2>0, <2>1 DEF IInv, ReadingCoherent
    <3> QED BY <2>0, <3>1, <3>2 DEF Sheet
  <2>2. CASE g \notin r.stale
    <3>1. cache'[g] = cache[g]
      BY <1>5, <2>2
    <3> QED BY <2>0, <3>1 DEF IInv, CacheCoherent
  <2> QED BY <2>1, <2>2
<1>10. ReadingCoherent'
  <2> SUFFICES ASSUME NEW q \in Procs, NEW g \in reading'[q].stale \ Astray',
                      pc'[q] \in {"SheetExpenses", "SheetPayments"}
               PROVE  /\ reading'[q].version[g] <= ledgerVersion'[g]
                      /\ (pc'[q] = "SheetPayments" /\ reading'[q].version[g] = ledgerVersion'[g])
                            => reading'[q].expenses[g] = ExpensesOf(g)'
    BY DEF ReadingCoherent
  <2>1. q # p
    BY <1>1, <1>4 DEF To, IInv, TypeOK, ControlOK, Readings, SheetAwaits
  <2>2. reading'[q] = reading[q] /\ pc'[q] = pc[q] /\ g \notin Astray
    BY <1>4, <1>8, <2>1 DEF To, IInv, TypeOK, ControlOK
  <2>3. g \in Groups
    BY <2>2 DEF IInv, TypeOK, ControlOK, Readings
  <2> QED BY <1>4, <1>8, <2>2, <2>3 DEF IInv, ReadingCoherent, rows
<1> QED BY <1>6, <1>7, <1>9, <1>10 DEF IInv, TypeOK

-----------------------------------------------------------------------------
(* Requests arriving, and the whole next-state relation.                   *)

\* Writes that keep to their versions leave every sheet that was read, or is
\* being read, as good as it was.
LEMMA StaysCoherent ==
    ASSUME IInv, After
    PROVE  IInv' /\ BumpsWhatItChanges
<1>1. Astray \subseteq Astray'
  BY DEF After, Quiet, Kept, Astray
<1>2. ASSUME NEW g \in Groups \ Astray'
      PROVE  /\ g \notin Astray /\ ledgerVersion[g] \in Nat /\ ledgerVersion'[g] \in Nat
             /\ ledgerVersion[g] <= ledgerVersion'[g]
             /\ ledgerVersion'[g] = ledgerVersion[g] =>
                   Sheet(g)' = Sheet(g) /\ ExpensesOf(g)' = ExpensesOf(g)
  BY <1>1 DEF After, IInv, TypeOK, DataOK, BumpsWhatItChanges, Sheet
<1>3. CacheCoherent'
  <2> SUFFICES ASSUME NEW g \in Groups \ Astray', cache'[g] # NoSheet
               PROVE  /\ cache'[g].version <= ledgerVersion'[g]
                      /\ cache'[g].version = ledgerVersion'[g] => cache'[g].sheet = Sheet(g)'
    BY DEF CacheCoherent
  <2>1. cache' = cache /\ cache[g].version \in Nat
    BY DEF After, Quiet, Kept, IInv, TypeOK, DataOK
  <2> QED BY <1>2, <2>1 DEF IInv, CacheCoherent
<1>4. ReadingCoherent'
  <2> SUFFICES ASSUME NEW q \in Procs, NEW g \in reading'[q].stale \ Astray',
                      pc'[q] \in {"SheetExpenses", "SheetPayments"}
               PROVE  /\ reading'[q].version[g] <= ledgerVersion'[g]
                      /\ (pc'[q] = "SheetPayments" /\ reading'[q].version[g] = ledgerVersion'[g])
                            => reading'[q].expenses[g] = ExpensesOf(g)'
    BY DEF ReadingCoherent
  <2>1. reading'[q] = reading[q] /\ pc'[q] = pc[q]
    BY DEF After, Quiet, Kept
  <2>2. g \in Groups \ Astray' /\ reading[q].version[g] \in Nat
    BY <2>1 DEF IInv, TypeOK, ControlOK, Readings
  <2> QED BY <1>2, <2>1, <2>2 DEF IInv, ReadingCoherent
<1> QED BY <1>3, <1>4 DEF After, IInv

LEMMA HandleStep ==
    ASSUME IInv, NEW p \in Procs, Handle(p)
    PROVE  IInv' /\ BumpsWhatItChanges
<1>1. Before
  BY DEF IInv, Before
<1>2. CASE ExpenseSteps(p) \/ PaymentSteps(p) \/ MemberSteps(p) \/ EndingSteps(p)
  BY <1>1, <1>2, ExpenseStep, PaymentStep, MemberStep, EndingStep, StaysCoherent
<1>3. CASE SheetVersions(p) \/ SheetExpenses(p) \/ SheetPayments(p)
  BY <1>3, SheetVersionsStep, SheetExpensesStep, SheetPaymentsStep
<1> QED BY <1>2, <1>3 DEF Handle

\* A request on its way in fits the endpoint it is for.
LEMMA ExpenseArrives ==
    ASSUME Before, NEW r \in ExpenseArrivals
    PROVE  /\ Staged(r.op, r) /\ r.op \in Awaits \ SheetAwaits
           /\ r.op \in NeedsRow => expenses[r.id] \in ExpenseRows
<1>1. CASE r \in {q \in [op : {"create", "deleteExpense", "restoreExpense"},
                         session : Sessions, id : ExpenseIds] :
                     q.op # "create" => expenses[q.id] # NoRow}
  <2>1. /\ r.op \in {"create", "deleteExpense", "restoreExpense"}
        /\ r.session \in Sessions /\ r.id \in ExpenseIds
        /\ r.op # "create" => expenses[r.id] \in ExpenseRows
    BY <1>1 DEF Before, TypeOK, DataOK
  <2> QED BY <2>1
          DEF Staged, ExpenseStage, PaymentStage, MemberStage, EndingStage, Awaits,
              SheetAwaits, NeedsRow, ExpenseAwaits, CreateAwaits, EditAwaits, DeleteAwaits,
              RestoreAwaits,
              PaymentAwaits, PayAwaits, BatchAwaits, UndoAwaits, RedoAwaits,
              MemberAwaits, GroupAwaits, LookAwaits, RemoveAwaits, MergeAwaits, JoinAwaits,
              AddAwaits,
              EndingAwaits, FriendAwaits, DisbandAwaits, CloseAwaits
<1>2. CASE \E e \in ExpenseIds : /\ expenses[e] # NoRow
                                 /\ r \in [op : {"edit"}, session : Sessions, id : {e},
                                           bill : Bills, expected : 1 .. expenses[e].version]
  <2>1. /\ r.op = "edit" /\ r.session \in Sessions /\ r.id \in ExpenseIds
        /\ r.bill \in Bills /\ r.expected \in Nat /\ expenses[r.id] \in ExpenseRows
    BY <1>2 DEF Before, TypeOK, DataOK
  <2> QED BY <2>1
          DEF Staged, ExpenseStage, PaymentStage, MemberStage, EndingStage, Awaits,
              SheetAwaits, NeedsRow, ExpenseAwaits, CreateAwaits, EditAwaits, DeleteAwaits,
              RestoreAwaits,
              PaymentAwaits, PayAwaits, BatchAwaits, UndoAwaits, RedoAwaits,
              MemberAwaits, GroupAwaits, LookAwaits, RemoveAwaits, MergeAwaits, JoinAwaits,
              AddAwaits,
              EndingAwaits, FriendAwaits, DisbandAwaits, CloseAwaits
<1> QED BY <1>1, <1>2 DEF ExpenseArrivals

LEMMA PaymentArrives ==
    ASSUME NEW r \in PaymentArrivals
    PROVE  Staged(r.op, r) /\ r.op \in Awaits \ SheetAwaits /\ r.op \notin NeedsRow
<1>1. /\ r.op \in {"pay", "batch", "deletePayment", "restorePayment"} /\ r.session \in Sessions
      /\ r.op = "pay" => r.id \in LoneIds
      /\ r.op = "batch" => r.id \in BatchIds
      /\ r.op \in {"deletePayment", "restorePayment"} => r.id \in PaymentIds
  BY DEF PaymentArrivals, PaymentRequests
<1> QED BY <1>1
        DEF Staged, ExpenseStage, PaymentStage, MemberStage, EndingStage, Awaits,
            SheetAwaits, NeedsRow, ExpenseAwaits, CreateAwaits, EditAwaits, DeleteAwaits,
            RestoreAwaits,
            PaymentAwaits, PayAwaits, BatchAwaits, UndoAwaits, RedoAwaits,
            MemberAwaits, GroupAwaits, LookAwaits, RemoveAwaits, MergeAwaits, JoinAwaits,
            AddAwaits,
            EndingAwaits, FriendAwaits, DisbandAwaits, CloseAwaits

LEMMA MemberArrives ==
    ASSUME NEW r \in MemberArrivals
    PROVE  Staged(r.op, r) /\ r.op \in Awaits \ SheetAwaits /\ r.op \notin NeedsRow
<1>1. /\ r.op \in {"look", "remove", "add", "addGhost", "join", "merge"} /\ r.session \in Sessions
      /\ r.op # "merge" => r.group \in Groups
      /\ r.op \in {"remove", "add", "addGhost", "merge"} => r.who \in People
      /\ r.op = "merge" => r.into \in People
      /\ r.op = "join" => r.claim \in People \cup {NoClaim}
  BY DEF MemberArrivals, MemberRequests
<1> QED BY <1>1
        DEF Staged, ExpenseStage, PaymentStage, MemberStage, EndingStage, Awaits,
            SheetAwaits, NeedsRow, ExpenseAwaits, CreateAwaits, EditAwaits, DeleteAwaits,
            RestoreAwaits,
            PaymentAwaits, PayAwaits, BatchAwaits, UndoAwaits, RedoAwaits,
            MemberAwaits, GroupAwaits, LookAwaits, RemoveAwaits, MergeAwaits, JoinAwaits,
            AddAwaits,
            EndingAwaits, FriendAwaits, DisbandAwaits, CloseAwaits

LEMMA EndingArrives ==
    ASSUME NEW r \in EndingArrivals
    PROVE  Staged(r.op, r) /\ r.op \in Awaits \ SheetAwaits /\ r.op \notin NeedsRow
<1>1. /\ r.op \in {"befriend", "unfriend", "joinFriend", "disband", "close"}
      /\ r.session \in Sessions
      /\ r.op \in {"befriend", "unfriend", "joinFriend"} =>
            r.who \in People /\ r.who # PersonOf[r.session]
      /\ r.op = "disband" => r.group \in Groups
  BY DEF EndingArrivals, EndingRequests
<1> QED BY <1>1
        DEF Staged, ExpenseStage, PaymentStage, MemberStage, EndingStage, Awaits,
            SheetAwaits, NeedsRow, ExpenseAwaits, CreateAwaits, EditAwaits, DeleteAwaits,
            RestoreAwaits,
            PaymentAwaits, PayAwaits, BatchAwaits, UndoAwaits, RedoAwaits,
            MemberAwaits, GroupAwaits, LookAwaits, RemoveAwaits, MergeAwaits, JoinAwaits,
            AddAwaits,
            EndingAwaits, FriendAwaits, DisbandAwaits, CloseAwaits

LEMMA ArriveStep ==
    ASSUME IInv, NEW p \in Procs, Arrive(p)
    PROVE  IInv' /\ BumpsWhatItChanges
<1>1. Before
  BY DEF IInv, Before
<1>2. PICK r \in Arrivals : req' = [req EXCEPT ![p] = r] /\ pc' = [pc EXCEPT ![p] = r.op]
  BY DEF Arrive
<1>3. /\ Staged(r.op, r) /\ r.op \in Awaits \ SheetAwaits
      /\ r.op \in NeedsRow => expenses[r.id] \in ExpenseRows
  BY <1>1, <1>2, ExpenseArrives, PaymentArrives, MemberArrives, EndingArrives DEF Arrivals
<1>4. DataOK' /\ Kept /\ LedgersKept' /\ BumpsWhatItChanges /\ cache' = cache
  BY <1>1, Untouched DEF Arrive
<1>5. Place(p)' = r.op /\ req'[p] = r
  BY <1>2, <1>3 DEF Place, IInv, TypeOK, ControlOK
<1>6. \A q \in Procs \ {p} : Place(q)' = Place(q) /\ req'[q] = req[q]
  BY <1>2 DEF Place, Arrive, IInv, TypeOK, ControlOK
<1>7. ControlOK'
  <2>1. \A q \in Procs : Staged(Place(q)', req'[q])
    BY <1>3, <1>5, <1>6 DEF IInv, TypeOK, ControlOK, Staged
  <2>2. /\ pc' \in [Procs -> Awaits] /\ DOMAIN req' = Procs
        /\ arrived' \in Nat /\ strayed' \subseteq Groups
    BY <1>2, <1>3 DEF Arrive, IInv, TypeOK, ControlOK, Strays
  <2> QED BY <2>1, <2>2 DEF Arrive, IInv, TypeOK, ControlOK, Staged
<1>8. RowsFound'
  BY <1>3, <1>4, <1>5, <1>6 DEF IInv, RowsFound, Arrive, rows
<1>9. Quiet
  BY <1>2, <1>3, <1>4 DEF Quiet, Kept, Arrive, SheetAwaits, IInv, TypeOK, ControlOK
<1> QED BY <1>4, <1>7, <1>8, <1>9, StaysCoherent DEF After, TypeOK

LEMMA RestartStep ==
    ASSUME IInv, Restart
    PROVE  IInv' /\ BumpsWhatItChanges
<1>1. Before
  BY DEF IInv, Before
<1>2. LedgersKept' /\ BumpsWhatItChanges
  BY <1>1, RowsStill DEF Restart
<1>3. DataOK'
  BY DEF Restart, IInv, TypeOK, DataOK, circle, rows
<1>4. \A p \in Procs : Place(p)' = "idle" /\ req'[p] = NoRequest
  BY IdleStaged DEF Restart, Place
<1>5. ControlOK'
  <2>1. \A p \in Procs : Staged(Place(p)', req'[p])
    BY <1>4, IdleStaged
  <2>2. /\ pc' \in [Procs -> Awaits] /\ DOMAIN req' = Procs
        /\ seen' \in [Procs -> Sightings] /\ reading' \in [Procs -> Readings]
    BY IdleStaged, NothingTyped DEF Restart
  <2>3. /\ on' \in [Procs -> Keys \cup {NoKey}] /\ waits' \in [Procs -> SUBSET Procs]
        /\ arrived' \in Nat /\ strayed' \subseteq Groups
    BY DEF Restart, IInv, TypeOK, ControlOK, Strays
  <2> QED BY <2>1, <2>2, <2>3 DEF ControlOK, Staged
<1>6. RowsFound'
  BY <1>4, IdleStaged DEF RowsFound
<1>7. CacheCoherent' /\ ReadingCoherent'
  BY DEF Restart, CacheCoherent, ReadingCoherent
<1> QED BY <1>2, <1>3, <1>5, <1>6, <1>7 DEF IInv, TypeOK

LEMMA InitCoherent == Init => IInv
<1> SUFFICES ASSUME Init PROVE IInv
  OBVIOUS
<1>1. \A p \in Procs : Place(p) = "idle" /\ req[p] = NoRequest
  BY IdleStaged DEF Init, Place
<1>2. ControlOK
  <2>1. \A p \in Procs : Staged(Place(p), req[p])
    BY <1>1, IdleStaged
  <2>2. /\ pc \in [Procs -> Awaits] /\ DOMAIN req = Procs
        /\ seen \in [Procs -> Sightings] /\ reading \in [Procs -> Readings]
    BY IdleStaged, NothingTyped DEF Init
  <2>3. /\ on \in [Procs -> Keys \cup {NoKey}] /\ waits \in [Procs -> SUBSET Procs]
        /\ arrived \in Nat /\ strayed \subseteq Groups
    BY DEF Init
  <2> QED BY <2>1, <2>2, <2>3 DEF ControlOK, Staged
<1>3. expenses \in [ExpenseIds -> ExpenseRows \cup {NoRow}]
  <2>1. ASSUME NEW e \in Filed
        PROVE  [group |-> Draft[e].group, bill |-> Draft[e].bill, deleted |-> FALSE,
                version |-> 1, by |-> CHOOSE x \in Named(Draft[e].bill) : TRUE,
                session |-> CHOOSE s \in Sessions : TRUE] \in ExpenseRows
    <3>1. Draft[e].group \in Ledgers /\ Draft[e].bill \in BillRows
      BY DivvyAssumption, ExpensesAssumption DEF BillRows
    <3>2. (CHOOSE x \in Named(Draft[e].bill) : TRUE) \in People
      BY DivvyAssumption DEF Named
    <3>3. (CHOOSE s \in Sessions : TRUE) \in Sessions
      BY DivvyAssumption
    <3> QED BY <3>1, <3>2, <3>3 DEF ExpenseRows
  <2> QED BY <2>1 DEF Init
<1>4. DataOK
  BY <1>3, DivvyAssumption DEF DataOK, Init
<1>5. RowsFound /\ LedgersKept
  BY <1>1, IdleStaged, RowAssumption DEF RowsFound, LedgersKept, Init
<1>6. CacheCoherent /\ ReadingCoherent
  BY DEF Init, CacheCoherent, ReadingCoherent
<1> QED BY <1>2, <1>4, <1>5, <1>6 DEF IInv, TypeOK

LEMMA Inductive == IInv /\ [Next]_vars => IInv' /\ BumpsWhatItChanges
<1> SUFFICES ASSUME IInv, [Next]_vars PROVE IInv' /\ BumpsWhatItChanges
  OBVIOUS
<1>1. CASE Restart
  BY <1>1, RestartStep
<1>2. CASE \E p \in Procs : Arrive(p)
  BY <1>2, ArriveStep
<1>3. CASE \E p \in Procs : Handle(p)
  BY <1>3, HandleStep
<1>4. CASE UNCHANGED vars
  <2>1. BumpsWhatItChanges
    BY <1>4, RowsStill DEF IInv, Before, vars, circle, rows
  <2>2. /\ TypeOK'
    BY <1>4 DEF IInv, vars, TypeOK, DataOK, ControlOK, Place
  <2>3. RowsFound' /\ LedgersKept'
    BY <1>4 DEF IInv, vars, RowsFound, LedgersKept, Place
  <2>4. \A g \in Groups : Sheet(g)' = Sheet(g) /\ ExpensesOf(g)' = ExpensesOf(g)
    BY <1>4 DEF vars, Sheet, ExpensesOf, PaymentsOf, LiveExpenses, LivePayments, There, Stands
  <2>5. Astray' = Astray
    BY <1>4 DEF vars, Astray, Strays, NamedIn, LiveExpenses, LivePayments, There, Stands
  <2>6. CacheCoherent'
    BY <1>4, <2>4, <2>5 DEF IInv, vars, CacheCoherent
  <2>7. ReadingCoherent'
    <3>1. \A q \in Procs : reading[q].stale \subseteq Groups
      BY DEF IInv, TypeOK, ControlOK, Readings
    <3> QED BY <1>4, <2>4, <2>5, <3>1 DEF IInv, vars, ReadingCoherent
  <2> QED BY <2>1, <2>2, <2>3, <2>6, <2>7 DEF IInv
<1> QED BY <1>1, <1>2, <1>3, <1>4 DEF Next

-----------------------------------------------------------------------------
(* What every state and every step of the specification satisfies.         *)

\* The inductive invariant: every row of the kind it is taken for, each row and
\* ledger entry found where a handler in flight will look for it, and every
\* remembered or half-read sheet accounted for by the versions bumped since.
THEOREM Invariance == Spec => []IInv
BY InitCoherent, Inductive, PTL DEF Spec

\* Every row, every remembered reading and every request in flight is of the
\* kind the handler working on it takes it for, whatever is deleted, merged or
\* restored under it, for any number of handlers, people and rows.
THEOREM TypeCorrect == Spec => []TypeOK
<1>1. IInv => TypeOK
  BY DEF IInv
<1> QED BY <1>1, Invariance, PTL

\* Every endpoint bumps the version of each group whose balances it changes,
\* in the transaction that changes them, and no version ever goes back.
THEOREM EveryWriteBumps == Spec => WritesBump
<1>1. IInv /\ [Next]_vars => [BumpsWhatItChanges]_vars
  BY Inductive
<1> QED BY <1>1, Invariance, PTL DEF Spec, WritesBump

\* A sheet remembered at a group's current version is that group's balance
\* sheet now, however the three reads that filled it were interleaved with
\* writes, restarts and evictions.
THEOREM CacheServesTheBalance == Spec => []CacheCoherent
<1>1. IInv => CacheCoherent
  BY DEF IInv
<1> QED BY <1>1, Invariance, PTL

-----------------------------------------------------------------------------
(* How a handler moves: what a step of p leaves alone, and where it may    *)
(* take p.                                                                 *)

\* The places on a key of server/mutex.ts: queueing for it, and past one's turn.
Queueing == {"PayTurn", "BatchTurn"}
Inside   == {"PayCommit", "PayAnnounce", "BatchShared", "BatchCommit", "BatchAnnounce"}
Keyed    == Queueing \cup Inside

\* The places where a handler is about to write what it read a moment ago.
Acting == {"EditCommit", "UndoCommit", "RedoMembers", "RedoCommit"}

\* The places where it has filed something and has yet to say so.
Telling == {"CreateAnnounce", "PayAnnounce", "BatchAnnounce"}

\* The places of a handler that has a new placeholder to add.
Seating == {"addGhost", "AddGhostSeat"}

\* Handler q stands where it stood, knowing what it knew.
Rests(q) == /\ Place(q)' = Place(q) /\ req'[q] = req[q]
            /\ seen'[q] = seen[q] /\ on'[q] = on[q]

\* The steps that write a row.
Writes(p) ==
    \/ CreateCommit(p) \/ EditCommit(p) \/ DeleteCommit(p) \/ RestoreCommit(p)
    \/ PayCommit(p) \/ BatchCommit(p) \/ UndoCommit(p) \/ RedoCommit(p)
    \/ RemoveForget(p) \/ MergeCommit(p) \/ JoinClaim(p)

\* Those that say in the feed that something was filed, and those that make
\* somebody another kind of person.
Tells(p)   == CreateAnnounce(p) \/ PayAnnounce(p) \/ BatchAnnounce(p)
Renames(p) == RemoveForget(p) \/ MergeCommit(p) \/ JoinClaim(p)
                 \/ AddGhostSeat(p) \/ CloseWrite(p)

\* What p writes of all this.
Touches(p) ==
    /\ UNCHANGED <<expenses, payments>> \/ Writes(p)
    /\ UNCHANGED announced \/ Tells(p)
    /\ UNCHANGED people \/ Renames(p)

\* p goes on, without taking or giving up a key.
GoesOn(p) ==
    /\ on' = on /\ waits' = waits /\ req'[p] = req[p]
    /\ Place(p)' \in Keyed <=> Place(p) \in Keyed
    /\ Place(p)' \in Inside => Place(p) \in Inside \/ HasTurn(p)
    /\ Place(p)' \in Acting => \/ Rests(p) \/ EditCheck(p)
                               \/ UndoSiblings(p) \/ RedoSiblings(p) \/ RedoMembers(p)
    /\ Place(p)' \in Telling => Rests(p) \/ CreateCommit(p) \/ PayCommit(p) \/ BatchCommit(p)
    /\ Place(p)' \in Seating => Rests(p) \/ AddGhostAccess(p)

\* p chains itself behind those on a key.
Queues(p) ==
    /\ \E key \in Keys, label \in Queueing : Enqueue(p, key, label)
    /\ Place(p) \notin Keyed /\ Place(p)' \in Queueing

\* A step of p: the others stand still, and what p does is one of these.
Moves(p) ==
    /\ \A q \in Procs \ {p} : pc'[q] = pc[q] /\ Rests(q)
    /\ Touches(p)
    /\ Finish(p) \/ GoesOn(p) \/ Queues(p)

LEMMA Ends ==
    ASSUME ControlOK, NEW p \in Procs, Finish(p),
           Touches(p)
    PROVE  Moves(p)
<1>1. \A q \in Procs \ {p} : pc'[q] = pc[q] /\ Rests(q)
  BY DEF Finish, To, Place, Rests, ControlOK
<1> QED BY <1>1 DEF Moves

LEMMA Onward ==
    ASSUME ControlOK, NEW p \in Procs, NEW label, NEW what, Go(p, label, what),
           label \notin SheetAwaits, pc[p] \notin SheetAwaits,
           label \in Keyed <=> pc[p] \in Keyed,
           label \in Inside => pc[p] \in Inside \/ HasTurn(p),
           label \in Acting => \/ EditCheck(p) \/ UndoSiblings(p)
                               \/ RedoSiblings(p) \/ RedoMembers(p),
           label \in Telling => CreateCommit(p) \/ PayCommit(p) \/ BatchCommit(p),
           label \in Seating => AddGhostAccess(p),
           Touches(p)
    PROVE  Moves(p)
<1>1. \A q \in Procs \ {p} : pc'[q] = pc[q] /\ Rests(q)
  BY DEF Go, To, Place, Rests, ControlOK
<1>2. Place(p)' = label /\ Place(p) = pc[p]
  BY DEF Go, To, Place, ControlOK
<1>3. GoesOn(p)
  BY <1>2 DEF GoesOn, Go
<1> QED BY <1>1, <1>3 DEF Moves

LEMMA ForSheets ==
    ASSUME ControlOK, NEW p \in Procs, NEW groups, NEW label, NEW what,
           ReadSheets(p, groups, label, what),
           label \notin SheetAwaits, pc[p] \notin SheetAwaits,
           label \in Keyed <=> pc[p] \in Keyed, label \notin Acting \cup Telling \cup Seating,
           label \in Inside => pc[p] \in Inside \/ HasTurn(p),
           Touches(p)
    PROVE  Moves(p)
<1>1. \A q \in Procs \ {p} : pc'[q] = pc[q] /\ Rests(q)
  BY DEF ReadSheets, To, Place, Rests, ControlOK
<1>2. Place(p)' = label /\ Place(p) = pc[p]
  BY DEF ReadSheets, To, Place, ControlOK, SheetAwaits, NotReading
<1>3. GoesOn(p)
  BY <1>2 DEF GoesOn, ReadSheets
<1> QED BY <1>1, <1>3 DEF Moves

LEMMA IntoQueue ==
    ASSUME ControlOK, NEW p \in Procs, NEW key \in Keys, NEW label \in Queueing,
           Enqueue(p, key, label),
           label \notin SheetAwaits, pc[p] \notin SheetAwaits \cup Keyed,
           Touches(p)
    PROVE  Moves(p)
<1>1. \A q \in Procs \ {p} : pc'[q] = pc[q] /\ Rests(q)
  BY DEF Enqueue, To, Place, Rests, ControlOK
<1>2. Place(p)' = label /\ Place(p) = pc[p]
  BY DEF Enqueue, To, Place, ControlOK
<1>3. Queues(p)
  BY <1>2 DEF Queues
<1> QED BY <1>1, <1>3 DEF Moves

LEMMA ExpenseMoves ==
    ASSUME ControlOK, NEW p \in Procs, ExpenseSteps(p)
    PROVE  Moves(p)
<1> USE DEF rows, circle, Leave, Touches, Writes, Tells, Renames,
            SheetAwaits, Keyed, Queueing, Inside, Acting, Telling, Seating
<1>1. CASE CreateAccess(p) \/ CreateInvolve(p)
  BY <1>1, Ends, Onward DEF CreateAccess, CreateInvolve
<1>2. CASE CreateCommit(p)
  BY <1>2, Ends, Onward DEF CreateCommit, Replay
<1>3. CASE CreateAnnounce(p)
  BY <1>3, Ends DEF CreateAnnounce, Announce
<1>4. CASE EditLoad(p) \/ EditInvolve(p)
  BY <1>4, Ends, Onward DEF EditLoad, EditInvolve
<1>5. CASE EditCheck(p)
  BY <1>5, Ends, Onward DEF EditCheck
<1>6. CASE EditCommit(p)
  BY <1>6, Ends DEF EditCommit
<1>7. CASE DeleteLoad(p) \/ RestoreLoad(p) \/ RestoreMembers(p)
  BY <1>7, Ends, Onward DEF DeleteLoad, RestoreLoad, RestoreMembers
<1>8. CASE DeleteCommit(p) \/ RestoreCommit(p)
  BY <1>8, Ends DEF DeleteCommit, RestoreCommit
<1> QED BY <1>1, <1>2, <1>3, <1>4, <1>5, <1>6, <1>7, <1>8 DEF ExpenseSteps

LEMMA PaymentMoves ==
    ASSUME Before, NEW p \in Procs, PaymentSteps(p)
    PROVE  Moves(p)
<1> USE DEF rows, circle, Leave, Touches, Writes, Tells, Renames,
            SheetAwaits, Keyed, Queueing, Inside, Acting, Telling, Seating
<1>0. ControlOK
  BY DEF Before, TypeOK
<1>1. CASE PayReplay(p)
  BY <1>0, <1>1, Ends, Onward DEF PayReplay
<1>2. CASE PayMembers(p)
  <2>1. req[p].id \in LoneIds
    BY <1>2, AtStaged DEF PayMembers, Staged, PaymentStage, PayAwaits
  <2>2. PayKey(PaymentDraft[req[p].id]) \in Keys
    BY <2>1, SettlementsAssumption DEF PayKey, Keys
  <2> QED BY <1>0, <1>2, <2>2, Ends, IntoQueue DEF PayMembers
<1>3. CASE PayTurn(p)
  BY <1>0, <1>3, ForSheets DEF PayTurn
<1>4. CASE PayCommit(p)
  BY <1>0, <1>4, Ends, Onward DEF PayCommit
<1>5. CASE PayAnnounce(p) \/ BatchAnnounce(p)
  BY <1>0, <1>5, Ends DEF PayAnnounce, BatchAnnounce, Announce
<1>6. CASE BatchStart(p)
  <2>1. req[p].session \in Sessions /\ req[p].id \in BatchIds
    BY <1>6, AtStaged DEF BatchStart, Staged, PaymentStage, PaymentAwaits, BatchAwaits
  <2>2. PairKey(Me(p), BatchDraft[req[p].id].other) \in Keys
    BY <2>1, LedgerAssumption, SettlementsAssumption DEF Keys, Me
  <2> QED BY <1>0, <1>6, <2>2, Ends, IntoQueue DEF BatchStart
<1>7. CASE BatchTurn(p)
  BY <1>0, <1>7, Ends, Onward DEF BatchTurn
<1>8. CASE BatchShared(p)
  BY <1>0, <1>8, ForSheets DEF BatchShared
<1>9. CASE BatchCommit(p)
  BY <1>0, <1>9, Ends, Onward DEF BatchCommit
<1>10. CASE UndoLoad(p) \/ RedoLoad(p)
  BY <1>0, <1>10, Ends, Onward DEF UndoLoad, RedoLoad
<1>11. CASE UndoSiblings(p)
  <2>1. /\ pc[p] = "UndoSiblings" /\ UNCHANGED <<circle, rows, announced>>
        /\ Leave(p) \/ \E what : Go(p, "UndoCommit", what)
    BY <1>11 DEF UndoSiblings
  <2> QED BY <1>0, <1>11, <2>1, Ends, Onward
<1>12. CASE RedoSiblings(p)
  <2>1. /\ pc[p] = "RedoSiblings" /\ UNCHANGED <<circle, rows, announced>>
        /\ Leave(p) \/ \E what : Go(p, "RedoMembers", what)
    BY <1>12 DEF RedoSiblings
  <2> QED BY <1>0, <1>12, <2>1, Ends, Onward
<1>13. CASE RedoMembers(p)
  <2>1. /\ pc[p] = "RedoMembers" /\ UNCHANGED <<circle, rows, announced>>
        /\ Leave(p) \/ \E what : Go(p, "RedoCommit", what)
    BY <1>13 DEF RedoMembers
  <2> QED BY <1>0, <1>13, <2>1, Ends, Onward
<1>14. CASE UndoCommit(p) \/ RedoCommit(p)
  BY <1>0, <1>14, Ends DEF UndoCommit, RedoCommit
<1> QED BY <1>1, <1>2, <1>3, <1>4, <1>5, <1>6, <1>7, <1>8, <1>9, <1>10, <1>11, <1>12, <1>13,
           <1>14 DEF PaymentSteps

LEMMA MemberMoves ==
    ASSUME ControlOK, NEW p \in Procs, MemberSteps(p)
    PROVE  Moves(p)
<1> USE DEF rows, circle, Leave, Touches, Writes, Tells, Renames,
            SheetAwaits, Keyed, Queueing, Inside, Acting, Telling, Seating
<1>1. CASE Look(p) \/ RemoveAccess(p)
  BY <1>1, Ends, ForSheets DEF Look, RemoveAccess
<1>2. CASE Looked(p) \/ Removed(p)
  BY <1>2, Ends DEF Looked, Removed
<1>3. CASE RemoveCount(p)
  <2>1. CASE Leave(p)
    BY <2>1, Ends
  <2>2. CASE /\ Go(p, "RemoveLeave", seen[p]) \/ Go(p, "RemoveDrop", seen[p])
             /\ UNCHANGED <<circle, rows, cache, announced>>
    BY <1>3, <2>2, Onward DEF RemoveCount
  <2> QED BY <1>3, <2>1, <2>2 DEF RemoveCount
<1>4. CASE RemoveLeave(p) \/ RemoveDrop(p)
  <2>1. CASE Leave(p)
    BY <2>1, Ends
  <2>2. CASE /\ \E label \in {"RemoveForget", "RemoveSuccessor", "Removed"} :
                    Go(p, label, seen[p])
             /\ UNCHANGED <<people, rows, announced>>
    BY <1>4, <2>2, Onward DEF RemoveLeave, RemoveDrop
  <2>3. Leave(p) \/ UNCHANGED <<people, rows, announced>>
    BY <1>4 DEF RemoveLeave, RemoveDrop
  <2>4. AfterRemoval(p) \in {"RemoveForget", "RemoveSuccessor", "Removed"}
    BY DEF AfterRemoval
  <2>5. Leave(p) \/ \E label \in {"RemoveForget", "RemoveSuccessor", "Removed"} :
                       Go(p, label, seen[p])
    <3>1. CASE RemoveLeave(p)
      BY <2>4, <3>1 DEF RemoveLeave
    <3>2. CASE RemoveDrop(p)
      BY <2>4, <3>2 DEF RemoveDrop
    <3> QED BY <1>4, <3>1, <3>2
  <2> QED BY <2>1, <2>2, <2>3, <2>5
<1>5. CASE RemoveForget(p)
  BY <1>5, Onward DEF RemoveForget
<1>6. CASE RemoveSuccessor(p) \/ RemovePromote(p)
  <2>1. /\ pc[p] \in {"RemoveSuccessor", "RemovePromote"}
        /\ UNCHANGED <<people, rows, announced>>
        /\ \E what : \E label \in {"Removed", "RemovePromote"} : Go(p, label, what)
    BY <1>6 DEF RemoveSuccessor, RemovePromote
  <2> QED BY <2>1, Onward
<1>7. CASE MergeMay(p) \/ AddAccess(p) \/ AddGhostAccess(p) \/ JoinSeat(p)
  BY <1>7, Ends, Onward DEF MergeMay, AddAccess, AddGhostAccess, JoinSeat
<1>8. CASE MergeCommit(p)
  BY <1>8, Ends DEF MergeCommit
<1>9. CASE JoinLook(p)
  <2>1. CASE Leave(p)
    BY <2>1, Ends
  <2>2. CASE /\ Go(p, "JoinSeat", Nothing) \/ Go(p, "JoinClaim", Nothing)
             /\ UNCHANGED <<circle, rows, cache, announced>>
    BY <1>9, <2>2, Onward DEF JoinLook
  <2> QED BY <1>9, <2>1, <2>2 DEF JoinLook
<1>10. CASE JoinClaim(p)
  BY <1>10, Ends, Onward DEF JoinClaim
<1>11. CASE JoinConnect(p) \/ AddSeat(p) \/ AddGhostSeat(p)
  BY <1>11, Ends DEF JoinConnect, AddSeat, AddGhostSeat
<1> QED BY <1>1, <1>2, <1>3, <1>4, <1>5, <1>6, <1>7, <1>8, <1>9, <1>10, <1>11 DEF MemberSteps

LEMMA EndingMoves ==
    ASSUME ControlOK, NEW p \in Procs, EndingSteps(p)
    PROVE  Moves(p)
<1> USE DEF rows, circle, Leave, Touches, Writes, Tells, Renames,
            SheetAwaits, Keyed, Queueing, Inside, Acting, Telling, Seating
<1>1. CASE BefriendLook(p) \/ BefriendShare(p) \/ CodeLook(p) \/ CloseCheck(p) \/ CloseOwned(p)
  BY <1>1, Ends, Onward DEF BefriendLook, BefriendShare, CodeLook, CloseCheck, CloseOwned
<1>2. CASE BefriendWrite(p) \/ UnfriendWrite(p) \/ DisbandWrite(p)
  BY <1>2, Ends DEF BefriendWrite, UnfriendWrite, DisbandWrite
<1>3. CASE CloseWrite(p)
  BY <1>3, Ends DEF CloseWrite
<1>4. CASE UnfriendShared(p) \/ DisbandAccess(p) \/ CloseRead(p)
  BY <1>4, Ends, ForSheets DEF UnfriendShared, DisbandAccess, CloseRead
<1> QED BY <1>1, <1>2, <1>3, <1>4 DEF EndingSteps

LEMMA SheetMoves ==
    ASSUME ControlOK, NEW p \in Procs, SheetVersions(p) \/ SheetExpenses(p) \/ SheetPayments(p)
    PROVE  Moves(p)
<1>1. /\ pc[p] \in SheetAwaits /\ reading[p] \in Readings
      /\ reading[p].then \in Awaits \ SheetAwaits
  BY DEF SheetVersions, SheetExpenses, SheetPayments, SheetAwaits, ControlOK, Readings
<1>2. \E label, r : /\ To(p, label) /\ reading' = [reading EXCEPT ![p] = r]
                    /\ r.then = reading[p].then
                    /\ label \in SheetAwaits \/ label = reading[p].then
  <2>1. CASE SheetVersions(p)
    BY <1>1, <2>1 DEF SheetVersions, SheetAwaits, Readings
  <2>2. CASE SheetExpenses(p)
    BY <1>1, <2>2 DEF SheetExpenses, SheetAwaits, Readings, ControlOK
  <2>3. CASE SheetPayments(p)
    BY <1>1, <2>3 DEF SheetPayments, SheetAwaits, Readings, ControlOK
  <2> QED BY <2>1, <2>2, <2>3
<1>3. UNCHANGED <<people, expenses, payments, announced, req, seen, on, waits>>
  BY DEF SheetVersions, SheetExpenses, SheetPayments, rows, circle
<1>4. \A q \in Procs : Place(q)' = Place(q) /\ (q # p => pc'[q] = pc[q])
  BY <1>1, <1>2 DEF To, Place, ControlOK
<1> QED BY <1>3, <1>4 DEF Moves, Touches, Rests, GoesOn

LEMMA HandleMoves ==
    ASSUME Before, NEW p \in Procs, Handle(p)
    PROVE  Moves(p)
BY ExpenseMoves, PaymentMoves, MemberMoves, EndingMoves, SheetMoves DEF Handle, Before, TypeOK

LEMMA Knocks ==
    ASSUME NEW p \in Procs, ControlOK, Arrive(p)
    PROVE  /\ \A q \in Procs \ {p} : pc'[q] = pc[q] /\ Rests(q)
           /\ pc[p] = "idle" /\ Place(p)' \notin Keyed \cup Acting \cup Telling
           /\ UNCHANGED <<circle, rows, on, waits>>
<1>1. PICK r \in Arrivals : req' = [req EXCEPT ![p] = r] /\ pc' = [pc EXCEPT ![p] = r.op]
  BY DEF Arrive
<1>2. r.op \notin Keyed \cup Acting \cup Telling \cup SheetAwaits
  <2>1. CASE r \in ExpenseArrivals
    BY <2>1 DEF ExpenseArrivals, Keyed, Queueing, Inside, Acting, Telling, SheetAwaits
  <2>2. CASE r \in PaymentArrivals
    BY <2>2 DEF PaymentArrivals, PaymentRequests, Keyed, Queueing, Inside, Acting, Telling,
       SheetAwaits
  <2>3. CASE r \in MemberArrivals
    BY <2>3 DEF MemberArrivals, MemberRequests, Keyed, Queueing, Inside, Acting, Telling,
       SheetAwaits
  <2>4. CASE r \in EndingArrivals
    BY <2>4 DEF EndingArrivals, EndingRequests, Keyed, Queueing, Inside, Acting, Telling,
       SheetAwaits
  <2> QED BY <2>1, <2>2, <2>3, <2>4 DEF Arrivals
<1>3. Place(p)' = r.op
  BY <1>1, <1>2 DEF Place, ControlOK
<1>4. \A q \in Procs \ {p} : pc'[q] = pc[q] /\ Rests(q)
  BY <1>1 DEF Arrive, Rests, Place, ControlOK
<1> QED BY <1>2, <1>3, <1>4 DEF Arrive

\* What a step is, to somebody who asks only who moves: a restart, a request
\* arriving, a handler's own step, or nothing.
LEMMA StepIs ==
    ASSUME [Next]_vars
    PROVE  \/ Restart \/ UNCHANGED vars
           \/ \E p \in Procs : Arrive(p) \/ Handle(p)
BY DEF Next

-----------------------------------------------------------------------------
(* server/mutex.ts: one settle-up at a time.                               *)

\* A handler holds a key exactly while it is at a place on one, and waits only
\* for handlers on its own.
KeysHeld ==
    \A p \in Procs :
        /\ on[p] # NoKey <=> Place(p) \in Keyed
        /\ \A q \in waits[p] : q # p /\ on[q] = on[p] /\ on[p] # NoKey
        /\ Place(p) \in Inside => waits[p] = {}

InLine == KeysHeld /\ OneAtATime

LEMMA KeyIsNone == NoKey \notin Keys
BY DEF NoKey, Keys, PairKey, GroupKey

LEMMA StillInLine ==
    ASSUME InLine, NEW p \in Procs, on' = on, waits' = waits,
           \A q \in Procs \ {p} : Place(q)' = Place(q),
           Place(p)' \in Keyed <=> Place(p) \in Keyed,
           Place(p)' \in Inside => Place(p) \in Inside \/ HasTurn(p)
    PROVE  InLine'
<1>1. \A q \in Procs : Place(q)' \in Keyed <=> Place(q) \in Keyed
  OBVIOUS
<1>2. \A q \in Procs : Place(q)' \in Inside => Place(q) \in Inside \/ HasTurn(q)
  OBVIOUS
<1>3. KeysHeld'
  BY <1>1, <1>2 DEF InLine, KeysHeld, HasTurn
<1>4. OneAtATime'
  BY DEF InLine, OneAtATime
<1> QED BY <1>3, <1>4 DEF InLine

LEMMA FinishInLine ==
    ASSUME IInv, InLine, NEW p \in Procs, Finish(p), Moves(p)
    PROVE  InLine'
<1>1. /\ on' = [on EXCEPT ![p] = NoKey] /\ Place(p)' = "idle"
      /\ \A q \in Procs : waits'[q] = IF q = p THEN {} ELSE waits[q] \ {p}
  BY DEF Finish, To, Released, Place, SheetAwaits, IInv, TypeOK, ControlOK
<1>2. \A q \in Procs \ {p} : on'[q] = on[q] /\ Place(q)' = Place(q)
  BY DEF Moves, Rests
<1>3. on'[p] = NoKey /\ "idle" \notin Keyed /\ "idle" \notin Inside
  BY <1>1 DEF IInv, TypeOK, ControlOK, Keyed, Queueing, Inside
<1>4. waits \in [Procs -> SUBSET Procs]
  BY DEF IInv, TypeOK, ControlOK
<1>5. KeysHeld'
  BY <1>1, <1>2, <1>3, <1>4 DEF InLine, KeysHeld
<1>6. OneAtATime'
  <2> SUFFICES ASSUME NEW q \in Procs, NEW r \in Procs, q # r, on'[q] = on'[r], on'[q] # NoKey
               PROVE  (q \in waits'[r]) # (r \in waits'[q])
    BY DEF OneAtATime
  <2>1. q # p /\ r # p /\ on[q] = on[r] /\ on[q] # NoKey
    BY <1>2, <1>3
  <2>2. waits'[q] = waits[q] \ {p} /\ waits'[r] = waits[r] \ {p}
    BY <1>1, <2>1
  <2> QED BY <2>1, <2>2 DEF InLine, OneAtATime
<1> QED BY <1>5, <1>6 DEF InLine

LEMMA QueueInLine ==
    ASSUME IInv, InLine, NEW p \in Procs, Queues(p), Moves(p)
    PROVE  InLine'
<1>1. PICK key \in Keys, label \in Queueing : Enqueue(p, key, label)
  BY DEF Queues
<1>2. /\ on' = [on EXCEPT ![p] = key]
      /\ waits' = [waits EXCEPT ![p] = {q \in Procs : on[q] = key}]
  BY <1>1 DEF Enqueue
<1>3. on \in [Procs -> Keys \cup {NoKey}] /\ waits \in [Procs -> SUBSET Procs]
  BY DEF IInv, TypeOK, ControlOK
<1>4. /\ on'[p] = key /\ key # NoKey /\ on[p] = NoKey
      /\ Place(p)' \in Keyed /\ Place(p)' \notin Inside
  BY <1>2, <1>3, KeyIsNone DEF Queues, InLine, KeysHeld, Keyed, Queueing, Inside
<1>5. \A q \in Procs \ {p} : on'[q] = on[q] /\ Place(q)' = Place(q) /\ waits'[q] = waits[q]
  BY <1>2, <1>3 DEF Moves, Rests
<1>6. waits'[p] = {q \in Procs : on[q] = key}
  BY <1>2, <1>3
<1>7. KeysHeld'
  <2> SUFFICES ASSUME NEW q \in Procs
               PROVE  /\ on'[q] # NoKey <=> Place(q)' \in Keyed
                      /\ \A r \in waits'[q] : r # q /\ on'[r] = on'[q] /\ on'[q] # NoKey
                      /\ Place(q)' \in Inside => waits'[q] = {}
    BY DEF KeysHeld
  <2>1. CASE q = p
    BY <1>4, <1>5, <1>6, <2>1
  <2>2. CASE q # p
    <3>1. ASSUME NEW r \in waits[q] PROVE r # p
      BY <1>3, <1>4, <3>1 DEF InLine, KeysHeld
    <3> QED BY <1>3, <1>5, <2>2, <3>1 DEF InLine, KeysHeld
  <2> QED BY <2>1, <2>2
<1>8. OneAtATime'
  <2> SUFFICES ASSUME NEW q \in Procs, NEW r \in Procs, q # r, on'[q] = on'[r], on'[q] # NoKey
               PROVE  (q \in waits'[r]) # (r \in waits'[q])
    BY DEF OneAtATime
  <2>1. CASE q # p /\ r # p
    BY <1>5, <2>1 DEF InLine, OneAtATime
  <2>2. CASE q = p
    <3>1. p \notin waits[r] /\ waits'[r] = waits[r] /\ on[r] = key
      BY <1>3, <1>4, <1>5, <2>2 DEF InLine, KeysHeld
    <3> QED BY <1>6, <2>2, <3>1
  <2>3. CASE r = p
    <3>1. p \notin waits[q] /\ waits'[q] = waits[q] /\ on[q] = key
      BY <1>3, <1>4, <1>5, <2>3 DEF InLine, KeysHeld
    <3> QED BY <1>6, <2>3, <3>1
  <2> QED BY <2>1, <2>2, <2>3
<1> QED BY <1>7, <1>8 DEF InLine

LEMMA StaysInLine == IInv /\ InLine /\ [Next]_vars => InLine'
<1> SUFFICES ASSUME IInv, InLine, [Next]_vars PROVE InLine'
  OBVIOUS
<1>1. Before /\ ControlOK
  BY DEF IInv, Before, TypeOK
<1>2. CASE Restart
  BY <1>2 DEF Restart, InLine, KeysHeld, OneAtATime, Place, SheetAwaits, Keyed, Queueing, Inside
<1>3. CASE UNCHANGED vars
  BY <1>3 DEF vars, InLine, KeysHeld, OneAtATime, Place
<1>4. ASSUME NEW p \in Procs, Arrive(p)
      PROVE  InLine'
  <2>1. /\ \A q \in Procs \ {p} : Place(q)' = Place(q)
        /\ Place(p)' \notin Keyed /\ Place(p) \notin Keyed /\ Place(p)' \notin Inside
        /\ on' = on /\ waits' = waits
    BY <1>1, <1>4, Knocks DEF Rests, Place, SheetAwaits, Keyed, Queueing, Inside
  <2> QED BY <2>1, StillInLine
<1>5. ASSUME NEW p \in Procs, Handle(p)
      PROVE  InLine'
  <2>1. Moves(p)
    BY <1>1, <1>5, HandleMoves
  <2>2. CASE GoesOn(p)
    <3>1. /\ \A q \in Procs \ {p} : Place(q)' = Place(q)
          /\ Place(p)' \in Keyed <=> Place(p) \in Keyed
          /\ Place(p)' \in Inside => Place(p) \in Inside \/ HasTurn(p)
          /\ on' = on /\ waits' = waits
      BY <2>1, <2>2 DEF Moves, GoesOn, Rests
    <3> QED BY <3>1, StillInLine
  <2> QED BY <2>1, <2>2, FinishInLine, QueueInLine DEF Moves
<1> QED BY <1>2, <1>3, <1>4, <1>5, StepIs

LEMMA InitInLine == Init => InLine
BY DEF Init, InLine, KeysHeld, OneAtATime, Place, SheetAwaits, Keyed, Queueing, Inside

\* Settle-ups queue: of two handlers on one key exactly one waits for the other,
\* so neither's reading and writing is interleaved with the other's, and they
\* never wait for each other (server/mutex.ts).
THEOREM SettlesOneAtATime == Spec => []OneAtATime
<1>2. InLine => OneAtATime
  BY DEF InLine
<1> QED BY <1>2, InitInLine, StaysInLine, Invariance, PTL DEF Spec

\* So no two handlers are past their turn on one key: what a settle-up reads
\* and what it then writes has no other settle-up of that group, or of that
\* pair, in between.
THEOREM NobodyInside ==
    Spec => [](\A p, q \in Procs : p # q /\ Place(p) \in Inside /\ Place(q) \in Inside
                                      => on[p] # on[q])
<1>1. InLine => (\A p, q \in Procs : p # q /\ Place(p) \in Inside /\ Place(q) \in Inside
                                      => on[p] # on[q])
  BY DEF InLine, KeysHeld, OneAtATime, Keyed
<1> QED BY <1>1, InitInLine, StaysInLine, Invariance, PTL DEF Spec

-----------------------------------------------------------------------------
(* server/write.ts: no edit lands on a version its editor had not seen.    *)

\* A row at the version it had has been neither deleted, restored nor edited.
Ages(old, new) ==
    \/ new.version > old.version
    \/ new.version = old.version /\ new.deleted = old.deleted /\ new.session = old.session

RowsAge == \A e \in ExpenseIds : expenses[e] \in ExpenseRows => Ages(expenses[e], expenses'[e])

\* About to write, an editor has checked the version that is there, or one that
\* has been replaced since.
EditorsKnow ==
    \A p \in Procs : Place(p) = "EditCommit" =>
        LET row == expenses[req[p].id]
        IN  /\ seen[p].version <= row.version
            /\ seen[p].version = row.version =>
                  /\ ~row.deleted
                  /\ row.version = req[p].expected \/ row.session = req[p].session

LEMMA StillAges == ASSUME UNCHANGED expenses PROVE RowsAge
BY DEF RowsAge, Ages

LEMMA OneRowAges ==
    ASSUME Before, NEW e \in ExpenseIds, NEW row, expenses' = [expenses EXCEPT ![e] = row],
           expenses[e] \in ExpenseRows => row.version > expenses[e].version
    PROVE  RowsAge
BY DEF RowsAge, Ages, Before, TypeOK, DataOK

LEMMA BillsAge ==
    ASSUME \A e \in ExpenseIds : expenses[e] \in ExpenseRows =>
               \E bill : expenses'[e] = [expenses[e] EXCEPT !.bill = bill]
    PROVE  RowsAge
<1> SUFFICES ASSUME NEW e \in ExpenseIds, expenses[e] \in ExpenseRows
             PROVE  Ages(expenses[e], expenses'[e])
  BY DEF RowsAge
<1>1. PICK bill : expenses'[e] = [expenses[e] EXCEPT !.bill = bill]
  OBVIOUS
<1> QED BY <1>1 DEF Ages, ExpenseRows

LEMMA MarkedAges ==
    ASSUME Before, NEW e \in ExpenseIds, NEW to, SetDeleted(e, to), There(expenses[e])
    PROVE  RowsAge
<1>1. expenses[e] \in ExpenseRows
  BY DEF Before, TypeOK, DataOK, There
<1> DEFINE row == [expenses[e] EXCEPT !.deleted = to, !.version = @ + 1]
<1>2. row.version > expenses[e].version
  BY <1>1 DEF ExpenseRows
<1>3. expenses' = [expenses EXCEPT ![e] = row]
  BY DEF SetDeleted
<1> HIDE DEF row
<1> QED BY <1>2, <1>3, OneRowAges

LEMMA AbsorbAges ==
    ASSUME NEW ghost, NEW into, Absorb(ghost, into)
    PROVE  RowsAge
BY BillsAge, RowAssumption DEF Absorb

LEMMA WritesAge ==
    ASSUME Before, NEW p \in Procs, UNCHANGED expenses \/ Writes(p)
    PROVE  RowsAge
<1>1. CASE UNCHANGED expenses
  BY <1>1, StillAges
<1>2. CASE CreateCommit(p)
  <2>1. req[p].id \in ExpenseIds
    BY <1>2, AtStaged DEF CreateCommit, SheetAwaits, Staged, ExpenseStage, ExpenseAwaits,
       CreateAwaits
  <2>2. \/ UNCHANGED expenses
        \/ /\ expenses[req[p].id] = NoRow
           /\ \E row : expenses' = [expenses EXCEPT ![req[p].id] = row]
    BY <1>2 DEF CreateCommit, Replay, Leave, rows
  <2> QED BY <2>1, <2>2, StillAges, OneRowAges, RowAssumption
<1>3. CASE EditCommit(p)
  <2>1. req[p].id \in ExpenseIds /\ expenses[req[p].id] \in ExpenseRows
    BY <1>3, AtStaged DEF EditCommit, SheetAwaits, Staged, ExpenseStage, ExpenseAwaits,
       EditAwaits, NeedsRow
  <2>2. PICK row : row = [expenses[req[p].id] EXCEPT !.bill = req[p].bill, !.version = @ + 1,
                                                     !.session = req[p].session]
    OBVIOUS
  <2>3. row.version > expenses[req[p].id].version
    BY <2>1, <2>2 DEF ExpenseRows
  <2>4. UNCHANGED expenses \/ expenses' = [expenses EXCEPT ![req[p].id] = row]
    BY <1>3, <2>2 DEF EditCommit
  <2> QED BY <2>1, <2>3, <2>4, StillAges, OneRowAges
<1>4. CASE DeleteCommit(p) \/ RestoreCommit(p)
  <2>1. req[p].id \in ExpenseIds
    BY <1>4, AtStaged DEF DeleteCommit, RestoreCommit, SheetAwaits, Staged, ExpenseStage,
          ExpenseAwaits, DeleteAwaits, RestoreAwaits, NeedsRow
  <2>2. \/ UNCHANGED expenses
        \/ There(expenses[req[p].id]) /\ \E to : SetDeleted(req[p].id, to)
    BY <1>4 DEF DeleteCommit, RestoreCommit, Leave, rows
  <2> QED BY <2>1, <2>2, StillAges, MarkedAges
<1>5. CASE PayCommit(p) \/ BatchCommit(p) \/ UndoCommit(p) \/ RedoCommit(p)
  BY <1>5, StillAges DEF PayCommit, BatchCommit, UndoCommit, RedoCommit, Leave, rows
<1>6. CASE RemoveForget(p)
  <2>1. \/ UNCHANGED expenses
        \/ \E x : expenses' = [e \in ExpenseIds |->
                      IF expenses[e] = NoRow THEN NoRow
                      ELSE [expenses[e] EXCEPT !.bill = BillWithout(expenses[e].bill, x)]]
    BY <1>6 DEF RemoveForget, rows
  <2> QED BY <2>1, StillAges, BillsAge, RowAssumption
<1>7. CASE MergeCommit(p) \/ JoinClaim(p)
  <2>1. UNCHANGED expenses \/ \E ghost, into : Absorb(ghost, into)
    BY <1>7 DEF MergeCommit, JoinClaim, Leave, rows
  <2> QED BY <2>1, StillAges, AbsorbAges
<1> QED BY <1>1, <1>2, <1>3, <1>4, <1>5, <1>6, <1>7 DEF Writes

LEMMA StaysKnown == IInv /\ EditorsKnow /\ [Next]_vars => EditorsKnow'
<1> SUFFICES ASSUME IInv, EditorsKnow, [Next]_vars,
                    NEW q \in Procs, Place(q)' = "EditCommit"
             PROVE  /\ seen'[q].version <= expenses'[req'[q].id].version
                    /\ seen'[q].version = expenses'[req'[q].id].version =>
                         /\ ~expenses'[req'[q].id].deleted
                         /\ \/ expenses'[req'[q].id].version = req'[q].expected
                            \/ expenses'[req'[q].id].session = req'[q].session
  BY DEF EditorsKnow
<1>0. Before /\ ControlOK /\ IInv'
  BY Inductive DEF IInv, Before, TypeOK
\* Who rested is right as long as the rows have only aged.
<1>1. ASSUME Rests(q), RowsAge
      PROVE  /\ seen'[q].version <= expenses'[req'[q].id].version
             /\ seen'[q].version = expenses'[req'[q].id].version =>
                  /\ ~expenses'[req'[q].id].deleted
                  /\ \/ expenses'[req'[q].id].version = req'[q].expected
                     \/ expenses'[req'[q].id].session = req'[q].session
  <2>1. Place(q) = "EditCommit" /\ req'[q] = req[q] /\ seen'[q] = seen[q]
    BY <1>1 DEF Rests
  <2>2. "EditCommit" \in NeedsRow /\ "EditCommit" \in EditAwaits
    BY DEF NeedsRow, EditAwaits
  <2> DEFINE e == req[q].id
  <2>3. e \in ExpenseIds /\ expenses[e] \in ExpenseRows /\ expenses'[e] \in ExpenseRows
    BY <1>0, <2>1, <2>2, StagedId DEF IInv, RowsFound, TypeOK, ControlOK
  <2>4. Ages(expenses[e], expenses'[e])
    BY <1>1, <2>3 DEF RowsAge
  <2>5. seen[q].version \in Nat /\ expenses[e].version \in Nat /\ expenses'[e].version \in Nat
    BY <1>0, <2>3 DEF ControlOK, Sightings, ExpenseRows
  <2> QED BY <2>1, <2>4, <2>5 DEF EditorsKnow, Ages
<1>2. CASE Restart
  BY <1>2 DEF Restart, Place, SheetAwaits
<1>3. CASE UNCHANGED vars
  BY <1>1, <1>3, StillAges DEF vars, Rests, Place
<1>4. ASSUME NEW p \in Procs, Arrive(p)
      PROVE  Rests(q) /\ RowsAge
  BY <1>0, <1>4, Knocks, StillAges DEF rows, Acting
<1>5. ASSUME NEW p \in Procs, Handle(p), ~Rests(q)
      PROVE  /\ seen'[q].version <= expenses'[req'[q].id].version
             /\ seen'[q].version = expenses'[req'[q].id].version =>
                  /\ ~expenses'[req'[q].id].deleted
                  /\ \/ expenses'[req'[q].id].version = req'[q].expected
                     \/ expenses'[req'[q].id].session = req'[q].session
  <2>1. Moves(p) /\ q = p
    BY <1>0, <1>5, HandleMoves DEF Moves, Touches
  <2>2. ~Finish(p) /\ ~Queues(p)
    BY <1>0, <2>1 DEF Finish, Queues, To, Place, SheetAwaits, Queueing, ControlOK
  <2>3. EditCheck(p)
    <3>1. \/ EditCheck(p) \/ UndoSiblings(p) \/ RedoSiblings(p) \/ RedoMembers(p)
      BY <1>5, <2>1, <2>2 DEF Moves, GoesOn, Acting
    <3>2. UndoSiblings(p) \/ RedoSiblings(p) \/ RedoMembers(p) => Place(p)' # "EditCommit"
      BY <1>0 DEF UndoSiblings, RedoSiblings, RedoMembers, Leave, Finish, Go, To, Place,
         SheetAwaits, ControlOK
    <3> QED BY <2>1, <3>1, <3>2
  <2>4. PICK what : /\ Go(p, "EditCommit", what) /\ UNCHANGED rows
                    /\ what.version = expenses[req[p].id].version
                    /\ ~expenses[req[p].id].deleted
                    /\ \/ expenses[req[p].id].version = req[p].expected
                       \/ expenses[req[p].id].session = req[p].session
    BY <2>2, <2>3 DEF EditCheck, Leave, Nothing
  <2>5. seen'[p] = what /\ req' = req /\ expenses' = expenses
    BY <1>0, <2>4 DEF Go, rows, ControlOK
  <2>6. "EditCommit" \in NeedsRow /\ "EditCommit" \in EditAwaits
    BY DEF NeedsRow, EditAwaits
  <2>7. expenses[req[p].id].version \in Nat
    <3>1. expenses'[req'[p].id] \in ExpenseRows
      BY <1>0, <2>1, <2>6 DEF IInv, RowsFound
    <3> QED BY <2>5, <3>1 DEF ExpenseRows
  <2> QED BY <2>1, <2>4, <2>5, <2>7
<1>6. ASSUME NEW p \in Procs, Handle(p)
      PROVE  RowsAge
  BY <1>0, <1>6, HandleMoves, WritesAge DEF Moves, Touches
<1> QED BY <1>1, <1>2, <1>3, <1>4, <1>5, <1>6, StepIs

\* Whose step it is when an editor is about to write, and when a placeholder is
\* about to be added.
LEMMA AtPlace ==
    ASSUME NEW p \in Procs, Handle(p)
    PROVE  /\ pc[p] = "EditCommit" => EditCommit(p)
           /\ pc[p] \in Seating => AddGhostAccess(p) \/ AddGhostSeat(p)
BY DEF Seating, Handle, ExpenseSteps, PaymentSteps, MemberSteps, EndingSteps, SheetVersions,
       SheetExpenses, SheetPayments,
       CreateAccess, CreateInvolve, CreateCommit, CreateAnnounce, EditLoad, EditInvolve,
       EditCheck, EditCommit, DeleteLoad, DeleteCommit, RestoreLoad, RestoreMembers, RestoreCommit,
       PayReplay, PayMembers, PayTurn, PayCommit, PayAnnounce,
       BatchStart, BatchTurn, BatchShared, BatchCommit, BatchAnnounce,
       UndoLoad, UndoSiblings, UndoCommit, RedoLoad, RedoSiblings, RedoMembers, RedoCommit,
       Look, Looked, RemoveAccess, RemoveCount, RemoveLeave, RemoveDrop, RemoveForget,
       RemoveSuccessor, RemovePromote, Removed, MergeMay, MergeCommit, JoinLook, JoinClaim,
       JoinSeat, JoinConnect, AddAccess, AddSeat, AddGhostAccess, AddGhostSeat,
       BefriendLook, BefriendShare, CodeLook, BefriendWrite, UnfriendShared, UnfriendWrite,
       DisbandAccess, DisbandWrite, CloseRead, CloseCheck, CloseOwned, CloseWrite

LEMMA LandsAsSeen ==
    ASSUME IInv, EditorsKnow, [Next]_vars,
           NEW p \in Procs, pc[p] = "EditCommit", pc'[p] = "idle", expenses' # expenses
    PROVE  /\ ~expenses[req[p].id].deleted
           /\ \/ expenses[req[p].id].version = req[p].expected
              \/ expenses[req[p].id].session = req[p].session
<1>1. Before /\ ControlOK
  BY DEF IInv, Before, TypeOK
<1>2. EditCommit(p)
  <2>1. ~Restart /\ ~UNCHANGED vars
    BY DEF Restart, rows, vars
  <2>2. \A q \in Procs : ~Arrive(q)
    BY DEF Arrive, rows
  <2>3. PICK q \in Procs : Handle(q)
    BY <2>1, <2>2, StepIs
  <2>4. q = p
    BY <1>1, <2>3, HandleMoves DEF Moves, Touches
  <2> QED BY <2>3, <2>4, AtPlace
<1>3. expenses[req[p].id].version = seen[p].version
  BY <1>2 DEF EditCommit, StillAt
<1>4. Place(p) = "EditCommit"
  BY DEF Place, SheetAwaits
<1> QED BY <1>3, <1>4 DEF EditorsKnow

\* An edit lands only on the version its editor saw, or on one their own
\* sign-in made, and never on an expense deleted meanwhile, whatever was edited,
\* deleted, restored or merged between the editor's check and its write.
THEOREM NothingOverwritten == Spec => NoLostEdit
<1>1. Init => EditorsKnow
  BY DEF Init, EditorsKnow, Place, SheetAwaits
<1>2. IInv /\ EditorsKnow /\ [Next]_vars =>
        [\A p \in Procs :
            (pc[p] = "EditCommit" /\ pc'[p] = "idle" /\ req[p] # NoRequest /\ expenses' # expenses)
               => LET row == expenses[req[p].id]
                  IN  /\ ~row.deleted
                      /\ row.version = req[p].expected \/ row.session = req[p].session]_vars
  BY LandsAsSeen
<1> QED BY <1>1, <1>2, StaysKnown, Invariance, PTL DEF Spec, NoLostEdit

-----------------------------------------------------------------------------
(* settlements/batch and settlements/[id]: a transfer lives and dies whole. *)

IdsOf(b) == {r.id : r \in BatchDraft[b].rows}

\* Two payments between the same two people, whichever way each runs.
SamePair(row, other) == \/ row.from = other.from /\ row.to = other.to
                        \/ row.from = other.to /\ row.to = other.from

\* Where one row of a batch is filed, all of them are, under that batch and
\* between the same two people; a row of no batch is one recorded alone.
FiledWhole ==
    \A s \in PaymentIds : payments[s] # NoRow =>
        LET b == payments[s].batch
        IN  /\ b = NoBatch => s \in LoneIds
            /\ b # NoBatch =>
                 /\ s \in IdsOf(b)
                 /\ \A t \in IdsOf(b) : /\ payments[t] # NoRow /\ payments[t].batch = b
                                        /\ SamePair(payments[s], payments[t])

\* The rows a handler is about to mark are whole batches, but for rows whose
\* group has been deleted and that are there for nobody.
SeenWhole ==
    \A p \in Procs : Place(p) \in {"UndoCommit", "RedoMembers", "RedoCommit"} =>
        \A b \in BatchIds :
            \/ seen[p].rows \cap IdsOf(b) = {}
            \/ \A t \in IdsOf(b) : t \in seen[p].rows \/ ~Stands(LedgerOf(t))

RowsWhole == FiledWhole /\ BatchWhole

LEMMA IdsApart ==
    /\ \A b \in BatchIds : IdsOf(b) \subseteq PaymentIds \ LoneIds
    /\ \A b, c \in BatchIds : IdsOf(b) \cap IdsOf(c) # {} => b = c
BY SettlementsAssumption DEF IdsOf, LoneIds

LEMMA PaymentRow ==
    ASSUME Before, NEW s \in PaymentIds, payments[s] # NoRow
    PROVE  /\ payments[s] \in PaymentRows
           /\ payments[s].batch \in BatchIds \cup {NoBatch}
           /\ payments[s].deleted \in BOOLEAN
           /\ payments[s].group = LedgerOf(s)
BY DEF Before, TypeOK, DataOK, LedgersKept, PaymentRows

LEMMA StillWhole ==
    ASSUME RowsWhole, disbanded \subseteq disbanded', UNCHANGED payments
    PROVE  RowsWhole'
BY DEF RowsWhole, FiledWhole, BatchWhole, SamePair, There, Stands

\* One payment recorded alone.
LEMMA LoneWhole ==
    ASSUME Before, RowsWhole, disbanded \subseteq disbanded',
           NEW s \in LoneIds, NEW row, payments[s] = NoRow, row.batch = NoBatch,
           payments' = [payments EXCEPT ![s] = row]
    PROVE  RowsWhole'
<1>0. s \in PaymentIds /\ \A b \in BatchIds : s \notin IdsOf(b)
  BY IdsApart DEF LoneIds
<1>1. payments'[s] = row /\ \A t \in PaymentIds \ {s} : payments'[t] = payments[t]
  BY <1>0 DEF Before, TypeOK, DataOK
<1>2. FiledWhole'
  <2> SUFFICES ASSUME NEW t \in PaymentIds, payments'[t] # NoRow
               PROVE  LET b == payments'[t].batch
                      IN  /\ b = NoBatch => t \in LoneIds
                          /\ b # NoBatch =>
                               /\ t \in IdsOf(b)
                               /\ \A u \in IdsOf(b) : /\ payments'[u] # NoRow /\ payments'[u].batch = b
                                                      /\ SamePair(payments'[t], payments'[u])
    BY DEF FiledWhole, SamePair
  <2>1. CASE t = s
    BY <1>1, <2>1
  <2>2. CASE t # s
    <3>1. payments'[t] = payments[t] /\ payments[t] # NoRow
      BY <1>1, <2>2
    <3>2. payments[t].batch \in BatchIds \cup {NoBatch}
      BY <3>1, PaymentRow
    <3>3. CASE payments[t].batch = NoBatch
      BY <3>1, <3>3 DEF RowsWhole, FiledWhole
    <3>4. CASE payments[t].batch # NoBatch
      <4>1. \A u \in IdsOf(payments[t].batch) : u \in PaymentIds /\ payments'[u] = payments[u]
        BY <1>0, <1>1, <3>2, <3>4, IdsApart
      <4> QED BY <3>1, <3>4, <4>1 DEF RowsWhole, FiledWhole
    <3> QED BY <3>3, <3>4
  <2> QED BY <2>1, <2>2
<1>3. BatchWhole'
  <2> SUFFICES ASSUME NEW t \in PaymentIds, NEW u \in PaymentIds,
                      There(payments[t])', There(payments[u])',
                      payments'[t].batch # NoBatch, payments'[t].batch = payments'[u].batch
               PROVE  payments'[t].deleted = payments'[u].deleted
    BY DEF BatchWhole
  <2>1. t # s /\ u # s
    BY <1>1
  <2>2. payments'[t] = payments[t] /\ payments'[u] = payments[u]
    BY <1>1, <2>1
  <2> QED BY <2>2 DEF RowsWhole, BatchWhole, There, Stands
<1> QED BY <1>2, <1>3 DEF RowsWhole

\* A batch is filed between x and y: all of its rows at once, and no other row.
Files(b, x, y) ==
    /\ Unfiled(IdsOf(b))
    /\ \A s \in PaymentIds \ IdsOf(b) : payments'[s] = payments[s]
    /\ \A s \in IdsOf(b) : /\ payments'[s] # NoRow /\ payments'[s].batch = b
                            /\ payments'[s].deleted = FALSE
                            /\ \/ payments'[s].from = x /\ payments'[s].to = y
                               \/ payments'[s].from = y /\ payments'[s].to = x

LEMMA BatchFiledWhole ==
    ASSUME Before, RowsWhole, disbanded \subseteq disbanded',
           NEW b \in BatchIds, NEW x, NEW y, Files(b, x, y)
    PROVE  RowsWhole'
<1>0. b # NoBatch
  BY SettlementsAssumption
<1> USE DEF Files
<1>1. ASSUME NEW t \in PaymentIds \ IdsOf(b), payments'[t] # NoRow
      PROVE  /\ payments'[t] = payments[t] /\ payments[t] # NoRow
             /\ payments'[t].batch # b
             /\ payments[t].batch # NoBatch =>
                   /\ payments[t].batch \in BatchIds
                   /\ \A u \in IdsOf(payments[t].batch) : payments'[u] = payments[u]
  <2>1. payments'[t] = payments[t] /\ payments[t] # NoRow
    BY <1>1
  <2>2. payments[t].batch \in BatchIds \cup {NoBatch}
    BY <2>1, PaymentRow
  <2>3. payments[t].batch # b
    BY <1>0, <1>1, <2>1 DEF RowsWhole, FiledWhole
  <2>4. ASSUME payments[t].batch # NoBatch, NEW u \in IdsOf(payments[t].batch)
        PROVE  payments'[u] = payments[u]
    BY <2>2, <2>3, <2>4, IdsApart
  <2> QED BY <2>1, <2>2, <2>3, <2>4
<1>2. FiledWhole'
  <2> SUFFICES ASSUME NEW t \in PaymentIds, payments'[t] # NoRow
               PROVE  /\ payments'[t].batch = NoBatch => t \in LoneIds
                      /\ payments'[t].batch # NoBatch =>
                           /\ t \in IdsOf(payments'[t].batch)
                           /\ \A u \in IdsOf(payments'[t].batch) :
                                /\ payments'[u] # NoRow /\ payments'[u].batch = payments'[t].batch
                                /\ SamePair(payments'[t], payments'[u])
    BY DEF FiledWhole, SamePair
  <2>1. CASE t \in IdsOf(b)
    BY <1>0, <2>1 DEF SamePair
  <2>2. CASE t \notin IdsOf(b)
    BY <1>1, <2>2 DEF RowsWhole, FiledWhole
  <2> QED BY <2>1, <2>2
<1>3. BatchWhole'
  <2> SUFFICES ASSUME NEW t \in PaymentIds, NEW u \in PaymentIds,
                      There(payments[t])', There(payments[u])',
                      payments'[t].batch # NoBatch, payments'[t].batch = payments'[u].batch
               PROVE  payments'[t].deleted = payments'[u].deleted
    BY DEF BatchWhole
  <2>1. payments'[t] # NoRow /\ payments'[u] # NoRow
    BY DEF There
  <2>2. CASE t \in IdsOf(b) /\ u \in IdsOf(b)
    BY <2>2
  <2>3. CASE t \notin IdsOf(b) /\ u \notin IdsOf(b)
    <3>1. payments'[t] = payments[t] /\ payments'[u] = payments[u]
      BY <2>3
    <3> QED BY <3>1 DEF RowsWhole, BatchWhole, There, Stands
  <2>4. CASE (t \in IdsOf(b)) # (u \in IdsOf(b))
    BY <1>1, <2>1, <2>4
  <2> QED BY <2>2, <2>3, <2>4
<1> QED BY <1>2, <1>3 DEF RowsWhole

\* Rows rewritten in place, each keeping its batch, its group and its place in
\* the bin, and the pairs they are between staying the same pairs.
LEMMA RewrittenWhole ==
    ASSUME Before, RowsWhole, disbanded \subseteq disbanded',
           \A s \in PaymentIds :
               /\ payments'[s] = NoRow <=> payments[s] = NoRow
               /\ payments[s] # NoRow => /\ payments'[s].batch = payments[s].batch
                                         /\ payments'[s].group = payments[s].group,
           \A s, t \in PaymentIds :
               (/\ payments[s] # NoRow /\ payments[t] # NoRow
                /\ payments[s].batch # NoBatch /\ payments[s].batch = payments[t].batch)
                  => /\ SamePair(payments[s], payments[t])
                           => SamePair(payments'[s], payments'[t])
                     /\ (/\ There(payments[s]) /\ There(payments[t])
                         /\ payments[s].deleted = payments[t].deleted)
                           => payments'[s].deleted = payments'[t].deleted
    PROVE  RowsWhole'
<1>1. FiledWhole'
  <2> SUFFICES ASSUME NEW t \in PaymentIds, payments'[t] # NoRow
               PROVE  /\ payments'[t].batch = NoBatch => t \in LoneIds
                      /\ payments'[t].batch # NoBatch =>
                           /\ t \in IdsOf(payments'[t].batch)
                           /\ \A u \in IdsOf(payments'[t].batch) :
                                /\ payments'[u] # NoRow /\ payments'[u].batch = payments'[t].batch
                                /\ SamePair(payments'[t], payments'[u])
    BY DEF FiledWhole, SamePair
  <2>1. payments[t] # NoRow /\ payments'[t].batch = payments[t].batch
    OBVIOUS
  <2>2. payments[t].batch \in BatchIds \cup {NoBatch}
    BY <2>1, PaymentRow
  <2>3. ASSUME payments[t].batch # NoBatch, NEW u \in IdsOf(payments[t].batch)
        PROVE  /\ u \in PaymentIds /\ payments[u] # NoRow /\ payments[u].batch = payments[t].batch
               /\ SamePair(payments[t], payments[u])
    BY <2>1, <2>2, <2>3, IdsApart DEF RowsWhole, FiledWhole
  <2> QED BY <2>1, <2>3 DEF RowsWhole, FiledWhole
<1>2. BatchWhole'
  <2> SUFFICES ASSUME NEW t \in PaymentIds, NEW u \in PaymentIds,
                      There(payments[t])', There(payments[u])',
                      payments'[t].batch # NoBatch, payments'[t].batch = payments'[u].batch
               PROVE  payments'[t].deleted = payments'[u].deleted
    BY DEF BatchWhole
  <2>1. /\ There(payments[t]) /\ There(payments[u])
        /\ payments[t].batch # NoBatch /\ payments[t].batch = payments[u].batch
    BY DEF There, Stands
  <2>2. payments[t].deleted = payments[u].deleted
    BY <2>1 DEF RowsWhole, BatchWhole
  <2> QED BY <2>1, <2>2 DEF There
<1> QED BY <1>1, <1>2 DEF RowsWhole

\* Rows erased with somebody both ends of the batch name.
LEMMA ErasedWhole ==
    ASSUME Before, RowsWhole, disbanded \subseteq disbanded', NEW x,
           payments' = [s \in PaymentIds |->
                      IF payments[s] = NoRow THEN NoRow
                      ELSE IF x \in {payments[s].from, payments[s].to} THEN NoRow
                      ELSE payments[s]]
    PROVE  RowsWhole'
<1>1. \A s \in PaymentIds : payments'[s] # NoRow =>
          payments'[s] = payments[s] /\ x \notin {payments[s].from, payments[s].to}
  OBVIOUS
<1>2. \A s \in PaymentIds : payments[s] # NoRow /\ x \notin {payments[s].from, payments[s].to}
          => payments'[s] = payments[s]
  OBVIOUS
<1>3. FiledWhole'
  <2> SUFFICES ASSUME NEW t \in PaymentIds, payments'[t] # NoRow
               PROVE  /\ payments'[t].batch = NoBatch => t \in LoneIds
                      /\ payments'[t].batch # NoBatch =>
                           /\ t \in IdsOf(payments'[t].batch)
                           /\ \A u \in IdsOf(payments'[t].batch) :
                                /\ payments'[u] # NoRow /\ payments'[u].batch = payments'[t].batch
                                /\ SamePair(payments'[t], payments'[u])
    BY DEF FiledWhole, SamePair
  <2>1. payments[t] # NoRow /\ payments'[t] = payments[t] /\ x \notin {payments[t].from, payments[t].to}
    BY <1>1
  <2>2. payments[t].batch \in BatchIds \cup {NoBatch}
    BY <2>1, PaymentRow
  <2>3. ASSUME payments[t].batch # NoBatch, NEW u \in IdsOf(payments[t].batch)
        PROVE  /\ u \in PaymentIds /\ payments[u] # NoRow /\ payments[u].batch = payments[t].batch
               /\ SamePair(payments[t], payments[u]) /\ payments'[u] = payments[u]
    <3>1. /\ u \in PaymentIds /\ payments[u] # NoRow /\ payments[u].batch = payments[t].batch
          /\ SamePair(payments[t], payments[u])
      BY <2>1, <2>2, <2>3, IdsApart DEF RowsWhole, FiledWhole
    <3> QED BY <1>2, <2>1, <3>1 DEF SamePair
  <2> QED BY <2>1, <2>3 DEF RowsWhole, FiledWhole
<1>4. BatchWhole'
  BY <1>1 DEF RowsWhole, BatchWhole, There, Stands
<1> QED BY <1>3, <1>4 DEF RowsWhole

\* A row that is marked, or not, is the row it was in all else.
LEMMA MarkedRow ==
    ASSUME Before, NEW ids, NEW to \in BOOLEAN, MarkPayments(ids, to),
           NEW s \in PaymentIds, payments[s] # NoRow
    PROVE  /\ payments'[s] # NoRow
           /\ payments'[s].batch = payments[s].batch /\ payments'[s].group = payments[s].group
           /\ payments'[s].from = payments[s].from /\ payments'[s].to = payments[s].to
           /\ payments'[s].amount = payments[s].amount
           /\ s \in ids /\ There(payments[s]) => payments'[s].deleted = to
           /\ s \notin ids \/ ~There(payments[s]) => payments'[s] = payments[s]
<1>0. payments'[s] = IF s \in ids /\ There(payments[s])
                     THEN [payments[s] EXCEPT !.deleted = to] ELSE payments[s]
  BY DEF MarkPayments
<1>1. payments[s] \in PaymentRows
  BY PaymentRow
<1>2. CASE s \in ids /\ There(payments[s])
  <2>1. payments'[s] = [payments[s] EXCEPT !.deleted = to]
    BY <1>0, <1>2
  <2>2. /\ payments'[s].batch = payments[s].batch /\ payments'[s].group = payments[s].group
        /\ payments'[s].from = payments[s].from /\ payments'[s].to = payments[s].to
        /\ payments'[s].amount = payments[s].amount /\ payments'[s].deleted = to
    BY <1>1, <2>1 DEF PaymentRows
  <2>3. [payments[s] EXCEPT !.deleted = to] \in PaymentRows
    BY <1>1 DEF PaymentRows
  <2>4. payments'[s] # NoRow
    BY <2>1, <2>3, RowAssumption
  <2> QED BY <1>2, <2>2, <2>4
<1>3. CASE ~(s \in ids /\ There(payments[s]))
  BY <1>0, <1>3
<1> QED BY <1>2, <1>3

\* The rows of whole batches marked, as `to`.
LEMMA MarkedWhole ==
    ASSUME Before, RowsWhole, disbanded \subseteq disbanded',
           NEW ids, NEW to \in BOOLEAN, MarkPayments(ids, to),
           \A b \in BatchIds :
               \/ ids \cap IdsOf(b) = {}
               \/ \A t \in IdsOf(b) : t \in ids \/ ~Stands(LedgerOf(t))
    PROVE  RowsWhole'
<1>1. \A s \in PaymentIds :
          payments'[s] = IF s \in ids /\ There(payments[s])
                         THEN [payments[s] EXCEPT !.deleted = to] ELSE payments[s]
  BY DEF MarkPayments
<1>2. ASSUME NEW s \in PaymentIds, payments[s] # NoRow
      PROVE  /\ payments'[s] # NoRow
             /\ payments'[s].batch = payments[s].batch /\ payments'[s].group = payments[s].group
             /\ payments'[s].from = payments[s].from /\ payments'[s].to = payments[s].to
             /\ s \in ids /\ There(payments[s]) => payments'[s].deleted = to
             /\ s \notin ids \/ ~There(payments[s]) => payments'[s] = payments[s]
  BY <1>2, MarkedRow
<1>3. ASSUME NEW s \in PaymentIds, NEW t \in PaymentIds,
             payments[s] # NoRow, payments[t] # NoRow,
             payments[s].batch # NoBatch, payments[s].batch = payments[t].batch,
             There(payments[s]), There(payments[t]), s \in ids
      PROVE  t \in ids
  <2>1. payments[s].batch \in BatchIds
    BY <1>3, PaymentRow
  <2>2. s \in IdsOf(payments[s].batch) /\ t \in IdsOf(payments[s].batch)
    BY <1>3 DEF RowsWhole, FiledWhole
  <2>3. Stands(LedgerOf(t))
    BY <1>3, PaymentRow DEF There
  <2> QED BY <1>3, <2>1, <2>2, <2>3
<1>4. \A s \in PaymentIds : payments[s] = NoRow => payments'[s] = NoRow
  BY <1>1 DEF There
<1>5. \A s, t \in PaymentIds :
               (/\ payments[s] # NoRow /\ payments[t] # NoRow
                /\ payments[s].batch # NoBatch /\ payments[s].batch = payments[t].batch)
                  => /\ SamePair(payments[s], payments[t])
                           => SamePair(payments'[s], payments'[t])
                     /\ (/\ There(payments[s]) /\ There(payments[t])
                         /\ payments[s].deleted = payments[t].deleted)
                           => payments'[s].deleted = payments'[t].deleted
  BY <1>2, <1>3 DEF SamePair
<1> QED BY <1>2, <1>4, <1>5, RewrittenWhole

\* A placeholder's row moved over: only whom it is between can change.
LEMMA MovedRow ==
    ASSUME Before, NEW ghost, NEW into \in People, payments' = PaymentsOver(ghost, into),
           NEW s \in PaymentIds, payments[s] # NoRow
    PROVE  /\ payments'[s] # NoRow
           /\ payments'[s].batch = payments[s].batch /\ payments'[s].group = payments[s].group
           /\ payments'[s].deleted = payments[s].deleted /\ payments'[s].amount = payments[s].amount
           /\ payments'[s].from = As(payments[s].from, ghost, into)
           /\ payments'[s].to = As(payments[s].to, ghost, into)
<1>1. payments[s] \in PaymentRows
  BY PaymentRow
<1>2. PICK half : half = [payments[s] EXCEPT !.from = As(payments[s].from, ghost, into)]
  OBVIOUS
<1>3. payments'[s] = [half EXCEPT !.to = As(payments[s].to, ghost, into)]
  BY <1>2 DEF PaymentsOver
<1>4. /\ half.batch = payments[s].batch /\ half.group = payments[s].group
      /\ half.deleted = payments[s].deleted /\ half.amount = payments[s].amount
      /\ half.from = As(payments[s].from, ghost, into)
  BY <1>1, <1>2 DEF PaymentRows
<1>5. DOMAIN half = {"group", "from", "to", "amount", "by", "batch", "deleted"}
  BY <1>1, <1>2 DEF PaymentRows
<1>6. /\ payments'[s].batch = half.batch /\ payments'[s].group = half.group
      /\ payments'[s].deleted = half.deleted /\ payments'[s].from = half.from
      /\ payments'[s].amount = half.amount
      /\ payments'[s].to = As(payments[s].to, ghost, into)
  BY <1>3, <1>5
<1>7. payments'[s] # NoRow
  <2>1. /\ As(payments[s].from, ghost, into) \in People
        /\ As(payments[s].to, ghost, into) \in People
    BY <1>1 DEF PaymentRows, As
  <2>2. half \in PaymentRows
    BY <1>1, <1>2, <2>1 DEF PaymentRows
  <2>3. payments'[s] \in PaymentRows
    BY <1>3, <2>1, <2>2 DEF PaymentRows
  <2> QED BY <2>3, RowAssumption
<1> QED BY <1>4, <1>6, <1>7

\* A placeholder's rows moved over: a pair stays a pair.
LEMMA AbsorbedWhole ==
    ASSUME Before, RowsWhole, disbanded \subseteq disbanded',
           NEW ghost, NEW into \in People, payments' = PaymentsOver(ghost, into)
    PROVE  RowsWhole'
<1>1. ASSUME NEW s \in PaymentIds, payments[s] # NoRow
      PROVE  /\ payments'[s] # NoRow
             /\ payments'[s].batch = payments[s].batch /\ payments'[s].group = payments[s].group
             /\ payments'[s].deleted = payments[s].deleted
             /\ payments'[s].from = As(payments[s].from, ghost, into)
             /\ payments'[s].to = As(payments[s].to, ghost, into)
  BY <1>1, MovedRow
<1>2. \A s \in PaymentIds : payments[s] = NoRow => payments'[s] = NoRow
  BY DEF PaymentsOver
<1>3. \A s, t \in PaymentIds :
               (/\ payments[s] # NoRow /\ payments[t] # NoRow
                /\ payments[s].batch # NoBatch /\ payments[s].batch = payments[t].batch)
                  => /\ SamePair(payments[s], payments[t])
                           => SamePair(payments'[s], payments'[t])
                     /\ (/\ There(payments[s]) /\ There(payments[t])
                         /\ payments[s].deleted = payments[t].deleted)
                           => payments'[s].deleted = payments'[t].deleted
  BY <1>1 DEF SamePair
<1> QED BY <1>1, <1>2, <1>3, RewrittenWhole

LEMMA PayWhole ==
    ASSUME Before, RowsWhole, disbanded \subseteq disbanded', NEW p \in Procs, PayCommit(p)
    PROVE  RowsWhole'
<1>1. req[p].id \in LoneIds
  BY AtStaged DEF PayCommit, SheetAwaits, Staged, PaymentStage, PayAwaits
<1>2. \/ UNCHANGED payments
      \/ /\ payments[req[p].id] = NoRow
         /\ \E row : row.batch = NoBatch /\ payments' = [payments EXCEPT ![req[p].id] = row]
  BY DEF PayCommit, Unfiled, Leave, rows
<1> QED BY <1>1, <1>2, StillWhole, LoneWhole

\* What a batch that is accepted files.
LEMMA BatchFiles ==
    ASSUME Before, NEW p \in Procs, BatchCommit(p)
    PROVE  /\ req[p].id \in BatchIds
           /\ \/ Leave(p)
              \/ /\ Files(req[p].id, Me(p), BatchDraft[req[p].id].other)
                 /\ Exist({BatchDraft[req[p].id].other}) /\ Place(p)' = "BatchAnnounce"
<1> DEFINE b      == BatchDraft[req[p].id]
           ids    == {r.id : r \in b.rows}
           Of(s)  == CHOOSE r \in b.rows : r.id = s
           Row(r) == LET owed == Outstanding(p, r.group) > 0
                     IN  [group |-> r.group, amount |-> r.amount, by |-> Me(p),
                          from |-> IF owed THEN b.other ELSE Me(p),
                          to   |-> IF owed THEN Me(p) ELSE b.other,
                          batch |-> req[p].id, deleted |-> FALSE]
<1>1. req[p].id \in BatchIds /\ req[p].session \in Sessions
  BY AtStaged DEF BatchCommit, SheetAwaits, Staged, PaymentStage, PaymentAwaits, BatchAwaits
<1>2. Me(p) \in People /\ b.other \in People
  BY <1>1, LedgerAssumption, SettlementsAssumption DEF Me
<1>3. CASE ~Leave(p)
  <2>0. /\ Unfiled(ids) /\ Exist({b.other})
        /\ payments' = [s \in PaymentIds |-> IF s \in ids THEN Row(Of(s)) ELSE payments[s]]
        /\ Go(p, "BatchAnnounce", Nothing)
    BY <1>3 DEF BatchCommit, Exist
  <2>1. ids = IdsOf(req[p].id) /\ ids \subseteq PaymentIds
    BY <1>1, IdsApart DEF IdsOf
  <2>2. ASSUME NEW s \in ids
        PROVE  /\ Row(Of(s)) # NoRow /\ Row(Of(s)).batch = req[p].id
               /\ Row(Of(s)).deleted = FALSE
               /\ \/ Row(Of(s)).from = Me(p) /\ Row(Of(s)).to = b.other
                  \/ Row(Of(s)).from = b.other /\ Row(Of(s)).to = Me(p)
    <3>1. Of(s) \in b.rows
      BY <2>2
    <3>2. Of(s).group \in Ledgers /\ Of(s).amount \in Nat
      BY <1>1, <3>1, SettlementsAssumption
    <3>3. Row(Of(s)) \in PaymentRows
      BY <1>1, <1>2, <3>2 DEF PaymentRows
    <3> QED BY <3>3, RowAssumption
  <2>3. Place(p)' = "BatchAnnounce"
    BY <2>0 DEF Go, To, Place, SheetAwaits, Before, TypeOK, ControlOK
  <2> HIDE DEF Row, Of, ids
  <2>4. \A s \in PaymentIds \ IdsOf(req[p].id) : payments'[s] = payments[s]
    BY <2>0, <2>1
  <2>5. \A s \in IdsOf(req[p].id) : payments'[s] = Row(Of(s))
    BY <2>0, <2>1
  <2>6. Unfiled(IdsOf(req[p].id))
    BY <2>0, <2>1
  <2>7. \A s \in IdsOf(req[p].id) :
            /\ payments'[s] # NoRow /\ payments'[s].batch = req[p].id
            /\ payments'[s].deleted = FALSE
            /\ \/ payments'[s].from = Me(p) /\ payments'[s].to = b.other
               \/ payments'[s].from = b.other /\ payments'[s].to = Me(p)
    BY <2>1, <2>2, <2>5
  <2> QED BY <1>1, <2>0, <2>3, <2>4, <2>6, <2>7 DEF Files
<1> QED BY <1>1, <1>3

LEMMA BatchCommitWhole ==
    ASSUME Before, RowsWhole, disbanded \subseteq disbanded', NEW p \in Procs, BatchCommit(p)
    PROVE  RowsWhole'
BY BatchFiles, BatchFiledWhole, StillWhole DEF Leave, rows

\* Who a placeholder is folded into is somebody.
LEMMA Absorbers ==
    ASSUME Before, NEW p \in Procs
    PROVE  /\ MergeCommit(p) => req[p].into \in People
           /\ JoinClaim(p) => Me(p) \in People
<1>1. JoinClaim(p) => req[p].session \in Sessions
  BY AtStaged DEF JoinClaim, SheetAwaits, Staged, MemberStage, MemberAwaits, GroupAwaits,
     JoinAwaits
<1>2. MergeCommit(p) => req[p].into \in People
  BY AtStaged DEF MergeCommit, SheetAwaits, Staged, MemberStage, MergeAwaits
<1> QED BY <1>1, <1>2, LedgerAssumption DEF Me

LEMMA WritesWhole ==
    ASSUME Before, RowsWhole, SeenWhole, disbanded \subseteq disbanded',
           NEW p \in Procs, UNCHANGED payments \/ Writes(p)
    PROVE  RowsWhole'
<1>1. CASE UNCHANGED payments
  BY <1>1, StillWhole
<1>2. CASE CreateCommit(p) \/ EditCommit(p) \/ DeleteCommit(p) \/ RestoreCommit(p)
  BY <1>2, StillWhole
     DEF CreateCommit, Replay, EditCommit, DeleteCommit, RestoreCommit, Leave, rows
<1>3. CASE PayCommit(p) \/ BatchCommit(p)
  BY <1>3, PayWhole, BatchCommitWhole
<1>4. CASE UndoCommit(p) \/ RedoCommit(p)
  <2>1. Place(p) \in {"UndoCommit", "RedoMembers", "RedoCommit"}
    BY <1>4 DEF UndoCommit, RedoCommit, Place, SheetAwaits
  <2>2. \E to \in BOOLEAN : MarkPayments(seen[p].rows, to)
    BY <1>4 DEF UndoCommit, RedoCommit
  <2> QED BY <2>1, <2>2, MarkedWhole DEF SeenWhole
<1>5. CASE RemoveForget(p)
  <2>1. \/ UNCHANGED payments
        \/ \E x : payments' = [s \in PaymentIds |->
                      IF payments[s] = NoRow THEN NoRow
                      ELSE IF x \in {payments[s].from, payments[s].to} THEN NoRow
                      ELSE payments[s]]
    BY <1>5 DEF RemoveForget, rows
  <2> QED BY <2>1, StillWhole, ErasedWhole
<1>6. CASE MergeCommit(p) \/ JoinClaim(p)
  <2>1. \/ UNCHANGED payments
        \/ \E ghost : \E into \in People : payments' = PaymentsOver(ghost, into)
    BY <1>6, Absorbers DEF MergeCommit, JoinClaim, Absorb, Leave, rows
  <2> QED BY <2>1, StillWhole, AbsorbedWhole
<1> QED BY <1>1, <1>2, <1>3, <1>4, <1>5, <1>6 DEF Writes

\* The rows of one transfer, as Batch finds them, are whole.
LEMMA BatchIsWhole ==
    ASSUME Before, RowsWhole, NEW s \in PaymentIds, payments[s] # NoRow,
           NEW deleted \in BOOLEAN, NEW b \in BatchIds
    PROVE  \/ Batch(s, deleted) \cap IdsOf(b) = {}
           \/ \A t \in IdsOf(b) : t \in Batch(s, deleted) \/ ~Stands(LedgerOf(t))
<1> DEFINE c == payments[s].batch
<1>1. c \in BatchIds \cup {NoBatch}
  BY PaymentRow
<1>2. CASE c = NoBatch
  <2>1. s \in LoneIds
    BY <1>2 DEF RowsWhole, FiledWhole
  <2> QED BY <1>2, <2>1, IdsApart DEF Batch
<1>3. CASE c # NoBatch
  <2>1. Batch(s, deleted) = {t \in PaymentIds : /\ There(payments[t]) /\ payments[t].batch = c
                                                /\ payments[t].deleted = deleted}
    BY <1>3 DEF Batch
  <2>2. ASSUME NEW t \in Batch(s, deleted), t \in IdsOf(b)
        PROVE  b = c
    <3>1. t \in IdsOf(c)
      BY <1>3, <2>1, <2>2 DEF There, RowsWhole, FiledWhole
    <3> QED BY <1>1, <1>3, <2>2, <3>1, IdsApart
  <2>3. ASSUME NEW u \in Batch(s, deleted), u \in IdsOf(b), NEW t \in IdsOf(b), Stands(LedgerOf(t))
        PROVE  t \in Batch(s, deleted)
    <3>1. b = c /\ t \in PaymentIds /\ payments[t] # NoRow /\ payments[t].batch = c
      BY <1>3, <2>2, <2>3, IdsApart DEF RowsWhole, FiledWhole
    <3>2. There(payments[t])
      BY <2>3, <3>1, PaymentRow DEF There
    <3>3. payments[t].deleted = payments[u].deleted
      BY <1>3, <2>1, <2>3, <3>1, <3>2 DEF RowsWhole, BatchWhole
    <3> QED BY <2>1, <2>3, <3>1, <3>2, <3>3
  <2> QED BY <2>3
<1> QED BY <1>2, <1>3

LEMMA KeptForGood ==
    ASSUME IInv, [Next]_vars
    PROVE  Kept
<1>1. CASE Restart \/ UNCHANGED vars
  BY <1>1 DEF Restart, vars, circle, rows, Kept
<1>2. ASSUME NEW p \in Procs, Arrive(p)
      PROVE  Kept
  BY <1>2 DEF Arrive, circle, rows, Kept
<1>3. ASSUME NEW p \in Procs, SheetVersions(p) \/ SheetExpenses(p) \/ SheetPayments(p)
      PROVE  Kept
  BY <1>3 DEF SheetVersions, SheetExpenses, SheetPayments, circle, rows, Kept
<1>4. ASSUME NEW p \in Procs,
             ExpenseSteps(p) \/ PaymentSteps(p) \/ MemberSteps(p) \/ EndingSteps(p)
      PROVE  Kept
  BY <1>4, ExpenseStep, PaymentStep, MemberStep, EndingStep DEF IInv, Before, After, Quiet
<1> QED BY <1>1, <1>2, <1>3, <1>4, StepIs DEF Handle

\* What an undo, and a redo, find to mark.
LEMMA SiblingsWhole ==
    ASSUME Before, RowsWhole, SeenWhole, NEW p \in Procs,
           UndoSiblings(p) \/ RedoSiblings(p) \/ RedoMembers(p), ~Finish(p),
           NEW b \in BatchIds
    PROVE  \/ seen'[p].rows \cap IdsOf(b) = {}
           \/ \A t \in IdsOf(b) : t \in seen'[p].rows \/ ~Stands(LedgerOf(t))
<1>1. seen \in [Procs -> Sightings]
  BY DEF Before, TypeOK, ControlOK
<1>2. CASE UndoSiblings(p)
  <2>1. req[p].id \in PaymentIds
    BY <1>2, AtStaged DEF UndoSiblings, SheetAwaits, Staged, PaymentStage, UndoAwaits
  <2>2. seen'[p].rows = IF payments[req[p].id] = NoRow THEN {req[p].id} \cap LoneIds
                        ELSE Batch(req[p].id, FALSE)
    BY <1>1, <1>2 DEF UndoSiblings, Leave, Go, Nothing
  <2>3. CASE payments[req[p].id] = NoRow
    BY <2>2, <2>3, IdsApart
  <2>4. CASE payments[req[p].id] # NoRow
    BY <2>1, <2>2, <2>4, BatchIsWhole
  <2> QED BY <2>3, <2>4
<1>3. CASE RedoSiblings(p)
  <2>1. req[p].id \in PaymentIds
    BY <1>3, AtStaged DEF RedoSiblings, SheetAwaits, Staged, PaymentStage, RedoAwaits
  <2>2. seen'[p].rows = IF payments[req[p].id] = NoRow THEN {} ELSE Batch(req[p].id, TRUE)
    BY <1>1, <1>3 DEF RedoSiblings, Leave, Go, Nothing
  <2>3. CASE payments[req[p].id] = NoRow
    BY <2>2, <2>3
  <2>4. CASE payments[req[p].id] # NoRow
    BY <2>1, <2>2, <2>4, BatchIsWhole
  <2> QED BY <2>3, <2>4
<1>4. CASE RedoMembers(p)
  <2>1. Place(p) = "RedoMembers"
    BY <1>4 DEF RedoMembers, Place, SheetAwaits
  <2>2. seen'[p].rows = seen[p].rows
    BY <1>1, <1>4 DEF RedoMembers, Leave, Go, Nothing
  <2> QED BY <2>1, <2>2 DEF SeenWhole
<1> QED BY <1>2, <1>3, <1>4

LEMMA SeenStays ==
    ASSUME IInv, RowsWhole, SeenWhole, [Next]_vars,
           NEW q \in Procs, Place(q)' \in {"UndoCommit", "RedoMembers", "RedoCommit"},
           NEW b \in BatchIds
    PROVE  \/ seen'[q].rows \cap IdsOf(b) = {}
           \/ \A t \in IdsOf(b) : t \in seen'[q].rows \/ ~Stands(LedgerOf(t))
<1>0. Before /\ ControlOK
  BY DEF IInv, Before, TypeOK
<1>1. CASE Rests(q)
  BY <1>1 DEF Rests, SeenWhole
<1>2. ASSUME NEW p \in Procs, Handle(p), ~Rests(q)
      PROVE  \/ seen'[q].rows \cap IdsOf(b) = {}
             \/ \A t \in IdsOf(b) : t \in seen'[q].rows \/ ~Stands(LedgerOf(t))
  <2>1. Moves(p) /\ q = p
    BY <1>0, <1>2, HandleMoves DEF Moves, Touches
  <2>2. ~Finish(p) /\ ~Queues(p)
    BY <1>0, <2>1 DEF Finish, Queues, To, Place, SheetAwaits, Queueing, ControlOK
  <2>3. \/ EditCheck(p) \/ UndoSiblings(p) \/ RedoSiblings(p) \/ RedoMembers(p)
    BY <1>2, <2>1, <2>2 DEF Moves, GoesOn, Acting
  <2>4. EditCheck(p) => Place(p)' = "EditCommit"
    BY <1>0, <2>2 DEF EditCheck, Leave, Go, To, Place, SheetAwaits, ControlOK
  <2> QED BY <1>0, <2>1, <2>2, <2>3, <2>4, SiblingsWhole
<1>3. CASE Restart
  BY <1>3 DEF Restart, Place, SheetAwaits
<1>4. CASE UNCHANGED vars
  BY <1>1, <1>4 DEF vars, Rests, Place
<1>5. ASSUME NEW p \in Procs, Arrive(p)
      PROVE  Rests(q)
  BY <1>0, <1>5, Knocks DEF Acting
<1> QED BY <1>1, <1>2, <1>3, <1>4, <1>5, StepIs

LEMMA StaysWhole ==
    IInv /\ RowsWhole /\ SeenWhole /\ [Next]_vars => RowsWhole' /\ SeenWhole'
<1> SUFFICES ASSUME IInv, RowsWhole, SeenWhole, [Next]_vars
             PROVE  RowsWhole' /\ SeenWhole'
  OBVIOUS
<1>1. Before /\ disbanded \subseteq disbanded'
  BY KeptForGood DEF IInv, Before, Kept
<1>2. RowsWhole'
  <2>1. CASE Restart \/ UNCHANGED vars
    BY <1>1, <2>1, StillWhole DEF Restart, rows, vars
  <2>2. ASSUME NEW p \in Procs, Arrive(p)
        PROVE  RowsWhole'
    BY <1>1, <2>2, StillWhole DEF Arrive, rows
  <2>3. ASSUME NEW p \in Procs, Handle(p)
        PROVE  RowsWhole'
    <3>1. UNCHANGED payments \/ Writes(p)
      BY <1>1, <2>3, HandleMoves DEF Moves, Touches
    <3> QED BY <1>1, <3>1, WritesWhole
  <2> QED BY <2>1, <2>2, <2>3, StepIs
<1>3. SeenWhole'
  <2> SUFFICES ASSUME NEW q \in Procs, Place(q)' \in {"UndoCommit", "RedoMembers", "RedoCommit"},
                      NEW b \in BatchIds
               PROVE  \/ seen'[q].rows \cap IdsOf(b) = {}
                      \/ \A t \in IdsOf(b) : t \in seen'[q].rows \/ ~Stands(LedgerOf(t))'
    BY DEF SeenWhole, LedgerOf, IdsOf
  <2>1. \A t : Stands(LedgerOf(t))' => Stands(LedgerOf(t))
    BY <1>1 DEF Stands, LedgerOf
  <2> QED BY <2>1, SeenStays
<1> QED BY <1>2, <1>3

\* The rows of one transfer are in the bin together or out of it together,
\* whatever is undone, restored, merged, forgotten or deleted meanwhile, and
\* however long ago the handler that marks them read which rows they are.
THEOREM TransfersStayWhole == Spec => []BatchWhole
<1>1. Init => RowsWhole /\ SeenWhole
  BY DEF Init, RowsWhole, FiledWhole, BatchWhole, SeenWhole, Place, SheetAwaits, There
<1>2. RowsWhole => BatchWhole
  BY DEF RowsWhole
<1> QED BY <1>1, <1>2, StaysWhole, Invariance, PTL DEF Spec

-----------------------------------------------------------------------------
(* api/expenses, api/settlements: a filing is told of once.                *)

\* The first row of a batch, which is the one the feed names.
FirstOf(b) == CHOOSE s \in {r.id : r \in BatchDraft[b].rows} : TRUE

\* Who a payment is between whoever records it, by what its draft says.
EndsOf(s) == IF s \in LoneIds THEN {PaymentDraft[s].from, PaymentDraft[s].to}
             ELSE {BatchDraft[b].other : b \in {c \in BatchIds : s \in IdsOf(c)}}

\* Somebody who has, or had, an account.
Signed(x) == people[x] \in {"real", "deleted"}

\* Those who sign in have accounts; a placeholder still to be added is nobody
\* yet, and two are never given one id.
WhoIsWho ==
    /\ \A s \in Sessions : Signed(PersonOf[s])
    /\ \A p \in Procs : Place(p) \in Seating => /\ pc[p] = Place(p)
                                                /\ people[req[p].who] = "unborn"
    /\ \A p, q \in Procs : Place(p) \in Seating /\ Place(q) \in Seating /\ p # q
                              => req[p].who # req[q].who

\* A payment names those of its draft, or somebody with an account in their place.
EndsKnown ==
    \A s \in PaymentIds : payments[s] # NoRow =>
        \A x \in {payments[s].from, payments[s].to} : x \in EndsOf(s) \/ Signed(x)

\* The id is used up: its row is there, or cannot be filed any more, somebody of
\* the draft being no more.
Spent(id) == IF id \in ExpenseIds THEN expenses[id] # NoRow
             ELSE payments[id] # NoRow \/ \E x \in EndsOf(id) : people[x] = "gone"

\* Handler p is about to tell of `id`.
IsToTell(p, id) ==
    \/ Place(p) \in {"CreateAnnounce", "PayAnnounce"} /\ id = req[p].id
    \/ Place(p) = "BatchAnnounce" /\ id = FirstOf(req[p].id)

Ids == ExpenseIds \cup PaymentIds

ToldOnce ==
    /\ \A id \in Ids : announced[id] = 0 \/ (announced[id] = 1 /\ Spent(id))
    /\ \A p \in Procs, id \in Ids : IsToTell(p, id) => announced[id] = 0 /\ Spent(id)
    /\ \A p, q \in Procs, id \in Ids : IsToTell(p, id) /\ IsToTell(q, id) => p = q
    /\ \A b \in BatchIds : \A s \in IdsOf(b) : announced[s] = 1 => s = FirstOf(b)

-----------------------------------------------------------------------------

\* How a person may change, and what never does.
PeopleKeep ==
    \A x \in People :
        /\ people[x] = "gone" => people'[x] = "gone"
        /\ Signed(x) => Signed(x)'

LEMMA SameSigner ==
    ASSUME Before, WhoIsWho, NEW p \in Procs, pc[p] = "CloseWrite" \/ pc[p] = "JoinClaim"
                                                \/ pc[p] = "BatchCommit"
    PROVE  Me(p) \in People /\ Signed(Me(p))
<1>1. req[p].session \in Sessions
  BY AtStaged DEF SheetAwaits, Staged, PaymentStage, MemberStage, EndingStage, PaymentAwaits,
     BatchAwaits, MemberAwaits, GroupAwaits, JoinAwaits, EndingAwaits, CloseAwaits
<1> QED BY <1>1, LedgerAssumption DEF Me, WhoIsWho

LEMMA OneRenamed ==
    ASSUME Before, NEW y, NEW kind, people' = [people EXCEPT ![y] = kind],
           \/ people[y] = "ghost" /\ kind = "gone"
           \/ Signed(y) /\ kind = "deleted"
    PROVE  PeopleKeep /\ \A x \in People : people[x] = "unborn" => people'[x] = "unborn"
<1>1. \A x \in People : people'[x] = IF x = y THEN kind ELSE people[x]
  BY DEF Before, TypeOK, DataOK
<1> QED BY <1>1 DEF PeopleKeep, Signed

LEMMA NobodyRenamed ==
    ASSUME people' = people
    PROVE  PeopleKeep /\ \A x \in People : people[x] = "unborn" => people'[x] = "unborn"
BY DEF PeopleKeep, Signed

LEMMA RenamesKeep ==
    ASSUME Before, WhoIsWho, NEW p \in Procs, Renames(p)
    PROVE  /\ PeopleKeep
           /\ \A x \in People : people[x] = "unborn" =>
                 people'[x] = "unborn" \/ (AddGhostSeat(p) /\ x = req[p].who)
<1>1. CASE RemoveForget(p)
  BY <1>1, OneRenamed, NobodyRenamed DEF RemoveForget, circle
<1>2. CASE MergeCommit(p)
  <2>1. \/ people' = people
        \/ \E ghost : people[ghost] = "ghost" /\ people' = [people EXCEPT ![ghost] = "gone"]
    BY <1>2 DEF MergeCommit, MayAbsorb, Absorb
  <2> QED BY <2>1, OneRenamed, NobodyRenamed
<1>3. CASE JoinClaim(p)
  <2>1. \/ people' = people
        \/ \E ghost : people[ghost] = "ghost" /\ people' = [people EXCEPT ![ghost] = "gone"]
    BY <1>3 DEF JoinClaim, MayAbsorb, Absorb, Leave, circle
  <2> QED BY <2>1, OneRenamed, NobodyRenamed
<1>4. CASE AddGhostSeat(p)
  <2>1. people[req[p].who] = "unborn"
    BY <1>4 DEF AddGhostSeat, WhoIsWho, Place, SheetAwaits, Seating
  <2>2. CASE people' = people
    BY <2>2, NobodyRenamed
  <2>3. CASE people' = [people EXCEPT ![req[p].who] = "ghost"]
    <3>1. \A x \in People : people'[x] = IF x = req[p].who THEN "ghost" ELSE people[x]
      BY <2>3 DEF Before, TypeOK, DataOK
    <3> QED BY <1>4, <2>1, <3>1 DEF PeopleKeep, Signed
  <2> QED BY <1>4, <2>2, <2>3 DEF AddGhostSeat, Leave, circle
<1>5. CASE CloseWrite(p)
  <2>1. people' = [people EXCEPT ![Me(p)] = "deleted"] /\ Signed(Me(p))
    BY <1>5, SameSigner DEF CloseWrite
  <2> QED BY <2>1, OneRenamed
<1> QED BY <1>1, <1>2, <1>3, <1>4, <1>5 DEF Renames

\* Who has a placeholder to add had it before, and it is another's for no one.
LEMMA SeatersStay ==
    ASSUME IInv, WhoIsWho, NEW p \in Procs, Handle(p), NEW q \in Procs, Place(q)' \in Seating
    PROVE  /\ Place(q) \in Seating /\ req'[q] = req[q] /\ pc'[q] = Place(q)'
           /\ q = p => ~AddGhostSeat(p)
<1>1. Before /\ ControlOK
  BY DEF IInv, Before, TypeOK
<1>2. Moves(p)
  BY <1>1, HandleMoves
<1>3. CASE q # p
  BY <1>2, <1>3 DEF Moves, Rests, WhoIsWho, Place
<1>4. CASE q = p
  <2>1. ~Finish(p) /\ ~Queues(p)
    BY <1>1, <1>4 DEF Finish, Queues, To, Place, SheetAwaits, Queueing, Seating, ControlOK
  <2>2. GoesOn(p) /\ (Rests(p) \/ AddGhostAccess(p))
    BY <1>2, <1>4, <2>1 DEF Moves, GoesOn
  <2>3. pc[p] \in Seating /\ Place(p) = pc[p]
    BY <1>4, <2>2 DEF Rests, WhoIsWho, AddGhostAccess, Place, SheetAwaits, Seating
  <2>4. AddGhostSeat(p) => Finish(p)
    BY DEF AddGhostSeat, Leave
  <2>5. AddGhostAccess(p)
    BY <2>1, <2>3, <2>4, AtPlace
  <2>6. pc'[p] = "AddGhostSeat"
    BY <1>1, <2>1, <2>5 DEF AddGhostAccess, Go, Leave, To, ControlOK
  <2> QED BY <1>4, <2>1, <2>2, <2>3, <2>4, <2>6 DEF GoesOn, Place, SheetAwaits
<1> QED BY <1>3, <1>4

LEMMA PeopleStay ==
    ASSUME IInv, WhoIsWho, [Next]_vars
    PROVE  PeopleKeep
<1>1. Before
  BY DEF IInv, Before
<1>2. CASE Restart \/ UNCHANGED vars \/ \E p \in Procs : Arrive(p)
  BY <1>2, NobodyRenamed DEF Restart, Arrive, vars, circle
<1>3. ASSUME NEW p \in Procs, Handle(p)
      PROVE  PeopleKeep
  BY <1>1, <1>3, HandleMoves, NobodyRenamed, RenamesKeep DEF Moves, Touches
<1> QED BY <1>2, <1>3, StepIs

LEMMA WhoStays == IInv /\ WhoIsWho /\ [Next]_vars => WhoIsWho'
<1> SUFFICES ASSUME IInv, WhoIsWho, [Next]_vars PROVE WhoIsWho'
  OBVIOUS
<1>0. Before /\ ControlOK
  BY DEF IInv, Before, TypeOK
<1>1. \A s \in Sessions : Signed(PersonOf[s])'
  BY PeopleStay, LedgerAssumption DEF PeopleKeep, WhoIsWho
<1>2. CASE Restart
  BY <1>1, <1>2 DEF Restart, WhoIsWho, Place, SheetAwaits, Seating
<1>3. CASE UNCHANGED vars
  BY <1>3 DEF vars, WhoIsWho, Place, Signed
<1>4. ASSUME NEW p \in Procs, Arrive(p)
      PROVE  WhoIsWho'
  <2>1. PICK r \in Arrivals : req' = [req EXCEPT ![p] = r] /\ pc' = [pc EXCEPT ![p] = r.op]
    BY <1>4 DEF Arrive
  <2>2. /\ pc'[p] = r.op /\ req'[p] = r /\ people' = people /\ reading' = reading
        /\ \A q \in Procs \ {p} : pc'[q] = pc[q] /\ Place(q)' = Place(q) /\ req'[q] = req[q]
    BY <1>0, <1>4, <2>1 DEF Arrive, Place, ControlOK, circle
  <2>3. r.op \in Seating => r.op = "addGhost" /\ r \in MemberArrivals
    BY DEF Arrivals, ExpenseArrivals, PaymentArrivals, PaymentRequests, MemberArrivals,
       MemberRequests,
           EndingArrivals, EndingRequests, Seating
  <2>4. r.op \notin SheetAwaits
    BY DEF Arrivals, ExpenseArrivals, PaymentArrivals, PaymentRequests, MemberArrivals,
       MemberRequests,
           EndingArrivals, EndingRequests, SheetAwaits
  <2>5. r.op \in Seating => /\ people[r.who] = "unborn"
                            /\ \A q \in Procs : pc[q] \in Seating => req[q].who # r.who
    BY <2>3 DEF MemberArrivals, Seating
  <2>6. Place(p)' = r.op
    BY <2>2, <2>4 DEF Place
  <2>7. \A q \in Procs : Place(q)' \in Seating =>
            pc'[q] = Place(q)' /\ people'[req'[q].who] = "unborn"
    BY <2>2, <2>5, <2>6 DEF WhoIsWho
  <2>8. ASSUME NEW q \in Procs, NEW s \in Procs, Place(q)' \in Seating, Place(s)' \in Seating, q # s
        PROVE  req'[q].who # req'[s].who
    BY <2>2, <2>5, <2>6, <2>8 DEF WhoIsWho
  <2> QED BY <1>1, <2>7, <2>8 DEF WhoIsWho
<1>5. ASSUME NEW p \in Procs, Handle(p)
      PROVE  WhoIsWho'
  <2>1. \A x \in People : people[x] = "unborn" =>
            people'[x] = "unborn" \/ (AddGhostSeat(p) /\ x = req[p].who)
    BY <1>0, <1>5, HandleMoves, NobodyRenamed, RenamesKeep DEF Moves, Touches
  <2>2. ASSUME NEW q \in Procs, Place(q)' \in Seating
        PROVE  people'[req'[q].who] = "unborn"
    <3>1. /\ Place(q) \in Seating /\ req'[q] = req[q] /\ people[req[q].who] = "unborn"
          /\ q = p => ~AddGhostSeat(p)
      BY <1>5, <2>2, SeatersStay DEF WhoIsWho
    <3>2. req[q].who \in People
      BY <1>0, <3>1 DEF ControlOK, MemberStage, AddAwaits, Seating
    <3>3. AddGhostSeat(p) => Place(p) \in Seating
      BY DEF AddGhostSeat, Place, SheetAwaits, Seating
    <3>4. AddGhostSeat(p) => req[q].who # req[p].who
      BY <3>1, <3>3 DEF WhoIsWho
    <3> QED BY <2>1, <3>1, <3>2, <3>4
  <2> QED BY <1>1, <1>5, <2>2, SeatersStay DEF WhoIsWho
<1> QED BY <1>2, <1>3, <1>4, <1>5, StepIs

-----------------------------------------------------------------------------

\* Where a payment there is after a step comes from.
FromDraft(s) == \A x \in {payments'[s].from, payments'[s].to} : x \in EndsOf(s) \/ Signed(x)
FromBefore(s) ==
    /\ payments[s] # NoRow
    /\ \A x \in {payments'[s].from, payments'[s].to} :
          x \in {payments[s].from, payments[s].to} \/ Signed(x)

LEMMA AbsorbedEnds ==
    ASSUME NEW ghost, NEW into \in People, Signed(into), Absorb(ghost, into), Before,
           NEW s \in PaymentIds, payments'[s] # NoRow
    PROVE  FromBefore(s)
<1>1. payments' = PaymentsOver(ghost, into) /\ payments[s] # NoRow
  BY DEF Absorb, PaymentsOver
<1> QED BY <1>1, MovedRow DEF FromBefore, As

LEMMA MarkedEnds ==
    ASSUME NEW ids, NEW to \in BOOLEAN, MarkPayments(ids, to), Before,
           NEW s \in PaymentIds, payments'[s] # NoRow
    PROVE  FromBefore(s)
<1>1. payments[s] # NoRow
  BY DEF MarkPayments, There
<1> QED BY <1>1, MarkedRow DEF FromBefore

LEMMA PaidEnds ==
    ASSUME Before, NEW p \in Procs, PayCommit(p), NEW s \in PaymentIds, payments'[s] # NoRow
    PROVE  FromDraft(s) \/ FromBefore(s)
<1> DEFINE d == PaymentDraft[req[p].id]
<1>1. req[p].id \in LoneIds
  BY AtStaged DEF PayCommit, SheetAwaits, Staged, PaymentStage, PayAwaits
<1>2. \/ payments' = payments
      \/ payments' = [payments EXCEPT ![req[p].id] =
                      [group |-> d.group, from |-> d.from, to |-> d.to, amount |-> d.amount,
                       by |-> Me(p), batch |-> NoBatch, deleted |-> FALSE]]
  BY DEF PayCommit, Leave, rows
<1>3. CASE s = req[p].id /\ payments' # payments
  <2>1. payments'[s].from = d.from /\ payments'[s].to = d.to
    BY <1>2, <1>3 DEF Before, TypeOK, DataOK
  <2> QED BY <1>1, <1>3, <2>1 DEF FromDraft, EndsOf
<1>4. CASE s # req[p].id \/ payments' = payments
  <2>1. payments'[s] = payments[s]
    BY <1>2, <1>4 DEF Before, TypeOK, DataOK
  <2> QED BY <2>1 DEF FromBefore
<1> QED BY <1>3, <1>4

LEMMA BatchEnds ==
    ASSUME Before, WhoIsWho, NEW p \in Procs, BatchCommit(p),
           NEW s \in PaymentIds, payments'[s] # NoRow
    PROVE  FromDraft(s) \/ FromBefore(s)
<1> DEFINE b == req[p].id
<1>1. b \in BatchIds /\ (Leave(p) \/ Files(b, Me(p), BatchDraft[b].other))
  BY BatchFiles
<1>2. CASE s \in IdsOf(b) /\ Files(b, Me(p), BatchDraft[b].other)
  <2>1. BatchDraft[b].other \in EndsOf(s)
    BY <1>1, <1>2, IdsApart DEF EndsOf
  <2>2. Signed(Me(p))
    BY SameSigner DEF BatchCommit
  <2> QED BY <1>2, <2>1, <2>2 DEF FromDraft, Files
<1>3. CASE s \notin IdsOf(b) \/ Leave(p)
  BY <1>1, <1>3 DEF Files, FromBefore, Leave, rows
<1> QED BY <1>1, <1>2, <1>3

LEMMA ComesFrom ==
    ASSUME Before, WhoIsWho, NEW p \in Procs, UNCHANGED payments \/ Writes(p),
           NEW s \in PaymentIds, payments'[s] # NoRow
    PROVE  FromDraft(s) \/ FromBefore(s)
<1>1. CASE payments' = payments
  BY <1>1 DEF FromBefore
<1>2. CASE PayCommit(p) \/ BatchCommit(p)
  BY <1>2, PaidEnds, BatchEnds
<1>3. CASE UndoCommit(p) \/ RedoCommit(p)
  BY <1>3, MarkedEnds DEF UndoCommit, RedoCommit
<1>4. CASE MergeCommit(p) \/ JoinClaim(p)
  <2>1. \/ payments' = payments
        \/ \E ghost : \E into \in People : Signed(into) /\ Absorb(ghost, into)
    BY <1>4, Absorbers DEF MergeCommit, JoinClaim, MayAbsorb, Leave, rows, Signed
  <2> QED BY <1>1, <2>1, AbsorbedEnds
<1>5. CASE RemoveForget(p)
  <2>1. payments' = payments \/ payments'[s] = payments[s]
    BY <1>5 DEF RemoveForget, rows
  <2> QED BY <1>1, <2>1 DEF FromBefore
<1>6. CASE CreateCommit(p) \/ EditCommit(p) \/ DeleteCommit(p) \/ RestoreCommit(p)
  <2>1. payments' = payments
    BY <1>6 DEF CreateCommit, Replay, EditCommit, DeleteCommit, RestoreCommit, Leave, rows
  <2> QED BY <1>1, <2>1
<1> QED BY <1>1, <1>2, <1>3, <1>4, <1>5, <1>6 DEF Writes

LEMMA EndsStay == IInv /\ WhoIsWho /\ EndsKnown /\ [Next]_vars => EndsKnown'
<1> SUFFICES ASSUME IInv, WhoIsWho, EndsKnown, [Next]_vars,
                    NEW s \in PaymentIds, payments'[s] # NoRow,
                    NEW x \in {payments'[s].from, payments'[s].to}
             PROVE  x \in EndsOf(s) \/ Signed(x)'
  BY DEF EndsKnown, EndsOf
<1>0. Before /\ IInv' /\ PeopleKeep
  BY PeopleStay, Inductive DEF IInv, Before
<1>1. x \in People
  BY <1>0 DEF IInv, TypeOK, DataOK, PaymentRows
<1>2. FromDraft(s) \/ FromBefore(s)
  <2>1. CASE Restart \/ UNCHANGED vars \/ \E p \in Procs : Arrive(p)
    BY <2>1 DEF Restart, Arrive, vars, rows, FromBefore
  <2>2. ASSUME NEW p \in Procs, Handle(p)
        PROVE  FromDraft(s) \/ FromBefore(s)
    BY <1>0, <2>2, HandleMoves, ComesFrom DEF Moves, Touches
  <2> QED BY <2>1, <2>2, StepIs
<1> QED BY <1>0, <1>1, <1>2 DEF FromDraft, FromBefore, EndsKnown, PeopleKeep

LEMMA FirstIsOne ==
    ASSUME NEW b \in BatchIds
    PROVE  FirstOf(b) \in IdsOf(b)
<1>1. IdsOf(b) # {}
  BY SettlementsAssumption DEF IdsOf
<1> QED BY <1>1 DEF FirstOf, IdsOf

\* Only deleting a person erases a payment.
LEMMA ErasedBy ==
    ASSUME IInv, [Next]_vars, NEW id \in PaymentIds, payments[id] # NoRow, payments'[id] = NoRow
    PROVE  \E p \in Procs : RemoveForget(p)
<1>0. Before /\ payments' # payments
  BY DEF IInv, Before
<1>1. PICK p \in Procs : Handle(p)
  BY <1>0, StepIs DEF Restart, Arrive, vars, rows
<1>2. Writes(p)
  BY <1>0, <1>1, HandleMoves DEF Moves, Touches
<1>3. ~PayCommit(p)
  <2>1. PayCommit(p) => Unfiled({req[p].id}) /\ \E row :
             payments' = [payments EXCEPT ![req[p].id] = row]
    BY <1>0 DEF PayCommit, Leave, rows
  <2> QED BY <1>0, <2>1 DEF Unfiled, Before, TypeOK, DataOK
<1>4. ~BatchCommit(p)
  BY <1>0, BatchFiles DEF Files, Unfiled, Leave, rows
<1>5. ~(UndoCommit(p) \/ RedoCommit(p))
  BY <1>0, MarkedRow DEF UndoCommit, RedoCommit
<1>6. ~(MergeCommit(p) \/ JoinClaim(p))
  BY <1>0, Absorbers, MovedRow DEF MergeCommit, JoinClaim, Absorb, Leave, rows
<1>7. ~(CreateCommit(p) \/ EditCommit(p) \/ DeleteCommit(p) \/ RestoreCommit(p))
  BY <1>0 DEF CreateCommit, Replay, EditCommit, DeleteCommit, RestoreCommit, Leave, rows
<1> QED BY <1>2, <1>3, <1>4, <1>5, <1>6, <1>7 DEF Writes

\* An id used up stays used up: an expense is never erased, and a payment only
\* with somebody its draft names.
LEMMA SpentStays ==
    ASSUME IInv, WhoIsWho, EndsKnown, [Next]_vars, NEW id \in Ids, Spent(id)
    PROVE  Spent(id)'
<1>0. Before /\ PeopleKeep /\ IInv'
  BY PeopleStay, Inductive DEF IInv, Before
<1>1. CASE id \in ExpenseIds
  <2>1. expenses[id] \in ExpenseRows
    BY <1>0, <1>1 DEF Spent, Before, TypeOK, DataOK
  <2>2. expenses'[id] \in ExpenseRows
    BY <1>1, <2>1, KeptForGood DEF Kept
  <2> QED BY <1>1, <2>2, RowAssumption DEF Spent
<1>2. CASE id \notin ExpenseIds /\ payments[id] = NoRow
  <2>1. PICK x \in EndsOf(id) : people[x] = "gone"
    BY <1>2 DEF Spent
  <2>2. x \in People
    BY <1>2, <2>1, SettlementsAssumption DEF Ids, EndsOf
  <2> QED BY <1>0, <1>2, <2>1, <2>2 DEF PeopleKeep, Spent, EndsOf
<1>3. CASE id \notin ExpenseIds /\ payments[id] # NoRow
  <2>0. id \in PaymentIds
    BY <1>3 DEF Ids
  <2>1. CASE payments'[id] # NoRow
    BY <1>3, <2>1 DEF Spent
  <2>2. CASE payments'[id] = NoRow
    <3>1. \E p \in Procs : RemoveForget(p)
      BY <1>0, <1>3, <2>0, <2>2, ErasedBy
    <3>2. PICK x \in {payments[id].from, payments[id].to} :
              people[x] = "ghost" /\ people' = [people EXCEPT ![x] = "gone"]
      BY <1>3, <2>0, <2>2, <3>1 DEF RemoveForget, rows
    <3>3. x \in EndsOf(id)
      BY <1>3, <2>0, <3>2 DEF EndsKnown, Signed
    <3>4. people'[x] = "gone"
      BY <1>0, <1>3, <2>0, <3>2 DEF Before, TypeOK, DataOK, PaymentRows
    <3> QED BY <1>3, <3>3, <3>4 DEF Spent, EndsOf
  <2> QED BY <2>1, <2>2
<1> QED BY <1>1, <1>2, <1>3

\* Whoever files an id and goes on to tell of it found it free, and uses it up.
LEMMA FilesAnew ==
    ASSUME IInv, NEW p \in Procs, CreateCommit(p) \/ PayCommit(p) \/ BatchCommit(p),
           NEW id \in Ids, IsToTell(p, id)'
    PROVE  ~Spent(id) /\ Spent(id)'
<1>0. Before /\ ControlOK
  BY DEF IInv, Before, TypeOK
<1>1. ~Leave(p)
  BY <1>0 DEF IsToTell, Leave, Finish, To, Place, SheetAwaits, ControlOK
<1>2. CASE CreateCommit(p)
  <2>1. req[p].id \in ExpenseIds /\ req[p].session \in Sessions
    BY <1>0, <1>2, AtStaged DEF CreateCommit, SheetAwaits, Staged, ExpenseStage,
       ExpenseAwaits, CreateAwaits
  <2> DEFINE d   == Draft[req[p].id]
             row == [group |-> d.group, by |-> Me(p), bill |-> d.bill, deleted |-> FALSE,
                     version |-> 1, session |-> req[p].session]
  <2>2. /\ expenses[req[p].id] = NoRow /\ expenses' = [expenses EXCEPT ![req[p].id] = row]
        /\ Go(p, "CreateAnnounce", Nothing)
    BY <1>1, <1>2 DEF CreateCommit, Replay
  <2>3. row \in ExpenseRows
    BY <2>1, LedgerAssumption, ExpensesAssumption DEF ExpenseRows, BillRows, Me
  <2>4. id = req[p].id
    BY <1>0, <2>2 DEF IsToTell, Go, To, Place, SheetAwaits, ControlOK
  <2> HIDE DEF row
  <2>5. expenses'[id] # NoRow
    BY <1>0, <2>1, <2>2, <2>3, <2>4, RowAssumption DEF Before, TypeOK, DataOK
  <2> QED BY <2>1, <2>2, <2>4, <2>5 DEF Spent
<1>3. CASE PayCommit(p)
  <2>1. req[p].id \in LoneIds /\ req[p].session \in Sessions
    BY <1>0, <1>3, AtStaged DEF PayCommit, SheetAwaits, Staged, PaymentStage,
       PaymentAwaits, PayAwaits
  <2> DEFINE d   == PaymentDraft[req[p].id]
             row == [group |-> d.group, from |-> d.from, to |-> d.to, amount |-> d.amount,
                     by |-> Me(p), batch |-> NoBatch, deleted |-> FALSE]
  <2>2. /\ payments[req[p].id] = NoRow /\ payments' = [payments EXCEPT ![req[p].id] = row]
        /\ Exist({d.from, d.to}) /\ Go(p, "PayAnnounce", Nothing)
    BY <1>1, <1>3 DEF PayCommit, Unfiled
  <2>3. row \in PaymentRows
    BY <2>1, LedgerAssumption, SettlementsAssumption DEF PaymentRows, Me
  <2>4. id = req[p].id
    BY <1>0, <2>2 DEF IsToTell, Go, To, Place, SheetAwaits, ControlOK
  <2>5. id \in PaymentIds \ ExpenseIds /\ EndsOf(id) = {d.from, d.to}
    BY <2>1, <2>4, DivvyAssumption DEF LoneIds, EndsOf
  <2>6. ~Spent(id)
    BY <2>2, <2>4, <2>5 DEF Spent, Exist
  <2> HIDE DEF row
  <2>7. payments'[id] # NoRow
    BY <1>0, <2>2, <2>3, <2>4, <2>5, RowAssumption DEF Before, TypeOK, DataOK
  <2> QED BY <2>5, <2>6, <2>7 DEF Spent
<1>4. CASE BatchCommit(p)
  <2> DEFINE b == req[p].id
  <2>1. /\ b \in BatchIds /\ Files(b, Me(p), BatchDraft[b].other)
        /\ Exist({BatchDraft[b].other}) /\ Place(p)' = "BatchAnnounce"
    BY <1>0, <1>1, <1>4, BatchFiles
  <2>2. req'[p] = req[p]
    BY <1>1, <1>4 DEF BatchCommit, Go
  <2>3. id = FirstOf(b) /\ id \in IdsOf(b)
    BY <2>1, <2>2, FirstIsOne DEF IsToTell, FirstOf
  <2>4. id \in PaymentIds \ ExpenseIds /\ EndsOf(id) = {BatchDraft[b].other}
    BY <2>1, <2>3, IdsApart, DivvyAssumption DEF EndsOf
  <2>5. payments[id] = NoRow /\ payments'[id] # NoRow
    BY <2>1, <2>3 DEF Files, Unfiled
  <2>6. BatchDraft[b].other \in EndsOf(id) /\ people[BatchDraft[b].other] # "gone"
    BY <2>1, <2>4 DEF Exist
  <2> QED BY <2>4, <2>5, <2>6 DEF Spent
<1> QED BY <1>2, <1>3, <1>4

LEMMA TellingEnds ==
    ASSUME NEW p \in Procs, Tells(p)
    PROVE  Finish(p)
BY DEF Tells, CreateAnnounce, PayAnnounce, BatchAnnounce, Announce, Leave

\* Whoever is about to tell was so before, or has just filed it.
LEMMA TellersStay ==
    ASSUME IInv, NEW p \in Procs, Handle(p), NEW q \in Procs, NEW id \in Ids, IsToTell(q, id)'
    PROVE  /\ IsToTell(q, id) \/ (q = p /\ ~Spent(id))
           /\ q = p => ~Tells(p)
           /\ ~IsToTell(q, id) => Spent(id)'
<1>0. Before /\ ControlOK /\ Moves(p)
  BY HandleMoves DEF IInv, Before, TypeOK
<1>1. ASSUME Rests(q)
      PROVE  IsToTell(q, id)
  BY <1>1 DEF Rests, IsToTell, FirstOf
<1>2. CASE q # p
  BY <1>0, <1>1, <1>2 DEF Moves
<1>3. CASE q = p
  <2>1. Place(p)' \in Telling
    BY <1>3 DEF IsToTell, Telling
  <2>2. ~Finish(p) /\ ~Queues(p)
    BY <1>0, <2>1 DEF Finish, Queues, To, Place, SheetAwaits, Queueing, Telling, ControlOK
  <2>3. Rests(p) \/ CreateCommit(p) \/ PayCommit(p) \/ BatchCommit(p)
    BY <1>0, <2>1, <2>2 DEF Moves, GoesOn
  <2> QED BY <1>1, <1>3, <2>2, <2>3, FilesAnew, TellingEnds
<1> QED BY <1>2, <1>3

\* What the feed comes to say is what the handler was about to tell.
LEMMA ToldBy ==
    ASSUME IInv, NEW p \in Procs, Tells(p), NEW id \in Ids, announced'[id] # announced[id]
    PROVE  IsToTell(p, id) /\ announced'[id] = announced[id] + 1
<1>0. announced \in [ExpenseIds \cup PaymentIds -> Nat]
  BY DEF IInv, TypeOK, DataOK
<1>1. \E told : IsToTell(p, told) /\ announced' = [announced EXCEPT ![told] = @ + 1]
  BY <1>0 DEF Tells, CreateAnnounce, PayAnnounce, BatchAnnounce, Announce, Leave, IsToTell,
     Place,
     SheetAwaits, FirstOf
<1> QED BY <1>0, <1>1 DEF Ids

LEMMA FirstTold ==
    ASSUME IInv, NEW p \in Procs, NEW b \in BatchIds, NEW s \in IdsOf(b), IsToTell(p, s)
    PROVE  s = FirstOf(b)
<1>1. s \in PaymentIds \ (LoneIds \cup ExpenseIds)
  BY IdsApart, DivvyAssumption
<1>2. Place(p) = "CreateAnnounce" => req[p].id \in ExpenseIds
  BY DEF IInv, TypeOK, ControlOK, ExpenseStage, ExpenseAwaits, CreateAwaits
<1>3. /\ Place(p) = "PayAnnounce" => req[p].id \in LoneIds
      /\ Place(p) = "BatchAnnounce" => req[p].id \in BatchIds
  BY DEF IInv, TypeOK, ControlOK, PaymentStage, PayAwaits, BatchAwaits
<1>4. Place(p) = "BatchAnnounce" /\ s = FirstOf(req[p].id) /\ req[p].id \in BatchIds
  BY <1>1, <1>2, <1>3 DEF IsToTell
<1> QED BY <1>4, FirstIsOne, IdsApart

LEMMA ToldStays ==
    IInv /\ WhoIsWho /\ EndsKnown /\ ToldOnce /\ [Next]_vars => ToldOnce'
<1> SUFFICES ASSUME IInv, WhoIsWho, EndsKnown, ToldOnce, [Next]_vars
             PROVE  ToldOnce'
  OBVIOUS
<1>0. /\ Before /\ ControlOK /\ announced \in [Ids -> Nat]
      /\ \A b \in BatchIds : IdsOf(b) \subseteq Ids
  BY IdsApart DEF IInv, Before, TypeOK, DataOK, Ids
<1>1. \A id \in Ids : Spent(id) => Spent(id)'
  BY SpentStays
\* Whoever is silent leaves things as they were; so does who only files.
<1>2. ASSUME UNCHANGED announced,
             \A q \in Procs, id \in Ids : IsToTell(q, id)' => IsToTell(q, id)
      PROVE  ToldOnce'
  BY <1>1, <1>2 DEF ToldOnce, IdsOf, FirstOf
<1>3. CASE Restart
  <2>1. \A q \in Procs : Place(q)' = "idle"
    BY <1>3 DEF Restart, Place, SheetAwaits
  <2> QED BY <1>2, <1>3, <2>1 DEF Restart, IsToTell
<1>4. CASE UNCHANGED vars
  BY <1>2, <1>4 DEF vars, IsToTell, Place, FirstOf
<1>5. ASSUME NEW p \in Procs, Arrive(p)
      PROVE  ToldOnce'
  <2>1. \A q \in Procs : Rests(q) \/ Place(q)' \notin Telling
    BY <1>0, <1>5, Knocks
  <2>2. \A q \in Procs, id \in Ids : IsToTell(q, id)' => IsToTell(q, id)
    BY <2>1 DEF Rests, IsToTell, Telling, FirstOf
  <2> QED BY <1>2, <1>5, <2>2 DEF Arrive
<1>6. ASSUME NEW p \in Procs, Handle(p)
      PROVE  ToldOnce'
  <2>1. UNCHANGED announced \/ Tells(p)
    BY <1>0, <1>6, HandleMoves DEF Moves, Touches
  <2>2. \A id \in Ids : announced'[id] # announced[id] =>
            Tells(p) /\ IsToTell(p, id) /\ announced'[id] = announced[id] + 1
    BY <2>1, ToldBy
  <2>3. \A id \in Ids : announced'[id] = 0 \/ (announced'[id] = 1 /\ Spent(id)')
    BY <1>1, <2>2 DEF ToldOnce
  <2>4. ASSUME NEW q \in Procs, NEW id \in Ids, IsToTell(q, id)'
        PROVE  announced'[id] = 0 /\ Spent(id)'
    <3>1. /\ IsToTell(q, id) \/ (q = p /\ ~Spent(id))
          /\ q = p => ~Tells(p)
          /\ ~IsToTell(q, id) => Spent(id)'
      BY <1>6, <2>4, TellersStay
    <3>2. announced[id] = 0
      BY <3>1 DEF ToldOnce
    <3>3. announced'[id] = announced[id]
      BY <2>2, <3>1 DEF ToldOnce
    <3> QED BY <1>1, <3>1, <3>2, <3>3 DEF ToldOnce
  <2>5. ASSUME NEW q \in Procs, NEW r \in Procs, NEW id \in Ids, IsToTell(q, id)', IsToTell(r, id)'
        PROVE  q = r
    BY <1>6, <2>5, TellersStay DEF ToldOnce
  <2>6. ASSUME NEW b \in BatchIds, NEW s \in IdsOf(b), announced'[s] = 1
        PROVE  s = FirstOf(b)
    <3>1. announced[s] = 1 \/ IsToTell(p, s)
      BY <1>0, <2>2, <2>6
    <3> QED BY <3>1, FirstTold DEF ToldOnce
  <2> QED BY <2>3, <2>4, <2>5, <2>6 DEF ToldOnce, IdsOf, FirstOf
<1> QED BY <1>3, <1>4, <1>5, <1>6, StepIs

LEMMA InitTold == Init => WhoIsWho /\ EndsKnown /\ ToldOnce
<1> SUFFICES ASSUME Init PROVE WhoIsWho /\ EndsKnown /\ ToldOnce
  OBVIOUS
<1>1. \A p \in Procs : Place(p) = "idle"
  BY DEF Init, Place, SheetAwaits
<1>2. WhoIsWho
  BY <1>1, DivvyAssumption DEF Init, WhoIsWho, Signed, Seating
<1>3. EndsKnown
  BY DEF Init, EndsKnown
<1>4. ToldOnce
  <2>1. \A id \in Ids : announced[id] = 0
    BY DEF Init, Ids
  <2>2. \A b \in BatchIds : IdsOf(b) \subseteq Ids
    BY IdsApart DEF Ids
  <2> QED BY <1>1, <2>1, <2>2 DEF ToldOnce, IsToTell
<1> QED BY <1>2, <1>3, <1>4

\* However often a request is replayed, whenever the server restarts and whoever
\* is forgotten or folded into somebody meanwhile, the feed tells once at most
\* that an expense, a payment or a batch was added, and of no expense that is
\* not there.
THEOREM TellsOnce == Spec => []AnnouncedOnce
<1>1. ToldOnce => AnnouncedOnce
  <2> SUFFICES ASSUME ToldOnce PROVE AnnouncedOnce
    OBVIOUS
  <2>1. \A id \in Ids : announced[id] \in {0, 1}
    BY DEF ToldOnce
  <2>2. \A e \in ExpenseIds : announced[e] = 1 => expenses[e] # NoRow
    BY DEF ToldOnce, Spent, Ids
  <2>3. ASSUME NEW b \in BatchIds, NEW r \in BatchDraft[b].rows, NEW t \in BatchDraft[b].rows,
               announced[r.id] > 0, announced[t.id] > 0
        PROVE  r = t
    <3>1. r.id \in IdsOf(b) /\ t.id \in IdsOf(b)
      BY DEF IdsOf
    <3>2. r.id \in Ids /\ t.id \in Ids
      BY <3>1, IdsApart DEF Ids
    <3>3. r.id = t.id
      BY <2>1, <2>3, <3>1, <3>2 DEF ToldOnce
    <3> QED BY <3>3, SettlementsAssumption
  <2> QED BY <2>1, <2>2, <2>3 DEF AnnouncedOnce, Ids
<1> QED BY <1>1, InitTold, WhoStays, EndsStay, ToldStays, Invariance, PTL DEF Spec

=============================================================================
