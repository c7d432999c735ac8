------------------------------- MODULE Serial_proofs --------------------------
(***************************************************************************)
(* What holds of the whole books, for any people, groups, ledgers and      *)
(* amounts. One request at a time: everybody a row names keeps a seat, each*)
(* expense adds up, a merge moves no money, nobody pays themselves and, while*)
(* all there is to do is settle up, no debt is paid twice. However requests*)
(* interleave: nobody leaves with a balance that could have been read, and *)
(* a restore brings nobody back who left.                                  *)
(***************************************************************************)
EXTENDS Divvy_proofs, Sums

\* One handler at a time: nothing interleaves.
OneAtOnce == \A p, q \in Procs : p = q

\* Nobody's seat is deleted while something is being filed for them.
Unremoved == OneAtOnce \/ "remove" \notin Ops

Seat(l, x) == IF l \in Groups THEN member[l][x] # "none" ELSE Signed(x)

\* x may be named in ledger l: its group is no more, x is nobody any longer, or
\* x has a seat in it.
Known(l, x) == ~Stands(l) \/ people[x] = "gone" \/ Seat(l, x)
AllKnown(l, xs) == \A x \in xs : Known(l, x)

\* Whoever a row names is somebody.
NamesHold ==
    /\ \A e \in ExpenseIds : expenses[e] # NoRow => Exist(Named(expenses[e].bill))
    /\ \A s \in PaymentIds : payments[s] # NoRow => Exist({payments[s].from, payments[s].to})

\* Whoever a row names has a seat in its ledger.
RowsKnown ==
    /\ \A e \in ExpenseIds : expenses[e] # NoRow =>
          AllKnown(expenses[e].group, Named(expenses[e].bill))
    /\ \A s \in PaymentIds : payments[s] # NoRow =>
          AllKnown(payments[s].group, {payments[s].from, payments[s].to})

CircleHolds ==
    /\ \A f \in friends : \A x \in f : Signed(x)
    /\ \A g \in Groups : \A x \in People : Housed(g, x) => Exist({x})

NamedOn(sheet) == {x \in People : \/ \E e \in sheet.expenses : x \in Named(e.bill)
                                  \/ \E s \in sheet.payments : x \in {s.from, s.to}}
Finite(sheet) == IsFiniteSet(sheet.expenses) /\ IsFiniteSet(sheet.payments)

\* Every sheet somebody holds is of finitely many rows, and is empty for a group
\* that was not asked for.
SheetsHeld ==
    /\ \A g \in Groups : cache[g] # NoSheet => Finite(cache[g].sheet)
    /\ \A p \in Procs :
          /\ Finite(seen[p].direct)
          /\ reading[p].stale \subseteq reading[p].groups
          /\ \A g \in Groups : /\ Finite(reading[p].sheet[g])
                               /\ IsFiniteSet(reading[p].expenses[g])
                               /\ g \notin reading[p].groups => reading[p].sheet[g] = EmptySheet

\* Nobody asked for what is not among the endpoints, nor to settle up with themselves.
Asked ==
    \A p \in Procs :
        /\ Place(p) \in RemoveAwaits => "remove" \in Ops
        /\ Place(p) \in RedoAwaits => "restorePayment" \in Ops
        /\ Place(p) \in MergeAwaits => "merge" \in Ops
        /\ Place(p) \in JoinAwaits => "join" \in Ops
        /\ Place(p) \in BatchAwaits => Me(p) # BatchDraft[req[p].id].other

Unseen(g, x) ==
    /\ \A e \in ExpenseIds : (expenses[e] # NoRow /\ expenses[e].group = g)
                                => x \notin Named(expenses[e].bill)
    /\ \A s \in PaymentIds : (payments[s] # NoRow /\ payments[s].group = g)
                                => x \notin {payments[s].from, payments[s].to}

\* What a handler that is about to write has checked, and still holds.
Carries(p) ==
    LET at == Place(p)
        r  == req[p]
    IN  /\ at = "CreateCommit" =>
              AddsUp(Draft[r.id].bill) /\ AllKnown(Draft[r.id].group, Named(Draft[r.id].bill))
        /\ at = "EditInvolve" => AllKnown(expenses[r.id].group, seen[p].people)
        /\ at \in {"EditCheck", "EditCommit"} =>
              AddsUp(r.bill) /\ AllKnown(expenses[r.id].group, Named(r.bill))
        /\ at \in {"PayTurn", "PayCommit"} =>
              AllKnown(PaymentDraft[r.id].group, {PaymentDraft[r.id].from, PaymentDraft[r.id].to})
        /\ at = "BatchCommit" =>
              /\ \A g \in reading[p].groups : AllKnown(g, {Me(p), BatchDraft[r.id].other})
              /\ \A x \in NamedOn(seen[p].direct) : Signed(x)
        /\ at \in {"AddSeat", "BefriendShare", "BefriendWrite"} => Signed(r.who)
        /\ at = "RemoveDrop" => ("remove" \in Ops => Unseen(r.group, r.who)) \/ ~OneAtOnce

Grounded ==
    /\ WhoIsWho /\ NamesHold /\ CircleHolds /\ SheetsHeld /\ Asked
    /\ RowsKnown /\ BillsAddUp
    /\ \A p \in Procs : Carries(p)

-----------------------------------------------------------------------------
(* Where a handler lands, and by which step.                               *)

Reads(p) == SheetVersions(p) \/ SheetExpenses(p) \/ SheetPayments(p)

\* The awaits at which a handler holds something it has checked or read.
Carrying ==
    {"CreateCommit", "EditInvolve", "EditCheck", "EditCommit", "RestoreMembers", "RestoreCommit",
     "PayTurn", "PayCommit", "BatchCommit", "RedoMembers", "RedoCommit",
     "RemoveCount", "RemoveLeave", "RemoveDrop", "AddSeat",
     "BefriendShare", "BefriendWrite", "UnfriendWrite", "DisbandWrite",
     "CloseCheck", "CloseOwned", "CloseWrite"}

\* The one step, or two, that takes a handler to each of them.
Lands(p) ==
    \/ Place(p)' \notin Carrying
    \/ Place(p)' = "CreateCommit" /\ CreateInvolve(p)
    \/ Place(p)' = "EditInvolve" /\ EditLoad(p)
    \/ Place(p)' = "EditCheck" /\ EditInvolve(p)
    \/ Place(p)' = "EditCommit" /\ EditCheck(p)
    \/ Place(p)' = "RestoreMembers" /\ RestoreLoad(p)
    \/ Place(p)' = "RestoreCommit" /\ RestoreMembers(p)
    \/ Place(p)' = "PayTurn" /\ PayMembers(p)
    \/ Place(p)' = "PayCommit" /\ PayTurn(p)
    \/ Place(p)' = "BatchCommit" /\ BatchShared(p)
    \/ Place(p)' = "RedoMembers" /\ RedoSiblings(p)
    \/ Place(p)' = "RedoCommit" /\ RedoMembers(p)
    \/ Place(p)' = "RemoveCount" /\ RemoveAccess(p)
    \/ Place(p)' \in {"RemoveLeave", "RemoveDrop"} /\ RemoveCount(p)
    \/ Place(p)' = "AddSeat" /\ AddAccess(p)
    \/ Place(p)' = "BefriendShare" /\ BefriendLook(p)
    \/ Place(p)' = "BefriendWrite" /\ (BefriendShare(p) \/ CodeLook(p))
    \/ Place(p)' = "UnfriendWrite" /\ UnfriendShared(p)
    \/ Place(p)' = "DisbandWrite" /\ DisbandAccess(p)
    \/ Place(p)' = "CloseCheck" /\ CloseRead(p)
    \/ Place(p)' = "CloseOwned" /\ CloseCheck(p)
    \/ Place(p)' = "CloseWrite" /\ CloseOwned(p)

\* The awaits of each endpoint.
Endpoints ==
    {CreateAwaits, EditAwaits, DeleteAwaits, RestoreAwaits, PayAwaits, BatchAwaits, UndoAwaits,
     RedoAwaits, LookAwaits, RemoveAwaits, MergeAwaits, JoinAwaits, AddAwaits, FriendAwaits,
     DisbandAwaits, CloseAwaits}

\* A handler that goes on stays in the endpoint it is of.
GoesOnIn(p) == Place(p)' = "idle" \/ \A E \in Endpoints : Place(p)' \in E => Place(p) \in E

\* Handler p is at `label` after the step.
LEMMA GoneTo ==
    ASSUME ControlOK, NEW p \in Procs, NEW label, label \notin SheetAwaits
    PROVE  /\ \A what : Go(p, label, what) => Place(p)' = label
           /\ \A key : Enqueue(p, key, label) => Place(p)' = label
           /\ \A gs, what : ReadSheets(p, gs, label, what) => Place(p)' = label
           /\ Finish(p) => Place(p)' = "idle"
           /\ Leave(p) => Place(p)' = "idle"
           /\ pc[p] = label => Place(p) = label
<1>1. \A what : Go(p, label, what) => Place(p)' = label
  BY DEF Go, To, Place, ControlOK
<1>2. \A key : Enqueue(p, key, label) => Place(p)' = label
  BY DEF Enqueue, To, Place, ControlOK
<1>3. \A gs, what : ReadSheets(p, gs, label, what) => Place(p)' = label
  BY DEF ReadSheets, To, Place, ControlOK, SheetAwaits, NotReading
<1>4. Finish(p) \/ Leave(p) => Place(p)' = "idle"
  BY DEF Finish, Leave, To, Place, ControlOK, SheetAwaits
<1>5. pc[p] = label => Place(p) = label
  BY DEF Place
<1> QED BY <1>1, <1>2, <1>3, <1>4, <1>5

LEMMA GoneOn ==
    ASSUME NEW p \in Procs, NEW E \in Endpoints, Place(p)' \in E \cup {"idle"}, Place(p) \in E
    PROVE  GoesOnIn(p)
<1>1. \A F \in Endpoints : Place(p)' \in F /\ Place(p)' \in E => F = E
  BY DEF Endpoints, CreateAwaits, EditAwaits, DeleteAwaits, RestoreAwaits,
     PayAwaits, BatchAwaits, UndoAwaits, RedoAwaits,
     LookAwaits, RemoveAwaits, MergeAwaits, JoinAwaits, AddAwaits,
     FriendAwaits, DisbandAwaits, CloseAwaits
<1> QED BY <1>1 DEF GoesOnIn

LEMMA ExpenseLands ==
    ASSUME ControlOK, NEW p \in Procs, ExpenseSteps(p)
    PROVE  Lands(p) /\ GoesOnIn(p)
<1> USE GoneTo DEF SheetAwaits, Carrying
<1>1. CASE CreateAccess(p) \/ CreateInvolve(p) \/ CreateCommit(p) \/ CreateAnnounce(p)
  <2>1. /\ Place(p) \in CreateAwaits /\ Place(p)' \in CreateAwaits \cup {"idle"}
        /\ Lands(p)
    <3>1. CASE CreateAccess(p)
      BY <3>1 DEF CreateAccess, Lands, CreateAwaits
    <3>2. CASE CreateInvolve(p)
      BY <3>2 DEF CreateInvolve, Lands, CreateAwaits
    <3>3. CASE CreateCommit(p)
      BY <3>3 DEF CreateCommit, Replay, Lands, CreateAwaits
    <3>4. CASE CreateAnnounce(p)
      BY <3>4 DEF CreateAnnounce, Announce, Lands, CreateAwaits
    <3> QED BY <1>1, <3>1, <3>2, <3>3, <3>4
  <2> QED BY <2>1, GoneOn DEF Endpoints
<1>2. CASE EditLoad(p) \/ EditInvolve(p) \/ EditCheck(p) \/ EditCommit(p)
  <2>1. /\ Place(p) \in EditAwaits /\ Place(p)' \in EditAwaits \cup {"idle"}
        /\ Lands(p)
    <3>1. CASE EditLoad(p)
      BY <3>1 DEF EditLoad, Lands, EditAwaits
    <3>2. CASE EditInvolve(p)
      BY <3>2 DEF EditInvolve, Lands, EditAwaits
    <3>3. CASE EditCheck(p)
      BY <3>3 DEF EditCheck, Lands, EditAwaits
    <3>4. CASE EditCommit(p)
      BY <3>4 DEF EditCommit, Lands, EditAwaits
    <3> QED BY <1>2, <3>1, <3>2, <3>3, <3>4
  <2> QED BY <2>1, GoneOn DEF Endpoints
<1>3. CASE DeleteLoad(p) \/ DeleteCommit(p)
  <2>1. /\ Place(p) \in DeleteAwaits /\ Place(p)' \in DeleteAwaits \cup {"idle"}
        /\ Lands(p)
    <3>1. CASE DeleteLoad(p)
      BY <3>1 DEF DeleteLoad, Lands, DeleteAwaits
    <3>2. CASE DeleteCommit(p)
      BY <3>2 DEF DeleteCommit, Lands, DeleteAwaits
    <3> QED BY <1>3, <3>1, <3>2
  <2> QED BY <2>1, GoneOn DEF Endpoints
<1>4. CASE RestoreLoad(p) \/ RestoreMembers(p) \/ RestoreCommit(p)
  <2>1. /\ Place(p) \in RestoreAwaits /\ Place(p)' \in RestoreAwaits \cup {"idle"}
        /\ Lands(p)
    <3>1. CASE RestoreLoad(p)
      BY <3>1 DEF RestoreLoad, Lands, RestoreAwaits
    <3>2. CASE RestoreMembers(p)
      BY <3>2 DEF RestoreMembers, Lands, RestoreAwaits
    <3>3. CASE RestoreCommit(p)
      BY <3>3 DEF RestoreCommit, Lands, RestoreAwaits
    <3> QED BY <1>4, <3>1, <3>2, <3>3
  <2> QED BY <2>1, GoneOn DEF Endpoints
<1> QED BY <1>1, <1>2, <1>3, <1>4 DEF ExpenseSteps

LEMMA PaymentLands ==
    ASSUME ControlOK, NEW p \in Procs, PaymentSteps(p)
    PROVE  Lands(p) /\ GoesOnIn(p)
<1> USE GoneTo DEF SheetAwaits, Carrying
<1>1. CASE PayReplay(p) \/ PayMembers(p) \/ PayTurn(p) \/ PayCommit(p) \/ PayAnnounce(p)
  <2>1. /\ Place(p) \in PayAwaits /\ Place(p)' \in PayAwaits \cup {"idle"}
        /\ Lands(p)
    <3>1. CASE PayReplay(p)
      BY <3>1 DEF PayReplay, Lands, PayAwaits
    <3>2. CASE PayMembers(p)
      BY <3>2 DEF PayMembers, Lands, PayAwaits
    <3>3. CASE PayTurn(p)
      BY <3>3 DEF PayTurn, Lands, PayAwaits
    <3>4. CASE PayCommit(p)
      <4>1. pc[p] = "PayCommit" /\ (Leave(p) \/ Go(p, "PayAnnounce", Nothing))
        BY <3>4 DEF PayCommit
      <4> QED BY <4>1 DEF Lands, PayAwaits
    <3>5. CASE PayAnnounce(p)
      BY <3>5 DEF PayAnnounce, Announce, Lands, PayAwaits
    <3> QED BY <1>1, <3>1, <3>2, <3>3, <3>4, <3>5
  <2> QED BY <2>1, GoneOn DEF Endpoints
<1>2. CASE BatchStart(p) \/ BatchTurn(p) \/ BatchShared(p) \/ BatchCommit(p) \/
            BatchAnnounce(p)
  <2>1. /\ Place(p) \in BatchAwaits /\ Place(p)' \in BatchAwaits \cup {"idle"}
        /\ Lands(p)
    <3>1. CASE BatchStart(p)
      BY <3>1 DEF BatchStart, Lands, BatchAwaits
    <3>2. CASE BatchTurn(p)
      BY <3>2 DEF BatchTurn, Lands, BatchAwaits
    <3>3. CASE BatchShared(p)
      BY <3>3 DEF BatchShared, Lands, BatchAwaits
    <3>4. CASE BatchCommit(p)
      <4>1. pc[p] = "BatchCommit" /\ (Leave(p) \/ Go(p, "BatchAnnounce", Nothing))
        BY <3>4 DEF BatchCommit
      <4> QED BY <4>1 DEF Lands, BatchAwaits
    <3>5. CASE BatchAnnounce(p)
      BY <3>5 DEF BatchAnnounce, Announce, Lands, BatchAwaits
    <3> QED BY <1>2, <3>1, <3>2, <3>3, <3>4, <3>5
  <2> QED BY <2>1, GoneOn DEF Endpoints
<1>3. CASE UndoLoad(p) \/ UndoSiblings(p) \/ UndoCommit(p)
  <2>1. /\ Place(p) \in UndoAwaits /\ Place(p)' \in UndoAwaits \cup {"idle"}
        /\ Lands(p)
    <3>1. CASE UndoLoad(p)
      BY <3>1 DEF UndoLoad, Lands, UndoAwaits
    <3>2. CASE UndoSiblings(p)
      BY <3>2 DEF UndoSiblings, Lands, UndoAwaits
    <3>3. CASE UndoCommit(p)
      BY <3>3 DEF UndoCommit, Lands, UndoAwaits
    <3> QED BY <1>3, <3>1, <3>2, <3>3
  <2> QED BY <2>1, GoneOn DEF Endpoints
<1>4. CASE RedoLoad(p) \/ RedoSiblings(p) \/ RedoMembers(p) \/ RedoCommit(p)
  <2>1. /\ Place(p) \in RedoAwaits /\ Place(p)' \in RedoAwaits \cup {"idle"}
        /\ Lands(p)
    <3>1. CASE RedoLoad(p)
      BY <3>1 DEF RedoLoad, Lands, RedoAwaits
    <3>2. CASE RedoSiblings(p)
      BY <3>2 DEF RedoSiblings, Lands, RedoAwaits
    <3>3. CASE RedoMembers(p)
      BY <3>3 DEF RedoMembers, Lands, RedoAwaits
    <3>4. CASE RedoCommit(p)
      BY <3>4 DEF RedoCommit, Lands, RedoAwaits
    <3> QED BY <1>4, <3>1, <3>2, <3>3, <3>4
  <2> QED BY <2>1, GoneOn DEF Endpoints
<1> QED BY <1>1, <1>2, <1>3, <1>4 DEF PaymentSteps

LEMMA MemberLands ==
    ASSUME ControlOK, NEW p \in Procs, MemberSteps(p)
    PROVE  Lands(p) /\ GoesOnIn(p)
<1> USE GoneTo DEF SheetAwaits, Carrying
<1>1. CASE Look(p) \/ Looked(p)
  <2>1. /\ Place(p) \in LookAwaits /\ Place(p)' \in LookAwaits \cup {"idle"}
        /\ Lands(p)
    <3>1. CASE Look(p)
      BY <3>1 DEF Look, Lands, LookAwaits
    <3>2. CASE Looked(p)
      BY <3>2 DEF Looked, Lands, LookAwaits
    <3> QED BY <1>1, <3>1, <3>2
  <2> QED BY <2>1, GoneOn DEF Endpoints
<1>2. CASE RemoveAccess(p) \/ RemoveCount(p) \/ RemoveLeave(p) \/ RemoveDrop(p) \/
            RemoveForget(p) \/ RemoveSuccessor(p) \/ RemovePromote(p) \/
            Removed(p)
  <2>1. /\ Place(p) \in RemoveAwaits /\ Place(p)' \in RemoveAwaits \cup {"idle"}
        /\ Lands(p)
    <3>1. CASE RemoveAccess(p)
      BY <3>1 DEF RemoveAccess, Lands, RemoveAwaits
    <3>2. CASE RemoveCount(p)
      BY <3>2 DEF RemoveCount, Lands, RemoveAwaits
    <3>3. CASE RemoveLeave(p)
      BY <3>3 DEF RemoveLeave, AfterRemoval, Lands, RemoveAwaits
    <3>4. CASE RemoveDrop(p)
      BY <3>4 DEF RemoveDrop, AfterRemoval, Lands, RemoveAwaits
    <3>5. CASE RemoveForget(p)
      BY <3>5 DEF RemoveForget, Lands, RemoveAwaits
    <3>6. CASE RemoveSuccessor(p)
      BY <3>6 DEF RemoveSuccessor, Lands, RemoveAwaits
    <3>7. CASE RemovePromote(p)
      BY <3>7 DEF RemovePromote, Lands, RemoveAwaits
    <3>8. CASE Removed(p)
      BY <3>8 DEF Removed, Lands, RemoveAwaits
    <3> QED BY <1>2, <3>1, <3>2, <3>3, <3>4, <3>5, <3>6, <3>7, <3>8
  <2> QED BY <2>1, GoneOn DEF Endpoints
<1>3. CASE MergeMay(p) \/ MergeCommit(p)
  <2>1. /\ Place(p) \in MergeAwaits /\ Place(p)' \in MergeAwaits \cup {"idle"}
        /\ Lands(p)
    <3>1. CASE MergeMay(p)
      BY <3>1 DEF MergeMay, Lands, MergeAwaits
    <3>2. CASE MergeCommit(p)
      BY <3>2 DEF MergeCommit, Lands, MergeAwaits
    <3> QED BY <1>3, <3>1, <3>2
  <2> QED BY <2>1, GoneOn DEF Endpoints
<1>4. CASE JoinLook(p) \/ JoinClaim(p) \/ JoinSeat(p) \/ JoinConnect(p)
  <2>1. /\ Place(p) \in JoinAwaits /\ Place(p)' \in JoinAwaits \cup {"idle"}
        /\ Lands(p)
    <3>1. CASE JoinLook(p)
      BY <3>1 DEF JoinLook, Lands, JoinAwaits
    <3>2. CASE JoinClaim(p)
      BY <3>2 DEF JoinClaim, Lands, JoinAwaits
    <3>3. CASE JoinSeat(p)
      BY <3>3 DEF JoinSeat, Lands, JoinAwaits
    <3>4. CASE JoinConnect(p)
      BY <3>4 DEF JoinConnect, Lands, JoinAwaits
    <3> QED BY <1>4, <3>1, <3>2, <3>3, <3>4
  <2> QED BY <2>1, GoneOn DEF Endpoints
<1>5. CASE AddAccess(p) \/ AddSeat(p) \/ AddGhostAccess(p) \/ AddGhostSeat(p)
  <2>1. /\ Place(p) \in AddAwaits /\ Place(p)' \in AddAwaits \cup {"idle"}
        /\ Lands(p)
    <3>1. CASE AddAccess(p)
      BY <3>1 DEF AddAccess, Lands, AddAwaits
    <3>2. CASE AddSeat(p)
      BY <3>2 DEF AddSeat, Lands, AddAwaits
    <3>3. CASE AddGhostAccess(p)
      BY <3>3 DEF AddGhostAccess, Lands, AddAwaits
    <3>4. CASE AddGhostSeat(p)
      BY <3>4 DEF AddGhostSeat, Lands, AddAwaits
    <3> QED BY <1>5, <3>1, <3>2, <3>3, <3>4
  <2> QED BY <2>1, GoneOn DEF Endpoints
<1> QED BY <1>1, <1>2, <1>3, <1>4, <1>5 DEF MemberSteps

LEMMA EndingLands ==
    ASSUME ControlOK, NEW p \in Procs, EndingSteps(p)
    PROVE  Lands(p) /\ GoesOnIn(p)
<1> USE GoneTo DEF SheetAwaits, Carrying
<1>1. CASE BefriendLook(p) \/ BefriendShare(p) \/ CodeLook(p) \/ BefriendWrite(p) \/
            UnfriendShared(p) \/ UnfriendWrite(p)
  <2>1. /\ Place(p) \in FriendAwaits /\ Place(p)' \in FriendAwaits \cup {"idle"}
        /\ Lands(p)
    <3>1. CASE BefriendLook(p)
      BY <3>1 DEF BefriendLook, Lands, FriendAwaits
    <3>2. CASE BefriendShare(p)
      BY <3>2 DEF BefriendShare, Lands, FriendAwaits
    <3>3. CASE CodeLook(p)
      BY <3>3 DEF CodeLook, Lands, FriendAwaits
    <3>4. CASE BefriendWrite(p)
      BY <3>4 DEF BefriendWrite, Lands, FriendAwaits
    <3>5. CASE UnfriendShared(p)
      BY <3>5 DEF UnfriendShared, Lands, FriendAwaits
    <3>6. CASE UnfriendWrite(p)
      BY <3>6 DEF UnfriendWrite, Lands, FriendAwaits
    <3> QED BY <1>1, <3>1, <3>2, <3>3, <3>4, <3>5, <3>6
  <2> QED BY <2>1, GoneOn DEF Endpoints
<1>2. CASE DisbandAccess(p) \/ DisbandWrite(p)
  <2>1. /\ Place(p) \in DisbandAwaits /\ Place(p)' \in DisbandAwaits \cup {"idle"}
        /\ Lands(p)
    <3>1. CASE DisbandAccess(p)
      BY <3>1 DEF DisbandAccess, Lands, DisbandAwaits
    <3>2. CASE DisbandWrite(p)
      BY <3>2 DEF DisbandWrite, Lands, DisbandAwaits
    <3> QED BY <1>2, <3>1, <3>2
  <2> QED BY <2>1, GoneOn DEF Endpoints
<1>3. CASE CloseRead(p) \/ CloseCheck(p) \/ CloseOwned(p) \/ CloseWrite(p)
  <2>1. /\ Place(p) \in CloseAwaits /\ Place(p)' \in CloseAwaits \cup {"idle"}
        /\ Lands(p)
    <3>1. CASE CloseRead(p)
      BY <3>1 DEF CloseRead, Lands, CloseAwaits
    <3>2. CASE CloseCheck(p)
      BY <3>2 DEF CloseCheck, Lands, CloseAwaits
    <3>3. CASE CloseOwned(p)
      BY <3>3 DEF CloseOwned, Lands, CloseAwaits
    <3>4. CASE CloseWrite(p)
      BY <3>4 DEF CloseWrite, Lands, CloseAwaits
    <3> QED BY <1>3, <3>1, <3>2, <3>3, <3>4
  <2> QED BY <2>1, GoneOn DEF Endpoints
<1> QED BY <1>1, <1>2, <1>3 DEF EndingSteps

LEMMA SheetSteps ==
    ASSUME ControlOK, NEW p \in Procs, Reads(p)
    PROVE  /\ Place(p)' = Place(p) /\ UNCHANGED <<circle, rows, announced, req, seen, on, waits>>
           /\ \A q \in Procs \ {p} : Place(q)' = Place(q) /\ reading'[q] = reading[q]
           /\ reading'[p].groups = reading[p].groups
<1>1. /\ pc[p] \in SheetAwaits /\ reading[p] \in Readings
      /\ reading[p].then \in Awaits \ SheetAwaits
  BY DEF Reads, SheetVersions, SheetExpenses, SheetPayments, SheetAwaits, ControlOK, Readings
<1>2. \E label, r : /\ To(p, label) /\ reading' = [reading EXCEPT ![p] = r]
                    /\ r.then = reading[p].then /\ r.groups = reading[p].groups
                    /\ label \in SheetAwaits \/ label = reading[p].then
  <2>1. CASE SheetVersions(p)
    BY <1>1, <2>1 DEF SheetVersions, SheetAwaits, Readings
  <2>2. CASE SheetExpenses(p)
    BY <1>1, <2>2 DEF SheetExpenses, SheetAwaits, Readings, ControlOK
  <2>3. CASE SheetPayments(p)
    BY <1>1, <2>3 DEF SheetPayments, SheetAwaits, Readings, ControlOK
  <2> QED BY <2>1, <2>2, <2>3 DEF Reads
<1>3. UNCHANGED <<circle, rows, announced, req, seen, on, waits>>
  BY DEF Reads, SheetVersions, SheetExpenses, SheetPayments, rows, circle
<1>4. /\ \A q \in Procs : Place(q)' = Place(q)
      /\ \A q \in Procs \ {p} : reading'[q] = reading[q]
      /\ reading'[p].groups = reading[p].groups
  BY <1>1, <1>2 DEF To, Place, ControlOK
<1> QED BY <1>3, <1>4

\* Where a step of a handler takes it, and that it answers the same request.
LEMMA HandleLands ==
    ASSUME Before, NEW p \in Procs, Handle(p)
    PROVE  /\ Lands(p) \/ Reads(p)
           /\ GoesOnIn(p)
           /\ Place(p)' = "idle" \/ req'[p] = req[p]
           /\ \A q \in Procs \ {p} : Rests(q)
<1>1. ControlOK /\ Moves(p)
  BY HandleMoves DEF Before, TypeOK
<1>2. Place(p)' = "idle" \/ req'[p] = req[p]
  BY <1>1, GoneTo DEF Moves, GoesOn, Queues, Enqueue, SheetAwaits
<1>3. GoesOnIn(p) /\ (Lands(p) \/ Reads(p))
  <2>1. CASE Reads(p)
    BY <1>1, <2>1, SheetSteps DEF GoesOnIn
  <2> QED BY <1>1, <2>1, ExpenseLands, PaymentLands, MemberLands, EndingLands DEF Handle, Reads
<1> QED BY <1>1, <1>2, <1>3 DEF Moves

\* Every step, as the handlers' places go.
LEMMA PlacesGo ==
    ASSUME IInv, [Next]_vars
    PROVE  \/ \A q \in Procs : Place(q)' = "idle"
           \/ \A q \in Procs : Rests(q)
           \/ \E p \in Procs : /\ Handle(p) /\ GoesOnIn(p) /\ (Lands(p) \/ Reads(p))
                               /\ Place(p)' = "idle" \/ req'[p] = req[p]
                               /\ \A q \in Procs \ {p} : Rests(q)
           \/ \E p \in Procs : /\ Arrive(p) /\ \A q \in Procs \ {p} : Rests(q)
                               /\ \E r \in Arrivals : /\ req'[p] = r /\ r.op \in Ops
                                                      /\ Place(p)' = r.op /\ pc'[p] = r.op
<1>1. Before /\ ControlOK
  BY DEF IInv, Before, TypeOK
<1>2. CASE Restart
  BY <1>2 DEF Restart, Place, SheetAwaits
<1>3. CASE UNCHANGED vars
  BY <1>3 DEF vars, Rests, Place
<1>4. ASSUME NEW p \in Procs, Handle(p)
      PROVE  /\ GoesOnIn(p) /\ (Lands(p) \/ Reads(p))
             /\ Place(p)' = "idle" \/ req'[p] = req[p]
             /\ \A q \in Procs \ {p} : Rests(q)
  BY <1>1, <1>4, HandleLands
<1>5. ASSUME NEW p \in Procs, Arrive(p)
      PROVE  /\ \A q \in Procs \ {p} : Rests(q)
             /\ \E r \in Arrivals : /\ req'[p] = r /\ r.op \in Ops
                                    /\ Place(p)' = r.op /\ pc'[p] = r.op
  <2>1. PICK r \in Arrivals : /\ req' = [req EXCEPT ![p] = r] /\ pc' = [pc EXCEPT ![p] = r.op]
                              /\ r.op \in Ops
    BY <1>5 DEF Arrive
  <2>2. r.op \notin SheetAwaits
    BY DEF Arrivals, ExpenseArrivals, PaymentArrivals, PaymentRequests, MemberArrivals,
       MemberRequests, EndingArrivals, EndingRequests, SheetAwaits
  <2>3. req'[p] = r /\ pc'[p] = r.op
    BY <1>1, <2>1 DEF ControlOK
  <2> QED BY <1>1, <1>5, <2>1, <2>2, <2>3, Knocks DEF Place
<1> QED BY <1>2, <1>3, <1>4, <1>5, StepIs

LEMMA OpsAsked ==
    ASSUME NEW r \in Arrivals, r.op \in Ops
    PROVE  /\ r.op \in RemoveAwaits => "remove" \in Ops
           /\ r.op \in RedoAwaits => "restorePayment" \in Ops
           /\ r.op \in MergeAwaits => "merge" \in Ops
           /\ r.op \in JoinAwaits => "join" \in Ops
           /\ r.op \in BatchAwaits => PersonOf[r.session] # BatchDraft[r.id].other
<1>1. CASE r \in ExpenseArrivals
  BY <1>1 DEF ExpenseArrivals, RemoveAwaits, RedoAwaits, MergeAwaits, JoinAwaits, BatchAwaits
<1>2. CASE r \in PaymentArrivals
  BY <1>2 DEF PaymentArrivals, PaymentRequests, RemoveAwaits, RedoAwaits, MergeAwaits, JoinAwaits,
     BatchAwaits
<1>3. CASE r \in MemberArrivals
  BY <1>3 DEF MemberArrivals, MemberRequests, RemoveAwaits, RedoAwaits, MergeAwaits, JoinAwaits,
     BatchAwaits
<1>4. CASE r \in EndingArrivals
  BY <1>4 DEF EndingArrivals, EndingRequests, RemoveAwaits, RedoAwaits, MergeAwaits, JoinAwaits,
     BatchAwaits
<1> QED BY <1>1, <1>2, <1>3, <1>4 DEF Arrivals

LEMMA AskedStays == IInv /\ Asked /\ [Next]_vars => Asked'
<1> SUFFICES ASSUME IInv, Asked, [Next]_vars PROVE Asked'
  OBVIOUS
<1> DEFINE A(at, r) == /\ at \in RemoveAwaits => "remove" \in Ops
                       /\ at \in RedoAwaits => "restorePayment" \in Ops
                       /\ at \in MergeAwaits => "merge" \in Ops
                       /\ at \in JoinAwaits => "join" \in Ops
                       /\ at \in BatchAwaits => PersonOf[r.session] # BatchDraft[r.id].other
<1>1. \A q \in Procs : A(Place(q), req[q])
  BY DEF Asked, Me
<1>2. SUFFICES \A q \in Procs : A(Place(q)', req'[q])
  BY DEF Asked, Me
<1>3. \A r : A("idle", r)
  BY DEF RemoveAwaits, RedoAwaits, MergeAwaits, JoinAwaits, BatchAwaits
<1>4. ASSUME NEW p \in Procs, GoesOnIn(p), Place(p)' = "idle" \/ req'[p] = req[p]
      PROVE  A(Place(p)', req'[p])
  <2>1. CASE Place(p)' = "idle"
    BY <1>3, <2>1
  <2>2. CASE Place(p)' # "idle"
    <3>1. \A E \in {RemoveAwaits, RedoAwaits, MergeAwaits, JoinAwaits, BatchAwaits} :
              Place(p)' \in E => Place(p) \in E
      BY <1>4, <2>2 DEF GoesOnIn, Endpoints
    <3> QED BY <1>1, <1>4, <2>2, <3>1
  <2> QED BY <2>1, <2>2
<1>5. \A q \in Procs : Rests(q) => A(Place(q)', req'[q])
  BY <1>1 DEF Rests
<1>6. \A r \in Arrivals : r.op \in Ops => A(r.op, r)
  BY OpsAsked
<1> HIDE DEF A
<1> QED BY <1>3, <1>4, <1>5, <1>6, PlacesGo

-----------------------------------------------------------------------------
(* What a handler remembers.                                               *)

\* What p remembers of the direct ledger is nothing, what it remembered, or what
\* the ledger is.
Recalls(p, what) == what.direct \in {EmptySheet, seen[p].direct, Sheet(NoGroup)}

\* A step of p outside the reading of sheets.
Remembers(p) ==
    \/ Finish(p)
    \/ \E key, label : Enqueue(p, key, label)
    \/ \E label, what : Go(p, label, what) /\ Recalls(p, what)
    \/ \E gs, label, what : ReadSheets(p, gs, label, what) /\ Recalls(p, what)

LEMMA NothingSeen ==
    /\ \A p : Recalls(p, Nothing) /\ Recalls(p, seen[p])
    /\ \A p, x : Recalls(p, [Nothing EXCEPT !.rows = x])
    /\ \A p, x : Recalls(p, [Nothing EXCEPT !.people = x])
    /\ \A p, x : Recalls(p, [Nothing EXCEPT !.seats = x])
    /\ \A p, x : Recalls(p, [Nothing EXCEPT !.version = x])
    /\ \A p : Recalls(p, [Nothing EXCEPT !.direct = Sheet(NoGroup)])
    /\ \A p, x, y : Recalls(p, [Nothing EXCEPT !.rows = x, !.seats = y])
BY DEF Recalls, Nothing

LEMMA SeenWith ==
    ASSUME ControlOK, NEW p \in Procs, NEW x
    PROVE  Recalls(p, [seen[p] EXCEPT !.people = x])
<1>1. seen[p] \in Sightings
  BY DEF ControlOK
<1> QED BY <1>1 DEF Recalls, Sightings

LEMMA ExpenseRemembers ==
    ASSUME ControlOK, NEW p \in Procs, ExpenseSteps(p)
    PROVE  Remembers(p)
<1> USE NothingSeen, SeenWith DEF Remembers, Leave
<1>1. CASE CreateAccess(p)
  BY <1>1 DEF CreateAccess
<1>2. CASE CreateInvolve(p)
  BY <1>2 DEF CreateInvolve
<1>3. CASE CreateCommit(p)
  BY <1>3 DEF CreateCommit, Replay
<1>4. CASE CreateAnnounce(p)
  BY <1>4 DEF CreateAnnounce, Announce
<1>5. CASE EditLoad(p)
  BY <1>5 DEF EditLoad
<1>6. CASE EditInvolve(p)
  BY <1>6 DEF EditInvolve
<1>7. CASE EditCheck(p)
  BY <1>7 DEF EditCheck
<1>8. CASE EditCommit(p)
  BY <1>8 DEF EditCommit
<1>9. CASE DeleteLoad(p)
  BY <1>9 DEF DeleteLoad
<1>10. CASE DeleteCommit(p)
  BY <1>10 DEF DeleteCommit
<1>11. CASE RestoreLoad(p)
  BY <1>11 DEF RestoreLoad
<1>12. CASE RestoreMembers(p)
  BY <1>12 DEF RestoreMembers
<1>13. CASE RestoreCommit(p)
  BY <1>13 DEF RestoreCommit
<1> QED BY <1>1, <1>2, <1>3, <1>4, <1>5, <1>6, <1>7, <1>8, <1>9, <1>10, <1>11, <1>12, <1>13 DEF ExpenseSteps

LEMMA PaymentRemembers ==
    ASSUME ControlOK, NEW p \in Procs, PaymentSteps(p)
    PROVE  Remembers(p)
<1> USE NothingSeen, SeenWith DEF Remembers, Leave
<1>1. CASE PayReplay(p)
  BY <1>1 DEF PayReplay
<1>2. CASE PayMembers(p)
  BY <1>2 DEF PayMembers
<1>3. CASE PayTurn(p)
  BY <1>3 DEF PayTurn
<1>4. CASE PayCommit(p)
  BY <1>4 DEF PayCommit
<1>5. CASE PayAnnounce(p)
  BY <1>5 DEF PayAnnounce, Announce
<1>6. CASE BatchStart(p)
  BY <1>6 DEF BatchStart
<1>7. CASE BatchTurn(p)
  BY <1>7 DEF BatchTurn
<1>8. CASE BatchShared(p)
  BY <1>8 DEF BatchShared
<1>9. CASE BatchCommit(p)
  BY <1>9 DEF BatchCommit
<1>10. CASE BatchAnnounce(p)
  BY <1>10 DEF BatchAnnounce, Announce
<1>11. CASE UndoLoad(p)
  BY <1>11 DEF UndoLoad
<1>12. CASE UndoSiblings(p)
  BY <1>12 DEF UndoSiblings
<1>13. CASE UndoCommit(p)
  BY <1>13 DEF UndoCommit
<1>14. CASE RedoLoad(p)
  BY <1>14 DEF RedoLoad
<1>15. CASE RedoSiblings(p)
  BY <1>15 DEF RedoSiblings
<1>16. CASE RedoMembers(p)
  BY <1>16 DEF RedoMembers
<1>17. CASE RedoCommit(p)
  BY <1>17 DEF RedoCommit
<1> QED BY <1>1, <1>2, <1>3, <1>4, <1>5, <1>6, <1>7, <1>8, <1>9, <1>10, <1>11, <1>12, <1>13, <1>14, <1>15, <1>16, <1>17 DEF PaymentSteps

LEMMA MemberRemembers ==
    ASSUME ControlOK, NEW p \in Procs, MemberSteps(p)
    PROVE  Remembers(p)
<1> USE NothingSeen, SeenWith DEF Remembers, Leave
<1>1. CASE Look(p)
  BY <1>1 DEF Look
<1>2. CASE Looked(p)
  BY <1>2 DEF Looked
<1>3. CASE RemoveAccess(p)
  BY <1>3 DEF RemoveAccess
<1>4. CASE RemoveCount(p)
  BY <1>4 DEF RemoveCount
<1>5. CASE RemoveLeave(p)
  BY <1>5 DEF RemoveLeave, AfterRemoval
<1>6. CASE RemoveDrop(p)
  BY <1>6 DEF RemoveDrop, AfterRemoval
<1>7. CASE RemoveForget(p)
  BY <1>7 DEF RemoveForget
<1>8. CASE RemoveSuccessor(p)
  BY <1>8 DEF RemoveSuccessor
<1>9. CASE RemovePromote(p)
  BY <1>9 DEF RemovePromote
<1>10. CASE Removed(p)
  BY <1>10 DEF Removed
<1>11. CASE MergeMay(p)
  BY <1>11 DEF MergeMay
<1>12. CASE MergeCommit(p)
  BY <1>12 DEF MergeCommit
<1>13. CASE JoinLook(p)
  BY <1>13 DEF JoinLook
<1>14. CASE JoinClaim(p)
  BY <1>14 DEF JoinClaim
<1>15. CASE JoinSeat(p)
  BY <1>15 DEF JoinSeat
<1>16. CASE JoinConnect(p)
  BY <1>16 DEF JoinConnect
<1>17. CASE AddAccess(p)
  BY <1>17 DEF AddAccess
<1>18. CASE AddSeat(p)
  BY <1>18 DEF AddSeat
<1>19. CASE AddGhostAccess(p)
  BY <1>19 DEF AddGhostAccess
<1>20. CASE AddGhostSeat(p)
  BY <1>20 DEF AddGhostSeat
<1> QED BY <1>1, <1>2, <1>3, <1>4, <1>5, <1>6, <1>7, <1>8, <1>9, <1>10, <1>11, <1>12, <1>13, <1>14, <1>15, <1>16, <1>17, <1>18, <1>19, <1>20 DEF MemberSteps

LEMMA EndingRemembers ==
    ASSUME ControlOK, NEW p \in Procs, EndingSteps(p)
    PROVE  Remembers(p)
<1> USE NothingSeen, SeenWith DEF Remembers, Leave
<1>1. CASE BefriendLook(p)
  BY <1>1 DEF BefriendLook
<1>2. CASE BefriendShare(p)
  BY <1>2 DEF BefriendShare
<1>3. CASE CodeLook(p)
  BY <1>3 DEF CodeLook
<1>4. CASE BefriendWrite(p)
  BY <1>4 DEF BefriendWrite
<1>5. CASE UnfriendShared(p)
  BY <1>5 DEF UnfriendShared
<1>6. CASE UnfriendWrite(p)
  BY <1>6 DEF UnfriendWrite
<1>7. CASE DisbandAccess(p)
  BY <1>7 DEF DisbandAccess
<1>8. CASE DisbandWrite(p)
  BY <1>8 DEF DisbandWrite
<1>9. CASE CloseRead(p)
  BY <1>9 DEF CloseRead
<1>10. CASE CloseCheck(p)
  BY <1>10 DEF CloseCheck
<1>11. CASE CloseOwned(p)
  BY <1>11 DEF CloseOwned
<1>12. CASE CloseWrite(p)
  BY <1>12 DEF CloseWrite
<1> QED BY <1>1, <1>2, <1>3, <1>4, <1>5, <1>6, <1>7, <1>8, <1>9, <1>10, <1>11, <1>12 DEF EndingSteps

\* What is named after the elements of a finite set is finite.
LEMMA ImageFinite ==
    ASSUME NEW S, IsFiniteSet(S), NEW f, DOMAIN f = S
    PROVE  IsFiniteSet({f[x] : x \in S})
<1> DEFINE T == {f[x] : x \in S}
           h == [x \in S |-> f[x]]
<1>1. h \in Surjection(S, T)
  BY DEF Surjection
<1> QED BY <1>1, FS_Surjection

LEMMA SheetsFinite ==
    ASSUME NEW l
    PROVE  /\ IsFiniteSet(ExpensesOf(l)) /\ IsFiniteSet(PaymentsOf(l))
           /\ Finite(Sheet(l)) /\ Finite(EmptySheet)
<1> DEFINE f == [e \in LiveExpenses(l) |-> [id |-> e, bill |-> expenses[e].bill]]
           h == [s \in LivePayments(l) |->
                   [id |-> s, from |-> payments[s].from, to |-> payments[s].to,
                    amount |-> payments[s].amount]]
<1>1. IsFiniteSet(LiveExpenses(l)) /\ IsFiniteSet(LivePayments(l))
  BY LedgerAssumption, FS_Subset DEF LiveExpenses, LivePayments
<1>2. ExpensesOf(l) = {f[e] : e \in LiveExpenses(l)}
  BY DEF ExpensesOf
<1>3. PaymentsOf(l) = {h[s] : s \in LivePayments(l)}
  BY DEF PaymentsOf
<1>4. IsFiniteSet({f[e] : e \in LiveExpenses(l)}) /\ IsFiniteSet({h[s] : s \in LivePayments(l)})
  BY <1>1, ImageFinite
<1> QED BY <1>2, <1>3, <1>4, FS_EmptySet DEF Sheet, EmptySheet, Finite

\* One handler's part of SheetsHeld.
Holds(see, read) ==
    /\ Finite(see.direct)
    /\ read.stale \subseteq read.groups
    /\ \A g \in Groups : /\ Finite(read.sheet[g])
                         /\ IsFiniteSet(read.expenses[g])
                         /\ g \notin read.groups => read.sheet[g] = EmptySheet

LEMMA HoldsNothing ==
    /\ Finite(Nothing.direct)
    /\ \A gs, label, see : Finite(see.direct) =>
          Holds(see, [NotReading EXCEPT !.groups = gs, !.then = label])
    /\ Holds(Nothing, NotReading)
BY SheetsFinite, FS_EmptySet DEF Holds, Nothing, NotReading

LEMMA RemembersHolds ==
    ASSUME ControlOK, NEW p \in Procs, Remembers(p), \A q \in Procs : Holds(seen[q], reading[q])
    PROVE  \A q \in Procs : Holds(seen'[q], reading'[q])
<1>1. Finite(seen[p].direct)
  BY DEF Holds
<1>2. CASE Finish(p)
  <2>1. /\ seen'[p] = Nothing /\ reading'[p] = NotReading
        /\ \A q \in Procs \ {p} : seen'[q] = seen[q] /\ reading'[q] = reading[q]
    BY <1>2 DEF Finish, ControlOK
  <2> QED BY <2>1, HoldsNothing
<1>3. CASE \E key, label : Enqueue(p, key, label)
  BY <1>3 DEF Enqueue
<1>4. CASE \E label, what : Go(p, label, what) /\ Recalls(p, what)
  <2>1. PICK label, what : Go(p, label, what) /\ Recalls(p, what)
    BY <1>4
  <2>2. Finite(what.direct)
    BY <1>1, <2>1, SheetsFinite DEF Recalls
  <2>3. seen'[p] = what /\ \A q \in Procs \ {p} : seen'[q] = seen[q]
    BY <2>1 DEF Go, ControlOK
  <2> QED BY <2>1, <2>2, <2>3 DEF Holds, Go
<1>5. CASE \E gs, label, what : ReadSheets(p, gs, label, what) /\ Recalls(p, what)
  <2>1. PICK gs, label, what : ReadSheets(p, gs, label, what) /\ Recalls(p, what)
    BY <1>5
  <2>2. Finite(what.direct)
    BY <1>1, <2>1, SheetsFinite DEF Recalls
  <2> DEFINE read == [NotReading EXCEPT !.groups = gs, !.then = label]
  <2>3. seen' = [seen EXCEPT ![p] = what] /\ reading' = [reading EXCEPT ![p] = read]
    BY <2>1 DEF ReadSheets
  <2>4. Holds(what, read)
    BY <2>2, HoldsNothing
  <2> HIDE DEF read
  <2> QED BY <2>3, <2>4 DEF ControlOK
<1> QED BY <1>2, <1>3, <1>4, <1>5 DEF Remembers

CacheFinite == \A g \in Groups : cache[g] # NoSheet => Finite(cache[g].sheet)

LEMMA ReadsHolds ==
    ASSUME TypeOK, NEW p \in Procs, Reads(p), CacheFinite,
           \A q \in Procs : Holds(seen[q], reading[q])
    PROVE  CacheFinite' /\ \A q \in Procs : Holds(seen'[q], reading'[q])
<1>0. ControlOK /\ reading[p] \in Readings
  BY DEF TypeOK, ControlOK
<1>1. seen' = seen /\ \A q \in Procs \ {p} : reading'[q] = reading[q]
  BY <1>0, SheetSteps
<1>2. SUFFICES CacheFinite' /\ Holds(seen[p], reading'[p])
  BY <1>1
<1>3. CASE SheetVersions(p)
  <2> DEFINE r == reading[p]
             hits == {g \in r.groups : Stands(g) /\ Hit(g)}
             stale == {g \in r.groups : Stands(g)} \ hits
  <2>1. /\ cache' = cache
        /\ reading'[p] = [r EXCEPT !.version = ledgerVersion, !.stale = stale,
                             !.sheet = [g \in Groups |-> IF g \in hits THEN cache[g].sheet
                                                         ELSE EmptySheet]]
    BY <1>0, <1>3 DEF SheetVersions, ControlOK
  <2>2. \A g \in hits : g \in r.groups /\ cache[g] # NoSheet
    BY DEF Hit
  <2>3. /\ reading'[p].groups = r.groups /\ reading'[p].stale = stale
        /\ reading'[p].expenses = r.expenses
        /\ \A g \in Groups : reading'[p].sheet[g] = IF g \in hits THEN cache[g].sheet
                                                    ELSE EmptySheet
    BY <1>0, <2>1 DEF Readings
  <2>4. stale \subseteq r.groups
    OBVIOUS
  <2> HIDE DEF hits, stale
  <2> QED BY <2>1, <2>2, <2>3, <2>4, SheetsFinite DEF Holds, CacheFinite
<1>4. CASE SheetExpenses(p)
  <2>1. /\ cache' = cache
        /\ reading'[p] = [reading[p] EXCEPT !.expenses =
              [g \in Groups |-> IF g \in reading[p].stale THEN ExpensesOf(g) ELSE {}]]
    BY <1>0, <1>4 DEF SheetExpenses, ControlOK
  <2>2. /\ reading'[p].groups = reading[p].groups /\ reading'[p].stale = reading[p].stale
        /\ reading'[p].sheet = reading[p].sheet
        /\ \A g \in Groups : reading'[p].expenses[g] = IF g \in reading[p].stale
                                                       THEN ExpensesOf(g) ELSE {}
    BY <1>0, <2>1 DEF Readings
  <2> QED BY <2>1, <2>2, SheetsFinite, FS_EmptySet DEF Holds, CacheFinite
<1>5. CASE SheetPayments(p)
  <2> DEFINE r == reading[p]
             fresh(g) == [expenses |-> r.expenses[g], payments |-> PaymentsOf(g)]
  <2>1. \A g \in Groups : Finite(fresh(g))
    BY SheetsFinite DEF Finite, Holds
  <2>2. reading'[p] = [r EXCEPT !.sheet =
                         [g \in Groups |-> IF g \in r.stale THEN fresh(g) ELSE r.sheet[g]]]
    BY <1>0, <1>5 DEF SheetPayments, ControlOK
  <2>3. /\ reading'[p].groups = r.groups /\ reading'[p].stale = r.stale
        /\ reading'[p].expenses = r.expenses
        /\ \A g \in Groups : reading'[p].sheet[g] = IF g \in r.stale THEN fresh(g)
                                                    ELSE r.sheet[g]
    BY <1>0, <2>2 DEF Readings
  <2>4. PICK kept : cache' = [g \in Groups |->
                       IF g \notin kept THEN NoSheet
                       ELSE IF g \in r.stale THEN [version |-> StampedAt(r, g), sheet |-> fresh(g)]
                       ELSE cache[g]]
    BY <1>5 DEF SheetPayments
  <2> HIDE DEF fresh
  <2>5. CacheFinite'
    BY <2>1, <2>4 DEF CacheFinite
  <2> QED BY <2>1, <2>3, <2>5 DEF Holds
<1> QED BY <1>3, <1>4, <1>5 DEF Reads

LEMMA SheetsStay == IInv /\ SheetsHeld /\ [Next]_vars => SheetsHeld'
<1> SUFFICES ASSUME IInv, SheetsHeld, [Next]_vars PROVE SheetsHeld'
  OBVIOUS
<1>0. Before /\ ControlOK /\ TypeOK
  BY DEF IInv, Before, TypeOK
<1>1. CacheFinite /\ \A q \in Procs : Holds(seen[q], reading[q])
  BY DEF SheetsHeld, CacheFinite, Holds
<1>2. SUFFICES CacheFinite' /\ \A q \in Procs : Holds(seen'[q], reading'[q])
  BY DEF SheetsHeld, CacheFinite, Holds
<1>3. CASE Restart
  BY <1>3, HoldsNothing DEF Restart, CacheFinite
<1>4. CASE UNCHANGED vars \/ \E p \in Procs : Arrive(p)
  BY <1>1, <1>4 DEF vars, Arrive, CacheFinite, Holds
<1>5. ASSUME NEW p \in Procs, Reads(p)
      PROVE  CacheFinite' /\ \A q \in Procs : Holds(seen'[q], reading'[q])
  BY <1>0, <1>1, <1>5, ReadsHolds
<1>6. ASSUME NEW p \in Procs,
             ExpenseSteps(p) \/ PaymentSteps(p) \/ MemberSteps(p) \/ EndingSteps(p)
      PROVE  CacheFinite' /\ \A q \in Procs : Holds(seen'[q], reading'[q])
  <2>1. cache' = cache
    BY <1>0, <1>6, ExpenseStep, PaymentStep, MemberStep, EndingStep DEF After, Quiet
  <2>2. Remembers(p)
    BY <1>0, <1>6, ExpenseRemembers, PaymentRemembers, MemberRemembers, EndingRemembers
  <2> QED BY <1>0, <1>1, <2>1, <2>2, RemembersHolds DEF CacheFinite
<1> QED BY <1>3, <1>4, <1>5, <1>6, StepIs DEF Handle, Reads

-----------------------------------------------------------------------------
(* Who is where: the steps that change it.                                 *)

Reseats(p) ==
    \/ RestoreCommit(p) \/ RedoCommit(p) \/ RemoveLeave(p) \/ RemoveDrop(p) \/ MergeCommit(p)
    \/ JoinClaim(p) \/ JoinSeat(p) \/ AddSeat(p) \/ AddGhostSeat(p) \/ CloseWrite(p)
Befriends(p) ==
    \/ BefriendWrite(p) \/ UnfriendWrite(p) \/ JoinConnect(p) \/ RemoveForget(p)
    \/ MergeCommit(p) \/ JoinClaim(p) \/ CloseWrite(p)

Circles(p) ==
    /\ UNCHANGED member \/ Reseats(p)
    /\ UNCHANGED friends \/ Befriends(p)
    /\ UNCHANGED disbanded \/ DisbandWrite(p)

LEMMA ExpenseCircles ==
    ASSUME NEW p \in Procs, ExpenseSteps(p)
    PROVE  Circles(p)
<1> USE DEF Circles, Leave, circle
<1>1. CASE RestoreCommit(p)
  BY <1>1 DEF RestoreCommit, Reseats, Befriends
<1>2. CASE CreateAccess(p) \/ CreateInvolve(p) \/ CreateCommit(p) \/ CreateAnnounce(p) \/ EditLoad(p) \/ EditInvolve(p)
  BY <1>2 DEF CreateAccess, CreateInvolve, CreateCommit, CreateAnnounce, EditLoad, EditInvolve, Announce, Replay
<1>3. CASE EditCheck(p) \/ EditCommit(p) \/ DeleteLoad(p) \/ DeleteCommit(p) \/ RestoreLoad(p) \/ RestoreMembers(p)
  BY <1>3 DEF EditCheck, EditCommit, DeleteLoad, DeleteCommit, RestoreLoad, RestoreMembers
<1> QED BY <1>1, <1>2, <1>3 DEF ExpenseSteps

LEMMA PaymentCircles ==
    ASSUME NEW p \in Procs, PaymentSteps(p)
    PROVE  Circles(p)
<1> USE DEF Circles, Leave, circle
<1>1. CASE RedoCommit(p)
  BY <1>1 DEF RedoCommit, Reseats, Befriends
<1>2. CASE PayReplay(p) \/ PayMembers(p) \/ PayTurn(p) \/ PayCommit(p) \/ PayAnnounce(p) \/ BatchStart(p)
  BY <1>2 DEF PayReplay, PayMembers, PayTurn, PayCommit, PayAnnounce, BatchStart, Announce
<1>3. CASE BatchTurn(p) \/ BatchShared(p) \/ BatchCommit(p) \/ BatchAnnounce(p) \/ UndoLoad(p) \/ UndoSiblings(p)
  BY <1>3 DEF BatchTurn, BatchShared, BatchCommit, BatchAnnounce, UndoLoad, UndoSiblings, Announce
<1>4. CASE UndoCommit(p) \/ RedoLoad(p) \/ RedoSiblings(p) \/ RedoMembers(p)
  BY <1>4 DEF UndoCommit, RedoLoad, RedoSiblings, RedoMembers
<1> QED BY <1>1, <1>2, <1>3, <1>4 DEF PaymentSteps

LEMMA MemberCircles ==
    ASSUME NEW p \in Procs, MemberSteps(p)
    PROVE  Circles(p)
<1> USE DEF Circles, Leave, circle
<1>1. CASE RemoveLeave(p)
  BY <1>1 DEF RemoveLeave, Reseats, Befriends
<1>2. CASE RemoveDrop(p)
  BY <1>2 DEF RemoveDrop, Reseats, Befriends
<1>3. CASE RemoveForget(p)
  BY <1>3 DEF RemoveForget, Reseats, Befriends
<1>4. CASE MergeCommit(p)
  BY <1>4 DEF MergeCommit, Reseats, Befriends
<1>5. CASE JoinClaim(p)
  BY <1>5 DEF JoinClaim, Reseats, Befriends
<1>6. CASE JoinSeat(p)
  BY <1>6 DEF JoinSeat, Reseats, Befriends
<1>7. CASE JoinConnect(p)
  BY <1>7 DEF JoinConnect, Reseats, Befriends
<1>8. CASE AddSeat(p)
  BY <1>8 DEF AddSeat, Reseats, Befriends
<1>9. CASE AddGhostSeat(p)
  BY <1>9 DEF AddGhostSeat, Reseats, Befriends
<1>10. CASE Look(p) \/ Looked(p) \/ RemoveAccess(p) \/ RemoveCount(p) \/ RemoveSuccessor(p) \/ RemovePromote(p)
  BY <1>10 DEF Look, Looked, RemoveAccess, RemoveCount, RemoveSuccessor, RemovePromote
<1>11. CASE Removed(p) \/ MergeMay(p) \/ JoinLook(p) \/ AddAccess(p) \/ AddGhostAccess(p)
  BY <1>11 DEF Removed, MergeMay, JoinLook, AddAccess, AddGhostAccess
<1> QED BY <1>1, <1>2, <1>3, <1>4, <1>5, <1>6, <1>7, <1>8, <1>9, <1>10, <1>11 DEF MemberSteps

LEMMA EndingCircles ==
    ASSUME NEW p \in Procs, EndingSteps(p)
    PROVE  Circles(p)
<1> USE DEF Circles, Leave, circle
<1>1. CASE BefriendWrite(p)
  BY <1>1 DEF BefriendWrite, Reseats, Befriends
<1>2. CASE UnfriendWrite(p)
  BY <1>2 DEF UnfriendWrite, Reseats, Befriends
<1>3. CASE DisbandWrite(p)
  BY <1>3 DEF DisbandWrite, Reseats, Befriends
<1>4. CASE CloseWrite(p)
  BY <1>4 DEF CloseWrite, Reseats, Befriends
<1>5. CASE BefriendLook(p) \/ BefriendShare(p) \/ CodeLook(p) \/ UnfriendShared(p) \/ DisbandAccess(p) \/ CloseRead(p)
  BY <1>5 DEF BefriendLook, BefriendShare, CodeLook, UnfriendShared, DisbandAccess, CloseRead
<1>6. CASE CloseCheck(p) \/ CloseOwned(p)
  BY <1>6 DEF CloseCheck, CloseOwned
<1> QED BY <1>1, <1>2, <1>3, <1>4, <1>5, <1>6 DEF EndingSteps
LEMMA HandleCircles ==
    ASSUME NEW p \in Procs, Handle(p)
    PROVE  Circles(p)
<1>1. CASE SheetVersions(p) \/ SheetExpenses(p) \/ SheetPayments(p)
  BY <1>1 DEF SheetVersions, SheetExpenses, SheetPayments, Circles, circle
<1> QED BY <1>1, ExpenseCircles, PaymentCircles, MemberCircles, EndingCircles DEF Handle

-----------------------------------------------------------------------------
(* What becomes of a person, and of a row.                                 *)

\* p folds placeholder `ghost` into `into`.
Takes(p, ghost, into) ==
    /\ \/ MergeCommit(p) /\ ghost = req[p].who /\ into = req[p].into
       \/ JoinClaim(p) /\ ghost = req[p].claim /\ into = Me(p)
    /\ MayAbsorb(ghost, into) /\ Absorb(ghost, into)

\* p deletes placeholder x, who has no seat left.
Forgets(p, x) ==
    /\ RemoveForget(p) /\ x = req[p].who
    /\ people[x] = "ghost" /\ \A g \in Groups : ~Housed(g, x)
    /\ people' = [people EXCEPT ![x] = "gone"]
    /\ expenses' = [e \in ExpenseIds |->
          IF expenses[e] = NoRow THEN NoRow
          ELSE [expenses[e] EXCEPT !.bill = BillWithout(expenses[e].bill, x)]]
    /\ payments' = [s \in PaymentIds |->
          IF payments[s] = NoRow THEN NoRow
          ELSE IF x \in {payments[s].from, payments[s].to} THEN NoRow
          ELSE payments[s]]
    /\ friends' = {f \in friends : x \notin f}
    /\ UNCHANGED <<member, disbanded>>

LEMMA Taking ==
    ASSUME Before, NEW p \in Procs, MergeCommit(p) \/ JoinClaim(p)
    PROVE  \/ \E ghost, into \in People : Takes(p, ghost, into)
           \/ UNCHANGED <<people, member, friends, rows>>
<1>1. /\ MergeCommit(p) => req[p].who \in People /\ req[p].into \in People
      /\ JoinClaim(p) => req[p].claim \in People /\ Me(p) \in People
  <2>1. MergeCommit(p) => req[p].who \in People /\ req[p].into \in People
    BY AtStaged DEF MergeCommit, SheetAwaits, Staged, MemberStage, MergeAwaits
  <2>2. JoinClaim(p) => req[p].claim \in People /\ req[p].session \in Sessions
    BY AtStaged DEF JoinClaim, SheetAwaits, Staged, MemberStage, JoinAwaits, GroupAwaits, MemberAwaits
  <2> QED BY <2>1, <2>2, LedgerAssumption DEF Me
<1>2. CASE MergeCommit(p)
  <2>1. CASE MayAbsorb(req[p].who, req[p].into)
    BY <1>1, <1>2, <2>1 DEF MergeCommit, Takes
  <2>2. CASE ~MayAbsorb(req[p].who, req[p].into)
    BY <1>2, <2>2 DEF MergeCommit
  <2> QED BY <2>1, <2>2
<1>3. CASE JoinClaim(p)
  <2>1. CASE MayAbsorb(req[p].claim, Me(p))
    BY <1>1, <1>3, <2>1 DEF JoinClaim, Takes
  <2>2. CASE ~MayAbsorb(req[p].claim, Me(p))
    BY <1>3, <2>2 DEF JoinClaim, Leave, circle
  <2> QED BY <2>1, <2>2
<1> QED BY <1>2, <1>3

LEMMA Forgetting ==
    ASSUME Before, NEW p \in Procs, RemoveForget(p)
    PROVE  \/ \E x \in People : Forgets(p, x)
           \/ UNCHANGED <<circle, rows>>
<1>1. req[p].who \in People
  BY AtStaged DEF RemoveForget, SheetAwaits, Staged, MemberStage, RemoveAwaits
<1>2. CASE people[req[p].who] = "ghost" /\ \A g \in Groups : ~Housed(g, req[p].who)
  BY <1>1, <1>2 DEF RemoveForget, Forgets
<1>3. CASE ~(people[req[p].who] = "ghost" /\ \A g \in Groups : ~Housed(g, req[p].who))
  BY <1>3 DEF RemoveForget
<1> QED BY <1>2, <1>3

\* Nobody is nobody any longer but a placeholder somebody took over or deleted.
LEMMA ExistStays ==
    ASSUME IInv, WhoIsWho, [Next]_vars, NEW x \in People
    PROVE  /\ people[x] # "unborn" /\ people'[x] # "gone" => people'[x] # "unborn" /\ people[x] # "gone"
           /\ people[x] # "gone" /\ people'[x] = "gone" =>
                 /\ people[x] = "ghost"
                 /\ \E p \in Procs : Forgets(p, x) \/ \E into \in People : Takes(p, x, into)
<1>1. Before /\ people \in [People -> {"unborn", "ghost", "real", "deleted", "gone"}]
  BY DEF IInv, Before, TypeOK, DataOK
<1>2. CASE people' = people
  BY <1>2
<1>3. ASSUME NEW p \in Procs, Renames(p), Handle(p), people' # people
      PROVE  /\ people[x] # "unborn" /\ people'[x] # "gone" => people'[x] # "unborn" /\ people[x] # "gone"
             /\ people[x] # "gone" /\ people'[x] = "gone" =>
                   /\ people[x] = "ghost"
                   /\ Forgets(p, x) \/ \E into \in People : Takes(p, x, into)
  <2>1. CASE RemoveForget(p)
    <3>1. PICK y \in People : Forgets(p, y)
      BY <1>1, <1>3, <2>1, Forgetting DEF circle
    <3>2. \A z \in People : people'[z] = IF z = y THEN "gone" ELSE people[z]
      BY <1>1, <3>1 DEF Forgets
    <3>3. people[y] = "ghost"
      BY <3>1 DEF Forgets
    <3> QED BY <3>1, <3>2, <3>3
  <2>2. CASE MergeCommit(p) \/ JoinClaim(p)
    <3>1. PICK y \in People, into \in People : Takes(p, y, into)
      BY <1>1, <1>3, <2>2, Taking
    <3>2. (\A z \in People : people'[z] = IF z = y THEN "gone" ELSE people[z]) /\ people[y] = "ghost"
      BY <1>1, <3>1 DEF Takes, Absorb, MayAbsorb
    <3> QED BY <3>1, <3>2
  <2>3. CASE AddGhostSeat(p)
    <3>1. people' = [people EXCEPT ![req[p].who] = "ghost"] /\ people[req[p].who] = "unborn"
      BY <1>3, <2>3 DEF AddGhostSeat, Leave, circle, WhoIsWho, Place, SheetAwaits, Seating
    <3>2. \A z \in People : people'[z] = IF z = req[p].who THEN "ghost" ELSE people[z]
      BY <1>1, <3>1
    <3> QED BY <3>1, <3>2
  <2>4. CASE CloseWrite(p)
    <3>1. people' = [people EXCEPT ![Me(p)] = "deleted"] /\ Signed(Me(p))
      BY <1>1, <2>4, SameSigner DEF CloseWrite
    <3>2. \A z \in People : people'[z] = IF z = Me(p) THEN "deleted" ELSE people[z]
      BY <1>1, <3>1
    <3> QED BY <3>1, <3>2 DEF Signed
  <2> QED BY <1>3, <2>1, <2>2, <2>3, <2>4 DEF Renames
<1>4. CASE \E p \in Procs : Handle(p)
  <2>1. PICK p \in Procs : Handle(p)
    BY <1>4
  <2>2. UNCHANGED people \/ Renames(p)
    BY <1>1, <2>1, HandleMoves DEF Moves, Touches
  <2> QED BY <1>2, <1>3, <2>1, <2>2
<1>5. CASE Restart \/ UNCHANGED vars \/ \E p \in Procs : Arrive(p)
  BY <1>2, <1>5 DEF Restart, Arrive, vars, circle
<1> QED BY <1>4, <1>5, StepIs

\* A seat goes with the person whose it was, or to be deleted itself.
LEMMA SeatsStay ==
    ASSUME IInv, WhoIsWho, [Next]_vars, NEW g \in Groups, NEW x \in People, member[g][x] # "none"
    PROVE  \/ member'[g][x] # "none" \/ people'[x] = "gone"
           \/ \E p \in Procs : RemoveDrop(p) /\ g = req[p].group /\ x = req[p].who
<1>1. /\ Before /\ people \in [People -> {"unborn", "ghost", "real", "deleted", "gone"}]
      /\ member \in [Groups -> [People -> {"none", "active", "left"}]]
  BY DEF IInv, Before, TypeOK, DataOK
<1>2. CASE member' = member
  BY <1>2
<1>3. ASSUME NEW p \in Procs, Reseats(p), member' # member
      PROVE  \/ member'[g][x] # "none" \/ people'[x] = "gone"
             \/ RemoveDrop(p) /\ g = req[p].group /\ x = req[p].who
  <2>1. CASE RestoreCommit(p)
    <3>1. member' = [h \in Groups |-> [z \in People |->
             IF h = expenses[req[p].id].group /\ z \in seen[p].people /\ member[h][z] = "left"
             THEN "active" ELSE member[h][z]]]
      BY <1>3, <2>1 DEF RestoreCommit, Leave, circle
    <3> QED BY <1>1, <3>1
  <2>2. CASE RedoCommit(p)
    BY <1>1, <1>3, <2>2 DEF RedoCommit
  <2>3. ASSUME NEW h, NEW y, NEW to, to # "none", member' = SeatIn(h, y, to)
        PROVE  member'[g][x] # "none"
    BY <1>1, <2>3 DEF SeatIn
  <2>4. CASE RemoveLeave(p) \/ JoinSeat(p) \/ AddSeat(p) \/ AddGhostSeat(p)
    BY <1>3, <2>3, <2>4 DEF RemoveLeave, JoinSeat, AddSeat, AddGhostSeat, Leave, circle
  <2>5. CASE RemoveDrop(p)
    <3>1. member' = SeatIn(req[p].group, req[p].who, "none")
      BY <1>3, <2>5 DEF RemoveDrop, Leave, circle
    <3> QED BY <1>1, <2>5, <3>1 DEF SeatIn
  <2>6. CASE MergeCommit(p) \/ JoinClaim(p)
    <3>1. PICK ghost \in People, into \in People : Takes(p, ghost, into)
      BY <1>1, <1>3, <2>6, Taking
    <3>2. /\ people' = [people EXCEPT ![ghost] = "gone"]
          /\ member' = [h \in Groups |-> [z \in People |->
               IF z = ghost THEN "none"
               ELSE IF z = into /\ h \in {i \in Groups : Housed(i, ghost)} /\ member[h][z] # "active"
                    THEN member[h][ghost] ELSE member[h][z]]]
      BY <3>1 DEF Takes, Absorb
    <3> QED BY <1>1, <3>2 DEF Housed
  <2>7. CASE CloseWrite(p)
    BY <1>1, <2>7 DEF CloseWrite
  <2> QED BY <1>3, <2>1, <2>2, <2>4, <2>5, <2>6, <2>7 DEF Reseats
<1>4. CASE \E p \in Procs : Handle(p)
  <2>1. PICK p \in Procs : Handle(p)
    BY <1>4
  <2>2. UNCHANGED member \/ Reseats(p)
    BY <2>1, HandleCircles DEF Circles
  <2> QED BY <1>2, <1>3, <2>2
<1>5. CASE Restart \/ UNCHANGED vars \/ \E p \in Procs : Arrive(p)
  BY <1>2, <1>5 DEF Restart, Arrive, vars, circle
<1> QED BY <1>4, <1>5, StepIs

SameBill(e) == /\ expenses[e] # NoRow /\ expenses'[e].group = expenses[e].group
               /\ expenses'[e].bill = expenses[e].bill
NewBill(e, bill) == /\ expenses'[e].bill = bill /\ Exist(Named(bill))

\* What a step makes of an expense that is there after it.
ExpenseOf(e) ==
    \/ SameBill(e)
    \/ \E p \in Procs : /\ CreateCommit(p) /\ e = req[p].id /\ expenses'[e].group = Draft[e].group
                        /\ NewBill(e, Draft[e].bill)
    \/ \E p \in Procs : /\ EditCommit(p) /\ e = req[p].id /\ NewBill(e, req[p].bill)
                        /\ expenses[e] # NoRow /\ expenses'[e].group = expenses[e].group
    \/ \E p \in Procs, x \in People :
          /\ Forgets(p, x) /\ expenses[e] # NoRow /\ expenses'[e].group = expenses[e].group
          /\ expenses'[e].bill = BillWithout(expenses[e].bill, x)
    \/ \E p \in Procs, ghost, into \in People :
          /\ Takes(p, ghost, into) /\ expenses[e] # NoRow
          /\ expenses'[e].group = expenses[e].group
          /\ expenses'[e].bill = BillMoved(expenses[e].bill, ghost, into)

LEMMA OneRow ==
    ASSUME Before, NEW f \in ExpenseIds, NEW row, expenses' = [expenses EXCEPT ![f] = row],
           NEW e \in ExpenseIds
    PROVE  expenses'[e] = IF e = f THEN row ELSE expenses[e]
BY DEF Before, TypeOK, DataOK

LEMMA RowWithBill ==
    ASSUME NEW row \in ExpenseRows, NEW bill
    PROVE  /\ [row EXCEPT !.bill = bill].bill = bill
           /\ [row EXCEPT !.bill = bill].group = row.group
BY DEF ExpenseRows

LEMMA RowWithEdit ==
    ASSUME NEW row \in ExpenseRows, NEW bill, NEW s, NEW to
    PROVE  /\ [row EXCEPT !.bill = bill, !.version = @ + 1, !.session = s].bill = bill
           /\ [row EXCEPT !.bill = bill, !.version = @ + 1, !.session = s].group = row.group
           /\ [row EXCEPT !.deleted = to, !.version = @ + 1].bill = row.bill
           /\ [row EXCEPT !.deleted = to, !.version = @ + 1].group = row.group
<1> DEFINE v == row.version + 1
<1>1. /\ [row EXCEPT !.bill = bill, !.version = @ + 1, !.session = s]
             = [[[row EXCEPT !.bill = bill] EXCEPT !.version = v] EXCEPT !.session = s]
      /\ [row EXCEPT !.deleted = to, !.version = @ + 1]
             = [[row EXCEPT !.deleted = to] EXCEPT !.version = v]
  BY DEF ExpenseRows
<1>2. \A b, w, t : /\ [[[row EXCEPT !.bill = b] EXCEPT !.version = w] EXCEPT !.session = t].bill = b
                   /\ [[[row EXCEPT !.bill = b] EXCEPT !.version = w] EXCEPT !.session = t].group = row.group
                   /\ [[row EXCEPT !.deleted = b] EXCEPT !.version = w].bill = row.bill
                   /\ [[row EXCEPT !.deleted = b] EXCEPT !.version = w].group = row.group
  BY DEF ExpenseRows
<1> QED BY <1>1, <1>2

LEMMA MarkedBill ==
    ASSUME Before, NEW f \in ExpenseIds, expenses[f] \in ExpenseRows, NEW to, SetDeleted(f, to),
           NEW e \in ExpenseIds, expenses'[e] # NoRow
    PROVE  SameBill(e)
<1> DEFINE row == [expenses[f] EXCEPT !.deleted = to, !.version = @ + 1]
<1>1. expenses' = [expenses EXCEPT ![f] = row]
  BY DEF SetDeleted
<1>2. row.bill = expenses[f].bill /\ row.group = expenses[f].group
  BY RowWithEdit
<1>3. expenses[f] # NoRow
  BY RowAssumption
<1> HIDE DEF row
<1> QED BY <1>1, <1>2, <1>3, OneRow DEF SameBill

LEMMA ExpenseBecomes ==
    ASSUME IInv, [Next]_vars, NEW e \in ExpenseIds, expenses'[e] # NoRow
    PROVE  ExpenseOf(e)
<1>1. Before /\ \A f \in ExpenseIds : expenses[f] # NoRow => expenses[f] \in ExpenseRows
  BY DEF IInv, Before, TypeOK, DataOK
<1>2. CASE UNCHANGED expenses
  BY <1>2 DEF ExpenseOf, SameBill
<1>3. ASSUME NEW p \in Procs, Writes(p), expenses' # expenses
      PROVE  ExpenseOf(e)
  <2>1. CASE CreateCommit(p)
    <3>1. req[p].id \in ExpenseIds
      BY <1>1, <2>1, AtStaged DEF CreateCommit, SheetAwaits, Staged, ExpenseStage, CreateAwaits,
         ExpenseAwaits
    <3> DEFINE d == Draft[req[p].id]
               row == [group |-> d.group, by |-> Me(p), bill |-> d.bill, deleted |-> FALSE,
                       version |-> 1, session |-> req[p].session]
    <3>2. expenses' = [expenses EXCEPT ![req[p].id] = row] /\ Exist(Named(d.bill))
      BY <1>3, <2>1 DEF CreateCommit, Replay, Leave, rows
    <3>3. row.group = d.group /\ row.bill = d.bill
      OBVIOUS
    <3> HIDE DEF row
    <3> QED BY <1>1, <2>1, <3>1, <3>2, <3>3, OneRow DEF ExpenseOf, SameBill, NewBill
  <2>2. CASE EditCommit(p)
    <3>1. req[p].id \in ExpenseIds /\ expenses[req[p].id] \in ExpenseRows
      BY <1>1, <2>2, AtStaged DEF EditCommit, SheetAwaits, Staged, ExpenseStage, EditAwaits, NeedsRow,
         ExpenseAwaits
    <3> DEFINE row == [expenses[req[p].id] EXCEPT !.bill = req[p].bill, !.version = @ + 1,
                                                  !.session = req[p].session]
    <3>2. expenses' = [expenses EXCEPT ![req[p].id] = row] /\ Exist(Named(req[p].bill))
      BY <1>3, <2>2 DEF EditCommit
    <3>3. row.group = expenses[req[p].id].group /\ row.bill = req[p].bill
      BY <3>1, RowWithEdit
    <3>4. expenses[req[p].id] # NoRow
      BY <3>1, RowAssumption
    <3> HIDE DEF row
    <3> QED BY <1>1, <2>2, <3>1, <3>2, <3>3, <3>4, OneRow DEF ExpenseOf, SameBill, NewBill
  <2>3. CASE DeleteCommit(p) \/ RestoreCommit(p)
    <3>1. req[p].id \in ExpenseIds /\ expenses[req[p].id] \in ExpenseRows
      BY <1>1, <2>3, AtStaged DEF DeleteCommit, RestoreCommit, SheetAwaits, Staged, ExpenseStage,
         DeleteAwaits, RestoreAwaits, NeedsRow, ExpenseAwaits
    <3>2. SetDeleted(req[p].id, TRUE) \/ SetDeleted(req[p].id, FALSE)
      BY <1>3, <2>3 DEF DeleteCommit, RestoreCommit, Leave, rows
    <3> QED BY <1>1, <3>1, <3>2, MarkedBill DEF ExpenseOf
  <2>4. CASE PayCommit(p) \/ BatchCommit(p) \/ UndoCommit(p) \/ RedoCommit(p)
    BY <1>3, <2>4 DEF PayCommit, BatchCommit, UndoCommit, RedoCommit, Leave, rows
  <2>5. CASE RemoveForget(p)
    <3>1. PICK x \in People : Forgets(p, x)
      BY <1>1, <1>3, <2>5, Forgetting DEF rows
    <3>2. expenses[e] # NoRow /\ expenses'[e] = [expenses[e] EXCEPT !.bill = BillWithout(expenses[e].bill, x)]
      BY <3>1 DEF Forgets
    <3>3. /\ expenses'[e].bill = BillWithout(expenses[e].bill, x)
          /\ expenses'[e].group = expenses[e].group
      BY <1>1, <3>2, RowWithBill
    <3> QED BY <3>1, <3>2, <3>3 DEF ExpenseOf
  <2>6. CASE MergeCommit(p) \/ JoinClaim(p)
    <3>1. PICK ghost \in People, into \in People : Takes(p, ghost, into)
      BY <1>1, <1>3, <2>6, Taking DEF rows
    <3>2. /\ expenses[e] # NoRow
          /\ expenses'[e] = [expenses[e] EXCEPT !.bill = BillMoved(expenses[e].bill, ghost, into)]
      BY <3>1 DEF Takes, Absorb
    <3>3. /\ expenses'[e].bill = BillMoved(expenses[e].bill, ghost, into)
          /\ expenses'[e].group = expenses[e].group
      BY <1>1, <3>2, RowWithBill
    <3> QED BY <3>1, <3>2, <3>3 DEF ExpenseOf
  <2> QED BY <1>3, <2>1, <2>2, <2>3, <2>4, <2>5, <2>6 DEF Writes
<1>4. CASE \E p \in Procs : Handle(p)
  <2>1. PICK p \in Procs : Handle(p)
    BY <1>4
  <2>2. UNCHANGED expenses \/ Writes(p)
    BY <1>1, <2>1, HandleMoves DEF Moves, Touches
  <2> QED BY <1>2, <1>3, <2>2
<1>5. CASE Restart \/ UNCHANGED vars \/ \E p \in Procs : Arrive(p)
  BY <1>2, <1>5 DEF Restart, Arrive, vars, rows
<1> QED BY <1>4, <1>5, StepIs

\* The same payment, in the bin or out of it.
SamePayment(s) ==
    /\ payments[s] # NoRow
    /\ payments'[s].group = payments[s].group /\ payments'[s].amount = payments[s].amount
    /\ payments'[s].from = payments[s].from /\ payments'[s].to = payments[s].to
    /\ \/ payments'[s].deleted = payments[s].deleted
       \/ payments'[s].deleted
       \/ \E p \in Procs : RedoCommit(p) /\ s \in seen[p].rows

\* p has just recorded payment s, alone, or as row r of a transfer.
Paid(p, s) ==
    /\ PayCommit(p) /\ s = req[p].id /\ s \in LoneIds /\ payments[s] = NoRow
    /\ Exist({PaymentDraft[s].from, PaymentDraft[s].to})
    /\ payments'[s].group = PaymentDraft[s].group /\ payments'[s].amount = PaymentDraft[s].amount
    /\ payments'[s].from = PaymentDraft[s].from /\ payments'[s].to = PaymentDraft[s].to
Transferred(p, s, r) ==
    LET other == BatchDraft[req[p].id].other
    IN  /\ BatchCommit(p) /\ ~Leave(p) /\ req[p].id \in BatchIds
        /\ r \in BatchDraft[req[p].id].rows /\ s = r.id /\ payments[s] = NoRow
        /\ Me(p) \in People /\ other \in People /\ Exist({Me(p), other})
        /\ r.amount <= Abs(Outstanding(p, r.group))
        /\ payments'[s].group = r.group /\ payments'[s].amount = r.amount
        /\ IF Outstanding(p, r.group) > 0
           THEN payments'[s].from = other /\ payments'[s].to = Me(p)
           ELSE payments'[s].from = Me(p) /\ payments'[s].to = other

\* What a step makes of a payment that is there after it.
PaymentOf(s) ==
    \/ SamePayment(s)
    \/ \E p \in Procs : Paid(p, s) \/ \E r : Transferred(p, s, r)
    \/ \E p \in Procs, x \in People :
          Forgets(p, x) /\ SamePayment(s) /\ x \notin {payments[s].from, payments[s].to}
    \/ \E p \in Procs, ghost, into \in People :
          /\ Takes(p, ghost, into) /\ payments[s] # NoRow
          /\ payments'[s].group = payments[s].group /\ payments'[s].amount = payments[s].amount
          /\ payments'[s].deleted = payments[s].deleted
          /\ payments'[s].from = As(payments[s].from, ghost, into)
          /\ payments'[s].to = As(payments[s].to, ghost, into)

LEMMA PayBecomes ==
    ASSUME Before, NEW p \in Procs, PayCommit(p), NEW s \in PaymentIds, payments'[s] # NoRow
    PROVE  SamePayment(s) \/ Paid(p, s)
<1> DEFINE d == PaymentDraft[req[p].id]
           row == [group |-> d.group, from |-> d.from, to |-> d.to, amount |-> d.amount,
                   by |-> Me(p), batch |-> NoBatch, deleted |-> FALSE]
<1>1. req[p].id \in LoneIds
  BY AtStaged DEF PayCommit, SheetAwaits, Staged, PaymentStage, PayAwaits
<1>2. \/ payments' = payments
      \/ /\ payments' = [payments EXCEPT ![req[p].id] = row]
         /\ payments[req[p].id] = NoRow /\ Exist({d.from, d.to})
  BY DEF PayCommit, Leave, rows, Unfiled
<1>3. row.group = d.group /\ row.from = d.from /\ row.to = d.to /\ row.amount = d.amount
  OBVIOUS
<1> HIDE DEF row
<1>4. CASE s = req[p].id /\ payments' # payments
  <2>1. payments'[s] = row /\ payments[s] = NoRow /\ Exist({d.from, d.to})
    BY <1>2, <1>4 DEF Before, TypeOK, DataOK
  <2> QED BY <1>1, <1>3, <1>4, <2>1 DEF Paid
<1>5. CASE s # req[p].id \/ payments' = payments
  <2>1. payments'[s] = payments[s]
    BY <1>2, <1>5 DEF Before, TypeOK, DataOK
  <2> QED BY <2>1 DEF SamePayment
<1> QED BY <1>4, <1>5

LEMMA TransferBecomes ==
    ASSUME Before, NEW p \in Procs, BatchCommit(p), NEW s \in PaymentIds, payments'[s] # NoRow
    PROVE  \/ payments'[s] = payments[s] /\ SamePayment(s)
           \/ \E r : Transferred(p, s, r)
<1> DEFINE b      == BatchDraft[req[p].id]
           ids    == {r.id : r \in b.rows}
           Of(t)  == CHOOSE r \in b.rows : r.id = t
           Row(r) == LET owed == Outstanding(p, r.group) > 0
                     IN  [group |-> r.group, amount |-> r.amount, by |-> Me(p),
                          from |-> IF owed THEN b.other ELSE Me(p),
                          to   |-> IF owed THEN Me(p) ELSE b.other,
                          batch |-> req[p].id, deleted |-> FALSE]
<1>1. req[p].id \in BatchIds /\ req[p].session \in Sessions
  BY AtStaged DEF BatchCommit, SheetAwaits, Staged, PaymentStage, PaymentAwaits, BatchAwaits
<1>2. Me(p) \in People /\ b.other \in People
  BY <1>1, LedgerAssumption, SettlementsAssumption DEF Me
<1>3. CASE Leave(p)
  BY <1>3 DEF Leave, rows, SamePayment
<1>4. CASE ~Leave(p)
  <2>1. /\ Unfiled(ids) /\ Exist({Me(p), b.other})
        /\ payments' = [t \in PaymentIds |-> IF t \in ids THEN Row(Of(t)) ELSE payments[t]]
        /\ \A r \in b.rows : r.amount <= Abs(Outstanding(p, r.group))
    BY <1>4 DEF BatchCommit
  <2>2. CASE s \notin ids
    <3>1. payments'[s] = payments[s]
      BY <2>1, <2>2
    <3> QED BY <3>1 DEF SamePayment
  <2>3. CASE s \in ids
    <3> DEFINE r == Of(s)
    <3>1. r \in b.rows /\ s = r.id
      BY <2>3
    <3>2. payments'[s] = Row(r) /\ payments[s] = NoRow
      BY <2>1, <2>3 DEF Unfiled
    <3> HIDE DEF r
    <3>3. /\ payments'[s].group = r.group /\ payments'[s].amount = r.amount
          /\ IF Outstanding(p, r.group) > 0
             THEN payments'[s].from = b.other /\ payments'[s].to = Me(p)
             ELSE payments'[s].from = Me(p) /\ payments'[s].to = b.other
      BY <3>2
    <3>4. Transferred(p, s, r)
      BY <1>1, <1>2, <1>4, <2>1, <3>1, <3>2, <3>3 DEF Transferred
    <3> QED BY <3>4
  <2> QED BY <2>2, <2>3
<1> QED BY <1>3, <1>4

LEMMA PaymentBecomes ==
    ASSUME IInv, [Next]_vars, NEW s \in PaymentIds, payments'[s] # NoRow
    PROVE  PaymentOf(s)
<1>1. Before /\ \A t \in PaymentIds : payments[t] # NoRow => payments[t] \in PaymentRows
  BY DEF IInv, Before, TypeOK, DataOK
<1>2. CASE UNCHANGED payments
  BY <1>2 DEF PaymentOf, SamePayment
<1>3. ASSUME NEW p \in Procs, Writes(p), payments' # payments
      PROVE  PaymentOf(s)
  <2>1. CASE CreateCommit(p) \/ EditCommit(p) \/ DeleteCommit(p) \/ RestoreCommit(p)
    BY <1>3, <2>1 DEF CreateCommit, EditCommit, DeleteCommit, RestoreCommit, Replay, Leave, rows
  <2>2. CASE PayCommit(p)
    BY <1>1, <2>2, PayBecomes DEF PaymentOf
  <2>3. CASE BatchCommit(p)
    BY <1>1, <2>3, TransferBecomes DEF PaymentOf
  <2>4. CASE UndoCommit(p) \/ RedoCommit(p)
    <3>1. \E to \in BOOLEAN : MarkPayments(seen[p].rows, to) /\ (to \/ RedoCommit(p))
      BY <2>4 DEF UndoCommit, RedoCommit
    <3>2. PICK to \in BOOLEAN : MarkPayments(seen[p].rows, to) /\ (to \/ RedoCommit(p))
      BY <3>1
    <3>3. payments[s] # NoRow
      <4>1. ~There(payments[s]) => payments'[s] = payments[s]
        BY <3>2 DEF MarkPayments
      <4> QED BY <4>1 DEF There
    <3>4. /\ payments'[s].batch = payments[s].batch /\ payments'[s].group = payments[s].group
          /\ payments'[s].from = payments[s].from /\ payments'[s].to = payments[s].to
          /\ payments'[s].amount = payments[s].amount
          /\ payments'[s] = payments[s] \/ (s \in seen[p].rows /\ payments'[s].deleted = to)
      BY <1>1, <3>2, <3>3, MarkedRow
    <3>5. SamePayment(s)
      BY <3>2, <3>3, <3>4 DEF SamePayment
    <3> QED BY <3>5 DEF PaymentOf
  <2>5. CASE RemoveForget(p)
    <3>1. PICK x \in People : Forgets(p, x)
      BY <1>1, <1>3, <2>5, Forgetting DEF rows
    <3>2. /\ payments[s] # NoRow /\ payments'[s] = payments[s]
          /\ x \notin {payments[s].from, payments[s].to}
      BY <3>1 DEF Forgets
    <3> QED BY <3>1, <3>2 DEF PaymentOf, SamePayment
  <2>6. CASE MergeCommit(p) \/ JoinClaim(p)
    <3>1. PICK ghost \in People, into \in People : Takes(p, ghost, into)
      BY <1>1, <1>3, <2>6, Taking DEF rows
    <3>2. payments' = PaymentsOver(ghost, into)
      BY <3>1 DEF Takes, Absorb
    <3>3. payments[s] # NoRow
      BY <3>2 DEF PaymentsOver
    <3> QED BY <1>1, <3>1, <3>2, <3>3, MovedRow DEF PaymentOf
  <2> QED BY <1>3, <2>1, <2>2, <2>3, <2>4, <2>5, <2>6 DEF Writes
<1>4. CASE \E p \in Procs : Handle(p)
  <2>1. PICK p \in Procs : Handle(p)
    BY <1>4
  <2>2. UNCHANGED payments \/ Writes(p)
    BY <1>1, <2>1, HandleMoves DEF Moves, Touches
  <2> QED BY <1>2, <1>3, <2>2
<1>5. CASE Restart \/ UNCHANGED vars \/ \E p \in Procs : Arrive(p)
  BY <1>2, <1>5 DEF Restart, Arrive, vars, rows
<1> QED BY <1>4, <1>5, StepIs

-----------------------------------------------------------------------------
(* The circle stays in order.                                              *)

LEMMA KnownStays ==
    ASSUME IInv, WhoIsWho, [Next]_vars, NEW l \in Ledgers, NEW x \in People, Known(l, x)
    PROVE  \/ Known(l, x)'
           \/ \E p \in Procs : RemoveDrop(p) /\ l = req[p].group /\ x = req[p].who
<1>1. CASE ~Stands(l)
  <2>1. disbanded \subseteq disbanded'
    BY KeptForGood DEF Kept
  <2> QED BY <1>1, <2>1 DEF Known, Stands
<1>2. CASE people[x] = "gone"
  BY <1>2, PeopleStay DEF PeopleKeep, Known
<1>3. CASE l \in Groups /\ member[l][x] # "none"
  BY <1>3, SeatsStay DEF Known, Seat
<1>4. CASE l \notin Groups /\ Signed(x)
  BY <1>4, PeopleStay DEF PeopleKeep, Known, Seat
<1> QED BY <1>1, <1>2, <1>3, <1>4 DEF Known, Seat

\* A seat is deleted only when nothing was ever filed for it.
LEMMA DropsUnseen ==
    ASSUME IInv, Asked, Unremoved, NEW p \in Procs, Carries(p), RemoveDrop(p)
    PROVE  OneAtOnce /\ Unseen(req[p].group, req[p].who)
<1>1. Place(p) = "RemoveDrop"
  BY DEF RemoveDrop, Place, SheetAwaits
<1>2. "remove" \in Ops
  BY <1>1 DEF Asked, RemoveAwaits
<1> QED BY <1>1, <1>2 DEF Unremoved, Carries

\* Where a new seat comes from.
LEMMA NewSeat ==
    ASSUME IInv, [Next]_vars, NEW g \in Groups, NEW x \in People,
           member[g][x] = "none", member'[g][x] # "none"
    PROVE  \E p \in Procs :
              \/ JoinSeat(p) /\ x = Me(p)
              \/ AddSeat(p) /\ x = req[p].who
              \/ AddGhostSeat(p) /\ x = req[p].who /\ people'[x] = "ghost"
              \/ \E ghost \in People : Takes(p, ghost, x) /\ member[g][ghost] # "none"
<1>1. /\ Before /\ people \in [People -> {"unborn", "ghost", "real", "deleted", "gone"}]
      /\ member \in [Groups -> [People -> {"none", "active", "left"}]]
  BY DEF IInv, Before, TypeOK, DataOK
<1>2. PICK p \in Procs : Reseats(p)
  <2>1. member' # member
    OBVIOUS
  <2>2. \E p \in Procs : Handle(p)
    BY <2>1, StepIs DEF Restart, Arrive, vars, circle
  <2> QED BY <2>1, <2>2, HandleCircles DEF Circles
<1>3. CASE RestoreCommit(p)
  <2>1. \/ member' = member
        \/ member' = [h \in Groups |-> [z \in People |->
             IF h = expenses[req[p].id].group /\ z \in seen[p].people /\ member[h][z] = "left"
             THEN "active" ELSE member[h][z]]]
    BY <1>3 DEF RestoreCommit, Leave, circle
  <2> QED BY <1>1, <2>1
<1>4. CASE RedoCommit(p)
  BY <1>1, <1>4 DEF RedoCommit
<1>5. ASSUME NEW h, NEW y, NEW to, member' = SeatIn(h, y, to)
      PROVE  h = g /\ y = x
  BY <1>1, <1>5 DEF SeatIn
<1>6. CASE RemoveLeave(p)
  <2>1. member' = SeatIn(req[p].group, req[p].who, "left") /\ Housed(req[p].group, req[p].who)
    BY <1>6 DEF RemoveLeave, Leave, circle
  <2> QED BY <1>5, <2>1 DEF Housed
<1>7. CASE RemoveDrop(p)
  <2>1. member' = SeatIn(req[p].group, req[p].who, "none")
    BY <1>7 DEF RemoveDrop, Leave, circle
  <2> QED BY <1>1, <2>1 DEF SeatIn
<1>8. CASE JoinSeat(p)
  BY <1>5, <1>8 DEF JoinSeat, Leave, circle
<1>9. CASE AddSeat(p)
  BY <1>5, <1>9 DEF AddSeat, Leave, circle
<1>10. CASE AddGhostSeat(p)
  <2>1. /\ member' = SeatIn(req[p].group, req[p].who, "active")
        /\ people' = [people EXCEPT ![req[p].who] = "ghost"]
    BY <1>10 DEF AddGhostSeat, Leave, circle
  <2> QED BY <1>1, <1>5, <1>10, <2>1
<1>11. CASE MergeCommit(p) \/ JoinClaim(p)
  <2>1. PICK ghost \in People, into \in People : Takes(p, ghost, into)
    BY <1>1, <1>11, Taking
  <2>2. member' = [h \in Groups |-> [z \in People |->
               IF z = ghost THEN "none"
               ELSE IF z = into /\ h \in {i \in Groups : Housed(i, ghost)} /\ member[h][z] # "active"
                    THEN member[h][ghost] ELSE member[h][z]]]
    BY <2>1 DEF Takes, Absorb
  <2>3. x = into /\ Housed(g, ghost)
    BY <2>2
  <2> QED BY <2>1, <2>3 DEF Housed
<1>12. CASE CloseWrite(p)
  BY <1>1, <1>12 DEF CloseWrite, Active, Housed
<1> QED BY <1>2, <1>3, <1>4, <1>6, <1>7, <1>8, <1>9, <1>10, <1>11, <1>12 DEF Reseats

LEMMA MeSigned ==
    ASSUME ControlOK, WhoIsWho, NEW p \in Procs,
           Place(p) \in ExpenseAwaits \cup PaymentAwaits \cup MemberAwaits \cup EndingAwaits
    PROVE  Me(p) \in People /\ Signed(Me(p))
<1>1. req[p].session \in Sessions
  BY DEF ControlOK, ExpenseStage, PaymentStage, MemberStage, EndingStage
<1> QED BY <1>1, LedgerAssumption DEF Me, WhoIsWho

LEMMA SeatsHoldStill ==
    ASSUME IInv, WhoIsWho, CircleHolds, \A q \in Procs : Carries(q), [Next]_vars,
           NEW g \in Groups, NEW x \in People, Housed(g, x)'
    PROVE  Exist({x})'
<1>1. /\ Before /\ ControlOK /\ disbanded \subseteq disbanded'
      /\ people \in [People -> {"unborn", "ghost", "real", "deleted", "gone"}]
      /\ people' \in [People -> {"unborn", "ghost", "real", "deleted", "gone"}]
  BY KeptForGood, Inductive DEF IInv, Before, TypeOK, DataOK, Kept
<1>2. CASE Housed(g, x)
  <2>1. people[x] \notin {"unborn", "gone"}
    BY <1>1, <1>2 DEF CircleHolds, Exist
  <2>2. SUFFICES ASSUME people'[x] = "gone" PROVE FALSE
    BY <1>1, <2>1, <2>2, ExistStays DEF Exist
  <2>3. PICK p \in Procs : Forgets(p, x) \/ \E into \in People : Takes(p, x, into)
    BY <2>1, <2>2, ExistStays
  <2>4. ~Forgets(p, x)
    BY <1>2 DEF Forgets
  <2>5. PICK into \in People : Takes(p, x, into)
    BY <2>3, <2>4
  <2>6. member'[g][x] = "none"
    BY <2>5 DEF Takes, Absorb
  <2> QED BY <2>6 DEF Housed
<1>3. CASE ~Housed(g, x)
  <2>1. member[g][x] = "none" /\ member'[g][x] # "none"
    BY <1>1, <1>3 DEF Housed, Stands
  <2>2. PICK p \in Procs :
              \/ JoinSeat(p) /\ x = Me(p)
              \/ AddSeat(p) /\ x = req[p].who
              \/ AddGhostSeat(p) /\ x = req[p].who /\ people'[x] = "ghost"
              \/ \E ghost \in People : Takes(p, ghost, x)
    BY <2>1, NewSeat
  <2>3. CASE JoinSeat(p) /\ x = Me(p)
    <3>1. Place(p) = "JoinSeat"
      BY <2>3 DEF JoinSeat, Place, SheetAwaits
    <3>2. Signed(x)
      BY <1>1, <2>3, <3>1, MeSigned DEF MemberAwaits, GroupAwaits, JoinAwaits
    <3> QED BY <3>2, PeopleStay DEF PeopleKeep, Signed, Exist
  <2>4. CASE AddSeat(p) /\ x = req[p].who
    <3>1. Place(p) = "AddSeat"
      BY <2>4 DEF AddSeat, Place, SheetAwaits
    <3>2. Signed(x)
      BY <2>4, <3>1 DEF Carries
    <3> QED BY <3>2, PeopleStay DEF PeopleKeep, Signed, Exist
  <2>5. CASE \E ghost \in People : Takes(p, ghost, x)
    <3>1. Signed(x)
      BY <2>5 DEF Takes, MayAbsorb, Signed
    <3> QED BY <3>1, PeopleStay DEF PeopleKeep, Signed, Exist
  <2> QED BY <2>2, <2>3, <2>4, <2>5 DEF Exist
<1> QED BY <1>2, <1>3

LEMMA FriendsHoldStill ==
    ASSUME IInv, WhoIsWho, CircleHolds, \A q \in Procs : Carries(q), [Next]_vars,
           NEW f \in friends', NEW x \in f
    PROVE  Signed(x)'
<1>1. /\ Before /\ ControlOK
      /\ people \in [People -> {"unborn", "ghost", "real", "deleted", "gone"}]
      /\ \A h \in friends : h \subseteq People
  BY DEF IInv, Before, TypeOK, DataOK
<1>2. SUFFICES ASSUME f \notin friends PROVE x \in People /\ Signed(x)
  BY <1>1, PeopleStay DEF PeopleKeep, CircleHolds
<1>3. PICK p \in Procs : Befriends(p)
  <2>1. \E p \in Procs : Handle(p)
    BY <1>2, StepIs DEF Restart, Arrive, vars, circle
  <2> QED BY <1>2, <2>1, HandleCircles DEF Circles
<1>4. CASE BefriendWrite(p)
  <2>1. Place(p) = "BefriendWrite" /\ f = {Me(p), req[p].who}
    BY <1>2, <1>4 DEF BefriendWrite, Place, SheetAwaits
  <2>2. Signed(Me(p)) /\ Me(p) \in People
    BY <1>1, <2>1, MeSigned DEF EndingAwaits, FriendAwaits
  <2>3. Signed(req[p].who) /\ req[p].who \in People
    BY <1>1, <2>1 DEF Carries, ControlOK, EndingStage, FriendAwaits
  <2> QED BY <2>1, <2>2, <2>3
<1>5. CASE UnfriendWrite(p) \/ RemoveForget(p) \/ CloseWrite(p)
  BY <1>2, <1>5 DEF UnfriendWrite, RemoveForget, CloseWrite, Leave, circle
<1>6. CASE JoinConnect(p)
  <2>1. /\ Place(p) = "JoinConnect"
        /\ f \in {{Me(p), y} : y \in Successors(req[p].group, Me(p))}
    BY <1>2, <1>6 DEF JoinConnect, Place, SheetAwaits
  <2>2. Signed(Me(p)) /\ Me(p) \in People /\ req[p].group \in Groups
    BY <1>1, <2>1, MeSigned DEF MemberAwaits, GroupAwaits, JoinAwaits, ControlOK, MemberStage
  <2>3. PICK y \in Successors(req[p].group, Me(p)) : f = {Me(p), y}
    BY <2>1
  <2>4. y \in People /\ Housed(req[p].group, y) /\ people[y] # "ghost"
    BY DEF Successors, Active
  <2>5. Signed(y)
    BY <1>1, <2>2, <2>4 DEF CircleHolds, Exist, Signed
  <2> QED BY <2>2, <2>3, <2>4, <2>5
<1>7. CASE MergeCommit(p) \/ JoinClaim(p)
  <2>1. PICK ghost \in People, into \in People : Takes(p, ghost, into)
    BY <1>1, <1>2, <1>7, Taking
  <2>2. /\ friends' = {{As(y, ghost, into) : y \in h} : h \in friends \ {{ghost, into}}}
        /\ people[ghost] = "ghost"
    BY <2>1 DEF Takes, Absorb, MayAbsorb
  <2>3. PICK h \in friends : f = {As(y, ghost, into) : y \in h}
    BY <2>2
  <2>4. \A y \in h : As(y, ghost, into) = y
    BY <2>2 DEF CircleHolds, Signed, As
  <2>5. f = h
    BY <2>3, <2>4
  <2> QED BY <1>2, <2>5
<1> QED BY <1>3, <1>4, <1>5, <1>6, <1>7 DEF Befriends

LEMMA CircleStays ==
    IInv /\ WhoIsWho /\ CircleHolds /\ (\A q \in Procs : Carries(q)) /\ [Next]_vars => CircleHolds'
BY SeatsHoldStill, FriendsHoldStill DEF CircleHolds

-----------------------------------------------------------------------------
(* A column with a person moved over or dropped.                           *)

LEMMA ColumnType ==
    ASSUME NEW f \in [People -> Nat]
    PROVE  f \in [People -> Int] /\ Column(f) \in Nat
BY LedgerAssumption, SumNat DEF Column

\* Moving a person's figure onto another's leaves the total as it was.
LEMMA MovedColumn ==
    ASSUME NEW f \in [People -> Nat], NEW x \in People, NEW y \in People, x # y
    PROVE  /\ Moved(f, x, y) \in [People -> Nat] /\ Column(Moved(f, x, y)) = Column(f)
           /\ \A z \in People : Moved(f, x, y)[z] = IF z = x THEN 0 ELSE IF z = y THEN f[y] + f[x]
                                                    ELSE f[z]
<1>1. PICK h \in [People -> Int] : h = [f EXCEPT ![x] = 0]
  <2>1. [f EXCEPT ![x] = 0] \in [People -> Int]
    OBVIOUS
  <2> QED BY <2>1
<1>2. PICK m \in [People -> Nat] : m = Moved(f, x, y)
  <2>1. \A z \in People : (IF z = x THEN 0 ELSE IF z = y THEN f[y] + f[x] ELSE f[z]) \in Nat
    OBVIOUS
  <2>2. Moved(f, x, y) \in [People -> Nat]
    BY <2>1 DEF Moved
  <2> QED BY <2>2
<1>3. SumFunction(h) = SumFunction(f) - f[x] + h[x] /\ SumFunction(f) \in Int
  <2>1. f \in [People -> Int] /\ \A z \in People \ {x} : f[z] = h[z]
    BY <1>1
  <2> QED BY <2>1, LedgerAssumption, SumChanges, SumType
<1>4. SumFunction(m) = SumFunction(h) - h[y] + m[y] /\ SumFunction(h) \in Int
  <2>1. m \in [People -> Int] /\ \A z \in People \ {y} : h[z] = m[z]
    BY <1>1, <1>2 DEF Moved
  <2> QED BY <2>1, LedgerAssumption, SumChanges, SumType
<1>5. h[x] = 0 /\ h[y] = f[y] /\ m[y] = f[y] + f[x] /\ f[x] \in Int /\ f[y] \in Int
  BY <1>1, <1>2 DEF Moved
<1>6. SumFunction(m) = SumFunction(f)
  BY <1>3, <1>4, <1>5
<1>7. \A z \in People : m[z] = IF z = x THEN 0 ELSE IF z = y THEN f[y] + f[x] ELSE f[z]
  BY <1>2 DEF Moved
<1> QED BY <1>2, <1>6, <1>7 DEF Column

Twice(bill, f, h) == [bill EXCEPT !.paid = f, !.owed = h]

LEMMA TwoColumns ==
    ASSUME NEW bill \in BillRows, NEW f, NEW h
    PROVE  /\ Twice(bill, f, h).paid = f
           /\ Twice(bill, f, h).owed = h
           /\ Twice(bill, f, h).amount = bill.amount
           /\ f \in [People -> Nat] /\ h \in [People -> Nat] => Twice(bill, f, h) \in BillRows
<1>1. PICK half : half = [bill EXCEPT !.paid = f]
  OBVIOUS
<1>2. /\ half.paid = f /\ half.owed = bill.owed /\ half.amount = bill.amount
      /\ DOMAIN half = {"amount", "paid", "owed"}
      /\ f \in [People -> Nat] => half \in BillRows
  BY <1>1 DEF BillRows
<1>3. PICK row : row = [half EXCEPT !.owed = h]
  OBVIOUS
<1>4. Twice(bill, f, h) = row
  BY <1>1, <1>3 DEF Twice
<1>5. row.paid = f /\ row.owed = h /\ row.amount = bill.amount
  BY <1>2, <1>3
<1>6. ASSUME f \in [People -> Nat], h \in [People -> Nat] PROVE row \in BillRows
  BY <1>2, <1>3, <1>6 DEF BillRows
<1> QED BY <1>4, <1>5, <1>6

LEMMA MovedBill ==
    ASSUME NEW bill \in BillRows, NEW x \in People, NEW y \in People, x # y
    PROVE  /\ BillMoved(bill, x, y) \in BillRows
           /\ AddsUp(bill) => AddsUp(BillMoved(bill, x, y))
           /\ \A z \in Named(BillMoved(bill, x, y)) :
                 /\ z # x
                 /\ z \in Named(bill) \/ (z = y /\ x \in Named(bill))
           /\ BillMoved(bill, x, y).paid = Moved(bill.paid, x, y)
           /\ BillMoved(bill, x, y).owed = Moved(bill.owed, x, y)
           /\ BillMoved(bill, x, y).amount = bill.amount
<1>1. bill.paid \in [People -> Nat] /\ bill.owed \in [People -> Nat] /\ bill.amount \in Nat
  BY DEF BillRows
<1>2. /\ Moved(bill.paid, x, y) \in [People -> Nat] /\ Column(Moved(bill.paid, x, y)) = Column(bill.paid)
      /\ Moved(bill.owed, x, y) \in [People -> Nat] /\ Column(Moved(bill.owed, x, y)) = Column(bill.owed)
  <2>1. \A f \in [People -> Nat] : /\ Moved(f, x, y) \in [People -> Nat]
                                   /\ Column(Moved(f, x, y)) = Column(f)
    BY MovedColumn
  <2> QED BY <1>1, <2>1
<1>a. BillMoved(bill, x, y) = Twice(bill, Moved(bill.paid, x, y), Moved(bill.owed, x, y))
  BY Zenon DEF BillMoved, Twice
<1>3. /\ BillMoved(bill, x, y).paid = Moved(bill.paid, x, y)
      /\ BillMoved(bill, x, y).owed = Moved(bill.owed, x, y)
      /\ BillMoved(bill, x, y).amount = bill.amount
      /\ BillMoved(bill, x, y) \in BillRows
  BY <1>2, <1>a, TwoColumns
<1>4. AddsUp(bill) => AddsUp(BillMoved(bill, x, y))
  BY <1>2, <1>3 DEF AddsUp
<1>5. ASSUME NEW f \in [People -> Nat], NEW z \in People, Moved(f, x, y)[z] > 0
      PROVE  z # x /\ (f[z] > 0 \/ (z = y /\ f[x] > 0))
  BY <1>5, MovedColumn
<1>6. \A z \in Named(BillMoved(bill, x, y)) :
          z # x /\ (z \in Named(bill) \/ (z = y /\ x \in Named(bill)))
  BY <1>1, <1>3, <1>5 DEF Named
<1> QED BY <1>3, <1>4, <1>6

LEMMA DroppedBill ==
    ASSUME NEW bill \in BillRows, NEW x \in People
    PROVE  /\ \A z \in Named(BillWithout(bill, x)) : z # x /\ z \in Named(bill)
           /\ BillWithout(bill, x).amount = bill.amount
           /\ x \notin Named(bill) => /\ BillWithout(bill, x).paid = bill.paid
                                      /\ BillWithout(bill, x).owed = bill.owed
<1>1. bill.paid \in [People -> Nat] /\ bill.owed \in [People -> Nat]
  BY DEF BillRows
<1>a. BillWithout(bill, x) = Twice(bill, Dropped(bill.paid, x), Dropped(bill.owed, x))
  BY Zenon DEF BillWithout, Twice
<1>2. /\ BillWithout(bill, x).paid = Dropped(bill.paid, x)
      /\ BillWithout(bill, x).owed = Dropped(bill.owed, x)
      /\ BillWithout(bill, x).amount = bill.amount
  BY <1>a, TwoColumns
<1>3. \A f \in [People -> Nat] : \A z \in People : Dropped(f, x)[z] = IF z = x THEN 0 ELSE f[z]
  BY DEF Dropped
<1>4. \A f \in [People -> Nat] : f[x] = 0 => Dropped(f, x) = f
  BY DEF Dropped
<1>5. x \notin Named(bill) => bill.paid[x] = 0 /\ bill.owed[x] = 0
  BY <1>1 DEF Named
<1> QED BY <1>1, <1>2, <1>3, <1>4, <1>5 DEF Named

-----------------------------------------------------------------------------
(* Whoever a row names is somebody.                                        *)

LEMMA RowsAre ==
    ASSUME IInv
    PROVE  /\ Before
           /\ \A e \in ExpenseIds : expenses[e] # NoRow =>
                 expenses[e] \in ExpenseRows /\ expenses[e].bill \in BillRows
                                             /\ expenses[e].group \in Ledgers
           /\ \A s \in PaymentIds : payments[s] # NoRow =>
                 payments[s] \in PaymentRows /\ payments[s].from \in People /\ payments[s].to \in People
                                             /\ payments[s].group \in Ledgers
                                             /\ payments[s].amount \in Nat
           /\ people \in [People -> {"unborn", "ghost", "real", "deleted", "gone"}]
           /\ member \in [Groups -> [People -> {"none", "active", "left"}]]
<1>1. /\ Before
      /\ \A e \in ExpenseIds : expenses[e] # NoRow => expenses[e] \in ExpenseRows
      /\ \A s \in PaymentIds : payments[s] # NoRow => payments[s] \in PaymentRows
      /\ people \in [People -> {"unborn", "ghost", "real", "deleted", "gone"}]
      /\ member \in [Groups -> [People -> {"none", "active", "left"}]]
  BY DEF IInv, Before, TypeOK, DataOK
<1>2. \A row \in ExpenseRows : row.bill \in BillRows /\ row.group \in Ledgers
  BY DEF ExpenseRows
<1>3. ASSUME NEW row \in PaymentRows
      PROVE  row.from \in People /\ row.to \in People /\ row.group \in Ledgers /\ row.amount \in Nat
  BY DEF PaymentRows
<1> QED BY <1>1, <1>2, <1>3

\* What the rows say once a placeholder is folded into somebody.
LEMMA TakenRows ==
    ASSUME IInv, NEW p \in Procs, NEW ghost \in People, NEW into \in People, Takes(p, ghost, into)
    PROVE  /\ \A e \in ExpenseIds : expenses'[e] # NoRow =>
                 /\ expenses[e] # NoRow /\ expenses'[e].group = expenses[e].group
                 /\ expenses'[e].bill = BillMoved(expenses[e].bill, ghost, into)
           /\ \A s \in PaymentIds : payments'[s] # NoRow =>
                 /\ payments[s] # NoRow /\ payments'[s].group = payments[s].group
                 /\ payments'[s].from = As(payments[s].from, ghost, into)
                 /\ payments'[s].to = As(payments[s].to, ghost, into)
           /\ ghost # into
<1>1. ASSUME NEW e \in ExpenseIds, expenses'[e] # NoRow
      PROVE  /\ expenses[e] # NoRow /\ expenses'[e].group = expenses[e].group
             /\ expenses'[e].bill = BillMoved(expenses[e].bill, ghost, into)
  <2>1. /\ expenses[e] # NoRow
        /\ expenses'[e] = [expenses[e] EXCEPT !.bill = BillMoved(expenses[e].bill, ghost, into)]
    BY <1>1 DEF Takes, Absorb
  <2> QED BY <2>1, RowsAre, RowWithBill
<1>2. ASSUME NEW s \in PaymentIds, payments'[s] # NoRow
      PROVE  /\ payments[s] # NoRow /\ payments'[s].group = payments[s].group
             /\ payments'[s].from = As(payments[s].from, ghost, into)
             /\ payments'[s].to = As(payments[s].to, ghost, into)
  <2>1. payments' = PaymentsOver(ghost, into)
    BY DEF Takes, Absorb
  <2>2. payments[s] # NoRow
    BY <1>2, <2>1 DEF PaymentsOver
  <2> QED BY <2>1, <2>2, RowsAre, MovedRow
<1> QED BY <1>1, <1>2 DEF Takes, MayAbsorb

\* And once a placeholder is deleted.
LEMMA ForgottenRows ==
    ASSUME IInv, NEW p \in Procs, NEW x \in People, Forgets(p, x)
    PROVE  /\ \A e \in ExpenseIds : expenses'[e] # NoRow =>
                 /\ expenses[e] # NoRow /\ expenses'[e].group = expenses[e].group
                 /\ expenses'[e].bill = BillWithout(expenses[e].bill, x)
           /\ \A s \in PaymentIds : payments'[s] # NoRow =>
                 payments'[s] = payments[s] /\ x \notin {payments[s].from, payments[s].to}
<1>1. ASSUME NEW e \in ExpenseIds, expenses'[e] # NoRow
      PROVE  /\ expenses[e] # NoRow /\ expenses'[e].group = expenses[e].group
             /\ expenses'[e].bill = BillWithout(expenses[e].bill, x)
  <2>1. /\ expenses[e] # NoRow
        /\ expenses'[e] = [expenses[e] EXCEPT !.bill = BillWithout(expenses[e].bill, x)]
    BY <1>1 DEF Forgets
  <2> QED BY <2>1, RowsAre, RowWithBill
<1> QED BY <1>1 DEF Forgets

\* A placeholder who goes leaves no row behind that names it.
LEMMA Departed ==
    ASSUME IInv, WhoIsWho, [Next]_vars, NEW x \in People, people[x] # "gone", people'[x] = "gone"
    PROVE  /\ \A e \in ExpenseIds : expenses'[e] # NoRow => x \notin Named(expenses'[e].bill)
           /\ \A s \in PaymentIds : payments'[s] # NoRow => x \notin {payments'[s].from, payments'[s].to}
<1>1. PICK p \in Procs : Forgets(p, x) \/ \E into \in People : Takes(p, x, into)
  BY ExistStays
<1>2. CASE Forgets(p, x)
  <2>1. \A e \in ExpenseIds : expenses'[e] # NoRow => x \notin Named(expenses'[e].bill)
    BY <1>2, RowsAre, ForgottenRows, DroppedBill
  <2> QED BY <1>2, <2>1, ForgottenRows
<1>3. ASSUME NEW into \in People, Takes(p, x, into)
      PROVE  /\ \A e \in ExpenseIds : expenses'[e] # NoRow => x \notin Named(expenses'[e].bill)
             /\ \A s \in PaymentIds : payments'[s] # NoRow => x \notin {payments'[s].from, payments'[s].to}
  <2>1. \A e \in ExpenseIds : expenses'[e] # NoRow => x \notin Named(expenses'[e].bill)
    BY <1>3, RowsAre, TakenRows, MovedBill
  <2>2. \A s \in PaymentIds : payments'[s] # NoRow => x \notin {payments'[s].from, payments'[s].to}
    BY <1>3, TakenRows DEF As
  <2> QED BY <2>1, <2>2
<1> QED BY <1>1, <1>2, <1>3

\* Whom a row names is whom it named, those its new bill or draft names, or who a
\* placeholder it named turned out to be.
LEMMA NamesCome ==
    ASSUME IInv, WhoIsWho, NamesHold, [Next]_vars
    PROVE  /\ \A e \in ExpenseIds : \A x \in Named(expenses'[e].bill) :
                 expenses'[e] # NoRow => Exist({x})
           /\ \A s \in PaymentIds : \A x \in {payments'[s].from, payments'[s].to} :
                 payments'[s] # NoRow => Exist({x})
<1>1. ASSUME NEW e \in ExpenseIds, NEW x \in Named(expenses'[e].bill), expenses'[e] # NoRow
      PROVE  Exist({x})
  <2>1. CASE SameBill(e)
    BY <2>1 DEF SameBill, NamesHold, Exist
  <2>2. CASE \E bill : NewBill(e, bill)
    BY <2>2 DEF NewBill, Exist
  <2>3. ASSUME NEW p \in Procs, NEW y \in People, Forgets(p, y)
        PROVE  Exist({x})
    <3>1. expenses[e] # NoRow /\ x \in Named(expenses[e].bill)
      BY <1>1, <2>3, RowsAre, ForgottenRows, DroppedBill
    <3> QED BY <3>1 DEF NamesHold, Exist
  <2>4. ASSUME NEW p \in Procs, NEW ghost \in People, NEW into \in People, Takes(p, ghost, into)
        PROVE  Exist({x})
    <3>1. expenses[e] # NoRow /\ (x \in Named(expenses[e].bill) \/ x = into)
      BY <1>1, <2>4, RowsAre, TakenRows, MovedBill
    <3>2. people[into] = "real"
      BY <2>4 DEF Takes, MayAbsorb
    <3> QED BY <3>1, <3>2 DEF NamesHold, Exist
  <2> QED BY <1>1, <2>1, <2>2, <2>3, <2>4, ExpenseBecomes DEF ExpenseOf
<1>2. ASSUME NEW s \in PaymentIds, NEW x \in {payments'[s].from, payments'[s].to}, payments'[s] # NoRow
      PROVE  Exist({x})
  <2>1. CASE SamePayment(s)
    BY <2>1 DEF SamePayment, NamesHold, Exist
  <2>2. ASSUME NEW p \in Procs, Paid(p, s)
        PROVE  Exist({x})
    BY <2>2 DEF Paid, Exist
  <2>3. ASSUME NEW p \in Procs, NEW r, Transferred(p, s, r)
        PROVE  Exist({x})
    BY <2>3 DEF Transferred, Exist
  <2>4. ASSUME NEW p \in Procs, NEW ghost \in People, NEW into \in People, Takes(p, ghost, into)
        PROVE  Exist({x})
    <3>1. payments[s] # NoRow /\ x \in {payments[s].from, payments[s].to, into}
      BY <1>2, <2>4, TakenRows DEF As
    <3>2. people[into] = "real"
      BY <2>4 DEF Takes, MayAbsorb
    <3> QED BY <3>1, <3>2 DEF NamesHold, Exist
  <2> QED BY <1>2, <2>1, <2>2, <2>3, <2>4, PaymentBecomes DEF PaymentOf
<1> QED BY <1>1, <1>2

LEMMA NamesStay == IInv /\ WhoIsWho /\ NamesHold /\ [Next]_vars => NamesHold'
<1> SUFFICES ASSUME IInv, WhoIsWho, NamesHold, [Next]_vars PROVE NamesHold'
  OBVIOUS
<1>1. IInv'
  BY Inductive
<1>2. /\ people \in [People -> {"unborn", "ghost", "real", "deleted", "gone"}]
      /\ people' \in [People -> {"unborn", "ghost", "real", "deleted", "gone"}]
      /\ \A s \in PaymentIds : payments'[s] # NoRow =>
            payments'[s].from \in People /\ payments'[s].to \in People
  BY <1>1, RowsAre DEF IInv, TypeOK, DataOK, PaymentRows
<1>3. ASSUME NEW x \in People, Exist({x}) PROVE Exist({x})' \/ people'[x] = "gone"
  BY <1>2, <1>3, ExistStays DEF Exist
<1>4. ASSUME NEW e \in ExpenseIds, expenses'[e] # NoRow PROVE Exist(Named(expenses[e].bill))'
  <2> SUFFICES ASSUME NEW x \in Named(expenses'[e].bill) PROVE Exist({x})'
    BY DEF Exist, Named
  <2>1. x \in People /\ Exist({x})
    BY <1>4, NamesCome DEF Named
  <2>2. people'[x] # "gone"
    BY <1>4, <2>1, Departed DEF Exist
  <2> QED BY <1>3, <2>1, <2>2
<1>5. ASSUME NEW s \in PaymentIds, payments'[s] # NoRow PROVE Exist({payments[s].from, payments[s].to})'
  <2> SUFFICES ASSUME NEW x \in {payments'[s].from, payments'[s].to} PROVE Exist({x})'
    BY DEF Exist
  <2>1. x \in People /\ Exist({x})
    BY <1>2, <1>5, NamesCome
  <2>2. people'[x] # "gone"
    BY <1>5, <2>1, Departed DEF Exist
  <2> QED BY <1>3, <2>1, <2>2
<1> QED BY <1>4, <1>5 DEF NamesHold

-----------------------------------------------------------------------------
(* Whoever a row names has a seat in its ledger, and bills add up.         *)

LEMMA KnownUnlessDropped ==
    ASSUME IInv, WhoIsWho, Asked, Unremoved, \A q \in Procs : Carries(q), [Next]_vars,
           NEW l \in Ledgers, NEW x \in People, Known(l, x)
    PROVE  Known(l, x)' \/ (OneAtOnce /\ Unseen(l, x) /\ \E q \in Procs : RemoveDrop(q))
BY KnownStays, DropsUnseen

LEMMA OnlyOneMoves ==
    ASSUME OneAtOnce, NEW p \in Procs, NEW q \in Procs, RemoveDrop(q)
    PROVE  /\ ~CreateCommit(p) /\ ~EditCommit(p) /\ ~PayCommit(p) /\ ~BatchCommit(p)
           /\ \A x : ~Forgets(p, x)
           /\ \A x, y : ~Takes(p, x, y)
<1>1. p = q
  BY DEF OneAtOnce
<1>2. pc[p] = "RemoveDrop"
  BY <1>1 DEF RemoveDrop
<1> QED BY <1>2 DEF CreateCommit, EditCommit, PayCommit, BatchCommit, Forgets, Takes, RemoveForget,
           MergeCommit, JoinClaim

\* Who a placeholder turns out to be takes its seats.
LEMMA TakerSeated ==
    ASSUME IInv, WhoIsWho, [Next]_vars, NEW p \in Procs,
           NEW ghost \in People, NEW into \in People, Takes(p, ghost, into),
           NEW l \in Ledgers, Known(l, ghost)
    PROVE  Known(l, into)'
<1>1. /\ disbanded \subseteq disbanded' /\ people[ghost] = "ghost"
      /\ member \in [Groups -> [People -> {"none", "active", "left"}]]
  BY RowsAre, KeptForGood DEF Kept, Takes, MayAbsorb
<1>2. CASE ~Stands(l)
  BY <1>1, <1>2 DEF Known, Stands
<1>3. CASE Stands(l)
  <2>1. l \in Groups /\ Housed(l, ghost) /\ ghost # into
    BY <1>1, <1>3 DEF Known, Seat, Signed, Housed, Takes, MayAbsorb
  <2>2. member' = [g \in Groups |-> [x \in People |->
               IF x = ghost THEN "none"
               ELSE IF x = into /\ g \in {h \in Groups : Housed(h, ghost)} /\ member[g][x] # "active"
                    THEN member[g][ghost] ELSE member[g][x]]]
    BY DEF Takes, Absorb
  <2>3. member'[l][into] = IF member[l][into] # "active" THEN member[l][ghost] ELSE member[l][into]
    BY <2>1, <2>2
  <2>4. member'[l][into] # "none"
    BY <2>1, <2>3 DEF Housed
  <2> QED BY <2>1, <2>4 DEF Known, Seat
<1> QED BY <1>2, <1>3

LEMMA ExpenseNamesKnown ==
    ASSUME IInv, WhoIsWho, Asked, Unremoved, \A q \in Procs : Carries(q), RowsKnown, [Next]_vars,
           NEW e \in ExpenseIds, expenses'[e] # NoRow, NEW l \in Ledgers, l = expenses'[e].group,
           NEW x \in Named(expenses'[e].bill)
    PROVE  Known(l, x)'
<1>0. x \in People
  BY DEF Named
<1>1. ASSUME expenses[e] # NoRow, l = expenses[e].group, x \in Named(expenses[e].bill)
      PROVE  Known(l, x)'
  <2>1. Known(l, x) /\ ~Unseen(l, x)
    BY <1>1 DEF RowsKnown, AllKnown, Unseen
  <2> QED BY <1>0, <2>1, KnownUnlessDropped
<1>2. CASE SameBill(e)
  BY <1>1, <1>2 DEF SameBill
<1>3. ASSUME NEW p \in Procs, CreateCommit(p), e = req[p].id, expenses'[e].group = Draft[e].group,
             NewBill(e, Draft[e].bill)
      PROVE  Known(l, x)'
  <2>1. Place(p) = "CreateCommit"
    BY <1>3 DEF CreateCommit, Place, SheetAwaits
  <2>2. Known(l, x)
    BY <1>3, <2>1 DEF Carries, AllKnown, NewBill
  <2> QED BY <1>0, <1>3, <2>2, KnownUnlessDropped, OnlyOneMoves
<1>4. ASSUME NEW p \in Procs, EditCommit(p), e = req[p].id, NewBill(e, req[p].bill),
             expenses'[e].group = expenses[e].group
      PROVE  Known(l, x)'
  <2>1. Place(p) = "EditCommit"
    BY <1>4 DEF EditCommit, Place, SheetAwaits
  <2>2. Known(l, x)
    BY <1>4, <2>1 DEF Carries, AllKnown, NewBill
  <2> QED BY <1>0, <1>4, <2>2, KnownUnlessDropped, OnlyOneMoves
<1>5. ASSUME NEW p \in Procs, NEW y \in People, Forgets(p, y)
      PROVE  Known(l, x)'
  BY <1>1, <1>5, RowsAre, ForgottenRows, DroppedBill
<1>6. ASSUME NEW p \in Procs, NEW ghost \in People, NEW into \in People, Takes(p, ghost, into)
      PROVE  Known(l, x)'
  <2>1. /\ expenses[e] # NoRow /\ l = expenses[e].group
        /\ x \in Named(expenses[e].bill) \/ (x = into /\ ghost \in Named(expenses[e].bill))
    BY <1>6, RowsAre, TakenRows, MovedBill
  <2>2. CASE x = into /\ ghost \in Named(expenses[e].bill)
    <3>1. Known(l, ghost)
      BY <2>1, <2>2 DEF RowsKnown, AllKnown
    <3> QED BY <1>6, <2>2, <3>1, TakerSeated
  <2> QED BY <1>1, <2>1, <2>2
<1> QED BY <1>2, <1>3, <1>4, <1>5, <1>6, ExpenseBecomes DEF ExpenseOf

\* What a sheet counts for nothing names nobody it should not.
LEMMA PaymentNamesKnown ==
    ASSUME IInv, WhoIsWho, Asked, Unremoved, \A q \in Procs : Carries(q), RowsKnown, [Next]_vars,
           NEW s \in PaymentIds, payments'[s] # NoRow, NEW l \in Ledgers, l = payments'[s].group,
           NEW x \in {payments'[s].from, payments'[s].to}, x \in People,
           \A p \in Procs : \A r : Transferred(p, s, r) =>
               AllKnown(r.group, {Me(p), BatchDraft[req[p].id].other})
    PROVE  Known(l, x)'
<1>1. ASSUME payments[s] # NoRow, l = payments[s].group, x \in {payments[s].from, payments[s].to}
      PROVE  Known(l, x)'
  <2>1. Known(l, x) /\ ~Unseen(l, x)
    BY <1>1 DEF RowsKnown, AllKnown, Unseen
  <2> QED BY <2>1, KnownUnlessDropped
<1>2. CASE SamePayment(s)
  BY <1>1, <1>2 DEF SamePayment
<1>3. ASSUME NEW p \in Procs, Paid(p, s)
      PROVE  Known(l, x)'
  <2>1. Place(p) = "PayCommit" /\ PayCommit(p) /\ s = req[p].id
    BY <1>3 DEF Paid, PayCommit, Place, SheetAwaits
  <2>2. Known(l, x)
    BY <1>3, <2>1 DEF Carries, AllKnown, Paid
  <2> QED BY <2>1, <2>2, KnownUnlessDropped, OnlyOneMoves
<1>4. ASSUME NEW p \in Procs, NEW r, Transferred(p, s, r)
      PROVE  Known(l, x)'
  <2>1. x \in {Me(p), BatchDraft[req[p].id].other} /\ l = r.group /\ BatchCommit(p)
    BY <1>4 DEF Transferred
  <2>2. Known(l, x)
    BY <1>4, <2>1 DEF AllKnown
  <2> QED BY <2>1, <2>2, KnownUnlessDropped, OnlyOneMoves
<1>6. ASSUME NEW p \in Procs, NEW ghost \in People, NEW into \in People, Takes(p, ghost, into)
      PROVE  Known(l, x)'
  <2>1. /\ payments[s] # NoRow /\ l = payments[s].group
        /\ \/ x \in {payments[s].from, payments[s].to}
           \/ x = into /\ ghost \in {payments[s].from, payments[s].to}
    BY <1>6, TakenRows DEF As
  <2>2. CASE x = into /\ ghost \in {payments[s].from, payments[s].to}
    <3>1. Known(l, ghost)
      BY <2>1, <2>2 DEF RowsKnown, AllKnown
    <3> QED BY <1>6, <2>2, <3>1, TakerSeated
  <2> QED BY <1>1, <2>1, <2>2
<1> QED BY <1>2, <1>3, <1>4, <1>6, PaymentBecomes DEF PaymentOf

\* A bill that is not its draft's or its edit's is what it was, moved over or with
\* somebody without a share in it dropped.
LEMMA BillsStay ==
    ASSUME IInv, WhoIsWho, \A q \in Procs : Carries(q), RowsKnown, BillsAddUp, [Next]_vars
    PROVE  BillsAddUp'
<1> SUFFICES ASSUME NEW e \in ExpenseIds, expenses'[e] # NoRow, expenses'[e].group \notin disbanded'
             PROVE  AddsUp(expenses'[e].bill)
  BY DEF BillsAddUp, There, Stands
<1>1. expenses'[e] # NoRow /\ Stands(expenses'[e].group)
  <2>1. disbanded \subseteq disbanded'
    BY KeptForGood DEF Kept
  <2> QED BY <2>1 DEF Stands
<1>2. ASSUME expenses[e] # NoRow, expenses'[e].group = expenses[e].group
      PROVE  AddsUp(expenses[e].bill)
  BY <1>1, <1>2 DEF BillsAddUp, There
<1>3. CASE SameBill(e)
  BY <1>2, <1>3 DEF SameBill
<1>4. ASSUME NEW p \in Procs, CreateCommit(p), e = req[p].id, NewBill(e, Draft[e].bill)
      PROVE  AddsUp(expenses'[e].bill)
  <2>1. Place(p) = "CreateCommit"
    BY <1>4 DEF CreateCommit, Place, SheetAwaits
  <2> QED BY <1>4, <2>1 DEF Carries, NewBill
<1>5. ASSUME NEW p \in Procs, EditCommit(p), e = req[p].id, NewBill(e, req[p].bill)
      PROVE  AddsUp(expenses'[e].bill)
  <2>1. Place(p) = "EditCommit"
    BY <1>5 DEF EditCommit, Place, SheetAwaits
  <2> QED BY <1>5, <2>1 DEF Carries, NewBill
<1>6. ASSUME NEW p \in Procs, NEW x \in People, Forgets(p, x)
      PROVE  AddsUp(expenses'[e].bill)
  <2>1. /\ expenses[e] # NoRow /\ expenses'[e].group = expenses[e].group
        /\ expenses'[e].bill = BillWithout(expenses[e].bill, x) /\ expenses[e].bill \in BillRows
        /\ expenses[e].group \in Ledgers
    BY <1>1, <1>6, RowsAre, ForgottenRows
  <2>2. ~Seat(expenses[e].group, x) /\ people[x] = "ghost"
    BY <1>1, <1>6, <2>1 DEF Forgets, Housed, Seat, Signed, Ledgers
  <2>3. ~Known(expenses[e].group, x)
    BY <1>1, <2>1, <2>2 DEF Known
  <2>4. x \notin Named(expenses[e].bill)
    BY <2>1, <2>3 DEF RowsKnown, AllKnown
  <2>5. /\ expenses'[e].bill.amount = expenses[e].bill.amount
        /\ expenses'[e].bill.paid = expenses[e].bill.paid
        /\ expenses'[e].bill.owed = expenses[e].bill.owed
    BY <2>1, <2>4, DroppedBill
  <2> QED BY <1>2, <2>1, <2>5 DEF AddsUp
<1>7. ASSUME NEW p \in Procs, NEW ghost \in People, NEW into \in People, Takes(p, ghost, into)
      PROVE  AddsUp(expenses'[e].bill)
  BY <1>1, <1>2, <1>7, RowsAre, TakenRows, MovedBill
<1> QED BY <1>1, <1>3, <1>4, <1>5, <1>6, <1>7, ExpenseBecomes DEF ExpenseOf

-----------------------------------------------------------------------------
(* A handler that does not move keeps what it holds.                       *)

Steady(q) == Rests(q) /\ reading'[q].groups = reading[q].groups

\* Every step, as what the handlers hold goes.
LEMMA StepsHold ==
    ASSUME IInv, [Next]_vars
    PROVE  \/ \A q \in Procs : Place(q)' = "idle"
           \/ (\A q \in Procs : Steady(q)) /\ UNCHANGED <<circle, rows>>
           \/ \E p \in Procs : /\ Handle(p) /\ Lands(p)
                               /\ Place(p)' = "idle" \/ req'[p] = req[p]
                               /\ \A q \in Procs \ {p} : Steady(q)
           \/ \E p \in Procs : /\ \A q \in Procs \ {p} : Steady(q)
                               /\ Place(p)' \notin Carrying
                               /\ UNCHANGED <<circle, rows>>
<1>1. Before /\ ControlOK
  BY DEF IInv, Before, TypeOK
<1>2. CASE Restart
  BY <1>2 DEF Restart, Place, SheetAwaits
<1>3. CASE UNCHANGED vars
  BY <1>3 DEF vars, circle, rows, Steady, Rests, Place
<1>4. ASSUME NEW p \in Procs, Reads(p)
      PROVE  (\A q \in Procs : Steady(q)) /\ UNCHANGED <<circle, rows>>
  <2>1. /\ Place(p)' = Place(p) /\ UNCHANGED <<circle, rows, announced, req, seen, on, waits>>
        /\ \A q \in Procs \ {p} : Place(q)' = Place(q) /\ reading'[q] = reading[q]
        /\ reading'[p].groups = reading[p].groups
    BY <1>1, <1>4, SheetSteps
  <2> QED BY <2>1 DEF Steady, Rests
<1>5. ASSUME NEW p \in Procs, Handle(p), ~Reads(p)
      PROVE  /\ Lands(p) /\ (Place(p)' = "idle" \/ req'[p] = req[p])
             /\ \A q \in Procs \ {p} : Steady(q)
  <2>1. /\ Lands(p) /\ (Place(p)' = "idle" \/ req'[p] = req[p])
        /\ \A q \in Procs \ {p} : Rests(q)
    BY <1>1, <1>5, HandleLands
  <2>2. Remembers(p)
    BY <1>1, <1>5, ExpenseRemembers, PaymentRemembers, MemberRemembers, EndingRemembers
    DEF Handle, Reads
  <2>3. \A q \in Procs \ {p} : reading'[q] = reading[q]
    BY <1>1, <2>2 DEF Remembers, Finish, Enqueue, Go, ReadSheets, ControlOK
  <2> QED BY <2>1, <2>3 DEF Steady
<1>6. ASSUME NEW p \in Procs, Arrive(p)
      PROVE  /\ \A q \in Procs \ {p} : Steady(q)
             /\ Place(p)' \notin Carrying
             /\ UNCHANGED <<circle, rows>>
  <2>1. \A q \in Procs \ {p} : Rests(q)
    BY <1>1, <1>6, Knocks
  <2>2. UNCHANGED <<circle, rows, reading>>
    BY <1>6 DEF Arrive
  <2>3. PICK r \in Arrivals : pc' = [pc EXCEPT ![p] = r.op]
    BY <1>6 DEF Arrive
  <2>4. r.op \notin SheetAwaits /\ r.op \notin Carrying
    BY DEF Arrivals, ExpenseArrivals, PaymentArrivals, PaymentRequests, MemberArrivals,
       MemberRequests, EndingArrivals, EndingRequests, SheetAwaits, Carrying
  <2>5. Place(p)' = r.op
    BY <1>1, <2>3, <2>4 DEF Place, ControlOK
  <2> QED BY <2>1, <2>2, <2>4, <2>5 DEF Steady
<1> QED BY <1>2, <1>3, <1>4, <1>5, <1>6, StepIs

-----------------------------------------------------------------------------
(* Only those a sheet names owe anything on it.                            *)

LEMMA NobodyStands ==
    ASSUME NEW bill \in BillRows, NEW x \in People, x \notin Named(bill)
    PROVE  Standing(bill, x) = 0
<1>1. bill.paid[x] = 0 /\ bill.owed[x] = 0 /\ bill.amount \in Nat
  BY DEF BillRows, Named
<1>2. Column(bill.paid) \in Nat /\ Column(bill.owed) \in Nat
  BY ColumnType DEF BillRows
<1>3. \A n \in Nat : n # 0 => (0 * bill.amount) \div n = 0
  BY <1>1
<1>4. Spread(bill.paid, bill.amount, x) = 0 /\ Spread(bill.owed, bill.amount, x) = 0
  BY <1>1, <1>2, <1>3 DEF Spread
<1> QED BY <1>4 DEF Standing

LEMMA NobodyClaims ==
    ASSUME NEW bill \in BillRows, NEW x \in People, NEW y \in People,
           x \notin Named(bill) \/ y \notin Named(bill)
    PROVE  Claim(bill, x, y) = 0 /\ Claim(bill, y, x) = 0
BY NobodyStands DEF Claim

LEMMA NobodyOwes ==
    ASSUME NEW sheet \in Sheets, Finite(sheet), NEW x \in People, NEW y \in People,
           x \notin NamedOn(sheet) \/ y \notin NamedOn(sheet)
    PROVE  PairNet(sheet, x, y) = 0
<1> DEFINE E == [e \in sheet.expenses |-> Claim(e.bill, x, y) - Claim(e.bill, y, x)]
           P == [s \in sheet.payments |-> IF s.from = x /\ s.to = y THEN s.amount
                                          ELSE IF s.from = y /\ s.to = x THEN -s.amount
                                          ELSE 0]
<1>1. \A e \in sheet.expenses : E[e] = 0
  <2> SUFFICES ASSUME NEW e \in sheet.expenses PROVE Claim(e.bill, x, y) - Claim(e.bill, y, x) = 0
    OBVIOUS
  <2>1. e.bill \in BillRows
    BY DEF Sheets, ExpenseFolds
  <2>2. x \notin Named(e.bill) \/ y \notin Named(e.bill)
    BY DEF NamedOn
  <2> QED BY <2>1, <2>2, NobodyClaims
<1>2. \A s \in sheet.payments : P[s] = 0
  BY DEF NamedOn
<1>3. E \in [sheet.expenses -> Int] /\ P \in [sheet.payments -> Int]
  <2>1. DOMAIN E = sheet.expenses /\ DOMAIN P = sheet.payments
    OBVIOUS
  <2>2. E = [e \in sheet.expenses |-> E[e]] /\ P = [s \in sheet.payments |-> P[s]]
    OBVIOUS
  <2> HIDE DEF E, P
  <2> QED BY <1>1, <1>2, <2>1, <2>2
<1>4. SumFunction(E) = 0 /\ SumFunction(P) = 0
  <2> HIDE DEF E, P
  <2> QED BY <1>1, <1>2, <1>3, SumZero DEF Finite
<1> QED BY <1>4 DEF PairNet

\* Whoever a batch is filed between has a seat in each of its ledgers.
LEMMA TransfersKnown ==
    ASSUME IInv, SheetsHeld, NEW p \in Procs, Carries(p), NEW s, NEW r, Transferred(p, s, r)
    PROVE  AllKnown(r.group, {Me(p), BatchDraft[req[p].id].other})
<1> DEFINE other == BatchDraft[req[p].id].other
<1>1. /\ Place(p) = "BatchCommit" /\ Me(p) \in People /\ other \in People
      /\ r.amount <= Abs(Outstanding(p, r.group)) /\ r.group \in Ledgers /\ r.amount \in Nat \ {0}
  BY SettlementsAssumption DEF Transferred, BatchCommit, Place, SheetAwaits
<1>2. Outstanding(p, r.group) # 0
  BY <1>1 DEF Abs
<1>3. seen[p].direct \in Sheets /\ \A g \in Groups : reading[p].sheet[g] \in Sheets
  BY DEF IInv, TypeOK, ControlOK, Sightings, Readings
<1>4. CASE r.group = NoGroup
  <2>1. Me(p) \in NamedOn(seen[p].direct) /\ other \in NamedOn(seen[p].direct)
    BY <1>1, <1>2, <1>3, <1>4, NobodyOwes DEF Outstanding, SheetsHeld
  <2> QED BY <1>1, <1>4, <2>1, LedgerAssumption DEF Carries, AllKnown, Known, Seat
<1>5. CASE r.group \in Groups
  <2>1. PairNet(reading[p].sheet[r.group], Me(p), other) # 0
    BY <1>2, <1>5, LedgerAssumption DEF Outstanding
  <2>2. NamedOn(reading[p].sheet[r.group]) # {}
    BY <1>1, <1>3, <1>5, <2>1, NobodyOwes DEF SheetsHeld
  <2>3. reading[p].sheet[r.group] # EmptySheet
    BY <2>2 DEF NamedOn, EmptySheet
  <2>4. r.group \in reading[p].groups
    BY <1>5, <2>3 DEF SheetsHeld
  <2> QED BY <1>1, <2>4 DEF Carries
<1> QED BY <1>1, <1>4, <1>5 DEF Ledgers

-----------------------------------------------------------------------------
(* What the handlers hold still holds when they write.                     *)

\* An expense is filed in one ledger for good.
LEMMA GroupStays ==
    ASSUME IInv, [Next]_vars, NEW e \in ExpenseIds, expenses[e] \in ExpenseRows
    PROVE  expenses'[e] # NoRow /\ expenses'[e].group = expenses[e].group
<1>1. expenses'[e] # NoRow /\ expenses[e] # NoRow
  BY KeptForGood, RowAssumption DEF Kept
<1>2. ASSUME NEW p \in Procs, CreateCommit(p), e = req[p].id
      PROVE  expenses'[e] = expenses[e]
  BY <1>1, <1>2 DEF CreateCommit, Replay, Leave, rows
<1> QED BY <1>1, <1>2, ExpenseBecomes DEF ExpenseOf, SameBill

LEMMA KnownWhile ==
    ASSUME IInv, WhoIsWho, Asked, Unremoved, \A q \in Procs : Carries(q), [Next]_vars,
           NEW q \in Procs, Place(q) # "RemoveDrop"
    PROVE  \A l \in Ledgers : \A x \in People : Known(l, x) => Known(l, x)'
<1> SUFFICES ASSUME NEW l \in Ledgers, NEW x \in People, Known(l, x), NEW p \in Procs,
                    OneAtOnce, RemoveDrop(p)
             PROVE  FALSE
  BY KnownUnlessDropped
<1> QED BY DEF OneAtOnce, RemoveDrop, Place, SheetAwaits

\* The ledgers and people of what a handler holds.
LEMMA HeldTyped ==
    ASSUME IInv, NEW q \in Procs
    PROVE  /\ Place(q) = "CreateCommit" => req[q].id \in ExpenseIds
           /\ Place(q) \in EditAwaits =>
                 /\ req[q].id \in ExpenseIds /\ expenses[req[q].id] \in ExpenseRows
                 /\ expenses[req[q].id].group \in Ledgers
           /\ Place(q) \in PayAwaits => req[q].id \in LoneIds
           /\ Place(q) \in BatchAwaits =>
                 req[q].id \in BatchIds /\ BatchDraft[req[q].id].other \in People
           /\ Place(q) \in ExpenseAwaits \cup PaymentAwaits \cup MemberAwaits \cup EndingAwaits =>
                 Me(q) \in People
           /\ Place(q) \in {"AddSeat", "BefriendShare", "BefriendWrite", "RemoveDrop"} =>
                 req[q].who \in People
           /\ seen[q].people \subseteq People /\ NamedOn(seen[q].direct) \subseteq People
           /\ reading[q].groups \subseteq Groups
<1>1. ControlOK /\ Staged(Place(q), req[q])
  BY DEF IInv, TypeOK, ControlOK, Staged
<1>2. Place(q) = "CreateCommit" => req[q].id \in ExpenseIds
  BY <1>1 DEF Staged, ExpenseStage, ExpenseAwaits, CreateAwaits
<1>3. Place(q) \in EditAwaits =>
                 /\ req[q].id \in ExpenseIds /\ expenses[req[q].id] \in ExpenseRows
                 /\ expenses[req[q].id].group \in Ledgers
  <2>1. Place(q) \in EditAwaits => req[q].id \in ExpenseIds /\ expenses[req[q].id] \in ExpenseRows
    BY <1>1 DEF IInv, RowsFound, NeedsRow, Staged, ExpenseStage, ExpenseAwaits, EditAwaits
  <2> QED BY <2>1 DEF ExpenseRows
<1>4. Place(q) \in PayAwaits => req[q].id \in LoneIds
  BY <1>1 DEF Staged, PaymentStage, PaymentAwaits, PayAwaits
<1>5. Place(q) \in BatchAwaits =>
                 req[q].id \in BatchIds /\ BatchDraft[req[q].id].other \in People
  BY <1>1, SettlementsAssumption DEF Staged, PaymentStage, PaymentAwaits, BatchAwaits
<1>6. Place(q) \in ExpenseAwaits \cup PaymentAwaits \cup MemberAwaits \cup EndingAwaits =>
                 Me(q) \in People
  <2>1. Place(q) \in ExpenseAwaits \cup PaymentAwaits \cup MemberAwaits \cup EndingAwaits =>
           req[q].session \in Sessions
    BY <1>1 DEF ControlOK, ExpenseStage, PaymentStage, MemberStage, EndingStage
  <2> QED BY <2>1, LedgerAssumption DEF Me
<1>7. Place(q) \in {"AddSeat", "RemoveDrop"} => req[q].who \in People
  BY <1>1 DEF ControlOK, MemberStage, MemberAwaits, GroupAwaits, AddAwaits, RemoveAwaits
<1>8. Place(q) \in {"BefriendShare", "BefriendWrite"} => req[q].who \in People
  BY <1>1 DEF ControlOK, EndingStage, EndingAwaits, FriendAwaits
<1>9. /\ seen[q].people \subseteq People /\ NamedOn(seen[q].direct) \subseteq People
      /\ reading[q].groups \subseteq Groups
  BY <1>1 DEF ControlOK, Sightings, Readings, NamedOn
<1> QED BY <1>2, <1>3, <1>4, <1>5, <1>6, <1>7, <1>8, <1>9

\* A handler that waits still holds it.
LEMMA SteadyCarries ==
    ASSUME IInv, WhoIsWho, Asked, Unremoved, \A p \in Procs : Carries(p), [Next]_vars,
           NEW q \in Procs, Steady(q), Place(q) = "RemoveDrop" => ~OneAtOnce \/ UNCHANGED rows
    PROVE  Carries(q)'
<1>0. PICK r : r = req[q]
  OBVIOUS
<1>1. /\ Place(q)' = Place(q) /\ req'[q] = req[q] /\ seen'[q] = seen[q]
      /\ reading'[q].groups = reading[q].groups /\ Me(q)' = Me(q)
  BY DEF Steady, Rests, Me
<1>2. Place(q) # "RemoveDrop" => \A l \in Ledgers : \A x \in People : Known(l, x) => Known(l, x)'
  BY KnownWhile
<1>3. \A x \in People : Signed(x) => Signed(x)'
  BY PeopleStay DEF PeopleKeep
<1>4. CASE Place(q) = "CreateCommit"
  <2>0. r.id \in ExpenseIds
    BY <1>0, <1>4, HeldTyped
  <2>1. Draft[r.id].group \in Ledgers /\ Named(Draft[r.id].bill) \subseteq People
    BY <2>0, ExpensesAssumption DEF Named
  <2>a. \A x \in Named(Draft[r.id].bill) : Known(Draft[r.id].group, x)
    BY <1>0, <1>4 DEF Carries, AllKnown
  <2>2. \A x \in Named(Draft[r.id].bill) : Known(Draft[r.id].group, x)'
    BY <1>2, <1>4, <2>1, <2>a
  <2>3. AddsUp(Draft[r.id].bill)
    BY <1>0, <1>4 DEF Carries
  <2> QED BY <1>0, <1>1, <1>4, <2>2, <2>3 DEF Carries, AllKnown, Known, Seat, Stands, Signed
<1>5. CASE Place(q) \in {"EditInvolve", "EditCheck", "EditCommit"}
  <2> DEFINE e == req[q].id
  <2>1. /\ expenses[e] \in ExpenseRows /\ e \in ExpenseIds /\ seen[q].people \subseteq People
        /\ expenses[e].group \in Ledgers
    BY <1>5, HeldTyped DEF EditAwaits
  <2>2. expenses'[e].group = expenses[e].group
    BY <2>1, GroupStays
  <2>3. Place(q) = "EditInvolve" => \A x \in seen[q].people : Known(expenses[e].group, x)
    BY DEF Carries, AllKnown
  <2>4. Place(q) \in {"EditCheck", "EditCommit"} =>
           AddsUp(req[q].bill) /\ \A x \in Named(req[q].bill) : Known(expenses[e].group, x)
    BY DEF Carries, AllKnown
  <2>5. PICK l \in Ledgers : l = expenses[e].group
    BY <2>1
  <2>6. Place(q) = "EditInvolve" => \A x \in seen[q].people : Known(l, x)'
    BY <1>2, <2>1, <2>3, <2>5
  <2>7. Place(q) \in {"EditCheck", "EditCommit"} =>
           AddsUp(req[q].bill) /\ \A x \in Named(req[q].bill) : Known(l, x)'
    BY <1>2, <2>4, <2>5 DEF Named
  <2>8. Place(q) = "EditInvolve" => AllKnown(expenses[req[q].id].group, seen[q].people)'
    BY <1>1, <2>2, <2>5, <2>6 DEF AllKnown, Known, Seat, Stands, Signed
  <2>9. Place(q) \in {"EditCheck", "EditCommit"} => AllKnown(expenses[req[q].id].group, Named(req[q].bill))'
    BY <1>1, <2>2, <2>5, <2>7 DEF AllKnown, Known, Seat, Stands, Signed
  <2> HIDE DEF e
  <2> QED BY <1>1, <1>5, <2>7, <2>8, <2>9 DEF Carries
<1>6. CASE Place(q) \in {"PayTurn", "PayCommit"}
  <2> DEFINE d == PaymentDraft[r.id]
  <2>0. r.id \in LoneIds
    BY <1>0, <1>6, HeldTyped DEF PayAwaits
  <2>1. d.group \in Ledgers /\ d.from \in People /\ d.to \in People
    BY <2>0, SettlementsAssumption
  <2>a. \A x \in {d.from, d.to} : Known(d.group, x)
    BY <1>0, <1>6 DEF Carries, AllKnown
  <2>2. \A x \in {d.from, d.to} : Known(d.group, x)'
    <3> HIDE DEF d
    <3> QED BY <1>2, <1>6, <2>1, <2>a
  <2>3. AllKnown(PaymentDraft[req[q].id].group,
                 {PaymentDraft[req[q].id].from, PaymentDraft[req[q].id].to})'
    BY <1>0, <1>1, <2>2 DEF AllKnown, Known, Seat, Stands, Signed
  <2> QED BY <1>1, <1>6, <2>3 DEF Carries
<1>7. CASE Place(q) = "BatchCommit"
  <2> DEFINE other == BatchDraft[req[q].id].other
  <2>1. /\ Me(q) \in People /\ other \in People /\ reading[q].groups \subseteq Groups
        /\ NamedOn(seen[q].direct) \subseteq People
    BY <1>7, HeldTyped DEF BatchAwaits, PaymentAwaits
  <2>a. \A g \in reading[q].groups : \A x \in {Me(q), other} : Known(g, x)
    BY <1>7 DEF Carries, AllKnown
  <2>2. \A g \in reading[q].groups : \A x \in {Me(q), other} : Known(g, x)'
    <3> HIDE DEF other
    <3> QED BY <1>2, <1>7, <2>1, <2>a DEF Ledgers
  <2>3. \A x \in NamedOn(seen[q].direct) : Signed(x)'
    BY <1>3, <1>7, <2>1 DEF Carries
  <2>4. NamedOn(seen[q].direct)' = NamedOn(seen[q].direct)
    BY <1>1 DEF NamedOn
  <2> QED BY <1>1, <1>7, <2>2, <2>3, <2>4 DEF Carries, AllKnown, Known, Seat, Stands, Signed
<1>8. CASE Place(q) \in {"AddSeat", "BefriendShare", "BefriendWrite"}
  <2>1. Signed(r.who)'
    BY <1>0, <1>3, <1>8, HeldTyped DEF Carries
  <2> QED BY <1>0, <1>1, <1>8, <2>1 DEF Carries, Signed
<1>9. CASE Place(q) = "RemoveDrop"
  BY <1>1, <1>9 DEF Carries, Unseen, rows, OneAtOnce
<1>10. CASE Place(q) \notin {"CreateCommit", "EditInvolve", "EditCheck", "EditCommit", "PayTurn",
                "PayCommit", "BatchCommit", "AddSeat", "BefriendShare", "BefriendWrite", "RemoveDrop"}
  BY <1>1, <1>10 DEF Carries
<1> QED BY <1>4, <1>5, <1>6, <1>7, <1>8, <1>9, <1>10

\* A handler that goes on to write has just checked it.
LEMMA LandsKeeping ==
    ASSUME IInv, NEW p \in Procs, Lands(p),
           Place(p)' \in {"CreateCommit", "EditInvolve", "EditCheck", "EditCommit", "PayTurn",
                          "PayCommit", "BatchCommit", "AddSeat", "BefriendShare", "BefriendWrite",
                          "RemoveDrop"}
    PROVE  /\ UNCHANGED <<circle, rows>>
           /\ \A l, x : Known(l, x)' <=> Known(l, x)
           /\ \A x : Signed(x)' <=> Signed(x)
<1>1. ControlOK
  BY DEF IInv, TypeOK
<1>2. ASSUME NEW label, label \notin SheetAwaits, Finish(p), Place(p)' = label, label # "idle" PROVE FALSE
  BY <1>1, <1>2, GoneTo
<1>3. ~Finish(p)
  BY <1>2 DEF SheetAwaits
<1>4. UNCHANGED <<circle, rows>>
  BY <1>3 DEF Lands, Carrying, CreateInvolve, EditLoad, EditInvolve, EditCheck, PayMembers, PayTurn,
     BatchShared, AddAccess, BefriendLook, BefriendShare, CodeLook, RemoveCount, Leave
<1> QED BY <1>4 DEF circle, rows, Known, Seat, Stands, Signed

\* Active members have a seat, and friends an account.
LEMMA ActiveKnown ==
    ASSUME CircleHolds, NEW l \in Ledgers, NEW x
    PROVE  /\ l \in Groups /\ x \in Active(l) => Known(l, x)
           /\ \A f \in friends : x \in f /\ l \notin Groups => Known(l, x)
BY DEF CircleHolds, Active, Housed, Known, Seat

LEMMA InvolvedKnown ==
    ASSUME CircleHolds, NEW l \in Ledgers, NEW bill, NEW me, Signed(me), NEW already,
           CanInvolve(bill, me, l, already), AllKnown(l, already)
    PROVE  AllKnown(l, Named(bill))
<1> SUFFICES ASSUME NEW x \in Named(bill) PROVE Known(l, x)
  BY DEF AllKnown
<1>1. CASE l \in Groups
  BY <1>1, ActiveKnown DEF CanInvolve, AllKnown
<1>2. CASE l \notin Groups
  <2>1. x \in already \/ x = me \/ {me, x} \in friends
    BY <1>2 DEF CanInvolve
  <2> QED BY <1>2, <2>1, ActiveKnown DEF AllKnown, Known, Seat
<1> QED BY <1>1, <1>2

LEMMA LandingCarries ==
    ASSUME IInv, WhoIsWho, NamesHold, CircleHolds, RowsKnown, NEW p \in Procs, Carries(p),
           Lands(p), req'[p] = req[p]
    PROVE  Carries(p)'
<1>0. PICK r : r = req[p]
  OBVIOUS
<1>1. /\ ControlOK /\ req'[p] = r /\ Me(p)' = Me(p) /\ IInv
      /\ \A label, x : Go(p, label, x) => seen'[p] = x
  BY <1>0 DEF IInv, TypeOK, Me, ControlOK, Go
<1>2. ASSUME Place(p)' \in {"CreateCommit", "EditInvolve", "EditCheck", "EditCommit", "PayTurn",
                            "PayCommit", "BatchCommit", "AddSeat", "BefriendShare", "BefriendWrite",
                            "RemoveDrop"}
      PROVE  /\ UNCHANGED <<circle, rows>> /\ \A x : Signed(x)' <=> Signed(x)
             /\ \A l, x : Known(l, x)' <=> Known(l, x)
             /\ ~Finish(p)
  <2>1. ~Finish(p)
    BY <1>1, <1>2, GoneTo DEF SheetAwaits
  <2> QED BY <1>2, <2>1, LandsKeeping
<1>4. CASE Place(p)' = "CreateCommit"
  <2>1. CreateInvolve(p) /\ Place(p) = "CreateInvolve"
    BY <1>4 DEF Lands, Carrying, CreateInvolve, Place, SheetAwaits
  <2>2. AddsUp(Draft[r.id].bill) /\ CanInvolve(Draft[r.id].bill, Me(p), Draft[r.id].group, {})
    BY <1>0, <1>2, <1>4, <2>1 DEF CreateInvolve, Leave
  <2>3. Signed(Me(p)) /\ r.id \in ExpenseIds
    BY <1>0, <1>1, <2>1, MeSigned DEF ExpenseAwaits, CreateAwaits, ControlOK, ExpenseStage
  <2>4. Draft[r.id].group \in Ledgers
    BY <2>3, ExpensesAssumption
  <2>5. AllKnown(Draft[r.id].group, Named(Draft[r.id].bill))
    BY <2>2, <2>3, <2>4, InvolvedKnown DEF AllKnown
  <2>6. AllKnown(Draft[req[p].id].group, Named(Draft[req[p].id].bill))'
    BY <1>0, <1>1, <1>2, <1>4, <2>5 DEF AllKnown
  <2>7. AddsUp(Draft[req[p].id].bill)'
    BY <1>0, <1>1, <2>2
  <2> QED BY <1>4, <2>6, <2>7 DEF Carries
<1>5. CASE Place(p)' \in {"EditInvolve", "EditCheck", "EditCommit"}
  <2>1. /\ EditLoad(p) \/ EditInvolve(p) \/ EditCheck(p)
        /\ Place(p) = pc[p]
    BY <1>5 DEF Lands, Carrying, EditLoad, EditInvolve, EditCheck, Place, SheetAwaits
  <2>2. Place(p) \in EditAwaits
    BY <2>1 DEF EditAwaits, EditLoad, EditInvolve, EditCheck
  <2>3. r.id \in ExpenseIds /\ expenses[r.id] \in ExpenseRows /\ expenses[r.id].group \in Ledgers
    BY <1>0, <2>2, HeldTyped
  <2>4. PICK row : row = expenses[r.id]
    OBVIOUS
  <2>5. row # NoRow /\ expenses'[r.id] = row
    BY <1>2, <1>5, <2>3, <2>4, RowAssumption DEF rows
  <2>6. Signed(Me(p))
    <3>1. Place(p) \in ExpenseAwaits
      BY <2>2 DEF ExpenseAwaits, NeedsRow
    <3> QED BY <1>1, <3>1, MeSigned
  <2>7. CASE Place(p)' = "EditInvolve"
    <3>1. EditLoad(p)
      BY <2>7 DEF Lands, Carrying
    <3>2. seen'[p] = [Nothing EXCEPT !.people = Named(row.bill)]
      BY <1>0, <1>1, <1>2, <1>5, <2>4, <3>1 DEF EditLoad, Leave
    <3>3. seen'[p].people = Named(row.bill)
      BY <3>2 DEF Nothing
    <3>4. AllKnown(row.group, Named(row.bill))
      BY <2>3, <2>4, <2>5 DEF RowsKnown
    <3>5. AllKnown(expenses[req[p].id].group, seen[p].people)'
      BY <1>0, <1>1, <1>2, <1>5, <2>5, <3>3, <3>4 DEF AllKnown
    <3> QED BY <2>7, <3>5 DEF Carries
  <2>8. CASE Place(p)' = "EditCheck"
    <3>1. EditInvolve(p) /\ Place(p) = "EditInvolve"
      BY <2>1, <2>8 DEF Lands, Carrying, EditInvolve
    <3>2. /\ AddsUp(r.bill) /\ CanInvolve(r.bill, Me(p), row.group, seen[p].people)
          /\ AllKnown(row.group, seen[p].people)
      BY <1>0, <1>2, <1>5, <2>4, <3>1 DEF EditInvolve, Leave, Carries
    <3>3. AllKnown(row.group, Named(r.bill))
      BY <2>3, <2>4, <2>6, <3>2, InvolvedKnown
    <3>4. AllKnown(expenses[req[p].id].group, Named(req[p].bill))'
      BY <1>0, <1>1, <1>2, <1>5, <2>5, <3>3 DEF AllKnown
    <3>5. AddsUp(req[p].bill)'
      BY <1>0, <1>1, <3>2
    <3> QED BY <2>8, <3>4, <3>5 DEF Carries
  <2>9. CASE Place(p)' = "EditCommit"
    <3>1. EditCheck(p) /\ Place(p) = "EditCheck"
      BY <2>1, <2>9 DEF Lands, Carrying, EditCheck
    <3>2. AddsUp(r.bill) /\ AllKnown(row.group, Named(r.bill))
      BY <1>0, <2>4, <3>1 DEF Carries
    <3>4. AllKnown(expenses[req[p].id].group, Named(req[p].bill))'
      BY <1>0, <1>1, <1>2, <1>5, <2>5, <3>2 DEF AllKnown
    <3>5. AddsUp(req[p].bill)'
      BY <1>0, <1>1, <3>2
    <3> QED BY <2>9, <3>4, <3>5 DEF Carries
  <2> QED BY <1>5, <2>7, <2>8, <2>9
<1>6. CASE Place(p)' \in {"PayTurn", "PayCommit"}
  <2>1. /\ PayMembers(p) \/ PayTurn(p)
        /\ Place(p) = pc[p]
    BY <1>6 DEF Lands, Carrying, PayMembers, PayTurn, Place, SheetAwaits
  <2>2. r.id \in LoneIds
    <3>1. Place(p) \in PayAwaits
      BY <2>1 DEF PayAwaits, PayMembers, PayTurn
    <3> QED BY <1>0, <3>1, HeldTyped
  <2>3. PICK d : d = PaymentDraft[r.id]
    OBVIOUS
  <2>4. d.group \in Ledgers
    BY <2>2, <2>3, SettlementsAssumption
  <2>5. AllKnown(d.group, {d.from, d.to})
    <3>1. CASE PayMembers(p)
      <4>1. IF d.group \in Groups THEN {Me(p), d.from, d.to} \subseteq Active(d.group)
            ELSE {d.from, d.to} \in friends
        BY <1>0, <1>2, <1>6, <2>3, <3>1 DEF PayMembers, Leave
      <4> QED BY <2>4, <4>1, ActiveKnown DEF AllKnown
    <3>2. CASE PayTurn(p)
      BY <1>0, <2>1, <2>3, <3>2 DEF PayTurn, Carries
    <3> QED BY <2>1, <3>1, <3>2
  <2>6. AllKnown(PaymentDraft[req[p].id].group,
                 {PaymentDraft[req[p].id].from, PaymentDraft[req[p].id].to})'
    BY <1>0, <1>1, <1>2, <1>6, <2>3, <2>5 DEF AllKnown
  <2> QED BY <1>6, <2>6 DEF Carries
<1>7. CASE Place(p)' = "BatchCommit"
  <2>1. BatchShared(p) /\ Place(p) = "BatchShared"
    BY <1>7 DEF Lands, Carrying, BatchShared, Place, SheetAwaits
  <2>2. PICK other : other = BatchDraft[r.id].other
    OBVIOUS
  <2>3. PICK shared : shared = {g \in Groups : {Me(p), other} \subseteq Active(g)}
    OBVIOUS
  <2>4. /\ reading'[p].groups = shared
        /\ seen'[p].direct = Sheet(NoGroup)
    BY <1>0, <1>1, <2>1, <2>2, <2>3 DEF BatchShared, ReadSheets, ControlOK, NotReading, Nothing
  <2>5. \A g \in shared : AllKnown(g, {Me(p), other})
    BY <2>3, ActiveKnown DEF AllKnown, Ledgers
  <2>6. \A x \in NamedOn(Sheet(NoGroup)) : Signed(x)
    <3> SUFFICES ASSUME NEW x \in NamedOn(Sheet(NoGroup)) PROVE Signed(x)
      OBVIOUS
    <3>1. \/ \E e \in LiveExpenses(NoGroup) : x \in Named(expenses[e].bill)
          \/ \E s \in LivePayments(NoGroup) : x \in {payments[s].from, payments[s].to}
      BY DEF NamedOn, Sheet, ExpensesOf, PaymentsOf
    <3>2. Known(NoGroup, x) /\ Exist({x}) /\ Stands(NoGroup)
      BY <3>1 DEF LiveExpenses, LivePayments, There, RowsKnown, NamesHold, AllKnown, Exist
    <3> QED BY <3>2, LedgerAssumption DEF Known, Seat, Exist
  <2>7. \A g \in reading'[p].groups : AllKnown(g, {Me(p), BatchDraft[req[p].id].other})'
    BY <1>0, <1>1, <1>2, <1>7, <2>2, <2>4, <2>5 DEF AllKnown
  <2>8. \A x \in NamedOn(seen[p].direct)' : Signed(x)'
    BY <1>2, <1>7, <2>4, <2>6 DEF NamedOn
  <2> QED BY <1>7, <2>7, <2>8 DEF Carries
<1>8. CASE Place(p)' \in {"AddSeat", "BefriendShare", "BefriendWrite"}
  <2>1. /\ AddAccess(p) \/ BefriendLook(p) \/ BefriendShare(p) \/ CodeLook(p)
        /\ Place(p) = pc[p]
    BY <1>8 DEF Lands, Carrying, AddAccess, BefriendLook, BefriendShare, CodeLook, Place, SheetAwaits
  <2>2. Signed(r.who)
    BY <1>0, <1>2, <1>8, <2>1 DEF AddAccess, BefriendLook, BefriendShare, CodeLook, Leave, Signed,
       Carries
  <2>3. Signed(req[p].who)'
    BY <1>0, <1>1, <1>2, <1>8, <2>2 DEF Signed
  <2> QED BY <1>8, <2>3 DEF Carries
<1>9. CASE Place(p)' = "RemoveDrop"
  <2>1. RemoveCount(p)
    BY <1>9 DEF Lands, Carrying
  <2>2. Unseen(r.group, r.who)
    BY <1>0, <1>1, <1>2, <1>9, <2>1, GoneTo DEF RemoveCount, Leave, Unseen, SheetAwaits
  <2>3. Unseen(req[p].group, req[p].who)'
    BY <1>0, <1>1, <1>2, <1>9, <2>2 DEF Unseen, rows
  <2> QED BY <1>9, <2>3 DEF Carries
<1> QED BY <1>4, <1>5, <1>6, <1>7, <1>8, <1>9 DEF Carries

LEMMA CarriesStay ==
    ASSUME IInv, Unremoved, Grounded, [Next]_vars
    PROVE  \A p \in Procs : Carries(p)'
<1>0. /\ WhoIsWho /\ NamesHold /\ CircleHolds /\ RowsKnown /\ Asked
      /\ \A p \in Procs : Carries(p)
  BY DEF Grounded
<1>1. ASSUME NEW q \in Procs, Place(q)' \notin Carrying
      PROVE  Carries(q)'
  BY <1>1 DEF Carries, Carrying
<1>2. CASE \A q \in Procs : Place(q)' = "idle"
  BY <1>1, <1>2 DEF Carrying
<1>3. CASE (\A q \in Procs : Steady(q)) /\ UNCHANGED <<circle, rows>>
  BY <1>0, <1>3, SteadyCarries
<1>4. ASSUME NEW p \in Procs, Lands(p), Place(p)' = "idle" \/ req'[p] = req[p],
             \A q \in Procs \ {p} : Steady(q)
      PROVE  \A q \in Procs : Carries(q)'
  <2>1. Carries(p)'
    BY <1>0, <1>1, <1>4, LandingCarries DEF Carrying
  <2>2. \A q \in Procs \ {p} : Carries(q)'
    BY <1>0, <1>4, SteadyCarries DEF OneAtOnce
  <2> QED BY <2>1, <2>2
<1>5. ASSUME NEW p \in Procs, \A q \in Procs \ {p} : Steady(q), Place(p)' \notin Carrying,
             UNCHANGED <<circle, rows>>
      PROVE  \A q \in Procs : Carries(q)'
  BY <1>0, <1>1, <1>5, SteadyCarries
<1> QED BY <1>2, <1>3, <1>4, <1>5, StepsHold

LEMMA RowsKnownStay ==
    ASSUME IInv, Unremoved, Grounded, [Next]_vars
    PROVE  RowsKnown'
<1>0. /\ WhoIsWho /\ SheetsHeld /\ RowsKnown /\ Asked
      /\ \A p \in Procs : Carries(p)
  BY DEF Grounded
<1>1. IInv'
  BY Inductive
<1>2. /\ \A e \in ExpenseIds : expenses'[e] # NoRow => expenses'[e].group \in Ledgers
      /\ \A s \in PaymentIds : payments'[s] # NoRow =>
            payments'[s].group \in Ledgers /\ payments'[s].from \in People /\ payments'[s].to \in People
  BY <1>1 DEF IInv, TypeOK, DataOK, ExpenseRows, PaymentRows
<1>3. ASSUME NEW e \in ExpenseIds, expenses'[e] # NoRow
      PROVE  AllKnown(expenses[e].group, Named(expenses[e].bill))'
  <2>1. PICK l \in Ledgers : l = expenses'[e].group
    BY <1>2, <1>3
  <2>2. \A x \in Named(expenses'[e].bill) : Known(l, x)'
    BY <1>0, <1>3, <2>1, ExpenseNamesKnown
  <2> QED BY <2>1, <2>2 DEF AllKnown
<1>4. ASSUME NEW s \in PaymentIds, payments'[s] # NoRow
      PROVE  AllKnown(payments[s].group, {payments[s].from, payments[s].to})'
  <2>1. PICK l \in Ledgers : l = payments'[s].group
    BY <1>2, <1>4
  <2>2. \A p \in Procs : \A r : Transferred(p, s, r) =>
               AllKnown(r.group, {Me(p), BatchDraft[req[p].id].other})
    BY <1>0, TransfersKnown
  <2>3. \A x \in {payments'[s].from, payments'[s].to} : Known(l, x)'
    BY <1>0, <1>2, <1>4, <2>1, <2>2, PaymentNamesKnown
  <2> QED BY <2>1, <2>3 DEF AllKnown
<1> QED BY <1>3, <1>4 DEF RowsKnown

LEMMA GroundedStays == IInv /\ Unremoved /\ Grounded /\ [Next]_vars => Grounded'
<1> SUFFICES ASSUME IInv, Unremoved, Grounded, [Next]_vars PROVE Grounded'
  OBVIOUS
<1>0. /\ WhoIsWho /\ NamesHold /\ CircleHolds /\ SheetsHeld /\ Asked /\ RowsKnown /\ BillsAddUp
      /\ \A p \in Procs : Carries(p)
  BY DEF Grounded
<1>1. WhoIsWho'
  BY <1>0, WhoStays
<1>2. NamesHold'
  BY <1>0, NamesStay
<1>3. CircleHolds'
  BY <1>0, CircleStays
<1>4. SheetsHeld' /\ Asked'
  BY <1>0, SheetsStay, AskedStays
<1>5. RowsKnown'
  BY RowsKnownStay
<1>6. BillsAddUp'
  BY <1>0, BillsStay
<1>7. \A p \in Procs : Carries(p)'
  BY CarriesStay
<1> QED BY <1>1, <1>2, <1>3, <1>4, <1>5, <1>6, <1>7 DEF Grounded

LEMMA GroundedAtFirst == Init => Grounded
<1> SUFFICES ASSUME Init PROVE Grounded
  OBVIOUS
<1>1. /\ people = Registered /\ member = Seated /\ friends = Contacts /\ disbanded = {}
      /\ \A q \in Procs : /\ pc[q] = "idle" /\ Place(q) = "idle" /\ seen[q] = Nothing
                          /\ reading[q] = NotReading
      /\ \A g \in Groups : cache[g] = NoSheet
      /\ \A s \in PaymentIds : payments[s] = NoRow
  BY DEF Init, Place, SheetAwaits
<1>2. WhoIsWho
  BY <1>1, DivvyAssumption DEF WhoIsWho, Signed, Seating
<1>3. \A e \in ExpenseIds : expenses[e] # NoRow =>
         e \in Filed /\ expenses[e].group = Draft[e].group /\ expenses[e].bill = Draft[e].bill
  BY DEF Init
<1>4. \A e \in Filed : /\ AddsUp(Draft[e].bill)
                       /\ \A x \in Named(Draft[e].bill) :
                             /\ Registered[x] # "unborn"
                             /\ IF Draft[e].group \in Groups THEN Seated[Draft[e].group][x] # "none"
                                ELSE Registered[x] = "real"
  BY DivvyAssumption
<1>5. Registered \in [People -> {"unborn", "ghost", "real"}]
  BY DivvyAssumption
<1>6. NamesHold
  BY <1>1, <1>3, <1>4, <1>5 DEF NamesHold, Exist, Named
<1>7. RowsKnown
  BY <1>1, <1>3, <1>4 DEF RowsKnown, AllKnown, Known, Seat, Signed
<1>8. BillsAddUp
  BY <1>3, <1>4 DEF BillsAddUp, There
<1>9. CircleHolds
  <2>1. \A f \in friends : \A x \in f : Signed(x)
    BY <1>1, DivvyAssumption DEF Signed
  <2>2. \A g \in Groups : \A x \in People : Housed(g, x) => Exist({x})
    BY <1>1, <1>5, DivvyAssumption DEF Housed, Exist
  <2> QED BY <2>1, <2>2 DEF CircleHolds
<1>10. SheetsHeld
  <2>1. Holds(Nothing, NotReading)
    BY HoldsNothing
  <2> QED BY <1>1, <2>1 DEF SheetsHeld, Holds
<1>11. Asked /\ \A p \in Procs : Carries(p)
  BY <1>1 DEF Asked, RemoveAwaits, RedoAwaits, MergeAwaits, JoinAwaits, BatchAwaits, Carries
<1> QED BY <1>2, <1>6, <1>7, <1>8, <1>9, <1>10, <1>11 DEF Grounded

\* When no seat is deleted while something is being filed, whoever a row names keeps a
\* seat in the row's ledger, whatever handlers do between their awaits, and what a handler
\* has checked still holds when it writes (the checks of lib/queries.ts and the routes).
THEOREM EverybodyGrounded == ASSUME Unremoved PROVE Spec => []Grounded
<1>1. IInv /\ Grounded /\ [Next]_vars => Grounded'
  BY GroundedStays
<1> QED BY <1>1, GroundedAtFirst, Invariance, PTL DEF Spec

\* So every expense in the books is paid for in full and owed in full by people of its
\* ledger, through edits, merges, leaves and accounts that end (validateExpenseBalance,
\* split.ts, and server/merge.ts, which folds two shares of one expense into one).
THEOREM EveryBillAddsUp == ASSUME Unremoved PROVE Spec => []BillsAddUp
<1>1. Grounded => BillsAddUp
  BY DEF Grounded
<1> QED BY <1>1, EverybodyGrounded, PTL

-----------------------------------------------------------------------------
(* What a sheet comes to, by its rows' ids.                                *)

\* A sum over records that tell their ids apart is a sum over the ids.
LEMMA SumById ==
    ASSUME NEW L, IsFiniteSet(L), NEW T, NEW row \in [L -> T],
           \A d, e \in L : row[d] = row[e] => d = e,
           \A z \in T : \E e \in L : row[e] = z,
           NEW f \in [T -> Int], NEW h \in [L -> Int], \A e \in L : h[e] = f[row[e]]
    PROVE  SumFunction(f) = SumFunction(h)
<1>1. T = {row[e] : e \in L}
  OBVIOUS
<1>2. IsFiniteSet(T)
  BY <1>1, ImageFinite
<1>3. \A e \in L : h[e] = f[row[e]]
  OBVIOUS
<1> QED BY <1>2, <1>3, SumRenamed

\* Whole shares of a whole amount.
LEMMA Shared ==
    ASSUME NEW a \in Nat, NEW c \in Nat \ {0}
    PROVE  (a * c) \div c = a
<1>1. PICK q \in Int : q = (a * c) \div c
  OBVIOUS
<1>2. c * q <= a * c /\ a * c < c * q + c
  BY <1>1
<1>3. \A m, n \in Int : m < n => c * m + c <= c * n
  OBVIOUS
<1>4. ~(q < a) /\ ~(a < q)
  BY <1>2, <1>3
<1> QED BY <1>1, <1>4

LEMMA ColumnCovers ==
    ASSUME NEW f \in [People -> Nat], NEW x \in People
    PROVE  f[x] <= Column(f)
<1>1. f \in [People -> Int] /\ AllBut(f, x) \in [People \ {x} -> Nat]
  BY DEF AllBut, On
<1>2. IsFiniteSet(People) /\ IsFiniteSet(People \ {x})
  BY LedgerAssumption, FS_Subset
<1>3. SumFunction(AllBut(f, x)) \in Nat
  BY <1>1, <1>2, SumNat
<1>4. SumFunction(f) = f[x] + SumFunction(AllBut(f, x))
  BY <1>1, <1>2, SumTakes
<1> QED BY <1>3, <1>4 DEF Column

\* While a column adds up, what it says of somebody is what is theirs.
LEMMA SpreadsAsSaid ==
    ASSUME NEW f \in [People -> Nat], NEW amount \in Nat, Column(f) = amount, NEW x \in People
    PROVE  Spread(f, amount, x) = f[x]
<1>1. f[x] <= Column(f) /\ f[x] \in Nat
  BY ColumnCovers
<1>2. CASE amount = 0
  BY <1>1, <1>2 DEF Spread
<1>3. CASE amount # 0
  <2>1. (f[x] * amount) \div amount = f[x]
    BY <1>1, <1>3, Shared
  <2> QED BY <1>3, <2>1 DEF Spread
<1> QED BY <1>2, <1>3

LEMMA StandsAsSaid ==
    ASSUME NEW bill \in BillRows, AddsUp(bill), NEW x \in People
    PROVE  /\ Standing(bill, x) = bill.paid[x] - bill.owed[x]
           /\ bill.paid[x] \in Nat /\ bill.owed[x] \in Nat
<1>1. bill.paid \in [People -> Nat] /\ bill.owed \in [People -> Nat] /\ bill.amount \in Nat
  BY DEF BillRows
<1> QED BY <1>1, SpreadsAsSaid DEF AddsUp, Standing

\* What a placeholder stands for goes over to whoever it turns out to be.
LEMMA StandingMoves ==
    ASSUME NEW bill \in BillRows, AddsUp(bill), NEW ghost \in People, NEW into \in People,
           ghost # into, NEW x \in People, x # ghost
    PROVE  /\ Standing(BillMoved(bill, ghost, into), x)
                = Standing(bill, x) + (IF x = into THEN Standing(bill, ghost) ELSE 0)
           /\ Standing(bill, x) \in Int
           /\ Standing(bill, ghost) \in Int
<1>1. bill.paid \in [People -> Nat] /\ bill.owed \in [People -> Nat]
  BY DEF BillRows
<1>2. PICK moved \in BillRows : /\ moved = BillMoved(bill, ghost, into) /\ AddsUp(moved)
                                /\ moved.paid = Moved(bill.paid, ghost, into)
                                /\ moved.owed = Moved(bill.owed, ghost, into)
  BY MovedBill
<1>3. /\ Standing(moved, x) = moved.paid[x] - moved.owed[x]
      /\ Standing(bill, x) = bill.paid[x] - bill.owed[x]
      /\ Standing(bill, ghost) = bill.paid[ghost] - bill.owed[ghost]
      /\ bill.paid[x] \in Nat /\ bill.owed[x] \in Nat
      /\ bill.paid[ghost] \in Nat /\ bill.owed[ghost] \in Nat
  BY <1>2, StandsAsSaid
<1>4. \A f \in [People -> Nat] :
          Moved(f, ghost, into)[x] = IF x = into THEN f[into] + f[ghost] ELSE f[x]
  BY DEF Moved
<1>5. CASE x = into
  <2>1. /\ moved.paid[x] = bill.paid[x] + bill.paid[ghost]
        /\ moved.owed[x] = bill.owed[x] + bill.owed[ghost]
    BY <1>1, <1>2, <1>4, <1>5
  <2> QED BY <1>2, <1>3, <1>5, <2>1
<1>6. CASE x # into
  <2>1. moved.paid[x] = bill.paid[x] /\ moved.owed[x] = bill.owed[x]
    BY <1>1, <1>2, <1>4, <1>6
  <2> QED BY <1>2, <1>3, <1>6, <2>1
<1> QED BY <1>5, <1>6

-----------------------------------------------------------------------------
(* Folding a placeholder into a person.                                    *)

Given(row, x) == (IF row.from = x THEN row.amount ELSE 0) - (IF row.to = x THEN row.amount ELSE 0)
Whole   == {bill \in BillRows : AddsUp(bill)}
Ways    == [from : People, to : People, amount : Nat]
ById(E, bill) == {[id |-> e, bill |-> bill[e]] : e \in E}
WayById(P, way) ==
    {[id |-> s, from |-> way[s].from, to |-> way[s].to, amount |-> way[s].amount] : s \in P}

SheetOf(E, bill, P, way) == [expenses |-> ById(E, bill), payments |-> WayById(P, way)]

\* What each row comes to for x.
Standings(E, bill, x) == [e \in E |-> Standing(bill[e], x)]
Givens(P, way, x)     == [s \in P |-> Given(way[s], x)]

LEMMA StandingsById ==
    ASSUME NEW E, IsFiniteSet(E), NEW bill \in [E -> Whole], NEW x \in People
    PROVE  /\ SumFunction([e \in ById(E, bill) |-> Standing(e.bill, x)])
                = SumFunction(Standings(E, bill, x))
           /\ Standings(E, bill, x) \in [E -> Int]
<1> DEFINE T == ById(E, bill)
           row == [e \in E |-> [id |-> e, bill |-> bill[e]]]
           f == [e \in T |-> Standing(e.bill, x)]
           h == [e \in E |-> Standing(bill[e], x)]
<1>1. \A b \in Whole : Standing(b, x) \in Int
  BY StandsAsSaid DEF Whole
<1>2. h \in [E -> Int]
  BY <1>1
<1>3. row \in [E -> T] /\ \A d, e \in E : row[d] = row[e] => d = e
  BY DEF ById
<1>4. \A z \in T : \E e \in E : row[e] = z
  BY DEF ById
<1>5. f \in [T -> Int]
  BY <1>1 DEF ById
<1>6. \A e \in E : h[e] = f[row[e]]
  BY <1>3
<1> HIDE DEF T, row, f, h
<1>7. SumFunction(f) = SumFunction(h)
  BY <1>2, <1>3, <1>4, <1>5, <1>6, SumById
<1> QED BY <1>2, <1>7 DEF f, h, T, Standings

LEMMA GivenById ==
    ASSUME NEW P, IsFiniteSet(P), NEW way \in [P -> Ways], NEW x \in People
    PROVE  /\ SumFunction([s \in WayById(P, way) |-> Given(s, x)])
                = SumFunction(Givens(P, way, x))
           /\ Givens(P, way, x) \in [P -> Int]
<1> DEFINE T == WayById(P, way)
           row == [s \in P |-> [id |-> s, from |-> way[s].from, to |-> way[s].to,
                                amount |-> way[s].amount]]
           f == [s \in T |-> Given(s, x)]
           h == [s \in P |-> Given(way[s], x)]
<1>1. \A s \in P : way[s].amount \in Nat
  BY DEF Ways
<1>2. h \in [P -> Int]
  BY <1>1 DEF Given
<1>3. row \in [P -> T] /\ \A s, t \in P : row[s] = row[t] => s = t
  BY DEF WayById
<1>4. \A z \in T : \E s \in P : row[s] = z
  BY DEF WayById
<1>5. f \in [T -> Int]
  BY <1>1 DEF WayById, Given
<1>6. \A s \in P : h[s] = f[row[s]]
  BY <1>3 DEF Given
<1> HIDE DEF T, row, f, h
<1>7. SumFunction(f) = SumFunction(h)
  BY <1>2, <1>3, <1>4, <1>5, <1>6, SumById
<1> QED BY <1>2, <1>7 DEF f, h, T, Givens

LEMMA NetById ==
    ASSUME NEW E, IsFiniteSet(E), NEW bill \in [E -> Whole],
           NEW P, IsFiniteSet(P), NEW way \in [P -> Ways],
           NEW x \in People
    PROVE  /\ Net(SheetOf(E, bill, P, way), x)
                = SumFunction(Standings(E, bill, x)) + SumFunction(Givens(P, way, x))
           /\ Standings(E, bill, x) \in [E -> Int]
           /\ Givens(P, way, x) \in [P -> Int]
<1>1. Net(SheetOf(E, bill, P, way), x) = SumFunction([e \in ById(E, bill) |-> Standing(e.bill, x)])
                         + SumFunction([s \in WayById(P, way) |-> Given(s, x)])
  BY DEF Net, Given, SheetOf
<1> QED BY <1>1, StandingsById, GivenById

\* Bills and payments that name `into` where they named the placeholder.
LEMMA NetMoves ==
    ASSUME NEW E, IsFiniteSet(E), NEW P, IsFiniteSet(P),
           NEW ghost \in People, NEW into \in People, ghost # into,
           NEW bill \in [E -> Whole], NEW moved \in [E -> Whole],
           NEW way \in [P -> Ways], NEW turned \in [P -> Ways],
           \A e \in E : moved[e] = BillMoved(bill[e], ghost, into),
           \A s \in P : /\ turned[s].from = As(way[s].from, ghost, into)
                        /\ turned[s].to = As(way[s].to, ghost, into)
                        /\ turned[s].amount = way[s].amount,
           NEW x \in People, x # ghost
    PROVE  Net(SheetOf(E, moved, P, turned), x)
              = Net(SheetOf(E, bill, P, way), x)
                  + (IF x = into THEN Net(SheetOf(E, bill, P, way), ghost) ELSE 0)
<1> DEFINE before == SheetOf(E, bill, P, way)
           after == SheetOf(E, moved, P, turned)
           a == Standings(E, bill, x)
           b == Standings(E, bill, ghost)
           c == Standings(E, moved, x)
           k == Givens(P, way, x)
           l == Givens(P, way, ghost)
           m == Givens(P, turned, x)
<1>1. /\ Net(before, x) = SumFunction(a) + SumFunction(k)
      /\ a \in [E -> Int] /\ k \in [P -> Int]
  BY NetById
<1>2. /\ Net(before, ghost) = SumFunction(b) + SumFunction(l)
      /\ b \in [E -> Int] /\ l \in [P -> Int]
  BY NetById
<1>3. /\ Net(after, x) = SumFunction(c) + SumFunction(m)
      /\ c \in [E -> Int] /\ m \in [P -> Int]
  BY NetById
<1>4. ASSUME NEW e \in E
      PROVE  Standing(moved[e], x) = Standing(bill[e], x)
                                       + (IF x = into THEN Standing(bill[e], ghost) ELSE 0)
  BY <1>4, StandingMoves DEF Whole
<1>5. ASSUME NEW s \in P
      PROVE  Given(turned[s], x) = Given(way[s], x) + (IF x = into THEN Given(way[s], ghost) ELSE 0)
  <2>1. way[s].amount \in Nat
    BY DEF Ways
  <2>2. CASE x = into
    BY <2>1, <2>2 DEF Given, As
  <2>3. CASE x # into
    BY <2>1, <2>3 DEF Given, As
  <2> QED BY <2>2, <2>3
<1>6. CASE x = into
  <2>1. c = [e \in E |-> a[e] + b[e]] /\ m = [s \in P |-> k[s] + l[s]]
    BY <1>4, <1>5, <1>6 DEF Standings, Givens
  <2> HIDE DEF a, b, c, k, l, m, before, after
  <2>2. /\ SumFunction(c) = SumFunction(a) + SumFunction(b)
        /\ SumFunction(m) = SumFunction(k) + SumFunction(l)
    BY <1>1, <1>2, <2>1, SumAdd
  <2>3. /\ SumFunction(a) \in Int /\ SumFunction(b) \in Int
        /\ SumFunction(k) \in Int /\ SumFunction(l) \in Int
    BY <1>1, <1>2, SumType
  <2> QED BY <1>1, <1>2, <1>3, <1>6, <2>2, <2>3 DEF before, after
<1>7. CASE x # into
  <2>1. \A e \in E : c[e] = a[e] + 0
    BY <1>4, <1>7 DEF Standings
  <2>2. \A s \in P : m[s] = k[s] + 0
    BY <1>5, <1>7 DEF Givens
  <2> HIDE DEF a, b, c, k, l, m, before, after
  <2>3. c = a /\ m = k
    BY <1>1, <1>3, <2>1, <2>2
  <2>4. SumFunction(a) \in Int /\ SumFunction(k) \in Int
    BY <1>1, SumType
  <2> QED BY <1>1, <1>3, <1>7, <2>3, <2>4 DEF before, after
<1> QED BY <1>6, <1>7

\* Folding a placeholder into somebody leaves the live rows the live rows.
LEMMA TakenStays ==
    ASSUME IInv, NEW p \in Procs, NEW ghost \in People, NEW into \in People, Takes(p, ghost, into),
           NEW g \in Groups
    PROVE  /\ LiveExpenses(g)' = LiveExpenses(g) /\ LivePayments(g)' = LivePayments(g)
           /\ \A e \in LiveExpenses(g) : expenses'[e].bill = BillMoved(expenses[e].bill, ghost, into)
           /\ \A s \in LivePayments(g) : /\ payments'[s].from = As(payments[s].from, ghost, into)
                                         /\ payments'[s].to = As(payments[s].to, ghost, into)
                                         /\ payments'[s].amount = payments[s].amount
<1>1. disbanded' = disbanded /\ payments' = PaymentsOver(ghost, into)
  BY DEF Takes, Absorb, MergeCommit, JoinClaim
<1>2. ASSUME NEW e \in ExpenseIds
      PROVE  /\ expenses'[e] = NoRow <=> expenses[e] = NoRow
             /\ expenses[e] # NoRow =>
                   /\ expenses'[e].group = expenses[e].group
                   /\ expenses'[e].deleted = expenses[e].deleted
                   /\ expenses'[e].bill = BillMoved(expenses[e].bill, ghost, into)
  <2>1. expenses'[e] = IF expenses[e] = NoRow THEN NoRow
                       ELSE [expenses[e] EXCEPT !.bill = BillMoved(expenses[e].bill, ghost, into)]
    BY DEF Takes, Absorb
  <2>2. CASE expenses[e] # NoRow
    <3>1. expenses[e] \in ExpenseRows /\ expenses[e].bill \in BillRows /\ ghost # into
      BY <2>2, RowsAre DEF Takes, MayAbsorb
    <3>2. BillMoved(expenses[e].bill, ghost, into) \in BillRows
      BY <3>1, MovedBill
    <3>3. expenses'[e] = [expenses[e] EXCEPT !.bill = BillMoved(expenses[e].bill, ghost, into)]
      BY <2>1, <2>2
    <3>4. /\ expenses'[e] \in ExpenseRows /\ expenses'[e].group = expenses[e].group
          /\ expenses'[e].deleted = expenses[e].deleted
          /\ expenses'[e].bill = BillMoved(expenses[e].bill, ghost, into)
      BY <3>1, <3>2, <3>3 DEF ExpenseRows
    <3> QED BY <2>2, <3>4, RowAssumption
  <2> QED BY <2>1, <2>2
<1>3. ASSUME NEW s \in PaymentIds
      PROVE  /\ payments'[s] = NoRow <=> payments[s] = NoRow
             /\ payments[s] # NoRow =>
                   /\ payments'[s].group = payments[s].group
                   /\ payments'[s].deleted = payments[s].deleted
                   /\ payments'[s].amount = payments[s].amount
                   /\ payments'[s].from = As(payments[s].from, ghost, into)
                   /\ payments'[s].to = As(payments[s].to, ghost, into)
  <2>1. payments[s] = NoRow => payments'[s] = NoRow
    BY <1>1 DEF PaymentsOver
  <2>2. CASE payments[s] # NoRow
    BY <1>1, <2>2, RowsAre, MovedRow
  <2> QED BY <2>1, <2>2
<1>4. LiveExpenses(g)' = LiveExpenses(g)
  BY <1>1, <1>2 DEF LiveExpenses, There, Stands
<1>5. LivePayments(g)' = LivePayments(g)
  BY <1>1, <1>3 DEF LivePayments, There, Stands
<1> QED BY <1>2, <1>3, <1>4, <1>5 DEF LiveExpenses, LivePayments, There

LEMMA TakenNet ==
    ASSUME IInv, BillsAddUp, NEW p \in Procs, NEW ghost \in People, NEW into \in People,
           Takes(p, ghost, into), NEW g \in Groups, NEW x \in People, x # ghost
    PROVE  Net(Sheet(g)', x) = Net(Sheet(g), x) + (IF x = into THEN Net(Sheet(g), ghost) ELSE 0)
<1> DEFINE E == LiveExpenses(g)
           P == LivePayments(g)
           bill == [e \in E |-> expenses[e].bill]
           moved == [e \in E |-> expenses'[e].bill]
           way == [s \in P |-> [from |-> payments[s].from, to |-> payments[s].to,
                                amount |-> payments[s].amount]]
           turned == [s \in P |-> [from |-> payments'[s].from, to |-> payments'[s].to,
                                   amount |-> payments'[s].amount]]
<1>1. IsFiniteSet(E) /\ IsFiniteSet(P)
  BY LedgerAssumption, FS_Subset DEF LiveExpenses, LivePayments
<1>2. /\ LiveExpenses(g)' = E /\ LivePayments(g)' = P
      /\ \A e \in E : expenses'[e].bill = BillMoved(expenses[e].bill, ghost, into)
      /\ \A s \in P : /\ payments'[s].from = As(payments[s].from, ghost, into)
                      /\ payments'[s].to = As(payments[s].to, ghost, into)
                      /\ payments'[s].amount = payments[s].amount
  BY TakenStays
<1>3. ghost # into
  BY DEF Takes, MayAbsorb
<1>4. \A e \in E : expenses[e].bill \in BillRows /\ AddsUp(expenses[e].bill)
  BY RowsAre DEF LiveExpenses, BillsAddUp, There
<1>5. bill \in [E -> Whole]
  BY <1>4 DEF Whole
<1>6. moved \in [E -> Whole] /\ \A e \in E : moved[e] = BillMoved(bill[e], ghost, into)
  BY <1>2, <1>3, <1>4, MovedBill DEF Whole
<1>7. \A s \in P : /\ payments[s].from \in People /\ payments[s].to \in People
                   /\ payments[s].amount \in Nat
  BY RowsAre DEF LivePayments, There
<1>8. way \in [P -> Ways]
  BY <1>7 DEF Ways
<1>9. /\ turned \in [P -> Ways]
      /\ \A s \in P : /\ turned[s].from = As(way[s].from, ghost, into)
                      /\ turned[s].to = As(way[s].to, ghost, into)
                      /\ turned[s].amount = way[s].amount
  BY <1>2, <1>7 DEF Ways, As
<1>10. Sheet(g) = SheetOf(E, bill, P, way)
  BY DEF Sheet, ExpensesOf, PaymentsOf, SheetOf, ById, WayById
<1>11. Sheet(g)' = SheetOf(E, moved, P, turned)
  BY <1>2 DEF Sheet, ExpensesOf, PaymentsOf, SheetOf, ById, WayById
<1> HIDE DEF E, P, bill, moved, way, turned
<1>12. Net(SheetOf(E, moved, P, turned), x)
         = Net(SheetOf(E, bill, P, way), x)
             + (IF x = into THEN Net(SheetOf(E, bill, P, way), ghost) ELSE 0)
  BY <1>1, <1>3, <1>5, <1>6, <1>8, <1>9, NetMoves
<1> QED BY <1>10, <1>11, <1>12

LEMMA OwnStep ==
    ASSUME NEW p \in Procs, NEW q \in Procs, pc'[p] # pc[p], DOMAIN pc = Procs,
           \/ \E x \in People : Forgets(q, x)
           \/ \E x, y \in People : Takes(q, x, y)
    PROVE  p = q
<1>1. \E label : pc' = [pc EXCEPT ![q] = label]
  BY DEF Forgets, RemoveForget, Takes, MergeCommit, JoinClaim, Finish, Go, To, Leave
<1> QED BY <1>1


LEMMA MergedBy ==
    ASSUME IInv, Grounded, [Next]_vars, NEW ghost \in People, NEW into \in People,
           people[ghost] = "ghost", people'[ghost] = "gone",
           NEW p \in Procs, pc'[p] # pc[p],
           \/ pc[p] = "MergeCommit" /\ req[p].who = ghost /\ req[p].into = into
           \/ pc[p] = "JoinClaim" /\ req[p].claim = ghost /\ Me(p) = into
    PROVE  Takes(p, ghost, into)
<1>1. DOMAIN pc = Procs /\ WhoIsWho
  BY DEF IInv, TypeOK, ControlOK, Grounded
<1>2. \E q \in Procs : Forgets(q, ghost) \/ \E y \in People : Takes(q, ghost, y)
  BY <1>1, ExistStays
<1>3. Forgets(p, ghost) \/ \E y \in People : Takes(p, ghost, y)
  BY <1>1, <1>2, OwnStep
<1> QED BY <1>3 DEF Forgets, RemoveForget, Takes, MergeCommit, JoinClaim

\* A placeholder folded into a member brings its whole balance and nothing else: in every
\* ledger the member's net is the sum of the two before, and nobody else's changes
\* (server/merge.ts, and the claiming of a placeholder by who joins).
THEOREM MergingConserves == ASSUME Unremoved PROVE Spec => MergeConserves
<1>1. IInv /\ Grounded /\ [Next]_vars =>
        [\A ghost, into \in People :
         (/\ people[ghost] = "ghost" /\ people'[ghost] = "gone"
          /\ \E p \in Procs :
                /\ pc'[p] # pc[p]
                /\ \/ pc[p] = "MergeCommit" /\ req[p].who = ghost /\ req[p].into = into
                   \/ pc[p] = "JoinClaim" /\ req[p].claim = ghost /\ Me(p) = into)
            => \A g \in Groups : \A x \in People \ {ghost} :
                  Net(Sheet(g), x)' = Net(Sheet(g), x)
                       + (IF x = into THEN Net(Sheet(g), ghost) ELSE 0)]_vars
  <2> SUFFICES ASSUME IInv, Grounded, [Next]_vars, NEW ghost \in People, NEW into \in People,
                      people[ghost] = "ghost", people'[ghost] = "gone",
                      NEW p \in Procs, pc'[p] # pc[p],
                      \/ pc[p] = "MergeCommit" /\ req[p].who = ghost /\ req[p].into = into
                      \/ pc[p] = "JoinClaim" /\ req[p].claim = ghost /\ Me(p) = into,
                      NEW g \in Groups, NEW x \in People \ {ghost}
               PROVE  Net(Sheet(g)', x) = Net(Sheet(g), x)
                                           + (IF x = into THEN Net(Sheet(g), ghost) ELSE 0)
    OBVIOUS
  <2>1. Takes(p, ghost, into)
    BY MergedBy
  <2>2. BillsAddUp
    BY DEF Grounded
  <2> QED BY <2>1, <2>2, TakenNet
<1> QED BY <1>1, Invariance, EverybodyGrounded, PTL DEF Spec, MergeConserves

-----------------------------------------------------------------------------
(* Payments to oneself.                                                    *)

\* No placeholder is folded into somebody while a payment is being restored.
Undisturbed == OneAtOnce \/ "restorePayment" \notin Ops \/ {"merge", "join"} \cap Ops = {}

Live(row) == There(row) /\ ~row.deleted

PaymentsApart ==
    /\ \A s \in PaymentIds :
          (payments[s] # NoRow /\ (payments[s].group \notin Groups \/ Live(payments[s])))
              => payments[s].from # payments[s].to
    /\ \A p \in Procs : \A s \in seen[p].rows :
          (Place(p) = "RedoCommit" /\ There(payments[s])) => payments[s].from # payments[s].to

LEMMA NewApart ==
    ASSUME IInv, Asked, NEW p \in Procs, NEW s \in PaymentIds,
           Paid(p, s) \/ \E r : Transferred(p, s, r)
    PROVE  payments'[s].from # payments'[s].to
<1>1. CASE Paid(p, s)
  BY <1>1, SettlementsAssumption DEF Paid
<1>2. ASSUME NEW r, Transferred(p, s, r)
      PROVE  payments'[s].from # payments'[s].to
  <2>1. Me(p) # BatchDraft[req[p].id].other
    BY <1>2 DEF Transferred, Asked, BatchCommit, Place, SheetAwaits, BatchAwaits
  <2> QED BY <1>2, <2>1 DEF Transferred
<1> QED BY <1>1, <1>2

LEMMA TakenApart ==
    ASSUME IInv, RowsKnown, PaymentsApart, [Next]_vars, NEW p \in Procs,
           NEW ghost \in People, NEW into \in People, Takes(p, ghost, into),
           NEW s \in PaymentIds, payments'[s] # NoRow,
           payments'[s].group \notin Groups \/ Live(payments[s])'
    PROVE  payments'[s].from # payments'[s].to
<1>1. /\ payments[s] # NoRow /\ payments'[s].group = payments[s].group
      /\ payments'[s].deleted = payments[s].deleted
      /\ payments'[s].from = As(payments[s].from, ghost, into)
      /\ payments'[s].to = As(payments[s].to, ghost, into)
      /\ payments[s].group \in Ledgers
  <2>1. payments' = PaymentsOver(ghost, into)
    BY DEF Takes, Absorb
  <2>2. payments[s] # NoRow
    BY <2>1 DEF PaymentsOver
  <2> QED BY <2>1, <2>2, RowsAre, MovedRow
<1>2. disbanded \subseteq disbanded'
  BY KeptForGood DEF Kept
<1>3. CASE payments[s].group \notin Groups
  <2>1. Stands(payments[s].group)
    BY <1>3 DEF IInv, TypeOK, DataOK, Stands
  <2>2. people[ghost] = "ghost" /\ ~Known(payments[s].group, ghost)
    BY <1>3, <2>1 DEF Takes, MayAbsorb, Known, Seat, Signed
  <2>3. ghost \notin {payments[s].from, payments[s].to}
    BY <1>1, <2>2 DEF RowsKnown, AllKnown
  <2> QED BY <1>1, <1>3, <2>3 DEF PaymentsApart, As
<1>4. CASE Live(payments[s])
  <2>1. {payments[s].from, payments[s].to} # {ghost, into}
    BY <1>4 DEF Takes, MayAbsorb, Live
  <2>2. payments[s].from # payments[s].to
    BY <1>1, <1>4 DEF PaymentsApart
  <2> QED BY <1>1, <2>1, <2>2 DEF As
<1> QED BY <1>1, <1>2, <1>3, <1>4 DEF Live, There, Stands

LEMMA RowsApartStay ==
    ASSUME IInv, Asked, RowsKnown, PaymentsApart, [Next]_vars,
           NEW s \in PaymentIds, payments'[s] # NoRow,
           payments'[s].group \notin Groups \/ Live(payments[s])'
    PROVE  payments'[s].from # payments'[s].to
<1>1. disbanded \subseteq disbanded'
  BY KeptForGood DEF Kept
<1>2. CASE SamePayment(s)
  <2>1. CASE payments[s].group \notin Groups \/ Live(payments[s])
    BY <1>2, <2>1 DEF SamePayment, PaymentsApart
  <2>2. ASSUME NEW p \in Procs, RedoCommit(p), s \in seen[p].rows, There(payments[s])
        PROVE  payments'[s].from # payments'[s].to
    <3>1. Place(p) = "RedoCommit"
      BY <2>2 DEF RedoCommit, Place, SheetAwaits
    <3> QED BY <1>2, <2>2, <3>1 DEF SamePayment, PaymentsApart
  <2>3. There(payments[s])' => There(payments[s])
    BY <1>1, <1>2 DEF SamePayment, There, Stands
  <2>4. (payments'[s].group \notin Groups => payments[s].group \notin Groups)
        /\ (Live(payments[s])' => There(payments[s]) /\ ~payments'[s].deleted)
    BY <1>2, <2>3 DEF SamePayment, Live
  <2> QED BY <1>2, <2>1, <2>2, <2>4 DEF SamePayment, Live
<1>3. ASSUME NEW p \in Procs, Paid(p, s) \/ \E r : Transferred(p, s, r)
      PROVE  payments'[s].from # payments'[s].to
  BY <1>3, NewApart
<1>4. ASSUME NEW p \in Procs, NEW ghost \in People, NEW into \in People, Takes(p, ghost, into)
      PROVE  payments'[s].from # payments'[s].to
  BY <1>4, TakenApart
<1> QED BY <1>2, <1>3, <1>4, PaymentBecomes DEF PaymentOf

LEMMA HeldApart ==
    ASSUME IInv, Asked, Undisturbed, PaymentsApart, [Next]_vars,
           NEW p \in Procs, NEW q \in Procs, p # q, Steady(p), Place(p) = "RedoCommit",
           NEW s \in seen[p].rows, s \in PaymentIds, There(payments[s])'
    PROVE  payments'[s].from # payments'[s].to
<1>1. disbanded \subseteq disbanded' /\ payments'[s] # NoRow
  BY KeptForGood DEF Kept, There
<1>2. CASE SamePayment(s)
  <2>1. There(payments[s])
    BY <1>1, <1>2 DEF SamePayment, There, Stands
  <2> QED BY <1>2, <2>1 DEF SamePayment, PaymentsApart
<1>3. ASSUME NEW h \in Procs, Paid(h, s) \/ \E r : Transferred(h, s, r)
      PROVE  payments'[s].from # payments'[s].to
  BY <1>3, NewApart
<1>4. ASSUME NEW h \in Procs, NEW ghost \in People, NEW into \in People, Takes(h, ghost, into)
      PROVE  FALSE
  <2>1. "merge" \in Ops \/ "join" \in Ops
    BY <1>4 DEF Takes, MergeCommit, JoinClaim, Asked, Place, SheetAwaits, MergeAwaits, JoinAwaits
  <2>2. "restorePayment" \in Ops
    BY DEF Asked, RedoAwaits
  <2> QED BY <2>1, <2>2 DEF Undisturbed, OneAtOnce
<1> QED BY <1>1, <1>2, <1>3, <1>4, PaymentBecomes DEF PaymentOf

LEMMA ApartStays ==
    ASSUME IInv, Grounded, Undisturbed, PaymentsApart, [Next]_vars
    PROVE  PaymentsApart'
<1>0. Asked /\ RowsKnown
  BY DEF Grounded
<1>1. \A s \in PaymentIds :
          (payments'[s] # NoRow /\ (payments'[s].group \notin Groups \/ Live(payments[s])'))
              => payments'[s].from # payments'[s].to
  BY <1>0, RowsApartStay
<1>2. ASSUME NEW p \in Procs, Place(p)' = "RedoCommit", NEW s \in seen'[p].rows, There(payments[s])'
      PROVE  payments'[s].from # payments'[s].to
  <2>0. s \in PaymentIds /\ ControlOK
    <3>1. TypeOK'
      BY Inductive DEF IInv
    <3> QED BY <3>1 DEF IInv, TypeOK, ControlOK, Sightings
  <2>1. CASE Steady(p) /\ UNCHANGED <<circle, rows>>
    BY <1>2, <2>1 DEF Steady, Rests, circle, rows, There, Stands, PaymentsApart
  <2>2. ASSUME NEW q \in Procs \ {p}, Steady(p)
        PROVE  payments'[s].from # payments'[s].to
    BY <1>0, <1>2, <2>0, <2>2, HeldApart DEF Steady, Rests
  <2>3. CASE Lands(p)
    <3>1. RedoMembers(p)
      BY <1>2, <2>3 DEF Lands, Carrying
    <3>2. /\ seen'[p].rows = seen[p].rows /\ UNCHANGED <<circle, rows>>
          /\ \A t \in seen[p].rows : (payments[t] # NoRow /\ payments[t].group \in Groups)
                                       => payments[t].from # payments[t].to
      <4>1. ~Leave(p)
        BY <1>2, <2>0 DEF Leave, Finish, To, Place, SheetAwaits, ControlOK
      <4>2. UNCHANGED <<circle, rows>> /\ \E x : Go(p, "RedoCommit", [Nothing EXCEPT !.rows = seen[p].rows, !.seats = x])
        BY <3>1, <4>1 DEF RedoMembers
      <4>3. \A t \in seen[p].rows : (payments[t] # NoRow /\ payments[t].group \in Groups)
                                       => payments[t].from # payments[t].to
        BY <3>1, <4>1 DEF RedoMembers
      <4>4. PICK x : seen' = [seen EXCEPT ![p] = [Nothing EXCEPT !.rows = seen[p].rows, !.seats = x]]
        BY <4>2 DEF Go
      <4>5. seen'[p] = [Nothing EXCEPT !.rows = seen[p].rows, !.seats = x]
        BY <2>0, <4>4 DEF ControlOK
      <4>6. seen'[p].rows = seen[p].rows
        BY <4>5 DEF Nothing
      <4> QED BY <4>2, <4>3, <4>6
    <3> QED BY <1>2, <2>0, <3>2 DEF PaymentsApart, There, Stands, circle, rows
  <2> QED BY <1>2, <2>1, <2>2, <2>3, StepsHold DEF Carrying
<1> QED BY <1>1, <1>2 DEF PaymentsApart

\* No payment is from somebody to themselves: a merge that would make one deletes it, and
\* a payment restored is checked, if no merge comes between the check and the write.
THEOREM NobodyPaysThemselves == ASSUME Unremoved, Undisturbed PROVE Spec => []NoSelfPayment
<1>1. Init => PaymentsApart
  BY DEF Init, PaymentsApart, Place, SheetAwaits
<1>2. IInv /\ Grounded /\ PaymentsApart /\ [Next]_vars => PaymentsApart'
  BY ApartStays
<1>3. PaymentsApart => NoSelfPayment
  BY DEF PaymentsApart, NoSelfPayment, Live, There
<1> QED BY <1>1, <1>2, <1>3, Invariance, EverybodyGrounded, PTL DEF Spec

-----------------------------------------------------------------------------
(* What two people owe each other.                                         *)

LEMMA SumNegates ==
    ASSUME NEW S, IsFiniteSet(S), NEW f \in [S -> Int], NEW h \in [S -> Int],
           \A x \in S : h[x] = -f[x]
    PROVE  SumFunction(h) = -SumFunction(f)
<1> DEFINE k == [x \in S |-> f[x] + h[x]]
<1>1. k \in [S -> Int] /\ \A x \in S : k[x] = 0
  OBVIOUS
<1>2. SumFunction(k) = SumFunction(f) + SumFunction(h)
  BY SumAdd
<1> HIDE DEF k
<1>3. SumFunction(k) = 0
  BY <1>1, SumZero
<1>4. SumFunction(f) \in Int /\ SumFunction(h) \in Int
  BY SumType
<1> QED BY <1>2, <1>3, <1>4

LEMMA StandingType ==
    ASSUME NEW bill \in BillRows, NEW x \in People
    PROVE  Standing(bill, x) \in Int
<1>1. bill.paid \in [People -> Nat] /\ bill.owed \in [People -> Nat] /\ bill.amount \in Nat
  BY DEF BillRows
<1>2. ASSUME NEW f \in [People -> Nat] PROVE Spread(f, bill.amount, x) \in Int
  <2>1. Column(f) \in Nat /\ f[x] \in Nat
    BY ColumnType
  <2>2. PICK n \in Nat : n = f[x] * bill.amount
    BY <1>1, <2>1
  <2>3. Column(f) # 0 => n \div Column(f) \in Int
    BY <2>1
  <2> QED BY <2>2, <2>3 DEF Spread
<1> QED BY <1>1, <1>2 DEF Standing

LEMMA ClaimType ==
    ASSUME NEW bill \in BillRows, NEW x \in People, NEW y \in People
    PROVE  Claim(bill, x, y) \in Int
<1> DEFINE f == [z \in People |-> IF Standing(bill, z) > 0 THEN Standing(bill, z) ELSE 0]
<1>1. \A z \in People : Standing(bill, z) \in Int
  BY StandingType
<1>2. f \in [People -> Nat] /\ f[x] = IF Standing(bill, x) > 0 THEN Standing(bill, x) ELSE 0
  BY <1>1
<1>3. Claim(bill, x, y) = IF Standing(bill, x) > 0 /\ Standing(bill, y) < 0
                          THEN ((-Standing(bill, y)) * Standing(bill, x)) \div SumFunction(f) ELSE 0
  BY DEF Claim
<1> HIDE DEF f
<1>4. f[x] <= SumFunction(f) /\ SumFunction(f) \in Int
  <2>1. f[x] <= Column(f) /\ Column(f) \in Nat
    BY <1>2, ColumnCovers, ColumnType
  <2> QED BY <2>1 DEF Column
<1>5. PICK n \in Int : n = (-Standing(bill, y)) * Standing(bill, x)
  BY <1>1
<1>6. Standing(bill, x) > 0 => SumFunction(f) > 0
  BY <1>1, <1>2, <1>4
<1>7. SumFunction(f) > 0 => n \div SumFunction(f) \in Int
  BY <1>4
<1> QED BY <1>3, <1>5, <1>6, <1>7

\* What payment row takes off what y owes x.
Back(row, x, y) ==
    IF row.from = x /\ row.to = y THEN row.amount
    ELSE IF row.from = y /\ row.to = x THEN -row.amount ELSE 0

\* What y owes x for the bills of a sheet.
Billed(sheet, x, y) == SumFunction([e \in sheet.expenses |-> Claim(e.bill, x, y) - Claim(e.bill, y, x)])

LEMMA BackType ==
    ASSUME NEW row, row.amount \in Int, NEW x, NEW y
    PROVE  Back(row, x, y) \in Int
BY DEF Back

\* Each owes the other what the other does not owe them.
LEMMA PairNetType ==
    ASSUME NEW sheet \in Sheets, Finite(sheet), NEW x \in People, NEW y \in People
    PROVE  /\ Billed(sheet, x, y) \in Int /\ PairNet(sheet, x, y) \in Int
           /\ PairNet(sheet, x, y)
                = Billed(sheet, x, y) + SumFunction([s \in sheet.payments |-> Back(s, x, y)])
           /\ Billed(sheet, y, x) = -Billed(sheet, x, y)
           /\ x # y => PairNet(sheet, y, x) = -PairNet(sheet, x, y)
<1> DEFINE E(a, b) == [e \in sheet.expenses |-> Claim(e.bill, a, b) - Claim(e.bill, b, a)]
           P(a, b) == [s \in sheet.payments |-> Back(s, a, b)]
<1>0. /\ \A e \in sheet.expenses : e.bill \in BillRows
      /\ \A s \in sheet.payments : s.amount \in Nat
  BY DEF Sheets, ExpenseFolds
<1>1. ASSUME NEW a \in {x, y}, NEW b \in {x, y}
      PROVE  /\ E(a, b) \in [sheet.expenses -> Int] /\ P(a, b) \in [sheet.payments -> Int]
             /\ \A e \in sheet.expenses : E(a, b)[e] = -E(b, a)[e]
             /\ a # b => \A s \in sheet.payments : P(a, b)[s] = -P(b, a)[s]
  <2>1. \A e \in sheet.expenses : Claim(e.bill, a, b) \in Int /\ Claim(e.bill, b, a) \in Int
    BY <1>0, ClaimType
  <2>2. \A s \in sheet.payments : Back(s, a, b) \in Int
    BY <1>0, BackType
  <2>3. a # b => \A s \in sheet.payments : Back(s, a, b) = -Back(s, b, a)
    BY <1>0 DEF Back
  <2> QED BY <2>1, <2>2, <2>3
<1>2. \A a, b \in {x, y} : /\ PairNet(sheet, a, b) = SumFunction(E(a, b)) + SumFunction(P(a, b))
                           /\ Billed(sheet, a, b) = SumFunction(E(a, b))
  BY DEF PairNet, Back, Billed
<1> HIDE DEF E, P
<1>3. IsFiniteSet(sheet.expenses) /\ IsFiniteSet(sheet.payments)
  BY DEF Finite
<1>4. \A a, b \in {x, y} : SumFunction(E(a, b)) \in Int /\ SumFunction(P(a, b)) \in Int
  BY <1>1, <1>3, SumType
<1>5. SumFunction(E(y, x)) = -SumFunction(E(x, y))
  BY <1>1, <1>3, SumNegates
<1>6. x # y => SumFunction(P(y, x)) = -SumFunction(P(x, y))
  BY <1>1, <1>3, SumNegates
<1>7. P(x, y) = [s \in sheet.payments |-> Back(s, x, y)]
  BY DEF P
<1> QED BY <1>2, <1>4, <1>5, <1>6, <1>7

\* Every payment on a sheet goes from whom its bills say owes to whom they say is
\* owed, and nobody has paid more than that.
Straight(sheet) == \A s \in sheet.payments : Billed(sheet, s.to, s.from) > 0
NotOverpaid(sheet) ==
    \A x, y \in People : Billed(sheet, x, y) >= 0 => PairNet(sheet, x, y) >= 0

\* What is owed where nothing is paid is what was billed.
LEMMA NothingPaid ==
    ASSUME NEW sheet \in Sheets, Finite(sheet), sheet.payments = {}, NEW x \in People, NEW y \in People
    PROVE  PairNet(sheet, x, y) = Billed(sheet, x, y)
<1> DEFINE f == [s \in sheet.payments |-> Back(s, x, y)]
<1>1. /\ Billed(sheet, x, y) \in Int
      /\ PairNet(sheet, x, y) = Billed(sheet, x, y) + SumFunction(f)
  BY PairNetType
<1>2. DOMAIN f = {}
  OBVIOUS
<1> HIDE DEF f
<1>3. SumFunction(f) = 0
  BY <1>2, SumEmpty
<1> QED BY <1>1, <1>3

LEMMA SumOfFewer ==
    ASSUME NEW S, IsFiniteSet(S), NEW f \in [S -> Int], \A x \in S : f[x] <= 0, NEW T \in SUBSET S
    PROVE  SumFunction(f) <= SumFunction(On(f, T)) /\ SumFunction(f) <= 0
<1> DEFINE h == [x \in S |-> IF x \in T THEN f[x] ELSE 0]
           o == [x \in S |-> 0]
<1>1. /\ h \in [S -> Int] /\ (\A x \in S : f[x] <= h[x]) /\ (\A x \in S \ T : h[x] = 0)
      /\ On(h, T) = On(f, T)
  BY DEF On
<1>2. o \in [S -> Int] /\ (\A x \in S : f[x] <= o[x]) /\ \A x \in S : o[x] = 0
  OBVIOUS
<1> HIDE DEF h, o
<1>3. SumFunction(f) <= SumFunction(h)
  BY <1>1, SumGrows
<1>4. SumFunction(h) = SumFunction(On(h, T))
  BY <1>1, SumWithin
<1>5. SumFunction(f) <= SumFunction(o) /\ SumFunction(o) = 0
  BY <1>2, SumGrows, SumZero
<1> QED BY <1>1, <1>3, <1>4, <1>5

LEMMA PaymentTyped ==
    ASSUME NEW sheet \in Sheets, NEW s \in sheet.payments
    PROVE  s.from \in People /\ s.to \in People /\ s.amount \in Nat /\ s.id \in PaymentIds
BY DEF Sheets

\* With fewer payments between them more is owed, and never more than was billed.
LEMMA FewerPaid ==
    ASSUME NEW sheet \in Sheets, Finite(sheet), Straight(sheet),
           NEW left, left.expenses = sheet.expenses, left.payments \in SUBSET sheet.payments,
           NEW x \in People, NEW y \in People, Billed(sheet, x, y) >= 0
    PROVE  /\ PairNet(sheet, x, y) <= PairNet(left, x, y)
           /\ PairNet(sheet, x, y) <= Billed(sheet, x, y)
           /\ PairNet(left, x, y) \in Int
<1> DEFINE f == [s \in sheet.payments |-> Back(s, x, y)]
           h == [s \in left.payments |-> Back(s, x, y)]
<1>1. /\ Billed(sheet, x, y) \in Int /\ Billed(sheet, y, x) = -Billed(sheet, x, y)
      /\ PairNet(sheet, x, y) = Billed(sheet, x, y) + SumFunction(f)
  BY PairNetType
<1>2. PairNet(left, x, y) = Billed(sheet, x, y) + SumFunction(h)
  BY DEF PairNet, Billed, Back
<1>3. IsFiniteSet(sheet.payments) /\ IsFiniteSet(left.payments)
  BY FS_Subset DEF Finite
<1>4. f \in [sheet.payments -> Int] /\ h \in [left.payments -> Int]
  <2>1. \A s \in sheet.payments : Back(s, x, y) \in Int
    BY PaymentTyped, BackType
  <2> QED BY <2>1
<1>5. ASSUME NEW s \in sheet.payments PROVE f[s] <= 0
  <2>1. Billed(sheet, s.to, s.from) > 0
    BY DEF Straight
  <2>2. ~(s.from = x /\ s.to = y)
    BY <1>1, <2>1
  <2> QED BY <2>2, PaymentTyped DEF Back
<1>6. h = On(f, left.payments)
  BY DEF On
<1> HIDE DEF f, h
<1>7. SumFunction(f) <= SumFunction(h) /\ SumFunction(f) <= 0
  BY <1>3, <1>4, <1>5, <1>6, SumOfFewer
<1>8. SumFunction(f) \in Int /\ SumFunction(h) \in Int
  BY <1>3, <1>4, SumType
<1> QED BY <1>1, <1>2, <1>7, <1>8

\* One payment more.
LEMMA OneMorePaid ==
    ASSUME NEW sheet \in Sheets, Finite(sheet), NEW t, t.amount \in Int, t \notin sheet.payments,
           NEW now, now.expenses = sheet.expenses, now.payments = sheet.payments \cup {t},
           NEW x \in People, NEW y \in People
    PROVE  PairNet(now, x, y) = PairNet(sheet, x, y) + Back(t, x, y)
<1> DEFINE S == now.payments
           f == [s \in sheet.payments |-> Back(s, x, y)]
           h == [s \in S |-> Back(s, x, y)]
<1>1. /\ Billed(sheet, x, y) \in Int
      /\ PairNet(sheet, x, y) = Billed(sheet, x, y) + SumFunction(f)
  BY PairNetType
<1>2. PairNet(now, x, y) = Billed(sheet, x, y) + SumFunction(h)
  BY DEF PairNet, Billed, Back
<1>3. IsFiniteSet(S) /\ t \in S
  BY FS_AddElement DEF Finite
<1>4. h \in [S -> Int]
  <2>1. \A s \in S : Back(s, x, y) \in Int
    BY PaymentTyped, BackType
  <2> QED BY <2>1
<1>5. AllBut(h, t) = f /\ h[t] = Back(t, x, y)
  BY DEF AllBut, On
<1> HIDE DEF f, h, S
<1>6. SumFunction(h) = h[t] + SumFunction(f) /\ SumFunction(f) \in Int
  BY <1>3, <1>4, <1>5, SumTakes
<1>7. Back(t, x, y) \in Int
  BY BackType
<1> QED BY <1>1, <1>2, <1>5, <1>6, <1>7

\* A payment within what is owed turns nothing round.
LEMMA PaidWithin ==
    ASSUME NEW sheet \in Sheets, Finite(sheet), Straight(sheet), NotOverpaid(sheet),
           NEW t, t.amount \in Nat \ {0}, t \notin sheet.payments,
           t.from \in People, t.to \in People, t.from # t.to,
           t.amount <= PairNet(sheet, t.to, t.from),
           NEW now, now.expenses = sheet.expenses, now.payments = sheet.payments \cup {t}
    PROVE  /\ Straight(now) /\ NotOverpaid(now)
           /\ \A x, y \in People : {x, y} # {t.from, t.to} => PairNet(now, x, y) = PairNet(sheet, x, y)
<1>1. \A x, y : Billed(now, x, y) = Billed(sheet, x, y)
  BY DEF Billed
<1>2. \A x, y \in People : PairNet(now, x, y) = PairNet(sheet, x, y) + Back(t, x, y)
  BY OneMorePaid
<1>3. \A x, y \in People :
          /\ Billed(sheet, x, y) \in Int /\ PairNet(sheet, x, y) \in Int
          /\ Billed(sheet, y, x) = -Billed(sheet, x, y)
          /\ x # y => PairNet(sheet, y, x) = -PairNet(sheet, x, y)
  BY PairNetType
<1>4. Billed(sheet, t.to, t.from) > 0
  <2> SUFFICES ASSUME Billed(sheet, t.to, t.from) <= 0 PROVE FALSE
    BY <1>3
  <2>1. Billed(sheet, t.from, t.to) >= 0
    BY <1>3
  <2>2. PairNet(sheet, t.from, t.to) >= 0
    BY <2>1 DEF NotOverpaid
  <2>3. PairNet(sheet, t.from, t.to) = -PairNet(sheet, t.to, t.from)
    BY <1>3
  <2> QED BY <1>3, <2>2, <2>3
<1>5. Straight(now)
  BY <1>1, <1>4 DEF Straight
<1>6. ASSUME NEW x \in People, NEW y \in People, {x, y} # {t.from, t.to}
      PROVE  PairNet(now, x, y) = PairNet(sheet, x, y)
  BY <1>2, <1>3, <1>6 DEF Back
<1>7. ASSUME NEW x \in People, NEW y \in People, Billed(sheet, x, y) >= 0
      PROVE  PairNet(now, x, y) >= 0
  <2>1. PairNet(sheet, x, y) >= 0
    BY <1>7 DEF NotOverpaid
  <2>2. CASE x = t.to /\ y = t.from
    <3>1. Back(t, x, y) = -t.amount
      BY <2>2 DEF Back
    <3>2. PairNet(now, x, y) = PairNet(sheet, x, y) - t.amount
      BY <1>2, <1>3, <3>1
    <3> QED BY <1>3, <2>2, <3>2
  <2>3. CASE x = t.from /\ y = t.to
    BY <1>3, <1>4, <1>7, <2>3
  <2>4. CASE {x, y} # {t.from, t.to}
    BY <1>6, <2>1, <2>4
  <2> QED BY <2>2, <2>3, <2>4
<1>8. NotOverpaid(now)
  BY <1>1, <1>7 DEF NotOverpaid
<1> QED BY <1>5, <1>6, <1>8

-----------------------------------------------------------------------------
(* Settling up and undoing it, and nothing else to do with money.          *)

\* The bills stand, and nothing but settle-ups and their undoing touches the
\* payments: nobody files, edits, deletes or restores an expense, records a payment
\* on its own or restores one, is folded into somebody, removed, or joins.
OnlySettling ==
    Ops \cap {"create", "edit", "deleteExpense", "restoreExpense", "pay", "restorePayment",
              "remove", "merge", "join"} = {}

OtherBusiness ==
    {CreateAwaits, EditAwaits, DeleteAwaits, RestoreAwaits, PayAwaits, RedoAwaits, RemoveAwaits,
     MergeAwaits, JoinAwaits}
NoOtherBusiness == \A p \in Procs : \A E \in OtherBusiness : Place(p) \notin E

LEMMA OtherOps ==
    ASSUME OnlySettling, NEW r \in Arrivals, r.op \in Ops
    PROVE  \A E \in OtherBusiness : r.op \notin E
<1> USE DEF OtherBusiness, OnlySettling, CreateAwaits, EditAwaits, DeleteAwaits, RestoreAwaits,
        PayAwaits, RedoAwaits, RemoveAwaits, MergeAwaits, JoinAwaits
<1>1. CASE r \in ExpenseArrivals
  BY <1>1 DEF ExpenseArrivals
<1>2. CASE r \in PaymentArrivals
  BY <1>2 DEF PaymentArrivals, PaymentRequests
<1>3. CASE r \in MemberArrivals
  BY <1>3 DEF MemberArrivals, MemberRequests
<1>4. CASE r \in EndingArrivals
  BY <1>4 DEF EndingArrivals, EndingRequests
<1> QED BY <1>1, <1>2, <1>3, <1>4 DEF Arrivals

LEMMA BusinessStays ==
    ASSUME OnlySettling, IInv, NoOtherBusiness, [Next]_vars
    PROVE  NoOtherBusiness'
<1> SUFFICES \A q \in Procs : \A E \in OtherBusiness : Place(q)' \notin E
  BY DEF NoOtherBusiness
<1>1. \A E \in OtherBusiness : "idle" \notin E /\ E \in Endpoints
  BY DEF OtherBusiness, Endpoints, CreateAwaits, EditAwaits, DeleteAwaits, RestoreAwaits,
     PayAwaits, RedoAwaits, RemoveAwaits, MergeAwaits, JoinAwaits
<1>2. \A q \in Procs : GoesOnIn(q) => \A E \in OtherBusiness : Place(q)' \notin E
  BY <1>1 DEF GoesOnIn, NoOtherBusiness
<1>3. \A q \in Procs : Rests(q) => \A E \in OtherBusiness : Place(q)' \notin E
  BY DEF Rests, NoOtherBusiness
<1>4. \A r \in Arrivals : r.op \in Ops => \A E \in OtherBusiness : r.op \notin E
  BY OtherOps
<1> QED BY <1>1, <1>2, <1>3, <1>4, PlacesGo

LEMMA BusinessAtFirst == Init => NoOtherBusiness
BY DEF Init, NoOtherBusiness, OtherBusiness, Place, SheetAwaits, CreateAwaits, EditAwaits, DeleteAwaits,
   RestoreAwaits, PayAwaits, RedoAwaits, RemoveAwaits, MergeAwaits, JoinAwaits

\* So no step is one of these.
LEMMA NotTheirs ==
    ASSUME NoOtherBusiness, NEW p \in Procs
    PROVE  /\ ~CreateCommit(p) /\ ~EditCommit(p) /\ ~DeleteCommit(p) /\ ~RestoreCommit(p)
           /\ ~PayCommit(p) /\ ~RedoCommit(p) /\ ~RemoveForget(p) /\ ~MergeCommit(p) /\ ~JoinClaim(p)
<1>1. Place(p) \notin {"CreateCommit", "EditCommit", "DeleteCommit", "RestoreCommit", "PayCommit",
                       "RedoCommit", "RemoveForget", "MergeCommit", "JoinClaim"}
  BY DEF NoOtherBusiness, OtherBusiness, CreateAwaits, EditAwaits, DeleteAwaits, RestoreAwaits,
     PayAwaits, RedoAwaits, RemoveAwaits, MergeAwaits, JoinAwaits
<1>2. Place(p) \notin {"CreateCommit", "EditCommit", "DeleteCommit", "RestoreCommit", "PayCommit",
                       "RedoCommit", "RemoveForget", "MergeCommit", "JoinClaim"}
        => pc[p] \notin {"CreateCommit", "EditCommit", "DeleteCommit", "RestoreCommit", "PayCommit",
                       "RedoCommit", "RemoveForget", "MergeCommit", "JoinClaim"}
  BY DEF Place, SheetAwaits
<1> QED BY <1>1, <1>2 DEF CreateCommit, EditCommit, DeleteCommit, RestoreCommit, PayCommit, RedoCommit,
     RemoveForget, MergeCommit, JoinClaim

\* A step that files no payment: each stays what it was, or goes.
NoneFiled ==
    \A s \in PaymentIds : payments'[s] # NoRow =>
        /\ payments[s] # NoRow
        /\ payments'[s].group = payments[s].group /\ payments'[s].amount = payments[s].amount
        /\ payments'[s].from = payments[s].from /\ payments'[s].to = payments[s].to
        /\ payments[s].deleted => payments'[s].deleted

Transfers(p) == BatchCommit(p) /\ ~Leave(p)

LEMMA OnlyPayments ==
    ASSUME IInv, NoOtherBusiness, [Next]_vars
    PROVE  /\ UNCHANGED expenses /\ disbanded \subseteq disbanded'
           /\ NoneFiled \/ \E p \in Procs : Transfers(p)
<1>1. Before
  BY DEF IInv, Before
<1>2. UNCHANGED expenses
  <2>1. CASE Restart \/ UNCHANGED vars \/ \E p \in Procs : Arrive(p)
    BY <2>1 DEF Restart, Arrive, vars, rows
  <2>2. ASSUME NEW p \in Procs, Handle(p) PROVE UNCHANGED expenses
    <3>1. UNCHANGED expenses \/ Writes(p)
      BY <1>1, <2>2, HandleMoves DEF Moves, Touches
    <3>2. UNCHANGED expenses \/ BatchCommit(p) \/ UndoCommit(p)
      BY <3>1, NotTheirs DEF Writes
    <3> QED BY <3>2 DEF BatchCommit, UndoCommit, Leave, rows
  <2> QED BY <2>1, <2>2, StepIs
<1>3. disbanded \subseteq disbanded'
  BY KeptForGood DEF Kept
<1>4. ASSUME ~NoneFiled PROVE \E p \in Procs : Transfers(p)
  <2>1. PICK s \in PaymentIds :
            /\ payments'[s] # NoRow
            /\ ~(/\ payments[s] # NoRow
                 /\ payments'[s].group = payments[s].group /\ payments'[s].amount = payments[s].amount
                 /\ payments'[s].from = payments[s].from /\ payments'[s].to = payments[s].to
                 /\ payments[s].deleted => payments'[s].deleted)
    BY <1>4 DEF NoneFiled
  <2>2. PaymentOf(s)
    BY <2>1, PaymentBecomes
  <2>3. ~SamePayment(s)
    BY <2>1, NotTheirs DEF SamePayment
  <2>4. \E p \in Procs : Paid(p, s) \/ (\E r : Transferred(p, s, r)) \/ RemoveForget(p)
                           \/ MergeCommit(p) \/ JoinClaim(p)
    BY <2>2, <2>3 DEF PaymentOf, Takes, Forgets
  <2> QED BY <2>4, NotTheirs DEF Paid, Transferred, Transfers
<1> QED BY <1>2, <1>3, <1>4

SettledRight == \A l \in Ledgers : Straight(Sheet(l)) /\ NotOverpaid(Sheet(l))

\* The bills of ledger l say what they said, and no less is owed by x to y.
Grows(l, x, y) ==
    /\ Billed(Sheet(l), x, y)' = Billed(Sheet(l), x, y)
    /\ Billed(Sheet(l), x, y) >= 0 =>
          PairNet(Sheet(l), x, y)' \in Int /\ PairNet(Sheet(l), x, y) <= PairNet(Sheet(l), x, y)'

LEMMA BillsLast ==
    ASSUME UNCHANGED expenses, disbanded \subseteq disbanded', NEW l, Stands(l)'
    PROVE  Stands(l) /\ Sheet(l)'.expenses = Sheet(l).expenses
           /\ \A x, y : Billed(Sheet(l), x, y)' = Billed(Sheet(l), x, y)
<1>1. Stands(l)
  BY DEF Stands
<1>2. LiveExpenses(l)' = LiveExpenses(l)
  BY <1>1 DEF LiveExpenses, There
<1>3. ExpensesOf(l)' = ExpensesOf(l)
  BY <1>2 DEF ExpensesOf
<1> QED BY <1>1, <1>3 DEF Billed, Sheet

LEMMA PaymentsGo ==
    ASSUME UNCHANGED expenses, disbanded \subseteq disbanded', NoneFiled, NEW l, Stands(l)'
    PROVE  Sheet(l)'.payments \in SUBSET Sheet(l).payments
<1>1. Stands(l)
  BY DEF Stands
<1>2. ASSUME NEW s \in LivePayments(l)'
      PROVE  /\ s \in LivePayments(l)
             /\ payments'[s].amount = payments[s].amount
             /\ payments'[s].from = payments[s].from /\ payments'[s].to = payments[s].to
  BY <1>1, <1>2 DEF NoneFiled, LivePayments, There
<1> QED BY <1>2 DEF Sheet, PaymentsOf

\* A ledger that is no more is empty.
LEMMA EmptyRight ==
    /\ Straight(EmptySheet) /\ NotOverpaid(EmptySheet)
    /\ \A l : ~Stands(l) => Sheet(l) = EmptySheet
    /\ \A x, y : PairNet(EmptySheet, x, y) = 0
<1>1. \A l : ~Stands(l) => Sheet(l) = EmptySheet
  BY DEF Sheet, EmptySheet, ExpensesOf, PaymentsOf, LiveExpenses, LivePayments, There
<1>2. ASSUME NEW x, NEW y PROVE PairNet(EmptySheet, x, y) = 0
  <2> DEFINE E == [e \in EmptySheet.expenses |-> Claim(e.bill, x, y) - Claim(e.bill, y, x)]
             P == [s \in EmptySheet.payments |-> IF s.from = x /\ s.to = y THEN s.amount
                                                 ELSE IF s.from = y /\ s.to = x THEN -s.amount
                                                 ELSE 0]
  <2>1. DOMAIN E = {} /\ DOMAIN P = {}
    BY DEF EmptySheet
  <2>2. PairNet(EmptySheet, x, y) = SumFunction(E) + SumFunction(P)
    BY DEF PairNet
  <2> HIDE DEF E, P
  <2> QED BY <2>1, <2>2, SumEmpty
<1> QED BY <1>1, <1>2 DEF Straight, NotOverpaid, EmptySheet

LEMMA LedgersTyped ==
    ASSUME TypeOK, NEW l
    PROVE  Sheet(l) \in Sheets /\ Finite(Sheet(l))
BY SheetTyped, SheetsFinite DEF TypeOK

\* Undoing settles nothing the wrong way round.
LEMMA UndoneRight ==
    ASSUME TypeOK, UNCHANGED expenses, disbanded \subseteq disbanded', NoneFiled, SettledRight
    PROVE  /\ SettledRight'
           /\ \A l \in Ledgers : Stands(l)' => \A x, y \in People : Grows(l, x, y)
<1>1. ASSUME NEW l \in Ledgers, Stands(l)'
      PROVE  /\ Straight(Sheet(l)') /\ NotOverpaid(Sheet(l)')
             /\ \A x, y \in People : Grows(l, x, y)
  <2>1. /\ Sheet(l)'.expenses = Sheet(l).expenses
        /\ \A x, y : Billed(Sheet(l)', x, y) = Billed(Sheet(l), x, y)
    BY <1>1, BillsLast
  <2>2. Sheet(l)'.payments \in SUBSET Sheet(l).payments
    BY <1>1, PaymentsGo
  <2>3. Sheet(l) \in Sheets /\ Finite(Sheet(l)) /\ Straight(Sheet(l)) /\ NotOverpaid(Sheet(l))
    BY LedgersTyped DEF SettledRight
  <2>4. ASSUME NEW x \in People, NEW y \in People, Billed(Sheet(l), x, y) >= 0
        PROVE  /\ PairNet(Sheet(l), x, y) <= PairNet(Sheet(l)', x, y)
               /\ PairNet(Sheet(l), x, y) \in Int /\ PairNet(Sheet(l)', x, y) \in Int
    BY <2>1, <2>2, <2>3, <2>4, FewerPaid, PairNetType
  <2>5. Straight(Sheet(l)')
    BY <2>1, <2>2, <2>3 DEF Straight
  <2>6. NotOverpaid(Sheet(l)')
    <3> SUFFICES ASSUME NEW x \in People, NEW y \in People, Billed(Sheet(l), x, y) >= 0
                 PROVE  PairNet(Sheet(l)', x, y) >= 0
      BY <2>1 DEF NotOverpaid
    <3>1. PairNet(Sheet(l), x, y) >= 0
      BY <2>3 DEF NotOverpaid
    <3> QED BY <2>4, <3>1
  <2> QED BY <2>1, <2>4, <2>5, <2>6 DEF Grows
<1>2. \A l : ~Stands(l)' => Sheet(l)' = EmptySheet
  BY DEF Sheet, EmptySheet, ExpensesOf, PaymentsOf, LiveExpenses, LivePayments, There
<1>3. SettledRight'
  <2> SUFFICES ASSUME NEW l \in Ledgers PROVE Straight(Sheet(l)') /\ NotOverpaid(Sheet(l)')
    BY DEF SettledRight, Ledgers
  <2> QED BY <1>1, <1>2, EmptyRight
<1> QED BY <1>1, <1>3

-----------------------------------------------------------------------------
(* A transfer, as the ledgers go.                                          *)

\* What a sheet read a while ago says x is owed by y, they still are, and in no
\* ledger does anybody owe the wrong way round.
StillOwed(held, sheet, x, y) ==
    Billed(sheet, x, y) >= 0 => 0 <= PairNet(held, x, y) /\ PairNet(held, x, y) <= PairNet(sheet, x, y)

LEMMA WithinWhatIsOwed ==
    ASSUME NEW held \in Sheets, Finite(held), NEW sheet \in Sheets, Finite(sheet),
           NEW x \in People, NEW y \in People, x # y,
           StillOwed(held, sheet, x, y), StillOwed(held, sheet, y, x),
           NEW n \in Nat \ {0}, n <= Abs(PairNet(held, x, y))
    PROVE  IF PairNet(held, x, y) > 0 THEN n <= PairNet(sheet, x, y) ELSE n <= PairNet(sheet, y, x)
<1>1. /\ PairNet(held, x, y) \in Int /\ PairNet(held, y, x) = -PairNet(held, x, y)
      /\ PairNet(sheet, x, y) \in Int /\ PairNet(sheet, y, x) = -PairNet(sheet, x, y)
      /\ Billed(sheet, x, y) \in Int /\ Billed(sheet, y, x) = -Billed(sheet, x, y)
  BY PairNetType
<1> DEFINE a == PairNet(held, x, y)
           b == PairNet(sheet, x, y)
           c == Billed(sheet, x, y)
<1>2. /\ c >= 0 => 0 <= a /\ a <= b
      /\ -c >= 0 => 0 <= -a /\ -a <= -b
      /\ n <= IF a < 0 THEN -a ELSE a
  BY <1>1 DEF StillOwed, Abs
<1>3. a \in Int /\ b \in Int /\ c \in Int
  BY <1>1
<1>4. PairNet(sheet, y, x) = -b
  BY <1>1
<1> HIDE DEF a, b, c
<1>5. IF a > 0 THEN n <= b ELSE n <= -b
  BY <1>2, <1>3
<1> QED BY <1>4, <1>5 DEF a, b

\* The payment that row r of p's transfer becomes.
SentBy(p, r) ==
    [id |-> r.id, from |-> payments'[r.id].from, to |-> payments'[r.id].to,
     amount |-> payments'[r.id].amount]

LEMMA RowsFiled ==
    ASSUME IInv, NEW p \in Procs, Transfers(p)
    PROVE  LET b == BatchDraft[req[p].id]
           IN  /\ req[p].id \in BatchIds /\ UNCHANGED <<circle, expenses>>
               /\ \A s \in PaymentIds \ {r.id : r \in b.rows} : payments'[s] = payments[s]
               /\ \A r \in b.rows :
                     /\ r.id \in PaymentIds /\ r.group \in Ledgers /\ r.amount \in Nat \ {0}
                     /\ payments[r.id] = NoRow /\ payments'[r.id] # NoRow
                     /\ ~payments'[r.id].deleted
                     /\ Transferred(p, r.id, r)
                     /\ \A t \in b.rows : t.group = r.group \/ t.id = r.id => t = r
<1> DEFINE b == BatchDraft[req[p].id]
<1>1. Before
  BY DEF IInv, Before
<1>2. /\ req[p].id \in BatchIds /\ Unfiled(IdsOf(req[p].id))
      /\ \A s \in PaymentIds \ IdsOf(req[p].id) : payments'[s] = payments[s]
      /\ \A s \in IdsOf(req[p].id) : payments'[s] # NoRow /\ payments'[s].deleted = FALSE
  BY <1>1, BatchFiles DEF Transfers, Files
<1>3. UNCHANGED <<circle, expenses>>
  BY DEF Transfers, BatchCommit
<1>4. /\ \A r \in b.rows : r.id \in PaymentIds /\ r.group \in Ledgers /\ r.amount \in Nat \ {0}
      /\ \A r, t \in b.rows : t.group = r.group \/ t.id = r.id => t = r
  BY <1>2, SettlementsAssumption
<1>5. ASSUME NEW r \in b.rows
      PROVE  /\ payments[r.id] = NoRow /\ payments'[r.id] # NoRow /\ ~payments'[r.id].deleted
             /\ Transferred(p, r.id, r)
  <2>1. r.id \in IdsOf(req[p].id) /\ r.id \in PaymentIds
    BY <1>4 DEF IdsOf
  <2>2. payments[r.id] = NoRow /\ payments'[r.id] # NoRow /\ ~payments'[r.id].deleted
    BY <1>2, <2>1 DEF Unfiled
  <2>3. PICK t : Transferred(p, r.id, t)
    BY <1>1, <2>1, <2>2, TransferBecomes DEF SamePayment, Transfers
  <2>4. t = r
    BY <1>4, <2>3 DEF Transferred
  <2> QED BY <2>2, <2>3, <2>4
<1> QED BY <1>2, <1>3, <1>4, <1>5 DEF IdsOf

\* It puts one payment in each ledger it is for, and leaves the others.
LEMMA TransferPuts ==
    ASSUME IInv, NEW p \in Procs, Transfers(p), NEW l
    PROVE  \/ Sheet(l)' = Sheet(l)
           \/ \E r \in BatchDraft[req[p].id].rows :
                 /\ r.group = l /\ Stands(l) /\ SentBy(p, r) \notin Sheet(l).payments
                 /\ Sheet(l)'.expenses = Sheet(l).expenses
                 /\ Sheet(l)'.payments = Sheet(l).payments \cup {SentBy(p, r)}
<1> DEFINE b == BatchDraft[req[p].id]
<1>1. /\ UNCHANGED <<expenses, disbanded>>
      /\ \A s \in PaymentIds \ {r.id : r \in b.rows} : payments'[s] = payments[s]
      /\ \A r \in b.rows : /\ r.id \in PaymentIds /\ payments[r.id] = NoRow
                           /\ payments'[r.id] # NoRow /\ ~payments'[r.id].deleted
                           /\ payments'[r.id].group = r.group
                           /\ \A t \in b.rows : t.group = r.group \/ t.id = r.id => t = r
  BY RowsFiled DEF circle, Transferred
<1> HIDE DEF b
<1>2. ExpensesOf(l)' = ExpensesOf(l)
  BY <1>1 DEF ExpensesOf, LiveExpenses, There, Stands
<1>3. ASSUME NEW s \in PaymentIds \ {r.id : r \in b.rows}
      PROVE  s \in LivePayments(l)' <=> s \in LivePayments(l)
  BY <1>1 DEF LivePayments, There, Stands
<1>4. ASSUME NEW r \in b.rows
      PROVE  r.id \notin LivePayments(l) /\ (r.id \in LivePayments(l)' <=> r.group = l /\ Stands(l))
  BY <1>1 DEF LivePayments, There, Stands
<1>5. LivePayments(l) \subseteq PaymentIds /\ LivePayments(l)' \subseteq PaymentIds
  BY DEF LivePayments
<1>6. \A s \in LivePayments(l) : payments'[s] = payments[s] /\ s \notin {r.id : r \in b.rows}
  BY <1>1, <1>4, <1>5
<1>7. CASE \A r \in b.rows : ~(r.group = l /\ Stands(l))
  <2>1. LivePayments(l)' = LivePayments(l)
    BY <1>3, <1>4, <1>5, <1>7
  <2>2. PaymentsOf(l)' = PaymentsOf(l)
    BY <1>6, <2>1 DEF PaymentsOf
  <2> QED BY <1>2, <2>2 DEF Sheet
<1>8. ASSUME NEW r \in b.rows, r.group = l, Stands(l)
      PROVE  /\ SentBy(p, r) \notin Sheet(l).payments
             /\ Sheet(l)'.expenses = Sheet(l).expenses
             /\ Sheet(l)'.payments = Sheet(l).payments \cup {SentBy(p, r)}
  <2>1. LivePayments(l)' = LivePayments(l) \cup {r.id}
    BY <1>1, <1>3, <1>4, <1>5, <1>8
  <2> DEFINE Way(s) == [id |-> s, from |-> payments[s].from, to |-> payments[s].to,
                        amount |-> payments[s].amount]
             Now(s) == [id |-> s, from |-> payments'[s].from, to |-> payments'[s].to,
                        amount |-> payments'[s].amount]
  <2>2. PaymentsOf(l) = {Way(s) : s \in LivePayments(l)} /\ PaymentsOf(l)' = {Now(s) : s \in LivePayments(l)'}
    BY DEF PaymentsOf
  <2>3. SentBy(p, r) = Now(r.id) /\ \A s \in LivePayments(l) : Now(s) = Way(s)
    BY <1>6 DEF SentBy
  <2>4. \A s : Way(s).id = s /\ Now(s).id = s
    OBVIOUS
  <2> HIDE DEF Way, Now
  <2>5. PaymentsOf(l)' = PaymentsOf(l) \cup {Now(r.id)}
    BY <2>1, <2>2, <2>3
  <2>6. Now(r.id) \notin PaymentsOf(l)
    BY <1>4, <1>8, <2>2, <2>4
  <2> QED BY <1>2, <2>3, <2>5, <2>6 DEF Sheet
<1> QED BY <1>7, <1>8 DEF b

\* The two whose debts p settles.
Settlers(p) == {Me(p), BatchDraft[req[p].id].other}

\* The groups whose sheets p has by now.
Told(p) ==
    IF pc[p] = "Versions" THEN {}
    ELSE IF pc[p] \in {"SheetExpenses", "SheetPayments"} THEN reading[p].groups \ reading[p].stale
    ELSE reading[p].groups

\* What p read is still owed, though it may since have undone a payment.
Knows(p) ==
    Place(p) = "BatchCommit" =>
        /\ \A x, y \in Settlers(p) :
              /\ StillOwed(seen[p].direct, Sheet(NoGroup), x, y)
              /\ \A g \in Told(p) : Stands(g) => StillOwed(reading[p].sheet[g], Sheet(g), x, y)
        /\ pc[p] = "SheetPayments" =>
              \A g \in reading[p].stale : Stands(g) => reading[p].expenses[g] = ExpensesOf(g)

\* While p queues for a pair of people or has its turn, they are the two.
OnKey(p) ==
    Place(p) \in BatchAwaits \ {"batch"} =>
        on[p] = PairKey(Me(p), BatchDraft[req[p].id].other)

LEMMA CommitsAt ==
    ASSUME IInv, NEW p \in Procs, BatchCommit(p)
    PROVE  /\ pc[p] = "BatchCommit" /\ Place(p) = "BatchCommit" /\ Told(p) = reading[p].groups
           /\ req[p].id \in BatchIds /\ Me(p) \in People /\ BatchDraft[req[p].id].other \in People
           /\ Settlers(p) \subseteq People
<1>1. Before
  BY DEF IInv, Before
<1>2. req[p].id \in BatchIds /\ req[p].session \in Sessions
  BY <1>1, AtStaged DEF BatchCommit, SheetAwaits, Staged, PaymentStage, PaymentAwaits, BatchAwaits
<1>3. Me(p) \in People /\ BatchDraft[req[p].id].other \in People
  BY <1>2, LedgerAssumption, SettlementsAssumption DEF Me
<1> QED BY <1>2, <1>3 DEF BatchCommit, Place, Told, SheetAwaits, Settlers

\* A sheet handler p holds is a sheet.
LEMMA HeldSheets ==
    ASSUME IInv, SheetsHeld, NEW p \in Procs
    PROVE  /\ seen[p].direct \in Sheets /\ Finite(seen[p].direct)
           /\ \A g \in Groups : /\ reading[p].sheet[g] \in Sheets /\ Finite(reading[p].sheet[g])
                                /\ g \notin reading[p].groups => reading[p].sheet[g] = EmptySheet
BY DEF IInv, TypeOK, ControlOK, SheetsHeld, Sightings, Readings

\* A transfer pays no more than is owed, in any ledger.
LEMMA TransferWithin ==
    ASSUME IInv, SheetsHeld, Asked, NEW p \in Procs, Knows(p), Transfers(p),
           NEW r \in BatchDraft[req[p].id].rows, Stands(r.group)
    PROVE  LET t == SentBy(p, r)
           IN  /\ t.amount \in Nat \ {0} /\ t.from # t.to
               /\ t.from \in People /\ t.to \in People /\ {t.from, t.to} = Settlers(p)
               /\ t.amount <= PairNet(Sheet(r.group), t.to, t.from)
<1> DEFINE other == BatchDraft[req[p].id].other
           held  == IF r.group = NoGroup THEN seen[p].direct ELSE reading[p].sheet[r.group]
           owed  == PairNet(held, Me(p), other)
<1>1. /\ pc[p] = "BatchCommit" /\ Place(p) = "BatchCommit" /\ Told(p) = reading[p].groups
      /\ req[p].id \in BatchIds /\ Me(p) \in People /\ other \in People
  BY CommitsAt DEF Transfers
<1>2. Me(p) # other
  BY <1>1 DEF Asked, BatchAwaits
<1>3. /\ r.group \in Ledgers /\ r.amount \in Nat \ {0} /\ r.amount <= Abs(owed)
      /\ payments'[r.id].amount = r.amount
      /\ IF owed > 0 THEN payments'[r.id].from = other /\ payments'[r.id].to = Me(p)
                     ELSE payments'[r.id].from = Me(p) /\ payments'[r.id].to = other
  BY RowsFiled DEF Transferred, Outstanding
<1>4. held \in Sheets /\ Finite(held)
  BY <1>3, HeldSheets DEF Ledgers
<1>5. Sheet(r.group) \in Sheets /\ Finite(Sheet(r.group))
  BY LedgersTyped DEF IInv
<1>6. StillOwed(held, Sheet(r.group), Me(p), other) /\ StillOwed(held, Sheet(r.group), other, Me(p))
  <2>1. CASE r.group = NoGroup
    BY <1>1, <2>1 DEF Knows, Settlers
  <2>2. CASE r.group \in reading[p].groups /\ r.group # NoGroup
    BY <1>1, <2>2 DEF Knows, Settlers
  <2>3. r.group \in reading[p].groups \/ r.group = NoGroup
    <3> SUFFICES ASSUME r.group \notin reading[p].groups, r.group # NoGroup PROVE FALSE
      OBVIOUS
    <3>1. held = EmptySheet
      BY <1>3, HeldSheets DEF Ledgers
    <3>2. owed = 0
      BY <3>1, EmptyRight
    <3> HIDE DEF owed
    <3> QED BY <1>3, <3>2 DEF Abs
  <2> QED BY <2>1, <2>2, <2>3
<1> HIDE DEF held
<1>7. IF owed > 0 THEN r.amount <= PairNet(Sheet(r.group), Me(p), other)
                  ELSE r.amount <= PairNet(Sheet(r.group), other, Me(p))
  BY <1>1, <1>2, <1>3, <1>4, <1>5, <1>6, WithinWhatIsOwed
<1> HIDE DEF owed, other
<1>8. /\ SentBy(p, r).amount = r.amount
      /\ IF owed > 0 THEN SentBy(p, r).from = other /\ SentBy(p, r).to = Me(p)
                     ELSE SentBy(p, r).from = Me(p) /\ SentBy(p, r).to = other
  BY <1>3 DEF SentBy
<1>9. Settlers(p) = {Me(p), other}
  BY DEF Settlers, other
<1> QED BY <1>1, <1>2, <1>3, <1>7, <1>8, <1>9

\* So it settles nothing the wrong way round, and changes what no two others owe.
LEMMA TransferRight ==
    ASSUME IInv, SheetsHeld, Asked, SettledRight, NEW p \in Procs, Knows(p), Transfers(p)
    PROVE  /\ SettledRight'
           /\ \A l \in Ledgers : \A x, y \in People : {x, y} # Settlers(p) => Grows(l, x, y)
<1>1. ASSUME NEW l \in Ledgers
      PROVE  /\ Straight(Sheet(l)') /\ NotOverpaid(Sheet(l)')
             /\ \A x, y \in People : {x, y} # Settlers(p) => Grows(l, x, y)
  <2>1. Straight(Sheet(l)) /\ NotOverpaid(Sheet(l)) /\ Sheet(l) \in Sheets /\ Finite(Sheet(l))
    BY LedgersTyped DEF SettledRight, IInv
  <2>2. \A x, y \in People : PairNet(Sheet(l), x, y) \in Int
    BY <2>1, PairNetType
  <2>3. CASE Sheet(l)' = Sheet(l)
    <3>1. \A x, y \in People : Grows(l, x, y)
      BY <2>2, <2>3 DEF Grows
    <3> QED BY <2>1, <2>3, <3>1
  <2>4. ASSUME NEW r \in BatchDraft[req[p].id].rows, r.group = l, Stands(l),
               SentBy(p, r) \notin Sheet(l).payments,
               Sheet(l)'.expenses = Sheet(l).expenses,
               Sheet(l)'.payments = Sheet(l).payments \cup {SentBy(p, r)}
        PROVE  /\ Straight(Sheet(l)') /\ NotOverpaid(Sheet(l)')
               /\ \A x, y \in People : {x, y} # Settlers(p) => Grows(l, x, y)
    <3> DEFINE t == SentBy(p, r)
    <3>1. /\ t.amount \in Nat \ {0} /\ t.from # t.to
          /\ t.from \in People /\ t.to \in People /\ {t.from, t.to} = Settlers(p)
          /\ t.amount <= PairNet(Sheet(l), t.to, t.from)
      BY <2>4, TransferWithin
    <3> HIDE DEF t
    <3>2. /\ Straight(Sheet(l)') /\ NotOverpaid(Sheet(l)')
          /\ \A x, y \in People : {x, y} # {t.from, t.to}
                => PairNet(Sheet(l)', x, y) = PairNet(Sheet(l), x, y)
      BY <2>1, <2>4, <3>1, PaidWithin DEF t
    <3>3. \A x, y : Billed(Sheet(l)', x, y) = Billed(Sheet(l), x, y)
      BY <2>4 DEF Billed
    <3>4. \A x, y \in People : {x, y} # Settlers(p) => Grows(l, x, y)
      BY <2>2, <3>1, <3>2, <3>3 DEF Grows
    <3> QED BY <3>2, <3>4
  <2> QED BY <2>3, <2>4, TransferPuts
<1>2. SettledRight'
  BY <1>1 DEF SettledRight, Ledgers
<1> QED BY <1>1, <1>2

-----------------------------------------------------------------------------
(* What a settle-up has read stays so until it files.                      *)

LEMMA NobodyStrays ==
    ASSUME IInv, Grounded
    PROVE  Strays = {}
<1> SUFFICES ASSUME NEW g \in Groups, NEW x \in NamedIn(g), member[g][x] = "none" PROVE FALSE
  BY DEF Strays
<1>1. CASE \E e \in LiveExpenses(g) : x \in Named(expenses[e].bill)
  <2>1. PICK e \in ExpenseIds : /\ expenses[e] # NoRow /\ expenses[e].group = g /\ Stands(g)
                                /\ x \in Named(expenses[e].bill)
    BY <1>1 DEF LiveExpenses, There
  <2>2. Known(g, x) /\ Exist({x})
    BY <2>1 DEF Grounded, RowsKnown, NamesHold, AllKnown, Exist
  <2> QED BY <2>1, <2>2 DEF Known, Exist, Seat
<1>2. CASE \E s \in LivePayments(g) : x \in {payments[s].from, payments[s].to}
  <2>1. PICK s \in PaymentIds : /\ payments[s] # NoRow /\ payments[s].group = g /\ Stands(g)
                                /\ x \in {payments[s].from, payments[s].to}
    BY <1>2 DEF LivePayments, There
  <2>2. Known(g, x) /\ Exist({x})
    BY <2>1 DEF Grounded, RowsKnown, NamesHold, AllKnown, Exist
  <2> QED BY <2>1, <2>2 DEF Known, Exist, Seat
<1> QED BY <1>1, <1>2 DEF NamedIn

\* Every step looks out for strays, and a handler's leaves the others where they were.
LEMMA Alone ==
    ASSUME IInv, NEW q \in Procs, Arrive(q) \/ Handle(q)
    PROVE  /\ strayed' = strayed \cup Strays
           /\ \A p \in Procs \ {q} : Rests(p) /\ pc'[p] = pc[p] /\ reading'[p] = reading[p]
<1>1. Before /\ ControlOK
  BY DEF IInv, Before, TypeOK
<1>2. CASE Arrive(q)
  BY <1>1, <1>2, Knocks DEF Arrive
<1>3. CASE Reads(q)
  <2>1. \A p \in Procs \ {q} : Rests(p) /\ pc'[p] = pc[p]
    BY <1>1, <1>3, HandleMoves DEF Moves, Reads, Handle
  <2>2. \A p \in Procs \ {q} : reading'[p] = reading[p]
    BY <1>1, <1>3, SheetSteps
  <2>3. strayed' = strayed \cup Strays
    BY <1>3 DEF Reads, SheetVersions, SheetExpenses, SheetPayments, To
  <2> QED BY <2>1, <2>2, <2>3
<1>4. CASE Handle(q) /\ ~Reads(q)
  <2>1. \A p \in Procs \ {q} : Rests(p) /\ pc'[p] = pc[p]
    BY <1>1, <1>4, HandleMoves DEF Moves
  <2>2. Remembers(q)
    BY <1>1, <1>4, ExpenseRemembers, PaymentRemembers, MemberRemembers, EndingRemembers
    DEF Handle, Reads
  <2>3. \A p \in Procs \ {q} : reading'[p] = reading[p]
    BY <1>1, <2>2 DEF Remembers, Finish, Enqueue, Go, ReadSheets, ControlOK
  <2>4. strayed' = strayed \cup Strays
    BY <2>2 DEF Remembers, Finish, Enqueue, Go, ReadSheets, To
  <2> QED BY <2>1, <2>3, <2>4
<1> QED BY <1>2, <1>3, <1>4

LEMMA NeverStray == IInv /\ Grounded /\ strayed = {} /\ [Next]_vars => strayed' = {}
<1> SUFFICES ASSUME IInv, Grounded, strayed = {}, [Next]_vars PROVE strayed' = {}
  OBVIOUS
<1>1. Strays = {}
  BY NobodyStrays
<1>2. \A q \in Procs : Arrive(q) \/ Handle(q) => strayed' = strayed \cup Strays
  BY Alone
<1> QED BY <1>1, <1>2, StepIs DEF Restart, vars

\* Nothing but its own name takes a handler through these.
LEMMA AtBatch ==
    ASSUME NEW p \in Procs, Handle(p)
    PROVE  /\ pc[p] = "batch" => BatchStart(p)
           /\ pc[p] \in SheetAwaits => Reads(p)
BY DEF SheetAwaits, Reads, Handle, ExpenseSteps, PaymentSteps, MemberSteps, EndingSteps,
       CreateAccess, CreateInvolve, CreateCommit, CreateAnnounce, EditLoad, EditInvolve,
       EditCheck, EditCommit, DeleteLoad, DeleteCommit, RestoreLoad, RestoreMembers, RestoreCommit,
       PayReplay, PayMembers, PayTurn, PayCommit, PayAnnounce,
       BatchStart, BatchTurn, BatchShared, BatchCommit, BatchAnnounce,
       UndoLoad, UndoSiblings, UndoCommit, RedoLoad, RedoSiblings, RedoMembers, RedoCommit,
       Look, Looked, RemoveAccess, RemoveCount, RemoveLeave, RemoveDrop, RemoveForget,
       RemoveSuccessor, RemovePromote, Removed, MergeMay, MergeCommit, JoinLook, JoinClaim,
       JoinSeat, JoinConnect, AddAccess, AddSeat, AddGhostAccess, AddGhostSeat,
       BefriendLook, BefriendShare, CodeLook, BefriendWrite, UnfriendShared, UnfriendWrite,
       DisbandAccess, DisbandWrite, CloseRead, CloseCheck, CloseOwned, CloseWrite,
       SheetVersions, SheetExpenses, SheetPayments

OnKeys == \A p \in Procs : OnKey(p)

LEMMA OnKeysStay == IInv /\ OnKeys /\ [Next]_vars => OnKeys'
<1> SUFFICES ASSUME IInv, OnKeys, [Next]_vars PROVE OnKeys'
  OBVIOUS
<1> DEFINE B == BatchAwaits \ {"batch"}
           Key(r) == PairKey(PersonOf[r.session], BatchDraft[r.id].other)
<1>1. \A q \in Procs : Place(q) \in B => on[q] = Key(req[q])
  BY DEF OnKeys, OnKey, Me
<1>2. SUFFICES \A q \in Procs : Place(q)' \in B => on'[q] = Key(req'[q])
  BY DEF OnKeys, OnKey, Me
<1>3. \A q \in Procs : Rests(q) => (Place(q)' \in B => on'[q] = Key(req'[q]))
  BY <1>1 DEF Rests
<1>4. ASSUME NEW p \in Procs, Handle(p), Place(p)' \in B
      PROVE  on'[p] = Key(req'[p])
  <2>1. Before /\ ControlOK
    BY DEF IInv, Before, TypeOK
  <2>2. Moves(p) /\ GoesOnIn(p) /\ req'[p] = req[p]
    <3>1. Place(p)' # "idle"
      BY <1>4 DEF BatchAwaits
    <3> QED BY <1>4, <2>1, <3>1, HandleMoves, HandleLands
  <2>3. Place(p) \in BatchAwaits /\ Place(p)' \in Keyed /\ Place(p)' # "idle"
    BY <1>4, <2>2 DEF GoesOnIn, Endpoints, BatchAwaits, Keyed, Inside, Queueing
  <2>4. CASE GoesOn(p)
    <3>1. on' = on /\ Place(p) \in Keyed
      BY <2>3, <2>4 DEF GoesOn
    <3>2. Place(p) \in B
      BY <2>3, <3>1 DEF BatchAwaits, Keyed, Inside, Queueing
    <3> QED BY <1>1, <2>2, <3>1, <3>2
  <2>5. CASE Queues(p)
    <3>1. Place(p) = "batch" /\ ~Reads(p)
      BY <1>4, <2>1, <2>3, <2>5, SheetSteps DEF Queues, BatchAwaits, Keyed, Inside, Queueing
    <3>2. BatchStart(p)
      BY <1>4, <3>1, AtBatch DEF Place
    <3>3. Enqueue(p, Key(req[p]), "BatchTurn")
      BY <2>1, <2>3, <3>2, GoneTo DEF BatchStart, Me, SheetAwaits
    <3> QED BY <2>1, <2>2, <3>3 DEF Enqueue, ControlOK
  <2>6. CASE Finish(p)
    BY <2>1, <2>3, <2>6, GoneTo DEF SheetAwaits
  <2> QED BY <2>2, <2>4, <2>5, <2>6 DEF Moves
<1>5. \A r \in Arrivals : r.op \notin B
  BY DEF Arrivals, ExpenseArrivals, PaymentArrivals, PaymentRequests, MemberArrivals,
     MemberRequests, EndingArrivals, EndingRequests, BatchAwaits
<1>6. "idle" \notin B
  BY DEF BatchAwaits
<1> HIDE DEF B, Key
<1> QED BY <1>3, <1>4, <1>5, <1>6, PlacesGo

LEMMA SameBooks ==
    ASSUME UNCHANGED <<circle, rows>>
    PROVE  \A l : /\ Sheet(l)' = Sheet(l) /\ Stands(l)' = Stands(l) /\ ExpensesOf(l)' = ExpensesOf(l)
                  /\ PaymentsOf(l)' = PaymentsOf(l)
BY DEF circle, rows, Sheet, ExpensesOf, PaymentsOf, LiveExpenses, LivePayments, There, Stands

\* What is owed by now is owed as far as today's sheet goes.
LEMMA OwedAsItIs ==
    ASSUME TypeOK, SettledRight, NEW l \in Ledgers, NEW x \in People, NEW y \in People
    PROVE  StillOwed(Sheet(l), Sheet(l), x, y)
<1>1. PairNet(Sheet(l), x, y) \in Int
  BY LedgersTyped, PairNetType
<1>2. Billed(Sheet(l), x, y) >= 0 => PairNet(Sheet(l), x, y) >= 0
  BY DEF SettledRight, NotOverpaid
<1> QED BY <1>1, <1>2 DEF StillOwed

LEMMA SettlersAre ==
    ASSUME IInv, NEW p \in Procs, Place(p) = "BatchCommit"
    PROVE  Settlers(p) \subseteq People
BY HeldTyped DEF Settlers, BatchAwaits, PaymentAwaits

\* The step that reads the direct ledger, and asks for the groups.
LEMMA SharedKnows ==
    ASSUME IInv, SettledRight, NEW p \in Procs, BatchShared(p)
    PROVE  Knows(p)'
<1>1. ControlOK /\ TypeOK
  BY DEF IInv, TypeOK
<1>2. UNCHANGED <<circle, rows>> /\ req' = req
  BY DEF BatchShared, ReadSheets
<1>3. /\ seen'[p].direct = Sheet(NoGroup) /\ pc'[p] \in {"Versions", "BatchCommit"}
      /\ pc'[p] # "Versions" => reading'[p].groups = {}
  BY <1>1 DEF BatchShared, ReadSheets, To, ControlOK, Nothing, NotReading
<1>4. Told(p)' = {} /\ pc'[p] # "SheetPayments"
  BY <1>3 DEF Told
<1>5. Settlers(p)' = Settlers(p) /\ Settlers(p) \subseteq People
  <2>1. Place(p) = "BatchShared"
    BY DEF BatchShared, Place, SheetAwaits
  <2> QED BY <1>2, <2>1, HeldTyped DEF Settlers, Me, BatchAwaits, PaymentAwaits
<1>6. \A x, y \in People : StillOwed(Sheet(NoGroup), Sheet(NoGroup), x, y)
  BY <1>1, OwedAsItIs DEF Ledgers
<1>7. \A x, y \in Settlers(p)' : StillOwed(seen'[p].direct, Sheet(NoGroup)', x, y)
  BY <1>2, <1>3, <1>5, <1>6, SameBooks
<1> QED BY <1>4, <1>7 DEF Knows

\* The sheets of the groups: those in the cache, and those folded afresh.
LEMMA SheetsCome ==
    ASSUME IInv, Astray \subseteq disbanded, NEW p \in Procs, Reads(p),
           pc[p] = "SheetPayments" =>
              \A g \in reading[p].stale : Stands(g) => reading[p].expenses[g] = ExpensesOf(g)
    PROVE  /\ \A g \in Told(p)' : Stands(g) =>
                 \/ reading'[p].sheet[g] = Sheet(g)
                 \/ g \in Told(p) /\ reading'[p].sheet[g] = reading[p].sheet[g]
           /\ pc'[p] = "SheetPayments" =>
                 \A g \in reading'[p].stale : Stands(g) => reading'[p].expenses[g] = ExpensesOf(g)
           /\ Told(p)' \subseteq Groups
<1>1. /\ ControlOK /\ reading[p] \in Readings /\ pc[p] \in SheetAwaits
      /\ reading[p].then \notin SheetAwaits
  BY DEF IInv, TypeOK, ControlOK, Reads, SheetVersions, SheetExpenses, SheetPayments, SheetAwaits,
     Readings
<1>2. /\ reading'[p].groups = reading[p].groups
      /\ reading[p].groups \subseteq Groups /\ reading[p].stale \subseteq Groups
  BY <1>1, SheetSteps DEF Readings
<1>8. CASE SheetVersions(p)
  <2> DEFINE r     == reading[p]
             hits  == {g \in r.groups : Stands(g) /\ Hit(g)}
             stale == {g \in r.groups : Stands(g)} \ hits
  <2>1. /\ reading'[p].groups = r.groups /\ reading'[p].stale = stale
        /\ \A g \in hits : reading'[p].sheet[g] = cache[g].sheet
        /\ pc'[p] = IF stale = {} THEN r.then ELSE "SheetExpenses"
    BY <1>1, <1>2, <1>8 DEF SheetVersions, To, ControlOK, Readings
  <2>2. \A g \in hits : cache[g].sheet = Sheet(g)
    BY <1>2 DEF IInv, CacheCoherent, Hit, Stands
  <2>3. Told(p)' = r.groups \ stale
    BY <1>1, <2>1 DEF Told, SheetAwaits
  <2>4. \A g \in r.groups \ stale : Stands(g) => g \in hits
    OBVIOUS
  <2> HIDE DEF stale, hits
  <2>5. pc'[p] # "SheetPayments"
    BY <1>1, <2>1 DEF SheetAwaits
  <2>6. \A g \in Told(p)' : Stands(g) => reading'[p].sheet[g] = Sheet(g)
    BY <2>1, <2>2, <2>3, <2>4
  <2>7. Told(p)' \subseteq Groups
    BY <1>2, <2>3
  <2> QED BY <2>5, <2>6, <2>7
<1>9. CASE SheetExpenses(p)
  <2>1. /\ pc[p] = "SheetExpenses" /\ pc'[p] = "SheetPayments"
        /\ reading'[p].groups = reading[p].groups /\ reading'[p].stale = reading[p].stale
        /\ reading'[p].sheet = reading[p].sheet
        /\ \A g \in reading[p].stale : reading'[p].expenses[g] = ExpensesOf(g)
    BY <1>1, <1>2, <1>9 DEF SheetExpenses, To, ControlOK, Readings
  <2>2. Told(p)' = Told(p) /\ Told(p) \subseteq Groups
    BY <1>2, <2>1 DEF Told
  <2> QED BY <2>1, <2>2
<1>10. CASE SheetPayments(p)
  <2>1. /\ pc[p] = "SheetPayments" /\ pc'[p] = reading[p].then
        /\ reading'[p].groups = reading[p].groups
        /\ \A g \in Groups : reading'[p].sheet[g] =
              IF g \in reading[p].stale
              THEN [expenses |-> reading[p].expenses[g], payments |-> PaymentsOf(g)]
              ELSE reading[p].sheet[g]
    BY <1>1, <1>2, <1>10 DEF SheetPayments, To, ControlOK, Readings
  <2>2. /\ Told(p)' = reading[p].groups /\ Told(p) = reading[p].groups \ reading[p].stale
        /\ pc'[p] # "SheetPayments"
    BY <1>1, <2>1 DEF Told, SheetAwaits
  <2>3. \A g \in reading[p].stale : Stands(g) => reading[p].expenses[g] = ExpensesOf(g)
    BY <2>1
  <2>4. \A g \in Groups : Stands(g) =>
              \/ reading'[p].sheet[g] = Sheet(g)
              \/ g \notin reading[p].stale /\ reading'[p].sheet[g] = reading[p].sheet[g]
    BY <2>1, <2>3 DEF Sheet
  <2> QED BY <1>2, <2>2, <2>4
<1> QED BY <1>8, <1>9, <1>10 DEF Reads

LEMMA ReadsKnow ==
    ASSUME IInv, SettledRight, Astray \subseteq disbanded, NEW p \in Procs, Reads(p), Knows(p)
    PROVE  Knows(p)'
<1> SUFFICES ASSUME Place(p) = "BatchCommit" PROVE Knows(p)'
  <2>1. ControlOK
    BY DEF IInv, TypeOK
  <2> QED BY <2>1, SheetSteps DEF Knows
<1>1. ControlOK /\ TypeOK
  BY DEF IInv, TypeOK
<1>2. UNCHANGED <<circle, rows, req, seen>>
  BY <1>1, SheetSteps
<1>3. Settlers(p)' = Settlers(p) /\ Settlers(p) \subseteq People
  BY <1>2, SettlersAre DEF Settlers, Me
<1>4. \A l : Sheet(l)' = Sheet(l) /\ Stands(l)' = Stands(l) /\ ExpensesOf(l)' = ExpensesOf(l)
  BY <1>2, SameBooks
<1>5. \A x, y \in Settlers(p) : StillOwed(seen[p].direct, Sheet(NoGroup), x, y)
  BY DEF Knows
<1>6. \A g \in Groups : \A x, y \in Settlers(p) : StillOwed(Sheet(g), Sheet(g), x, y)
  BY <1>1, <1>3, OwedAsItIs DEF Ledgers
<1>7. /\ \A g \in Told(p)' : Stands(g) =>
            \/ reading'[p].sheet[g] = Sheet(g)
            \/ g \in Told(p) /\ reading'[p].sheet[g] = reading[p].sheet[g]
      /\ pc'[p] = "SheetPayments" =>
            \A g \in reading'[p].stale : Stands(g) => reading'[p].expenses[g] = ExpensesOf(g)
      /\ Told(p)' \subseteq Groups
  BY SheetsCome DEF Knows
<1> QED BY <1>2, <1>3, <1>4, <1>5, <1>6, <1>7 DEF Knows

\* A handler another's step passes by.
LEMMA KnowsStays ==
    ASSUME IInv, SheetsHeld, NEW p \in Procs, Knows(p),
           Rests(p), reading'[p] = reading[p], pc'[p] = pc[p],
           UNCHANGED expenses, disbanded \subseteq disbanded', disbanded' \subseteq Groups,
           Place(p) = "BatchCommit" =>
              \A l \in Ledgers : Stands(l)' => \A x, y \in Settlers(p) : Grows(l, x, y)
    PROVE  Knows(p)'
<1> SUFFICES ASSUME Place(p) = "BatchCommit" PROVE Knows(p)'
  BY DEF Rests, Knows
<1>1. Settlers(p)' = Settlers(p) /\ Settlers(p) \subseteq People /\ Told(p)' = Told(p)
  BY SettlersAre DEF Settlers, Me, Rests, Told
<1>2. reading[p].stale \subseteq Groups /\ reading[p].groups \subseteq Groups
  BY DEF IInv, TypeOK, ControlOK, Readings
<1>3. Told(p) \subseteq Groups
  BY <1>2 DEF Told
<1>4. \A l : Stands(l)' => Stands(l)
  BY DEF Stands
<1>5. Stands(NoGroup)'
  BY LedgerAssumption DEF Stands
<1>6. ASSUME NEW l \in Ledgers, Stands(l)', NEW held \in Sheets, Finite(held),
             NEW x \in Settlers(p), NEW y \in Settlers(p), StillOwed(held, Sheet(l), x, y)
      PROVE  StillOwed(held, Sheet(l)', x, y)
  <2>1. Sheet(l) \in Sheets /\ Finite(Sheet(l))
    BY LedgersTyped DEF IInv
  <2>2. PairNet(held, x, y) \in Int /\ PairNet(Sheet(l), x, y) \in Int
    <3>1. x \in People /\ y \in People
      BY <1>1
    <3>2. \A sheet \in Sheets : Finite(sheet) => PairNet(sheet, x, y) \in Int
      BY <3>1, PairNetType
    <3> QED BY <1>6, <2>1, <3>2
  <2>3. Grows(l, x, y)
    BY <1>6
  <2> QED BY <1>6, <2>2, <2>3 DEF StillOwed, Grows
<1>7. seen'[p] = seen[p]
  BY DEF Rests
<1>8. NoGroup \in Ledgers /\ Groups \subseteq Ledgers
  BY DEF Ledgers
<1>9. \A x, y \in Settlers(p) : StillOwed(seen[p].direct, Sheet(NoGroup)', x, y)
  BY <1>5, <1>6, <1>8, HeldSheets DEF Knows
<1>10. \A g \in Told(p) : Stands(g)' => \A x, y \in Settlers(p) :
          StillOwed(reading[p].sheet[g], Sheet(g)', x, y)
  BY <1>3, <1>4, <1>6, <1>8, HeldSheets DEF Knows
<1>11. ASSUME pc[p] = "SheetPayments", NEW g \in reading[p].stale, Stands(g)'
       PROVE  reading[p].expenses[g] = ExpensesOf(g)'
  <2>1. reading[p].expenses[g] = ExpensesOf(g)
    BY <1>4, <1>11 DEF Knows
  <2>2. Sheet(g)'.expenses = Sheet(g).expenses
    BY <1>11, BillsLast
  <2> QED BY <2>1, <2>2 DEF Sheet
<1> QED BY <1>1, <1>7, <1>9, <1>10, <1>11 DEF Knows

-----------------------------------------------------------------------------
(* A debt is paid once.                                                    *)

PaysRight == SettledRight /\ OnKeys /\ \A p \in Procs : Knows(p)

Books == IInv /\ InLine /\ Grounded /\ strayed = {} /\ NoOtherBusiness /\ PaysRight

\* Two who settle up at once settle with different people.
LEMMA SettlersApart ==
    ASSUME InLine, OnKeys, NEW p \in Procs, NEW q \in Procs, p # q,
           Place(p) = "BatchCommit", Place(q) = "BatchCommit"
    PROVE  Settlers(p) # Settlers(q)
<1>1. on[p] = PairKey(Me(p), BatchDraft[req[p].id].other) /\ on[q] = PairKey(Me(q), BatchDraft[req[q].id].other)
  BY DEF OnKeys, OnKey, BatchAwaits
<1>2. waits[p] = {} /\ waits[q] = {} /\ on[p] # NoKey
  BY DEF InLine, KeysHeld, Inside, Keyed
<1>3. on[p] # on[q]
  BY <1>2 DEF InLine, OneAtATime
<1> QED BY <1>1, <1>3 DEF PairKey, Settlers

\* While p transfers, those waiting to file know what they knew.
LEMMA TransferKeeps ==
    ASSUME Books, NEW q \in Procs, Transfers(q)
    PROVE  SettledRight' /\ \A p \in Procs : Knows(p)'
<1>1. /\ IInv /\ Before /\ SheetsHeld /\ Asked /\ SettledRight /\ Knows(q) /\ InLine /\ OnKeys
      /\ Handle(q)
  BY DEF Books, PaysRight, Grounded, IInv, Before, Transfers, Handle, PaymentSteps
<1>2. /\ SettledRight' 
      /\ \A l \in Ledgers : \A x, y \in People : {x, y} # Settlers(q) => Grows(l, x, y)
  BY <1>1, TransferRight
<1>3. /\ UNCHANGED <<expenses, disbanded>> /\ disbanded \subseteq Groups
      /\ Place(q) = "BatchCommit" /\ Settlers(q) \subseteq People
      /\ Me(q) # BatchDraft[req[q].id].other
  BY <1>1, RowsFiled, CommitsAt DEF circle, IInv, TypeOK, DataOK, Transfers, Asked, BatchAwaits
<1>4. Knows(q)'
  BY <1>1, BatchFiles DEF Transfers, Knows
<1>5. ASSUME NEW p \in Procs \ {q}
      PROVE  Knows(p)'
  <2>1. Rests(p) /\ reading'[p] = reading[p] /\ pc'[p] = pc[p] /\ Knows(p)
    BY <1>1, Alone DEF Books, PaysRight
  <2>2. ASSUME Place(p) = "BatchCommit", NEW l \in Ledgers, NEW x \in Settlers(p), NEW y \in Settlers(p)
        PROVE  Grows(l, x, y)
    <3>1. Settlers(p) # Settlers(q) /\ Settlers(p) \subseteq People
      BY <1>1, <1>3, <2>2, SettlersApart, SettlersAre
    <3>2. {x, y} # Settlers(q)
      BY <1>3, <2>2, <3>1 DEF Settlers
    <3> QED BY <1>2, <3>1, <3>2
  <2> QED BY <1>1, <1>3, <2>1, <2>2, KnowsStays
<1> QED BY <1>2, <1>4, <1>5

LEMMA UndoingKeeps ==
    ASSUME Books, [Next]_vars, NoneFiled
    PROVE  SettledRight' /\ \A p \in Procs : Knows(p)'
<1>1. /\ IInv /\ TypeOK /\ Before /\ SheetsHeld /\ SettledRight /\ ControlOK
      /\ \A p \in Procs : Knows(p)
  BY DEF Books, PaysRight, Grounded, IInv, TypeOK, Before
<1>2. UNCHANGED expenses /\ disbanded \subseteq disbanded'
  BY <1>1, OnlyPayments DEF Books
<1>3. /\ SettledRight'
      /\ \A l \in Ledgers : Stands(l)' => \A x, y \in People : Grows(l, x, y)
  BY <1>1, <1>2, UndoneRight
<1>4. disbanded' \subseteq Groups
  BY <1>1, Inductive DEF IInv, TypeOK, DataOK
<1>5. ASSUME NEW p \in Procs, Rests(p), reading'[p] = reading[p], pc'[p] = pc[p]
      PROVE  Knows(p)'
  <2>1. Place(p) = "BatchCommit" => Settlers(p) \subseteq People
    BY <1>1, SettlersAre
  <2>2. Place(p) = "BatchCommit" =>
            \A l \in Ledgers : Stands(l)' => \A x, y \in Settlers(p) : Grows(l, x, y)
    BY <1>3, <2>1
  <2> QED BY <1>1, <1>2, <1>4, <1>5, <2>2, KnowsStays
<1>6. ASSUME NEW p \in Procs, Arrive(p) \/ Handle(p)
      PROVE  Knows(p)'
  <2>1. Place(p)' = "BatchCommit" => Reads(p) \/ BatchShared(p)
    <3>1. CASE Arrive(p)
      <4>1. Place(p)' \notin Keyed
        BY <1>1, <3>1, Knocks
      <4> QED BY <4>1 DEF Keyed, Inside
    <3>2. CASE Handle(p)
      BY <1>1, <3>2, HandleLands DEF Lands, Carrying
    <3> QED BY <1>6, <3>1, <3>2
  <2>2. Astray \subseteq disbanded
    BY NobodyStrays DEF Books, Astray
  <2>3. CASE Reads(p)
    BY <1>1, <2>2, <2>3, ReadsKnow
  <2>4. CASE BatchShared(p)
    BY <1>1, <2>4, SharedKnows
  <2>5. CASE Place(p)' # "BatchCommit"
    BY <2>5 DEF Knows
  <2> QED BY <2>1, <2>3, <2>4, <2>5
<1>7. ASSUME NEW q \in Procs, Arrive(q) \/ Handle(q), NEW p \in Procs \ {q}
      PROVE  Knows(p)'
  BY <1>1, <1>5, <1>7, Alone
<1>8. CASE Restart
  <2>1. \A p \in Procs : Place(p)' = "idle"
    BY <1>8 DEF Restart, Place, SheetAwaits
  <2> QED BY <1>3, <2>1 DEF Knows
<1>9. CASE UNCHANGED vars
  <2>1. \A p \in Procs : Rests(p) /\ reading'[p] = reading[p] /\ pc'[p] = pc[p]
    BY <1>9 DEF vars, Rests, Place
  <2> QED BY <1>3, <1>5, <2>1
<1> QED BY <1>3, <1>6, <1>7, <1>8, <1>9, StepIs

LEMMA PaysRightStays == Books /\ [Next]_vars => PaysRight'
<1> SUFFICES ASSUME Books, [Next]_vars PROVE PaysRight'
  OBVIOUS
<1>1. OnKeys'
  BY OnKeysStay DEF Books, PaysRight
<1>2. NoneFiled \/ \E q \in Procs : Transfers(q)
  BY OnlyPayments DEF Books
<1> QED BY <1>1, <1>2, TransferKeeps, UndoingKeeps DEF PaysRight

LEMMA OwedAtFirst == Init => PaysRight
<1> SUFFICES ASSUME Init PROVE PaysRight
  OBVIOUS
<1>1. TypeOK
  BY InitCoherent DEF IInv
<1>2. ASSUME NEW l \in Ledgers PROVE Straight(Sheet(l)) /\ NotOverpaid(Sheet(l))
  <2>1. Sheet(l) \in Sheets /\ Finite(Sheet(l)) /\ Sheet(l).payments = {}
    BY <1>1, LedgersTyped DEF Init, Sheet, PaymentsOf, LivePayments, There
  <2>2. ASSUME NEW x \in People, NEW y \in People
        PROVE  PairNet(Sheet(l), x, y) = Billed(Sheet(l), x, y)
    BY <2>1, NothingPaid
  <2> QED BY <2>1, <2>2 DEF Straight, NotOverpaid
<1>3. \A p \in Procs : Place(p) = "idle"
  BY DEF Init, Place, SheetAwaits
<1> QED BY <1>2, <1>3 DEF PaysRight, SettledRight, OnKeys, OnKey, Knows, BatchAwaits

LEMMA OwedAndPaid ==
    ASSUME TypeOK, SettledRight
    PROVE  DebtPaidOnce
<1> SUFFICES ASSUME NEW l \in Ledgers, NEW x \in People, NEW y \in People,
                    PairNet([Sheet(l) EXCEPT !.payments = {}], x, y) >= 0
             PROVE  PairNet(Sheet(l), x, y) \in 0 .. PairNet([Sheet(l) EXCEPT !.payments = {}], x, y)
  BY DEF DebtPaidOnce
<1> DEFINE bills == [Sheet(l) EXCEPT !.payments = {}]
<1>1. Sheet(l) \in Sheets /\ Finite(Sheet(l)) /\ Straight(Sheet(l)) /\ NotOverpaid(Sheet(l))
  BY LedgersTyped DEF SettledRight
<1>2. /\ bills \in Sheets /\ Finite(bills) /\ bills.payments = {}
      /\ bills.expenses = Sheet(l).expenses
  BY <1>1, FS_EmptySet DEF Sheets, Finite, Sheet
<1> HIDE DEF bills
<1>3. PairNet(bills, x, y) = Billed(Sheet(l), x, y)
  <2>1. PairNet(bills, x, y) = Billed(bills, x, y)
    BY <1>2, NothingPaid
  <2> QED BY <1>2, <2>1 DEF Billed
<1>4. Billed(Sheet(l), x, y) >= 0
  BY <1>3 DEF bills
<1>5. PairNet(Sheet(l), x, y) <= Billed(Sheet(l), x, y)
  BY <1>1, <1>4, FewerPaid
<1>6. PairNet(Sheet(l), x, y) >= 0
  BY <1>1, <1>4 DEF NotOverpaid
<1>7. PairNet(Sheet(l), x, y) \in Int /\ Billed(Sheet(l), x, y) \in Int
  BY <1>1, PairNetType
<1>8. PairNet(Sheet(l), x, y) \in 0 .. PairNet(bills, x, y)
  BY <1>3, <1>5, <1>6, <1>7
<1> QED BY <1>8 DEF bills

\* Settle-ups queue per pair, and what a settle-up has read of what is owed still is
\* when it files: however many of them, from either side, are in flight or are
\* undone, no debt is ever turned round by being paid twice
\* (settlements/batch/route.ts, server/mutex.ts, server/ledger.ts).
THEOREM DebtsPaidOnce == ASSUME OnlySettling PROVE Spec => []DebtPaidOnce
<1>1. Unremoved
  BY DEF OnlySettling, Unremoved
<1>2. Init => Books
  BY InitCoherent, InitInLine, GroundedAtFirst, OwedAtFirst, BusinessAtFirst DEF Books, Init
<1>3. Books /\ [Next]_vars => Books'
  BY <1>1, Inductive, StaysInLine, GroundedStays, NeverStray, BusinessStays, PaysRightStays DEF Books
<1>4. Books => DebtPaidOnce
  BY OwedAndPaid DEF Books, IInv, PaysRight
<1> QED BY <1>2, <1>3, <1>4, PTL DEF Spec

-----------------------------------------------------------------------------
(* Leaving and parting, any number of requests at a time: a handler that   *)
(* lets somebody go did so on the ledger it read.                          *)

\* While the version p read of group g is still the group's, so is the sheet.
AsRead(p, g) == /\ reading[p].version[g] <= ledgerVersion[g]
                /\ reading[p].version[g] = ledgerVersion[g] => reading[p].sheet[g] = Sheet(g)
Informed(p) == \A g \in Told(p) \ Astray : AsRead(p, g)

LEMMA StrayForGood ==
    ASSUME IInv, [Next]_vars
    PROVE  Astray \subseteq Astray'
<1>1. disbanded \subseteq disbanded'
  BY KeptForGood DEF Kept
<1>2. CASE UNCHANGED vars
  BY <1>2 DEF vars, Astray, Strays, NamedIn, LiveExpenses, LivePayments, There, Stands, Named
<1>3. CASE strayed' = strayed \cup Strays
  BY <1>1, <1>3 DEF Astray
<1>4. Restart => strayed' = strayed \cup Strays
  BY DEF Restart
<1> QED BY <1>2, <1>3, <1>4, StepIs, Alone

\* A ledger that has not strayed had not, and says by its version whether it is
\* as it was.
LEMMA SaysSo ==
    ASSUME IInv, [Next]_vars, NEW g \in Groups, g \notin Astray'
    PROVE  /\ g \notin Astray /\ ledgerVersion[g] \in Nat /\ ledgerVersion'[g] \in Nat
           /\ ledgerVersion[g] <= ledgerVersion'[g]
           /\ ledgerVersion'[g] = ledgerVersion[g] => Sheet(g)' = Sheet(g)
<1>1. BumpsWhatItChanges /\ IInv'
  BY Inductive
<1>2. ledgerVersion[g] \in Nat /\ ledgerVersion'[g] \in Nat
  BY <1>1 DEF IInv, TypeOK, DataOK
<1> QED BY <1>1, <1>2, StrayForGood DEF BumpsWhatItChanges

\* What p knew of a group it knows after a step that leaves its reading alone.
LEMMA AsReadStays ==
    ASSUME IInv, [Next]_vars, NEW p \in Procs, NEW g \in Groups, g \notin Astray', AsRead(p, g),
           reading'[p].version[g] = reading[p].version[g], reading'[p].sheet[g] = reading[p].sheet[g]
    PROVE  AsRead(p, g)'
<1>1. reading[p].version[g] \in Nat
  BY DEF IInv, TypeOK, ControlOK, Readings
<1> QED BY <1>1, SaysSo DEF AsRead

LEMMA TellsGroups ==
    ASSUME ControlOK, NEW p \in Procs
    PROVE  Told(p) \subseteq reading[p].groups /\ reading[p].groups \subseteq Groups
BY DEF Told, ControlOK, Readings

\* A sheet comes with the version it is of, or with an older one.
LEMMA ReadingInforms ==
    ASSUME IInv, [Next]_vars, NEW p \in Procs, Reads(p), Informed(p)
    PROVE  Informed(p)'
<1>1. /\ ControlOK /\ reading[p] \in Readings /\ pc[p] \in SheetAwaits
      /\ reading[p].then \notin SheetAwaits
  BY DEF IInv, TypeOK, ControlOK, Reads, SheetVersions, SheetExpenses, SheetPayments, SheetAwaits,
     Readings
<1>2. /\ reading'[p].groups = reading[p].groups /\ UNCHANGED <<circle, rows>>
      /\ reading[p].groups \subseteq Groups /\ reading[p].stale \subseteq Groups
  BY <1>1, SheetSteps DEF Readings
<1>3. /\ \A g : Sheet(g)' = Sheet(g) /\ Stands(g)' = Stands(g) /\ UNCHANGED ledgerVersion
      /\ \A g : g \notin Astray' => g \notin Astray /\ Stands(g)
  BY <1>2, SameBooks, StrayForGood DEF rows, Astray, Stands
<1> SUFFICES ASSUME NEW g \in Told(p)', g \notin Astray' PROVE AsRead(p, g)'
  BY DEF Informed
<1>4. CASE SheetVersions(p)
  <2> DEFINE r     == reading[p]
             hits  == {h \in r.groups : Stands(h) /\ Hit(h)}
             stale == {h \in r.groups : Stands(h)} \ hits
  <2>1. /\ reading'[p].version = ledgerVersion /\ reading'[p].stale = stale
        /\ \A h \in hits : reading'[p].sheet[h] = cache[h].sheet
        /\ pc'[p] = IF stale = {} THEN r.then ELSE "SheetExpenses"
    BY <1>1, <1>2, <1>4 DEF SheetVersions, To, ControlOK, Readings
  <2>2. Told(p)' = r.groups \ stale
    BY <1>1, <1>2, <2>1 DEF Told, SheetAwaits
  <2>3. g \in hits /\ g \in Groups
    BY <1>2, <1>3, <2>2
  <2>4. cache[g].sheet = Sheet(g)
    BY <1>3, <2>3 DEF IInv, CacheCoherent, Hit
  <2>5. reading'[p].sheet[g] = cache[g].sheet
    BY <2>1, <2>3
  <2>6. ledgerVersion[g] \in Nat
    BY <2>3 DEF IInv, TypeOK, DataOK
  <2> HIDE DEF stale, hits, r
  <2> QED BY <1>3, <2>1, <2>4, <2>5, <2>6 DEF AsRead
<1>5. CASE SheetExpenses(p)
  <2>1. /\ pc[p] = "SheetExpenses" /\ pc'[p] = "SheetPayments"
        /\ reading'[p].stale = reading[p].stale /\ reading'[p].version = reading[p].version
        /\ reading'[p].sheet = reading[p].sheet
    BY <1>1, <1>2, <1>5 DEF SheetExpenses, To, ControlOK, Readings
  <2>2. g \in Told(p) /\ g \in Groups
    BY <1>2, <2>1 DEF Told
  <2> QED BY <1>3, <2>1, <2>2, AsReadStays DEF Informed
<1>6. CASE SheetPayments(p)
  <2>1. /\ pc[p] = "SheetPayments" /\ pc'[p] = reading[p].then
        /\ reading'[p].version = reading[p].version
        /\ \A h \in Groups : reading'[p].sheet[h] =
              IF h \in reading[p].stale
              THEN [expenses |-> reading[p].expenses[h], payments |-> PaymentsOf(h)]
              ELSE reading[p].sheet[h]
    BY <1>1, <1>2, <1>6 DEF SheetPayments, To, ControlOK, Readings
  <2>2. g \in reading[p].groups /\ g \in Groups
    BY <1>1, <1>2, <2>1 DEF Told, SheetAwaits
  <2>3. CASE g \in reading[p].stale
    <3>1. /\ reading[p].version[g] <= ledgerVersion[g]
          /\ reading[p].version[g] = ledgerVersion[g] => reading[p].expenses[g] = ExpensesOf(g)
      BY <1>3, <2>1, <2>3 DEF IInv, ReadingCoherent
    <3>2. reading'[p].sheet[g] = [expenses |-> reading[p].expenses[g], payments |-> PaymentsOf(g)]
      BY <2>1, <2>2, <2>3
    <3> QED BY <1>3, <2>1, <3>1, <3>2 DEF AsRead, Sheet
  <2>4. CASE g \notin reading[p].stale
    <3>1. g \in Told(p)
      BY <2>1, <2>2, <2>4 DEF Told
    <3> QED BY <1>3, <2>1, <2>2, <2>4, <3>1, AsReadStays DEF Informed
  <2> QED BY <2>3, <2>4
<1> QED BY <1>4, <1>5, <1>6 DEF Reads

\* A handler knows no more of the ledgers than it has read.
LEMMA ToldNoMore ==
    ASSUME ControlOK, NEW p \in Procs, pc[p] \notin SheetAwaits, Remembers(p)
    PROVE  Told(p)' = {} \/ (Told(p)' \subseteq Told(p) /\ reading'[p] = reading[p])
<1>1. Told(p) = reading[p].groups
  BY DEF Told, SheetAwaits
<1>2. CASE Finish(p)
  BY <1>2 DEF Finish, To, NotReading, Told, ControlOK
<1>3. CASE \E label : pc' = [pc EXCEPT ![p] = label] /\ reading' = reading
  BY <1>1, <1>3 DEF Told, ControlOK
<1>4. CASE \E gs, label, what : ReadSheets(p, gs, label, what)
  <2>1. PICK gs, label, what : ReadSheets(p, gs, label, what)
    BY <1>4
  <2>2. reading'[p].groups = gs /\ pc'[p] = IF gs = {} THEN label ELSE "Versions"
    BY <2>1 DEF ReadSheets, To, NotReading, ControlOK
  <2>3. Told(p)' = {}
    BY <2>2 DEF Told
  <2> QED BY <2>3
<1> QED BY <1>2, <1>3, <1>4 DEF Remembers, Go, Enqueue, To

LEMMA InformedStays ==
    ASSUME IInv, \A q \in Procs : Informed(q), [Next]_vars, NEW p \in Procs
    PROVE  Informed(p)'
<1>1. Before /\ ControlOK /\ ControlOK'
  BY Inductive DEF IInv, Before, TypeOK
<1>2. CASE Told(p)' = {}
  BY <1>2 DEF Informed
<1>3. CASE Told(p)' \subseteq Told(p) /\ reading'[p] = reading[p]
  <2> SUFFICES ASSUME NEW g \in Told(p)', g \notin Astray' PROVE AsRead(p, g)'
    BY DEF Informed
  <2>1. g \in Told(p) /\ g \in Groups /\ g \notin Astray
    BY <1>1, <1>3, TellsGroups, StrayForGood
  <2> QED BY <1>3, <2>1, AsReadStays DEF Informed
<1>4. CASE Restart
  BY <1>1, <1>2, <1>4 DEF Restart, Told, NotReading
<1>5. CASE UNCHANGED vars
  BY <1>3, <1>5 DEF vars, Told
<1>6. CASE \E q \in Procs : (Arrive(q) \/ Handle(q)) /\ q # p
  BY <1>3, <1>6, Alone DEF Told
<1>7. CASE Arrive(p)
  <2>1. reading' = reading /\ pc[p] = "idle"
    BY <1>7 DEF Arrive
  <2> QED BY <1>3, <2>1 DEF Told
<1>8. CASE Handle(p)
  <2>1. CASE Reads(p)
    BY <2>1, ReadingInforms
  <2>2. CASE ~Reads(p)
    <3>1. Remembers(p)
      BY <1>1, <1>8, <2>2, ExpenseRemembers, PaymentRemembers, MemberRemembers, EndingRemembers
      DEF Handle, Reads
    <3>2. pc[p] \notin SheetAwaits
      BY <1>8, <2>2, AtBatch
    <3> QED BY <1>1, <1>2, <1>3, <3>1, <3>2, ToldNoMore
  <2> QED BY <2>1, <2>2
<1> QED BY <1>4, <1>5, <1>6, <1>7, <1>8, StepIs

\* On the sheets it has read, whoever p is about to let go is settled up.
Decided(p) ==
    /\ Place(p) \in {"RemoveCount", "RemoveLeave", "RemoveDrop", "DisbandWrite"} =>
          req[p].group \in reading[p].groups
    /\ Place(p) \in {"RemoveLeave", "RemoveDrop"} =>
          Net(reading[p].sheet[req[p].group], req[p].who) = 0
    /\ Place(p) \in {"CloseOwned", "CloseWrite"} =>
          \A g \in reading[p].groups : Net(reading[p].sheet[g], Me(p)) = 0
    /\ Place(p) \in {"RemoveLeave", "RemoveDrop", "CloseOwned", "CloseWrite"} => pc[p] \notin SheetAwaits

DecidedAt == {"RemoveCount", "RemoveLeave", "RemoveDrop", "DisbandWrite", "CloseOwned", "CloseWrite"}

LEMMA Undecided == \A p : Place(p)' \notin DecidedAt => Decided(p)'
BY DEF Decided, DecidedAt

LEMMA DecidesStep ==
    ASSUME IInv, NEW p \in Procs, Handle(p), Lands(p), Place(p)' \in DecidedAt, Decided(p)
    PROVE  Decided(p)'
<1>1. Before /\ ControlOK
  BY DEF IInv, Before, TypeOK
<1>2. ~Finish(p) /\ ~Leave(p)
  BY <1>1, GoneTo DEF DecidedAt, SheetAwaits
<1>3. req'[p] = req[p] /\ Me(p)' = Me(p)
  BY <1>1, HandleLands DEF DecidedAt, Me
<1>4. CASE Place(p)' \in {"RemoveCount", "DisbandWrite"}
  <2>1. \E label, what : ReadSheets(p, {req[p].group}, label, what)
    BY <1>2, <1>4 DEF Lands, RemoveAccess, DisbandAccess, Carrying
  <2>2. reading'[p].groups = {req[p].group}
    BY <1>1, <2>1 DEF ReadSheets, ControlOK, NotReading
  <2> QED BY <1>3, <1>4, <2>2 DEF Decided
<1>5. CASE Place(p)' \in {"RemoveLeave", "RemoveDrop"}
  <2>1. RemoveCount(p)
    BY <1>5 DEF Lands, Carrying
  <2>2. /\ pc[p] = "RemoveCount" /\ reading' = reading
        /\ Net(reading[p].sheet[req[p].group], req[p].who) = 0
    BY <1>2, <2>1 DEF RemoveCount, Go
  <2>3. Place(p) = "RemoveCount" /\ pc'[p] \in {"RemoveLeave", "RemoveDrop"}
    BY <1>1, <1>2, <2>1, <2>2 DEF Place, SheetAwaits, RemoveCount, Go, To, ControlOK
  <2>4. pc'[p] \notin SheetAwaits
    BY <2>3 DEF SheetAwaits
  <2> QED BY <1>3, <1>5, <2>2, <2>3, <2>4 DEF Decided
<1>6. CASE Place(p)' = "CloseOwned"
  <2>1. CloseCheck(p)
    BY <1>6 DEF Lands, Carrying
  <2>2. reading' = reading /\ NothingOwed(p) /\ pc'[p] \notin SheetAwaits
    BY <1>1, <1>2, <2>1 DEF CloseCheck, Go, To, SheetAwaits, ControlOK
  <2> QED BY <1>3, <1>6, <2>2 DEF Decided, NothingOwed
<1>7. CASE Place(p)' = "CloseWrite"
  <2>1. CloseOwned(p)
    BY <1>7 DEF Lands, Carrying
  <2>2. reading' = reading /\ Place(p) = "CloseOwned" /\ pc'[p] \notin SheetAwaits
    BY <1>1, <2>1 DEF CloseOwned, Go, To, Place, SheetAwaits, ControlOK
  <2> QED BY <1>3, <1>7, <2>2 DEF Decided
<1> QED BY <1>4, <1>5, <1>6, <1>7 DEF DecidedAt

LEMMA DecidedStays ==
    ASSUME IInv, \A q \in Procs : Decided(q), [Next]_vars, NEW p \in Procs
    PROVE  Decided(p)'
<1>1. Before /\ ControlOK
  BY DEF IInv, Before, TypeOK
<1>2. CASE Rests(p) /\ reading'[p] = reading[p] /\ pc'[p] = pc[p]
  <2>1. Place(p) \in {"RemoveLeave", "RemoveDrop", "CloseOwned", "CloseWrite"}
           => Place(p)' = Place(p) /\ pc'[p] \notin SheetAwaits
    BY <1>2 DEF Rests, Decided
  <2> QED BY <1>2, <2>1 DEF Rests, Decided, Me
<1>3. CASE Restart
  BY <1>3, Undecided DEF Restart, Place, SheetAwaits, DecidedAt
<1>4. CASE UNCHANGED vars
  BY <1>2, <1>4 DEF vars, Rests, Place
<1>5. CASE \E q \in Procs : (Arrive(q) \/ Handle(q)) /\ q # p
  BY <1>2, <1>5, Alone
<1>6. CASE Arrive(p)
  <2>1. PICK r \in Arrivals : pc' = [pc EXCEPT ![p] = r.op]
    BY <1>6 DEF Arrive
  <2>2. r.op \notin SheetAwaits \cup DecidedAt
    BY DEF Arrivals, ExpenseArrivals, PaymentArrivals, PaymentRequests, MemberArrivals,
       MemberRequests, EndingArrivals, EndingRequests, SheetAwaits, DecidedAt
  <2>3. Place(p)' \notin DecidedAt
    BY <1>1, <2>1, <2>2 DEF Place, ControlOK
  <2> QED BY <2>3, Undecided
<1>7. CASE Handle(p) /\ Reads(p)
  <2>1. /\ Place(p)' = Place(p) /\ UNCHANGED req /\ reading'[p].groups = reading[p].groups
        /\ pc[p] \in SheetAwaits
    BY <1>1, <1>7, SheetSteps DEF Reads, SheetVersions, SheetExpenses, SheetPayments, SheetAwaits
  <2>2. Place(p) \notin {"RemoveLeave", "RemoveDrop", "CloseOwned", "CloseWrite"}
    BY <2>1 DEF Decided
  <2> QED BY <2>1, <2>2 DEF Decided
<1>8. CASE Handle(p) /\ ~Reads(p)
  BY <1>1, <1>8, HandleLands, DecidesStep, Undecided
<1> QED BY <1>3, <1>4, <1>5, <1>6, <1>7, <1>8, StepIs

\* Nothing was committed to group g's ledger since p read it.
StillCurrent(p, g) ==
    g \in reading[p].groups \ Astray /\ reading[p].version[g] = ledgerVersion[g]

\* p lets x leave group g, having read its ledger (a group joined since an
\* account being closed was looked at excepted), and x owes nothing in it unless
\* something was committed to it since.
LetsGo(p, g, x) ==
    /\ pc[p] \in {"RemoveLeave", "RemoveDrop", "DisbandWrite", "CloseWrite"} /\ pc'[p] # pc[p]
    /\ g \in reading[p].groups \/ pc[p] = "CloseWrite"
    /\ StillCurrent(p, g) => Net(Sheet(g), x) = 0

\* p parts x and y, having looked at every ledger the two share.
LetsPart(p, x, y) ==
    /\ pc[p] = "UnfriendWrite" /\ pc'[p] # pc[p]
    /\ seen[p].direct = Sheet(NoGroup) => PairNet(Sheet(NoGroup), x, y) = 0
    /\ \A g \in Groups : StillCurrent(p, g) => PairNet(Sheet(g), x, y) = 0

\* However requests interleave, whoever leaves a group with a balance, or stops being
\* friends with one, owes it to something committed after the handler that let them go
\* began to read that ledger: what was owed by then is never overlooked for a sheet that
\* was stale in the cache (members/[personId]/route.ts, groups/[id]/route.ts,
\* friends/[id]/route.ts, identity/account/route.ts over server/ledger.ts).
SettledAsRead ==
    [][/\ \A g \in Groups : \A x \in Active(g) \ Active(g)' :
             people'[x] # "gone" => \E p \in Procs : LetsGo(p, g, x)
       /\ \A x, y \in People :
             ({x, y} \in friends \ friends' /\ {people'[x], people'[y]} = {"real"})
                => \E p \in Procs : LetsPart(p, x, y)]_vars

LEMMA GoesElsewhere ==
    ASSUME ControlOK, NEW p \in Procs
    PROVE  /\ \A label, what : Go(p, label, what) => pc'[p] = label
           /\ Finish(p) => pc'[p] = "idle"
           /\ Leave(p) => pc'[p] = "idle"
BY DEF ControlOK, Go, Finish, Leave, To

\* A member who is one no longer was let go, or is nobody any longer.
LEMMA LeftSettled ==
    ASSUME IInv, NEW p \in Procs, Informed(p), Decided(p), Handle(p),
           NEW g \in Groups, NEW x \in Active(g), x \notin Active(g)'
    PROVE  people'[x] = "gone" \/ LetsGo(p, g, x)
<1>1. /\ Before /\ ControlOK /\ Circles(p) /\ DOMAIN people = People
      /\ member \in [Groups -> [People -> {"none", "active", "left"}]]
  BY HandleCircles DEF IInv, Before, TypeOK, DataOK
<1>2. x \in People /\ Stands(g) /\ member[g][x] = "active"
  BY DEF Active, Housed
<1>3. (~Stands(g))' \/ member'[g][x] # "active"
  BY <1>2 DEF Active, Housed
<1>4. ASSUME pc[p] \notin SheetAwaits, StillCurrent(p, g)
      PROVE  reading[p].sheet[g] = Sheet(g)
  <2>1. g \in Told(p) \ Astray
    BY <1>4 DEF StillCurrent, Told, SheetAwaits
  <2> QED BY <1>4, <2>1 DEF Informed, AsRead, StillCurrent
<1>5. CASE DisbandWrite(p) /\ g \in disbanded'
  <2>1. /\ pc[p] = "DisbandWrite" /\ Place(p) = "DisbandWrite" /\ g = req[p].group /\ ~Leave(p)
        /\ \A y \in People : Net(reading[p].sheet[g], y) = 0
    BY <1>2, <1>5 DEF DisbandWrite, Leave, circle, Stands, Place, SheetAwaits
  <2>2. pc'[p] # pc[p] /\ pc[p] \notin SheetAwaits
    BY <1>1, <1>5, <2>1, GoesElsewhere DEF DisbandWrite, SheetAwaits
  <2>3. g \in reading[p].groups
    BY <2>1 DEF Decided
  <2> QED BY <1>2, <1>4, <2>1, <2>2, <2>3 DEF LetsGo
<1>6. CASE Reseats(p) /\ member'[g][x] # "active"
  <2>1. ASSUME NEW h, NEW y, member' = SeatIn(h, y, "active") PROVE FALSE
    BY <1>1, <1>2, <1>6, <2>1 DEF SeatIn
  <2>2. CASE JoinSeat(p) \/ AddSeat(p) \/ AddGhostSeat(p)
    BY <1>2, <1>6, <2>1, <2>2 DEF JoinSeat, AddSeat, AddGhostSeat, Leave, circle
  <2>3. ASSUME NEW h, NEW y, NEW to, member' = SeatIn(h, y, to) PROVE g = h /\ x = y
    BY <1>1, <1>2, <1>6, <2>3 DEF SeatIn
  <2>4. CASE RemoveLeave(p) \/ RemoveDrop(p)
    <3>1. g = req[p].group /\ x = req[p].who /\ ~Leave(p)
      BY <1>2, <1>6, <2>3, <2>4 DEF RemoveLeave, RemoveDrop, Leave, circle
    <3>2. pc[p] \in {"RemoveLeave", "RemoveDrop"} /\ Place(p) = pc[p] /\ pc[p] \notin SheetAwaits
      BY <2>4 DEF RemoveLeave, RemoveDrop, Place, SheetAwaits
    <3>3. Net(reading[p].sheet[g], x) = 0 /\ g \in reading[p].groups
      BY <3>1, <3>2 DEF Decided
    <3>4. \E label \in {"RemoveForget", "RemoveSuccessor", "Removed"} : \E what : Go(p, label, what)
      BY <2>4, <3>1 DEF RemoveLeave, RemoveDrop, AfterRemoval
    <3>5. pc'[p] # pc[p]
      BY <1>1, <3>2, <3>4, GoesElsewhere
    <3> QED BY <1>4, <3>2, <3>3, <3>5 DEF LetsGo
  <2>5. CASE RestoreCommit(p)
    <3>1. \/ member' = member
          \/ member' = [h \in Groups |-> [z \in People |->
               IF h = expenses[req[p].id].group /\ z \in seen[p].people /\ member[h][z] = "left"
               THEN "active" ELSE member[h][z]]]
      BY <2>5 DEF RestoreCommit, Leave, circle
    <3> QED BY <1>2, <1>6, <3>1
  <2>6. CASE RedoCommit(p)
    BY <1>2, <1>6, <2>6 DEF RedoCommit
  <2>7. CASE MergeCommit(p) \/ JoinClaim(p)
    <3>1. PICK ghost \in People, into \in People : Takes(p, ghost, into)
      BY <1>1, <1>2, <1>6, <2>7, Taking
    <3>2. /\ people' = [people EXCEPT ![ghost] = "gone"]
          /\ member' = [h \in Groups |-> [z \in People |->
               IF z = ghost THEN "none"
               ELSE IF z = into /\ h \in {i \in Groups : Housed(i, ghost)} /\ member[h][z] # "active"
                    THEN member[h][ghost] ELSE member[h][z]]]
      BY <3>1 DEF Takes, Absorb
    <3>3. x = ghost
      BY <1>2, <1>6, <3>2
    <3> QED BY <1>1, <1>2, <3>2, <3>3
  <2>8. CASE CloseWrite(p)
    <3>1. x = Me(p)
      BY <1>2, <1>6, <2>8 DEF CloseWrite
    <3>2. pc[p] = "CloseWrite" /\ Place(p) = "CloseWrite" /\ pc[p] \notin SheetAwaits
      BY <2>8 DEF CloseWrite, Place, SheetAwaits
    <3>3. pc'[p] # pc[p]
      BY <1>1, <2>8, <3>2, GoesElsewhere DEF CloseWrite
    <3>4. g \in reading[p].groups => Net(reading[p].sheet[g], x) = 0
      BY <3>1, <3>2 DEF Decided
    <3>5. StillCurrent(p, g) => Net(Sheet(g), x) = 0
      BY <1>4, <3>2, <3>4 DEF StillCurrent
    <3> QED BY <3>2, <3>3, <3>5 DEF LetsGo
  <2> QED BY <1>6, <2>2, <2>4, <2>5, <2>6, <2>7, <2>8 DEF Reseats
<1>7. (~Stands(g))' <=> g \in disbanded'
  BY DEF Stands
<1>8. disbanded' # disbanded \/ member' # member
  BY <1>2, <1>3, <1>7 DEF Stands
<1> QED BY <1>1, <1>2, <1>3, <1>5, <1>6, <1>7, <1>8 DEF Circles, Stands

\* Two who part, both still on Divvy, were let to.
LEMMA PartedEven ==
    ASSUME IInv, NEW p \in Procs, Informed(p), Handle(p), NEW x \in People, NEW y \in People,
           {x, y} \in friends, {x, y} \notin friends', people'[x] = "real", people'[y] = "real"
    PROVE  LetsPart(p, x, y)
<1>1. Before /\ ControlOK /\ TypeOK /\ Circles(p) /\ DOMAIN people = People
  BY HandleCircles DEF IInv, Before, TypeOK, DataOK
<1>2. Befriends(p)
  BY <1>1 DEF Circles
<1>3. CASE UnfriendWrite(p)
  <2>1. /\ pc[p] = "UnfriendWrite" /\ pc[p] \notin SheetAwaits
        /\ Square(p, Me(p), req[p].who) /\ {x, y} = {Me(p), req[p].who}
    BY <1>3 DEF UnfriendWrite, Leave, circle, SheetAwaits
  <2>2. pc'[p] # pc[p]
    BY <1>1, <1>3, <2>1, GoesElsewhere DEF UnfriendWrite
  <2>3. ASSUME NEW l \in Ledgers, PairNet(Sheet(l), Me(p), req[p].who) = 0
        PROVE  PairNet(Sheet(l), x, y) = 0
    <3>1. Sheet(l) \in Sheets /\ Finite(Sheet(l))
      BY <1>1, LedgersTyped
    <3>2. x # y => PairNet(Sheet(l), y, x) = -PairNet(Sheet(l), x, y)
      BY <3>1, PairNetType
    <3>3. PairNet(Sheet(l), x, y) \in Int
      BY <3>1, PairNetType
    <3>4. (x = Me(p) /\ y = req[p].who) \/ (x = req[p].who /\ y = Me(p) /\ x # y)
      BY <2>1
    <3> QED BY <2>3, <3>2, <3>3, <3>4
  <2>4. seen[p].direct = Sheet(NoGroup) => PairNet(Sheet(NoGroup), x, y) = 0
    BY <2>1, <2>3 DEF Square, Ledgers
  <2>5. ASSUME NEW g \in Groups, StillCurrent(p, g) PROVE PairNet(Sheet(g), x, y) = 0
    <3>1. g \in Told(p) \ Astray /\ g \in reading[p].groups
      BY <2>1, <2>5 DEF StillCurrent, Told, SheetAwaits
    <3>2. reading[p].sheet[g] = Sheet(g)
      BY <2>5, <3>1 DEF Informed, AsRead, StillCurrent
    <3> QED BY <2>1, <2>3, <3>1, <3>2 DEF Square, Ledgers
  <2> QED BY <2>1, <2>2, <2>4, <2>5 DEF LetsPart
<1>4. CASE BefriendWrite(p) \/ JoinConnect(p)
  BY <1>4 DEF BefriendWrite, JoinConnect
<1>5. CASE RemoveForget(p)
  <2>1. PICK z \in People : Forgets(p, z)
    BY <1>1, <1>5, Forgetting DEF circle
  <2>2. z \in {x, y} /\ people'[z] = "gone"
    BY <1>1, <2>1 DEF Forgets
  <2> QED BY <2>2
<1>6. CASE MergeCommit(p) \/ JoinClaim(p)
  <2>1. PICK ghost \in People, into \in People : Takes(p, ghost, into)
    BY <1>1, <1>6, Taking
  <2>2. /\ people'[ghost] = "gone"
        /\ friends' = {{As(z, ghost, into) : z \in f} : f \in friends \ {{ghost, into}}}
    BY <1>1, <2>1 DEF Takes, Absorb
  <2>3. ghost \notin {x, y}
    BY <2>2
  <2>4. {x, y} = {As(z, ghost, into) : z \in {x, y}}
    BY <2>3 DEF As
  <2>5. {x, y} \in friends \ {{ghost, into}}
    BY <2>3
  <2> QED BY <2>2, <2>4, <2>5
<1>7. CASE CloseWrite(p)
  <2>1. Me(p) \in {x, y} /\ people' = [people EXCEPT ![Me(p)] = "deleted"]
    BY <1>7 DEF CloseWrite
  <2> QED BY <1>1, <2>1
<1> QED BY <1>2, <1>3, <1>4, <1>5, <1>6, <1>7 DEF Befriends

\* Any number of requests at a time: nobody leaves a group, or a friendship, owing what the
\* handler that let them go could have seen (server/ledger.ts).
THEOREM LeavesSettledAsRead == Spec => SettledAsRead
<1> DEFINE Knowing == IInv /\ \A p \in Procs : Informed(p) /\ Decided(p)
<1>1. Init => Knowing
  <2> SUFFICES ASSUME Init PROVE Knowing
    OBVIOUS
  <2>1. \A p \in Procs : Told(p) = {} /\ Place(p) = "idle"
    BY DEF Init, NotReading, Told, Place, SheetAwaits
  <2> QED BY <2>1, InitCoherent DEF Informed, Decided
<1>2. Knowing /\ [Next]_vars => Knowing'
  <2> SUFFICES ASSUME Knowing, [Next]_vars PROVE Knowing'
    OBVIOUS
  <2>1. \A p \in Procs : Informed(p)' /\ Decided(p)'
    BY InformedStays, DecidedStays
  <2> QED BY <2>1, Inductive
<1>3. Knowing /\ [Next]_vars =>
        [/\ \A g \in Groups : \A x \in Active(g) \ Active(g)' :
              people'[x] # "gone" => \E p \in Procs : LetsGo(p, g, x)
         /\ \A x, y \in People :
              ({x, y} \in friends \ friends' /\ {people'[x], people'[y]} = {"real"})
                 => \E p \in Procs : LetsPart(p, x, y)]_vars
  <2> SUFFICES ASSUME Knowing, [Next]_vars, ~UNCHANGED vars
               PROVE  /\ \A g \in Groups : \A x \in Active(g) \ Active(g)' :
                            people'[x] # "gone" => \E p \in Procs : LetsGo(p, g, x)
                      /\ \A x, y \in People :
                            ({x, y} \in friends \ friends' /\ {people'[x], people'[y]} = {"real"})
                               => \E p \in Procs : LetsPart(p, x, y)
    OBVIOUS
  <2>1. CASE \E p \in Procs : Handle(p)
    <3>1. PICK p \in Procs : Handle(p)
      BY <2>1
    <3>2. \A g \in Groups : \A x \in Active(g) \ Active(g)' : people'[x] # "gone" => LetsGo(p, g, x)
      BY <3>1, LeftSettled
    <3>3. \A x, y \in People :
             ({x, y} \in friends \ friends' /\ {people'[x], people'[y]} = {"real"})
                => LetsPart(p, x, y)
      BY <3>1, PartedEven
    <3> QED BY <3>2, <3>3
  <2>2. CASE Restart \/ \E p \in Procs : Arrive(p)
    <3>1. UNCHANGED circle
      BY <2>2 DEF Restart, Arrive, circle
    <3>2. \A g : Active(g)' = Active(g)
      BY <3>1 DEF circle, Active, Housed, Stands
    <3> QED BY <3>1, <3>2 DEF circle
  <2> QED BY <2>1, <2>2, StepIs
<1> HIDE DEF Knowing
<1> QED BY <1>1, <1>2, <1>3, PTL DEF Spec, SettledAsRead

-----------------------------------------------------------------------------
(* Coming back: a restore brings nobody along but placeholders.            *)

\* p gives x the seat in group g they have asked for, been offered, or taken over.
SeatsAnew(p, g, x) ==
    /\ pc'[p] # pc[p]
    /\ \/ pc[p] = "JoinSeat" /\ x = Me(p) /\ g = req[p].group
       \/ pc[p] = "AddSeat" /\ x = req[p].who /\ g = req[p].group
       \/ pc[p] = "MergeCommit" /\ x = req[p].into /\ req[p].who \in Active(g)
       \/ pc[p] = "JoinClaim" /\ x = Me(p) /\ req[p].claim \in Active(g)

\* However requests interleave, somebody with an account who is no member of a group
\* becomes one only by joining, by being added or by taking over a placeholder there: a
\* restore never puts a person back who left, not even while it was under way
\* (expenses/[id]/restore/route.ts, settlements/[id]/restore/route.ts, invite/[code]/join/route.ts,
\* groups/[id]/members/route.ts, server/merge.ts).
SeatedByTheirOwnDoor ==
    [][\A g \in Groups : \A x \in Active(g)' \ Active(g) :
          Signed(x) => \E p \in Procs : SeatsAnew(p, g, x)]_vars

\* Nobody gets an account in these steps who had none.
LEMMA NobodySigns ==
    ASSUME IInv, WhoIsWho, [Next]_vars, NEW x \in People, ~Signed(x)
    PROVE  ~Signed(x)'
<1>1. Before /\ DOMAIN people = People
  BY DEF IInv, Before, TypeOK, DataOK
<1>2. CASE people' = people
  BY <1>2 DEF Signed
<1>3. ASSUME NEW y, NEW to \in {"gone", "ghost"}, people' = [people EXCEPT ![y] = to]
      PROVE  ~Signed(x)'
  BY <1>1, <1>3 DEF Signed
<1>4. ASSUME NEW p \in Procs, Renames(p)
      PROVE  ~Signed(x)'
  <2>1. CASE CloseWrite(p)
    <3>1. people' = [people EXCEPT ![Me(p)] = "deleted"] /\ Signed(Me(p))
      BY <1>1, <2>1, SameSigner DEF CloseWrite
    <3> QED BY <1>1, <3>1 DEF Signed
  <2>2. CASE RemoveForget(p) \/ AddGhostSeat(p)
    <3>1. people' = people \/ \E y : \E to \in {"gone", "ghost"} : people' = [people EXCEPT ![y] = to]
      BY <2>2 DEF RemoveForget, AddGhostSeat, Leave, circle
    <3> QED BY <1>2, <1>3, <3>1
  <2>3. CASE MergeCommit(p) \/ JoinClaim(p)
    <3>1. people' = people \/ \E y : people' = [people EXCEPT ![y] = "gone"]
      BY <1>1, <2>3, Taking DEF Takes, Absorb
    <3> QED BY <1>2, <1>3, <3>1
  <2> QED BY <1>4, <2>1, <2>2, <2>3 DEF Renames
<1>5. CASE Restart \/ \E p \in Procs : Arrive(p)
  BY <1>2, <1>5 DEF Restart, Arrive, circle
<1>6. CASE \E p \in Procs : Handle(p)
  BY <1>1, <1>2, <1>4, <1>6, HandleMoves DEF Moves, Touches
<1>7. CASE UNCHANGED vars
  BY <1>2, <1>7 DEF vars
<1> QED BY <1>5, <1>6, <1>7, StepIs

\* Those who come back with what p restores are placeholders, or were.
BringsNobody(p) ==
    /\ Place(p) = "RestoreCommit" => \A x \in seen[p].people : ~Signed(x)
    /\ Place(p) = "RedoCommit" => \A t \in seen[p].seats : ~Signed(t[2])

LEMMA BringsStays ==
    ASSUME IInv, WhoIsWho, \A q \in Procs : BringsNobody(q), [Next]_vars, NEW p \in Procs
    PROVE  BringsNobody(p)'
<1>1. Before /\ ControlOK /\ seen[p] \in Sightings
  BY DEF IInv, Before, TypeOK, ControlOK
<1>2. CASE Place(p)' = Place(p) /\ seen'[p] = seen[p]
  <2>1. \A x \in seen[p].people : ~Signed(x) => ~Signed(x)'
    BY <1>1, NobodySigns DEF Sightings
  <2>2. \A t \in seen[p].seats : ~Signed(t[2]) => ~Signed(t[2])'
    BY <1>1, NobodySigns DEF Sightings
  <2> QED BY <1>2, <2>1, <2>2 DEF BringsNobody
<1>3. CASE Place(p)' \notin {"RestoreCommit", "RedoCommit"}
  BY <1>3 DEF BringsNobody
<1>4. CASE Restart
  BY <1>3, <1>4 DEF Restart, Place, SheetAwaits
<1>5. CASE UNCHANGED vars
  BY <1>2, <1>5 DEF vars, Place
<1>6. CASE \E q \in Procs : (Arrive(q) \/ Handle(q)) /\ q # p
  BY <1>2, <1>6, Alone DEF Rests
<1>7. CASE Arrive(p)
  <2>1. PICK r \in Arrivals : pc' = [pc EXCEPT ![p] = r.op]
    BY <1>7 DEF Arrive
  <2>2. r.op \notin SheetAwaits \cup {"RestoreCommit", "RedoCommit"}
    BY DEF Arrivals, ExpenseArrivals, PaymentArrivals, PaymentRequests, MemberArrivals,
       MemberRequests, EndingArrivals, EndingRequests, SheetAwaits
  <2>3. Place(p)' \notin {"RestoreCommit", "RedoCommit"}
    BY <1>1, <2>1, <2>2 DEF Place, ControlOK
  <2> QED BY <1>3, <2>3
<1>8. CASE Handle(p) /\ Reads(p)
  BY <1>1, <1>2, <1>8, SheetSteps
<1>9. CASE Handle(p) /\ Lands(p)
  <2>1. CASE Place(p)' = "RestoreCommit"
    <3>1. RestoreMembers(p) /\ ~Leave(p)
      BY <1>1, <1>9, <2>1, GoneTo DEF Lands, Carrying, SheetAwaits
    <3>2. /\ \A x \in seen'[p].people : people[x] = "ghost"
          /\ UNCHANGED people
      BY <1>1, <3>1 DEF RestoreMembers, Go, Nothing, ComesBack, ControlOK, circle
    <3> QED BY <2>1, <3>2 DEF BringsNobody, Signed
  <2>2. CASE Place(p)' = "RedoCommit"
    <3>1. RedoMembers(p) /\ ~Leave(p)
      BY <1>1, <1>9, <2>2, GoneTo DEF Lands, Carrying, SheetAwaits
    <3>2. /\ \A t \in seen'[p].seats : people[t[2]] = "ghost"
          /\ UNCHANGED people
      BY <1>1, <3>1 DEF RedoMembers, Go, Nothing, ComesBack, ControlOK, circle
    <3> QED BY <2>2, <3>2 DEF BringsNobody, Signed
  <2> QED BY <1>3, <2>1, <2>2
<1>10. CASE Handle(p)
  BY <1>1, <1>8, <1>9, <1>10, HandleLands
<1> QED BY <1>4, <1>5, <1>6, <1>7, <1>10, StepIs

\* Whoever has an account and takes a seat asked for it, was offered it or took it over.
LEMMA SeatedAnew ==
    ASSUME IInv, WhoIsWho, NEW p \in Procs, BringsNobody(p), Handle(p),
           NEW g \in Groups, NEW x \in Active(g)', x \notin Active(g), Signed(x)
    PROVE  SeatsAnew(p, g, x)
<1>1. /\ Before /\ ControlOK /\ Circles(p) /\ DOMAIN people = People
      /\ member \in [Groups -> [People -> {"none", "active", "left"}]]
  BY HandleCircles DEF IInv, Before, TypeOK, DataOK
<1>2. x \in People /\ Stands(g)' /\ member'[g][x] = "active"
  BY DEF Active, Housed
<1>3. Stands(g)
  <2>1. [Next]_vars
    BY DEF Next
  <2>2. Kept
    BY <2>1, KeptForGood
  <2>3. g \notin disbanded'
    BY <1>2 DEF Stands
  <2> QED BY <2>2, <2>3 DEF Kept, Stands
<1>4. member[g][x] # "active" /\ Reseats(p)
  BY <1>1, <1>2, <1>3 DEF Active, Housed, Circles
<1>5. ASSUME NEW h, NEW y, NEW to, member' = SeatIn(h, y, to)
      PROVE  g = h /\ x = y /\ to = "active"
  BY <1>1, <1>2, <1>4, <1>5 DEF SeatIn
<1>6. CASE RestoreCommit(p)
  <2>1. \/ member' = member
        \/ member' = [h \in Groups |-> [y \in People |->
             IF h = expenses[req[p].id].group /\ y \in seen[p].people /\ member[h][y] = "left"
             THEN "active" ELSE member[h][y]]]
    BY <1>6 DEF RestoreCommit, Leave, circle
  <2>2. x \in seen[p].people
    BY <1>2, <1>4, <2>1
  <2> QED BY <1>6, <2>2 DEF RestoreCommit, BringsNobody, Place, SheetAwaits
<1>7. CASE RedoCommit(p)
  <2>1. <<g, x>> \in seen[p].seats
    BY <1>2, <1>4, <1>7 DEF RedoCommit
  <2> QED BY <1>7, <2>1 DEF RedoCommit, BringsNobody, Place, SheetAwaits
<1>8. CASE RemoveLeave(p) \/ RemoveDrop(p)
  <2>1. member' = member \/ \E to \in {"left", "none"} : member' = SeatIn(req[p].group, req[p].who, to)
    BY <1>8 DEF RemoveLeave, RemoveDrop, Leave, circle
  <2> QED BY <1>2, <1>4, <1>5, <2>1
<1>9. CASE MergeCommit(p) \/ JoinClaim(p)
  <2>1. /\ member' # member
        /\ MergeCommit(p) => Absorb(req[p].who, req[p].into) /\ pc[p] = "MergeCommit" /\ Finish(p)
        /\ JoinClaim(p) => /\ Absorb(req[p].claim, Me(p)) /\ pc[p] = "JoinClaim"
                           /\ Go(p, "JoinSeat", Nothing)
    BY <1>2, <1>4, <1>9 DEF MergeCommit, JoinClaim, Leave, circle
  <2>2. ASSUME NEW ghost, NEW into, Absorb(ghost, into)
        PROVE  x = into /\ Housed(g, ghost) /\ member[g][ghost] = "active"
    <3>1. member'[g][x] = IF x = ghost THEN "none"
                          ELSE IF x = into /\ g \in {h \in Groups : Housed(h, ghost)} /\ member[g][x] # "active"
                               THEN member[g][ghost] ELSE member[g][x]
      BY <1>2, <2>2 DEF Absorb
    <3> QED BY <1>2, <1>4, <3>1
  <2>3. pc'[p] # pc[p]
    BY <1>1, <1>9, <2>1, GoesElsewhere
  <2>4. ASSUME NEW ghost \in People, Housed(g, ghost), member[g][ghost] = "active"
        PROVE  ghost \in Active(g)
    BY <1>3, <2>4 DEF Active
  <2>5. MergeCommit(p) => req[p].who \in People
    BY <1>1, AtStaged DEF MergeCommit, SheetAwaits, Staged, MemberStage, MergeAwaits
  <2>6. JoinClaim(p) => req[p].claim \in People
    BY <1>1, AtStaged DEF JoinClaim, SheetAwaits, Staged, MemberStage, JoinAwaits, GroupAwaits,
                          MemberAwaits
  <2> QED BY <1>9, <2>1, <2>2, <2>3, <2>4, <2>5, <2>6 DEF SeatsAnew
<1>10. CASE JoinSeat(p) \/ AddSeat(p)
  <2>1. ~Leave(p)
    BY <1>2, <1>4, <1>10 DEF Leave, circle
  <2>2. /\ JoinSeat(p) => /\ pc[p] = "JoinSeat" /\ Go(p, "JoinConnect", Nothing)
                          /\ member' = SeatIn(req[p].group, Me(p), "active")
        /\ AddSeat(p) => /\ pc[p] = "AddSeat" /\ Finish(p)
                         /\ member' = SeatIn(req[p].group, req[p].who, "active")
    BY <2>1 DEF JoinSeat, AddSeat
  <2>3. pc'[p] # pc[p]
    BY <1>1, <1>10, <2>2, GoesElsewhere
  <2>4. /\ JoinSeat(p) => g = req[p].group /\ x = Me(p)
        /\ AddSeat(p) => g = req[p].group /\ x = req[p].who
    BY <1>5, <2>2
  <2> QED BY <1>10, <2>2, <2>3, <2>4 DEF SeatsAnew
<1>11. CASE AddGhostSeat(p)
  <2>1. people[req[p].who] = "unborn"
    BY <1>11 DEF AddGhostSeat, WhoIsWho, Place, SheetAwaits, Seating
  <2>2. x = req[p].who
    BY <1>2, <1>4, <1>5, <1>11 DEF AddGhostSeat, Leave, circle
  <2> QED BY <2>1, <2>2 DEF Signed
<1>12. CASE CloseWrite(p)
  BY <1>2, <1>4, <1>12 DEF CloseWrite
<1> QED BY <1>4, <1>6, <1>7, <1>8, <1>9, <1>10, <1>11, <1>12 DEF Reseats

\* Any number of requests at a time: a restore brings nobody with an account back to a
\* group they have left (expenses/[id]/restore/route.ts, settlements/[id]/restore/route.ts).
THEOREM NobodyBroughtBack == Spec => SeatedByTheirOwnDoor
<1> DEFINE Welcome == IInv /\ WhoIsWho /\ \A p \in Procs : BringsNobody(p)
<1>1. Init => Welcome
  <2> SUFFICES ASSUME Init PROVE Welcome
    OBVIOUS
  <2>1. \A p \in Procs : Place(p) = "idle"
    BY DEF Init, NotReading, Place, SheetAwaits
  <2> QED BY <2>1, InitCoherent, InitTold DEF BringsNobody
<1>2. Welcome /\ [Next]_vars => Welcome'
  <2> SUFFICES ASSUME Welcome, [Next]_vars PROVE Welcome'
    OBVIOUS
  <2>1. \A p \in Procs : BringsNobody(p)'
    BY BringsStays
  <2> QED BY <2>1, Inductive, WhoStays
<1>3. Welcome /\ [Next]_vars =>
        [\A g \in Groups : \A x \in Active(g)' \ Active(g) :
            Signed(x) => \E p \in Procs : SeatsAnew(p, g, x)]_vars
  <2> SUFFICES ASSUME Welcome, [Next]_vars, ~UNCHANGED vars,
                      NEW g \in Groups, NEW x \in Active(g)', x \notin Active(g), Signed(x)
               PROVE  \E p \in Procs : SeatsAnew(p, g, x)
    OBVIOUS
  <2>1. CASE \E p \in Procs : Handle(p)
    BY <2>1, SeatedAnew
  <2>2. CASE Restart \/ \E p \in Procs : Arrive(p)
    <3>1. UNCHANGED circle
      BY <2>2 DEF Restart, Arrive, circle
    <3>2. Active(g)' = Active(g)
      BY <3>1 DEF circle, Active, Housed, Stands
    <3> QED BY <3>2
  <2> QED BY <2>1, <2>2, StepIs
<1> HIDE DEF Welcome
<1> QED BY <1>1, <1>2, <1>3, PTL DEF Spec, SeatedByTheirOwnDoor
===============================================================================
