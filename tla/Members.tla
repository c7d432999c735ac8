------------------------------- MODULE Members -------------------------------
(***************************************************************************)
(* The membership handlers: DELETE and POST /api/groups/[id]/members, POST *)
(* /api/invite/[code]/join, POST /api/people/[id]/merge, with absorbGhost  *)
(* (server/merge.ts); and the screens that only read the balance sheets.   *)
(***************************************************************************)
EXTENDS Ledger

CONSTANT NoClaim    \* joining without saying "that placeholder is me"

MemberRequests ==
    [op : {"look"}, session : Sessions, group : Groups]
      \cup [op : {"remove", "add", "addGhost"}, session : Sessions, group : Groups, who : People]
      \cup [op : {"join"}, session : Sessions, group : Groups, claim : People \cup {NoClaim}]
      \cup [op : {"merge"}, session : Sessions, who : People, into : People]

\* Anybody may hold an invite link; names are picked from what a screen shows.
\* A new placeholder gets an id nobody has had.
MemberArrivals ==
    {r \in MemberRequests :
        /\ r.op = "remove" => member[r.group][r.who] # "none"
        /\ r.op = "add" => people[r.who] = "real"
        /\ r.op = "addGhost" => /\ people[r.who] = "unborn"
                                /\ \A q \in Procs : pc[q] \in {"addGhost", "AddGhostSeat"}
                                                      => req[q].who # r.who
        /\ r.op = "join" => (r.claim # NoClaim => people[r.claim] = "ghost")
        /\ r.op = "merge" => people[r.who] = "ghost" /\ r.into # r.who}

LookAwaits   == {"look", "Looked"}
RemoveAwaits == {"remove", "RemoveCount", "RemoveLeave", "RemoveDrop", "RemoveForget",
                 "RemoveSuccessor", "RemovePromote", "Removed"}
MergeAwaits  == {"merge", "MergeCommit"}
JoinAwaits   == {"join", "JoinClaim", "JoinSeat", "JoinConnect"}
AddAwaits    == {"add", "AddSeat", "addGhost", "AddGhostSeat"}
GroupAwaits  == LookAwaits \cup RemoveAwaits \cup JoinAwaits \cup AddAwaits
MemberAwaits == GroupAwaits \cup MergeAwaits

MemberStage(label, r) ==
    /\ label \in MemberAwaits => r.session \in Sessions
    /\ label \in GroupAwaits => r.group \in Groups
    /\ label \in RemoveAwaits \cup AddAwaits \cup MergeAwaits => r.who \in People
    /\ label \in MergeAwaits => r.into \in People
    /\ label = "join" => r.claim \in People \cup {NoClaim}
    /\ label = "JoinClaim" => r.claim \in People

SeatIn(g, x, to) == [member EXCEPT ![g] = [@ EXCEPT ![x] = to]]

-----------------------------------------------------------------------------
(* A screen of a group: any handler that only asks for its sheet.          *)

Look(p) ==
    /\ pc[p] = "look"
    /\ IF Me(p) \in Active(req[p].group)
       THEN ReadSheets(p, {req[p].group}, "Looked", Nothing)
       ELSE Finish(p)
    /\ UNCHANGED <<circle, rows, cache, announced>>

Looked(p) == pc[p] = "Looked" /\ Leave(p)

-----------------------------------------------------------------------------
(* DELETE /api/groups/[id]/members/[personId]                              *)

\* Whether the caller owns the group is read here and used at the very end.
RemoveAccess(p) ==
    /\ pc[p] = "remove"
    /\ LET g == req[p].group
           x == req[p].who
       IN  IF /\ Me(p) \in Active(g)
              /\ Exist({x})
              /\ x = Me(p) \/ Me(p) \in owners[g] \/ people[x] = "ghost"
           THEN ReadSheets(p, {g}, "RemoveCount",
                           [Nothing EXCEPT !.people = owners[g] \cap {Me(p)}])
           ELSE Finish(p)
    /\ UNCHANGED <<circle, rows, cache, announced>>

\* Refused with a balance; then any history at all, the bin included, decides
\* between marking the row as left and deleting it.
RemoveCount(p) ==
    /\ pc[p] = "RemoveCount"
    /\ LET g == req[p].group
           x == req[p].who
           involved ==
              \/ \E e \in ExpenseIds : /\ expenses[e] # NoRow
                                       /\ expenses[e].group = g
                                       /\ x \in Named(expenses[e].bill)
              \/ \E s \in PaymentIds : /\ payments[s] # NoRow
                                       /\ payments[s].group = g
                                       /\ x \in {payments[s].from, payments[s].to}
       IN  IF Net(reading[p].sheet[g], x) = 0
           THEN /\ Go(p, IF involved THEN "RemoveLeave" ELSE "RemoveDrop", seen[p])
                /\ UNCHANGED <<circle, rows, cache, announced>>
           ELSE Leave(p)

SuccessorsOrSelf(g, x) == {y \in Active(g) : people[y] # "ghost"}  \* mutant
\* The others who are no placeholders, closed accounts not excepted: whom joining
\* befriends, and who may inherit the group.
Successors(g, x) == {y \in Active(g) \ {x} : people[y] # "ghost"}
AfterRemoval(p) ==
    IF req[p].who = Me(p) /\ Me(p) \in seen[p].people THEN "RemoveSuccessor" ELSE "Removed"

RemoveLeave(p) ==
    /\ pc[p] = "RemoveLeave"
    /\ LET g == req[p].group
       IN  IF Housed(g, req[p].who)
           THEN /\ member' = SeatIn(g, req[p].who, "left")
                /\ Go(p, AfterRemoval(p), seen[p])
                /\ UNCHANGED <<people, owners, friends, disbanded, rows, cache, announced>>
           ELSE Leave(p)

RemoveDrop(p) ==
    /\ pc[p] = "RemoveDrop"
    /\ LET g == req[p].group
           x == req[p].who
       IN  IF Housed(g, x)
           THEN /\ member' = SeatIn(g, x, "none")
                /\ owners' = [owners EXCEPT ![g] = @ \ {x}]
                /\ Go(p, IF people[x] = "ghost" THEN "RemoveForget" ELSE AfterRemoval(p), seen[p])
                /\ UNCHANGED <<people, friends, disbanded, rows, cache, announced>>
           ELSE Leave(p)

\* Deleting the Person row cascades to every share and payment that names it,
\* and no ledger version moves.
RemoveForget(p) ==
    /\ pc[p] = "RemoveForget"
    /\ LET x == req[p].who
       IN  IF people[x] = "ghost" /\ \A g \in Groups : ~Housed(g, x)
           THEN /\ people' = [people EXCEPT ![x] = "gone"]
                /\ friends' = {f \in friends : x \notin f}
                /\ expenses' = [e \in ExpenseIds |->
                      IF expenses[e] = NoRow THEN NoRow
                      ELSE [expenses[e] EXCEPT !.bill = BillWithout(expenses[e].bill, x)]]
                /\ payments' = [s \in PaymentIds |->
                      IF payments[s] = NoRow THEN NoRow
                      ELSE IF x \in {payments[s].from, payments[s].to} THEN NoRow
                      ELSE payments[s]]
                /\ Go(p, "Removed", seen[p])
                /\ UNCHANGED <<member, owners, disbanded, ledgerVersion, cache, announced>>
           ELSE /\ Go(p, "Removed", seen[p])
                /\ UNCHANGED <<circle, rows, cache, announced>>

\* Finding the longest-standing member, then promoting them by membership id.
RemoveSuccessor(p) ==
    /\ pc[p] = "RemoveSuccessor"
    /\ LET heirs == Successors(req[p].group, req[p].who)
       IN  IF heirs = {}
           THEN Go(p, "Removed", seen[p])
           ELSE \E y \in heirs : Go(p, "RemovePromote", [seen[p] EXCEPT !.people = {y}])
    /\ UNCHANGED <<circle, rows, cache, announced>>

RemovePromote(p) ==
    /\ pc[p] = "RemovePromote"
    /\ LET g == req[p].group
       IN  owners' = [owners EXCEPT ![g] = @ \cup {y \in seen[p].people : Housed(g, y)}]
    /\ Go(p, "Removed", seen[p])
    /\ UNCHANGED <<people, member, friends, disbanded, rows, cache, announced>>

Removed(p) == pc[p] = "Removed" /\ Leave(p)

-----------------------------------------------------------------------------
(* server/merge.ts: absorbGhost, one transaction.                          *)

MayAbsorbAnyhow(ghost, into) ==         \* mutant: no assertNoSelfPayment
    ghost # into /\ people[ghost] = "ghost" /\ people[into] = "real"
MayAbsorb(ghost, into) ==
    /\ ghost # into
    /\ people[ghost] = "ghost" /\ people[into] = "real"
    /\ ~\E s \in PaymentIds : /\ There(payments[s]) /\ ~payments[s].deleted
                              /\ {payments[s].from, payments[s].to} = {ghost, into}

As(x, ghost, into) == IF x = ghost THEN into ELSE x

PaymentsToOnly(ghost, into) ==          \* mutant: payments by the placeholder are lost
    [s \in PaymentIds |->
        IF payments[s] = NoRow \/ payments[s].from = ghost THEN NoRow
        ELSE [payments[s] EXCEPT !.to = As(payments[s].to, ghost, into)]]
PaymentsOver(ghost, into) ==
    [s \in PaymentIds |->
        IF payments[s] = NoRow THEN NoRow
        ELSE [payments[s] EXCEPT !.from = As(payments[s].from, ghost, into),
                                 !.to   = As(payments[s].to, ghost, into)]]

Absorb(ghost, into) ==
    LET housed == {g \in Groups : Housed(g, ghost)}
    IN  /\ people' = [people EXCEPT ![ghost] = "gone"]
        /\ member' = [g \in Groups |-> [x \in People |->
               IF x = ghost THEN "none"
               ELSE IF x = into /\ g \in housed /\ member[g][x] # "active"
                    THEN member[g][ghost] ELSE member[g][x]]]
        /\ friends' = {{As(x, ghost, into) : x \in f} : f \in friends \ {{ghost, into}}}
        /\ expenses' = [e \in ExpenseIds |->
               IF expenses[e] = NoRow THEN NoRow
               ELSE [expenses[e] EXCEPT !.bill = BillMoved(expenses[e].bill, ghost, into)]]
        /\ payments' = PaymentsOver(ghost, into)
        /\ ledgerVersion' = Bumped(housed)

\* POST /api/people/[id]/merge.  You may always say a placeholder is you; of
\* anybody else, only when they are in every group the placeholder is in.
MergeMay(p) ==
    /\ pc[p] = "merge"
    /\ LET ghost == req[p].who
           into  == req[p].into
       IN  IF /\ \E g \in Groups : {Me(p), ghost} \subseteq Active(g)
              /\ into # Me(p) => \A g \in Groups : Housed(g, ghost) => into \in Active(g)
           THEN /\ Go(p, "MergeCommit", Nothing)
                /\ UNCHANGED <<circle, rows, cache, announced>>
           ELSE Leave(p)

MergeCommit(p) ==
    /\ pc[p] = "MergeCommit"
    /\ IF MayAbsorb(req[p].who, req[p].into)
       THEN Absorb(req[p].who, req[p].into)
       ELSE UNCHANGED <<people, member, friends, rows>>
    /\ Finish(p)
    /\ UNCHANGED <<owners, disbanded, cache, announced>>

-----------------------------------------------------------------------------
(* POST /api/invite/[code]/join and POST /api/groups/[id]/members          *)

JoinLook(p) ==
    /\ pc[p] = "join"
    /\ LET g == req[p].group
           c == req[p].claim
       IN  IF ~Stands(g) \/ Me(p) \in Active(g) \/ (c # NoClaim /\ ~Housed(g, c))
           THEN Leave(p)
           ELSE /\ Go(p, IF c = NoClaim THEN "JoinSeat" ELSE "JoinClaim", Nothing)
                /\ UNCHANGED <<circle, rows, cache, announced>>

JoinClaim(p) ==
    /\ pc[p] = "JoinClaim"
    /\ IF MayAbsorb(req[p].claim, Me(p))
       THEN /\ Absorb(req[p].claim, Me(p))
            /\ Go(p, "JoinSeat", Nothing)
            /\ UNCHANGED <<owners, disbanded, cache, announced>>
       ELSE Leave(p)

\* upsert: a row kept from before, whatever its role, is only marked active.
JoinSeat(p) ==
    /\ pc[p] = "JoinSeat"
    /\ IF Stands(req[p].group)
       THEN /\ member' = SeatIn(req[p].group, Me(p), "active")
            /\ Go(p, "JoinConnect", Nothing)
            /\ UNCHANGED <<people, owners, friends, disbanded, rows, cache, announced>>
       ELSE Leave(p)

JoinConnect(p) ==
    /\ pc[p] = "JoinConnect"
    /\ friends' = friends \cup {{Me(p), y} : y \in Successors(req[p].group, Me(p))}
    /\ Finish(p)
    /\ UNCHANGED <<people, member, owners, disbanded, rows, cache, announced>>

AddAccess(p) ==
    /\ pc[p] = "add"
    /\ LET g == req[p].group
       IN  IF /\ Me(p) \in Active(g)
              /\ people[req[p].who] = "real"
              /\ req[p].who \notin Active(g)
           THEN /\ Go(p, "AddSeat", Nothing)
                /\ UNCHANGED <<circle, rows, cache, announced>>
           ELSE Leave(p)

AddSeat(p) ==
    /\ pc[p] = "AddSeat"
    /\ IF Stands(req[p].group)
       THEN /\ member' = SeatIn(req[p].group, req[p].who, "active")
            /\ Finish(p)
            /\ UNCHANGED <<people, owners, friends, disbanded, rows, cache, announced>>
       ELSE Leave(p)

AddGhostAccess(p) ==
    /\ pc[p] = "addGhost"
    /\ IF Me(p) \in Active(req[p].group)
       THEN /\ Go(p, "AddGhostSeat", Nothing)
            /\ UNCHANGED <<circle, rows, cache, announced>>
       ELSE Leave(p)

AddGhostSeat(p) ==
    /\ pc[p] = "AddGhostSeat"
    /\ IF Stands(req[p].group)
       THEN /\ people' = [people EXCEPT ![req[p].who] = "ghost"]
            /\ member' = SeatIn(req[p].group, req[p].who, "active")
            /\ Finish(p)
            /\ UNCHANGED <<owners, friends, disbanded, rows, cache, announced>>
       ELSE Leave(p)

MemberSteps(p) ==
    \/ Look(p) \/ Looked(p)
    \/ RemoveAccess(p) \/ RemoveCount(p) \/ RemoveLeave(p) \/ RemoveDrop(p) \/ RemoveForget(p)
    \/ RemoveSuccessor(p) \/ RemovePromote(p) \/ Removed(p)
    \/ MergeMay(p) \/ MergeCommit(p)
    \/ JoinLook(p) \/ JoinClaim(p) \/ JoinSeat(p) \/ JoinConnect(p)
    \/ AddAccess(p) \/ AddSeat(p) \/ AddGhostAccess(p) \/ AddGhostSeat(p)

=============================================================================
