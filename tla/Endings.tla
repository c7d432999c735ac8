------------------------------- MODULE Endings --------------------------------
(***************************************************************************)
(* How people on Divvy meet and part: POST and DELETE /api/friends/[id],   *)
(* joining by somebody's personal code, DELETE /api/groups/[id], and       *)
(* DELETE /api/identity/account.                                           *)
(***************************************************************************)
EXTENDS Ledger

EndingRequests ==
    [op : {"befriend", "unfriend", "joinFriend"}, session : Sessions, who : People]
      \cup [op : {"disband"}, session : Sessions, group : Groups]
      \cup [op : {"close"}, session : Sessions]

\* Nobody is their own friend; a friend is parted with from a screen they are on.
EndingArrivals ==
    {r \in EndingRequests :
        /\ r.op \in {"befriend", "unfriend", "joinFriend"} => r.who # PersonOf[r.session]
        /\ r.op = "unfriend" => {PersonOf[r.session], r.who} \in friends}

FriendAwaits  == {"befriend", "BefriendShare", "joinFriend", "BefriendWrite",
                  "unfriend", "UnfriendWrite"}
DisbandAwaits == {"disband", "DisbandWrite"}
CloseAwaits   == {"close", "CloseCheck", "CloseOwned", "CloseWrite"}
EndingAwaits  == FriendAwaits \cup DisbandAwaits \cup CloseAwaits

EndingStage(label, r) ==
    /\ label \in EndingAwaits => r.session \in Sessions
    /\ label \in FriendAwaits => r.who \in People /\ r.who # PersonOf[r.session]
    /\ label \in DisbandAwaits => r.group \in Groups

SharedBy(x, y) == {g \in Groups : {x, y} \subseteq Active(g)}

-----------------------------------------------------------------------------
(* Friends: anybody on Divvy one shares a group with, or whose code one has. *)

BefriendLook(p) ==
    /\ pc[p] = "befriend"
    /\ IF people[req[p].who] = "real"
       THEN /\ Go(p, "BefriendShare", Nothing)
            /\ UNCHANGED <<circle, rows, cache, announced>>
       ELSE Leave(p)

BefriendShare(p) ==
    /\ pc[p] = "BefriendShare"
    /\ IF SharedBy(Me(p), req[p].who) # {}
       THEN /\ Go(p, "BefriendWrite", Nothing)
            /\ UNCHANGED <<circle, rows, cache, announced>>
       ELSE Leave(p)

CodeLook(p) ==
    /\ pc[p] = "joinFriend"
    /\ IF people[req[p].who] = "real"
       THEN /\ Go(p, "BefriendWrite", Nothing)
            /\ UNCHANGED <<circle, rows, cache, announced>>
       ELSE Leave(p)

\* upsert: the row that is there already is as good.
BefriendWrite(p) ==
    /\ pc[p] = "BefriendWrite"
    /\ friends' = friends \cup {{Me(p), req[p].who}}
    /\ Finish(p)
    /\ UNCHANGED <<people, member, owners, disbanded, rows, cache, announced>>

\* sharedLedgers: the direct rows and the groups in common, then their sheets.
UnfriendShared(p) ==
    /\ pc[p] = "unfriend"
    /\ ReadSheets(p, SharedBy(Me(p), req[p].who), "UnfriendWrite",
                  [Nothing EXCEPT !.direct = Sheet(NoGroup)])
    /\ UNCHANGED <<circle, rows, cache, announced>>

\* Between the two of them, by what the handler has read.
Square(p, x, y) ==
    /\ PairNet(seen[p].direct, x, y) = 0
    /\ \A g \in reading[p].groups : PairNet(reading[p].sheet[g], x, y) = 0

UnfriendWrite(p) ==
    /\ pc[p] = "UnfriendWrite"
    /\ IF Square(p, Me(p), req[p].who)
       THEN /\ friends' = friends \ {{Me(p), req[p].who}}
            /\ Finish(p)
            /\ UNCHANGED <<people, member, owners, disbanded, rows, cache, announced>>
       ELSE Leave(p)

-----------------------------------------------------------------------------
(* Deleting a group, with everything that was filed in it.                 *)

DisbandAccess(p) ==
    /\ pc[p] = "disband"
    /\ LET g == req[p].group
       IN  IF Me(p) \in Active(g) \cap owners[g]
           THEN ReadSheets(p, {g}, "DisbandWrite", Nothing)
           ELSE Finish(p)
    /\ UNCHANGED <<circle, rows, cache, announced>>

DisbandWrite(p) ==
    /\ pc[p] = "DisbandWrite"
    /\ LET g == req[p].group
       IN  IF Stands(g) /\ \A x \in People : Net(reading[p].sheet[g], x) = 0
           THEN /\ disbanded' = disbanded \cup {g}
                /\ Finish(p)
                /\ UNCHANGED <<people, member, owners, friends, rows, cache, announced>>
           ELSE Leave(p)

-----------------------------------------------------------------------------
(* Closing one's account.                                                  *)

CloseRead(p) ==
    /\ pc[p] = "close"
    /\ ReadSheets(p, {g \in Groups : Me(p) \in Active(g)}, "CloseCheck",
                  [Nothing EXCEPT !.direct = Sheet(NoGroup)])
    /\ UNCHANGED <<circle, rows, cache, announced>>

\* unsettledReason: one figure for each ledger, over everybody in it.
NothingOwed(p) ==
    /\ Net(seen[p].direct, Me(p)) = 0
    /\ \A g \in reading[p].groups : Net(reading[p].sheet[g], Me(p)) = 0

\* Settled up, the caller proves who they are, or fails to.
CloseCheck(p) ==
    /\ pc[p] = "CloseCheck"
    /\ \/ /\ NothingOwed(p)
          /\ Go(p, "CloseOwned", Nothing)
          /\ UNCHANGED <<circle, rows, cache, announced>>
       \/ Leave(p)

\* The groups to hand on are read before the transaction, not in it.
CloseOwned(p) ==
    /\ pc[p] = "CloseOwned"
    /\ LET held == {g \in Groups : Me(p) \in Active(g) \cap owners[g]}
       IN  Go(p, "CloseWrite", [Nothing EXCEPT !.seats = held \X {Me(p)}])
    /\ UNCHANGED <<circle, rows, cache, announced>>

\* Each goes to its longest-standing remaining member; the caller leaves every
\* group and every friendship, and the Person row stays, as "Deleted user".
CloseWrite(p) ==
    /\ pc[p] = "CloseWrite"
    /\ LET me       == Me(p)
           Heirs(g) == {y \in Active(g) \ {me} : people[y] = "real"}
           passing  == {g \in Groups : <<g, me>> \in seen[p].seats /\ Heirs(g) # {}}
           left     == {g \in Groups : me \in Active(g)}
       IN  /\ \E heir \in [passing -> People] :
                /\ \A g \in passing : heir[g] \in Heirs(g)
                /\ owners' = [g \in Groups |->
                       (owners[g] \ {x \in {me} : g \in left}) \cup {heir[h] : h \in passing \cap {g}}]
           /\ member' = [g \in Groups |-> [x \in People |->
                  IF x = me /\ g \in left THEN "left" ELSE member[g][x]]]
           /\ friends' = {f \in friends : me \notin f}
           /\ people' = [people EXCEPT ![me] = "deleted"]
    /\ Finish(p)
    /\ UNCHANGED <<disbanded, rows, cache, announced>>

EndingSteps(p) ==
    \/ BefriendLook(p) \/ BefriendShare(p) \/ CodeLook(p) \/ BefriendWrite(p)
    \/ UnfriendShared(p) \/ UnfriendWrite(p)
    \/ DisbandAccess(p) \/ DisbandWrite(p)
    \/ CloseRead(p) \/ CloseCheck(p) \/ CloseOwned(p) \/ CloseWrite(p)

=============================================================================
