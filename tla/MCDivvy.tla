------------------------------ MODULE MCDivvy -------------------------------
(* Small instances of Divvy for TLC: a flat of three where gus is a        *)
(* placeholder, one group and, where batches need it, the direct ledger.   *)
EXTENDS Divvy, TLC

CONSTANTS ana, ben, cam, gus, flat, direct, phone, laptop, bens, cams,
          e1, e2, e3, s1, s2, s3, s4, s5, s6, whole, again, third

MCPersonOf == [s \in Sessions |-> IF s = bens THEN ben ELSE IF s = cams THEN cam ELSE ana]

Zero == [x \in People |-> 0]
Put(x, n) == [Zero EXCEPT ![x] = n]
Bill(payer, n, shares) == [amount |-> n, paid |-> Put(payer, n), owed |-> shares @@ Zero]

\* ana paid 2 for themselves and the placeholder; ben paid 2 for ana.
Dinner == Bill(ana, 2, ana :> 1 @@ gus :> 1)
Taxi   == Bill(ben, 2, ana :> 2)

\* e2 and e3: ana owes ben 2 in the flat, and 2 more between the two of them.
MCBills == {Dinner, Taxi}
MCDraft == [e \in ExpenseIds |-> [group |-> IF e = e3 THEN direct ELSE flat,
                                   bill  |-> IF e = e1 THEN Dinner ELSE Taxi]]
JustTaxi == {Taxi}

\* Between friends: ana owes ben 2, and is owed 2 by cam.
Ride     == Bill(ana, 2, cam :> 2)
MCRounds == {Ride, Taxi}
Round    == [e \in ExpenseIds |-> [group |-> direct, bill |-> IF e = e1 THEN Ride ELSE Taxi]]

\* One settle-up of both ledgers, started by ana; another of both by ben; and one
\* of the flat alone.
MCBatchDraft ==
    [x \in BatchIds |->
        [other |-> IF x = again THEN ana ELSE ben,
         rows  |-> CASE x = whole -> {[id |-> s2, group |-> flat,   amount |-> 2],
                                      [id |-> s3, group |-> direct, amount |-> 2]}
                     [] x = again -> {[id |-> s4, group |-> flat,   amount |-> 2],
                                      [id |-> s5, group |-> direct, amount |-> 2]}
                     [] x = third -> {[id |-> s6, group |-> flat,   amount |-> 1]}]]

\* A payment of the placeholder's share, and one of ana's debt to ben.
MCPaymentDraft ==
    [s \in PaymentIds \ {s2, s3, s4, s5, s6} |->
        [group |-> flat, from |-> gus, to |-> ana, amount |-> 1]]
TaxiPaid == [s \in PaymentIds \ {s2, s3, s4, s5, s6} |->
        [group |-> flat, from |-> ana, to |-> ben, amount |-> 2]]

MCRegistered == [x \in People |-> IF x = gus THEN "ghost" ELSE "real"]
MCSeated     == [h \in Groups |-> [x \in People |-> "active"]]
\* With cam an id still to be given to a placeholder.
Unborn       == [MCRegistered EXCEPT ![cam] = "unborn"]
AllButCam      == [h \in Groups |-> [x \in People |-> IF x = cam THEN "none" ELSE "active"]]
MCFounders   == [h \in Groups |-> {ana}]
MCContacts   == {{ana, ben}}

Handlers == Permutations(Procs)
=============================================================================
