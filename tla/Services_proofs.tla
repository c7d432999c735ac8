------------------------------ MODULE Services_proofs -------------------------
(***************************************************************************)
(* Theorems about the parts of the server and the client that keep a state *)
(* of their own: the one connection (Turns), the leases of the background  *)
(* jobs (Jobs), the screens (Screen), the notifications (Push) and the     *)
(* rate limits (Limits).                                                   *)
(***************************************************************************)
EXTENDS Turns, Jobs, Screen, Push, Limits, Sums, SequenceTheorems

-----------------------------------------------------------------------------
(* That the one connection, taken in turns, is the database of module      *)
(* Store, for any clients, any transactions among them and any number of   *)
(* statements and restarts.                                                *)

Entry == Clients \X Nat

LEMMA StatementsAreEntries ==
    ASSUME NEW c \in Clients PROVE StatementsOf(c) \in Seq(Entry)
<1>1. Length[c] \in Nat
  BY TurnsAssumption
<1> QED
  BY <1>1 DEF StatementsOf, Entry

\* Two that are not done are in order, so one of them still waits.
LEMMA OneTurn ==
    ASSUME TurnsTypeOK, QueueOrder, NEW c \in Clients, NEW d \in Clients,
           c \in last \ over, d \in last \ over, HasTurn(c), HasTurn(d)
    PROVE  c = d
BY DEF QueueOrder, HasTurn

\* So whoever has the turn finds nobody else's transaction open.
LEMMA NobodyElseIn ==
    ASSUME TurnsInv, NEW c \in Clients, stage[c] = "waiting", HasTurn(c)
    PROVE  open = NoOne /\ inside = <<>> /\ c \in last \ over
<1>1. c \in last \ over
  BY DEF TurnsInv, QueueOrder
<1>2. ASSUME open # NoOne PROVE FALSE
  <2>1. open \in Clients /\ stage[open] \in {"open", "failing"}
    BY <1>2 DEF TurnsInv, TurnsTypeOK, InTransaction
  <2>2. open \in last \ over /\ HasTurn(open)
    BY <2>1 DEF TurnsInv, QueueOrder
  <2>3. open = c
    BY <1>1, <2>1, <2>2, OneTurn DEF TurnsInv
  <2> QED
    BY <2>1, <2>3
<1> QED
  BY <1>1, <1>2 DEF TurnsInv, InTransaction

-----------------------------------------------------------------------------
(* Type correctness.                                                       *)

LEMMA QueryTypes ==
    ASSUME TurnsTypeOK, NEW c \in Clients, Query(c) PROVE TurnsTypeOK'
<1>1. StatementsOf(c) \in Seq(Clients \X Nat)
  BY StatementsAreEntries DEF Entry
<1>2. rows \o inside \in Seq(Clients \X Nat)
  BY DEF TurnsTypeOK
<1>3. rows' \in Seq(Clients \X Nat) /\ inside' \in Seq(Clients \X Nat)
  <2>1. CASE open = NoOne
    BY <1>1, <2>1, rows \o StatementsOf(c) \in Seq(Clients \X Nat) DEF TurnsTypeOK, Query
  <2>2. CASE open # NoOne
    BY <1>1, <2>2, inside \o StatementsOf(c) \in Seq(Clients \X Nat) DEF TurnsTypeOK, Query
  <2> QED
    BY <2>1, <2>2
<1> QED
  BY <1>2, <1>3 DEF TurnsTypeOK, Query, Moves, queueVars

LEMMA TurnsTypes == TurnsTypeOK /\ [TurnsNext]_turnVars => TurnsTypeOK'
<1> SUFFICES ASSUME TurnsTypeOK, [TurnsNext]_turnVars PROVE TurnsTypeOK'
  OBVIOUS
<1>1. ASSUME NEW c \in Clients, Ask(c) PROVE TurnsTypeOK'
  BY <1>1 DEF TurnsTypeOK, Ask, Moves
<1>2. ASSUME NEW c \in Clients, Query(c) PROVE TurnsTypeOK'
  BY <1>2, QueryTypes
<1>3. ASSUME NEW c \in Clients, Fails(c) PROVE TurnsTypeOK'
  BY <1>3 DEF TurnsTypeOK, Fails, Moves, queueVars, dataVars
<1>4. ASSUME NEW c \in Clients, Begin(c) PROVE TurnsTypeOK'
  BY <1>4 DEF TurnsTypeOK, Begin, Moves, queueVars
<1>5. ASSUME NEW c \in Clients, Statement(c) PROVE TurnsTypeOK'
  <2>1. <<c, sent[c] + 1>> \in Clients \X Nat
    BY DEF TurnsTypeOK
  <2>2. inside' \in Seq(Clients \X Nat)
    BY <1>5, <2>1 DEF TurnsTypeOK, Statement
  <2> QED
    BY <1>5, <2>2 DEF TurnsTypeOK, Statement, queueVars
<1>6. ASSUME NEW c \in Clients, Commit(c) PROVE TurnsTypeOK'
  BY <1>6 DEF TurnsTypeOK, Commit, Moves, Closed, queueVars
<1>7. ASSUME NEW c \in Clients, Abort(c) PROVE TurnsTypeOK'
  BY <1>7 DEF TurnsTypeOK, Abort, Moves, queueVars, dataVars
<1>8. ASSUME NEW c \in Clients, Rollback(c) PROVE TurnsTypeOK'
  BY <1>8 DEF TurnsTypeOK, Rollback, Moves, Closed, queueVars
<1>9. ASSUME NEW c \in Clients, GiveBack(c) PROVE TurnsTypeOK'
  BY <1>9 DEF TurnsTypeOK, GiveBack, GivesBack, Moves, queueVars, dataVars
<1>10. CASE RestartServer
  BY <1>10 DEF TurnsTypeOK, RestartServer, AfterRestart, Closed
<1>11. CASE UNCHANGED turnVars
  BY <1>11 DEF TurnsTypeOK, turnVars
<1> QED
  BY <1>1, <1>2, <1>3, <1>4, <1>5, <1>6, <1>7, <1>8, <1>9, <1>10, <1>11
     DEF TurnsNext, Serve

-----------------------------------------------------------------------------
(* The queue, and what is inside the transaction that is open.             *)

LEMMA OrderKept == TurnsInv /\ [TurnsNext]_turnVars => QueueOrder'
<1> SUFFICES ASSUME TurnsInv, [TurnsNext]_turnVars PROVE QueueOrder'
  OBVIOUS
<1> USE DEF TurnsInv, TurnsTypeOK
<1>1. ASSUME NEW c \in Clients, Ask(c) PROVE QueueOrder'
  BY <1>1 DEF QueueOrder, Ask, Moves, HasTurn
<1>2. ASSUME NEW c \in Clients, Query(c) \/ Fails(c) \/ Begin(c) PROVE QueueOrder'
  BY <1>2 DEF QueueOrder, Query, Fails, Begin, Moves, HasTurn, queueVars
<1>3. ASSUME NEW c \in Clients, Statement(c) PROVE QueueOrder'
  BY <1>3 DEF QueueOrder, Statement, HasTurn, queueVars
<1>4. ASSUME NEW c \in Clients, Commit(c) \/ Abort(c) \/ Rollback(c) PROVE QueueOrder'
  BY <1>4 DEF QueueOrder, Commit, Abort, Rollback, Moves, HasTurn, queueVars
<1>5. ASSUME NEW c \in Clients, GiveBack(c) PROVE QueueOrder'
  <2>1. \A d \in Clients \ {c} : d \in over' <=> d \in over
    BY <1>5 DEF GiveBack, GivesBack
  <2> QED
    BY <1>5, <2>1 DEF QueueOrder, GiveBack, GivesBack, Moves, HasTurn, queueVars
<1>6. CASE RestartServer
  BY <1>6 DEF QueueOrder, RestartServer, AfterRestart, HasTurn
<1>7. CASE UNCHANGED turnVars
  BY <1>7 DEF QueueOrder, turnVars, HasTurn
<1> QED
  BY <1>1, <1>2, <1>3, <1>4, <1>5, <1>6, <1>7 DEF TurnsNext, Serve

LEMMA TransactionKept == TurnsInv /\ [TurnsNext]_turnVars => InTransaction'
<1> SUFFICES ASSUME TurnsInv, [TurnsNext]_turnVars PROVE InTransaction'
  OBVIOUS
<1> USE TurnsAssumption DEF TurnsTypeOK
<1>0. TurnsTypeOK /\ InTransaction
  BY DEF TurnsInv
<1>1. ASSUME NEW c \in Clients, Ask(c) PROVE InTransaction'
  BY <1>0, <1>1 DEF InTransaction, Ask, Moves
<1>2. ASSUME NEW c \in Clients, Query(c) PROVE InTransaction'
  <2>1. open = NoOne /\ inside = <<>>
    BY <1>2, NobodyElseIn DEF Query, Moves
  <2> QED
    BY <1>0, <1>2, <2>1 DEF InTransaction, Query, Moves
<1>3. ASSUME NEW c \in Clients, Fails(c) PROVE InTransaction'
  BY <1>0, <1>3 DEF InTransaction, Fails, Moves, dataVars
<1>4. ASSUME NEW c \in Clients, Begin(c) PROVE InTransaction'
  <2>1. inside = <<>> /\ sent[c] = 0 /\ Length[c] \in Nat
    BY <1>0, <1>4 DEF InTransaction, Begin, Moves
  <2>2. [i \in 1..0 |-> <<c, i>>] = <<>>
    OBVIOUS
  <2> QED
    BY <1>0, <1>4, <2>1, <2>2 DEF InTransaction, Begin, Moves
<1>5. ASSUME NEW c \in Clients, Statement(c) PROVE InTransaction'
  <2>1. open = c /\ inside = [i \in 1..sent[c] |-> <<c, i>>]
    BY <1>0, <1>5 DEF InTransaction, Statement
  <2>2. sent[c] \in Nat /\ Length[c] \in Nat /\ sent[c] < Length[c]
    BY <1>0, <1>5 DEF Statement
  <2>3. inside' = [i \in 1..(sent[c] + 1) |-> <<c, i>>]
    <3>1. inside' = Append([i \in 1..sent[c] |-> <<c, i>>], <<c, sent[c] + 1>>)
      BY <1>5, <2>1 DEF Statement
    <3> QED
      BY <2>2, <3>1
  <2>4. sent'[c] = sent[c] + 1 /\ \A d \in Clients \ {c} : sent'[d] = sent[d]
    BY <1>0, <1>5 DEF Statement
  <2>5. stage' = stage /\ open' = open /\ view' = view /\ rows' = rows /\ stage[c] = "open"
    BY <1>5 DEF Statement
  <2>6. open # NoOne
    BY <2>1, TurnsAssumption
  <2>7. \A d \in Clients : d # c => open # d
    BY <2>1
  <2>8. sent'[c] \in Nat /\ sent'[c] <= Length[c] /\ inside' = [i \in 1..sent'[c] |-> <<c, i>>]
    BY <2>2, <2>3, <2>4
  <2> QED
    BY <1>0, <2>1, <2>4, <2>5, <2>6, <2>7, <2>8 DEF InTransaction
<1>6. ASSUME NEW c \in Clients, Commit(c) PROVE InTransaction'
  BY <1>0, <1>6 DEF InTransaction, Commit, Moves, Closed
<1>7. ASSUME NEW c \in Clients, Abort(c) PROVE InTransaction'
  BY <1>0, <1>7 DEF InTransaction, Abort, Moves, dataVars
<1>8. ASSUME NEW c \in Clients, Rollback(c) PROVE InTransaction'
  BY <1>0, <1>8 DEF InTransaction, Rollback, Moves, Closed
<1>9. ASSUME NEW c \in Clients, GiveBack(c) PROVE InTransaction'
  BY <1>0, <1>9 DEF InTransaction, GiveBack, Moves, dataVars
<1>10. CASE RestartServer
  BY <1>0, <1>10 DEF InTransaction, RestartServer, AfterRestart, Closed
<1>11. CASE UNCHANGED turnVars
  BY <1>0, <1>11 DEF InTransaction, turnVars
<1> QED
  BY <1>1, <1>2, <1>3, <1>4, <1>5, <1>6, <1>7, <1>8, <1>9, <1>10, <1>11
     DEF TurnsNext, Serve

LEMMA TurnsBegin == TurnsInit => TurnsInv
BY TurnsAssumption DEF TurnsInit, TurnsInv, TurnsTypeOK, QueueOrder, InTransaction, HasTurn

\* The turns are in order, one client at a time is on the connection, and an open
\* transaction holds its own statements only (lib/one-at-a-time.ts).
THEOREM TurnsInOrder == TurnsSpec => []TurnsInv
<1>1. TurnsInv /\ [TurnsNext]_turnVars => TurnsInv'
  BY TurnsTypes, OrderKept, TransactionKept DEF TurnsInv
<1> QED
  BY TurnsBegin, <1>1, PTL DEF TurnsSpec

-----------------------------------------------------------------------------
(* The refinement.                                                         *)

LEMMA StoreBegins == TurnsInit => Database!Init
BY DEF TurnsInit, Database!Init, Outcome

LEMMA Asks ==
    ASSUME TurnsInv, NEW c \in Clients, Ask(c) PROVE Database!Ask(c)
BY DEF TurnsInv, TurnsTypeOK, Ask, Moves, Database!Ask, Outcome

LEMMA QuerySaves ==
    ASSUME TurnsInv, NEW c \in Clients, Query(c) PROVE Database!Save(c)
<1>1. open = NoOne /\ inside = <<>>
  BY NobodyElseIn DEF Query, Moves
<1>2. rows \in Seq(Entry) /\ rows \o inside = rows
  BY <1>1 DEF TurnsInv, TurnsTypeOK, Entry
<1> QED
  BY <1>1, <1>2 DEF TurnsInv, TurnsTypeOK, Query, Moves, StatementsOf,
                   Database!Save, Database!Writes, Outcome

LEMMA CommitSaves ==
    ASSUME TurnsInv, NEW c \in Clients, Commit(c) PROVE Database!Save(c)
<1>1. open = c /\ view[c] = rows /\ inside = [i \in 1..Length[c] |-> <<c, i>>]
  BY DEF TurnsInv, InTransaction, Commit, Moves
<1> QED
  BY <1>1 DEF TurnsInv, TurnsTypeOK, Commit, Moves, Database!Save, Database!Writes, Outcome

LEMMA GiveBackFails ==
    ASSUME TurnsInv, NEW c \in Clients, GiveBack(c)
    PROVE  Database!Fail({c}) \/ UNCHANGED <<rows, [d \in Clients |-> Outcome(d)],
              [d \in Clients |-> IF stage[d] \in {"kept", "saved"} THEN view[d] ELSE <<>>]>>
BY DEF TurnsInv, TurnsTypeOK, GiveBack, Moves, dataVars, Database!Fail, Outcome

LEMMA RestartFails ==
    ASSUME TurnsInv, RestartServer
    PROVE  Database!Fail({d \in Clients : Outcome(d) = "waiting"})
BY DEF TurnsInv, TurnsTypeOK, RestartServer, AfterRestart, Database!Fail, Outcome

\* What a client does between its BEGIN and its end is seen by nobody.
Unseen == UNCHANGED <<rows, [c \in Clients |-> Outcome(c)],
            [c \in Clients |-> IF stage[c] \in {"kept", "saved"} THEN view[c] ELSE <<>>]>>

LEMMA OthersUnseen ==
    ASSUME TurnsInv, NEW c \in Clients,
           Fails(c) \/ Begin(c) \/ Statement(c) \/ Abort(c) \/ Rollback(c)
    PROVE  Unseen
BY DEF TurnsInv, TurnsTypeOK, Fails, Begin, Statement, Abort, Rollback, Moves, dataVars,
       Unseen, Outcome

LEMMA StoreSteps ==
    TurnsInv /\ [TurnsNext]_turnVars =>
        [Database!Next]_<<rows, [c \in Clients |-> Outcome(c)],
            [c \in Clients |-> IF stage[c] \in {"kept", "saved"} THEN view[c] ELSE <<>>]>>
<1> SUFFICES ASSUME TurnsInv, [TurnsNext]_turnVars PROVE Database!Next \/ Unseen
  BY DEF Unseen
<1>1. ASSUME NEW c \in Clients, Ask(c) PROVE Database!Next
  BY <1>1, Asks DEF Database!Next
<1>2. ASSUME NEW c \in Clients, Query(c) \/ Commit(c) PROVE Database!Next
  BY <1>2, QuerySaves, CommitSaves DEF Database!Next
<1>3. ASSUME NEW c \in Clients, GiveBack(c) PROVE Database!Next \/ Unseen
  BY <1>3, GiveBackFails DEF Database!Next, Unseen
<1>4. ASSUME NEW c \in Clients,
             Fails(c) \/ Begin(c) \/ Statement(c) \/ Abort(c) \/ Rollback(c)
      PROVE  Unseen
  BY <1>4, OthersUnseen
<1>5. CASE RestartServer
  BY <1>5, RestartFails DEF Database!Next
<1>6. CASE UNCHANGED turnVars
  BY <1>6 DEF turnVars, Unseen, Outcome
<1> QED
  BY <1>1, <1>2, <1>3, <1>4, <1>5, <1>6 DEF TurnsNext, Serve

\* The connection implements the database of module Store: a query or a transaction
\* happens at one instant, the COMMIT being that of a transaction, sees all that was
\* saved before it, and a restart leaves it saved or failed but never in part.
THEOREM ImplementsStore == TurnsSpec => TakesOneAtATime
BY StoreBegins, StoreSteps, TurnsInOrder, PTL DEF TurnsSpec, TakesOneAtATime, Database!Spec

-----------------------------------------------------------------------------
(* That a lease keeps two processes from running one job at once, for any  *)
(* number of processes, ticks of each, and requests of an outside cron,    *)
(* any lease and any runs short enough for it: unless one gives the lease  *)
(* back under another, which a job that keeps its lease never does.        *)

LEMMA Fresh == Init => IInv
BY JobsAssumption DEF Init, IInv, TypeOK, Covered, Trusted, Over, At, Keeps

LEMMA Step ==
    ASSUME Quick, IInv, [Next]_vars, ~GivenBackUnder PROVE IInv'
<1> USE JobsAssumption DEF Quick, Over, At, Trusted
<1>0. TypeOK /\ Covered
  BY DEF IInv
<1>a. Slack \in 0..MaxDelay
  BY DEF Slack
<1>b. \A r \in Runners : Home[r] \in Servers /\ age[r] \in Nat /\ age[r] >= 0
  BY <1>0 DEF TypeOK
<1>1. ASSUME NEW r \in Runners, Tick(r) PROVE IInv'
  <2>1. CASE Keeps(r) /\ Trusted(Home[r])
    <3>1. TypeOK'
      BY <1>0, <1>1, <2>1 DEF Tick, Goes, TypeOK, Keeps
    <3>2. holder = Home[r] /\ left >= MaxRun
      BY <1>0, <1>a, <1>b, <2>1 DEF TypeOK, Covered
    <3>3. Covered'
      BY <1>0, <1>1, <2>1, <3>2 DEF Tick, Goes, TypeOK, Covered, Slack
    <3> QED
      BY <3>1, <3>3 DEF IInv
  <2>2. CASE ~(Keeps(r) /\ Trusted(Home[r]))
    <3>1. TypeOK'
      BY <1>0, <1>1, <2>2 DEF Tick, Goes, TypeOK, Keeps
    <3>2. Covered'
      BY <1>0, <1>1, <2>2 DEF Tick, Goes, TypeOK, Covered, Slack
    <3> QED
      BY <3>1, <3>2 DEF IInv
  <2> QED
    BY <2>1, <2>2
<1>2. ASSUME NEW r \in Runners, Held(r), At(r, "take") \/ At(r, "add"),
             holder = Nobody \/ Free(r)
      PROVE  IInv'
  <2>1. age[r] \in 0..MaxDelay /\ Home[r] \in Servers
    BY <1>0, <1>2 DEF TypeOK
  <2>2. \A q \in Runners : At(q, "work") => Home[q] = Home[r] /\ q # r /\ age[q] \in 0..MaxRun
    <3> TAKE q \in Runners
    <3>1. HAVE At(q, "work")
    <3>2. q # r /\ age[q] \in 0..MaxRun
      BY <1>0, <1>2, <3>1 DEF TypeOK
    <3>3. holder = Home[q] /\ left >= 0
      BY <1>0, <1>b, <3>1, <3>2 DEF TypeOK, Covered
    <3> QED
      BY <1>0, <1>2, <1>b, <2>1, <3>2, <3>3 DEF Free, Lapsed, TypeOK
  <2>3. \A s \in Servers : Trusted(s) => s = Home[r]
    <3> TAKE s \in Servers
    <3>1. HAVE Trusted(s)
    <3>2. holder = s /\ left >= 0
      BY <1>0, <1>a, <3>1 DEF TypeOK, Covered
    <3> QED
      BY <1>0, <1>2, <2>1, <3>2 DEF Free, Lapsed, TypeOK
  <2>4. TypeOK'
    BY <1>0, <1>2, <2>1 DEF Held, Notes, Goes, TypeOK, Keeps
  <2>5. /\ holder' = Home[r] /\ left' = Ttl - age[r]
        /\ \A q \in Runners : pc'[q] = "work" => q = r \/ pc[q] = "work"
        /\ \A q \in Runners : age'[q] = IF q = r THEN 0 ELSE age[q]
    BY <1>0, <1>2 DEF Held, Goes, TypeOK
  <2>6. ASSUME NEW q \in Runners, pc'[q] = "work"
        PROVE  holder' = Home[q] /\ left' >= MaxRun - age'[q]
    BY <2>1, <2>2, <2>5, <2>6
  <2>7. ASSUME NEW s \in Servers, 2 * kept'[s] > Ttl
        PROVE  holder' = s /\ left' >= kept'[s] - Slack
    <3>1. CASE Notes(r)
      BY <1>0, <1>2, <1>a, <2>1, <2>3, <2>5, <2>7, <3>1 DEF Held, TypeOK
    <3>2. CASE ~Notes(r)
      <4>1. kept' = kept /\ Trusted(s) /\ s = Home[r]
        BY <1>2, <2>3, <2>7, <3>2 DEF Held
      <4>2. keep /\ r \in Crons
        BY <1>0, <2>7, <3>2, <4>1 DEF Notes, Keeps, TypeOK
      <4>3. Slack = MaxDelay /\ kept[s] <= Ttl /\ kept[s] \in Int
        BY <1>0, <4>2 DEF Slack, TypeOK
      <4> QED
        BY <2>1, <2>5, <4>1, <4>3
    <3> QED
      BY <3>1, <3>2
  <2>8. Covered'
    BY <2>6, <2>7 DEF Covered, Slack
  <2> QED
    BY <2>4, <2>8 DEF IInv
<1>3. ASSUME NEW r \in Runners, Miss(r) PROVE IInv'
  BY <1>0, <1>3 DEF Miss, IInv, TypeOK, Covered, Keeps, Slack
<1>4. ASSUME NEW r \in Runners, Refuse(r) PROVE IInv'
  <2>1. TypeOK'
    BY <1>0, <1>4 DEF Refuse, Goes, TypeOK, Keeps
  <2>2. Covered'
    BY <1>0, <1>4 DEF Refuse, Goes, TypeOK, Covered, Slack
  <2> QED
    BY <2>1, <2>2 DEF IInv
<1>5. ASSUME NEW r \in Runners, Finish(r) PROVE IInv'
  <2>1. TypeOK'
    BY <1>0, <1>5 DEF Finish, Goes, TypeOK, Keeps
  <2>2. Covered'
    BY <1>0, <1>5 DEF Finish, Goes, TypeOK, Covered, Slack
  <2> QED
    BY <2>1, <2>2 DEF IInv
<1>6. ASSUME NEW r \in Runners, Release(r) PROVE IInv'
  <2>1. TypeOK'
    BY <1>0, <1>6 DEF Release, Goes, TypeOK, Keeps
  <2>2. CASE left' = left
    <3>1. Covered'
      BY <1>0, <1>6, <2>2 DEF Release, Goes, TypeOK, Covered, Slack
    <3> QED
      BY <2>1, <3>1 DEF IInv
  <2>3. CASE left' # left
    <3>1. holder = Home[r] /\ ~Trusted(Home[r])
      BY <1>6, <2>3 DEF Release, GivenBackUnder
    <3>2. \A q \in Runners : At(q, "work") => Home[q] # Home[r]
      BY <1>6, <2>3 DEF GivenBackUnder
    <3>3. /\ \A q \in Runners : ~At(q, "work")
          /\ \A s \in Servers : ~Trusted(s)
      BY <1>0, <3>1, <3>2 DEF Covered
    <3>4. Covered'
      BY <1>0, <1>6, <3>3 DEF Release, Goes, TypeOK, Covered
    <3> QED
      BY <2>1, <3>4 DEF IInv
  <2> QED
    BY <2>2, <2>3
<1>7. ASSUME NEW s \in Servers, Crash(s) PROVE IInv'
  <2>1. TypeOK'
    BY <1>0, <1>7 DEF Crash, TypeOK, Keeps
  <2>2. Covered'
    BY <1>0, <1>7 DEF Crash, TypeOK, Covered, Slack
  <2> QED
    BY <2>1, <2>2 DEF IInv
<1>8. CASE Pass
  <2>1. TypeOK'
    BY <1>0, <1>8 DEF Pass, Limit, Less, TypeOK, Keeps
  <2>2. /\ holder' = holder /\ pc' = pc
        /\ \A r \in Runners : At(r, "work") => age'[r] = age[r] + 1 /\ age[r] < MaxRun
        /\ \A s \in Servers : kept'[s] = Less(kept[s])
    BY <1>8 DEF Pass, Limit
  <2>3. left \in Int /\ left' \in Int /\ left' >= left - 1
    BY <1>0, <1>8 DEF Pass, TypeOK, Less
  <2>4. ASSUME NEW r \in Runners, pc'[r] = "work"
        PROVE  holder' = Home[r] /\ left' >= MaxRun - age'[r]
    BY <1>0, <1>b, <2>2, <2>3, <2>4 DEF Covered, TypeOK
  <2>5. ASSUME NEW s \in Servers, 2 * kept'[s] > Ttl
        PROVE  holder' = s /\ left' >= kept'[s] - Slack
    <3>1. kept[s] \in Int /\ kept'[s] = kept[s] - 1 /\ Trusted(s)
      BY <1>0, <2>2, <2>5 DEF TypeOK, Less
    <3>2. holder = s /\ left >= kept[s] - Slack
      BY <1>0, <3>1 DEF Covered
    <3> QED
      BY <1>a, <2>2, <2>3, <3>1, <3>2
  <2>6. Covered'
    BY <2>4, <2>5 DEF Covered, Slack
  <2> QED
    BY <2>1, <2>6 DEF IInv
<1>9. CASE UNCHANGED vars
  BY <1>0, <1>9 DEF vars, IInv, TypeOK, Covered, Keeps, Slack
<1> QED
  BY <1>1, <1>2, <1>3, <1>4, <1>5, <1>6, <1>7, <1>8, <1>9
     DEF Next, Proceed, Take, Add

LEMMA OneHolder == IInv => OneProcess
BY DEF IInv, Covered, OneProcess

\* Whatever ticks of a process overlap, and whatever an outside cron asks for:
\* until one of them gives a lease back under another, whoever is at work has a
\* lease that outlasts the run, and a lease trusted without asking is there.
THEOREM AlwaysCovered ==
    ASSUME Quick PROVE Spec /\ [][~GivenBackUnder]_vars => []IInv
<1>1. IInv /\ [Next]_vars /\ [~GivenBackUnder]_vars => IInv'
  <2> SUFFICES ASSUME IInv, [Next]_vars, [~GivenBackUnder]_vars PROVE IInv'
    OBVIOUS
  <2>1. CASE ~GivenBackUnder
    BY <2>1, Step
  <2>2. CASE UNCHANGED vars
    <3>1. ~GivenBackUnder
      BY <2>2 DEF vars, GivenBackUnder
    <3> QED
      BY <3>1, Step
  <2> QED
    BY <2>1, <2>2
<1> QED
  BY Fresh, <1>1, PTL DEF Spec

\* Hence that is the only way for two processes to be in the middle of the job at
\* once: no overlap, crash, slow clock or takeover does it, unless a lease was
\* given back under a run of its process (withJobLock, jobs.ts).
THEOREM LeasesExclude ==
    ASSUME Quick PROVE Spec /\ [][~GivenBackUnder]_vars => []OneProcess
<1> QED
  BY AlwaysCovered, OneHolder, PTL

\* A job that keeps its lease between runs, and that no cron asks for, never gives
\* it back: no two processes run it at once, though the ticks of one may overlap
\* (the notifications of jobs.ts, every fifteen seconds).
THEOREM KeptLeasesExclude ==
    ASSUME Quick, Crons = {}, Kinds = {TRUE} PROVE Spec => []OneProcess
<1>1. Init => IInv /\ keep
  BY Fresh DEF Init
<1>2. IInv /\ keep /\ [Next]_vars => IInv' /\ keep'
  <2> SUFFICES ASSUME IInv, keep, [Next]_vars PROVE IInv' /\ keep'
    OBVIOUS
  <2>1. ~GivenBackUnder
    BY DEF IInv, TypeOK, GivenBackUnder, Release, Keeps
  <2>2. keep'
    BY DEF Next, Tick, Proceed, Take, Miss, Add, Held, Refuse, Finish, Release, Crash, Pass, vars
  <2> QED
    BY <2>1, <2>2, Step
<1> QED
  BY <1>1, <1>2, OneHolder, PTL DEF Spec

-----------------------------------------------------------------------------
(* That the screen of module Screen comes to show what the server has, for *)
(* any people, expenses and amounts: a chain of marks, each handed to the  *)
(* next, from whatever made the cache differ to the fetch that mends it.   *)

InSync == listed = server /\ shown = Balances[server]

UnderWay(e) == change[e] \in {"sent", "filed", "refused", "queued", "hidden"}

\* Something that ends in a refetch is on its way.
Pending == (\E e \in Expenses : UnderWay(e)) \/ due \/ flushed

Changes == {"untyped", "sent", "filed", "refused", "queued", "rejected", "hidden", "settled"}

ScreenTypeOK ==
    /\ change \in [Expenses -> Changes]
    /\ stale \in BOOLEAN /\ due \in BOOLEAN /\ flushed \in BOOLEAN /\ untold \in BOOLEAN
    /\ fetch.at \in {"none", "asked", "read"}
    /\ fetch = [at |-> fetch.at, got |-> fetch.got, early |-> fetch.early]
    /\ fetch.early \in BOOLEAN

\* The cache differs only while something is pending, was told to nobody, or it is
\* marked out of date; what a fetch has read, only while something is pending or a
\* flush that nobody was told of came after it.
ScreenInv ==
    /\ ScreenTypeOK
    /\ flushed => flushing # "no"
    /\ fetch.early => untold
    /\ InSync \/ stale \/ untold \/ Pending
    /\ fetch.at = "read" => fetch.got = server \/ fetch.early \/ Pending

LEMMA ScreenBegins == ScreenInit => ScreenInv
<1> SUFFICES ASSUME ScreenInit PROVE ScreenInv
  OBVIOUS
<1>1. change \in [Expenses -> Changes]
  BY DEF ScreenInit, Changes
<1>2. /\ server = Theirs /\ listed = Theirs /\ shown = Balances[Theirs]
      /\ stale = FALSE /\ due = FALSE /\ flushed = FALSE /\ untold = FALSE
      /\ fetch = [at |-> "none", got |-> {}, early |-> FALSE]
  BY DEF ScreenInit, NoFetch
<1> QED
  BY <1>1, <1>2 DEF ScreenInv, ScreenTypeOK, InSync

LEMMA NowMoves ==
    ASSUME ScreenTypeOK, NEW e \in Expenses, NEW from, NEW to \in Changes, Now(e, from, to)
    PROVE  /\ change' \in [Expenses -> Changes]
           /\ change'[e] = to /\ \A d \in Expenses \ {e} : change'[d] = change[d]
BY DEF ScreenTypeOK, Now

\* A change under way is a reason for the cache, and for what was read, to differ.
LEMMA UnderWayWill ==
    ASSUME ScreenInv, NEW e \in Expenses, NEW from, Now(e, from, "sent") \/ Now(e, from, "filed")
               \/ Now(e, from, "refused") \/ Now(e, from, "queued") \/ Now(e, from, "hidden"),
           stale' \in BOOLEAN /\ due' = due /\ flushed' = flushed /\ untold' = untold,
           flushing' = flushing, fetch' \in {fetch, NoFetch}
    PROVE  ScreenInv'
<1>1. change' \in [Expenses -> Changes] /\ UnderWay(e)'
  BY NowMoves DEF ScreenInv, Changes, UnderWay
<1>2. Pending'
  BY <1>1 DEF Pending
<1>3. ScreenTypeOK' /\ (fetch'.early => untold')
  <2>1. CASE fetch' = fetch
    BY <1>1, <2>1 DEF ScreenInv, ScreenTypeOK
  <2>2. CASE fetch' = [at |-> "none", got |-> {}, early |-> FALSE]
    BY <1>1, <2>2 DEF ScreenInv, ScreenTypeOK
  <2> QED
    BY <2>1, <2>2 DEF NoFetch
<1> QED
  BY <1>2, <1>3 DEF ScreenInv

\* Marking the cache out of date is enough.
LEMMA MarkedWill ==
    ASSUME ScreenInv, Invalidated, change' \in [Expenses -> Changes],
           untold' = untold, flushed' = flushed \/ flushed' = FALSE,
           flushed' => flushing' # "no"
    PROVE  ScreenInv'
<1>1. Pending' /\ fetch' = fetch /\ stale' = TRUE /\ due' = TRUE
  BY DEF Invalidated, Pending
<1>2. ScreenTypeOK'
  BY <1>1 DEF ScreenInv, ScreenTypeOK
<1> QED
  BY <1>1, <1>2 DEF ScreenInv

LEMMA MutationSteps ==
    ASSUME ScreenInv, NEW e \in Expenses,
           \/ Type(e) \/ Answer(e) \/ Queue(e) \/ Confirm(e) \/ Revert(e) \/ Hide(e)
           \/ RetryRejected(e)
    PROVE  ScreenInv'
<1>1. CASE Type(e)
  BY <1>1, UnderWayWill DEF Type, WrittenByHand
<1>2. CASE Answer(e)
  BY <1>2, UnderWayWill DEF Answer, fetchVars, flushVars, ScreenInv, ScreenTypeOK
<1>3. CASE Queue(e)
  BY <1>3, UnderWayWill DEF Queue, fetchVars, flushVars, ScreenInv, ScreenTypeOK
<1>4. CASE Hide(e)
  BY <1>4, UnderWayWill DEF Hide, WrittenByHand
<1>5. CASE RetryRejected(e)
  BY <1>5, UnderWayWill DEF RetryRejected, fetchVars, flushVars, ScreenInv, ScreenTypeOK
<1>6. CASE Confirm(e) \/ Revert(e)
  <2>1. change' \in [Expenses -> Changes]
    BY <1>6, NowMoves DEF Confirm, Revert, ScreenInv, Changes
  <2>2. Invalidated /\ UNCHANGED flushVars
    BY <1>6 DEF Confirm, Revert
  <2> QED
    BY <2>1, <2>2, MarkedWill DEF flushVars, ScreenInv
<1> QED
  BY <1>1, <1>2, <1>3, <1>4, <1>5, <1>6

LEMMA FlushSteps ==
    ASSUME ScreenInv,
           \/ \E who \in {"sweep", "banner"} : StartFlush(who)
           \/ \E e \in Expenses : Flush(e)
           \/ EndFlush
    PROVE  ScreenInv'
<1>1. ASSUME NEW who \in {"sweep", "banner"}, StartFlush(who) PROVE ScreenInv'
  BY <1>1 DEF StartFlush, ScreenInv, ScreenTypeOK, InSync, Pending, UnderWay, cacheVars, fetchVars
<1>2. ASSUME NEW e \in Expenses, Flush(e) PROVE ScreenInv'
  <2>1. change' \in [Expenses -> Changes]
    BY <1>2, NowMoves DEF Flush, ScreenInv, Changes
  <2>2. /\ flushed' = TRUE /\ flushing' = flushing /\ flushing # "no" /\ untold' = untold
        /\ stale' = stale /\ due' = due /\ fetch' = fetch
    BY <1>2 DEF Flush, fetchVars
  <2> QED
    BY <2>1, <2>2 DEF ScreenInv, ScreenTypeOK, Pending
<1>3. CASE EndFlush /\ IsToldOf
  <2>1. Invalidated /\ change' = change /\ untold' = untold /\ flushed' = FALSE
    BY <1>3 DEF EndFlush
  <2> QED
    BY <2>1, MarkedWill DEF ScreenInv, ScreenTypeOK
<1>4. CASE EndFlush /\ ~IsToldOf
  <2>1. /\ change' = change /\ flushed' = FALSE /\ untold' = (untold \/ flushed)
        /\ fetch' = [fetch EXCEPT !.early = @ \/ (flushed /\ fetch.at = "read")]
        /\ stale' = stale /\ due' = due /\ server' = server /\ listed' = listed /\ shown' = shown
    BY <1>4 DEF EndFlush, cacheVars
  <2>2. /\ fetch'.at = fetch.at /\ fetch'.got = fetch.got
        /\ fetch'.early = (fetch.early \/ (flushed /\ fetch.at = "read"))
        /\ fetch' = [at |-> fetch'.at, got |-> fetch'.got, early |-> fetch'.early]
    BY <2>1 DEF ScreenInv, ScreenTypeOK
  <2>3. ScreenTypeOK'
    BY <2>1, <2>2 DEF ScreenInv, ScreenTypeOK
  <2>4. Pending => Pending' \/ flushed
    BY <2>1 DEF Pending, UnderWay
  <2>5. InSync' \/ stale' \/ untold' \/ Pending'
    BY <2>1, <2>4 DEF ScreenInv, InSync
  <2>6. fetch'.at = "read" => fetch'.got = server' \/ fetch'.early \/ Pending'
    BY <2>1, <2>2, <2>4 DEF ScreenInv
  <2> QED
    BY <2>1, <2>2, <2>3, <2>5, <2>6 DEF ScreenInv
<1> QED
  BY <1>1, <1>2, <1>3, <1>4

LEMMA FetchSteps ==
    ASSUME ScreenInv, Refetch \/ Focus \/ ReadServer \/ FetchFails \/ Land PROVE ScreenInv'
<1>0. change' = change /\ server' = server /\ flushing' = flushing /\ flushed' = flushed
  BY DEF Refetch, Focus, ReadServer, FetchFails, Land, flushVars
<1>1. CASE Refetch
  <2>1. /\ stale' = TRUE /\ due' = FALSE /\ untold' = untold
        /\ fetch' = [at |-> "asked", got |-> {}, early |-> FALSE]
    BY <1>1 DEF Refetch, Anew, NoFetch, flushVars
  <2> QED
    BY <1>0, <2>1 DEF ScreenInv, ScreenTypeOK
<1>2. CASE Focus
  <2>1. /\ stale' = stale /\ due' = due /\ untold' = untold /\ listed' = listed /\ shown' = shown
        /\ fetch' = [at |-> "asked", got |-> {}, early |-> FALSE]
    BY <1>2 DEF Focus, Anew, NoFetch, flushVars, cacheVars
  <2> QED
    BY <1>0, <2>1 DEF ScreenInv, ScreenTypeOK, InSync, Pending, UnderWay
<1>3. CASE ReadServer
  <2>1. /\ stale' = stale /\ due' = due /\ untold' = untold /\ listed' = listed /\ shown' = shown
        /\ fetch' = [at |-> "read", got |-> server, early |-> fetch.early]
    BY <1>3 DEF ReadServer, ScreenInv, ScreenTypeOK, flushVars, cacheVars
  <2> QED
    BY <1>0, <2>1 DEF ScreenInv, ScreenTypeOK, InSync, Pending, UnderWay
<1>4. CASE FetchFails
  <2>1. /\ stale' = stale /\ due' = due /\ untold' = untold /\ listed' = listed /\ shown' = shown
        /\ fetch' = [at |-> "none", got |-> {}, early |-> FALSE]
    BY <1>4 DEF FetchFails, NoFetch, flushVars, cacheVars
  <2> QED
    BY <1>0, <2>1 DEF ScreenInv, ScreenTypeOK, InSync, Pending, UnderWay
<1>5. CASE Land
  <2>1. /\ fetch.at = "read" /\ listed' = fetch.got /\ shown' = Balances[fetch.got]
        /\ stale' = FALSE /\ due' = due /\ untold' = (untold /\ fetch.early)
        /\ fetch' = [at |-> "none", got |-> {}, early |-> FALSE]
    BY <1>5 DEF Land, NoFetch
  <2>2. Pending' <=> Pending
    BY <1>0, <2>1 DEF Pending, UnderWay
  <2>3. fetch.got = server => InSync'
    BY <1>0, <2>1 DEF InSync
  <2>4. fetch.early => untold'
    BY <2>1 DEF ScreenInv
  <2>5. InSync' \/ stale' \/ untold' \/ Pending'
    BY <2>1, <2>2, <2>3, <2>4 DEF ScreenInv
  <2> QED
    BY <1>0, <2>1, <2>5 DEF ScreenInv, ScreenTypeOK
<1> QED
  BY <1>1, <1>2, <1>3, <1>4, <1>5

LEMMA ScreenSteps == ScreenInv /\ [ScreenNext]_screenVars => ScreenInv'
<1> SUFFICES ASSUME ScreenInv, [ScreenNext]_screenVars PROVE ScreenInv'
  OBVIOUS
<1>1. CASE UNCHANGED screenVars
  BY <1>1 DEF screenVars, ScreenInv, ScreenTypeOK, InSync, Pending, UnderWay
<1> QED
  BY <1>1, MutationSteps, FlushSteps, FetchSteps DEF ScreenNext, Expenses

\* When nothing is on its way and nothing is marked out of date, the screen shows
\* what the server has, but for a flush that it was not told of (optimistic.ts).
THEOREM ComesToShowTheServer == ScreenSpec => []Settled
<1>1. ScreenInv => Settled
  BY DEF ScreenInv, ScreenTypeOK, Settled, Quiet, Pending, UnderWay, InSync, NoFetch
<1> QED
  BY ScreenBegins, ScreenSteps, <1>1, PTL DEF ScreenSpec

-----------------------------------------------------------------------------
(* Theorems about the phone notifications of module Push, for any runs of  *)
(* the sender, entries, phones and people, batch size and number of rows.  *)

Doings   == {"idle", "look", "claim", "pick", "send"}
Rows     == [id : Nat, phone : Phones, person : Owners \cup {NoRow}]
Requests == [at : {"off", "put", "drop"}, person : Owners \cup {NoRow}, row : Rows \cup {NoRow}]

FeedTyped ==
    /\ written \in Nat /\ outdated \subseteq Feed
    /\ pending \subseteq Feed /\ \A e \in pending : e <= written

RunsTyped ==
    /\ doing \in [Senders -> Doings]
    /\ batch \in [Senders -> SUBSET Feed]
    /\ \A r \in Senders : \A e \in batch[r] : e <= written
    /\ targets \in [Senders -> SUBSET Rows]
    /\ received \in [Feed \X Phones -> Nat]

SubsTyped ==
    /\ subs \subseteq Rows /\ turningOn \in [Phones -> Requests]
    /\ rowsEver \in Nat /\ stops \in Nat

\* No two rows are of the same phone.
OneEach(S) == \A s, t \in S : s.phone = t.phone => s = t

PhonesApart == OneEach(subs)

\* One run at a time looks at what is pending, and what it is about to claim still
\* is when it claims it.
OneLooks ==
    /\ \A q, r \in Senders :
          doing[q] \in {"look", "claim"} /\ doing[r] \in {"look", "claim"} => q = r
    /\ \A r \in Senders : doing[r] = "claim" => batch[r] \subseteq pending

\* What a run has claimed is nobody else's, ...
Sending(r) == doing[r] \in {"pick", "send"}

Apart ==
    /\ \A r \in Senders : Sending(r) => batch[r] \cap pending = {}
    /\ \A q, r \in Senders : Sending(q) /\ Sending(r) /\ q # r => batch[q] \cap batch[r] = {}

\* ... and nobody has been sent what is pending, what is yet to be written, or what
\* the run has not come to ...
Least(es) == CHOOSE e \in es : \A d \in es : e <= d

Unsent(e) == \A p \in Phones : received[<<e, p>>] = 0

NotYet ==
    /\ \A e \in Feed : e \in pending \/ e > written => Unsent(e)
    /\ \A r \in Senders : doing[r] = "pick" => \A e \in batch[r] : Unsent(e)
    /\ \A r \in Senders : doing[r] = "send" => \A e \in batch[r] \ {Least(batch[r])} : Unsent(e)

\* ... nor have the phones that are still to be sent what it is sending.
StillToSend ==
    \A r \in Senders : doing[r] = "send" =>
        /\ batch[r] # {} /\ OneEach(targets[r])
        /\ \A s \in targets[r] : received[<<Least(batch[r]), s.phone>>] = 0

PushInv ==
    /\ FeedTyped /\ RunsTyped /\ SubsTyped
    /\ PhonesApart /\ OneLooks /\ Apart /\ NotYet /\ StillToSend /\ SentOnce

-----------------------------------------------------------------------------

\* Any entries, if there are some, have an earliest one.
LEMMA LeastIsOne ==
    ASSUME NEW es \in SUBSET Feed, es # {}
    PROVE  Least(es) \in es /\ \A d \in es : Least(es) <= d
<1>1. es \subseteq Nat
  BY PushAssumption
<1>2. PICK e \in es : \A d \in es : <<d, e>> \notin OpToRel(<, Nat)
  BY <1>1, WFMin, NatLessThanWellFounded
<1>3. \A d \in es : ~(d < e)
  BY <1>1, <1>2 DEF OpToRel
<1>4. \A d \in es : e <= d
  BY <1>1, <1>3
<1> QED
  BY <1>2, <1>4 DEF Least

LEMMA NextIsLeast == \A r : NextUp(r) = Least(batch[r])
BY DEF NextUp, Least

LEMMA PushBegins == PushInit => PushInv
<1> SUFFICES ASSUME PushInit PROVE PushInv
  OBVIOUS
<1>1. FeedTyped
  BY DEF PushInit, FeedTyped
<1>2. RunsTyped
  BY DEF PushInit, RunsTyped, Doings
<1>3. SubsTyped
  BY DEF PushInit, SubsTyped, Requests, Off
<1>4. \A r \in Senders : doing[r] = "idle"
  BY DEF PushInit
<1>5. \A x \in Feed \X Phones : received[x] = 0
  BY DEF PushInit
<1>6. PhonesApart /\ OneLooks /\ Apart
  BY <1>4 DEF PushInit, PhonesApart, OneEach, OneLooks, Apart, Sending
<1>7. NotYet
  <2>1. \A e \in Feed : Unsent(e)
    BY <1>5 DEF Unsent
  <2> QED
    BY <1>4, <2>1 DEF NotYet
<1>8. StillToSend /\ SentOnce
  BY <1>4, <1>5 DEF StillToSend, SentOnce
<1> QED
  BY <1>1, <1>2, <1>3, <1>6, <1>7, <1>8 DEF PushInv

-----------------------------------------------------------------------------
(* The feed, and the phones that are turned on and off: no run moves.      *)

LEMMA RunsStay ==
    ASSUME PushInv, UNCHANGED <<pending, written, doing, batch, targets, received>>
    PROVE  RunsTyped' /\ OneLooks' /\ Apart' /\ NotYet' /\ StillToSend' /\ SentOnce'
<1>1. RunsTyped' /\ OneLooks'
  BY DEF PushInv, RunsTyped, OneLooks
<1>2. Apart'
  BY DEF PushInv, Apart, Sending
<1>3. NotYet'
  BY DEF PushInv, NotYet, Unsent
<1>4. StillToSend' /\ SentOnce'
  BY DEF PushInv, StillToSend, SentOnce
<1> QED
  BY <1>1, <1>2, <1>3, <1>4

LEMMA WriteStep == PushInv /\ Write => PushInv'
<1> SUFFICES ASSUME PushInv, Write PROVE PushInv'
  OBVIOUS
<1>1. /\ written' = written + 1 /\ pending' = pending \cup {written + 1} /\ written + 1 \in Feed
      /\ UNCHANGED <<outdated, doing, batch, targets, received, subs, turningOn, rowsEver, stops>>
  BY DEF Write, runVars, subVars
<1>2. written \in Nat /\ Feed \subseteq Nat
  BY PushAssumption DEF PushInv, FeedTyped
<1>3. FeedTyped'
  <2>1. \A e \in pending : e \in Nat /\ e <= written
    BY <1>2 DEF PushInv, FeedTyped
  <2>2. \A e \in pending' : e <= written'
    BY <1>1, <1>2, <2>1
  <2> QED
    BY <1>1, <1>2, <2>2 DEF PushInv, FeedTyped
<1>4. \A r \in Senders : \A e \in batch[r] : e \in Nat /\ e <= written
  BY <1>2 DEF PushInv, RunsTyped
<1>5. RunsTyped'
  <2>1. \A r \in Senders : \A e \in batch'[r] : e <= written'
    BY <1>1, <1>2, <1>4
  <2> QED
    BY <1>1, <2>1 DEF PushInv, RunsTyped
<1>6. SubsTyped' /\ PhonesApart'
  BY <1>1 DEF PushInv, SubsTyped, PhonesApart
<1>7. OneLooks'
  BY <1>1 DEF PushInv, OneLooks
<1>8. Apart'
  <2>1. \A r \in Senders : written + 1 \notin batch[r]
    BY <1>2, <1>4
  <2> QED
    BY <1>1, <2>1 DEF PushInv, Apart, Sending
<1>9. NotYet'
  <2>1. \A e \in Feed : e \in pending' \/ e > written' => e \in pending \/ e > written
    BY <1>1, <1>2
  <2> QED
    BY <1>1, <2>1 DEF PushInv, NotYet, Unsent
<1>10. StillToSend' /\ SentOnce'
  BY <1>1 DEF PushInv, StillToSend, SentOnce
<1> QED
  BY <1>3, <1>5, <1>6, <1>7, <1>8, <1>9, <1>10 DEF PushInv

LEMMA AgeStep == PushInv /\ Age => PushInv'
<1> SUFFICES ASSUME PushInv, Age PROVE PushInv'
  OBVIOUS
<1>1. /\ outdated' \subseteq Feed
      /\ UNCHANGED <<pending, written, doing, batch, targets, received, subs, turningOn, rowsEver, stops>>
  BY DEF Age, runVars, subVars
<1>2. FeedTyped' /\ SubsTyped' /\ PhonesApart'
  BY <1>1 DEF PushInv, FeedTyped, SubsTyped, PhonesApart
<1> QED
  BY <1>1, <1>2, RunsStay DEF PushInv

\* What is left to show of a step of the phones.
LEMMA PhoneStep ==
    ASSUME PushInv, UNCHANGED <<pending, written, outdated, doing, batch, targets, received>>,
           SubsTyped', PhonesApart'
    PROVE  PushInv'
<1>1. FeedTyped'
  BY DEF PushInv, FeedTyped
<1> QED
  BY <1>1, RunsStay DEF PushInv

LEMMA TurnOnStep == ASSUME PushInv, NEW p \in Phones, TurnOn(p) PROVE PushInv'
<1>1. UNCHANGED <<pending, written, outdated, doing, batch, targets, received, subs, rowsEver, stops>>
  BY DEF TurnOn, feedVars, runVars
<1>2. PICK person \in Owners, row \in subs \cup {NoRow} :
         turningOn' = [turningOn EXCEPT ![p] =
               [at |-> IF row = NoRow THEN "put" ELSE "drop", person |-> person, row |-> row]]
  BY DEF TurnOn, Of
<1>3. turningOn' \in [Phones -> Requests]
  BY <1>2 DEF PushInv, SubsTyped, Requests
<1> QED
  BY <1>1, <1>3, PhoneStep DEF PushInv, SubsTyped, PhonesApart

LEMMA DropOldestStep == ASSUME PushInv, NEW p \in Phones, DropOldest(p) PROVE PushInv'
<1>1. UNCHANGED <<pending, written, outdated, doing, batch, targets, received, rowsEver, stops>>
  BY DEF DropOldest, feedVars, runVars
<1>2. subs' \subseteq subs
  BY DEF DropOldest
<1>3. turningOn[p] \in Requests
  BY DEF PushInv, SubsTyped
<1>4. [turningOn[p] EXCEPT !.at = "put"] \in Requests /\ Off \in Requests
  BY <1>3 DEF Requests, Off
<1>5. turningOn' = [turningOn EXCEPT ![p] = Off]
      \/ turningOn' = [turningOn EXCEPT ![p] = [turningOn[p] EXCEPT !.at = "put"]]
  BY DEF DropOldest
<1>6. turningOn' \in [Phones -> Requests]
  BY <1>4, <1>5 DEF PushInv, SubsTyped
<1> QED
  BY <1>1, <1>2, <1>6, PhoneStep DEF PushInv, SubsTyped, PhonesApart, OneEach

LEMMA PutStep == ASSUME PushInv, NEW p \in Phones, Put(p) PROVE PushInv'
<1>1. /\ UNCHANGED <<pending, written, outdated, doing, batch, targets, received, stops>>
      /\ rowsEver' = rowsEver + 1 /\ turningOn' = [turningOn EXCEPT ![p] = Off]
      /\ subs' = Upserted(p, turningOn[p].person)
  BY DEF Put, feedVars, runVars
<1>2. PICK person \in Owners \cup {NoRow} : person = turningOn[p].person
  BY DEF PushInv, SubsTyped, Requests
<1>3. Off \in Requests /\ turningOn' \in [Phones -> Requests]
  BY <1>1 DEF PushInv, SubsTyped, Requests, Off
<1>4. rowsEver' \in Nat
  BY <1>1 DEF PushInv, SubsTyped
<1>5. CASE \E s \in subs : s.phone = p
  <2> DEFINE Got(s) == IF s.phone = p THEN [s EXCEPT !.person = person] ELSE s
  <2>1. subs' = {Got(s) : s \in subs}
    BY <1>1, <1>2, <1>5 DEF Upserted
  <2>2. \A s \in subs : Got(s) \in Rows /\ Got(s).phone = s.phone
    BY DEF PushInv, SubsTyped, Rows
  <2> HIDE DEF Got
  <2>3. subs' \subseteq Rows /\ OneEach(subs')
    BY <2>1, <2>2 DEF PushInv, PhonesApart, OneEach
  <2> QED
    BY <1>1, <1>3, <1>4, <2>3, PhoneStep DEF PushInv, SubsTyped, PhonesApart, OneEach
<1>6. CASE ~ \E s \in subs : s.phone = p
  <2> DEFINE new == [id |-> rowsEver, phone |-> p, person |-> person]
  <2>1. subs' = subs \cup {new}
    BY <1>1, <1>2, <1>6 DEF Upserted
  <2>2. new \in Rows /\ new.phone = p
    BY DEF PushInv, SubsTyped, Rows
  <2> HIDE DEF new
  <2>3. subs' \subseteq Rows /\ OneEach(subs')
    BY <1>6, <2>1, <2>2 DEF PushInv, SubsTyped, PhonesApart, OneEach
  <2> QED
    BY <1>1, <1>3, <1>4, <2>3, PhoneStep DEF PushInv, SubsTyped, PhonesApart, OneEach
<1> QED
  BY <1>5, <1>6

LEMMA TurnOffStep == ASSUME PushInv, NEW p \in Phones, TurnOff(p) PROVE PushInv'
<1>1. UNCHANGED <<pending, written, outdated, doing, batch, targets, received, turningOn, rowsEver, stops>>
  BY DEF TurnOff, feedVars, runVars
<1>2. subs' \subseteq subs
  BY DEF TurnOff
<1> QED
  BY <1>1, <1>2, PhoneStep DEF PushInv, SubsTyped, PhonesApart, OneEach

-----------------------------------------------------------------------------
(* The runs of the sender.                                                 *)

\* Where the runs are once one of them has gone on.
LEMMA GoesOn ==
    ASSUME RunsTyped, NEW r \in Senders, NEW from, NEW to \in Doings, Proceeds(r, from, to)
    PROVE  /\ doing' \in [Senders -> Doings]
           /\ doing[r] = from /\ doing'[r] = to /\ \A q \in Senders \ {r} : doing'[q] = doing[q]
BY DEF RunsTyped, Proceeds

LEMMA SubsStay ==
    ASSUME PushInv, UNCHANGED <<subs, turningOn, rowsEver, stops>>
    PROVE  SubsTyped' /\ PhonesApart'
BY DEF PushInv, SubsTyped, PhonesApart

LEMMA ExpireStep == ASSUME PushInv, NEW r \in Senders, Expire(r) PROVE PushInv'
<1>1. /\ UNCHANGED <<written, outdated, batch, targets, received, subs, turningOn, rowsEver, stops>>
      /\ pending' \subseteq pending /\ Proceeds(r, "idle", "look")
      /\ \A q \in Senders : doing[q] \in {"idle", "pick", "send"}
  BY DEF Expire, subVars
<1>2. /\ doing' \in [Senders -> Doings]
      /\ doing[r] = "idle" /\ doing'[r] = "look" /\ \A q \in Senders \ {r} : doing'[q] = doing[q]
  BY <1>1, GoesOn DEF PushInv, Doings
<1>3. FeedTyped' /\ RunsTyped' /\ SubsTyped' /\ PhonesApart'
  BY <1>1, <1>2, SubsStay DEF PushInv, FeedTyped, RunsTyped
<1>4. OneLooks'
  BY <1>1, <1>2 DEF OneLooks
<1>5. Apart'
  BY <1>1, <1>2 DEF PushInv, Apart, Sending
<1>6. NotYet'
  BY <1>1, <1>2 DEF PushInv, NotYet, Unsent
<1>7. StillToSend' /\ SentOnce'
  BY <1>1, <1>2 DEF PushInv, StillToSend, SentOnce
<1> QED
  BY <1>3, <1>4, <1>5, <1>6, <1>7 DEF PushInv

LEMMA LookStep == ASSUME PushInv, NEW r \in Senders, Look(r) PROVE PushInv'
<1>1. /\ UNCHANGED <<pending, written, outdated, targets, received, subs, turningOn, rowsEver, stops>>
      /\ batch' = [batch EXCEPT ![r] = Earliest(pending, Batch)]
      /\ Proceeds(r, "look", IF pending = {} THEN "idle" ELSE "claim")
  BY DEF Look, feedVars, subVars
<1>2. PICK to \in {"idle", "claim"} : Proceeds(r, "look", to)
  BY <1>1
<1>3. /\ doing' \in [Senders -> Doings]
      /\ doing[r] = "look" /\ doing'[r] = to /\ \A q \in Senders \ {r} : doing'[q] = doing[q]
  BY <1>2, GoesOn DEF PushInv, Doings
<1>4. /\ batch'[r] \subseteq pending /\ \A q \in Senders \ {r} : batch'[q] = batch[q]
      /\ batch' \in [Senders -> SUBSET Feed]
  <2>1. Earliest(pending, Batch) \subseteq pending /\ pending \subseteq Feed
    BY DEF Earliest, PushInv, FeedTyped
  <2> QED
    BY <1>1, <2>1 DEF PushInv, RunsTyped
<1>5. FeedTyped' /\ SubsTyped' /\ PhonesApart'
  BY <1>1, SubsStay DEF PushInv, FeedTyped
<1>6. RunsTyped'
  <2>1. \A q \in Senders : \A e \in batch'[q] : e <= written'
    BY <1>1, <1>4 DEF PushInv, FeedTyped, RunsTyped
  <2> QED
    BY <1>1, <1>3, <1>4, <2>1 DEF PushInv, RunsTyped
<1>7. OneLooks'
  BY <1>1, <1>3, <1>4 DEF PushInv, OneLooks
<1>8. Apart'
  BY <1>1, <1>3, <1>4 DEF PushInv, Apart, Sending
<1>9. NotYet'
  <2>1. \A e \in Feed : e \in pending' \/ e > written' => Unsent(e)'
    BY <1>1 DEF PushInv, NotYet, Unsent
  <2>2. \A e \in Feed : Unsent(e) => Unsent(e)'
    BY <1>1 DEF Unsent
  <2>3. ASSUME NEW q \in Senders, doing'[q] = "pick", NEW e \in batch'[q] PROVE Unsent(e)'
    <3>1. q # r /\ doing[q] = "pick" /\ e \in batch[q] /\ e \in Feed
      BY <1>3, <1>4, <2>3
    <3> QED
      BY <2>2, <3>1 DEF PushInv, NotYet
  <2>4. ASSUME NEW q \in Senders, doing'[q] = "send", NEW e \in batch'[q] \ {Least(batch'[q])}
        PROVE  Unsent(e)'
    <3>1. q # r /\ doing[q] = "send" /\ e \in batch[q] \ {Least(batch[q])} /\ e \in Feed
      BY <1>3, <1>4, <2>4
    <3> QED
      BY <2>2, <3>1 DEF PushInv, NotYet
  <2> QED
    BY <2>1, <2>3, <2>4 DEF NotYet
<1>10. StillToSend' /\ SentOnce'
  BY <1>1, <1>3, <1>4 DEF PushInv, StillToSend, SentOnce
<1> QED
  BY <1>5, <1>6, <1>7, <1>8, <1>9, <1>10 DEF PushInv

LEMMA MarkNotifiedStep == ASSUME PushInv, NEW r \in Senders, MarkNotified(r) PROVE PushInv'
<1>1. /\ UNCHANGED <<written, outdated, batch, targets, received, subs, turningOn, rowsEver, stops>>
      /\ pending' = pending \ batch[r] /\ Proceeds(r, "claim", "pick")
  BY DEF MarkNotified, Claimed, subVars
<1>2. /\ doing' \in [Senders -> Doings]
      /\ doing[r] = "claim" /\ doing'[r] = "pick" /\ \A q \in Senders \ {r} : doing'[q] = doing[q]
  BY <1>1, GoesOn DEF PushInv, Doings
<1>3. FeedTyped' /\ RunsTyped' /\ SubsTyped' /\ PhonesApart'
  BY <1>1, <1>2, SubsStay DEF PushInv, FeedTyped, RunsTyped
<1>4. batch[r] \subseteq pending /\ batch[r] \subseteq Feed
  BY <1>2 DEF PushInv, OneLooks, RunsTyped
<1>5. \A q \in Senders \ {r} : doing[q] \notin {"look", "claim"}
  BY <1>2 DEF PushInv, OneLooks
<1>6. OneLooks'
  BY <1>1, <1>2, <1>5 DEF OneLooks
<1>7. Apart'
  <2>1. \A q \in Senders \ {r} : Sending(q) => batch[q] \cap batch[r] = {}
    BY <1>4 DEF PushInv, Apart
  <2> QED
    BY <1>1, <1>2, <2>1 DEF PushInv, Apart, Sending
<1>8. NotYet'
  <2>1. \A e \in batch[r] : Unsent(e)
    BY <1>4 DEF PushInv, NotYet
  <2> QED
    BY <1>1, <1>2, <2>1 DEF PushInv, NotYet, Unsent
<1>9. StillToSend' /\ SentOnce'
  BY <1>1, <1>2 DEF PushInv, StillToSend, SentOnce
<1> QED
  BY <1>3, <1>6, <1>7, <1>8, <1>9 DEF PushInv

LEMMA PickStep == ASSUME PushInv, NEW r \in Senders, Pick(r) PROVE PushInv'
<1>1. /\ UNCHANGED <<pending, written, outdated, batch, received, subs, turningOn, rowsEver, stops>>
      /\ Proceeds(r, "pick", "send") /\ batch[r] # {}
      /\ targets' = [targets EXCEPT ![r] = {s \in subs : s.person \in Recipients(NextUp(r))}]
  BY DEF Pick, feedVars, subVars
<1>2. /\ doing' \in [Senders -> Doings]
      /\ doing[r] = "pick" /\ doing'[r] = "send" /\ \A q \in Senders \ {r} : doing'[q] = doing[q]
  BY <1>1, GoesOn DEF PushInv, Doings
<1>3. /\ targets'[r] \subseteq subs /\ \A q \in Senders \ {r} : targets'[q] = targets[q]
      /\ targets' \in [Senders -> SUBSET Rows]
  BY <1>1 DEF PushInv, RunsTyped, SubsTyped
<1>4. FeedTyped' /\ RunsTyped' /\ SubsTyped' /\ PhonesApart'
  BY <1>1, <1>2, <1>3, SubsStay DEF PushInv, FeedTyped, RunsTyped
<1>5. OneLooks' /\ Apart' /\ SentOnce'
  BY <1>1, <1>2 DEF PushInv, OneLooks, Apart, Sending, SentOnce
<1>6. NotYet'
  BY <1>1, <1>2 DEF PushInv, NotYet, Unsent
<1>7. StillToSend'
  <2>1. Least(batch[r]) \in batch[r]
    BY <1>1, LeastIsOne DEF PushInv, RunsTyped
  <2>2. Unsent(Least(batch[r]))
    BY <1>2, <2>1 DEF PushInv, NotYet
  <2>3. OneEach(targets'[r]) /\ \A s \in targets'[r] : s.phone \in Phones
    BY <1>3 DEF PushInv, PhonesApart, OneEach, SubsTyped, Rows
  <2>4. \A s \in targets'[r] : received[<<Least(batch[r]), s.phone>>] = 0
    BY <2>2, <2>3 DEF Unsent
  <2> QED
    BY <1>1, <1>2, <1>3, <2>3, <2>4 DEF PushInv, StillToSend
<1> QED
  BY <1>4, <1>5, <1>6, <1>7 DEF PushInv

LEMMA DeliverStep == ASSUME PushInv, NEW r \in Senders, Deliver(r) PROVE PushInv'
<1>1. PICK s \in targets[r], arrived \in BOOLEAN :
         /\ doing[r] = "send"
         /\ targets' = [targets EXCEPT ![r] = @ \ {s}]
         /\ received' = IF arrived THEN [received EXCEPT ![<<NextUp(r), s.phone>>] = @ + 1]
                        ELSE received
         /\ subs' \subseteq subs
         /\ UNCHANGED <<pending, written, outdated, doing, batch, turningOn, rowsEver, stops>>
  BY DEF Deliver, feedVars
<1>2. PICK n \in batch[r] : n = Least(batch[r])
  BY <1>1, LeastIsOne DEF PushInv, RunsTyped, StillToSend
<1>3. PICK p \in Phones : p = s.phone
  BY <1>1 DEF PushInv, RunsTyped, Rows
<1>4. /\ received' \in [Feed \X Phones -> Nat]
      /\ received'[<<n, p>>] <= 1
      /\ \A x \in (Feed \X Phones) \ {<<n, p>>} : received'[x] = received[x]
  <2>1. <<n, p>> \in Feed \X Phones /\ received[<<n, p>>] = 0
    BY <1>1, <1>2, <1>3 DEF PushInv, RunsTyped, StillToSend
  <2>2. received' = IF arrived THEN [received EXCEPT ![<<n, p>>] = @ + 1] ELSE received
    BY <1>1, <1>2, <1>3, NextIsLeast
  <2> QED
    BY <2>1, <2>2 DEF PushInv, RunsTyped
<1>5. /\ targets'[r] = targets[r] \ {s} /\ \A q \in Senders \ {r} : targets'[q] = targets[q]
      /\ targets' \in [Senders -> SUBSET Rows]
  BY <1>1 DEF PushInv, RunsTyped
<1>6. FeedTyped' /\ RunsTyped' /\ SubsTyped' /\ PhonesApart'
  BY <1>1, <1>4, <1>5 DEF PushInv, FeedTyped, RunsTyped, SubsTyped, PhonesApart, OneEach
<1>7. OneLooks' /\ Apart'
  BY <1>1 DEF PushInv, OneLooks, Apart, Sending
<1>8. SentOnce'
  BY <1>4 DEF PushInv, SentOnce
<1>9. ASSUME NEW e \in Feed \ {n}, Unsent(e) PROVE Unsent(e)'
  BY <1>4, <1>9 DEF Unsent
<1>10. n \in Feed /\ n \notin pending /\ n <= written /\ n \in Nat /\ written \in Nat
  BY <1>1, <1>2, PushAssumption DEF PushInv, RunsTyped, FeedTyped, Apart, Sending
<1>11. \A q \in Senders \ {r} : Sending(q) => n \notin batch[q]
  BY <1>1, <1>2 DEF PushInv, Apart, Sending
<1>12. NotYet'
  <2>1. \A e \in Feed : e \in pending' \/ e > written' => Unsent(e)'
    BY <1>1, <1>9, <1>10 DEF PushInv, NotYet
  <2>2. ASSUME NEW q \in Senders, doing'[q] = "pick", NEW e \in batch'[q] PROVE Unsent(e)'
    <3>1. doing[q] = "pick" /\ e \in batch[q] /\ q # r /\ e \in Feed
      BY <1>1, <2>2 DEF PushInv, RunsTyped
    <3>2. Unsent(e) /\ e # n
      BY <1>11, <3>1 DEF PushInv, NotYet, Sending
    <3> QED
      BY <1>9, <3>1, <3>2
  <2>3. ASSUME NEW q \in Senders, doing'[q] = "send", NEW e \in batch'[q] \ {Least(batch'[q])}
        PROVE  Unsent(e)'
    <3>1. doing[q] = "send" /\ e \in batch[q] \ {Least(batch[q])} /\ e \in Feed
      BY <1>1, <2>3 DEF PushInv, RunsTyped
    <3>2. Unsent(e)
      BY <3>1 DEF PushInv, NotYet
    <3>3. e # n
      BY <1>2, <1>11, <3>1 DEF Sending
    <3> QED
      BY <1>9, <3>1, <3>2, <3>3
  <2> QED
    BY <2>1, <2>2, <2>3 DEF NotYet
<1>13. StillToSend'
  <2> SUFFICES ASSUME NEW q \in Senders, doing'[q] = "send"
               PROVE  /\ batch'[q] # {} /\ OneEach(targets'[q])
                      /\ \A t \in targets'[q] : received'[<<Least(batch'[q]), t.phone>>] = 0
    BY DEF StillToSend, OneEach
  <2>1. /\ doing[q] = "send" /\ batch'[q] = batch[q] /\ targets'[q] \subseteq targets[q]
        /\ batch[q] # {} /\ batch[q] \subseteq Feed
    BY <1>1, <1>5 DEF PushInv, StillToSend, RunsTyped
  <2>2. /\ OneEach(targets[q])
        /\ \A t \in targets[q] : received[<<Least(batch[q]), t.phone>>] = 0 /\ t.phone \in Phones
    BY <2>1 DEF PushInv, StillToSend, RunsTyped, Rows
  <2>3. Least(batch[q]) \in batch[q]
    BY <2>1, LeastIsOne
  <2>4. ASSUME NEW t \in targets'[q] PROVE received'[<<Least(batch[q]), t.phone>>] = 0
    <3>1. <<Least(batch[q]), t.phone>> \in Feed \X Phones
      BY <2>1, <2>2, <2>3
    <3>2. CASE q = r
      <4>1. t.phone # p
        BY <1>3, <1>5, <2>1, <2>2, <3>2 DEF OneEach
      <4> QED
        BY <1>4, <2>1, <2>2, <3>1, <4>1
    <3>3. CASE q # r
      <4>1. Least(batch[q]) # n
        BY <1>11, <2>1, <2>3, <3>3 DEF Sending
      <4> QED
        BY <1>4, <2>1, <2>2, <3>1, <4>1
    <3> QED
      BY <3>2, <3>3
  <2> QED
    BY <2>1, <2>2, <2>4 DEF OneEach
<1> QED
  BY <1>6, <1>7, <1>8, <1>12, <1>13 DEF PushInv

LEMMA NextEntryStep == ASSUME PushInv, NEW r \in Senders, NextEntry(r) PROVE PushInv'
<1>1. /\ UNCHANGED <<pending, written, outdated, targets, received, subs, turningOn, rowsEver, stops>>
      /\ batch' = [batch EXCEPT ![r] = batch[r] \ {Least(batch[r])}] /\ Proceeds(r, "send", "pick")
  BY NextIsLeast DEF NextEntry, feedVars, subVars
<1>2. /\ doing' \in [Senders -> Doings]
      /\ doing[r] = "send" /\ doing'[r] = "pick" /\ \A q \in Senders \ {r} : doing'[q] = doing[q]
  BY <1>1, GoesOn DEF PushInv, Doings
<1>3. /\ batch'[r] = batch[r] \ {Least(batch[r])} /\ \A q \in Senders \ {r} : batch'[q] = batch[q]
      /\ batch' \in [Senders -> SUBSET Feed]
  BY <1>1 DEF PushInv, RunsTyped
<1>4. FeedTyped' /\ RunsTyped' /\ SubsTyped' /\ PhonesApart'
  BY <1>1, <1>2, <1>3, SubsStay DEF PushInv, FeedTyped, RunsTyped
<1>5. OneLooks'
  BY <1>1, <1>2, <1>3 DEF PushInv, OneLooks
<1>6. Apart'
  BY <1>1, <1>2, <1>3 DEF PushInv, Apart, Sending
<1>7. NotYet'
  <2>1. \A e \in Feed : e \in pending' \/ e > written' => Unsent(e)'
    BY <1>1 DEF PushInv, NotYet, Unsent
  <2>2. \A e \in Feed : Unsent(e) => Unsent(e)'
    BY <1>1 DEF Unsent
  <2>3. ASSUME NEW q \in Senders, doing'[q] = "pick", NEW e \in batch'[q] PROVE Unsent(e)'
    <3>1. CASE q = r
      <4>1. e \in batch[r] \ {Least(batch[r])} /\ e \in Feed
        BY <1>3, <2>3, <3>1
      <4> QED
        BY <1>2, <2>2, <4>1 DEF PushInv, NotYet
    <3>2. CASE q # r
      <4>1. doing[q] = "pick" /\ e \in batch[q] /\ e \in Feed
        BY <1>2, <1>3, <2>3, <3>2
      <4> QED
        BY <2>2, <4>1 DEF PushInv, NotYet
    <3> QED
      BY <3>1, <3>2
  <2>4. ASSUME NEW q \in Senders, doing'[q] = "send", NEW e \in batch'[q] \ {Least(batch'[q])}
        PROVE  Unsent(e)'
    <3>1. q # r /\ doing[q] = "send" /\ e \in batch[q] \ {Least(batch[q])} /\ e \in Feed
      BY <1>2, <1>3, <2>4
    <3> QED
      BY <2>2, <3>1 DEF PushInv, NotYet
  <2> QED
    BY <2>1, <2>3, <2>4 DEF NotYet
<1>8. StillToSend' /\ SentOnce'
  BY <1>1, <1>2, <1>3 DEF PushInv, StillToSend, SentOnce
<1> QED
  BY <1>4, <1>5, <1>6, <1>7, <1>8 DEF PushInv

LEMMA FinishRunStep == ASSUME PushInv, NEW r \in Senders, FinishRun(r) PROVE PushInv'
<1>1. /\ UNCHANGED <<pending, written, outdated, batch, targets, received, subs, turningOn,
                     rowsEver, stops>>
      /\ Proceeds(r, "pick", "idle")
  BY DEF FinishRun, feedVars, subVars
<1>2. /\ doing' \in [Senders -> Doings]
      /\ doing[r] = "pick" /\ doing'[r] = "idle" /\ \A q \in Senders \ {r} : doing'[q] = doing[q]
  BY <1>1, GoesOn DEF PushInv, Doings
<1>3. FeedTyped' /\ RunsTyped' /\ SubsTyped' /\ PhonesApart'
  BY <1>1, <1>2, SubsStay DEF PushInv, FeedTyped, RunsTyped
<1>4. OneLooks' /\ Apart'
  BY <1>1, <1>2 DEF PushInv, OneLooks, Apart, Sending
<1>5. NotYet'
  BY <1>1, <1>2 DEF PushInv, NotYet, Unsent
<1>6. StillToSend' /\ SentOnce'
  BY <1>1, <1>2 DEF PushInv, StillToSend, SentOnce
<1> QED
  BY <1>3, <1>4, <1>5, <1>6 DEF PushInv

LEMMA StopStep == PushInv /\ Stop => PushInv'
<1> SUFFICES ASSUME PushInv, Stop PROVE PushInv'
  OBVIOUS
<1>1. /\ UNCHANGED <<pending, written, outdated, received, subs, rowsEver>>
      /\ doing' = [r \in Senders |-> "idle"] /\ batch' = [r \in Senders |-> {}]
      /\ targets' = [r \in Senders |-> {}] /\ turningOn' = [p \in Phones |-> Off]
      /\ stops' = stops + 1
  BY DEF Stop, feedVars
<1>2. \A r \in Senders : doing'[r] = "idle" /\ batch'[r] = {}
  BY <1>1
<1>3. FeedTyped' /\ RunsTyped'
  BY <1>1 DEF PushInv, FeedTyped, RunsTyped, Doings
<1>4. SubsTyped' /\ PhonesApart'
  BY <1>1 DEF PushInv, SubsTyped, PhonesApart, Requests, Off
<1>5. OneLooks' /\ Apart'
  BY <1>2 DEF OneLooks, Apart, Sending
<1>6. NotYet'
  BY <1>1, <1>2 DEF PushInv, NotYet, Unsent
<1>7. StillToSend' /\ SentOnce'
  BY <1>1, <1>2 DEF PushInv, StillToSend, SentOnce
<1> QED
  BY <1>3, <1>4, <1>5, <1>6, <1>7 DEF PushInv

-----------------------------------------------------------------------------

LEMMA PushStep == PushInv /\ [PushNext]_pushVars => PushInv'
<1> SUFFICES ASSUME PushInv, [PushNext]_pushVars PROVE PushInv'
  OBVIOUS
<1>1. CASE UNCHANGED pushVars
  <2>1. SubsTyped' /\ PhonesApart'
    BY <1>1, SubsStay DEF pushVars
  <2> QED
    BY <1>1, <2>1, PhoneStep DEF pushVars
<1>2. CASE Write \/ Age \/ Stop
  BY <1>2, WriteStep, AgeStep, StopStep
<1>3. ASSUME NEW r \in Senders,
             \/ Expire(r) \/ Look(r) \/ MarkNotified(r) \/ Pick(r)
             \/ Deliver(r) \/ NextEntry(r) \/ FinishRun(r)
      PROVE  PushInv'
  BY <1>3, ExpireStep, LookStep, MarkNotifiedStep, PickStep, DeliverStep, NextEntryStep, FinishRunStep
<1>4. ASSUME NEW p \in Phones, TurnOn(p) \/ DropOldest(p) \/ Put(p) \/ TurnOff(p) PROVE PushInv'
  BY <1>4, TurnOnStep, DropOldestStep, PutStep, TurnOffStep
<1> QED
  BY <1>1, <1>2, <1>3, <1>4 DEF PushNext

LEMMA PushInvariant == PushSpec => []PushInv
BY PushBegins, PushStep, PTL DEF PushSpec

\* One phone has one row (PushSubscription.endpoint is unique), whatever is turned on,
\* off, dropped for being refused or for being the oldest.
THEOREM OneRowEach == PushSpec => []PhonesApart
<1>1. PushInv => PhonesApart
  BY DEF PushInv
<1> QED
  BY <1>1, PushInvariant, PTL

\* sendPendingNotifications() never sends a phone an entry twice: it claims before it
\* sends, and overlapping runs, restarts and phones that change hands do not undo that.
THEOREM NobodyTwice == PushSpec => []SentOnce
<1>1. PushInv => SentOnce
  BY DEF PushInv
<1> QED
  BY <1>1, PushInvariant, PTL

-----------------------------------------------------------------------------
(* That whoever has been refused stays refused, for any callers, any size  *)
(* of the Map and any allowance.                                           *)

Windows == [key : Callers, count : Nat, resetAt : Int, blocked : BOOLEAN]

\* What holds of what one pass has kept of the first i windows.
PassedOver(ws, going, out, i) ==
    /\ \A p \in DOMAIN out : \E j \in 1..i : out[p] = ws[j]
    /\ \A j \in 1..i : j \notin going => \E p \in DOMAIN out : out[p] = ws[j]

\* A pass keeps what it is not to take, and brings in nothing.
LEMMA OnePassKeeps ==
    ASSUME NEW W, NEW ws \in Seq(W), NEW going
    PROVE  /\ OnePass(ws, going) \in Seq(W)
           /\ PassedOver(ws, going, OnePass(ws, going), Len(ws))
<1> DEFINE n == Len(ws)
           V == Seq(W)
           Next1(i, v) == IF i \in going /\ ~FewEnough(Len(v) + n - (i - 1)) THEN v ELSE Append(v, ws[i])
           Passes(f) == f = [i \in 0..n |->
                             IF i = 0 THEN <<>>
                             ELSE IF i \in going /\ ~FewEnough(Len(f[i - 1]) + n - (i - 1))
                             THEN f[i - 1] ELSE Append(f[i - 1], ws[i])]
           h == [i \in Nat |-> [v \in V |-> IF i \in 1..n THEN Next1(i, v) ELSE v]]
           none == <<>>
<1>1. n \in Nat /\ \A i \in 1..n : ws[i] \in W
  BY SMT
<1>2. none \in V
  OBVIOUS
<1>3. \A i \in 1..n : \A v \in V : Next1(i, v) \in V
  BY <1>1
<1> HIDE DEF n, V, Next1, none
<1>4. h \in [Nat -> [V -> V]]
  BY <1>3
<1>5. \A i \in 1..n : \A v \in V : h[i][v] = Next1(i, v)
  BY <1>1
<1> HIDE DEF h
<1>6. PICK f : Begun(V, none, h, n, f)
  BY <1>1, <1>2, <1>4, BegunExists
<1>7. f \in [0..n -> V] /\ f[0] = none /\ \A i \in 1..n : f[i] = h[i][f[i - 1]]
  BY <1>6 DEF Begun
<1>8. \A i \in 1..n : f[i - 1] \in V /\ f[i] = Next1(i, f[i - 1])
  <2> TAKE i \in 1..n
  <2>1. i - 1 \in 0..n
    BY <1>1
  <2>2. f[i - 1] \in V
    BY <1>7, <2>1
  <2> QED
    BY <1>5, <1>7, <2>2
<1>9. Passes(f)
  <2>1. f = [i \in 0..n |-> f[i]]
    BY <1>7
  <2>2. ASSUME NEW i \in 0..n
        PROVE  f[i] = IF i = 0 THEN <<>>
                      ELSE IF i \in going /\ ~FewEnough(Len(f[i - 1]) + n - (i - 1))
                      THEN f[i - 1] ELSE Append(f[i - 1], ws[i])
    <3>1. CASE i = 0
      BY <1>7, <3>1 DEF none
    <3>2. CASE i # 0
      <4>1. i \in 1..n
        BY <1>1, <3>2
      <4> QED
        BY <1>8, <3>2, <4>1 DEF Next1
    <3> QED
      BY <3>1, <3>2
  <2> QED
    BY <2>1, <2>2
<1> DEFINE g == CHOOSE k : Passes(k)
<1>10. OnePass(ws, going) = g[n]
  BY DEF OnePass, n
<1>11. Passes(g)
  BY <1>9
<1> HIDE DEF g
<1>12. g[0] = none /\ \A i \in 1..n : g[i] = Next1(i, g[i - 1])
  <2>1. \A i \in 0..n : g[i] = IF i = 0 THEN <<>>
                      ELSE IF i \in going /\ ~FewEnough(Len(g[i - 1]) + n - (i - 1))
                      THEN g[i - 1] ELSE Append(g[i - 1], ws[i])
    BY <1>11
  <2>2. 0 \in 0..n /\ \A i \in 1..n : i \in 0..n /\ i # 0
    BY <1>1
  <2> QED
    BY <2>1, <2>2 DEF none, Next1
<1> HIDE DEF Passes
<1> DEFINE B == {i \in Nat : i <= n => g[i] \in V /\ PassedOver(ws, going, g[i], i)}
<1>13. 0 \in B
  <2>1. PassedOver(ws, going, <<>>, 0)
    BY DEF PassedOver
  <2> QED
    BY <1>2, <1>12, <2>1 DEF none
<1>14. ASSUME NEW i \in B PROVE i + 1 \in B
  <2> SUFFICES ASSUME i + 1 <= n PROVE g[i + 1] \in V /\ PassedOver(ws, going, g[i + 1], i + 1)
    OBVIOUS
  <2>1. i \in Nat /\ i + 1 \in 1..n /\ (i + 1) - 1 = i /\ i <= n
    BY <1>1
  <2> DEFINE v == g[i]
             j == i + 1
             out == g[j]
  <2>2. v \in V /\ PassedOver(ws, going, v, i)
    BY <2>1
  <2>3. out = Next1(j, v)
    BY <1>12, <2>1
  <2>4. j \in 1..n /\ 1..j = 1..i \cup {j} /\ j \notin 1..i
    BY <2>1
  <2> HIDE DEF v, out, j
  <2>5. out \in V
    BY <1>3, <2>2, <2>3, <2>4
  <2>6. \/ out = v /\ j \in going
        \/ out = Append(v, ws[j])
    BY <2>3 DEF Next1
  <2>7. /\ \A p \in DOMAIN v : \E k \in 1..i : v[p] = ws[k]
        /\ \A k \in 1..i : k \notin going => \E p \in DOMAIN v : v[p] = ws[k]
    BY <2>2 DEF PassedOver
  <2>8. PassedOver(ws, going, out, j)
    <3>1. CASE out = v /\ j \in going
      BY <2>4, <2>7, <3>1 DEF PassedOver
    <3>2. CASE out = Append(v, ws[j])
      <4>1. ws[j] \in W /\ v \in Seq(W)
        BY <1>1, <2>2, <2>4 DEF V
      <4>2. DOMAIN out = DOMAIN v \cup {Len(v) + 1} /\ out[Len(v) + 1] = ws[j]
            /\ \A p \in DOMAIN v : out[p] = v[p]
        BY <3>2, <4>1
      <4>3. ASSUME NEW p \in DOMAIN out PROVE \E k \in 1..j : out[p] = ws[k]
        BY <2>4, <2>7, <4>2
      <4>4. ASSUME NEW k \in 1..j, k \notin going PROVE \E p \in DOMAIN out : out[p] = ws[k]
        <5>1. CASE k = j
          BY <4>2, <5>1
        <5>2. CASE k # j
          <6>1. PICK p \in DOMAIN v : v[p] = ws[k]
            BY <2>4, <2>7, <4>4, <5>2
          <6> QED
            BY <4>2, <6>1
        <5> QED
          BY <5>1, <5>2
      <4> QED
        BY <4>3, <4>4 DEF PassedOver
    <3> QED
      BY <2>6, <3>1, <3>2
  <2> QED
    BY <2>5, <2>8 DEF out, j
<1>15. B \in SUBSET Nat
  OBVIOUS
<1> HIDE DEF B
<1>16. B = Nat
  BY <1>13, <1>14, <1>15, NatSetInduction
<1>17. g[n] \in V /\ PassedOver(ws, going, g[n], n)
  BY <1>1, <1>16 DEF B
<1> QED
  BY <1>10, <1>17 DEF V, n

\* What is kept for somebody who is refused until t.
Barred(ws, k, t) ==
    /\ Has(ws, k)
    /\ \A i \in DOMAIN ws : ws[i].key = k => /\ ws[i].blocked
                                             /\ ws[i].resetAt = t
                                             /\ ws[i].count > Allowance

LEMMA PassKeepsBarred ==
    ASSUME NEW ws \in Seq(Windows), NEW going, NEW k, NEW t, Barred(ws, k, t),
           \A i \in DOMAIN ws : ws[i].key = k => i \notin going
    PROVE  OnePass(ws, going) \in Seq(Windows) /\ Barred(OnePass(ws, going), k, t)
<1> DEFINE out == OnePass(ws, going)
<1>1. out \in Seq(Windows) /\ PassedOver(ws, going, out, Len(ws))
  BY OnePassKeeps
<1> HIDE DEF out
<1>2. DOMAIN ws = 1..Len(ws)
  OBVIOUS
<1>3. PICK i \in DOMAIN ws : ws[i].key = k
  BY DEF Barred, Has
<1>4. \E p \in DOMAIN out : out[p] = ws[i]
  BY <1>1, <1>2, <1>3 DEF PassedOver
<1>5. Has(out, k)
  BY <1>3, <1>4 DEF Has
<1>6. \A p \in DOMAIN out : \E j \in DOMAIN ws : out[p] = ws[j]
  BY <1>1, <1>2 DEF PassedOver
<1>7. Barred(out, k, t)
  BY <1>5, <1>6 DEF Barred
<1> QED
  BY <1>1, <1>7 DEF out

\* However often the Map is emptied.
LEMMA SweptKeepsBarred ==
    ASSUME windows \in Seq(Windows), now \in Int
    PROVE  /\ Swept \in Seq(Windows)
           /\ \A k, t : t \in Int /\ t > now /\ Barred(windows, k, t) => Barred(Swept, k, t)
<1> DEFINE old == {i \in DOMAIN windows : Expired(windows[i])}
           rest == OnePass(windows, old)
           free == {i \in DOMAIN rest : Unblocked(rest[i])}
           out == OnePass(rest, free)
<1>1. rest \in Seq(Windows)
  BY OnePassKeeps
<1>2. out \in Seq(Windows)
  BY <1>1, OnePassKeeps
<1>3. Swept \in {windows, rest, out}
  BY DEF Swept, Evict
<1>4. ASSUME NEW k, NEW t \in Int, t > now, Barred(windows, k, t)
      PROVE  Barred(rest, k, t) /\ Barred(out, k, t)
  <2>1. \A i \in DOMAIN windows : windows[i].key = k => i \notin old
    BY <1>4 DEF Barred, Expired
  <2> HIDE DEF old
  <2>2. Barred(rest, k, t)
    BY <1>4, <2>1, PassKeepsBarred
  <2> HIDE DEF rest
  <2>3. \A i \in DOMAIN rest : rest[i].key = k => i \notin free
    BY <2>2 DEF Barred, Unblocked
  <2> HIDE DEF free
  <2>4. Barred(out, k, t)
    BY <1>1, <2>2, <2>3, PassKeepsBarred
  <2> QED
    BY <2>2, <2>4
<1> HIDE DEF rest, out
<1>5. Swept \in Seq(Windows)
  BY <1>1, <1>2, <1>3
<1> QED
  BY <1>3, <1>4, <1>5

LimitsInv ==
    /\ windows \in Seq(Windows)
    /\ now \in Nat
    /\ refusedTo \in [Callers -> Int]
    /\ \A k \in Callers : now < refusedTo[k] => Barred(windows, k, refusedTo[k])

LEMMA BarredIs ==
    ASSUME NEW ws \in Seq(Windows), NEW k, NEW t, Barred(ws, k, t)
    PROVE  /\ Has(ws, k)
           /\ WindowOf(ws, k).resetAt = t
           /\ WindowOf(ws, k).count > Allowance
<1>1. PICK i \in DOMAIN ws : ws[i].key = k
  BY DEF Barred, Has
<1>2. PlaceOf(ws, k) \in DOMAIN ws /\ ws[PlaceOf(ws, k)].key = k
  BY <1>1 DEF PlaceOf
<1> QED
  BY <1>2 DEF Barred, WindowOf

LEMMA WindowIs ==
    ASSUME NEW ws \in Seq(Windows), NEW k, Has(ws, k)
    PROVE  /\ PlaceOf(ws, k) \in DOMAIN ws
           /\ ws[PlaceOf(ws, k)].key = k
           /\ WindowOf(ws, k) \in Windows /\ WindowOf(ws, k).key = k
<1>1. PICK i \in DOMAIN ws : ws[i].key = k
  BY DEF Has
<1>2. PlaceOf(ws, k) \in DOMAIN ws /\ ws[PlaceOf(ws, k)].key = k
  BY <1>1 DEF PlaceOf
<1>3. \A p \in DOMAIN ws : ws[p] \in Windows
  BY SMT
<1> QED
  BY <1>2, <1>3 DEF WindowOf

\* A window of somebody else's replaces the one they had.
LEMMA OpensBesides ==
    ASSUME NEW ws \in Seq(Windows), NEW k, NEW w \in Windows
    PROVE  LET new == Append(Without(ws, k), w)
           IN  /\ new \in Seq(Windows)
               /\ \A j, t : j # k /\ w.key = k /\ Barred(ws, j, t) => Barred(new, j, t)
<1> DEFINE at == PlaceOf(ws, k)
           rest == Without(ws, k)
           new == Append(rest, w)
<1>1. /\ rest \in Seq(Windows)
      /\ \A p \in DOMAIN rest : \E q \in DOMAIN ws : rest[p] = ws[q]
      /\ \A q \in DOMAIN ws : ws[q].key # k => \E p \in DOMAIN rest : rest[p] = ws[q]
  <2>1. CASE ~Has(ws, k)
    <3>1. rest = ws
      BY <2>1 DEF Without
    <3> QED
      BY <3>1
  <2>2. CASE Has(ws, k)
    <3> DEFINE fore == SubSeq(ws, 1, at - 1)
               aft == SubSeq(ws, at + 1, Len(ws))
    <3>1. at \in 1..Len(ws) /\ ws[at].key = k /\ Len(ws) \in Nat
      BY <2>2, WindowIs
    <3>2. rest = fore \o aft
      BY <2>2 DEF Without, RemoveAt
    <3> HIDE DEF at
    <3>3. /\ fore \in Seq(Windows) /\ Len(fore) = at - 1
          /\ \A p \in 1..(at - 1) : fore[p] = ws[p]
      BY <3>1
    <3>4. /\ aft \in Seq(Windows) /\ Len(aft) = Len(ws) - at
          /\ \A p \in 1..(Len(ws) - at) : aft[p] = ws[at + p]
      BY <3>1
    <3> HIDE DEF fore, aft, rest
    <3>5. /\ rest \in Seq(Windows) /\ Len(rest) = Len(ws) - 1
          /\ \A p \in 1..(at - 1) : rest[p] = ws[p]
          /\ \A p \in at..(Len(ws) - 1) : rest[p] = ws[p + 1]
      <4>4. fore \in Seq(Windows) /\ aft \in Seq(Windows)
        BY <3>3, <3>4
      <4>1. rest \in Seq(Windows) /\ Len(rest) = Len(fore) + Len(aft)
        BY <3>2, <4>4
      <4>2. ASSUME NEW p \in 1..(at - 1) PROVE rest[p] = ws[p]
        BY <3>1, <3>2, <3>3, <3>4
      <4>3. ASSUME NEW p \in at..(Len(ws) - 1) PROVE rest[p] = ws[p + 1]
        <5>1. rest[p] = aft[p - (at - 1)]
          BY <3>1, <3>2, <3>3, <3>4
        <5>2. p - (at - 1) \in 1..(Len(ws) - at) /\ at + (p - (at - 1)) = p + 1
          BY <3>1
        <5> QED
          BY <3>4, <5>1, <5>2
      <4> QED
        BY <3>1, <3>3, <3>4, <4>1, <4>2, <4>3
    <3>6. DOMAIN rest = 1..(Len(ws) - 1) /\ DOMAIN ws = 1..Len(ws)
      BY <3>5
    <3>7. ASSUME NEW p \in DOMAIN rest PROVE \E q \in DOMAIN ws : rest[p] = ws[q]
      <4>1. CASE p < at
        BY <3>1, <3>5, <3>6, <4>1
      <4>2. CASE ~(p < at)
        <5>1. p \in at..(Len(ws) - 1) /\ p + 1 \in DOMAIN ws
          BY <3>1, <3>6, <4>2
        <5> QED
          BY <3>5, <5>1
      <4> QED
        BY <4>1, <4>2
    <3>8. ASSUME NEW q \in DOMAIN ws, ws[q].key # k PROVE \E p \in DOMAIN rest : rest[p] = ws[q]
      <4>1. CASE q < at
        <5>1. q \in 1..(at - 1) /\ q \in DOMAIN rest
          BY <3>1, <3>6, <4>1
        <5> QED
          BY <3>5, <5>1
      <4>2. CASE ~(q < at)
        <5>1. q # at
          BY <3>1, <3>8
        <5>2. q - 1 \in at..(Len(ws) - 1) /\ q - 1 \in DOMAIN rest /\ (q - 1) + 1 = q
          BY <3>1, <3>6, <4>2, <5>1
        <5> QED
          BY <3>5, <5>2
      <4> QED
        BY <4>1, <4>2
    <3> QED
      BY <3>5, <3>7, <3>8
  <2> QED
    BY <2>1, <2>2
<1> HIDE DEF rest
<1>2. new \in Seq(Windows) /\ DOMAIN new = DOMAIN rest \cup {Len(rest) + 1}
      /\ new[Len(rest) + 1] = w /\ \A p \in DOMAIN rest : new[p] = rest[p]
  BY <1>1
<1> HIDE DEF new
<1>3. ASSUME NEW j, NEW t, j # k, w.key = k, Barred(ws, j, t) PROVE Barred(new, j, t)
  <2>1. PICK q \in DOMAIN ws : ws[q].key = j
    BY <1>3 DEF Barred, Has
  <2>2. PICK p \in DOMAIN rest : rest[p] = ws[q]
    BY <1>1, <1>3, <2>1
  <2>3. p \in DOMAIN new /\ new[p].key = j
    BY <1>2, <2>1, <2>2
  <2>4. Has(new, j)
    BY <2>3 DEF Has
  <2>5. ASSUME NEW p2 \in DOMAIN new, new[p2].key = j
        PROVE  new[p2].blocked /\ new[p2].resetAt = t /\ new[p2].count > Allowance
    <3>1. p2 \in DOMAIN rest
      BY <1>2, <1>3, <2>5
    <3>2. \E q2 \in DOMAIN ws : new[p2] = ws[q2]
      BY <1>1, <1>2, <3>1
    <3> QED
      BY <1>3, <2>5, <3>2 DEF Barred
  <2> QED
    BY <2>4, <2>5 DEF Barred
<1> QED
  BY <1>2, <1>3 DEF new, rest

LEMMA UpdateKeeps ==
    ASSUME NEW ws \in Seq(Windows), NEW w \in Windows
    PROVE  /\ Update(ws, w) \in Seq(Windows)
           /\ \A j, t : j # w.key /\ Barred(ws, j, t) => Barred(Update(ws, w), j, t)
           /\ Has(ws, w.key) /\ w.blocked /\ w.count > Allowance
                => Barred(Update(ws, w), w.key, w.resetAt)
<1> DEFINE new == Update(ws, w)
<1>1. /\ new \in Seq(Windows) /\ DOMAIN new = DOMAIN ws
      /\ \A i \in DOMAIN ws : new[i] = IF ws[i].key = w.key THEN w ELSE ws[i]
  <2>1. Len(ws) \in Nat /\ DOMAIN ws = 1..Len(ws) /\ \A i \in 1..Len(ws) : ws[i] \in Windows
    BY SMT
  <2>2. new = [i \in 1..Len(ws) |-> IF ws[i].key = w.key THEN w ELSE ws[i]]
    BY <2>1 DEF Update
  <2> HIDE DEF new
  <2>3. new \in [1..Len(ws) -> Windows]
    BY <2>1, <2>2
  <2>4. new \in Seq(Windows)
    BY <2>1, <2>3
  <2> QED
    BY <2>1, <2>2, <2>4
<1> HIDE DEF new
<1>2. ASSUME NEW j, NEW t, j # w.key, Barred(ws, j, t) PROVE Barred(new, j, t)
  BY <1>1, <1>2 DEF Barred, Has
<1>3. ASSUME Has(ws, w.key), w.blocked, w.count > Allowance PROVE Barred(new, w.key, w.resetAt)
  BY <1>1, <1>3 DEF Barred, Has
<1> QED
  BY <1>1, <1>2, <1>3 DEF new

LEMMA LimitsBegin == LimitsInit => LimitsInv
<1> SUFFICES ASSUME LimitsInit PROVE LimitsInv
  OBVIOUS
<1>1. windows = <<>> /\ now = 0 /\ refusedTo = [k \in Callers |-> 0]
  BY DEF LimitsInit
<1>2. windows \in Seq(Windows)
  BY <1>1
<1> QED
  BY <1>1, <1>2 DEF LimitsInv

\* Nobody who is to wait opens a window, or counts in one.
LEMMA RefusedWait ==
    ASSUME LimitsInv, NEW k \in Callers, Allowed(k)
    PROVE  refusedTo[k] <= now
<1> SUFFICES ASSUME ~(refusedTo[k] <= now) PROVE FALSE
  OBVIOUS
<1> DEFINE ws == Swept
           t == refusedTo[k]
<1>1. windows \in Seq(Windows) /\ now \in Int /\ t \in Int /\ t > now
  BY DEF LimitsInv
<1>2. Barred(windows, k, t)
  BY <1>1 DEF LimitsInv
<1>3. ws \in Seq(Windows)
  BY <1>1, SweptKeepsBarred
<1>4. Barred(ws, k, t)
  BY <1>1, <1>2, SweptKeepsBarred
<1>5. Current(ws, k) \/ FALSE
  <2> HIDE DEF ws, t
  <2>1. Has(ws, k) /\ WindowOf(ws, k).resetAt = t
    BY <1>3, <1>4, BarredIs
  <2> QED
    BY <1>1, <2>1 DEF Current, Expired
<1>6. Count(k)
  BY <1>5 DEF Allowed, Open
<1>7. WindowOf(ws, k).count < Allowance
  BY <1>6 DEF Count
<1>8. WindowOf(ws, k).count > Allowance /\ WindowOf(ws, k) \in Windows
  <2> HIDE DEF ws, t
  <2>1. Has(ws, k)
    BY <1>3, <1>4, BarredIs
  <2> QED
    BY <1>3, <1>4, <2>1, BarredIs, WindowIs
<1> QED
  <2> DEFINE c == WindowOf(ws, k).count
  <2>1. c \in Nat /\ c < Allowance /\ c > Allowance
    BY <1>7, <1>8 DEF Windows
  <2> HIDE DEF c
  <2> QED
    BY <2>1, LimitsAssumption

LEMMA LimitsStep == LimitsInv /\ [LimitsNext]_limitVars => LimitsInv'
<1> SUFFICES ASSUME LimitsInv, [LimitsNext]_limitVars PROVE LimitsInv'
  OBVIOUS
<1> DEFINE ws == Swept
<1>1. windows \in Seq(Windows) /\ now \in Nat /\ refusedTo \in [Callers -> Int]
  BY DEF LimitsInv
<1>2. ws \in Seq(Windows)
  BY <1>1, SweptKeepsBarred
<1>3. \A k \in Callers : now < refusedTo[k] => Barred(ws, k, refusedTo[k])
  <2> TAKE k \in Callers
  <2> HAVE now < refusedTo[k]
  <2>1. refusedTo[k] \in Int /\ refusedTo[k] > now /\ Barred(windows, k, refusedTo[k])
    BY <1>1 DEF LimitsInv
  <2> QED
    BY <1>1, <2>1, SweptKeepsBarred
<1>4. LimitsAssumption
  BY LimitsAssumption
<1>5. ASSUME NEW k \in Callers, Open(k) PROVE LimitsInv'
  <2> DEFINE w == [key |-> k, count |-> 1, resetAt |-> now + Span, blocked |-> FALSE]
             new == Append(Without(ws, k), w)
  <2>1. windows' = new /\ now' = now /\ refusedTo' = refusedTo
    BY <1>5 DEF Open
  <2>2. w \in Windows /\ w.key = k
    BY <1>1, <1>4 DEF Windows, LimitsAssumption
  <2>3. refusedTo[k] <= now
    BY <1>5, RefusedWait DEF Allowed
  <2> HIDE DEF ws, w
  <2>4. new \in Seq(Windows) /\ \A j, t : j # k /\ Barred(ws, j, t) => Barred(new, j, t)
    BY <1>2, <2>2, OpensBesides
  <2> HIDE DEF new
  <2>5. ASSUME NEW j \in Callers, now < refusedTo[j] PROVE Barred(new, j, refusedTo[j])
    <3>1. j # k
      BY <1>1, <2>3, <2>5
    <3> QED
      BY <1>3, <2>4, <2>5, <3>1
  <2> QED
    BY <1>1, <2>1, <2>4, <2>5 DEF LimitsInv, Barred, Has
<1>6. ASSUME NEW k \in Callers, Count(k) PROVE LimitsInv'
  <2> DEFINE w == WindowOf(ws, k)
             u == [w EXCEPT !.count = @ + 1]
             new == Update(ws, u)
  <2>1. windows' = new /\ now' = now /\ refusedTo' = refusedTo /\ Has(ws, k)
    BY <1>6 DEF Count, Current
  <2>2. refusedTo[k] <= now
    BY <1>6, RefusedWait DEF Allowed
  <2> HIDE DEF ws
  <2>3. w \in Windows /\ w.key = k
    BY <1>2, <2>1, WindowIs
  <2> HIDE DEF w
  <2>4. u \in Windows /\ u.key = k
    BY <2>3 DEF Windows
  <2> HIDE DEF u
  <2>5. new \in Seq(Windows) /\ \A j, t : j # k /\ Barred(ws, j, t) => Barred(new, j, t)
    BY <1>2, <2>4, UpdateKeeps
  <2> HIDE DEF new
  <2>6. ASSUME NEW j \in Callers, now < refusedTo[j] PROVE Barred(new, j, refusedTo[j])
    <3>1. j # k
      BY <1>1, <2>2, <2>6
    <3> QED
      BY <1>3, <2>5, <2>6, <3>1
  <2> QED
    BY <1>1, <2>1, <2>5, <2>6 DEF LimitsInv, Barred, Has
<1>7. ASSUME NEW k \in Callers, TooMany(k) PROVE LimitsInv'
  <2> DEFINE w == WindowOf(ws, k)
             u == [w EXCEPT !.count = Allowance + 1, !.blocked = TRUE]
             new == Update(ws, u)
  <2>1. windows' = new /\ now' = now /\ refusedTo' = [refusedTo EXCEPT ![k] = w.resetAt] /\ Has(ws, k)
    BY <1>7 DEF TooMany, Current
  <2> HIDE DEF ws
  <2>3. w \in Windows /\ w.key = k
    BY <1>2, <2>1, WindowIs
  <2> HIDE DEF w
  <2>4. u \in Windows /\ u.key = k /\ u.blocked /\ u.count > Allowance /\ u.resetAt = w.resetAt
    <3>1. Allowance + 1 \in Nat /\ Allowance + 1 > Allowance
      BY <1>4 DEF LimitsAssumption
    <3>2. u \in Windows
      BY <2>3, <3>1 DEF Windows
    <3>3. u.key = k /\ u.blocked = TRUE /\ u.count = Allowance + 1 /\ u.resetAt = w.resetAt
      BY <2>3 DEF Windows
    <3> QED
      BY <3>1, <3>2, <3>3
  <2> HIDE DEF u
  <2>5. /\ new \in Seq(Windows)
        /\ \A j, t : j # k /\ Barred(ws, j, t) => Barred(new, j, t)
        /\ Barred(new, k, w.resetAt)
    BY <1>2, <2>1, <2>4, UpdateKeeps
  <2>7. w.resetAt \in Int
    BY <2>3 DEF Windows
  <2> HIDE DEF new
  <2>8. refusedTo' \in [Callers -> Int]
    BY <1>1, <2>1, <2>7
  <2>6. ASSUME NEW j \in Callers, now < refusedTo'[j] PROVE Barred(new, j, refusedTo'[j])
    <3>1. CASE j = k
      <4>1. refusedTo'[j] = w.resetAt
        BY <1>1, <2>1, <3>1
      <4> QED
        BY <2>5, <3>1, <4>1
    <3>2. CASE j # k
      <4>1. refusedTo'[j] = refusedTo[j]
        BY <1>1, <2>1, <3>2
      <4> QED
        BY <1>3, <2>5, <2>6, <3>2, <4>1
    <3> QED
      BY <3>1, <3>2
  <2> QED
    BY <1>1, <2>1, <2>5, <2>6, <2>8 DEF LimitsInv, Barred, Has
<1>8. CASE Wait
  <2>1. PICK t \in (now + 1)..MaxTime : now' = t
    BY <1>8 DEF Wait
  <2>2. now' \in Nat /\ now' > now /\ windows' = windows /\ refusedTo' = refusedTo
    BY <1>1, <1>4, <1>8, <2>1 DEF Wait, LimitsAssumption
  <2>3. ASSUME NEW j \in Callers, now' < refusedTo[j] PROVE Barred(windows, j, refusedTo[j])
    <3>1. now < refusedTo[j]
      BY <1>1, <2>2, <2>3
    <3> QED
      BY <3>1 DEF LimitsInv
  <2> QED
    BY <1>1, <2>2, <2>3 DEF LimitsInv, Barred, Has
<1>9. CASE Reboot
  <2>1. windows' = <<>> /\ refusedTo' = [k \in Callers |-> 0] /\ now' = now
    BY <1>9 DEF Reboot
  <2>2. windows' \in Seq(Windows)
    BY <2>1
  <2>3. refusedTo' \in [Callers -> Int] /\ \A k \in Callers : ~(now < refusedTo'[k])
    BY <1>1, <2>1
  <2> QED
    BY <1>1, <2>1, <2>2, <2>3 DEF LimitsInv, Barred, Has
<1>10. CASE UNCHANGED limitVars
  BY <1>10 DEF LimitsInv, limitVars, Barred, Has
<1> QED
  BY <1>5, <1>6, <1>7, <1>8, <1>9, <1>10 DEF LimitsNext, Allowed

\* Whoever has been refused stays refused until their window ends, whoever else comes
\* meanwhile and however often the Map is emptied, for any callers, allowance and size
\* of the Map (consume and evict, rate-limit.ts).
THEOREM RefusalsStand == LimitsSpec => StaysRefused
<1>1. LimitsInv /\ [LimitsNext]_limitVars
        => [\A k \in Callers : Allowed(k) => refusedTo[k] <= now]_limitVars
  BY RefusedWait
<1> QED
  BY LimitsBegin, LimitsStep, <1>1, PTL DEF LimitsSpec, StaysRefused
===============================================================================
