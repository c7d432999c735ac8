-------------------------------- MODULE Push --------------------------------
(***************************************************************************)
(* Phone notifications: the job of server/push.ts sends what is new in the *)
(* feed to the phones of those it concerns, while phones are turned on and *)
(* off (api/push). A run is one call of sendPendingNotifications; the next *)
(* may begin while a slow push service keeps the last one sending.         *)
(***************************************************************************)
EXTENDS Integers, FiniteSets

CONSTANTS
    Senders,            \* calls of sendPendingNotifications
    Feed,               \* the entries, numbered as they are written
    Actor, Involved,    \* whose each is, and whom its rows name
    Fired,              \* those that a repeating expense wrote
    Phones, Owners,     \* endpoints, and the people who sign in on them
    Batch,              \* BATCH
    MaxSubscriptions,   \* MAX_SUBSCRIPTIONS
    MaxRows, MaxStops,  \* bounds: rows of PushSubscription ever, restarts
    NoRow

ASSUME PushAssumption ==
    /\ Feed \subseteq Nat /\ Fired \subseteq Feed
    /\ Actor \in [Feed -> Owners] /\ Involved \in [Feed -> SUBSET Owners]
    /\ Batch \in Nat \ {0} /\ MaxSubscriptions \in Nat \ {0}
    /\ MaxRows \in Nat /\ MaxStops \in Nat

VARIABLES
    pending,    \* entries of the feed with no notifiedAt
    written,    \* how many there are
    outdated,      \* those older than FRESH_FOR_MS
    subs,       \* the rows: [id, phone, person], the oldest has the lowest id
    turningOn,  \* where the POST of each phone is, and the row it will drop
    doing,      \* where each run is
    batch,      \* what it has left to send
    targets,    \* the rows it has left to send the first of them to
    received,   \* how often each phone was sent each entry
    rowsEver, stops

pushVars == <<pending, written, outdated, subs, turningOn, doing, batch, targets, received,
              rowsEver, stops>>
feedVars == <<pending, written, outdated>>
runVars  == <<doing, batch, targets, received>>
subVars  == <<subs, turningOn, rowsEver>>

Off == [at |-> "off", person |-> NoRow, row |-> NoRow]

PushInit ==
    /\ pending = {} /\ written = 0 /\ outdated = {}
    /\ subs = {} /\ turningOn = [p \in Phones |-> Off]
    /\ doing = [r \in Senders |-> "idle"]
    /\ batch = [r \in Senders |-> {}]
    /\ targets = [r \in Senders |-> {}]
    /\ received = [x \in Feed \X Phones |-> 0]
    /\ rowsEver = 0 /\ stops = 0

-----------------------------------------------------------------------------
(* The feed.                                                               *)

Write ==
    /\ written + 1 \in Feed
    /\ written' = written + 1
    /\ pending' = pending \cup {written + 1}
    /\ UNCHANGED <<outdated, runVars, subVars, stops>>

\* Ten minutes pass for everything up to an entry.
Age ==
    /\ \E e \in Feed : e <= written /\ e \notin outdated /\ outdated' = {d \in Feed : d <= e}
    /\ UNCHANGED <<pending, written, runVars, subVars, stops>>

-----------------------------------------------------------------------------
(* sendPendingNotifications()                                              *)

Proceeds(r, from, to) == doing[r] = from /\ doing' = [doing EXCEPT ![r] = to]

\* What is old is done without sending. A tick comes seconds after the last,
\* whose first three queries are over by then.
Expire(r) ==
    /\ Proceeds(r, "idle", "look")
    /\ \A q \in Senders : doing[q] \in {"idle", "pick", "send"}
    /\ pending' = pending \ outdated
    /\ UNCHANGED <<written, outdated, batch, targets, received, subVars, stops>>

Earliest(es, n) == {e \in es : Cardinality({d \in es : d < e}) < n}

Look(r) ==
    /\ Proceeds(r, "look", IF pending = {} THEN "idle" ELSE "claim")
    /\ batch' = [batch EXCEPT ![r] = Earliest(pending, Batch)]
    /\ UNCHANGED <<feedVars, targets, received, subVars, stops>>

Unclaimed(es) == pending        \* mutant: marked by nobody
Claimed(es) == pending \ es

\* "Claimed before sending."
MarkNotified(r) ==
    /\ Proceeds(r, "claim", "pick")
    /\ pending' = Claimed(batch[r])
    /\ UNCHANGED <<written, outdated, batch, targets, received, subVars, stops>>

Recipients(e) == Involved[e] \ (IF e \in Fired THEN {} ELSE {Actor[e]})

NextUp(r) == CHOOSE e \in batch[r] : \A d \in batch[r] : e <= d

\* The phones of those the next entry concerns.
Pick(r) ==
    /\ Proceeds(r, "pick", "send") /\ batch[r] # {}
    /\ targets' = [targets EXCEPT ![r] = {s \in subs : s.person \in Recipients(NextUp(r))}]
    /\ UNCHANGED <<feedVars, batch, received, subVars, stops>>

\* deliver(): sent, refused, or failed, before or after it arrived. A row that
\* is refused is dropped, whoever it is by now.
Deliver(r) ==
    \E s \in targets[r], answer \in {"ok", "gone", "failed"}, arrived \in BOOLEAN :
        /\ doing[r] = "send"
        /\ (answer = "ok" => arrived) /\ (answer = "gone" => ~arrived)
        /\ targets' = [targets EXCEPT ![r] = @ \ {s}]
        /\ received' = IF arrived THEN [received EXCEPT ![<<NextUp(r), s.phone>>] = @ + 1] ELSE received
        /\ subs' = IF answer = "gone" THEN {t \in subs : t.id # s.id} ELSE subs
        /\ UNCHANGED <<feedVars, doing, batch, turningOn, rowsEver, stops>>

NextEntry(r) ==
    /\ Proceeds(r, "send", "pick") /\ targets[r] = {}
    /\ batch' = [batch EXCEPT ![r] = @ \ {NextUp(r)}]
    /\ UNCHANGED <<feedVars, targets, received, subVars, stops>>

FinishRun(r) ==
    /\ Proceeds(r, "pick", "idle") /\ batch[r] = {}
    /\ UNCHANGED <<feedVars, batch, targets, received, subVars, stops>>

-----------------------------------------------------------------------------
(* api/push                                                                *)

Of(person) == {s \in subs : s.person = person}

\* POST: somebody signed in on a phone turns it on. They may have too many ...
TurnOn(p) ==
    /\ turningOn[p] = Off
    /\ \E person \in Owners : \E row \in Of(person) \cup {NoRow} :
          /\ IF Cardinality(Of(person)) >= MaxSubscriptions
             THEN row # NoRow /\ \A s \in Of(person) : row.id <= s.id
             ELSE row = NoRow
          /\ turningOn' = [turningOn EXCEPT ![p] =
                [at |-> IF row = NoRow THEN "put" ELSE "drop", person |-> person, row |-> row]]
    /\ UNCHANGED <<feedVars, runVars, subs, rowsEver, stops>>

\* ... and the oldest goes, unless it is gone: then the request fails.
DropOldest(p) ==
    /\ turningOn[p].at = "drop"
    /\ subs' = subs \ {s \in subs : s.id = turningOn[p].row.id}
    /\ turningOn' = IF subs' = subs THEN [turningOn EXCEPT ![p] = Off]
                    ELSE [turningOn EXCEPT ![p].at = "put"]
    /\ UNCHANGED <<feedVars, runVars, rowsEver, stops>>

AnotherRow(p, person) ==        \* mutant: not keyed on the endpoint
    subs \cup {[id |-> rowsEver, phone |-> p, person |-> person]}

\* The row of the endpoint, whoever had it, or a new one.
Upserted(p, person) ==
    IF \E s \in subs : s.phone = p
    THEN {IF s.phone = p THEN [s EXCEPT !.person = person] ELSE s : s \in subs}
    ELSE subs \cup {[id |-> rowsEver, phone |-> p, person |-> person]}

Put(p) ==
    /\ turningOn[p].at = "put" /\ rowsEver < MaxRows
    /\ subs' = Upserted(p, turningOn[p].person)
    /\ rowsEver' = rowsEver + 1
    /\ turningOn' = [turningOn EXCEPT ![p] = Off]
    /\ UNCHANGED <<feedVars, runVars, stops>>

\* DELETE, or the session ends and the row with it.
TurnOff(p) ==
    /\ \E s \in subs : s.phone = p /\ subs' = subs \ {s}
    /\ UNCHANGED <<feedVars, runVars, turningOn, rowsEver, stops>>

\* A restart ends every run and every request.
Stop ==
    /\ stops < MaxStops /\ stops' = stops + 1
    /\ doing' = [r \in Senders |-> "idle"]
    /\ batch' = [r \in Senders |-> {}]
    /\ targets' = [r \in Senders |-> {}]
    /\ turningOn' = [p \in Phones |-> Off]
    /\ UNCHANGED <<feedVars, received, subs, rowsEver>>

PushNext ==
    \/ Write \/ Age \/ Stop
    \/ \E r \in Senders : \/ Expire(r) \/ Look(r) \/ MarkNotified(r) \/ Pick(r)
                          \/ Deliver(r) \/ NextEntry(r) \/ FinishRun(r)
    \/ \E p \in Phones : TurnOn(p) \/ DropOldest(p) \/ Put(p) \/ TurnOff(p)

PushSpec == PushInit /\ [][PushNext]_pushVars

-----------------------------------------------------------------------------

\* No phone is sent an entry twice, whatever runs beside a slow one, whoever
\* turns which phone on meanwhile and whenever the server restarts ("a
\* notification missed is better than one sent twice", push.ts).
SentOnce == \A x \in Feed \X Phones : received[x] <= 1
=============================================================================
