----------------------------- MODULE MCServices -----------------------------
(* Small instances of what stands around the ledger: the lease of a job,   *)
(* the one connection, a repeating expense and its calendar, the           *)
(* arithmetic of a bill, a screen and the outbox behind it, the ways into  *)
(* an account, notifications and rate limits. They share nothing, so a     *)
(* behaviour is one of one of them.                                        *)
EXTENDS Jobs, Turns, Recurrence, Composer, Screen, Calendar, Limits, Push, Identity

CONSTANTS
    Parts,
    old, new, first, second, third, ours, theirs, other,
    ann, bob, phone, tablet, mine, spare,
    Tabs, Changes, Needs, MaxAttempts, MaxRetries, MaxCloses

VARIABLES
    part,
    typed, waiting, attempts, dead, landed, told, again, tabAt, unsent, tries,
    current, reply, retrying, closes

Device == INSTANCE Outbox WITH
    queued <- waiting, refused <- dead, filed <- landed, retried <- again,
    pc <- tabAt, left <- unsent, answer <- reply

MCHome == [r \in Runners |-> IF r = second THEN new ELSE old]

MCLength == [c \in Clients |-> IF c \in Transactions THEN 2 ELSE 1]

MCEntries  == {-1, 0, 2, 3}
MCReceipts == {<<>>, <<[amount |-> 2, by |-> {4}]>>,
               <<[amount |-> 1, by |-> {}], [amount |-> 2, by |-> {2, 3}]>>}

\* Two paid and three owe, or the other way round.
MCPaid  == [e \in Expenses |-> CASE e = ours   -> <<1, 2, 0, 0, 0>>
                                 [] e = other  -> <<1, 2, 0, 0, 1>>
                                 [] e = theirs -> <<0, 0, 4, 0, 0>>]
MCShare == [e \in Expenses |-> CASE e = ours   -> <<0, 0, 1, 1, 1>>
                                 [] e = other  -> <<0, 2, 1, 1, 0>>
                                 [] e = theirs -> <<1, 1, 1, 1, 0>>]

\* A zone whose clocks change at two in the morning of a day that a series meets.
Changing(before, after) ==
    {[before |-> before, after |-> after, change |-> 24 * day + 2 - before] :
        day \in {1, 14, 59}}

\* Auckland in September and in April, New York in March and in November, Berlin
\* in March, and a place where they never do.
MCZones == Changing(12, 13) \cup Changing(13, 12) \cup Changing(-5, -4) \cup Changing(-4, -5)
           \cup Changing(1, 2) \cup {[before |-> 14, after |-> 14, change |-> 0]}

\* On the first, the thirty-first, and the last of February of a leap year; at
\* midnight, around the change of the clocks, and at noon, as the screen sends.
MCStarts == {24 * day + hour : day \in {0, 30, 59}, hour \in {0, 1, 2, 3, 12, 23}}

MCNoons == {w \in MCStarts : w % 24 = 12}

\* What there is of a series where the calendar is not the part that runs.
MCIdle == [zone |-> [before |-> 0, after |-> 0, change |-> 0], frequency |-> "DAILY",
           interval |-> 1, start |-> 0, anchor |-> 1]

MCActor    == [e \in Feed |-> ann]
MCInvolved == [e \in Feed |-> {ann, bob}]

MCFirstKey    == [a \in Accounts |-> mine]
MCFirstDevice == [a \in Accounts |-> phone]

\* A comment on an expense.
MCNeeds == [c \in Changes |-> IF c = other THEN {ours} ELSE {}]

deviceVars == <<typed, waiting, attempts, dead, landed, told, again, tabAt, unsent,
                tries, current, reply, retrying, closes>>
partVars == <<part, vars, turnVars, recurrenceVars, composerVars, screenVars, calendarVars,
              limitVars, pushVars, identityVars, deviceVars>>

ServicesInit ==
    /\ part \in Parts
    /\ Init /\ (part # "job" => keep)
    /\ TurnsInit
    /\ RecurrenceInit /\ (part # "repeating" => schedule.ends = Never)
    /\ ComposerInit /\ ScreenInit
    /\ IF part = "calendar" THEN CalendarInit
       ELSE series = MCIdle /\ dueAt = 0 /\ passed = 0 /\ ids = {}
    /\ LimitsInit /\ PushInit /\ IdentityInit
    /\ Device!Init

ServicesNext ==
    /\ UNCHANGED part
    /\ IF part = "job" THEN Next ELSE UNCHANGED vars
    /\ IF part = "connection" THEN TurnsNext ELSE UNCHANGED turnVars
    /\ IF part = "repeating" THEN RecurrenceNext ELSE UNCHANGED recurrenceVars
    /\ IF part = "bill" THEN ComposerNext ELSE UNCHANGED composerVars
    /\ IF part = "screen" THEN ScreenNext ELSE UNCHANGED screenVars
    /\ IF part = "calendar" THEN CalendarNext ELSE UNCHANGED calendarVars
    /\ IF part = "limits" THEN LimitsNext ELSE UNCHANGED limitVars
    /\ IF part = "push" THEN PushNext ELSE UNCHANGED pushVars
    /\ IF part = "account" THEN IdentityNext ELSE UNCHANGED identityVars
    /\ IF part = "outbox" THEN Device!Next ELSE UNCHANGED deviceVars

ServicesSpec == ServicesInit /\ [][ServicesNext]_partVars

\* What is fair in each part is fair where it is the one that runs. A tick, a run or
\* a tab has one step at most that it can take, so one condition covers them all.
ServicesFairSpec ==
    /\ ServicesSpec
    /\ WF_vars(part = "job" /\ Pass)
    /\ \A r \in Runners : WF_vars(part = "job" /\ (Tick(r) \/ Proceed(r)))
    /\ \A c \in Clients : WF_turnVars(part = "connection" /\ Serve(c))
    /\ \A r \in Runs : WF_recurrenceVars(part = "repeating" /\ (Find(r) \/ WorkOn(r)))
    /\ \A t \in Tabs :
          /\ WF_deviceVars(part = "outbox" /\ (Device!Start(t) \/ Device!SendAnswered(t)
                                                \/ Device!SendUnreached(t) \/ Device!Reply(t)))
          /\ SF_deviceVars(part = "outbox" /\ Device!SendAnswered(t))

JobKeepsRunning  == part = "job" => KeepsRunning
EachIsServed     == part = "connection" => Served
CatchesUpAgain   == part = "repeating" => CatchesUp
EachChangeIsHeard == part = "outbox" => Device!Heard
NoDayMissed      == part = "calendar" => EachHasAnId
=============================================================================
