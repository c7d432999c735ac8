----------------------------- MODULE Recurrence -----------------------------
(***************************************************************************)
(* One repeating expense, server/recurrence.ts: runs that post what is     *)
(* due (the scheduler's, the cron's, a person's), each from the row as it  *)
(* found it, while people pause, resume, reschedule, end and delete it and *)
(* leave the group. A day is an occurrence: the id of what is filed is its *)
(* day.                                                                    *)
(***************************************************************************)
EXTENDS Integers, FiniteSets

CONSTANTS
    Runs,               \* those that may be in flight at once
    FirstDay, Today0,   \* it starts on the one, and it is the other
    Ends,               \* the days it may end on
    MaxPerRun,
    LastDay,            \* bounds: the calendar, what people do to it, and how
    MaxEdits,           \* often a statement fails or the server restarts
    MaxTroubles

ASSUME RecurrenceAssumption ==
    /\ FirstDay \in Nat /\ Today0 \in Nat /\ LastDay \in Nat
    /\ FirstDay <= Today0 /\ Today0 <= LastDay
    /\ Ends \subseteq Nat
    /\ MaxPerRun \in Nat \ {0} /\ MaxEdits \in Nat /\ MaxTroubles \in Nat

Never  == -1            \* endsAt, or a date not given: null
Days   == FirstDay..LastDay
Cursor == FirstDay..(LastDay + 1)

VARIABLES
    schedule,   \* the row: is it there, active, nextRunAt, endsAt
    barred,     \* has somebody in it left the group?
    filed,      \* the days with an expense
    fired,      \* how often each was announced
    skipped,    \* the days a person chose to go without
    run,        \* each run: where it is, the row it found, its now, cursor and
                \* iterations; and is what it read overtaken by somebody?
    loaded,     \* the row as a PATCH under way has read it
    today,
    edits, troubles

recurrenceVars ==
    <<schedule, barred, filed, fired, skipped, run, loaded, today, edits, troubles>>
rowVars == <<schedule, skipped>>
envVars == <<barred, loaded, today, edits>>

NotLoaded == [there |-> FALSE, active |-> FALSE, next |-> FirstDay, ends |-> Never]
Resting == [at |-> "idle", found |-> [there |-> TRUE, active |-> TRUE, next |-> FirstDay, ends |-> Never],
            now |-> Today0, cursor |-> FirstDay, n |-> 0, stale |-> FALSE]

RecurrenceInit ==
    /\ \E e \in Ends \cup {Never} :
          /\ e # Never => e >= FirstDay
          /\ schedule = [there |-> TRUE, active |-> TRUE, next |-> FirstDay, ends |-> e]
    /\ barred = FALSE
    /\ filed = {} /\ fired = [d \in Days |-> 0] /\ skipped = {}
    /\ run = [r \in Runs |-> Resting] /\ loaded = NotLoaded
    /\ today = Today0 /\ edits = 0 /\ troubles = 0

-----------------------------------------------------------------------------
(* A run: runDueRecurrences, processRecurrence                             *)

Stands(r, label) == run[r].at = label
Step(r, label)   == run' = [run EXCEPT ![r].at = label]
IsPast(day, ends) == ends # Never /\ day > ends

NotPausedOnly(s) == s.there /\ s.next <= today      \* mutant: without active: true
DueBefore(s) == s.there /\ s.active /\ s.next < today     \* mutant: lt for lte
IsDue(s) == s.there /\ s.active /\ s.next <= today

Find(r) ==
    /\ Stands(r, "idle") /\ IsDue(schedule)
    /\ run' = [run EXCEPT ![r] = [at |-> "found", found |-> schedule, now |-> today,
                                  cursor |-> schedule.next, n |-> 0, stale |-> FALSE]]
    /\ UNCHANGED <<rowVars, filed, fired, envVars, troubles>>

\* blocker(), read once, before the first day is posted.
Consider(r) ==
    /\ Stands(r, "found")
    /\ Step(r, IF barred THEN "pausing" ELSE "posting")
    /\ UNCHANGED <<rowVars, filed, fired, envVars, troubles>>

\* A run in flight, or past some point, works from what is no longer so.
Overtake(labels) == [r \in Runs |-> [run[r] EXCEPT !.stale = @ \/ run[r].at \in labels]]
InFlight == {"found", "posting", "telling", "pausing", "leaving"}
Written(row) == IF row.active # schedule.active THEN Overtake(InFlight) ELSE run

\* pause(): updateMany where active. Runs in flight have read the row already.
Pause(r) ==
    /\ Stands(r, "pausing")
    /\ schedule' = [schedule EXCEPT !.active = @ /\ ~schedule.there]
    /\ run' = [Written(schedule') EXCEPT ![r] = Resting]
    /\ UNCHANGED <<skipped, filed, fired, envVars, troubles>>

GoesOn(p) == p.cursor <= p.now /\ p.n < MaxPerRun /\ ~IsPast(p.cursor, p.found.ends)

Advanced(p) == [p EXCEPT !.at = "posting", !.cursor = @ + 1, !.n = @ + 1]

\* createExpense: a row with the day's id ...
File(r) ==
    LET p == run[r] IN
    /\ Stands(r, "posting") /\ GoesOn(p)
    /\ p.cursor \notin filed /\ schedule.there
    /\ filed' = filed \cup {p.cursor}
    /\ Step(r, "telling")
    /\ UNCHANGED <<rowVars, fired, envVars, troubles>>

AfterReplay(p) == [p EXCEPT !.at = "telling"]       \* mutant: announced whether created or not
AfterExisting(p) == Advanced(p)

\* ... or the one there is ...
FindFiled(r) ==
    /\ Stands(r, "posting") /\ GoesOn(run[r])
    /\ run[r].cursor \in filed
    /\ run' = [run EXCEPT ![r] = AfterExisting(run[r])]
    /\ UNCHANGED <<rowVars, filed, fired, envVars, troubles>>

CarriesOn(p) == Advanced(p)                         \* mutant: continue for break
AfterTransient(p) == [p EXCEPT !.at = "leaving"]

\* ... or a failure that may pass: the schedule is left where the day is. A
\* schedule deleted meanwhile fails likewise, on the key of its row.
Trouble(r) ==
    /\ Stands(r, "posting") /\ GoesOn(run[r])
    /\ IF schedule.there \/ run[r].cursor \in filed
       THEN troubles < MaxTroubles /\ troubles' = troubles + 1
       ELSE UNCHANGED troubles
    /\ run' = [run EXCEPT ![r] = AfterTransient(run[r])]
    /\ UNCHANGED <<rowVars, filed, fired, envVars>>

\* ... or one that will not.
Impossible(r) ==
    /\ Stands(r, "posting") /\ GoesOn(run[r])
    /\ troubles < MaxTroubles /\ troubles' = troubles + 1
    /\ Step(r, "pausing")
    /\ UNCHANGED <<rowVars, filed, fired, envVars>>

Tell(r) ==
    /\ Stands(r, "telling")
    /\ fired' = [fired EXCEPT ![run[r].cursor] = @ + 1]
    /\ run' = [run EXCEPT ![r] = Advanced(run[r])]
    /\ UNCHANGED <<rowVars, filed, envVars, troubles>>

TellFails(r) ==
    /\ Stands(r, "telling")
    /\ troubles < MaxTroubles /\ troubles' = troubles + 1
    /\ Step(r, "leaving")
    /\ UNCHANGED <<rowVars, filed, fired, envVars>>

Enough(r) ==
    /\ Stands(r, "posting") /\ ~GoesOn(run[r])
    /\ Step(r, "leaving")
    /\ UNCHANGED <<rowVars, filed, fired, envVars, troubles>>

HereAnyway(p) == schedule.there                     \* mutant: by id alone
StillHere(p) == schedule.there /\ schedule.next = p.found.next

\* The schedule moves on, if it is where this run found it; a schedule past its
\* end is finished, and one that is not is as active as it was when found.
Advance(r) ==
    LET p == run[r]
        finished == IsPast(p.cursor, p.found.ends) IN
    /\ Stands(r, "leaving")
    /\ schedule' = IF (p.n > 0 \/ finished) /\ StillHere(p)
                   THEN [schedule EXCEPT !.next = p.cursor,
                                         !.active = IF finished THEN FALSE ELSE p.found.active]
                   ELSE schedule
    /\ run' = [Written(schedule') EXCEPT ![r] = Resting]
    /\ UNCHANGED <<skipped, filed, fired, envVars, troubles>>

WorkOn(r) ==
    \/ Consider(r) \/ Pause(r) \/ File(r) \/ FindFiled(r) \/ Tell(r) \/ Enough(r) \/ Advance(r)

-----------------------------------------------------------------------------
(* People, time and restarts                                               *)

Edited ==
    /\ edits < MaxEdits /\ edits' = edits + 1
    /\ UNCHANGED <<filed, fired, today, troubles>>

\* PATCH reads the row ...
Load ==
    /\ schedule.there /\ ~loaded.there
    /\ loaded' = schedule
    /\ UNCHANGED <<rowVars, barred, run>>
    /\ Edited

Later(a, b) == IF a > b THEN a ELSE b
Yesterday == IF today > FirstDay THEN today - 1 ELSE FirstDay

ResumedAt == Later(loaded.next, Yesterday)

\* ... and writes what was asked of it, resuming from yesterday on what it read as
\* switched off. The days jumped over are gone without.
Save ==
    \E active \in BOOLEAN, ends \in {schedule.ends, Never} \cup Ends,
      asked \in {Never} \cup Yesterday..LastDay :
        LET next == IF asked # Never THEN asked
                    ELSE IF active /\ ~loaded.active THEN ResumedAt ELSE schedule.next IN
        /\ loaded.there /\ schedule.there
        /\ schedule' = [schedule EXCEPT !.active = active, !.ends = ends, !.next = next]
        /\ skipped' = skipped \cup {d \in Days : schedule.next <= d /\ d < next}
        /\ run' = Overtake(InFlight)
        /\ loaded' = NotLoaded
        /\ UNCHANGED <<barred, filed, fired, today, edits, troubles>>

Delete ==
    /\ schedule.there
    /\ schedule' = [schedule EXCEPT !.there = FALSE]
    /\ run' = Overtake(InFlight) /\ loaded' = NotLoaded
    /\ UNCHANGED <<skipped, barred>>
    /\ Edited

\* Somebody in its split leaves the group, or comes back.
MembersChange ==
    /\ barred' = ~barred
    /\ run' = Overtake(InFlight \ {"found"})
    /\ UNCHANGED <<rowVars, loaded>>
    /\ Edited

NextDay ==
    /\ today < LastDay /\ today' = today + 1
    /\ UNCHANGED <<rowVars, barred, filed, fired, run, loaded, edits, troubles>>

RunsEnd ==
    /\ troubles < MaxTroubles /\ troubles' = troubles + 1
    /\ \E r \in Runs : ~Stands(r, "idle")
    /\ run' = [r \in Runs |-> Resting]
    /\ UNCHANGED <<rowVars, filed, fired, envVars>>

ByPeople == Load \/ Save \/ Delete \/ MembersChange

RecurrenceNext ==
    \/ \E r \in Runs : Find(r) \/ WorkOn(r) \/ Trouble(r) \/ Impossible(r) \/ TellFails(r)
    \/ ByPeople \/ NextDay \/ RunsEnd

RecurrenceSpec == RecurrenceInit /\ [][RecurrenceNext]_recurrenceVars
-----------------------------------------------------------------------------

RecurrenceTypeOK ==
    /\ schedule \in [there : BOOLEAN, active : BOOLEAN, next : Cursor, ends : Ends \cup {Never}]
    /\ loaded \in [there : BOOLEAN, active : BOOLEAN, next : Cursor, ends : Ends \cup {Never}]
    /\ barred \in BOOLEAN /\ filed \subseteq Days /\ skipped \subseteq Days
    /\ fired \in [Days -> Nat]
    /\ run \in [Runs -> [at : InFlight \cup {"idle"}, found : [there : BOOLEAN,
                 active : BOOLEAN, next : Cursor, ends : Ends \cup {Never}],
                 now : Days, cursor : Cursor, n : Nat, stale : BOOLEAN]]
    /\ today \in Days /\ edits \in Nat /\ troubles \in Nat

\* Every day the schedule has passed has its expense, unless a person chose to go
\* without it (processRecurrence: the schedule is left where a day that could not be
\* filed is).
NothingSkipped == \A d \in Days : d < schedule.next => d \in filed \cup skipped

\* The group is told of a day once, whatever runs race, are restarted, or meet a
\* day that somebody moved the schedule back to ("only the run that actually wrote
\* the row announces it", recurrence.ts).
FiredOnce == \A d \in Days : fired[d] <= (IF d \in filed THEN 1 ELSE 0)

\* A run has posted, or found posted, each day from the one it found to its cursor,
\* and the day it is about to announce is its own to announce.
PostedUpTo ==
    \A r \in Runs : LET p == run[r] IN p.at # "idle" =>
        /\ p.found.next <= p.cursor /\ p.n = p.cursor - p.found.next
        /\ p.found.next..(p.cursor - 1) \subseteq filed
        /\ p.at = "telling" => /\ p.cursor \in filed /\ fired[p.cursor] = 0
                              /\ \A q \in Runs : run[q].at = "telling" /\ q # r =>
                                    run[q].cursor # p.cursor

\* What the proofs about a repeating expense rest on.
RecurrenceInv == RecurrenceTypeOK /\ NothingSkipped /\ FiredOnce /\ PostedUpTo

\* No run winds the schedule back: only a person moves it to an earlier day ("two
\* runs can never wind it backwards", recurrence.ts).
NeverWoundBack == [][loaded' = loaded => schedule'.next >= schedule.next]_recurrenceVars

\* What a run files is due, of a schedule that is there, on and not past its end, in
\* a group they are all in, unless that changed when it had read it already.
FiledAsAsked ==
    [][\A r \in Runs : filed' # filed /\ run'[r] # run[r] /\ ~run[r].stale =>
          /\ schedule.there /\ schedule.active /\ ~barred
          /\ run[r].cursor \in schedule.next..today
          /\ ~IsPast(run[r].cursor, schedule.ends)]_recurrenceVars

\* What was switched off stays off until a person switches it on ("the pause was
\* deliberate", recurrences/[id]/route.ts).
StaysPaused == [][~schedule.active /\ schedule'.active => loaded' # loaded]_recurrenceVars

\* A schedule that stays on catches up with today, however far behind, whatever
\* fails for a while and whoever races ("the next run picks it up", recurrence.ts).
CatchesUp ==
    []<>(schedule.there /\ schedule.active => schedule.next > today)
=============================================================================
