------------------------------ MODULE Calendar ------------------------------
(***************************************************************************)
(* The days of a repeating expense: nextOccurrence of server/recurrence.ts *)
(* over the wall clocks of lib/zoned.ts. An instant is an hour of UTC, a   *)
(* reading of a clock on a wall an hour of its zone, both counted from the *)
(* first of January of FirstYear; minutes pass as hours do. A zone is its  *)
(* offset before and after the one instant at which its clocks change.     *)
(***************************************************************************)
EXTENDS Integers, FiniteSets

CONSTANTS
    FirstYear,
    Zones,                  \* [before, after, change]
    Starts,                 \* the readings a series may start at, in its zone
    Intervals,
    MaxOccurrences          \* bound

Frequencies == {"DAILY", "WEEKLY", "BIWEEKLY", "MONTHLY", "QUARTERLY", "YEARLY"}

ASSUME CalendarAssumption ==
    /\ FirstYear \in Nat /\ MaxOccurrences \in Nat
    /\ Zones \subseteq [before : Int, after : Int, change : Int]
    /\ Starts \subseteq Nat /\ Intervals \subseteq Nat \ {0}

VARIABLES
    series,     \* zone, frequency, interval, dayOfMonth, startDate
    dueAt,      \* nextRunAt
    passed,     \* how many occurrences have come due
    ids         \* those of the expenses filed for them

calendarVars == <<series, dueAt, passed, ids>>

-----------------------------------------------------------------------------
(* zoned.ts                                                                *)

Offset(zone, t) == IF t < zone.change THEN zone.before ELSE zone.after

WallClock(zone, t) == t + Offset(zone, t)

OneCorrection(zone, w) ==       \* mutant: corrected once
    w + (w - WallClock(zone, w))

\* Guessed, and corrected twice.
FromWallClock(zone, w) ==
    LET guess == w + (w - WallClock(zone, w))
    IN  guess + (w - WallClock(zone, guess))

\* A series starts in FirstYear or later, whatever its clock then reads.
ASSUME StartsAssumption ==
    \A zone \in Zones, w \in Starts : WallClock(zone, FromWallClock(zone, w)) \in Nat

DayOf(w)  == w \div 24
HourOf(w) == w % 24

IsLeap(year) == year % 4 = 0 /\ (year % 100 # 0 \/ year % 400 = 0)

\* MonthsOf are counted from January of FirstYear.
DaysInMonth(m) ==
    CASE m % 12 \in {3, 5, 8, 10} -> 30
      [] m % 12 = 1 -> IF IsLeap(FirstYear + m \div 12) THEN 29 ELSE 28
      [] OTHER -> 31

FirstOfMonth[m \in Nat] ==
    IF m = 0 THEN 0 ELSE FirstOfMonth[m - 1] + DaysInMonth(m - 1)

\* No month is longer than 31 days.
MonthOf(day) ==
    CHOOSE m \in (day \div 31)..day : FirstOfMonth[m] <= day /\ day < FirstOfMonth[m + 1]

DayOfMonth(day) == day - FirstOfMonth[MonthOf(day)] + 1

-----------------------------------------------------------------------------
(* recurrence.ts                                                           *)

DaysOf(frequency) ==
    CASE frequency = "DAILY" -> 1 [] frequency = "WEEKLY" -> 7 [] OTHER -> 14

MonthsOf(frequency) ==
    CASE frequency = "MONTHLY" -> 1 [] frequency = "QUARTERLY" -> 3 [] OTHER -> 12

ByMonths(frequency) == frequency \in {"MONTHLY", "QUARTERLY", "YEARLY"}

Clamped(day, m) == IF day <= DaysInMonth(m) THEN day ELSE DaysInMonth(m)

\* addDays and addMonthsInZone, on the wall.
NextReading(s, w) ==
    IF ByMonths(s.frequency)
    THEN LET m == MonthOf(DayOf(w)) + MonthsOf(s.frequency) * s.interval
         IN  24 * (FirstOfMonth[m] + Clamped(s.anchor, m) - 1) + HourOf(w)
    ELSE w + 24 * DaysOf(s.frequency) * s.interval

NextOccurrence(s, t) == FromWallClock(s.zone, NextReading(s, WallClock(s.zone, t)))

\* The calendar date, of UTC.
OccurrenceId(t) == DayOf(t)

\* POST /api/recurrences: the first is due at its start.
CalendarInit ==
    \E zone \in Zones, frequency \in Frequencies, interval \in Intervals, w \in Starts :
        LET start == FromWallClock(zone, w) IN
        /\ series = [zone |-> zone, frequency |-> frequency, interval |-> interval,
                     start |-> start,
                     anchor |-> DayOfMonth(DayOf(WallClock(zone, start)))]
        /\ dueAt = start
        /\ passed = 0
        /\ ids = {}

\* One occurrence is filed, unless its expense is there, and the next is due.
Occur ==
    /\ passed < MaxOccurrences
    /\ passed' = passed + 1
    /\ ids' = ids \cup {OccurrenceId(dueAt)}
    /\ dueAt' = NextOccurrence(series, dueAt)
    /\ UNCHANGED series

CalendarNext == Occur

CalendarSpec == CalendarInit /\ [][CalendarNext]_calendarVars

-----------------------------------------------------------------------------

FirstReading == WallClock(series.zone, series.start)

\* What a calendar on the wall says of the n-th occurrence after the first,
\* reckoned from the first and not from the one before.
Expected(n) ==
    LET k == n * series.interval
        m == MonthOf(DayOf(FirstReading)) + k * MonthsOf(series.frequency)
    IN  IF ByMonths(series.frequency)
        THEN 24 * (FirstOfMonth[m] + Clamped(DayOfMonth(DayOf(FirstReading)), m) - 1) + HourOf(FirstReading)
        ELSE FirstReading + 24 * k * DaysOf(series.frequency)

\* The clocks go forward over it.
Missing(w) ==
    LET zone == series.zone
    IN  zone.change + zone.before <= w /\ w < zone.change + zone.after

\* However many periods have passed, the next occurrence is on the day of the
\* month and at the time of day of the first: short months and changes of the
\* clocks leave no trace on those after, unless one falls in the hour skipped
\* ("so 'the 1st' is their 1st", recurrence.ts).
KeepsItsTime ==
    (\A n \in 1..passed : ~Missing(Expected(n)))
        => WallClock(series.zone, dueAt) = Expected(passed)

\* Every occurrence that has come due is filed, none taken for the one before
\* ("Posts every occurrence that has come due", runDueRecurrences, recurrence.ts).
EachHasAnId == Cardinality(ids) = passed
=============================================================================
