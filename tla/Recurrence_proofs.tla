----------------------------- MODULE Recurrence_proofs ------------------------
(***************************************************************************)
(* Theorems about the repeating expense of module Recurrence, for any      *)
(* number of runs, any calendar, and any number of edits, failures and     *)
(* restarts, and about the days it falls on (module Calendar), for any     *)
(* zones, starts and intervals.                                            *)
(***************************************************************************)
EXTENDS Recurrence, Calendar, Sums

RowType == [there : BOOLEAN, active : BOOLEAN, next : Cursor, ends : Ends \cup {Never}]
RunType == [at : InFlight \cup {"idle"}, found : RowType, now : Days, cursor : Cursor,
            n : Nat, stale : BOOLEAN]

LEMMA RunTyped == RecurrenceTypeOK => run \in [Runs -> RunType]
BY DEF RecurrenceTypeOK, RunType, RowType

LEMMA RunNumbers ==
    ASSUME NEW p \in RunType
    PROVE  p.cursor \in Int /\ p.now \in Int /\ p.n \in Int /\ p.found.next \in Int
<1>1. Cursor \subseteq Int /\ Days \subseteq Int
  BY RecurrenceAssumption DEF Cursor, Days
<1>2. p.cursor \in Cursor /\ p.now \in Days /\ p.n \in Nat /\ p.found \in RowType
  BY DEF RunType
<1>3. p.found.next \in Cursor
  BY <1>2 DEF RowType
<1>4. p.n \in Int
  BY <1>2
<1>5. p.cursor \in Int /\ p.now \in Int /\ p.found.next \in Int
  BY <1>1, <1>2, <1>3, Zenon
<1> QED
  BY <1>4, <1>5

Marked(p, labels) == [p EXCEPT !.stale = @ \/ p.at \in labels]

\* Marking runs as overtaken changes nothing else of them.
LEMMA OvertakeKeeps ==
    ASSUME run \in [Runs -> RunType], NEW labels
    PROVE  /\ Overtake(labels) \in [Runs -> RunType]
           /\ \A r \in Runs :
                 /\ Overtake(labels)[r].at = run[r].at
                 /\ Overtake(labels)[r].found = run[r].found
                 /\ Overtake(labels)[r].now = run[r].now
                 /\ Overtake(labels)[r].cursor = run[r].cursor
                 /\ Overtake(labels)[r].n = run[r].n
                 /\ ~Overtake(labels)[r].stale => ~run[r].stale
                 /\ run[r].at \in labels => Overtake(labels)[r].stale
<1>1. ASSUME NEW p \in RunType
      PROVE  /\ Marked(p, labels) \in RunType
             /\ Marked(p, labels).at = p.at /\ Marked(p, labels).found = p.found
             /\ Marked(p, labels).now = p.now /\ Marked(p, labels).cursor = p.cursor
             /\ Marked(p, labels).n = p.n
             /\ ~Marked(p, labels).stale => ~p.stale
             /\ p.at \in labels => Marked(p, labels).stale
  <2> DEFINE b == p.stale \/ p.at \in labels
  <2>1. b \in BOOLEAN /\ (~b => ~p.stale) /\ (p.at \in labels => b)
    OBVIOUS
  <2>2. Marked(p, labels) = [p EXCEPT !.stale = b]
    BY DEF Marked
  <2> QED
    <3> HIDE DEF b
    <3> QED
      BY <2>1, <2>2 DEF RunType
<1>2. Overtake(labels) = [r \in Runs |-> Marked(run[r], labels)]
  BY DEF Overtake, Marked
<1> QED
  BY <1>1, <1>2

LEMMA RestingTyped == Resting \in RunType
BY RecurrenceAssumption DEF Resting, RunType, RowType, Cursor, Days, Never

-----------------------------------------------------------------------------
(* Type correctness.                                                       *)

\* The shape of everything but the runs.
RestOK ==
    /\ schedule \in RowType /\ loaded \in RowType
    /\ barred \in BOOLEAN /\ filed \subseteq Days /\ skipped \subseteq Days
    /\ fired \in [Days -> Nat]
    /\ today \in Days /\ edits \in Nat /\ troubles \in Nat

LEMMA TypeParts == RecurrenceTypeOK <=> RestOK /\ run \in [Runs -> RunType]
BY DEF RecurrenceTypeOK, RestOK, RunType, RowType

LEMMA RecurrenceBegins == RecurrenceInit => RecurrenceInv
<1> SUFFICES ASSUME RecurrenceInit PROVE RecurrenceInv
  OBVIOUS
<1>1. PICK e \in Ends \cup {Never} :
         schedule = [there |-> TRUE, active |-> TRUE, next |-> FirstDay, ends |-> e]
  BY DEF RecurrenceInit
<1>2. schedule \in RowType /\ NotLoaded \in RowType
  BY <1>1, RecurrenceAssumption DEF RowType, NotLoaded, Cursor, Never
<1>3. run \in [Runs -> RunType]
  BY RestingTyped DEF RecurrenceInit
<1>4. RestOK
  <2>1. /\ barred = FALSE /\ filed = {} /\ fired = [d \in Days |-> 0] /\ skipped = {}
        /\ loaded = NotLoaded /\ today = Today0 /\ edits = 0 /\ troubles = 0
    BY DEF RecurrenceInit
  <2>2. Today0 \in Days
    BY RecurrenceAssumption DEF Days
  <2> QED
    BY <1>2, <2>1, <2>2 DEF RestOK
<1>5. NothingSkipped /\ FiredOnce
  BY <1>1, RecurrenceAssumption DEF RecurrenceInit, NothingSkipped, FiredOnce, Days
<1>6. PostedUpTo
  BY DEF RecurrenceInit, PostedUpTo, Resting
<1> QED
  BY <1>3, <1>4, <1>5, <1>6, TypeParts DEF RecurrenceInv

LEMMA AdvancedTyped ==
    ASSUME NEW p \in RunType, GoesOn(p) \/ p.cursor \in Days PROVE Advanced(p) \in RunType
<1>1. p.cursor \in Days
  BY RecurrenceAssumption DEF GoesOn, RunType, Cursor, Days
<1>2. p.cursor + 1 \in Cursor /\ p.n + 1 \in Nat
  BY <1>1, RecurrenceAssumption DEF RunType, Cursor, Days
<1> QED
  BY <1>2 DEF Advanced, RunType, InFlight

LEMMA RunSteps ==
    ASSUME RecurrenceInv, NEW r \in Runs,
           \/ Find(r) \/ WorkOn(r) \/ Trouble(r) \/ Impossible(r) \/ TellFails(r)
    PROVE  RecurrenceTypeOK'
<1> SUFFICES RestOK' /\ run' \in [Runs -> RunType]
  BY TypeParts DEF RecurrenceTypeOK, RestOK, RunType, RowType
<1>0. RestOK /\ run \in [Runs -> RunType] /\ run[r] \in RunType
  BY TypeParts DEF RecurrenceInv
<1>1. CASE Find(r)
  <2>1. [at |-> "found", found |-> schedule, now |-> today, cursor |-> schedule.next,
         n |-> 0, stale |-> FALSE] \in RunType
    BY <1>0 DEF RestOK, RowType, RunType, InFlight
  <2> QED
    BY <1>0, <1>1, <2>1 DEF Find, RestOK, rowVars, envVars
<1>2. ASSUME NEW to \in InFlight, Step(r, to) PROVE run' \in [Runs -> RunType]
  BY <1>0, <1>2 DEF Step, RunType
<1>3. CASE Consider(r)
  BY <1>0, <1>2, <1>3 DEF Consider, RestOK, rowVars, envVars, InFlight
<1>4. CASE Pause(r) \/ Advance(r)
  <2> DEFINE finished == IsPast(run[r].cursor, run[r].found.ends)
  <2>1. schedule' \in RowType
    <3>1. /\ (schedule.active /\ ~schedule.there) \in BOOLEAN
          /\ (IF finished THEN FALSE ELSE run[r].found.active) \in BOOLEAN
          /\ run[r].cursor \in Cursor
      BY <1>0 DEF RunType, RowType
    <3>2. CASE Pause(r)
      BY <1>0, <3>1, <3>2 DEF Pause, RestOK, RowType
    <3>3. CASE Advance(r)
      BY <1>0, <3>1, <3>3 DEF Advance, RestOK, RowType
    <3> QED
      BY <1>4, <3>2, <3>3
  <2>2. Written(schedule') \in [Runs -> RunType]
    BY <1>0, OvertakeKeeps DEF Written
  <2> QED
    BY <1>0, <1>4, <2>1, <2>2, RestingTyped DEF Pause, Advance, RestOK, envVars
<1>5. CASE File(r)
  <2>1. run[r].cursor \in Days
    BY <1>0, <1>5, RecurrenceAssumption DEF File, GoesOn, RunType, Cursor, Days
  <2> QED
    BY <1>0, <1>2, <1>5, <2>1 DEF File, RestOK, rowVars, envVars, InFlight
<1>6. CASE FindFiled(r)
  BY <1>0, <1>6, AdvancedTyped DEF FindFiled, AfterExisting, RestOK, rowVars, envVars
<1>7. CASE Tell(r)
  <2>1. run[r].cursor \in Days
    BY <1>0, <1>7 DEF Tell, Stands, RecurrenceInv, PostedUpTo, RestOK
  <2>2. fired' \in [Days -> Nat]
    BY <1>0, <1>7, <2>1 DEF Tell, RestOK
  <2> QED
    BY <1>0, <1>7, <2>1, <2>2, AdvancedTyped DEF Tell, RestOK, rowVars, envVars
<1>8. CASE Enough(r) \/ Impossible(r) \/ TellFails(r)
  BY <1>0, <1>2, <1>8 DEF Enough, Impossible, TellFails, RestOK, rowVars, envVars, InFlight
<1>9. CASE Trouble(r)
  <2>1. AfterTransient(run[r]) \in RunType
    BY <1>0 DEF AfterTransient, RunType, InFlight
  <2> QED
    BY <1>0, <1>9, <2>1 DEF Trouble, RestOK, rowVars, envVars
<1> QED
  BY <1>1, <1>3, <1>4, <1>5, <1>6, <1>7, <1>8, <1>9 DEF WorkOn

\* What a PATCH writes: any day of the calendar, those jumped over gone without.
LEMMA SaveMoves ==
    ASSUME RestOK, Save
    PROVE  \E active \in BOOLEAN, ends \in Ends \cup {Never}, next \in Cursor :
              /\ schedule' = [schedule EXCEPT !.active = active, !.ends = ends, !.next = next]
              /\ skipped' = skipped \cup {d \in Days : schedule.next <= d /\ d < next}
<1>1. PICK active \in BOOLEAN, ends \in {schedule.ends, Never} \cup Ends,
           asked \in {Never} \cup Yesterday..LastDay : Save!(active, ends, asked)
  BY DEF Save
<1> DEFINE next == IF asked # Never THEN asked
                   ELSE IF active /\ ~loaded.active THEN ResumedAt ELSE schedule.next
<1>2. next \in Cursor
  BY RecurrenceAssumption
     DEF RestOK, RowType, ResumedAt, Later, Yesterday, Cursor, Days, Never
<1>3. /\ schedule' = [schedule EXCEPT !.active = active, !.ends = ends, !.next = next]
      /\ skipped' = skipped \cup {d \in Days : schedule.next <= d /\ d < next}
  BY <1>1
<1>4. ends \in Ends \cup {Never}
  BY DEF RestOK, RowType
<1> QED
  BY <1>2, <1>3, <1>4

LEMMA OtherSteps ==
    ASSUME RecurrenceTypeOK, ByPeople \/ NextDay \/ RunsEnd
    PROVE  RecurrenceTypeOK'
<1> SUFFICES RestOK' /\ run' \in [Runs -> RunType]
  BY TypeParts DEF RecurrenceTypeOK, RestOK, RunType, RowType
<1>0. RestOK /\ run \in [Runs -> RunType]
  BY TypeParts
<1>1. NotLoaded \in RowType
  BY RecurrenceAssumption DEF NotLoaded, RowType, Cursor, Never
<1>2. CASE Load
  BY <1>0, <1>2 DEF Load, Edited, RestOK, rowVars
<1>3. CASE Save
  <2>1. PICK active \in BOOLEAN, ends \in Ends \cup {Never}, next \in Cursor :
           /\ schedule' = [schedule EXCEPT !.active = active, !.ends = ends, !.next = next]
           /\ skipped' = skipped \cup {d \in Days : schedule.next <= d /\ d < next}
    BY <1>0, <1>3, SaveMoves
  <2>2. schedule' \in RowType
    BY <1>0, <2>1 DEF RestOK, RowType
  <2> QED
    BY <1>0, <1>1, <1>3, <2>1, <2>2, OvertakeKeeps DEF Save, RestOK
<1>4. CASE Delete
  <2>1. schedule' \in RowType
    BY <1>0, <1>4 DEF Delete, RestOK, RowType
  <2> QED
    BY <1>0, <1>1, <1>4, <2>1, OvertakeKeeps DEF Delete, Edited, RestOK
<1>5. CASE MembersChange
  BY <1>0, <1>5, OvertakeKeeps DEF MembersChange, Edited, RestOK, rowVars
<1>6. CASE NextDay
  BY <1>0, <1>6, RecurrenceAssumption DEF NextDay, RestOK, rowVars, Days
<1>7. CASE RunsEnd
  BY <1>0, <1>7, RestingTyped DEF RunsEnd, RestOK, rowVars, envVars
<1> QED
  BY <1>2, <1>3, <1>4, <1>5, <1>6, <1>7 DEF ByPeople

LEMMA RecurrenceTypes == RecurrenceInv /\ [RecurrenceNext]_recurrenceVars => RecurrenceTypeOK'
<1> SUFFICES ASSUME RecurrenceInv, [RecurrenceNext]_recurrenceVars PROVE RecurrenceTypeOK'
  OBVIOUS
<1>1. CASE UNCHANGED recurrenceVars
  BY <1>1 DEF recurrenceVars, RecurrenceInv, RecurrenceTypeOK
<1> QED
  BY <1>1, RunSteps, OtherSteps DEF RecurrenceNext, RecurrenceInv

-----------------------------------------------------------------------------
(* What a step does to the runs.                                           *)

\* A run stands where it stood; but for what it read, which may be overtaken.
SameRun(q) ==
    /\ run'[q].at = run[q].at /\ run'[q].found = run[q].found
    /\ run'[q].now = run[q].now
    /\ run'[q].cursor = run[q].cursor /\ run'[q].n = run[q].n

\* A run goes from one place to another, with what it had.
Goes(r, to) ==
    /\ run'[r].at = to /\ run'[r].found = run[r].found /\ run'[r].now = run[r].now
    /\ run'[r].cursor = run[r].cursor /\ run'[r].n = run[r].n
    /\ run'[r].stale = run[r].stale

\* It goes on to the next day.
GoesToNext(r) ==
    /\ run'[r].at = "posting" /\ run'[r].found = run[r].found /\ run'[r].now = run[r].now
    /\ run'[r].cursor = run[r].cursor + 1 /\ run'[r].n = run[r].n + 1
    /\ run'[r].stale = run[r].stale

OnlyRun(r) == \A q \in Runs \ {r} : run'[q] = run[q]

LEMMA StepGoes ==
    ASSUME run \in [Runs -> RunType], NEW r \in Runs, NEW to, Step(r, to)
    PROVE  Goes(r, to) /\ OnlyRun(r)
BY DEF Step, RunType, Goes, OnlyRun

LEMMA RunGoes ==
    ASSUME run \in [Runs -> RunType], NEW r \in Runs
    PROVE  /\ Consider(r) => Goes(r, IF barred THEN "pausing" ELSE "posting") /\ OnlyRun(r)
           /\ File(r) => Goes(r, "telling") /\ OnlyRun(r)
           /\ Impossible(r) => Goes(r, "pausing") /\ OnlyRun(r)
           /\ TellFails(r) \/ Enough(r) \/ Trouble(r) => Goes(r, "leaving") /\ OnlyRun(r)
           /\ FindFiled(r) \/ Tell(r) => GoesToNext(r) /\ OnlyRun(r)
<1>1. Consider(r) => Goes(r, IF barred THEN "pausing" ELSE "posting") /\ OnlyRun(r)
  BY StepGoes DEF Consider
<1>2. File(r) => Goes(r, "telling") /\ OnlyRun(r)
  BY StepGoes DEF File
<1>3. Impossible(r) => Goes(r, "pausing") /\ OnlyRun(r)
  BY StepGoes DEF Impossible
<1>4. TellFails(r) \/ Enough(r) => Goes(r, "leaving") /\ OnlyRun(r)
  BY StepGoes DEF TellFails, Enough
<1>5. Trouble(r) => Goes(r, "leaving") /\ OnlyRun(r)
  BY DEF Trouble, AfterTransient, RunType, Goes, OnlyRun
<1>6. ASSUME FindFiled(r) \/ Tell(r) PROVE GoesToNext(r) /\ OnlyRun(r)
  <2>1. run' = [run EXCEPT ![r] = Advanced(run[r])]
    BY <1>6 DEF FindFiled, Tell, AfterExisting
  <2> QED
    BY <2>1 DEF Advanced, RunType, GoesToNext, OnlyRun
<1> QED
  BY <1>1, <1>2, <1>3, <1>4, <1>5, <1>6

LEMMA RunEnds ==
    ASSUME run \in [Runs -> RunType], NEW r \in Runs, Pause(r) \/ Advance(r)
    PROVE  /\ run'[r].at = "idle"
           /\ \A q \in Runs \ {r} :
                 /\ SameRun(q)
                 /\ ~run'[q].stale => ~run[q].stale
                 /\ schedule'.active # schedule.active /\ run[q].at \in InFlight => run'[q].stale
<1>1. Written(schedule') \in [Runs -> RunType]
  BY OvertakeKeeps DEF Written
<1>2. run' = [Written(schedule') EXCEPT ![r] = Resting]
  BY DEF Pause, Advance
<1>3. ASSUME NEW q \in Runs \ {r}
      PROVE  /\ SameRun(q)
             /\ ~run'[q].stale => ~run[q].stale
             /\ schedule'.active # schedule.active /\ run[q].at \in InFlight => run'[q].stale
  <2>1. run'[q] = Written(schedule')[q]
    BY <1>1, <1>2
  <2>2. CASE schedule'.active # schedule.active
    <3>1. run'[q] = Overtake(InFlight)[q]
      BY <2>1, <2>2 DEF Written
    <3> QED
      BY <3>1, OvertakeKeeps DEF SameRun
  <2>3. CASE schedule'.active = schedule.active
    BY <2>1, <2>3 DEF Written, SameRun
  <2> QED
    BY <2>2, <2>3
<1> QED
  BY <1>1, <1>2, <1>3 DEF Resting

LEMMA EditOvertakes ==
    ASSUME run \in [Runs -> RunType], NEW r \in Runs, Save \/ Delete
    PROVE  SameRun(r) /\ (run[r].at \in InFlight => run'[r].stale)
<1>1. run' = Overtake(InFlight)
  BY DEF Save, Delete
<1> QED
  BY <1>1, OvertakeKeeps DEF SameRun

LEMMA MembersOvertake ==
    ASSUME run \in [Runs -> RunType], NEW r \in Runs, MembersChange
    PROVE  /\ SameRun(r) /\ (~run'[r].stale => ~run[r].stale)
           /\ run[r].at \in InFlight \ {"found"} => run'[r].stale
<1>1. run' = Overtake(InFlight \ {"found"})
  BY DEF MembersChange
<1> QED
  BY <1>1, OvertakeKeeps DEF SameRun

-----------------------------------------------------------------------------
(* The three parts of RecurrenceInv.                                       *)

\* Only a run that moves the schedule on, and a person, change its next day.
LEMMA NextKept ==
    ASSUME RecurrenceTypeOK, NEW r \in Runs,
           \/ Find(r) \/ WorkOn(r) \/ Trouble(r) \/ Impossible(r) \/ TellFails(r)
    PROVE  /\ filed \subseteq filed' /\ skipped' = skipped
           /\ schedule'.ends = schedule.ends /\ schedule'.there = schedule.there
           /\ \/ schedule'.next = schedule.next
              \/ /\ Advance(r) /\ schedule'.next = run[r].cursor
                 /\ schedule.next = run[r].found.next
<1>0. RestOK
  BY TypeParts
<1>1. CASE Advance(r)
  BY <1>0, <1>1 DEF Advance, StillHere, RestOK, RowType
<1>2. CASE Pause(r)
  BY <1>0, <1>2 DEF Pause, RestOK, RowType
<1>3. CASE File(r)
  BY <1>3 DEF File, rowVars
<1> QED
  BY <1>1, <1>2, <1>3
     DEF Find, WorkOn, Consider, FindFiled, Trouble, Impossible, Tell, TellFails, Enough, rowVars

LEMMA SkippedKept == RecurrenceInv /\ [RecurrenceNext]_recurrenceVars => NothingSkipped'
<1> SUFFICES ASSUME RecurrenceInv, [RecurrenceNext]_recurrenceVars,
                    NEW d \in Days, d < schedule'.next
             PROVE  d \in filed' \cup skipped'
  BY DEF NothingSkipped
<1>0. RecurrenceTypeOK /\ RestOK /\ run \in [Runs -> RunType] /\ Days \subseteq Int /\ Cursor \subseteq Int
  BY TypeParts, RecurrenceAssumption DEF RecurrenceInv, Days, Cursor
<1>1. d < schedule.next => d \in filed \cup skipped
  BY DEF RecurrenceInv, NothingSkipped
<1>2. ASSUME NEW r \in Runs,
             \/ Find(r) \/ WorkOn(r) \/ Trouble(r) \/ Impossible(r) \/ TellFails(r)
      PROVE  d \in filed' \cup skipped'
  <2>1. filed \subseteq filed' /\ skipped' = skipped
    BY <1>0, <1>2, NextKept
  <2>2. CASE schedule'.next = schedule.next
    BY <1>1, <2>1, <2>2
  <2>3. CASE /\ Advance(r) /\ schedule'.next = run[r].cursor
             /\ schedule.next = run[r].found.next
    <3>1. run[r].found.next..(run[r].cursor - 1) \subseteq filed
      BY <2>3 DEF RecurrenceInv, PostedUpTo, Advance, Stands
    <3>2. d \in Int /\ run[r].found.next \in Int /\ run[r].cursor \in Int
      BY <1>0, RunNumbers
    <3>3. d \in run[r].found.next..(run[r].cursor - 1) \/ d < schedule.next
      BY <2>3, <3>2
    <3> QED
      BY <1>1, <2>1, <3>1, <3>3
  <2> QED
    BY <1>0, <1>2, <2>2, <2>3, NextKept
<1>3. CASE Save
  <2>1. PICK active \in BOOLEAN, ends \in Ends \cup {Never}, next \in Cursor :
           /\ schedule' = [schedule EXCEPT !.active = active, !.ends = ends, !.next = next]
           /\ skipped' = skipped \cup {x \in Days : schedule.next <= x /\ x < next}
    BY <1>0, <1>3, SaveMoves
  <2>2. schedule'.next = next /\ schedule.next \in Int /\ filed' = filed
    BY <1>0, <1>3, <2>1 DEF RestOK, RowType, Save
  <2> QED
    BY <1>0, <1>1, <2>1, <2>2
<1>4. CASE Load \/ Delete \/ MembersChange \/ NextDay \/ RunsEnd
  <2>1. schedule'.next = schedule.next /\ filed' = filed /\ skipped' = skipped
    BY <1>0, <1>4 DEF Load, Delete, MembersChange, NextDay, RunsEnd, Edited, rowVars, RestOK, RowType
  <2> QED
    BY <1>1, <2>1
<1>5. CASE UNCHANGED recurrenceVars
  BY <1>1, <1>5 DEF recurrenceVars
<1> QED
  BY <1>2, <1>3, <1>4, <1>5 DEF RecurrenceNext, ByPeople

LEMMA FiredKept == RecurrenceInv /\ [RecurrenceNext]_recurrenceVars => FiredOnce'
<1> SUFFICES ASSUME RecurrenceInv, [RecurrenceNext]_recurrenceVars PROVE FiredOnce'
  OBVIOUS
<1>0. FiredOnce /\ filed \subseteq Days /\ fired \in [Days -> Nat]
  BY DEF RecurrenceInv, RecurrenceTypeOK
<1>1. CASE fired' = fired /\ filed \subseteq filed'
  BY <1>0, <1>1 DEF FiredOnce
<1>2. ASSUME NEW r \in Runs, Tell(r) PROVE FiredOnce'
  <2>1. run[r].cursor \in filed /\ fired[run[r].cursor] = 0
    BY <1>2 DEF Tell, Stands, RecurrenceInv, PostedUpTo
  <2> QED
    BY <1>0, <1>2, <2>1 DEF Tell, FiredOnce
<1>3. ASSUME NEW r \in Runs,
             \/ Find(r) \/ Consider(r) \/ Pause(r) \/ File(r) \/ FindFiled(r) \/ Enough(r)
             \/ Advance(r) \/ Trouble(r) \/ Impossible(r) \/ TellFails(r)
      PROVE  FiredOnce'
  <2>1. fired' = fired /\ filed \subseteq filed'
    BY <1>3 DEF Find, Consider, Pause, File, FindFiled, Enough, Advance, Trouble, Impossible, TellFails
  <2> QED
    BY <1>1, <2>1
<1>4. CASE ByPeople \/ NextDay \/ RunsEnd
  BY <1>1, <1>4 DEF ByPeople, Load, Save, Delete, MembersChange, Edited, NextDay, RunsEnd
<1>5. CASE UNCHANGED recurrenceVars
  BY <1>1, <1>5 DEF recurrenceVars
<1> QED
  BY <1>2, <1>3, <1>4, <1>5 DEF RecurrenceNext, WorkOn

\* What PostedUpTo says of one run, and of two.
Posted(p) ==
    /\ p.found.next <= p.cursor /\ p.n = p.cursor - p.found.next
    /\ p.found.next..(p.cursor - 1) \subseteq filed
    /\ p.at = "telling" => p.cursor \in filed /\ fired[p.cursor] = 0

TellersApart ==
    \A q, r \in Runs : q # r /\ run[q].at = "telling" /\ run[r].at = "telling"
        => run[q].cursor # run[r].cursor

LEMMA PostedParts ==
    PostedUpTo <=> TellersApart /\ \A r \in Runs : run[r].at # "idle" => Posted(run[r])
BY DEF PostedUpTo, Posted, TellersApart

\* A run that stays where it is is not disturbed by rows and announcements of others.
LEMMA PostedStays ==
    ASSUME RecurrenceInv, NEW r \in Runs, SameRun(r), run[r].at # "idle",
           filed \subseteq filed', run[r].at = "telling" => fired'[run[r].cursor] = 0
    PROVE  Posted(run[r])'
<1>1. Posted(run[r])
  BY PostedParts DEF RecurrenceInv
<1> QED
  BY <1>1 DEF Posted, SameRun

LEMMA PostedKept == RecurrenceInv /\ [RecurrenceNext]_recurrenceVars => PostedUpTo'
<1> SUFFICES ASSUME RecurrenceInv, [RecurrenceNext]_recurrenceVars
             PROVE  TellersApart' /\ \A r \in Runs : run'[r].at # "idle" => Posted(run[r])'
  BY PostedParts DEF PostedUpTo, Posted, TellersApart
<1>0. /\ RestOK /\ run \in [Runs -> RunType] /\ TellersApart
      /\ \A r \in Runs : run[r].at # "idle" => Posted(run[r])
      /\ Days \subseteq Int /\ Cursor \subseteq Int
  BY TypeParts, PostedParts, RecurrenceAssumption DEF RecurrenceInv, Days, Cursor
<1>1. ASSUME filed' = filed, fired' = fired, \A r \in Runs : SameRun(r) \/ run'[r].at = "idle"
      PROVE  TellersApart' /\ \A r \in Runs : run'[r].at # "idle" => Posted(run[r])'
  <2>1. TellersApart'
    BY <1>0, <1>1 DEF TellersApart, SameRun
  <2>2. ASSUME NEW r \in Runs, run'[r].at # "idle" PROVE Posted(run[r])'
    <3>1. SameRun(r) /\ run[r].at # "idle"
      BY <1>1, <2>2 DEF SameRun
    <3> QED
      BY <1>0, <1>1, <3>1, PostedStays DEF Posted
  <2> QED
    BY <2>1, <2>2
<1>2. ASSUME NEW r \in Runs, OnlyRun(r), filed' = filed, fired' = fired,
             run'[r].at # "telling", run'[r].at # "idle" => Posted(run[r])'
      PROVE  TellersApart' /\ \A q \in Runs : run'[q].at # "idle" => Posted(run[q])'
  <2>1. TellersApart'
    BY <1>0, <1>2 DEF TellersApart, OnlyRun
  <2>2. ASSUME NEW q \in Runs \ {r}, run'[q].at # "idle" PROVE Posted(run[q])'
    <3>1. SameRun(q) /\ run[q].at # "idle"
      BY <1>2, <2>2 DEF SameRun, OnlyRun
    <3> QED
      BY <1>0, <1>2, <3>1, PostedStays DEF Posted
  <2> QED
    BY <1>2, <2>1, <2>2
<1>3. ASSUME NEW r \in Runs, Find(r)
      PROVE  TellersApart' /\ \A q \in Runs : run'[q].at # "idle" => Posted(run[q])'
  <2>1. /\ run'[r] = [at |-> "found", found |-> schedule, now |-> today,
                      cursor |-> schedule.next, n |-> 0, stale |-> FALSE]
        /\ OnlyRun(r) /\ filed' = filed /\ fired' = fired
    BY <1>0, <1>3 DEF Find, OnlyRun
  <2>2. schedule.next \in Int
    BY <1>0 DEF RestOK, RowType
  <2>3. Posted(run[r])'
    BY <2>1, <2>2 DEF Posted
  <2> QED
    BY <1>2, <2>1, <2>3
<1>4. ASSUME NEW r \in Runs, Consider(r) \/ Impossible(r) \/ TellFails(r) \/ Enough(r) \/ Trouble(r)
      PROVE  TellersApart' /\ \A q \in Runs : run'[q].at # "idle" => Posted(run[q])'
  <2>1. PICK to \in {"pausing", "posting", "leaving"} : Goes(r, to) /\ OnlyRun(r)
    BY <1>0, <1>4, RunGoes
  <2>2. filed' = filed /\ fired' = fired /\ run[r].at # "idle"
    BY <1>4 DEF Consider, Impossible, TellFails, Enough, Trouble, Stands
  <2>3. Posted(run[r])'
    BY <1>0, <2>1, <2>2 DEF Posted, Goes
  <2> QED
    BY <1>2, <2>1, <2>2, <2>3 DEF Goes
<1>5. ASSUME NEW r \in Runs, Pause(r) \/ Advance(r)
      PROVE  TellersApart' /\ \A q \in Runs : run'[q].at # "idle" => Posted(run[q])'
  <2>1. filed' = filed /\ fired' = fired
    BY <1>5 DEF Pause, Advance
  <2>2. \A q \in Runs : SameRun(q) \/ run'[q].at = "idle"
    BY <1>0, <1>5, RunEnds
  <2> QED
    BY <1>1, <2>1, <2>2
<1>6. ASSUME NEW r \in Runs, File(r)
      PROVE  TellersApart' /\ \A q \in Runs : run'[q].at # "idle" => Posted(run[q])'
  <2>1. /\ Goes(r, "telling") /\ OnlyRun(r) /\ fired' = fired
        /\ filed' = filed \cup {run[r].cursor} /\ run[r].cursor \notin filed
        /\ run[r].at = "posting"
    BY <1>0, <1>6, RunGoes DEF File, Stands
  <2>2. \A q \in Runs : run[q].at = "telling" => run[q].cursor \in filed
    BY <1>0 DEF Posted
  <2>3. TellersApart'
    BY <1>0, <2>1, <2>2 DEF TellersApart, Goes, OnlyRun
  <2>4. run[r].cursor \in Days
    BY <1>0, <1>6, RecurrenceAssumption DEF File, GoesOn, RunType, Cursor, Days
  <2>5. fired[run[r].cursor] = 0
    <3>1. fired[run[r].cursor] <= 0 /\ fired[run[r].cursor] \in Nat
      BY <1>0, <2>1, <2>4 DEF RecurrenceInv, FiredOnce, RestOK
    <3> QED
      BY <3>1
  <2>6. Posted(run[r])'
    BY <1>0, <2>1, <2>5 DEF Posted, Goes
  <2>7. ASSUME NEW q \in Runs \ {r}, run'[q].at # "idle" PROVE Posted(run[q])'
    <3>1. SameRun(q) /\ run[q].at # "idle"
      BY <2>1, <2>7 DEF SameRun, OnlyRun
    <3> QED
      BY <1>0, <2>1, <3>1, PostedStays DEF Posted
  <2> QED
    BY <2>3, <2>6, <2>7
<1>7. ASSUME NEW r \in Runs, FindFiled(r) \/ Tell(r)
      PROVE  TellersApart' /\ \A q \in Runs : run'[q].at # "idle" => Posted(run[q])'
  <2>1. /\ GoesToNext(r) /\ OnlyRun(r) /\ filed' = filed
        /\ run[r].cursor \in filed /\ run[r].at # "idle"
    BY <1>0, <1>7, RunGoes DEF FindFiled, Tell, Stands, Posted
  <2>2. TellersApart'
    BY <1>0, <2>1 DEF TellersApart, GoesToNext, OnlyRun
  <2>3. Posted(run[r])'
    <3>1. run[r].cursor \in Int /\ run[r].found.next \in Int /\ run[r].n \in Int
      BY <1>0, RunNumbers
    <3>2. /\ run[r].found.next <= run[r].cursor /\ run[r].n = run[r].cursor - run[r].found.next
          /\ run[r].found.next..(run[r].cursor - 1) \subseteq filed
      BY <1>0, <2>1 DEF Posted
    <3>4. /\ run'[r].found = run[r].found /\ run'[r].cursor = run[r].cursor + 1
          /\ run'[r].n = run[r].n + 1 /\ run'[r].at # "telling"
      BY <2>1 DEF GoesToNext
    <3>5. run'[r].found.next <= run'[r].cursor /\ run'[r].n = run'[r].cursor - run'[r].found.next
      BY <3>1, <3>2, <3>4
    <3>6. run'[r].cursor - 1 = run[r].cursor
      BY <3>1, <3>4
    <3>7. run'[r].found.next..(run'[r].cursor - 1) \subseteq filed'
      BY <2>1, <3>1, <3>2, <3>4, <3>6
    <3> QED
      BY <3>4, <3>5, <3>7 DEF Posted
  <2>4. ASSUME NEW q \in Runs \ {r}, run'[q].at # "idle" PROVE Posted(run[q])'
    <3>1. SameRun(q) /\ run[q].at # "idle"
      BY <2>1, <2>4 DEF SameRun, OnlyRun
    <3>2. ASSUME run[q].at = "telling" PROVE fired'[run[q].cursor] = 0
      <4>1. fired[run[q].cursor] = 0 /\ run[q].cursor \in filed /\ filed \subseteq Days
        BY <1>0, <3>1, <3>2 DEF Posted, RestOK
      <4>2. CASE FindFiled(r)
        BY <4>1, <4>2 DEF FindFiled
      <4>3. CASE Tell(r)
        BY <1>0, <3>2, <4>1, <4>3 DEF Tell, Stands, TellersApart, RestOK
      <4> QED
        BY <1>7, <4>2, <4>3
    <3> QED
      BY <2>1, <3>1, <3>2, PostedStays
  <2> QED
    BY <2>2, <2>3, <2>4
<1>8. CASE ByPeople \/ NextDay
  <2>1. filed' = filed /\ fired' = fired
    BY <1>8 DEF ByPeople, Load, Save, Delete, MembersChange, Edited, NextDay
  <2>2. ASSUME NEW r \in Runs PROVE SameRun(r)
    BY <1>0, <1>8, EditOvertakes, MembersOvertake DEF ByPeople, Load, NextDay, SameRun
  <2> QED
    BY <1>1, <2>1, <2>2
<1>9. CASE RunsEnd
  BY <1>1, <1>9 DEF RunsEnd, Resting
<1>10. CASE UNCHANGED recurrenceVars
  BY <1>1, <1>10 DEF recurrenceVars, SameRun
<1> QED
  BY <1>3, <1>4, <1>5, <1>6, <1>7, <1>8, <1>9, <1>10 DEF RecurrenceNext, WorkOn

LEMMA RecurrenceSteps == RecurrenceInv /\ [RecurrenceNext]_recurrenceVars => RecurrenceInv'
BY RecurrenceTypes, SkippedKept, FiredKept, PostedKept DEF RecurrenceInv

\* Every day the schedule has passed is filed or was given up by a person, and each
\* day is announced once at most, whoever races (server/recurrence.ts).
THEOREM RepeatsInOrder == RecurrenceSpec => []RecurrenceInv
BY RecurrenceBegins, RecurrenceSteps, PTL DEF RecurrenceSpec

-----------------------------------------------------------------------------
(* What a step may not do.                                                 *)

LEMMA GoesForward ==
    RecurrenceInv /\ [RecurrenceNext]_recurrenceVars =>
        (loaded' = loaded => schedule'.next >= schedule.next)
<1> SUFFICES ASSUME RecurrenceInv, [RecurrenceNext]_recurrenceVars, loaded' = loaded
             PROVE  schedule'.next >= schedule.next
  OBVIOUS
<1>0. /\ RecurrenceTypeOK /\ RestOK /\ run \in [Runs -> RunType] /\ schedule.next \in Int
  BY TypeParts, RecurrenceAssumption DEF RecurrenceInv, RestOK, RowType, Cursor
<1>1. ASSUME NEW r \in Runs,
             \/ Find(r) \/ WorkOn(r) \/ Trouble(r) \/ Impossible(r) \/ TellFails(r)
      PROVE  schedule'.next >= schedule.next
  <2>1. CASE schedule'.next = schedule.next
    BY <1>0, <2>1
  <2>2. CASE /\ Advance(r) /\ schedule'.next = run[r].cursor
             /\ schedule.next = run[r].found.next
    <3>1. run[r].found.next <= run[r].cursor
      BY <2>2 DEF RecurrenceInv, PostedUpTo, Advance, Stands
    <3> QED
      BY <1>0, <2>2, <3>1, RecurrenceAssumption DEF RunType, Cursor
  <2> QED
    BY <1>0, <1>1, <2>1, <2>2, NextKept
<1>2. ASSUME Save PROVE FALSE
  <2>1. loaded.there /\ loaded' = NotLoaded
    BY <1>2 DEF Save
  <2> QED
    BY <2>1 DEF NotLoaded
<1>3. CASE Load \/ Delete \/ MembersChange \/ NextDay \/ RunsEnd
  <2>1. schedule'.next = schedule.next
    BY <1>0, <1>3 DEF Load, Delete, MembersChange, NextDay, RunsEnd, Edited, rowVars, RestOK, RowType
  <2> QED
    BY <1>0, <2>1
<1>4. CASE UNCHANGED recurrenceVars
  BY <1>0, <1>4 DEF recurrenceVars
<1> QED
  BY <1>1, <1>2, <1>3, <1>4 DEF RecurrenceNext, ByPeople

\* Two runs can never wind the schedule backwards; only a person's PATCH does.
THEOREM RunsGoForward == RecurrenceSpec => NeverWoundBack
<1>1. RecurrenceInv /\ [RecurrenceNext]_recurrenceVars =>
         [loaded' = loaded => schedule'.next >= schedule.next]_recurrenceVars
  BY GoesForward
<1> QED
  BY RepeatsInOrder, <1>1, PTL DEF RecurrenceSpec, NeverWoundBack

\* What a run read still holds, unless it was overtaken.
Holds(p) ==
    p.at \in {"found", "posting", "telling"} /\ ~p.stale =>
        /\ schedule.there /\ schedule.active /\ schedule.ends = p.found.ends
        /\ p.found.next..(schedule.next - 1) \subseteq filed
        /\ p.at # "found" => ~barred

ReadsHold == \A r \in Runs : Holds(run[r]) /\ (run[r].at # "idle" => run[r].now <= today)

LEMMA ReadsBegin == RecurrenceInit => ReadsHold
BY DEF RecurrenceInit, ReadsHold, Holds, Resting

\* A run that keeps its place, in a schedule that keeps its switches and has moved on
\* over filed days only, holds.
LEMMA HoldsOn ==
    ASSUME RecurrenceInv, ReadsHold, NEW r \in Runs, SameRun(r), ~run'[r].stale => ~run[r].stale,
           filed \subseteq filed', schedule'.next \in Int,
           ~run'[r].stale /\ run[r].at \in {"found", "posting", "telling"} =>
              /\ schedule'.there = schedule.there /\ schedule'.active = schedule.active
              /\ schedule'.ends = schedule.ends
              /\ run[r].at # "found" => barred' = barred
              /\ \A d \in Int : schedule.next <= d /\ d < schedule'.next => d \in filed
    PROVE  Holds(run[r])'
<1>0. run[r].found.next \in Int /\ schedule.next \in Int
  BY TypeParts, RunNumbers, RecurrenceAssumption DEF RecurrenceInv, RestOK, RowType, Cursor
<1> SUFFICES ASSUME run'[r].at \in {"found", "posting", "telling"}, ~run'[r].stale
             PROVE  /\ schedule'.there /\ schedule'.active /\ schedule'.ends = run'[r].found.ends
                    /\ run'[r].found.next..(schedule'.next - 1) \subseteq filed'
                    /\ run'[r].at # "found" => ~barred'
  BY DEF Holds
<1>1. Holds(run[r]) /\ run[r].at = run'[r].at /\ run[r].found = run'[r].found /\ ~run[r].stale
  BY DEF ReadsHold, SameRun
<1>2. /\ schedule.there /\ schedule.active /\ schedule.ends = run[r].found.ends
      /\ run[r].found.next..(schedule.next - 1) \subseteq filed
      /\ run[r].at # "found" => ~barred
  BY <1>1 DEF Holds
<1>3. ASSUME NEW d \in run'[r].found.next..(schedule'.next - 1) PROVE d \in filed'
  <2>1. d \in Int /\ run[r].found.next <= d /\ d < schedule'.next
    BY <1>0, <1>1
  <2>2. CASE d < schedule.next
    BY <1>0, <1>2, <2>1, <2>2
  <2>3. CASE schedule.next <= d
    BY <1>1, <2>1, <2>3
  <2> QED
    BY <1>0, <2>1, <2>2, <2>3
<1>4. schedule'.there /\ schedule'.active
  BY <1>1, <1>2
<1>5. schedule'.ends = run'[r].found.ends
  BY <1>1, <1>2
<1>6. run'[r].at # "found" => ~barred'
  BY <1>1, <1>2
<1> QED
  BY <1>3, <1>4, <1>5, <1>6

LEMMA ReadsKept == RecurrenceInv /\ ReadsHold /\ [RecurrenceNext]_recurrenceVars => ReadsHold'
<1> SUFFICES ASSUME RecurrenceInv, ReadsHold, [RecurrenceNext]_recurrenceVars
             PROVE  \A r \in Runs : /\ Holds(run[r])'
                                    /\ run'[r].at # "idle" => run'[r].now <= today'
  BY DEF ReadsHold, Holds
<1>0. /\ RestOK /\ run \in [Runs -> RunType] /\ RestOK' /\ run' \in [Runs -> RunType]
      /\ schedule.next \in Int /\ schedule'.next \in Int /\ today \in Int /\ today' \in Int
  <2>1. RecurrenceTypeOK /\ RecurrenceTypeOK'
    BY RecurrenceTypes DEF RecurrenceInv
  <2>2. RestOK /\ run \in [Runs -> RunType] /\ RestOK' /\ run' \in [Runs -> RunType]
    BY <2>1, TypeParts DEF RecurrenceTypeOK, RestOK, RunType, RowType
  <2>3. Cursor \subseteq Int /\ Days \subseteq Int
    BY RecurrenceAssumption DEF Cursor, Days
  <2>4. schedule.next \in Cursor /\ schedule'.next \in Cursor /\ today \in Days /\ today' \in Days
    BY <2>2 DEF RestOK, RowType
  <2> QED
    BY <2>2, <2>3, <2>4
\* Where the schedule and its members stay as they are, so does what each run read of them.
<1>1. ASSUME schedule' = schedule, barred' = barred, filed \subseteq filed', NEW r \in Runs,
             SameRun(r), ~run'[r].stale => ~run[r].stale
      PROVE  Holds(run[r])'
  BY <1>0, <1>1, HoldsOn
<1>2. ASSUME NEW r \in Runs, SameRun(r), today <= today', run'[r].at # "idle"
      PROVE  run'[r].now <= today'
  <2>1. run[r].now \in Int /\ run[r].now <= today /\ run'[r].now = run[r].now
    BY <1>0, <1>2, RunNumbers DEF ReadsHold, SameRun
  <2> QED
    BY <1>0, <1>2, <2>1
<1>3. ASSUME NEW r \in Runs, OnlyRun(r), schedule' = schedule, barred' = barred, today' = today,
             filed \subseteq filed', Holds(run[r])', run'[r].now <= today' \/ run'[r].at = "idle",
             NEW q \in Runs
      PROVE  Holds(run[q])' /\ (run'[q].at # "idle" => run'[q].now <= today')
  <2>1. CASE q = r
    BY <1>3, <2>1
  <2>2. CASE q # r
    <3>1. SameRun(q) /\ run'[q] = run[q]
      BY <1>3, <2>2 DEF OnlyRun, SameRun
    <3> QED
      BY <1>0, <1>1, <1>2, <1>3, <3>1
  <2> QED
    BY <2>1, <2>2
<1>4. ASSUME NEW r \in Runs, Find(r), NEW q \in Runs
      PROVE  Holds(run[q])' /\ (run'[q].at # "idle" => run'[q].now <= today')
  <2>1. /\ run'[r] = [at |-> "found", found |-> schedule, now |-> today,
                      cursor |-> schedule.next, n |-> 0, stale |-> FALSE]
        /\ OnlyRun(r) /\ filed' = filed /\ schedule' = schedule /\ barred' = barred
        /\ today' = today /\ schedule.there /\ schedule.active
    BY <1>0, <1>4 DEF Find, IsDue, OnlyRun, rowVars, envVars
  <2>2. Holds(run[r])'
    <3>1. run'[r].at = "found" /\ run'[r].found = schedule
      BY <2>1
    <3>2. schedule.next..(schedule.next - 1) = {}
      BY <1>0
    <3> QED
      BY <2>1, <3>1, <3>2 DEF Holds
  <2>3. run'[r].now <= today'
    BY <1>0, <2>1
  <2>4. OnlyRun(r) /\ filed \subseteq filed' /\ schedule' = schedule /\ barred' = barred /\ today' = today
    BY <2>1
  <2> QED
    BY <1>3, <2>2, <2>3, <2>4
<1>5. ASSUME NEW r \in Runs,
             \/ Consider(r) \/ Impossible(r) \/ TellFails(r) \/ Enough(r) \/ Trouble(r)
             \/ File(r) \/ FindFiled(r) \/ Tell(r),
             NEW q \in Runs
      PROVE  Holds(run[q])' /\ (run'[q].at # "idle" => run'[q].now <= today')
  <2>1. /\ schedule' = schedule /\ barred' = barred /\ today' = today /\ filed \subseteq filed'
        /\ run[r].at # "idle"
    BY <1>5 DEF Consider, Impossible, TellFails, Enough, Trouble, File, FindFiled, Tell,
                Stands, rowVars, envVars
  <2>2. /\ OnlyRun(r) /\ run'[r].found = run[r].found /\ run'[r].now = run[r].now
        /\ run'[r].stale = run[r].stale
    BY <1>0, <1>5, RunGoes DEF Goes, GoesToNext
  <2>3. run'[r].now <= today'
    BY <1>0, <2>1, <2>2 DEF ReadsHold
  <2>4. Holds(run[r])'
    <3>1. ASSUME run'[r].at \in {"found", "posting", "telling"}
          PROVE  /\ run[r].at \in {"found", "posting", "telling"}
                 /\ run'[r].at # "found" /\ (run[r].at = "found" => ~barred)
      BY <1>0, <1>5, <3>1, RunGoes
         DEF Goes, GoesToNext, Consider, File, FindFiled, Tell, Stands
    <3> QED
      BY <2>1, <2>2, <3>1 DEF ReadsHold, Holds
  <2> QED
    BY <1>3, <2>1, <2>2, <2>3, <2>4
<1>6. ASSUME NEW r \in Runs, Pause(r) \/ Advance(r), NEW q \in Runs
      PROVE  Holds(run[q])' /\ (run'[q].at # "idle" => run'[q].now <= today')
  <2>1. CASE q = r
    BY <1>0, <1>6, <2>1, RunEnds DEF Holds
  <2>2. CASE q # r
    <3>1. /\ SameRun(q) /\ (~run'[q].stale => ~run[q].stale)
          /\ schedule'.active # schedule.active /\ run[q].at \in InFlight => run'[q].stale
      BY <1>0, <1>6, <2>2, RunEnds
    <3>2. barred' = barred /\ today' = today /\ filed' = filed
      BY <1>6 DEF Pause, Advance, envVars
    <3>3. /\ schedule'.there = schedule.there /\ schedule'.ends = schedule.ends
          /\ \/ schedule'.next = schedule.next
             \/ schedule'.next = run[r].cursor /\ schedule.next = run[r].found.next
      BY <1>0, <1>6, NextKept DEF WorkOn, RecurrenceInv
    <3>4. run[r].found.next..(run[r].cursor - 1) \subseteq filed
      BY <1>6 DEF RecurrenceInv, PostedUpTo, Pause, Advance, Stands
    <3>5. \A d \in Int : schedule.next <= d /\ d < schedule'.next => d \in filed
      BY <1>0, <3>3, <3>4, RunNumbers
    <3> QED
      BY <1>0, <1>2, <3>1, <3>2, <3>3, <3>5, HoldsOn DEF InFlight
  <2> QED
    BY <2>1, <2>2
<1>7. ASSUME Save \/ Delete, NEW q \in Runs
      PROVE  Holds(run[q])' /\ (run'[q].at # "idle" => run'[q].now <= today')
  <2>1. SameRun(q) /\ (run[q].at \in InFlight => run'[q].stale) /\ today' = today
    BY <1>0, <1>7, EditOvertakes DEF Save, Delete, Edited
  <2> QED
    BY <1>0, <1>2, <2>1 DEF Holds, SameRun, InFlight
<1>8. ASSUME MembersChange, NEW q \in Runs
      PROVE  Holds(run[q])' /\ (run'[q].at # "idle" => run'[q].now <= today')
  <2>1. /\ SameRun(q) /\ (~run'[q].stale => ~run[q].stale)
        /\ run[q].at \in InFlight \ {"found"} => run'[q].stale
    BY <1>0, <1>8, MembersOvertake
  <2>2. schedule' = schedule /\ filed' = filed /\ today' = today
    BY <1>8 DEF MembersChange, Edited, rowVars
  <2> QED
    BY <1>0, <1>2, <2>1, <2>2, HoldsOn DEF InFlight
<1>9. ASSUME Load \/ NextDay \/ UNCHANGED recurrenceVars, NEW q \in Runs
      PROVE  Holds(run[q])' /\ (run'[q].at # "idle" => run'[q].now <= today')
  <2>1. /\ schedule' = schedule /\ barred' = barred /\ filed' = filed /\ run' = run
        /\ today <= today'
    BY <1>0, <1>9 DEF Load, NextDay, Edited, rowVars, recurrenceVars
  <2> QED
    BY <1>1, <1>2, <2>1 DEF SameRun
<1>10. ASSUME RunsEnd, NEW q \in Runs
      PROVE  Holds(run[q])' /\ (run'[q].at # "idle" => run'[q].now <= today')
  BY <1>10 DEF RunsEnd, Resting, Holds
<1> QED
  BY <1>4, <1>5, <1>6, <1>7, <1>8, <1>9, <1>10 DEF RecurrenceNext, WorkOn, ByPeople

LEMMA FilesAsAsked ==
    RecurrenceInv /\ ReadsHold /\ [RecurrenceNext]_recurrenceVars =>
       \A r \in Runs : filed' # filed /\ run'[r] # run[r] /\ ~run[r].stale =>
          /\ schedule.there /\ schedule.active /\ ~barred
          /\ run[r].cursor \in schedule.next..today
          /\ ~IsPast(run[r].cursor, schedule.ends)
<1> SUFFICES ASSUME RecurrenceInv, ReadsHold, [RecurrenceNext]_recurrenceVars, NEW r \in Runs,
                    filed' # filed, run'[r] # run[r], ~run[r].stale
             PROVE  /\ schedule.there /\ schedule.active /\ ~barred
                    /\ run[r].cursor \in schedule.next..today
                    /\ ~IsPast(run[r].cursor, schedule.ends)
  OBVIOUS
<1>0. RestOK /\ run \in [Runs -> RunType]
  BY TypeParts DEF RecurrenceInv
<1>1. PICK q \in Runs : File(q)
  BY DEF RecurrenceNext, WorkOn, ByPeople, Find, Consider, Pause, FindFiled, Tell, Enough, Advance,
         Trouble, Impossible, TellFails, Load, Save, Delete, MembersChange, Edited, NextDay,
         RunsEnd, recurrenceVars
<1>2. q = r
  BY <1>0, <1>1, RunGoes DEF OnlyRun
<1>3. /\ run[r].at = "posting" /\ GoesOn(run[r]) /\ run[r].cursor \notin filed
  BY <1>1, <1>2 DEF File, Stands
<1>4. /\ schedule.there /\ schedule.active /\ schedule.ends = run[r].found.ends /\ ~barred
      /\ run[r].found.next..(schedule.next - 1) \subseteq filed /\ run[r].now <= today
  BY <1>3 DEF ReadsHold, Holds
<1>5. run[r].found.next <= run[r].cursor
  BY <1>3 DEF RecurrenceInv, PostedUpTo
<1>6. /\ run[r].cursor \in Int /\ run[r].found.next \in Int /\ schedule.next \in Int
      /\ run[r].now \in Int /\ today \in Int
  BY <1>0, RunNumbers, RecurrenceAssumption DEF RestOK, RowType, Cursor, Days
<1>7. run[r].cursor <= run[r].now /\ ~IsPast(run[r].cursor, run[r].found.ends)
  BY <1>3 DEF GoesOn
<1>8. schedule.next <= run[r].cursor /\ run[r].cursor <= today
  BY <1>3, <1>4, <1>5, <1>6, <1>7
<1> QED
  BY <1>4, <1>6, <1>7, <1>8

\* A run files what is due, of a schedule that is on, unless somebody overtook it.
THEOREM FiledAsItStands == RecurrenceSpec => FiledAsAsked
<1>1. RecurrenceSpec => []ReadsHold
  BY RecurrenceBegins, ReadsBegin, RecurrenceSteps, ReadsKept, PTL DEF RecurrenceSpec
<1>2. RecurrenceInv /\ ReadsHold /\ [RecurrenceNext]_recurrenceVars =>
         [\A r \in Runs : filed' # filed /\ run'[r] # run[r] /\ ~run[r].stale =>
             /\ schedule.there /\ schedule.active /\ ~barred
             /\ run[r].cursor \in schedule.next..today
             /\ ~IsPast(run[r].cursor, schedule.ends)]_recurrenceVars
  BY FilesAsAsked
<1> QED
  BY RepeatsInOrder, <1>1, <1>2, PTL DEF RecurrenceSpec, FiledAsAsked

-----------------------------------------------------------------------------
(* Calendar                                                                *)

\* Twice corrected, a guess is the reading it was made for, unless the clocks go
\* forward over that one.
LEMMA RoundTrip ==
    ASSUME NEW zone, zone.before \in Int, zone.after \in Int, zone.change \in Int, NEW w \in Int,
           ~(zone.change + zone.before <= w /\ w < zone.change + zone.after)
    PROVE  WallClock(zone, FromWallClock(zone, w)) = w
<1> DEFINE b == zone.before
           a == zone.after
           c == zone.change
           At(t) == IF t < c THEN b ELSE a
           guess == w - At(w)
<1>1. \A t : WallClock(zone, t) = t + At(t)
  BY DEF WallClock, Offset
<1>2. \A t \in Int : At(t) \in {a, b} /\ (t < c => At(t) = b) /\ (t >= c => At(t) = a)
  OBVIOUS
<1>3. b \in Int /\ a \in Int /\ c \in Int
  OBVIOUS
<1>4. FromWallClock(zone, w)
        = (w + (w - (w + At(w)))) + (w - ((w + (w - (w + At(w)))) + At(w + (w - (w + At(w))))))
  BY <1>1 DEF FromWallClock
<1>5. ~(c + b <= w /\ w < c + a)
  OBVIOUS
<1> HIDE DEF b, a, c, At
<1>6. At(w) \in Int
  BY <1>2, <1>3
<1>7. w + (w - (w + At(w))) = guess /\ guess \in Int
  BY <1>6
<1> HIDE DEF guess
<1>8. At(guess) \in Int
  BY <1>2, <1>3, <1>7
<1>9. FromWallClock(zone, w) = w - At(guess)
  BY <1>4, <1>7, <1>8
<1>10. At(w - At(guess)) = At(guess)
  <2> DEFINE o1 == At(w)
             o2 == At(guess)
             t == w - o2
  <2>1. o1 \in {a, b} /\ guess = w - o1
    BY <1>2 DEF guess
  <2>2. (guess < c => o2 = b) /\ (guess >= c => o2 = a)
    BY <1>2, <1>7
  <2>3. t \in Int
    BY <1>8
  <2>4. (t < c => At(t) = b) /\ (t >= c => At(t) = a)
    BY <1>2, <2>3
  <2>5. (o2 = b /\ t < c) \/ (o2 = a /\ t >= c)
    <3> HIDE DEF o1, o2
    <3> QED BY <1>3, <1>5, <1>7, <2>1, <2>2
  <2> QED
    BY <2>4, <2>5
<1> QED
  BY <1>1, <1>8, <1>9, <1>10

LEMMA MonthLength ==
    \A m \in Nat : DaysInMonth(m) \in 28..31
BY DEF DaysInMonth

LEMMA FirstsAre ==
    /\ FirstOfMonth \in [Nat -> Nat]
    /\ FirstOfMonth[0] = 0
    /\ \A n \in Nat : FirstOfMonth[n + 1] = FirstOfMonth[n] + DaysInMonth(n)
<1> DEFINE h == [n \in Nat |-> [v \in Nat |-> v + (IF n = 0 THEN 0 ELSE DaysInMonth(n - 1))]]
           Firsts(f) == f = [m \in Nat |-> IF m = 0 THEN 0 ELSE f[m - 1] + DaysInMonth(m - 1)]
<1>0. \A m \in Nat : DaysInMonth(m) \in Nat
  BY MonthLength
<1>1. \E f : Firsts(f)
  <2>1. h \in [Nat -> [Nat -> Nat]]
    <3>1. ASSUME NEW n \in Nat PROVE (IF n = 0 THEN 0 ELSE DaysInMonth(n - 1)) \in Nat
      BY <1>0
    <3> QED
      BY <3>1
  <2>2. ASSUME NEW n \in Nat, NEW v \in Nat PROVE h[n + 1][v] = v + DaysInMonth(n)
    <3>1. n + 1 \in Nat /\ n + 1 # 0 /\ (n + 1) - 1 = n
      OBVIOUS
    <3> QED
      BY <3>1
  <2> HIDE DEF h
  <2> DEFINE V == Nat
             none == 0
  <2>5. h \in [Nat -> [V -> V]]
    BY <2>1
  <2>6. none \in V
    OBVIOUS
  <2> HIDE DEF V, none
  <2>9. \A first \in V : \A g \in [Nat -> [V -> V]] :
          \E f \in [Nat -> V] : f[0] = first /\ \A n \in Nat : f[n + 1] = g[n + 1][f[n]]
    BY SMTT(120), RecursionExists
  <2>7. PICK f \in [Nat -> V] : f[0] = none /\ \A n \in Nat : f[n + 1] = h[n + 1][f[n]]
    BY <2>5, <2>6, <2>9
  <2>8. f \in [Nat -> Nat]
    BY <2>7 DEF V
  <2>3. f[0] = 0 /\ \A n \in Nat : f[n + 1] = h[n + 1][f[n]]
    BY <2>7 DEF none
  <2>4. ASSUME NEW m \in Nat PROVE f[m] = IF m = 0 THEN 0 ELSE f[m - 1] + DaysInMonth(m - 1)
    <3>1. CASE m = 0
      BY <2>3, <3>1
    <3>2. CASE m # 0
      <4>1. m - 1 \in Nat /\ (m - 1) + 1 = m
        BY <3>2
      <4>2. f[m - 1] \in Nat
        BY <2>8, <4>1
      <4> QED
        BY <2>2, <2>3, <3>2, <4>1, <4>2
    <3> QED
      BY <3>1, <3>2
  <2> QED
    BY <2>4
<1>2. Firsts(FirstOfMonth)
  <2>1. FirstOfMonth = CHOOSE f : Firsts(f)
    BY DEF FirstOfMonth
  <2> HIDE DEF Firsts
  <2> QED
    BY <1>1, <2>1
<1>3. \A m \in Nat : FirstOfMonth[m] = IF m = 0 THEN 0 ELSE FirstOfMonth[m - 1] + DaysInMonth(m - 1)
  BY <1>2
<1>4. FirstOfMonth[0] = 0
  BY <1>3
<1>5. ASSUME NEW n \in Nat PROVE FirstOfMonth[n + 1] = FirstOfMonth[n] + DaysInMonth(n)
  <2>1. n + 1 \in Nat /\ n + 1 # 0 /\ (n + 1) - 1 = n
    OBVIOUS
  <2> QED
    BY <1>3, <2>1
<1>6. \A n \in Nat : FirstOfMonth[n] \in Nat
  <2> DEFINE B == {n \in Nat : FirstOfMonth[n] \in Nat}
  <2>1. 0 \in B
    BY <1>4
  <2>2. ASSUME NEW n \in B PROVE n + 1 \in B
    BY <1>0, <1>5
  <2>3. B \in SUBSET Nat
    OBVIOUS
  <2> HIDE DEF B
  <2>4. B = Nat
    BY <2>1, <2>2, <2>3, NatSetInduction
  <2> QED
    BY <2>4 DEF B
<1>7. FirstOfMonth = [n \in Nat |-> FirstOfMonth[n]]
  BY <1>2
<1>8. FirstOfMonth \in [Nat -> Nat]
  <2> DEFINE F == FirstOfMonth
  <2>1. F = [n \in Nat |-> F[n]] /\ \A n \in Nat : F[n] \in Nat
    BY <1>6, <1>7
  <2> HIDE DEF F
  <2>2. F \in [Nat -> Nat]
    BY <2>1
  <2> QED
    BY <2>2 DEF F
<1> QED
  BY <1>4, <1>5, <1>8

LEMMA FirstsGrow ==
    /\ \A n \in Nat : FirstOfMonth[n] >= n /\ FirstOfMonth[n] <= 31 * n
    /\ \A n \in Nat : \A m \in Nat : n < m => FirstOfMonth[n + 1] <= FirstOfMonth[m]
    /\ \A n \in Nat : FirstOfMonth[n] \in Nat /\ FirstOfMonth[n + 1] = FirstOfMonth[n] + DaysInMonth(n)
<1> DEFINE F(n) == FirstOfMonth[n]
<1>0. F(0) = 0 /\ \A n \in Nat : F(n) \in Nat /\ DaysInMonth(n) \in 28..31 /\ F(n + 1) = F(n) + DaysInMonth(n)
  BY FirstsAre, MonthLength
<1> HIDE DEF F
<1>1. \A n \in Nat : F(n) >= n /\ F(n) <= 31 * n
  <2> DEFINE B == {n \in Nat : F(n) >= n /\ F(n) <= 31 * n}
  <2>1. 0 \in B
    BY <1>0
  <2>2. ASSUME NEW n \in B PROVE n + 1 \in B
    BY <1>0
  <2>3. B \in SUBSET Nat
    OBVIOUS
  <2> HIDE DEF B
  <2>4. B = Nat
    BY <2>1, <2>2, <2>3, NatSetInduction
  <2> QED
    BY <2>4 DEF B
<1>2. ASSUME NEW n \in Nat PROVE \A m \in Nat : n < m => F(n + 1) <= F(m)
  <2> DEFINE B == {m \in Nat : n < m => F(n + 1) <= F(m)}
  <2>1. 0 \in B
    OBVIOUS
  <2>2. ASSUME NEW m \in B PROVE m + 1 \in B
    <3>1. F(m) \in Nat /\ F(m + 1) \in Nat /\ F(n + 1) \in Nat /\ F(m) <= F(m + 1)
      BY <1>0
    <3>2. CASE n < m
      BY <3>1, <3>2
    <3>3. CASE n = m
      BY <3>1, <3>3
    <3>4. CASE n > m
      BY <3>4
    <3> QED
      BY <3>2, <3>3, <3>4
  <2>3. B \in SUBSET Nat
    OBVIOUS
  <2> HIDE DEF B
  <2>4. B = Nat
    BY <2>1, <2>2, <2>3, NatSetInduction
  <2> QED
    BY <2>4 DEF B
<1> QED
  BY <1>0, <1>1, <1>2 DEF F

\* The month that a day falls in is the one that MonthOf finds.
LEMMA MonthIs ==
    ASSUME NEW day \in Nat, NEW m \in Nat, FirstOfMonth[m] <= day, day < FirstOfMonth[m + 1]
    PROVE  MonthOf(day) = m
<1> DEFINE F(n) == FirstOfMonth[n]
           In(n) == F(n) <= day /\ day < F(n + 1)
<1>0. /\ \A n \in Nat : F(n) \in Nat /\ F(n) >= n /\ F(n) <= 31 * n
      /\ \A n \in Nat : \A k \in Nat : n < k => F(n + 1) <= F(k)
  BY FirstsGrow
<1>1. MonthOf(day) = CHOOSE n \in (day \div 31)..day : In(n)
  BY DEF MonthOf
<1>2. In(m)
  OBVIOUS
<1> HIDE DEF F
<1>3. m \in (day \div 31)..day
  <2>1. F(m) >= m /\ F(m + 1) <= 31 * (m + 1) /\ F(m) \in Nat /\ F(m + 1) \in Nat
    BY <1>0
  <2>2. m <= day /\ day < 31 * (m + 1)
    BY <1>2, <2>1
  <2>3. day \div 31 <= m /\ day \div 31 \in Int
    BY <2>2
  <2> QED
    BY <2>2, <2>3
<1>4. ASSUME NEW n \in (day \div 31)..day, In(n) PROVE n = m
  <2>1. n \in Nat
    <3>1. day \div 31 \in Nat
      OBVIOUS
    <3> QED
      BY <3>1
  <2>2. F(n) \in Nat /\ F(n + 1) \in Nat /\ F(m) \in Nat /\ F(m + 1) \in Nat
    BY <1>0, <2>1
  <2>3. ~(n < m)
    BY <1>0, <1>2, <1>4, <2>1, <2>2
  <2>4. ~(m < n)
    BY <1>0, <1>2, <1>4, <2>1, <2>2
  <2> QED
    BY <2>1, <2>3, <2>4
<1> HIDE DEF In
<1> QED
  BY <1>1, <1>2, <1>3, <1>4

\* Every day falls in one.
LEMMA MonthFound ==
    ASSUME NEW day \in Nat
    PROVE  /\ MonthOf(day) \in Nat
           /\ FirstOfMonth[MonthOf(day)] <= day
           /\ day < FirstOfMonth[MonthOf(day) + 1]
<1> DEFINE F(n) == FirstOfMonth[n]
           B == {d \in Nat : \E m \in Nat : F(m) <= d /\ d < F(m + 1)}
<1>0. F(0) = 0 /\ \A n \in Nat : F(n) \in Nat /\ DaysInMonth(n) \in 28..31 /\ F(n + 1) = F(n) + DaysInMonth(n)
  BY FirstsAre, MonthLength
<1>6. \A d \in Nat, m \in Nat : F(m) <= d /\ d < F(m + 1) => MonthOf(d) = m
  BY MonthIs
<1> HIDE DEF F
<1>1. 0 \in B
  <2>1. F(0) <= 0 /\ 0 < F(0 + 1)
    BY <1>0
  <2> QED
    BY <2>1
<1>2. ASSUME NEW d \in B PROVE d + 1 \in B
  <2>1. PICK m \in Nat : F(m) <= d /\ d < F(m + 1)
    OBVIOUS
  <2>2. F(m) \in Nat /\ F(m + 1) \in Nat /\ d \in Nat /\ F((m + 1) + 1) > F(m + 1) /\ m + 1 \in Nat
    BY <1>0
  <2>3. CASE d + 1 < F(m + 1)
    <3>1. F(m) <= d + 1 /\ d + 1 < F(m + 1) /\ d + 1 \in Nat
      BY <2>1, <2>2, <2>3
    <3> QED
      BY <3>1
  <2>4. CASE ~(d + 1 < F(m + 1))
    <3>1. F(m + 1) <= d + 1 /\ d + 1 < F((m + 1) + 1) /\ d + 1 \in Nat
      BY <2>1, <2>2, <2>4
    <3> QED
      BY <2>2, <3>1
  <2> QED
    BY <2>3, <2>4
<1>3. B \in SUBSET Nat
  OBVIOUS
<1> HIDE DEF B
<1>4. B = Nat
  BY <1>1, <1>2, <1>3, NatSetInduction
<1>5. PICK m \in Nat : F(m) <= day /\ day < F(m + 1)
  BY <1>4 DEF B
<1>7. MonthOf(day) = m
  BY <1>5, <1>6
<1> QED
  BY <1>5, <1>7 DEF F

\* The reading at an hour of a day of a month falls in that month, at that hour.
LEMMA ReadingOf ==
    ASSUME NEW m \in Nat, NEW d \in Nat \ {0}, d <= DaysInMonth(m), NEW h \in 0..23, NEW w,
           w = 24 * (FirstOfMonth[m] + d - 1) + h
    PROVE  w \in Nat /\ MonthOf(DayOf(w)) = m /\ DayOfMonth(DayOf(w)) = d /\ HourOf(w) = h
<1> DEFINE f == FirstOfMonth[m]
           g == FirstOfMonth[m + 1]
           day == f + d - 1
<1>1. f \in Nat /\ g = f + DaysInMonth(m) /\ DaysInMonth(m) \in 28..31
  BY FirstsAre, MonthLength
<1> HIDE DEF f, g
<1>2. day \in Nat /\ f <= day /\ day < g
  BY <1>1
<1>3. w = 24 * day + h
  BY DEF f
<1>7. day - f + 1 = d
  BY <1>1
<1> HIDE DEF day
<1>4. w \in Nat /\ w \div 24 = day /\ w % 24 = h
  BY <1>2, <1>3
<1>5. DayOf(w) = day /\ HourOf(w) = h
  BY <1>4 DEF DayOf, HourOf
<1>6. MonthOf(day) = m
  BY <1>2, MonthIs DEF f, g
<1> QED
  BY <1>4, <1>5, <1>6, <1>7 DEF DayOfMonth, f

\* Every reading is one of those.
LEMMA ReadingIs ==
    ASSUME NEW w \in Nat
    PROVE  /\ MonthOf(DayOf(w)) \in Nat
           /\ DayOfMonth(DayOf(w)) \in Nat \ {0}
           /\ DayOfMonth(DayOf(w)) <= DaysInMonth(MonthOf(DayOf(w)))
           /\ HourOf(w) \in 0..23
           /\ w = 24 * (FirstOfMonth[MonthOf(DayOf(w))] + DayOfMonth(DayOf(w)) - 1) + HourOf(w)
<1> DEFINE day == DayOf(w)
           h == HourOf(w)
           m == MonthOf(day)
           f == FirstOfMonth[m]
           g == FirstOfMonth[m + 1]
<1>1. day \in Nat /\ h \in 0..23 /\ w = 24 * day + h
  BY DEF DayOf, HourOf
<1> HIDE DEF day, h
<1>2. m \in Nat /\ f <= day /\ day < g
  BY <1>1, MonthFound
<1> HIDE DEF m
<1>3. f \in Nat /\ g = f + DaysInMonth(m) /\ DaysInMonth(m) \in 28..31
  BY <1>2, FirstsAre, MonthLength
<1> HIDE DEF f, g
<1>4. DayOfMonth(day) = day - f + 1
  BY DEF DayOfMonth, f, m
<1>5. DayOfMonth(day) \in Nat \ {0} /\ DayOfMonth(day) <= DaysInMonth(m) /\ w = 24 * (f + DayOfMonth(day) - 1) + h
  BY <1>1, <1>2, <1>3, <1>4
<1> QED
  BY <1>1, <1>2, <1>5 DEF day, h, m, f

CalendarInv ==
    /\ series.zone \in Zones
    /\ series.frequency \in Frequencies
    /\ series.interval \in Nat \ {0}
    /\ FirstReading \in Nat
    /\ series.anchor = DayOfMonth(DayOf(FirstReading))
    /\ passed \in Nat
    /\ KeepsItsTime

LEMMA PeriodsAre ==
    \A frequency : DaysOf(frequency) \in {1, 7, 14} /\ MonthsOf(frequency) \in {1, 3, 12}
BY DEF DaysOf, MonthsOf

\* A day of the month that is too late for a month is its last one.
LEMMA ClampedIs ==
    ASSUME NEW m \in Nat, NEW d \in Nat \ {0}
    PROVE  Clamped(d, m) \in Nat \ {0} /\ Clamped(d, m) <= DaysInMonth(m)
BY MonthLength DEF Clamped

LEMMA FirstExpected ==
    ASSUME FirstReading \in Nat, series.interval \in Nat
    PROVE  Expected(0) = FirstReading
<1> DEFINE w == FirstReading
           i == series.interval
           q == MonthsOf(series.frequency)
           p == DaysOf(series.frequency)
           mo == MonthOf(DayOf(w))
           d == DayOfMonth(DayOf(w))
           h == HourOf(w)
<1>1. Expected(0) = IF ByMonths(series.frequency)
                    THEN 24 * (FirstOfMonth[mo + (0 * i) * q] + Clamped(d, mo + (0 * i) * q) - 1) + h
                    ELSE w + 24 * (0 * i) * p
  BY DEF Expected
<1>2. w \in Nat /\ i \in Nat
  OBVIOUS
<1>3. q \in Nat /\ p \in Nat
  BY PeriodsAre
<1>4. /\ mo \in Nat /\ d \in Nat \ {0} /\ d <= DaysInMonth(mo)
      /\ w = 24 * (FirstOfMonth[mo] + d - 1) + h
  BY <1>2, ReadingIs
<1> HIDE DEF w, i, q, p, mo, d, h
<1>5. 0 * i = 0
  BY <1>2
<1>6. mo + 0 * q = mo /\ 24 * 0 * p = 0 /\ w + 0 = w
  BY <1>2, <1>3, <1>4
<1>7. Clamped(d, mo) = d
  BY <1>4 DEF Clamped
<1>8. Expected(0) = w
  BY <1>1, <1>4, <1>5, <1>6, <1>7
<1> QED
  BY <1>8 DEF w

\* One period after what the calendar says is what it says of the next.
LEMMA NextIsExpected ==
    ASSUME FirstReading \in Nat, series.interval \in Nat,
           series.anchor = DayOfMonth(DayOf(FirstReading)), NEW n \in Nat
    PROVE  Expected(n) \in Nat /\ NextReading(series, Expected(n)) = Expected(n + 1)
<1> DEFINE w == FirstReading
           i == series.interval
           q == MonthsOf(series.frequency)
           p == DaysOf(series.frequency)
           mo == MonthOf(DayOf(w))
           d == DayOfMonth(DayOf(w))
           h == HourOf(w)
           At(j) == mo + (j * i) * q
           Read(m) == 24 * (FirstOfMonth[m] + Clamped(d, m) - 1) + h
           monthly == ByMonths(series.frequency)
           e == Expected(n)
<1>1. \A j : Expected(j) = IF monthly THEN Read(At(j)) ELSE w + 24 * (j * i) * p
  BY DEF Expected
<1>2. w \in Nat /\ i \in Nat
  OBVIOUS
<1>3. q \in {1, 3, 12} /\ p \in {1, 7, 14}
  BY PeriodsAre
<1>4. mo \in Nat /\ d \in Nat \ {0} /\ h \in 0..23
  BY <1>2, ReadingIs
<1>5. NextReading(series, e) =
        IF monthly
        THEN 24 * (FirstOfMonth[MonthOf(DayOf(e)) + q * i] + Clamped(d, MonthOf(DayOf(e)) + q * i) - 1) + HourOf(e)
        ELSE e + 24 * p * i
  BY DEF NextReading
<1>6. n * i \in Nat /\ (n + 1) * i = n * i + i
  BY <1>2
<1> DEFINE k == n * i
           l == (n + 1) * i
<1>7. k \in Nat /\ l = k + i
  BY <1>6
<1>8. At(n) = mo + k * q /\ At(n + 1) = mo + l * q
  OBVIOUS
<1>15. e = (IF monthly THEN Read(At(n)) ELSE w + 24 * k * p)
       /\ Expected(n + 1) = (IF monthly THEN Read(At(n + 1)) ELSE w + 24 * l * p)
  BY <1>1
<1>16. \A m : Read(m) = 24 * (FirstOfMonth[m] + Clamped(d, m) - 1) + h
  OBVIOUS
<1> HIDE DEF w, i, q, p, mo, d, h, monthly, k, l, e, At, On
<1>9. At(n) \in Nat /\ At(n + 1) = At(n) + q * i
  BY <1>2, <1>3, <1>4, <1>7, <1>8
<1>10. CASE monthly
  <2> DEFINE m == At(n)
             day == Clamped(d, m)
  <2>1. day \in Nat \ {0} /\ day <= DaysInMonth(m)
    BY <1>4, <1>9, ClampedIs
  <2>2. e = 24 * (FirstOfMonth[m] + day - 1) + h
    BY <1>10, <1>15, <1>16
  <2>3. m \in Nat
    BY <1>9
  <2> HIDE DEF m, day
  <2>7. \A r : r = 24 * (FirstOfMonth[m] + day - 1) + h
                 => r \in Nat /\ MonthOf(DayOf(r)) = m /\ HourOf(r) = h
    <3>1. m \in Nat /\ day \in Nat \ {0} /\ day <= DaysInMonth(m) /\ h \in 0..23
      BY <1>4, <2>1, <2>3 DEF m
    <3> QED
      BY <3>1, ReadingOf, SMTT(120)
  <2>4. e \in Nat /\ MonthOf(DayOf(e)) = m /\ HourOf(e) = h
    BY <2>2, <2>7
  <2>5. NextReading(series, e) = Read(m + q * i)
    BY <1>5, <1>10, <1>16, <2>4
  <2>6. Expected(n + 1) = Read(m + q * i)
    BY <1>9, <1>10, <1>15 DEF m
  <2> QED
    BY <2>4, <2>5, <2>6 DEF e
<1>11. CASE ~monthly
  <2>1. e = w + 24 * k * p /\ Expected(n + 1) = w + 24 * l * p
    BY <1>11, <1>15
  <2>2. NextReading(series, e) = e + 24 * p * i
    BY <1>5, <1>11
  <2>3. e \in Nat
    BY <1>2, <1>3, <1>7, <2>1
  <2>4. w + 24 * l * p = (w + 24 * k * p) + 24 * p * i
    BY <1>2, <1>3, <1>7
  <2> QED
    BY <2>1, <2>2, <2>3, <2>4 DEF e
<1> QED
  BY <1>10, <1>11

LEMMA ZonesAre ==
    \A zone \in Zones : zone.before \in Int /\ zone.after \in Int /\ zone.change \in Int
BY CalendarAssumption

LEMMA StartsOnTime ==
    CalendarInit => CalendarInv
<1> SUFFICES ASSUME CalendarInit PROVE CalendarInv
  OBVIOUS
<1>1. PICK zone \in Zones, frequency \in Frequencies, interval \in Intervals, w \in Starts :
          /\ series = [zone |-> zone, frequency |-> frequency, interval |-> interval,
                       start |-> FromWallClock(zone, w),
                       anchor |-> DayOfMonth(DayOf(WallClock(zone, FromWallClock(zone, w))))]
          /\ dueAt = FromWallClock(zone, w)
          /\ passed = 0
  BY DEF CalendarInit
<1> DEFINE start == FromWallClock(zone, w)
           reading == WallClock(zone, start)
<1>2. reading \in Nat
  BY StartsAssumption
<1>3. interval \in Nat \ {0}
  BY CalendarAssumption
<1>4. series = [zone |-> zone, frequency |-> frequency, interval |-> interval,
                start |-> start, anchor |-> DayOfMonth(DayOf(reading))]
      /\ dueAt = start
  BY <1>1
<1> HIDE DEF start
<1>5. /\ series.zone = zone /\ series.frequency = frequency /\ series.interval = interval
      /\ series.start = start /\ series.anchor = DayOfMonth(DayOf(reading))
  BY <1>4
<1>6. FirstReading = reading
  BY <1>5 DEF FirstReading
<1> HIDE DEF reading
<1>7. Expected(0) = reading
  BY <1>2, <1>3, <1>5, <1>6, FirstExpected
<1>8. WallClock(series.zone, dueAt) = reading
  BY <1>4, <1>5 DEF reading
<1>9. KeepsItsTime
  BY <1>1, <1>7, <1>8 DEF KeepsItsTime
<1> QED
  BY <1>1, <1>2, <1>3, <1>5, <1>6, <1>9 DEF CalendarInv

LEMMA OccursOnTime ==
    CalendarInv /\ [CalendarNext]_calendarVars => CalendarInv'
<1> SUFFICES ASSUME CalendarInv, [CalendarNext]_calendarVars PROVE CalendarInv'
  OBVIOUS
<1>1. CASE UNCHANGED calendarVars
  BY <1>1 DEF CalendarInv, calendarVars, FirstReading, KeepsItsTime, Missing, Expected
<1>2. CASE Occur
  <2>1. passed' = passed + 1 /\ dueAt' = NextOccurrence(series, dueAt) /\ series' = series
    BY <1>2 DEF Occur
  <2>2. FirstReading' = FirstReading
    BY <2>1 DEF FirstReading
  <2>3. \A n : Expected(n)' = Expected(n)
    BY <2>1, <2>2 DEF Expected
  <2>4. \A t : Missing(t)' <=> Missing(t)
    BY <2>1 DEF Missing
  <2>5. passed \in Nat /\ passed' \in Nat
    BY <2>1 DEF CalendarInv
  <2>6. KeepsItsTime'
    <3> SUFFICES ASSUME \A n \in 1..(passed + 1) : ~Missing(Expected(n))
                 PROVE  WallClock(series.zone, dueAt') = Expected(passed + 1)
      <4> DEFINE Kept == \A n \in 1..passed' : ~Missing(Expected(n))'
      <4>1. KeepsItsTime' <=> (Kept => WallClock(series'.zone, dueAt') = Expected(passed)')
        BY DEF KeepsItsTime
      <4>2. Expected(passed)' = Expected(passed + 1)
        BY <2>1, <2>2 DEF Expected
      <4>3. Kept => \A n \in 1..(passed + 1) : ~Missing(Expected(n))
        BY <2>1, <2>3, <2>4 DEF Missing
      <4> HIDE DEF Kept
      <4> QED
        BY <2>1, <4>1, <4>2, <4>3
    <3>1. \A n \in 1..passed : ~Missing(Expected(n))
      BY <2>5
    <3>2. WallClock(series.zone, dueAt) = Expected(passed)
      BY <3>1 DEF CalendarInv, KeepsItsTime
    <3>3. FirstReading \in Nat /\ series.interval \in Nat /\ series.anchor = DayOfMonth(DayOf(FirstReading))
      BY DEF CalendarInv
    <3>4. NextReading(series, Expected(passed)) = Expected(passed + 1)
      BY <2>5, <3>3, NextIsExpected
    <3>5. Expected(passed + 1) \in Nat
      BY <2>5, <3>3, NextIsExpected
    <3> DEFINE e == Expected(passed + 1)
               zone == series.zone
    <3>6. dueAt' = FromWallClock(zone, e)
      BY <2>1, <3>2, <3>4 DEF NextOccurrence
    <3>7. ~(zone.change + zone.before <= e /\ e < zone.change + zone.after)
      <4>1. passed + 1 \in 1..(passed + 1)
        BY <2>5
      <4>2. ~Missing(e)
        BY <4>1
      <4> HIDE DEF e
      <4> QED
        BY <4>2 DEF Missing
    <3>8. zone.before \in Int /\ zone.after \in Int /\ zone.change \in Int
      BY ZonesAre DEF CalendarInv
    <3>9. e \in Int
      BY <3>5
    <3> HIDE DEF e, zone
    <3>10. WallClock(zone, FromWallClock(zone, e)) = e
      BY <3>7, <3>8, <3>9, RoundTrip
    <3> QED
      BY <3>6, <3>10 DEF e, zone
  <2> QED
    BY <2>1, <2>2, <2>5, <2>6 DEF CalendarInv
<1> QED
  BY <1>1, <1>2 DEF CalendarNext

\* However many occurrences have passed, a repeating expense falls on the day of the
\* month and at the hour of its first, in its own zone, for any zone, start, interval
\* and frequency (nextOccurrence, recurrence.ts, and fromWallClock, zoned.ts).
THEOREM SeriesKeepsItsTime == CalendarSpec => []KeepsItsTime
<1>1. CalendarInv => KeepsItsTime
  BY DEF CalendarInv
<1> QED
  BY StartsOnTime, OccursOnTime, <1>1, PTL DEF CalendarSpec
===============================================================================
