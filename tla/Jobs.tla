-------------------------------- MODULE Jobs --------------------------------
(***************************************************************************)
(* One background job and the lease that guards it, server/jobs.ts: every  *)
(* runner of it (a tick of a process's scheduler, or a request to the      *)
(* endpoint an outside cron calls) takes the lease before it runs. Times   *)
(* are relative to now, so that a behaviour may go on for ever.            *)
(***************************************************************************)
EXTENDS Integers, FiniteSets

CONSTANTS
    Servers,
    Runners, Home,      \* who may run the job, and in which process
    Crons,              \* those that are requests from outside
    Kinds,              \* is the lease kept between runs? (everyMs < ttl)
    Nobody, Gone,       \* who holds a lease never taken; one whose holder died
    Ttl,
    MaxRun, MaxDelay,   \* bounds: how long a run, or a turn on the database,
                        \* may take
    MaxCrashes          \* bound: deploys and crashes

ASSUME JobsAssumption ==
    /\ Home \in [Runners -> Servers]
    /\ Crons \subseteq Runners /\ Kinds \subseteq BOOLEAN
    /\ Nobody \notin Servers /\ Gone \notin Servers /\ Gone # Nobody
    /\ Ttl \in Nat /\ MaxRun \in Nat /\ MaxDelay \in Nat /\ MaxCrashes \in Nat

VARIABLES
    keep,       \* the kind of the job
    holder,     \* JobLock: whose lease it is
    left,       \* and what is left of it: expiresAt - now
    kept,       \* the Map of each process: what it believes is left
    pc,         \* where each runner is
    age,        \* how long ago it read the clock, or began to run
    crashes

vars == <<keep, holder, left, kept, pc, age, crashes>>

\* Long enough ago for every runner to see it has run out.
Over    == -(MaxDelay + 1)
Keeps(r) == keep /\ r \notin Crons

Init ==
    /\ keep \in Kinds
    /\ holder = Nobody /\ left = Over
    /\ kept = [s \in Servers |-> Over]
    /\ pc = [r \in Runners |-> "idle"]
    /\ age = [r \in Runners |-> 0]
    /\ crashes = 0

-----------------------------------------------------------------------------
(* withJobLock                                                             *)

At(r, label) == pc[r] = label
Goes(r, label) == pc' = [pc EXCEPT ![r] = label] /\ age' = [age EXCEPT ![r] = 0]

TrustedToTheEnd(s) == kept[s] > 0       \* mutant: renewed only when used up
Trusted(s) == 2 * kept[s] > Ttl

\* The clock is read, and with it what is left of a lease kept.
Tick(r) ==
    /\ At(r, "idle")
    /\ Goes(r, IF Keeps(r) /\ Trusted(Home[r]) THEN "work" ELSE "take")
    /\ UNCHANGED <<keep, holder, left, kept, crashes>>

LapsedNow(r) == left + age[r] <= 0      \* mutant: lte for lt
Lapsed(r) == left + age[r] < 0

NotesAny(r) == TRUE                     \* mutant: noted as kept by every caller
Notes(r) == Keeps(r)

\* The lease taken, counted from the clock as it was read.
Held(r) ==
    /\ holder' = Home[r]
    /\ left' = Ttl - age[r]
    /\ kept' = IF Notes(r) THEN [kept EXCEPT ![Home[r]] = Ttl - age[r]] ELSE kept
    /\ Goes(r, "work")
    /\ UNCHANGED <<keep, crashes>>

OwnOnly(r) == holder = Home[r]          \* mutant: never taken over
Free(r) == holder = Home[r] \/ Lapsed(r)

\* updateMany: our own lease, or one that has expired ...
Take(r) ==
    /\ At(r, "take") /\ holder # Nobody /\ Free(r)
    /\ Held(r)

\* ... or else, with the same clock, a row of our own ...
Miss(r) ==
    /\ At(r, "take") /\ (holder = Nobody \/ ~Free(r))
    /\ pc' = [pc EXCEPT ![r] = "add"]
    /\ UNCHANGED <<keep, holder, left, kept, age, crashes>>

Add(r) == At(r, "add") /\ holder = Nobody /\ Held(r)

\* ... unless there is one: somebody else holds it.
Refuse(r) ==
    /\ At(r, "add") /\ holder # Nobody
    /\ kept' = [kept EXCEPT ![Home[r]] = Over]
    /\ Goes(r, "idle")
    /\ UNCHANGED <<keep, holder, left, crashes>>

\* fn() is done, or failed.
Finish(r) ==
    /\ At(r, "work")
    /\ IF Keeps(r) THEN Goes(r, "idle") /\ UNCHANGED kept
       ELSE Goes(r, "release") /\ kept' = [kept EXCEPT ![Home[r]] = Over]
    /\ UNCHANGED <<keep, holder, left, crashes>>

\* expiresAt: new Date(0), unless it fails, or the lease is another's by now.
Release(r) ==
    /\ At(r, "release")
    /\ left' \in {left} \cup {IF holder = Home[r] THEN Over ELSE left}
    /\ Goes(r, "idle")
    /\ UNCHANGED <<keep, holder, kept, crashes>>

-----------------------------------------------------------------------------

\* A process ends, and another with a holder id of its own starts.
Crash(s) ==
    /\ crashes < MaxCrashes
    /\ crashes' = crashes + 1
    /\ holder' = IF holder = s THEN Gone ELSE holder
    /\ kept' = [kept EXCEPT ![s] = Over]
    /\ pc' = [r \in Runners |-> IF Home[r] = s THEN "idle" ELSE pc[r]]
    /\ age' = [r \in Runners |-> IF Home[r] = s THEN 0 ELSE age[r]]
    /\ UNCHANGED <<keep, left>>

Less(n) == IF n > Over THEN n - 1 ELSE Over
Limit(r) == IF At(r, "work") THEN MaxRun ELSE MaxDelay

\* Time passes, for nobody longer than they may take.
Pass ==
    /\ \A r \in Runners : ~At(r, "idle") => age[r] < Limit(r)
    /\ age' = [r \in Runners |-> IF At(r, "idle") THEN 0 ELSE age[r] + 1]
    /\ left' = Less(left)
    /\ kept' = [s \in Servers |-> Less(kept[s])]
    /\ UNCHANGED <<keep, holder, pc, crashes>>

Proceed(r) == Take(r) \/ Miss(r) \/ Add(r) \/ Refuse(r) \/ Finish(r) \/ Release(r)

Next ==
    \/ \E r \in Runners : Tick(r) \/ Proceed(r)
    \/ \E s \in Servers : Crash(s)
    \/ Pass

Spec == Init /\ [][Next]_vars

\* The scheduler goes on ticking, its runs end, and time passes.
FairSpec ==
    /\ Spec
    /\ WF_vars(Pass)
    /\ \A r \in Runners : WF_vars(Tick(r)) /\ WF_vars(Proceed(r))

-----------------------------------------------------------------------------

\* The shape of the lease and of what a process believes of it: nothing is
\* believed to be kept of a job that gives its lease back.
TypeOK ==
    /\ keep \in BOOLEAN
    /\ holder \in Servers \cup {Nobody, Gone} /\ left \in Over..Ttl
    /\ kept \in [Servers -> Over..Ttl]
    /\ pc \in [Runners -> {"idle", "take", "add", "work", "release"}]
    /\ age \in [Runners -> Nat]
    /\ crashes \in Nat
    /\ \A r \in Runners : age[r] <= IF At(r, "work") THEN MaxRun ELSE MaxDelay
    /\ \A r \in Runners : At(r, "release") => ~Keeps(r)
    /\ ~keep => \A s \in Servers : kept[s] = Over

\* No two processes run the job at once, whenever they read their clocks, wait
\* for the database, crash or are replaced (withJobLock, jobs.ts).
OneProcess ==
    \A r, q \in Runners : At(r, "work") /\ At(q, "work") => Home[r] = Home[q]

\* No two runners do, in one process or two ("two ticks of one", schema.prisma).
OneRunner == \A r, q \in Runners : At(r, "work") /\ At(q, "work") => r = q

\* A lease kept by a process that is no more does not stop the job: it goes on
\* running, again and again (withJobLock, jobs.ts).
KeepsRunning == []<>(\E r \in Runners : At(r, "work"))

\* A run gives back the lease its process works under, or trusts to be its own:
\* another tick of it, or the outside cron, began before this one was over.
GivenBackUnder ==
    \E r \in Runners :
        /\ Release(r) /\ left' # left
        /\ \/ Trusted(Home[r])
           \/ \E q \in Runners : At(q, "work") /\ Home[q] = Home[r]

\* By how much a process may think too much of a lease it keeps: an outside cron
\* renews it from an older clock, and notes nothing.
Slack == IF Crons = {} THEN 0 ELSE MaxDelay

\* A run has a lease that outlasts it, and a lease that a process trusts without
\* asking is its own and as long as it believes.
Covered ==
    /\ \A r \in Runners : At(r, "work") =>
          holder = Home[r] /\ left >= MaxRun - age[r]
    /\ \A s \in Servers : Trusted(s) => holder = s /\ left >= kept[s] - Slack

\* What that rests on: a run is over before half a lease is, and before a lease
\* counted from an old clock is.
Quick == MaxDelay + MaxRun <= Ttl /\ 2 * (MaxRun + Slack) <= Ttl

\* The invariant of the proof that no two processes run the job at once.
IInv == TypeOK /\ Covered
=============================================================================
