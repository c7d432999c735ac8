------------------------------- MODULE Limits -------------------------------
(***************************************************************************)
(* The fixed windows of server/rate-limit.ts: a Map of keys (an address or *)
(* an account, and what it asks for) in the order they were put in, kept   *)
(* by one process and emptied from the front when there are too many.      *)
(***************************************************************************)
EXTENDS Integers, Sequences, SequencesExt

CONSTANTS
    Callers,            \* the keys
    Allowance, Span,    \* limit and windowSeconds of the endpoint
    MaxTracked,         \* MAX_TRACKED
    MaxTime, MaxReboots \* bounds

ASSUME LimitsAssumption ==
    /\ Allowance \in Nat \ {0} /\ Span \in Nat \ {0} /\ MaxTracked \in Nat
    /\ MaxTime \in Nat /\ MaxReboots \in Nat

VARIABLES
    windows,    \* the Map, in order: [key, count, resetAt, blocked]
    now,
    refusedTo,  \* until when each caller was told to wait
    reboots

limitVars == <<windows, now, refusedTo, reboots>>

LimitsInit ==
    /\ windows = <<>> /\ now = 0 /\ reboots = 0
    /\ refusedTo = [k \in Callers |-> 0]

-----------------------------------------------------------------------------

\* 90% of MAX_TRACKED is left.
FewEnough(size) == 10 * size <= 9 * MaxTracked

\* One pass over the Map, that stops when there are few enough.
OnePass(ws, going) ==
    LET kept[i \in 0..Len(ws)] ==
            IF i = 0 THEN <<>>
            ELSE IF i \in going /\ ~FewEnough(Len(kept[i - 1]) + Len(ws) - (i - 1))
            THEN kept[i - 1] ELSE Append(kept[i - 1], ws[i])
    IN  kept[Len(ws)]

Expired(w) == w.resetAt <= now

AnyWindow(w) == TRUE            \* mutant: the oldest, refused or not
Unblocked(w) == ~w.blocked

\* Expired windows go first, then the oldest that refuse nobody.
Evict(ws) ==
    LET rest == OnePass(ws, {i \in DOMAIN ws : Expired(ws[i])})
    IN  IF FewEnough(Len(rest)) THEN rest ELSE OnePass(rest, {i \in DOMAIN rest : Unblocked(rest[i])})

Swept == IF Len(windows) > MaxTracked THEN Evict(windows) ELSE windows

Has(ws, k)      == \E i \in DOMAIN ws : ws[i].key = k
PlaceOf(ws, k)  == CHOOSE i \in DOMAIN ws : ws[i].key = k
WindowOf(ws, k) == ws[PlaceOf(ws, k)]
Without(ws, k)  == IF Has(ws, k) THEN RemoveAt(ws, PlaceOf(ws, k)) ELSE ws
Update(ws, w)   == [i \in DOMAIN ws |-> IF ws[i].key = w.key THEN w ELSE ws[i]]

Current(ws, k) == Has(ws, k) /\ ~Expired(WindowOf(ws, k))

\* consume(): a window of its own, at the end of the Map ...
Open(k) ==
    LET ws == Swept IN
    /\ ~Current(ws, k)
    /\ windows' = Append(Without(ws, k),
                         [key |-> k, count |-> 1, resetAt |-> now + Span, blocked |-> FALSE])
    /\ UNCHANGED <<now, refusedTo, reboots>>

\* ... or one more in the window it has ...
Count(k) ==
    LET ws == Swept w == WindowOf(ws, k) IN
    /\ Current(ws, k) /\ w.count < Allowance
    /\ windows' = Update(ws, [w EXCEPT !.count = @ + 1])
    /\ UNCHANGED <<now, refusedTo, reboots>>

\* ... or one too many: refused, and told when to come back.
TooMany(k) ==
    LET ws == Swept w == WindowOf(ws, k) IN
    /\ Current(ws, k) /\ w.count >= Allowance
    /\ windows' = Update(ws, [w EXCEPT !.count = Allowance + 1, !.blocked = TRUE])
    /\ refusedTo' = [refusedTo EXCEPT ![k] = w.resetAt]
    /\ UNCHANGED <<now, reboots>>

Wait ==
    /\ \E t \in (now + 1)..MaxTime : now' = t
    /\ UNCHANGED <<windows, refusedTo, reboots>>

\* "Counters reset on restart."
Reboot ==
    /\ reboots < MaxReboots /\ reboots' = reboots + 1
    /\ windows' = <<>>
    /\ refusedTo' = [k \in Callers |-> 0]
    /\ UNCHANGED now

Allowed(k) == Open(k) \/ Count(k)

LimitsNext ==
    \/ \E k \in Callers : Allowed(k) \/ TooMany(k)
    \/ Wait \/ Reboot

LimitsSpec == LimitsInit /\ [][LimitsNext]_limitVars

-----------------------------------------------------------------------------

\* Whoever has been refused stays refused until their window ends, however many
\* others arrive meanwhile and however often the Map is emptied (evict,
\* rate-limit.ts).
StaysRefused == [][\A k \in Callers : Allowed(k) => refusedTo[k] <= now]_limitVars
=============================================================================
