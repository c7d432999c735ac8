------------------------------- MODULE Outbox -------------------------------
(***************************************************************************)
(* The offline outbox of a device, lib/client/outbox.ts: a change that     *)
(* could not be sent waits in one IndexedDB store, is sent when there is a *)
(* network again, and moves to a second store when the server refuses it.  *)
(* Both stores are shared by the tabs of the device; each tab flushes on   *)
(* its own, and every read or write of a store is a step of its own.       *)
(***************************************************************************)
EXTENDS Integers, Sequences, FiniteSets, SequencesExt

CONSTANTS
    Tabs,
    Changes, Needs,     \* a change and those it makes no sense without
    Nobody,             \* no change
    MaxAttempts,        \* MAX_ATTEMPTS
    MaxRetries, MaxCloses   \* bounds: changes retried by hand, each once, and
                            \* tabs closed in the middle of something

ASSUME OutboxAssumption ==
    /\ Needs \in [Changes -> SUBSET Changes]
    /\ Nobody \notin Changes
    /\ MaxAttempts \in Nat \ {0}
    /\ MaxRetries \in Nat /\ MaxCloses \in Nat

VARIABLES
    typed,          \* what the user typed, oldest first (createdAt)
    queued,         \* the "outbox" store: which changes are in it
    attempts,       \* and how often each had been tried
    refused,        \* the "rejected" store
    filed,          \* the server's rows
    told,           \* changes the user knows will not happen
    retried,        \* history: changes ever retried by hand
    pc,             \* where the flush of a tab is
    left,           \* what it has still to send of the queue as it read it
    tries,          \* and how often each had been tried by then
    current,        \* the change it is sending
    answer,         \* what the server said to it
    retrying,       \* the change a tab is putting back in the queue
    closes

stores == <<queued, attempts, refused>>
flush  == <<pc, left, tries, current, answer>>
banner == <<told, retried, retrying, closes>>
vars   == <<typed, stores, filed, flush, banner>>

Untried     == [c \in Changes |-> 0]
NotRetrying == [change |-> Nobody, stage |-> "none"]

Init ==
    /\ typed = <<>>
    /\ queued = {} /\ attempts = Untried /\ refused = {}
    /\ filed = {} /\ told = {} /\ retried = {}
    /\ pc = [t \in Tabs |-> "idle"]
    /\ left = [t \in Tabs |-> {}]
    /\ tries = [t \in Tabs |-> Untried]
    /\ current = [t \in Tabs |-> Nobody]
    /\ answer = [t \in Tabs |-> "none"]
    /\ retrying = [t \in Tabs |-> NotRetrying]
    /\ closes = 0

\* `d` was typed before `c`.
Older(d, c) == \E i, j \in DOMAIN typed : i < j /\ typed[i] = d /\ typed[j] = c

-----------------------------------------------------------------------------
(* The server, as the client sees it.                                      *)

\* A replay of what is filed succeeds; what lacks something it needs cannot.
Lands(c) == (c \in filed \/ Needs[c] \subseteq filed) /\ filed' = filed \cup {c}

\* The request reached the server and its answer came back: refused for good
\* (a 4xx), or failed, before or after it was filed (anything else, 429 too).
Answered(c, said) ==
    \/ said \in {"ok", "error"} /\ Lands(c)
    \/ said \in {"refused", "error"} /\ UNCHANGED filed

\* No network, or no server: the request was lost, or only its answer.
Unreached(c) == Lands(c) \/ UNCHANGED filed

-----------------------------------------------------------------------------
(* The screens: a change is sent at once, and only what got no answer is   *)
(* queued; the rest is filed, or its mistake shown to whoever is typing.   *)

Untyped == Changes \ ToSet(typed)

\* enqueue(), of what the user sees enough of to type.
Enqueue(c) ==
    /\ c \in Untyped /\ Needs[c] \subseteq ToSet(typed)
    /\ typed' = Append(typed, c)
    /\ Unreached(c)
    /\ queued' = queued \cup {c}
    /\ attempts' = [attempts EXCEPT ![c] = 0]
    /\ UNCHANGED <<refused, flush, banner>>

-----------------------------------------------------------------------------
(* flush()                                                                 *)

\* One flush per tab at a time, of the queue as it is now.
Start(t) ==
    /\ pc[t] = "idle"
    /\ queued # {}
    /\ pc' = [pc EXCEPT ![t] = "send"]
    /\ left' = [left EXCEPT ![t] = queued]
    /\ tries' = [tries EXCEPT ![t] = attempts]
    /\ UNCHANGED <<typed, stores, filed, current, answer, banner>>

AnyLeft(t, c) == c \in left[t]  \* mutant: the queue unsorted
Oldest(t, c) == c \in left[t] /\ \A d \in left[t] : ~Older(d, c)

\* request(): the oldest of the snapshot, whatever became of it since.
SendAnswered(t) ==
    /\ pc[t] = "send"
    /\ \E c \in left[t], said \in {"ok", "refused", "error"} :
          /\ Oldest(t, c) /\ Answered(c, said)
          /\ left' = [left EXCEPT ![t] = @ \ {c}]
          /\ current' = [current EXCEPT ![t] = c]
          /\ answer' = [answer EXCEPT ![t] = said]
    /\ pc' = [pc EXCEPT ![t] = "answered"]
    /\ UNCHANGED <<typed, stores, tries, banner>>

\* Out of the loop.
Stop(t) ==
    /\ pc' = [pc EXCEPT ![t] = "idle"]
    /\ left' = [left EXCEPT ![t] = {}]
    /\ tries' = [tries EXCEPT ![t] = Untried]
    /\ current' = [current EXCEPT ![t] = Nobody]
    /\ answer' = [answer EXCEPT ![t] = "none"]

GoesOn(t) ==                    \* mutant: no end of the snapshot
    /\ pc' = [pc EXCEPT ![t] = "send"]
    /\ current' = [current EXCEPT ![t] = Nobody]
    /\ answer' = [answer EXCEPT ![t] = "none"]
    /\ UNCHANGED <<left, tries>>

\* On to the next one, if any is left.
NextOne(t) ==
    IF left[t] = {} THEN Stop(t)
    ELSE /\ pc' = [pc EXCEPT ![t] = "send"]
         /\ current' = [current EXCEPT ![t] = Nobody]
         /\ answer' = [answer EXCEPT ![t] = "none"]
         /\ UNCHANGED <<left, tries>>

\* No network: the loop ends, and the rest stays queued, in order.
SendUnreached(t) ==
    /\ pc[t] = "send"
    /\ \E c \in left[t] : Oldest(t, c) /\ Unreached(c)
    /\ Stop(t)
    /\ UNCHANGED <<typed, stores, banner>>

NotCounted(tried) == tried      \* mutant: a failing change stays at the head
OneMore(tried) == tried + 1
GivesUp(tried) == OneMore(tried) >= MaxAttempts

\* remove(), whoever put it there since.
Removed(c) == queued' = queued \ {c} /\ attempts' = [attempts EXCEPT ![c] = 0]

\* Sent.
Sent(t) ==
    /\ pc[t] = "answered" /\ answer[t] = "ok"
    /\ Removed(current[t])
    /\ NextOne(t)
    /\ UNCHANGED <<typed, refused, filed, banner>>

NotKept(c) == UNCHANGED refused       \* mutant: dropped with a warning
PutAside(c) == refused' = refused \cup {c}

\* Refused, or failed on for the last time: into the second store ...
Reject(t) ==
    /\ pc[t] = "answered"
    /\ \/ answer[t] = "refused"
       \/ answer[t] = "error" /\ GivesUp(tries[t][current[t]])
    /\ PutAside(current[t])
    /\ pc' = [pc EXCEPT ![t] = "drop"]
    /\ UNCHANGED <<typed, queued, attempts, filed, left, tries, current, answer, banner>>

\* ... and then out of the first.
Drop(t) ==
    /\ pc[t] = "drop"
    /\ Removed(current[t])
    /\ NextOne(t)
    /\ UNCHANGED <<typed, refused, filed, banner>>

Skip(t) == NextOne(t)           \* mutant: a failure does not stop the queue
AfterFailure(t) == Stop(t)

\* Failed on: put back with one more attempt, and stop.
PutBack(t) ==
    /\ pc[t] = "answered" /\ answer[t] = "error"
    /\ ~GivesUp(tries[t][current[t]])
    /\ queued' = queued \cup {current[t]}
    /\ attempts' = [attempts EXCEPT ![current[t]] = OneMore(tries[t][current[t]])]
    /\ AfterFailure(t)
    /\ UNCHANGED <<typed, refused, filed, banner>>

-----------------------------------------------------------------------------
(* The banner: what was refused is retried or dismissed.                   *)

Retrying(t, c, stage) == [retrying EXCEPT ![t] = [change |-> c, stage |-> stage]]

\* retryRejected(): read from one store, put in the other, deleted from the first.
RetryRead(t, c) ==
    /\ retrying[t] = NotRetrying
    /\ c \in refused \ retried
    /\ Cardinality(retried) < MaxRetries
    /\ retried' = retried \cup {c}
    /\ retrying' = Retrying(t, c, "put")
    /\ UNCHANGED <<typed, stores, filed, flush, told, closes>>

RetryPut(t) ==
    /\ retrying[t].stage = "put"
    /\ queued' = queued \cup {retrying[t].change}
    /\ attempts' = [attempts EXCEPT ![retrying[t].change] = 0]
    /\ retrying' = Retrying(t, retrying[t].change, "delete")
    /\ UNCHANGED <<typed, refused, filed, flush, told, retried, closes>>

RetryDelete(t) ==
    /\ retrying[t].stage = "delete"
    /\ refused' = refused \ {retrying[t].change}
    /\ retrying' = [retrying EXCEPT ![t] = NotRetrying]
    /\ UNCHANGED <<typed, queued, attempts, filed, flush, told, retried, closes>>

\* discardRejected(), and discardAllRejected() one by one.
Dismiss(c) ==
    /\ c \in refused
    /\ refused' = refused \ {c}
    /\ told' = told \cup {c}
    /\ UNCHANGED <<typed, queued, attempts, filed, flush, retried, retrying, closes>>

\* A tab is closed, or reloaded, in the middle of something: its stores stay.
Close(t) ==
    /\ closes < MaxCloses
    /\ pc[t] # "idle" \/ retrying[t] # NotRetrying
    /\ closes' = closes + 1
    /\ Stop(t)
    /\ retrying' = [retrying EXCEPT ![t] = NotRetrying]
    /\ UNCHANGED <<typed, stores, filed, told, retried>>

-----------------------------------------------------------------------------

Reply(t) == Sent(t) \/ Reject(t) \/ Drop(t) \/ PutBack(t)

Next ==
    \/ \E c \in Changes : Enqueue(c) \/ Dismiss(c)
    \/ \E t \in Tabs : \/ Start(t) \/ SendAnswered(t) \/ SendUnreached(t) \/ Reply(t)
                       \/ \E c \in Changes : RetryRead(t, c)
                       \/ RetryPut(t) \/ RetryDelete(t) \/ Close(t)

Spec == Init /\ [][Next]_vars

\* The sweep of startAutoFlush starts a flush every thirty seconds, what a tab
\* has begun it goes on with, and the network does not fail for ever.
FairSpec ==
    /\ Spec
    /\ \A t \in Tabs : /\ WF_vars(Start(t)) /\ WF_vars(Reply(t))
                       /\ WF_vars(SendAnswered(t) \/ SendUnreached(t))
                       /\ SF_vars(SendAnswered(t))

-----------------------------------------------------------------------------

\* The shape of the stores and of what a tab remembers: a flush about to send
\* has something left to send, one with an answer the change it is about.
TypeOK ==
    /\ typed \in Seq(Changes)
    /\ queued \subseteq Changes /\ refused \subseteq Changes
    /\ attempts \in [Changes -> Nat]
    /\ filed \subseteq Changes /\ told \subseteq Changes /\ retried \subseteq Changes
    /\ pc \in [Tabs -> {"idle", "send", "answered", "drop"}]
    /\ left \in [Tabs -> SUBSET Changes]
    /\ tries \in [Tabs -> [Changes -> Nat]]
    /\ current \in [Tabs -> Changes \cup {Nobody}]
    /\ answer \in [Tabs -> {"none", "ok", "refused", "error"}]
    /\ retrying \in [Tabs -> {NotRetrying} \cup [change : Changes, stage : {"put", "delete"}]]
    /\ closes \in Nat
    /\ \A t \in Tabs : /\ pc[t] = "send" => left[t] # {}
                       /\ pc[t] \in {"answered", "drop"} => current[t] \in Changes

\* The change is on the server, shown as refused, or known not to happen.
Heeded(c) == c \in filed \cup refused \cup told

\* Nothing typed is ever lost, whichever tabs flush it at once and whenever
\* they are closed, unless it is retried by hand (flush, outbox.ts).
Kept == \A c \in ToSet(typed) \ retried : Heeded(c) \/ c \in queued

\* The queue is sent in the order it was typed: a queued change reaches the
\* server only after every older one was filed, shown as refused or given up,
\* whichever tab sends it (flush, outbox.ts).
SentInOrder ==
    [][\A t \in Tabs :
         (pc[t] = "send" /\ pc'[t] = "answered")
            => \A d \in Changes : Older(d, current'[t]) => Heeded(d) \/ d \in retried]_vars

\* A change the server fails on for ever does not hold up the others: each one
\* leaves the queue, filed or shown to the user (MAX_ATTEMPTS, outbox.ts).
Heard == \A c \in Changes : c \in queued ~> c \notin queued

\* Whatever is in a store or on its way to the server was typed.
OnlyTyped ==
    /\ queued \cup refused \subseteq ToSet(typed)
    /\ \A t \in Tabs : left[t] \cup {current[t], retrying[t].change}
                            \subseteq ToSet(typed) \cup {Nobody}

\* What a tab remembers is still true: a success is filed, what it drops is
\* shown, and whatever is older than what it has left is no longer its business.
Remembers(t) ==
    /\ pc[t] \in {"idle", "send"} => current[t] = Nobody
    /\ pc[t] = "answered" /\ answer[t] = "ok" => current[t] \in filed
    /\ pc[t] = "drop" => Heeded(current[t]) \/ current[t] \in retried
    /\ retrying[t] # NotRetrying => retrying[t].change \in retried
    /\ \A c \in left[t], d \in Changes :
          Older(d, c) => d \in left[t] \cup {current[t]} \cup retried \/ Heeded(d)

\* What the proofs of Kept and SentInOrder carry from step to step.
IInv == TypeOK /\ Kept /\ OnlyTyped /\ \A t \in Tabs : Remembers(t)
=============================================================================
