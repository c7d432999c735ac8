---------------------------- MODULE Outbox_proofs ----------------------------
(***************************************************************************)
(* Theorems about the outbox of module Outbox, for any number of tabs,     *)
(* changes, attempts, retries and closed tabs.                             *)
(***************************************************************************)
EXTENDS Outbox, TLAPS

\* A step loses nothing: what is heeded stays so, or is being retried, and what
\* leaves the queue is one or the other.
Grows ==
    /\ filed \subseteq filed' /\ retried \subseteq retried'
    /\ \A c \in Changes : Heeded(c) => Heeded(c)' \/ c \in retried'
    /\ \A c \in queued : c \in queued' \/ Heeded(c)' \/ c \in retried'

\* A step that types nothing, adds only typed changes to the stores, and
\* leaves the other tabs alone.
ByTab(t) ==
    /\ typed' = typed
    /\ queued' \cup refused' \subseteq ToSet(typed)
    /\ \A u \in Tabs \ {t} : /\ pc'[u] = pc[u] /\ left'[u] = left[u]
                              /\ current'[u] = current[u] /\ answer'[u] = answer[u]
                              /\ retrying'[u] = retrying[u]

-----------------------------------------------------------------------------
(* The typed changes.                                                      *)

LEMMA TypedMore ==
    ASSUME typed \in Seq(Changes), NEW c \in Untyped, typed' = Append(typed, c)
    PROVE  /\ typed' \in Seq(Changes)
           /\ ToSet(typed') = ToSet(typed) \cup {c}
           /\ \A d, e \in Changes : e \in ToSet(typed) /\ Older(d, e)' => Older(d, e)
<1>1. c \in Changes /\ c \notin ToSet(typed)
  BY DEF Untyped
<1>2. Len(typed) \in Nat /\ DOMAIN typed = 1..Len(typed)
  OBVIOUS
<1>3. /\ typed' \in Seq(Changes) /\ Len(typed') = Len(typed) + 1
      /\ DOMAIN typed' = 1..(Len(typed) + 1)
  BY <1>1
<1>4. /\ \A i \in 1..Len(typed) : typed'[i] = typed[i]
      /\ typed'[Len(typed) + 1] = c
  BY <1>1
<1>5. ToSet(typed') = ToSet(typed) \cup {c}
  BY <1>2, <1>3, <1>4 DEF ToSet
<1>6. ASSUME NEW d \in Changes, NEW e \in ToSet(typed), Older(d, e)'
      PROVE  Older(d, e)
  <2>1. PICK i, j \in DOMAIN typed' : i < j /\ typed'[i] = d /\ typed'[j] = e
    BY <1>6 DEF Older
  <2>2. j \in 1..Len(typed) /\ i \in 1..Len(typed)
    BY <1>1, <1>2, <1>3, <1>4, <2>1
  <2> QED
    BY <1>2, <1>4, <2>1, <2>2 DEF Older
<1> QED
  BY <1>3, <1>5, <1>6

-----------------------------------------------------------------------------
(* Type correctness.                                                       *)

LEMMA Started == Init => TypeOK
BY OutboxAssumption DEF Init, TypeOK, Untried, NotRetrying

LEMMA ServerTypes ==
    ASSUME TypeOK, NEW c \in Changes,
           Unreached(c) \/ \E said \in {"ok", "refused", "error"} : Answered(c, said)
    PROVE  filed' \subseteq Changes /\ filed \subseteq filed'
BY DEF TypeOK, Unreached, Answered, Lands

\* The flush of a tab keeps its shape, whether it goes on or stops.
FlushOK ==
    /\ pc \in [Tabs -> {"idle", "send", "answered", "drop"}]
    /\ left \in [Tabs -> SUBSET Changes]
    /\ tries \in [Tabs -> [Changes -> Nat]]
    /\ current \in [Tabs -> Changes \cup {Nobody}]
    /\ answer \in [Tabs -> {"none", "ok", "refused", "error"}]
    /\ \A t \in Tabs : /\ pc[t] = "send" => left[t] # {}
                       /\ pc[t] \in {"answered", "drop"} => current[t] \in Changes

LEMMA StopTypes == ASSUME TypeOK, NEW t \in Tabs, Stop(t) PROVE FlushOK'
BY DEF TypeOK, Stop, Untried, FlushOK

LEMMA NextOneTypes == ASSUME TypeOK, NEW t \in Tabs, NextOne(t) PROVE FlushOK'
<1>1. CASE left[t] = {}
  BY <1>1, StopTypes DEF NextOne
<1>2. CASE left[t] # {}
  BY <1>2 DEF TypeOK, NextOne, FlushOK
<1> QED
  BY <1>1, <1>2

LEMMA SameFlush == ASSUME TypeOK, UNCHANGED flush PROVE FlushOK'
BY DEF TypeOK, flush, FlushOK

\* The rest of TypeOK.
StoresOK ==
    /\ typed \in Seq(Changes)
    /\ queued \subseteq Changes /\ refused \subseteq Changes
    /\ attempts \in [Changes -> Nat]
    /\ filed \subseteq Changes /\ told \subseteq Changes /\ retried \subseteq Changes
    /\ retrying \in [Tabs -> {NotRetrying} \cup [change : Changes, stage : {"put", "delete"}]]
    /\ closes \in Nat

LEMMA TypeParts == TypeOK <=> FlushOK /\ StoresOK
BY DEF TypeOK, FlushOK, StoresOK

LEMMA Typed == TypeOK /\ [Next]_vars => TypeOK'
<1> SUFFICES ASSUME TypeOK, [Next]_vars PROVE FlushOK' /\ StoresOK'
  BY TypeParts DEF TypeOK, FlushOK, StoresOK
<1>0. FlushOK /\ StoresOK
  BY TypeParts
<1>1. ASSUME NEW c \in Changes, Enqueue(c) PROVE FlushOK' /\ StoresOK'
  <2>1. typed' \in Seq(Changes)
    BY <1>0, <1>1, TypedMore DEF Enqueue, StoresOK
  <2>2. filed' \subseteq Changes
    BY <1>1, ServerTypes DEF Enqueue
  <2> QED
    BY <1>0, <1>1, <2>1, <2>2, SameFlush DEF Enqueue, StoresOK, banner
<1>2. ASSUME NEW c \in Changes, Dismiss(c) PROVE FlushOK' /\ StoresOK'
  BY <1>0, <1>2, SameFlush DEF Dismiss, StoresOK
<1>3. ASSUME NEW t \in Tabs, Start(t) PROVE FlushOK' /\ StoresOK'
  <2>1. StoresOK'
    BY <1>0, <1>3 DEF Start, StoresOK, stores, banner
  <2> QED
    BY <1>0, <1>3, <2>1 DEF Start, FlushOK, StoresOK
<1>4. ASSUME NEW t \in Tabs, SendAnswered(t) PROVE FlushOK' /\ StoresOK'
  <2>1. PICK c \in left[t], said \in {"ok", "refused", "error"} :
           /\ Answered(c, said)
           /\ left' = [left EXCEPT ![t] = @ \ {c}]
           /\ current' = [current EXCEPT ![t] = c]
           /\ answer' = [answer EXCEPT ![t] = said]
    BY <1>4 DEF SendAnswered
  <2>2. c \in Changes
    BY <1>0 DEF FlushOK
  <2>3. filed' \subseteq Changes
    BY <2>1, <2>2, ServerTypes
  <2>4. StoresOK'
    BY <1>0, <1>4, <2>3 DEF SendAnswered, StoresOK, stores, banner
  <2>5. FlushOK'
    BY <1>0, <1>4, <2>1, <2>2 DEF SendAnswered, FlushOK
  <2> QED
    BY <2>4, <2>5
<1>5. ASSUME NEW t \in Tabs, SendUnreached(t) PROVE FlushOK' /\ StoresOK'
  <2>1. filed' \subseteq Changes
    BY <1>0, <1>5, ServerTypes DEF SendUnreached, FlushOK
  <2> QED
    BY <1>0, <1>5, <2>1, StopTypes DEF SendUnreached, StoresOK, stores, banner
<1>6. ASSUME NEW t \in Tabs, Sent(t) PROVE FlushOK' /\ StoresOK'
  BY <1>0, <1>6, NextOneTypes DEF Sent, Removed, StoresOK, banner
<1>7. ASSUME NEW t \in Tabs, Reject(t) PROVE FlushOK' /\ StoresOK'
  <2>1. current[t] \in Changes
    BY <1>0, <1>7 DEF Reject, FlushOK
  <2>2. FlushOK'
    BY <1>0, <1>7, <2>1 DEF Reject, FlushOK
  <2>3. StoresOK'
    BY <1>0, <1>7, <2>1 DEF Reject, PutAside, StoresOK, banner
  <2> QED
    BY <2>2, <2>3
<1>8. ASSUME NEW t \in Tabs, Drop(t) PROVE FlushOK' /\ StoresOK'
  BY <1>0, <1>8, NextOneTypes DEF Drop, Removed, StoresOK, banner
<1>9. ASSUME NEW t \in Tabs, PutBack(t) PROVE FlushOK' /\ StoresOK'
  <2>1. current[t] \in Changes /\ tries[t] \in [Changes -> Nat]
    BY <1>0, <1>9 DEF PutBack, FlushOK
  <2>2. FlushOK'
    BY <1>9, StopTypes DEF PutBack, AfterFailure
  <2>3. StoresOK'
    BY <1>0, <1>9, <2>1 DEF PutBack, OneMore, StoresOK, banner
  <2> QED
    BY <2>2, <2>3
<1>10. ASSUME NEW t \in Tabs, NEW c \in Changes, RetryRead(t, c) PROVE FlushOK' /\ StoresOK'
  <2>1. StoresOK'
    BY <1>0, <1>10 DEF RetryRead, Retrying, StoresOK, stores
  <2> QED
    BY <1>10, <2>1, SameFlush DEF RetryRead
<1>11. ASSUME NEW t \in Tabs, RetryPut(t) PROVE FlushOK' /\ StoresOK'
  <2>1. retrying[t].change \in Changes
    BY <1>0, <1>11 DEF RetryPut, StoresOK, NotRetrying
  <2>2. StoresOK'
    BY <1>0, <1>11, <2>1 DEF RetryPut, Retrying, StoresOK
  <2> QED
    BY <1>11, <2>2, SameFlush DEF RetryPut
<1>12. ASSUME NEW t \in Tabs, RetryDelete(t) PROVE FlushOK' /\ StoresOK'
  BY <1>0, <1>12, SameFlush DEF RetryDelete, StoresOK
<1>13. ASSUME NEW t \in Tabs, Close(t) PROVE FlushOK' /\ StoresOK'
  <2>1. FlushOK'
    BY <1>13, StopTypes DEF Close
  <2> QED
    BY <1>0, <1>13, <2>1 DEF Close, StoresOK, stores
<1>14. CASE UNCHANGED vars
  BY <1>0, <1>14, SameFlush DEF vars, stores, banner, StoresOK
<1> QED
  BY <1>1, <1>2, <1>3, <1>4, <1>5, <1>6, <1>7, <1>8, <1>9, <1>10, <1>11, <1>12, <1>13, <1>14
     DEF Next, Reply

\* The stores, and what each tab remembers of them, keep their shape.
THEOREM OutboxTypes == Spec => []TypeOK
BY Started, Typed, PTL DEF Spec

-----------------------------------------------------------------------------
(* Nothing is lost.                                                        *)

LEMMA StartsKept == Init => IInv
BY Started DEF Init, IInv, Kept, OnlyTyped, Remembers, ToSet, NotRetrying

LEMMA OlderTyped ==
    ASSUME NEW c, NEW d, Older(d, c) PROVE d \in ToSet(typed)
BY DEF Older, ToSet

LEMMA SameTyped ==
    ASSUME typed' = typed
    PROVE  /\ ToSet(typed)' = ToSet(typed)
           /\ \A c, d : Older(d, c)' <=> Older(d, c)
BY DEF Older, ToSet

\* Kept follows from Grows when nothing is typed.
LEMMA KeptOn ==
    ASSUME IInv, Grows, typed' = typed PROVE Kept'
<1>1. ToSet(typed) \subseteq Changes
  BY DEF IInv, TypeOK, ToSet
<1> QED
  BY <1>1, SameTyped DEF IInv, Kept, Grows

\* A tab that did nothing remembers what it did.
LEMMA StillRemembers ==
    ASSUME IInv, Grows, typed' = typed, NEW u \in Tabs,
           pc'[u] = pc[u], left'[u] = left[u], current'[u] = current[u],
           answer'[u] = answer[u], retrying'[u] = retrying[u]
    PROVE  Remembers(u)'
<1>1. Remembers(u) /\ TypeOK
  BY DEF IInv
<1>2. pc[u] = "drop" => current[u] \in Changes
  BY <1>1 DEF TypeOK
<1>3. left[u] \subseteq Changes
  BY <1>1 DEF TypeOK
<1>4. \A c \in left'[u], d \in Changes :
        Older(d, c)' => d \in left'[u] \cup {current'[u]} \cup retried' \/ Heeded(d)'
  BY <1>1, <1>3, SameTyped DEF Remembers, Grows
<1> QED
  BY <1>1, <1>2, <1>4 DEF Remembers, Grows

\* So it is enough to look at the tab that took the step.
LEMMA OneTab ==
    ASSUME IInv, TypeOK', Grows, NEW t \in Tabs, ByTab(t), Remembers(t)',
           left'[t] \cup {current'[t], retrying'[t].change} \subseteq ToSet(typed) \cup {Nobody}
    PROVE  IInv'
<1>1. Kept'
  BY KeptOn DEF ByTab
<1>2. OnlyTyped'
  BY SameTyped DEF ByTab, IInv, OnlyTyped
<1>3. \A u \in Tabs \ {t} : Remembers(u)'
  BY StillRemembers DEF ByTab
<1> QED
  BY <1>1, <1>2, <1>3 DEF IInv

\* The end of a flush leaves nothing to remember of it.
LEMMA StopRemembers ==
    ASSUME IInv, NEW t \in Tabs, Stop(t), TypeOK', Grows,
           retrying'[t] \in {retrying[t], NotRetrying}
    PROVE  /\ Remembers(t)'
           /\ left'[t] \cup {current'[t], retrying'[t].change} \subseteq ToSet(typed) \cup {Nobody}
<1>1. pc'[t] = "idle" /\ left'[t] = {} /\ current'[t] = Nobody
  BY DEF IInv, TypeOK, Stop
<1>2. Remembers(t) /\ retrying[t].change \in ToSet(typed) \cup {Nobody}
  BY DEF IInv, OnlyTyped
<1> QED
  BY <1>1, <1>2 DEF Remembers, NotRetrying, Grows

\* Going on is safe when the change it was sending is heeded.
LEMMA NextOneRemembers ==
    ASSUME IInv, NEW t \in Tabs, NextOne(t), TypeOK', Grows, typed' = typed,
           retrying' = retrying, pc[t] \in {"answered", "drop"},
           \A c \in Changes : c = current[t] => Heeded(c)' \/ c \in retried'
    PROVE  /\ Remembers(t)'
           /\ left'[t] \cup {current'[t], retrying'[t].change} \subseteq ToSet(typed) \cup {Nobody}
<1>1. CASE left[t] = {}
  BY <1>1, StopRemembers DEF NextOne
<1>2. CASE left[t] # {}
  <2>1. pc'[t] = "send" /\ left'[t] = left[t] /\ current'[t] = Nobody
    BY <1>2 DEF IInv, TypeOK, NextOne
  <2>2. Remembers(t) /\ left[t] \cup {retrying[t].change} \subseteq ToSet(typed) \cup {Nobody}
    BY DEF IInv, OnlyTyped
  <2>3. left[t] \subseteq Changes
    BY DEF IInv, TypeOK
  <2>4. \A c \in left'[t], d \in Changes :
          Older(d, c)' => d \in left'[t] \cup {current'[t]} \cup retried' \/ Heeded(d)'
    <3> SUFFICES ASSUME NEW c \in left[t], NEW d \in Changes, Older(d, c)'
                 PROVE  d \in left[t] \cup retried' \/ Heeded(d)'
      BY <2>1
    <3>1. Older(d, c)
      BY SameTyped
    <3>2. d \in left[t] \cup {current[t]} \cup retried \/ Heeded(d)
      BY <2>2, <3>1 DEF Remembers
    <3> QED
      BY <3>2 DEF Grows
  <2>5. retrying'[t] # NotRetrying => retrying'[t].change \in retried'
    BY <2>2 DEF Remembers, Grows
  <2>6. Remembers(t)'
    BY <2>1, <2>4, <2>5 DEF Remembers, NotRetrying
  <2> QED
    BY <2>1, <2>2, <2>6
<1> QED
  BY <1>1, <1>2

\* The banner of a tab at work: its flush is as it was.
LEMMA RetryRemembers ==
    ASSUME IInv, NEW t \in Tabs, TypeOK', Grows, typed' = typed, UNCHANGED flush,
           retrying'[t] = NotRetrying \/ retrying'[t].change \in retried'
    PROVE  Remembers(t)'
<1>1. Remembers(t) /\ TypeOK
  BY DEF IInv
<1>2. ASSUME NEW c \in left'[t], NEW d \in Changes, Older(d, c)'
      PROVE  d \in left'[t] \cup {current'[t]} \cup retried' \/ Heeded(d)'
  <2>1. Older(d, c) /\ c \in left[t] /\ left' = left /\ current' = current
    BY <1>2, SameTyped DEF flush
  <2> QED
    BY <1>1, <2>1 DEF Remembers, Grows
<1>3. pc[t] = "drop" => current[t] \in Changes
  BY <1>1 DEF TypeOK
<1> QED
  BY <1>1, <1>2, <1>3 DEF Remembers, Grows, flush

LEMMA NextOneAlone ==
    ASSUME TypeOK, NEW t \in Tabs, NextOne(t)
    PROVE  \A u \in Tabs \ {t} : /\ pc'[u] = pc[u] /\ left'[u] = left[u]
                                 /\ current'[u] = current[u] /\ answer'[u] = answer[u]
<1>1. CASE left[t] = {}
  BY <1>1 DEF NextOne, Stop, TypeOK
<1>2. CASE left[t] # {}
  BY <1>2 DEF NextOne, TypeOK
<1> QED
  BY <1>1, <1>2

LEMMA EnqueueKept ==
    ASSUME IInv, TypeOK', NEW c \in Changes, Enqueue(c) PROVE IInv'
<1>1. /\ ToSet(typed') = ToSet(typed) \cup {c}
      /\ \A d, e \in Changes : e \in ToSet(typed) /\ Older(d, e)' => Older(d, e)
  BY TypedMore DEF IInv, TypeOK, Enqueue
<1>2. filed \subseteq filed' /\ UNCHANGED <<refused, flush, banner>> /\ queued' = queued \cup {c}
  BY ServerTypes DEF IInv, Enqueue
<1>3. Kept'
  BY <1>1, <1>2 DEF IInv, Kept, Heeded, banner
<1>4. OnlyTyped'
  BY <1>1, <1>2 DEF IInv, OnlyTyped, flush, banner
<1>5. ASSUME NEW t \in Tabs PROVE Remembers(t)'
  <2>1. Remembers(t) /\ left[t] \subseteq ToSet(typed) /\ left[t] \subseteq Changes
    BY OutboxAssumption DEF IInv, OnlyTyped, TypeOK
  <2>2. \A e \in left'[t], d \in Changes :
          Older(d, e)' => d \in left'[t] \cup {current'[t]} \cup retried' \/ Heeded(d)'
    BY <1>1, <1>2, <2>1 DEF Remembers, Heeded, flush, banner
  <2> QED
    BY <1>2, <2>1, <2>2 DEF Remembers, Heeded, flush, banner
<1> QED
  BY <1>3, <1>4, <1>5 DEF IInv

LEMMA StepKept == IInv /\ TypeOK' /\ [Next]_vars => IInv'
<1> SUFFICES ASSUME IInv, TypeOK', [Next]_vars PROVE IInv'
  OBVIOUS
<1> USE DEF banner, stores
<1>0. /\ TypeOK /\ Kept /\ OnlyTyped
      /\ ToSet(typed) \subseteq Changes
  BY DEF IInv, TypeOK, ToSet
<1>1. ASSUME NEW c \in Changes, Enqueue(c) PROVE IInv'
  BY <1>1, EnqueueKept
<1>2. ASSUME NEW c \in Changes, Dismiss(c) PROVE IInv'
  <2>1. Grows /\ typed' = typed /\ UNCHANGED flush /\ retrying' = retrying
    BY <1>2 DEF Dismiss, Grows, Heeded
  <2>2. Kept'
    BY <2>1, KeptOn
  <2>3. OnlyTyped'
    BY <1>0, <1>2, <2>1, SameTyped DEF Dismiss, OnlyTyped, flush
  <2>4. \A t \in Tabs : Remembers(t)'
    BY <2>1, StillRemembers DEF flush
  <2> QED
    BY <2>2, <2>3, <2>4 DEF IInv
<1>3. ASSUME NEW t \in Tabs, Start(t) PROVE IInv'
  <2>1. Grows
    BY <1>3 DEF Start, Grows, Heeded
  <2>2. ByTab(t)
    BY <1>0, <1>3 DEF Start, ByTab, OnlyTyped, TypeOK
  <2>3. pc'[t] = "send" /\ left'[t] = queued /\ current'[t] = Nobody
    BY <1>0, <1>3 DEF Start, TypeOK, IInv, Remembers
  <2>4. ASSUME NEW c \in queued, NEW d \in Changes, Older(d, c)'
        PROVE  d \in queued \cup retried' \/ Heeded(d)'
    <3>1. d \in ToSet(typed)
      BY <2>2, <2>4, SameTyped, OlderTyped DEF ByTab
    <3> QED
      BY <1>0, <1>3, <3>1 DEF Kept, Start, Heeded
  <2>5. Remembers(t) /\ retrying' = retrying /\ retried' = retried
    BY <1>3 DEF IInv, Start
  <2>6. Remembers(t)'
    BY <2>3, <2>4, <2>5 DEF Remembers
  <2>7. left'[t] \cup {current'[t], retrying'[t].change} \subseteq ToSet(typed) \cup {Nobody}
    BY <1>0, <2>3, <2>5 DEF OnlyTyped
  <2> QED
    BY <2>1, <2>2, <2>6, <2>7, OneTab
<1>4. ASSUME NEW t \in Tabs, SendAnswered(t) PROVE IInv'
  <2>1. PICK c \in left[t], said \in {"ok", "refused", "error"} :
           /\ Answered(c, said)
           /\ left' = [left EXCEPT ![t] = @ \ {c}]
           /\ current' = [current EXCEPT ![t] = c]
           /\ answer' = [answer EXCEPT ![t] = said]
    BY <1>4 DEF SendAnswered
  <2>2. c \in Changes /\ c \in ToSet(typed) /\ filed \subseteq filed'
    <3>1. c \in Changes
      BY <1>0 DEF TypeOK
    <3>2. c \in ToSet(typed)
      BY <1>0, <3>1, OutboxAssumption DEF OnlyTyped
    <3>3. filed \subseteq filed'
      BY <1>0, <2>1, <3>1, ServerTypes
    <3> QED
      BY <3>1, <3>2, <3>3
  <2>3. Grows
    BY <1>4, <2>2 DEF SendAnswered, Grows, Heeded
  <2>4. ByTab(t)
    BY <1>0, <1>4, <2>1 DEF SendAnswered, ByTab, OnlyTyped, TypeOK
  <2>5. /\ pc'[t] = "answered" /\ left'[t] = left[t] \ {c} /\ current'[t] = c
        /\ answer'[t] = said /\ (said = "ok" => c \in filed')
    BY <1>0, <1>4, <2>1 DEF SendAnswered, TypeOK, Answered, Lands
  <2>6. Remembers(t) /\ current[t] = Nobody /\ retrying' = retrying /\ retried' = retried
    BY <1>4 DEF IInv, SendAnswered, Remembers
  <2>7. ASSUME NEW e \in left'[t], NEW d \in Changes, Older(d, e)'
        PROVE  d \in left'[t] \cup {current'[t]} \cup retried' \/ Heeded(d)'
    <3>1. Older(d, e) /\ e \in left[t]
      BY <2>4, <2>5, <2>7, SameTyped DEF ByTab
    <3>2. d \in left[t] \cup retried \/ Heeded(d)
      BY <2>6, <3>1, OutboxAssumption DEF Remembers
    <3> QED
      BY <2>3, <2>5, <2>6, <3>2 DEF Grows
  <2>8. Remembers(t)'
    BY <2>5, <2>6, <2>7 DEF Remembers
  <2>9. left'[t] \cup {current'[t], retrying'[t].change} \subseteq ToSet(typed) \cup {Nobody}
    BY <1>0, <2>2, <2>5, <2>6 DEF OnlyTyped
  <2> QED
    BY <2>3, <2>4, <2>8, <2>9, OneTab
<1>5. ASSUME NEW t \in Tabs, SendUnreached(t) PROVE IInv'
  <2>1. filed \subseteq filed'
    BY <1>0, <1>5, ServerTypes DEF SendUnreached, TypeOK
  <2>2. Grows
    BY <1>5, <2>1 DEF SendUnreached, Grows, Heeded
  <2>3. ByTab(t)
    BY <1>0, <1>5 DEF SendUnreached, Stop, ByTab, OnlyTyped, TypeOK
  <2> QED
    BY <1>5, <2>2, <2>3, StopRemembers, OneTab DEF SendUnreached
<1>6. ASSUME NEW t \in Tabs, Sent(t) PROVE IInv'
  <2>1. current[t] \in filed /\ NextOne(t) /\ pc[t] = "answered"
    BY <1>6 DEF Sent, IInv, Remembers
  <2>2. Grows
    BY <1>6, <2>1 DEF Sent, Removed, Grows, Heeded
  <2>3. ByTab(t)
    BY <1>0, <1>6, <2>1, NextOneAlone DEF Sent, Removed, ByTab, OnlyTyped
  <2>4. \A c \in Changes : c = current[t] => Heeded(c)' \/ c \in retried'
    BY <1>6, <2>1 DEF Sent, Heeded
  <2>5. retrying' = retrying /\ typed' = typed
    BY <1>6 DEF Sent
  <2> QED
    BY <2>1, <2>2, <2>3, <2>4, <2>5, NextOneRemembers, OneTab
<1>7. ASSUME NEW t \in Tabs, Reject(t) PROVE IInv'
  <2>1. current[t] \in Changes /\ current[t] \in ToSet(typed)
    BY <1>0, <1>7, OutboxAssumption DEF Reject, TypeOK, OnlyTyped
  <2>2. Grows
    BY <1>7 DEF Reject, PutAside, Grows, Heeded
  <2>3. ByTab(t)
    BY <1>0, <1>7, <2>1 DEF Reject, PutAside, ByTab, OnlyTyped, TypeOK
  <2>4. /\ pc'[t] = "drop" /\ left' = left /\ current' = current
        /\ current[t] \in refused' /\ retrying' = retrying /\ retried' = retried
    BY <1>0, <1>7 DEF Reject, PutAside, TypeOK
  <2>5. Remembers(t) /\ left[t] \subseteq Changes
    BY <1>0 DEF IInv, TypeOK
  <2>6. ASSUME NEW e \in left'[t], NEW d \in Changes, Older(d, e)'
        PROVE  d \in left'[t] \cup {current'[t]} \cup retried' \/ Heeded(d)'
    <3>1. Older(d, e)
      BY <2>3, <2>6, SameTyped DEF ByTab
    <3> QED
      BY <2>2, <2>4, <2>5, <3>1 DEF Remembers, Grows
  <2>7. Remembers(t)'
    BY <2>4, <2>5, <2>6 DEF Remembers, Heeded
  <2>8. left'[t] \cup {current'[t], retrying'[t].change} \subseteq ToSet(typed) \cup {Nobody}
    BY <1>0, <2>4 DEF OnlyTyped
  <2> QED
    BY <2>2, <2>3, <2>7, <2>8, OneTab
<1>8. ASSUME NEW t \in Tabs, Drop(t) PROVE IInv'
  <2>1. /\ Heeded(current[t]) \/ current[t] \in retried
        /\ NextOne(t) /\ pc[t] = "drop"
    BY <1>8 DEF Drop, IInv, Remembers
  <2>2. Grows
    BY <1>8, <2>1 DEF Drop, Removed, Grows, Heeded
  <2>3. ByTab(t)
    BY <1>0, <1>8, <2>1, NextOneAlone DEF Drop, Removed, ByTab, OnlyTyped
  <2>4. \A c \in Changes : c = current[t] => Heeded(c)' \/ c \in retried'
    BY <1>8, <2>1 DEF Drop, Heeded
  <2>5. retrying' = retrying /\ typed' = typed
    BY <1>8 DEF Drop
  <2> QED
    BY <2>1, <2>2, <2>3, <2>4, <2>5, NextOneRemembers, OneTab
<1>9. ASSUME NEW t \in Tabs, PutBack(t) PROVE IInv'
  <2>1. current[t] \in Changes /\ current[t] \in ToSet(typed) /\ Stop(t)
    BY <1>0, <1>9, OutboxAssumption DEF PutBack, AfterFailure, TypeOK, OnlyTyped
  <2>2. Grows
    BY <1>9 DEF PutBack, Grows, Heeded
  <2>3. ByTab(t)
    BY <1>0, <1>9, <2>1 DEF PutBack, Stop, ByTab, OnlyTyped, TypeOK
  <2>4. retrying' = retrying
    BY <1>9 DEF PutBack
  <2> QED
    BY <2>1, <2>2, <2>3, <2>4, StopRemembers, OneTab
<1>10. ASSUME NEW t \in Tabs, NEW c \in Changes, RetryRead(t, c) PROVE IInv'
  <2>1. Grows
    BY <1>10 DEF RetryRead, Grows, Heeded
  <2>2. ByTab(t)
    BY <1>0, <1>10 DEF RetryRead, Retrying, flush, ByTab, OnlyTyped, TypeOK
  <2>3. /\ retrying'[t].change = c /\ c \in retried' /\ c \in ToSet(typed)
        /\ UNCHANGED flush
    BY <1>0, <1>10 DEF RetryRead, Retrying, TypeOK, OnlyTyped
  <2>4. Remembers(t)'
    BY <2>1, <2>2, <2>3, RetryRemembers DEF ByTab
  <2>5. left'[t] \cup {current'[t], retrying'[t].change} \subseteq ToSet(typed) \cup {Nobody}
    BY <1>0, <2>3 DEF OnlyTyped, flush
  <2> QED
    BY <2>1, <2>2, <2>4, <2>5, OneTab
<1>11. ASSUME NEW t \in Tabs, RetryPut(t) PROVE IInv'
  <2>1. retrying[t] # NotRetrying /\ retrying[t].change \in Changes
    BY <1>0, <1>11 DEF RetryPut, TypeOK, NotRetrying
  <2>2. retrying[t].change \in retried /\ retrying[t].change \in ToSet(typed)
    BY <1>0, <2>1, OutboxAssumption DEF IInv, Remembers, OnlyTyped
  <2>3. Grows
    BY <1>11 DEF RetryPut, Grows, Heeded
  <2>4. ByTab(t)
    BY <1>0, <1>11, <2>2 DEF RetryPut, Retrying, flush, ByTab, OnlyTyped, TypeOK
  <2>5. /\ retrying'[t].change = retrying[t].change /\ retried' = retried
        /\ UNCHANGED flush
    BY <1>0, <1>11 DEF RetryPut, Retrying, TypeOK
  <2>6. Remembers(t)'
    BY <2>2, <2>3, <2>4, <2>5, RetryRemembers DEF ByTab
  <2>7. left'[t] \cup {current'[t], retrying'[t].change} \subseteq ToSet(typed) \cup {Nobody}
    BY <1>0, <2>5 DEF OnlyTyped, flush
  <2> QED
    BY <2>3, <2>4, <2>6, <2>7, OneTab
<1>12. ASSUME NEW t \in Tabs, RetryDelete(t) PROVE IInv'
  <2>1. retrying[t] # NotRetrying
    BY <1>12 DEF RetryDelete, NotRetrying
  <2>2. retrying[t].change \in retried
    BY <2>1 DEF IInv, Remembers
  <2>3. Grows
    BY <1>12, <2>2 DEF RetryDelete, Grows, Heeded
  <2>4. ByTab(t)
    BY <1>0, <1>12 DEF RetryDelete, flush, ByTab, OnlyTyped, TypeOK
  <2>5. retrying'[t] = NotRetrying /\ UNCHANGED flush
    BY <1>0, <1>12 DEF RetryDelete, TypeOK
  <2>6. Remembers(t)'
    BY <2>3, <2>4, <2>5, RetryRemembers DEF ByTab
  <2>7. left'[t] \cup {current'[t], retrying'[t].change} \subseteq ToSet(typed) \cup {Nobody}
    BY <1>0, <2>5 DEF OnlyTyped, flush, NotRetrying
  <2> QED
    BY <2>3, <2>4, <2>6, <2>7, OneTab
<1>13. ASSUME NEW t \in Tabs, Close(t) PROVE IInv'
  <2>1. Grows
    BY <1>13 DEF Close, Grows, Heeded
  <2>2. ByTab(t)
    BY <1>0, <1>13 DEF Close, Stop, ByTab, OnlyTyped, TypeOK
  <2>3. retrying'[t] = NotRetrying /\ Stop(t)
    BY <1>0, <1>13 DEF Close, TypeOK
  <2> QED
    BY <2>1, <2>2, <2>3, StopRemembers, OneTab
<1>14. CASE UNCHANGED vars
  <2>1. Grows /\ typed' = typed
    BY <1>14 DEF vars, Grows, Heeded
  <2>2. \A t \in Tabs : Remembers(t)'
    BY <1>14, <2>1, StillRemembers DEF vars, flush
  <2>3. OnlyTyped'
    BY <1>0, <1>14, SameTyped DEF vars, flush, OnlyTyped
  <2> QED
    BY <2>1, <2>2, <2>3, KeptOn DEF IInv
<1> QED
  BY <1>1, <1>2, <1>3, <1>4, <1>5, <1>6, <1>7, <1>8, <1>9, <1>10, <1>11, <1>12, <1>13, <1>14
     DEF Next, Reply

\* The inductive invariant: nothing typed is lost, whatever is in a store or on
\* its way to the server was typed, and what each tab remembers is still true,
\* whichever tabs send, retry and are closed meanwhile.
THEOREM OutboxInvariant == Spec => []IInv
<1>1. IInv /\ [Next]_vars => IInv'
  BY Typed, StepKept DEF IInv
<1> QED
  BY StartsKept, <1>1, PTL DEF Spec

\* Nothing typed is lost, unless it is retried by hand.
THEOREM NothingLost == Spec => []Kept
<1>1. IInv => Kept
  BY DEF IInv
<1> QED
  BY <1>1, OutboxInvariant, PTL

-----------------------------------------------------------------------------
(* Nothing overtakes.                                                      *)

\* What a tab sends is the oldest of what it has left.
LEMMA SendsTheOldest ==
    ASSUME IInv, IInv', [Next]_vars, NEW t \in Tabs, pc[t] = "send", pc'[t] = "answered"
    PROVE  SendAnswered(t)
<1>1. pc \in [Tabs -> {"idle", "send", "answered", "drop"}]
  BY DEF IInv, TypeOK
<1> QED
  BY <1>1 DEF Next, Reply, Enqueue, Dismiss, Start, SendAnswered, SendUnreached, Sent, Reject,
     Drop, PutBack, AfterFailure, NextOne, Stop, RetryRead, RetryPut, RetryDelete, Close,
     vars, flush

\* A change reaches the server only after everything typed before it.
THEOREM InOrder == Spec => SentInOrder
<1>1. ASSUME IInv, IInv', [Next]_vars, NEW t \in Tabs, pc[t] = "send", pc'[t] = "answered",
             NEW d \in Changes, Older(d, current'[t])
      PROVE  Heeded(d) \/ d \in retried
  <2>1. PICK c \in left[t] : Oldest(t, c) /\ current' = [current EXCEPT ![t] = c]
    BY <1>1, SendsTheOldest DEF SendAnswered
  <2>2. current'[t] = c /\ Remembers(t)
    BY <1>1, <2>1 DEF IInv, TypeOK
  <2>3. d \notin left[t] /\ current[t] = Nobody
    BY <1>1, <2>1, <2>2 DEF Oldest, Remembers
  <2> QED
    BY <1>1, <2>2, <2>3, OutboxAssumption DEF Remembers
<1>2. IInv /\ IInv' /\ [Next]_vars =>
        [\A t \in Tabs :
            (pc[t] = "send" /\ pc'[t] = "answered")
               => \A d \in Changes : Older(d, current'[t]) => Heeded(d) \/ d \in retried]_vars
  BY <1>1
<1> QED
  BY <1>2, OutboxInvariant, PTL DEF Spec, SentInOrder
=============================================================================
